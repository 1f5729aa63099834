-------------------------- MODULE CarriersProofs ----------------------------
(***************************************************************************)
(* Proofs about Carriers, for any chains, any number of threads, commands  *)
(* and deaths.  OneWorks says which threads act for which session,         *)
(* OneSession what is there beside a thread that was overtaken, and Owned  *)
(* to whom a hop belongs that the session there is does not own, and so    *)
(* who stops it.                                                           *)
(***************************************************************************)
EXTENDS Carriers, FiniteSetTheorems, TLAPS

Handling == {"hop", "tunnel", "mihomo", "failed"}
Waiting == {"take", "drop", "clear", "tell", "wait", "check", "lose"}
Mourning == {"engine", "teardown", "claim"}
Looking == {"begin", "take", "drop", "lose"}
Pcs == {"begin"} \union Handling \union Waiting \union Mourning
Handles(t) == thread[t].pc \in Handling
Mourns(t) == thread[t].pc \in Mourning
Looks(t) == thread[t].pc \in Looking
Starts(t) == Handles(t) /\ thread[t].why = "start"

Stopper == [pc |-> "stopping"]
Worker == [pc : Pcs, gen : Nat, pos : Nat \ {0}, profile : Profile,
           why : {"start", "move", "recovery", "end"}, attempt : Nat, holding : BOOLEAN]
Thread == {Free, Stopper} \union Worker

TypeOK ==
  /\ generation \in Nat
  /\ session \in {NoSession} \union [gen : Nat \ {None}, profile : Profile, attempt : Nat]
  /\ hop \in [Kinds -> Nat] /\ ended \subseteq Kinds
  /\ thread \in [Threads -> Thread]
  /\ \A w \in watches : w.gen \in Nat \ {None}

\* Nothing is of a generation that has not been, and who clears the proxy does not hold.
Known ==
  /\ \A k \in Kinds : hop[k] <= generation
  /\ \A t \in Threads : Works(t) \/ Mourns(t) => Gen(t) \in 1 .. generation
  /\ \A w \in watches : w.gen <= generation
  /\ HasSession => session.gen <= generation
  /\ \A t \in Threads : At(t, "clear") => ~thread[t].holding
  /\ \A t \in Threads : At(t, "begin") => thread[t].why = "start"

OneWorks == \A t, u \in Threads : Works(t) /\ Works(u) /\ Gen(t) = Gen(u) => t = u

\* What acts for the live generation: a thread, a watch, a hop.
Live(t) == (Works(t) \/ Mourns(t)) /\ Current(Gen(t))
Fresh ==
  /\ \A t \in Threads : ~Live(t)
  /\ \A w \in watches : ~Current(w.gen)
  /\ \A k \in Kinds : hop[k] # generation

Writes(t) == thread[t].pc \in {"take", "drop", "lose"} \/ Starts(t)
OneSession ==
  /\ \A t, u \in Threads : Looks(t) /\ Looks(u) => t = u
  /\ \A t \in Threads : At(t, "begin") => ~HasSession /\ \A u \in Threads : ~Writes(u)
  /\ \A t \in Threads : Writes(t) /\ ~Current(Gen(t)) => Fresh
  /\ \A t \in Threads : Handles(t) /\ Current(Gen(t)) => HasSession
  /\ \A w \in watches, t \in Threads :
       Current(w.gen) /\ Works(t) /\ Current(Gen(t)) => thread[t].why = "move"
  /\ \A t, u \in Threads : Mourns(t) /\ Works(u) /\ Current(Gen(t)) => ~Current(Gen(u))

Awaits(t, k) == At(t, "tunnel") /\ Gen(t) = hop[k] /\ Kind(t) = k
Awaited(k) == \E t \in Threads : Awaits(t, k)
Owned ==
  /\ \A t \in Threads : At(t, "tunnel") => thread[t].pos <= Len(Route(t))
  /\ \A k \in Kinds : hop[k] # None /\ ~Current(hop[k]) => k # "aether" /\ Awaited(k)
  /\ \A k \in Kinds : hop[k] # None /\ Current(hop[k]) =>
       /\ HasSession
       /\ \A t \in Threads : At(t, "claim") \/ thread[t].pc \in Waiting => ~Current(Gen(t))
       /\ k # "aether" /\ (\E t \in Threads : At(t, "stopping")) => Awaited(k)
  /\ \A t \in Threads, k \in Kinds : Handles(t) /\ Route(t) = Alone => hop[k] # Gen(t)

Stay(T) == \A u \in T : thread'[u] = thread[u]

\* A thread goes to pc, and works on for what it works; or leaves.
Same(t) ==
  /\ thread'[t].gen = thread[t].gen /\ thread'[t].why = thread[t].why
  /\ thread'[t].holding = thread[t].holding /\ thread'[t].profile = thread[t].profile
Goes(t, pc) ==
  /\ thread' \in [Threads -> Thread] /\ thread'[t] \in Worker /\ Stay(Threads \ {t})
  /\ thread'[t].pc = pc /\ Same(t)
Leaves(t) ==
  /\ thread' \in [Threads -> Thread] /\ thread'[t] = Free /\ Stay(Threads \ {t})

\* Where a thread stands says what it is.
LEMMA PcTells ==
  ASSUME TypeOK, NEW t \in Threads
  PROVE  /\ thread[t].pc = "idle" => thread[t] = Free
         /\ thread[t].pc = "stopping" => thread[t] = Stopper
         /\ thread[t].pc \notin {"idle", "stopping"} => thread[t] \in Worker
BY DEF TypeOK, Thread, Free, Stopper, Worker, Pcs, Handling, Waiting, Mourning

\* A worker is what its fields say.
LEMMA WorkerFields ==
  ASSUME NEW r \in Worker
  PROVE  /\ r.pc \in Pcs /\ r.gen \in Nat
         /\ r.pos \in Nat \ {0} /\ r.profile \in Profile /\ r.attempt \in Nat
         /\ r.why \in {"start", "move", "recovery", "end"} /\ r.holding \in BOOLEAN
         /\ r.profile.route \in Seq(Kinds) /\ Len(r.profile.route) \in Nat
BY DEF Worker, Profile

\* A worker written anew in some fields stays one.
LEMMA WorkerSet ==
  ASSUME NEW r \in Worker, NEW l \in Pcs
  PROVE  /\ [r EXCEPT !.pc = l] \in Worker
         /\ \A n \in Nat \ {0} : [r EXCEPT !.pc = l, !.pos = n] \in Worker
         /\ \A g \in Nat : [r EXCEPT !.pc = l, !.gen = g] \in Worker
         /\ \A n \in Nat : [r EXCEPT !.attempt = n] \in Worker
         /\ \A n \in Nat : [r EXCEPT !.pc = l, !.attempt = n] \in Worker
         /\ \A p \in Profile : [r EXCEPT !.pc = l, !.pos = 1, !.profile = p] \in Worker
<1>1. [r EXCEPT !.pc = l] \in Worker
  BY DEF Worker
<1>2. \A n \in Nat \ {0} : [r EXCEPT !.pc = l, !.pos = n] \in Worker
  BY DEF Worker
<1>3. \A g \in Nat : [r EXCEPT !.pc = l, !.gen = g] \in Worker
  BY DEF Worker
<1>4. \A n \in Nat : [r EXCEPT !.attempt = n] \in Worker
  BY DEF Worker
<1>5. \A n \in Nat : [r EXCEPT !.pc = l, !.attempt = n] \in Worker
  BY DEF Worker
<1>6. ASSUME NEW p \in Profile PROVE [r EXCEPT !.pc = l, !.pos = 1, !.profile = p] \in Worker
  <2> DEFINE q == [r EXCEPT !.pc = l, !.pos = 1]
  <2>1. q \in Worker
    <3>1. 1 \in Nat \ {0}
      OBVIOUS
    <3> QED BY <1>2, <3>1
  <2>2. [r EXCEPT !.pc = l, !.pos = 1, !.profile = p] = [q EXCEPT !.profile = p]
    BY DEF Worker
  <2> HIDE DEF q
  <2> QED BY <2>1, <2>2 DEF Worker
<1> QED BY <1>1, <1>2, <1>3, <1>4, <1>5, <1>6

\* A thread that is written anew.
LEMMA Written ==
  ASSUME TypeOK, NEW t \in Threads, NEW r \in Thread, thread' = [thread EXCEPT ![t] = r]
  PROVE  thread' \in [Threads -> Thread] /\ thread'[t] = r /\ Stay(Threads \ {t})
BY DEF TypeOK, Stay

\* A worker that is written anew and works on for what it did.
LEMMA WorksOn ==
  ASSUME TypeOK, NEW t \in Threads, NEW r \in Worker, thread' = [thread EXCEPT ![t] = r],
         r.gen = thread[t].gen, r.why = thread[t].why, r.holding = thread[t].holding,
         r.profile = thread[t].profile
  PROVE  Goes(t, r.pc) /\ thread'[t] = r
<1>1. r \in Thread
  BY DEF Thread
<1> QED BY <1>1, Written DEF Goes, Same

\* What a change of place does.
LEMMA GotoDoes ==
  ASSUME TypeOK, NEW t \in Threads, thread[t] \in Worker, NEW l \in Pcs, Goto(t, l)
  PROVE  /\ Goes(t, l)
         /\ thread'[t].pos = thread[t].pos
<1> DEFINE r == [thread[t] EXCEPT !.pc = l]
<1>1. r \in Worker
  BY WorkerSet
<1>2. thread' = [thread EXCEPT ![t] = r]
  BY DEF Goto, TypeOK
<1>3. /\ r.pc = l /\ r.gen = thread[t].gen /\ r.pos = thread[t].pos
      /\ r.profile = thread[t].profile /\ r.why = thread[t].why /\ r.holding = thread[t].holding
  BY DEF Worker
<1> HIDE DEF r
<1>4. thread'[t] = r
  BY <1>1, <1>2, Written DEF Thread
<1> QED BY <1>1, <1>2, <1>3, <1>4, WorksOn

\* What leaving does.
LEMMA LeaveDoes ==
  ASSUME TypeOK, NEW t \in Threads, Leave(t)
  PROVE  Leaves(t)
BY Written DEF Leave, Leaves, Thread

\* A thread that starts hops.
LEMMA StarterIsWorker ==
  ASSUME NEW g \in Nat, NEW p \in Profile, NEW why \in {"start", "move", "recovery", "end"},
         NEW attempt \in Nat
  PROVE  Starter(g, p, why, attempt) \in Worker
BY DEF Starter, Worker, Pcs, Handling

\* What most steps leave alone, and what a step may do to the hops at most: end some.
Frame == UNCHANGED <<generation, session, watches>>
Fewer == hop' \in [Kinds -> Nat] /\ \A k \in Kinds : hop'[k] \in {None, hop[k]}
Slots == hop' \in [Kinds -> Nat] /\ ended' \subseteq Kinds

\* What is done to the slots.
LEMMA SlotsAre ==
  ASSUME TypeOK
  PROVE  /\ UNCHANGED processes => Slots /\ Fewer /\ hop' = hop
         /\ StopAllHops => Slots /\ Fewer /\ hop' = Off
         /\ \A k, g : Fill(k, g) /\ g \in Nat => Slots /\ hop' = [hop EXCEPT ![k] = g]
         /\ \A k : Fill(k, None) => Slots /\ Fewer /\ hop' = [hop EXCEPT ![k] = None]
<1>1. UNCHANGED processes => Slots /\ Fewer /\ hop' = hop
  BY DEF TypeOK, processes, Slots, Fewer
<1>2. StopAllHops => Slots /\ Fewer /\ hop' = Off
  BY DEF TypeOK, StopAllHops, Slots, Fewer, Off, None
<1>3. \A k, g : Fill(k, g) /\ g \in Nat => Slots /\ hop' = [hop EXCEPT ![k] = g]
  BY DEF TypeOK, Fill, Slots
<1>4. ASSUME NEW k, Fill(k, None) PROVE Slots /\ Fewer /\ hop' = [hop EXCEPT ![k] = None]
  <2>1. hop' = [hop EXCEPT ![k] = None] /\ Slots
    BY <1>3, <1>4 DEF Fill, None
  <2>2. \A j \in Kinds : hop'[j] \in {None, hop[j]}
    BY <2>1 DEF TypeOK
  <2> QED BY <2>1, <2>2 DEF Fewer, Slots
<1> QED BY <1>1, <1>2, <1>3, <1>4

\* Types are kept by a thread that goes on or leaves, if the frame is.
LEMMA FrameTypes ==
  ASSUME TypeOK, Frame, thread' \in [Threads -> Thread], Slots
  PROVE  TypeOK'
BY DEF TypeOK, Frame, Slots


\* A thread at work goes on with the same, or leaves; nothing else moves but the hops.
Onward(t) ==
  /\ Frame /\ thread[t] \in Worker
  /\ \/ Leaves(t)
     \/ \E l \in Handling : Handles(t) /\ Goes(t, l)
     \/ \E l \in {"tell", "wait", "check"} : Works(t) /\ Goes(t, l)
     \/ Mourns(t) /\ Goes(t, "claim")

\* It is typed, and what it leaves is.
LEMMA OnwardTypes ==
  ASSUME TypeOK, NEW t \in Threads, Onward(t), Slots
  PROVE  TypeOK'
BY FrameTypes DEF Onward, Leaves, Goes

\* A hop is started.
LEMMA StartHopDoes ==
  ASSUME TypeOK, NEW t \in Threads, StartHop(t)
  PROVE  /\ TypeOK' /\ Onward(t) /\ At(t, "hop") /\ Route(t) # Alone /\ thread[t].pos <= Len(Route(t))
         /\ Goes(t, "tunnel") /\ thread'[t].pos = thread[t].pos
         /\ Kind(t) = "aether" => Current(Gen(t))
         /\ hop' = [hop EXCEPT ![Kind(t)] = Gen(t)] /\ Gen(t) \in Nat
<1>1. thread[t] \in Worker /\ At(t, "hop") /\ Frame
  BY PcTells DEF StartHop, At, Frame
<1>2. Goes(t, "tunnel") /\ thread'[t].pos = thread[t].pos
  BY <1>1, GotoDoes DEF StartHop, Pcs, Handling
<1>3. Gen(t) \in Nat
  BY <1>1, WorkerFields DEF Gen
<1>4. Slots /\ hop' = [hop EXCEPT ![Kind(t)] = Gen(t)]
  BY <1>3, SlotsAre DEF StartHop
<1>5. Onward(t)
  BY <1>1, <1>2 DEF Onward, Handles, Handling, At
<1> QED BY <1>1, <1>2, <1>3, <1>4, <1>5, OnwardTypes DEF StartHop

\* The tunnel of a hop is up: the thread goes on with the next hop, or stops them all.
LEMMA HopUpDoes ==
  ASSUME TypeOK, NEW t \in Threads, HopUp(t)
  PROVE  /\ TypeOK' /\ Onward(t) /\ Fewer /\ At(t, "tunnel") /\ SlowEnough
         /\ \/ Current(Gen(t)) /\ hop' = hop /\ Goes(t, "hop")
            \/ hop' = Off /\ Goes(t, "failed")
<1>1. thread[t] \in Worker /\ At(t, "tunnel") /\ Frame /\ SlowEnough
  BY PcTells DEF HopUp, At, Frame
<1>2. CASE Current(Gen(t))
  <2> DEFINE n == thread[t].pos + 1
             r == [thread[t] EXCEPT !.pc = "hop", !.pos = n]
  <2>1. n \in Nat \ {0}
    BY <1>1, WorkerFields
  <2>2. thread' = [thread EXCEPT ![t] = [thread[t] EXCEPT !.pc = "hop", !.pos = thread[t].pos + 1]]
    BY <1>1, <1>2 DEF HopUp, TypeOK
  <2>3. thread' = [thread EXCEPT ![t] = r]
    BY <2>2
  <2> HIDE DEF n
  <2>4. r \in Worker /\ r.pc = "hop" /\ r.gen = thread[t].gen /\ r.profile = thread[t].profile
        /\ r.why = thread[t].why /\ r.holding = thread[t].holding
    BY <1>1, <2>1, WorkerSet DEF Worker, Pcs, Handling
  <2> HIDE DEF r
  <2>5. Goes(t, "hop")
    <3>1. Goes(t, r.pc)
      BY <2>3, <2>4, WorksOn
    <3> QED BY <2>4, <3>1
  <2>6. Slots /\ Fewer /\ hop' = hop
    BY <1>2, SlotsAre DEF HopUp
  <2>7. Onward(t)
    BY <1>1, <2>5 DEF Onward, Handles, Handling, At
  <2> QED BY <1>1, <1>2, <2>5, <2>6, <2>7, OnwardTypes
<1>3. CASE ~Current(Gen(t))
  <2>1. Slots /\ Fewer /\ hop' = Off
    BY <1>3, SlotsAre DEF HopUp
  <2>2. Goes(t, "failed")
    BY <1>1, <1>3, GotoDoes DEF HopUp, Pcs, Handling
  <2>3. Onward(t)
    BY <1>1, <2>2 DEF Onward, Handles, Handling, At
  <2> QED BY <1>1, <2>1, <2>2, <2>3, OnwardTypes
<1> QED BY <1>2, <1>3

\* A hop that fails empties its slot, or is left.
LEMMA HopFailsDoes ==
  ASSUME TypeOK, NEW t \in Threads, HopFails(t)
  PROVE  /\ TypeOK' /\ Onward(t) /\ Fewer /\ At(t, "tunnel") /\ Goes(t, "failed")
         /\ \/ hop' = [hop EXCEPT ![Kind(t)] = None]
            \/ hop' = hop /\ (Kind(t) = "aether" \/ "tunnel" \notin Calm)
<1>1. thread[t] \in Worker /\ At(t, "tunnel") /\ Frame
  BY PcTells DEF HopFails, At, Frame, supervisor
<1>2. Goes(t, "failed")
  BY <1>1, GotoDoes DEF HopFails, Pcs, Handling
<1>3. /\ Slots /\ Fewer
      /\ \/ hop' = [hop EXCEPT ![Kind(t)] = None]
         \/ hop' = hop /\ (Kind(t) = "aether" \/ "tunnel" \notin Calm)
  BY SlotsAre DEF HopFails
<1>4. Onward(t)
  BY <1>1, <1>2 DEF Onward, Handles, Handling, At
<1> QED BY <1>1, <1>2, <1>3, <1>4, OnwardTypes

\* Steps that leave the hops alone: of a start that goes on or fails, ...
LEMMA HandlingDoes ==
  ASSUME TypeOK, NEW t \in Threads, LaunchFails(t) \/ EngineFails(t) \/ Joined(t)
  PROVE  /\ TypeOK' /\ Onward(t) /\ hop' = hop /\ ~At(t, "tunnel")
         /\ \E l \in {"mihomo", "failed"} : Goes(t, l)
<1>1. thread[t] \in Worker /\ Handles(t) /\ ~At(t, "tunnel") /\ Frame /\ UNCHANGED processes
  BY PcTells DEF LaunchFails, EngineFails, Joined, At, Frame, supervisor, Handles, Handling
<1>2. \E l \in {"mihomo", "failed"} : Goes(t, l)
  BY <1>1, GotoDoes DEF LaunchFails, EngineFails, Joined, Pcs, Handling
<1>3. Slots /\ hop' = hop
  BY <1>1, SlotsAre
<1>4. Onward(t)
  BY <1>1, <1>2 DEF Onward, Handling
<1> QED BY <1>1, <1>2, <1>3, <1>4, OnwardTypes

\* ... of one that was overtaken and leaves, ...
LEMMA LeavingDoes ==
  ASSUME TypeOK, NEW t \in Threads,
         \/ Launch(t) /\ ~Current(Gen(t))
         \/ StartFailed(t) /\ thread[t].why # "start"
         \/ Claim(t) /\ ~Current(Gen(t))
         \/ Check(t) /\ ~Current(Gen(t))
         \/ RecoveryEnds(t)
  PROVE  TypeOK' /\ Onward(t) /\ hop' = hop /\ ~At(t, "tunnel") /\ Leaves(t)
<1>1. thread[t] \in Worker /\ ~At(t, "tunnel") /\ Frame /\ UNCHANGED processes
  BY PcTells DEF Launch, StartFailed, Claim, Check, RecoveryEnds, At, Frame, supervisor
<1>2. Leaves(t)
  BY LeaveDoes DEF Launch, StartFailed, Claim, Check, RecoveryEnds
<1>3. Slots /\ hop' = hop
  BY <1>1, SlotsAre
<1>4. Onward(t)
  BY <1>1, <1>2 DEF Onward
<1> QED BY <1>1, <1>2, <1>3, <1>4, OnwardTypes

\* ... and of a recovery.
LEMMA WaitingDoes ==
  ASSUME TypeOK, NEW t \in Threads, ClearProxy(t) \/ Tell(t) \/ RoundFails(t)
  PROVE  /\ TypeOK' /\ Onward(t) /\ hop' = hop /\ thread[t].pc \in Waiting
         /\ Leaves(t) \/ Goes(t, "wait")
<1>1. thread[t] \in Worker /\ thread[t].pc \in Waiting /\ Frame /\ UNCHANGED processes
  BY PcTells DEF ClearProxy, Tell, RoundFails, At, Frame, supervisor, Waiting
<1>2. ASSUME ClearProxy(t) \/ Tell(t) PROVE Leaves(t) \/ Goes(t, "wait")
  <2>1. Goto(t, "wait") => Goes(t, "wait")
    BY <1>1, GotoDoes DEF Pcs, Waiting
  <2>2. Goto(t, "wait") \/ Leave(t)
    BY <1>2 DEF ClearProxy, Tell, Go
  <2> QED BY <2>1, <2>2, LeaveDoes
<1>3. ASSUME RoundFails(t) PROVE Goes(t, "wait")
  <2> DEFINE n == thread[t].attempt + 1
             r == [thread[t] EXCEPT !.attempt = n]
  <2>1. n \in Nat
    BY <1>1, WorkerFields
  <2>2. thread' = [thread EXCEPT ![t] = [thread[t] EXCEPT !.attempt = thread[t].attempt + 1]]
    BY <1>1, <1>3 DEF RoundFails, TypeOK
  <2>3. thread' = [thread EXCEPT ![t] = r] /\ thread[t].pc = "wait"
    BY <1>3, <2>2 DEF RoundFails, At
  <2> HIDE DEF n
  <2>4. r \in Worker /\ r.pc = thread[t].pc /\ r.gen = thread[t].gen /\ r.profile = thread[t].profile
        /\ r.why = thread[t].why /\ r.holding = thread[t].holding
    <3>1. "wait" \in Pcs
      BY DEF Pcs, Waiting
    <3> QED BY <1>1, <2>1, <3>1, WorkerSet DEF Worker
  <2> HIDE DEF r
  <2>5. Goes(t, r.pc)
    BY <2>3, <2>4, WorksOn
  <2> QED BY <2>3, <2>4, <2>5
<1>4. Leaves(t) \/ Goes(t, "wait")
  BY <1>2, <1>3
<1>5. Slots /\ hop' = hop
  BY <1>1, SlotsAre
<1>6. Onward(t)
  BY <1>1, <1>4 DEF Onward, Works, Waiting
<1> QED BY <1>1, <1>4, <1>5, <1>6, OnwardTypes

\* Everything is stopped.
LEMMA EmptyingDoes ==
  ASSUME TypeOK, NEW t \in Threads, Teardown(t) \/ AttemptFailed(t)
  PROVE  /\ TypeOK' /\ Onward(t) /\ Fewer /\ hop' = Off
         /\ \E l \in {"claim", "check"} : Goes(t, l)
<1>1. /\ thread[t] \in Worker /\ Frame /\ StopAllHops
      /\ (Teardown(t) => Mourns(t)) /\ (AttemptFailed(t) => Works(t))
  BY PcTells DEF Teardown, AttemptFailed, At, Frame, Mourns, Mourning, Works
<1>2. (Teardown(t) => Goes(t, "claim")) /\ (AttemptFailed(t) => Goes(t, "check"))
  BY <1>1, GotoDoes DEF Teardown, AttemptFailed, Pcs, Mourning, Waiting
<1>3. Slots /\ Fewer /\ hop' = Off
  BY <1>1, SlotsAre
<1>4. Onward(t)
  BY <1>1, <1>2 DEF Onward
<1> QED BY <1>1, <1>2, <1>3, <1>4, OnwardTypes

\* A new generation: of a start, ...
LEMMA BeginDoes ==
  ASSUME TypeOK, NEW t \in Threads, Begin(t)
  PROVE  /\ TypeOK' /\ thread[t] \in Worker /\ At(t, "begin") /\ UNCHANGED <<session, watches, hop>>
         /\ generation' = generation + 1 /\ Stay(Threads \ {t})
         /\ thread'[t] \in Worker /\ thread'[t].pc = "take" /\ thread'[t].gen = generation'
<1>1. /\ thread[t] \in Worker /\ At(t, "begin") /\ UNCHANGED <<session, watches, processes>>
      /\ generation' = generation + 1
  BY PcTells DEF Begin, At
<1> DEFINE g == generation'
           r == [thread[t] EXCEPT !.pc = "take", !.gen = g]
<1>2. g \in Nat
  BY <1>1 DEF TypeOK
<1>3. thread' = [thread EXCEPT ![t] = r]
  BY DEF Begin, TypeOK
<1> HIDE DEF g
<1>4. r \in Worker /\ r.pc = "take" /\ r.gen = g
  BY <1>1, <1>2, WorkerSet DEF Worker, Pcs, Waiting
<1> HIDE DEF r
<1>5. thread' \in [Threads -> Thread] /\ thread'[t] = r /\ Stay(Threads \ {t})
  BY <1>3, <1>4, Written DEF Thread
<1>6. Slots /\ hop' = hop
  BY <1>1, SlotsAre
<1>7. TypeOK'
  BY <1>1, <1>2, <1>5, <1>6 DEF TypeOK, Slots, g
<1> QED BY <1>1, <1>4, <1>5, <1>6, <1>7 DEF g

\* ... and of a recovery that takes the session over.
LEMMA ClaimDoes ==
  ASSUME TypeOK, NEW t \in Threads, Claim(t), Current(Gen(t))
  PROVE  /\ TypeOK' /\ thread[t] \in Worker /\ At(t, "claim") /\ UNCHANGED <<session, watches, hop>>
         /\ generation' = generation + 1 /\ Stay(Threads \ {t}) /\ Prompt
         /\ thread'[t] \in Worker /\ thread'[t].pc = "drop" /\ thread'[t].gen = generation'
<1>1. /\ thread[t] \in Worker /\ At(t, "claim") /\ UNCHANGED <<session, watches, processes>>
      /\ generation' = generation + 1 /\ Prompt
  BY PcTells DEF Claim, At
<1> DEFINE g == generation'
           r == [thread[t] EXCEPT !.pc = "drop", !.gen = g]
<1>2. g \in Nat
  BY <1>1 DEF TypeOK
<1>3. thread' = [thread EXCEPT ![t] = r]
  BY DEF Claim, TypeOK
<1> HIDE DEF g
<1>4. r \in Worker /\ r.pc = "drop" /\ r.gen = g
  BY <1>1, <1>2, WorkerSet DEF Worker, Pcs, Waiting
<1> HIDE DEF r
<1>5. thread' \in [Threads -> Thread] /\ thread'[t] = r /\ Stay(Threads \ {t})
  BY <1>3, <1>4, Written DEF Thread
<1>6. Slots /\ hop' = hop
  BY <1>1, SlotsAre
<1>7. TypeOK'
  BY <1>1, <1>2, <1>5, <1>6 DEF TypeOK, Slots, g
<1> QED BY <1>1, <1>4, <1>5, <1>6, <1>7 DEF g

\* The session is claimed.
LEMMA TakeDoes ==
  ASSUME TypeOK, Known, NEW t \in Threads, Take(t)
  PROVE  /\ TypeOK' /\ thread[t] \in Worker /\ At(t, "take") /\ UNCHANGED <<generation, watches, hop>>
         /\ session' # NoSession /\ session'.gen = Gen(t) /\ Goes(t, "hop")
<1>1. thread[t] \in Worker /\ At(t, "take") /\ UNCHANGED <<generation, watches, processes>>
  BY PcTells DEF Take, At
<1>2. Goes(t, "hop")
  BY <1>1, GotoDoes DEF Take, Pcs, Handling
<1>3. Gen(t) \in Nat \ {None}
  BY <1>1 DEF Known, Works, At, TypeOK, None
<1>4. session' = [gen |-> Gen(t), profile |-> thread[t].profile, attempt |-> thread[t].attempt]
  BY DEF Take
<1>5. session' \in [gen : Nat \ {None}, profile : Profile, attempt : Nat] /\ session'.gen = Gen(t)
  BY <1>1, <1>3, <1>4, WorkerFields
<1>6. session' # NoSession
  BY <1>5 DEF NoSession, None
<1>7. Slots /\ hop' = hop
  BY <1>1, SlotsAre
<1> QED BY <1>1, <1>2, <1>5, <1>6, <1>7 DEF TypeOK, Goes, Slots

\* A session is watched.
LEMMA WatchedDoes ==
  ASSUME TypeOK, Known, NEW t \in Threads, (Launch(t) /\ Current(Gen(t))) \/ Publish(t)
  PROVE  /\ TypeOK' /\ thread[t] \in Worker /\ Handles(t) /\ UNCHANGED <<generation, session>>
         /\ Leaves(t) /\ ~At(t, "tunnel") /\ \E w : w.gen = Gen(t) /\ watches' = watches \union {w}
         /\ \/ hop' = [hop EXCEPT !["aether"] = Gen(t)] /\ Current(Gen(t))
            \/ hop' = hop
<1>1. /\ thread[t] \in Worker /\ Handles(t) /\ UNCHANGED <<generation, session>> /\ Leaves(t)
      /\ ~At(t, "tunnel")
  BY PcTells, LeaveDoes DEF Launch, Publish, At, supervisor, Handles, Handling
<1>2. Gen(t) \in Nat \ {None}
  BY <1>1 DEF Known, Works, Handles, Handling, TypeOK, None
<1>3. \E w : w.gen = Gen(t) /\ watches' = watches \union {w}
  <2>1. Watching(t).gen = Gen(t) /\ Monitor(t).gen = Gen(t)
    BY DEF Watching, Monitor
  <2> QED BY <2>1 DEF Launch, Publish
<1>4. /\ Slots
      /\ \/ hop' = [hop EXCEPT !["aether"] = Gen(t)] /\ Current(Gen(t))
         \/ hop' = hop
  BY <1>2, SlotsAre DEF Launch, Publish
<1>5. \A w \in watches' : w.gen \in Nat \ {None}
  BY <1>2, <1>3 DEF TypeOK
<1> QED BY <1>1, <1>3, <1>4, <1>5 DEF TypeOK, Leaves, Slots

\* A start by hand that failed clears its session and, for carriers, every hop.
LEMMA StartFailedDoes ==
  ASSUME TypeOK, NEW t \in Threads, StartFailed(t), thread[t].why = "start"
  PROVE  /\ TypeOK' /\ thread[t] \in Worker /\ At(t, "failed") /\ Leaves(t) /\ Fewer
         /\ UNCHANGED <<generation, watches>> /\ session' = NoSession
         /\ hop' = Off \/ (Route(t) = Alone /\ hop' = hop)
<1>1. /\ thread[t] \in Worker /\ At(t, "failed") /\ Leaves(t)
      /\ UNCHANGED <<generation, watches>> /\ session' = NoSession
  BY PcTells, LeaveDoes DEF StartFailed, At
<1>2. Slots /\ Fewer /\ (hop' = Off \/ (Route(t) = Alone /\ hop' = hop))
  BY SlotsAre DEF StartFailed
<1> QED BY <1>1, <1>2 DEF TypeOK, Leaves, Slots

\* The claim on a dead session goes.
LEMMA DropDoes ==
  ASSUME TypeOK, NEW t \in Threads, Drop(t) \/ Lose(t)
  PROVE  /\ TypeOK' /\ thread[t] \in Worker /\ thread[t].pc \in {"drop", "lose"}
         /\ UNCHANGED <<generation, watches, hop>> /\ session' = NoSession
         /\ \/ Leaves(t)
            \/ \E l \in {"clear", "tell", "wait"} : Goes(t, l) /\ (l = "clear" => ~thread[t].holding)
<1>1. /\ thread[t] \in Worker /\ thread[t].pc \in {"drop", "lose"}
      /\ UNCHANGED <<generation, watches, processes>> /\ session' = NoSession
  BY PcTells DEF Drop, Lose, At
<1>2. ASSUME Drop(t)
      PROVE  \/ Leaves(t)
             \/ \E l \in {"clear", "tell", "wait"} : Goes(t, l) /\ (l = "clear" => ~thread[t].holding)
  <2>1. \A l \in {"clear", "tell", "wait"} : Goto(t, l) => Goes(t, l)
    BY <1>1, GotoDoes DEF Pcs, Waiting
  <2>2. \/ Leave(t)
        \/ \E l \in {"clear", "tell", "wait"} : Goto(t, l) /\ (l = "clear" => ~thread[t].holding)
    BY <1>2 DEF Drop, Go
  <2> QED BY <2>1, <2>2, LeaveDoes
<1>3. ASSUME Lose(t) PROVE Goes(t, "tell")
  <2> DEFINE n == thread[t].attempt + 1
             r == [thread[t] EXCEPT !.pc = "tell", !.attempt = n]
  <2>1. n \in Nat
    BY <1>1, WorkerFields
  <2>2. thread' = [thread EXCEPT ![t] = [thread[t] EXCEPT !.pc = "tell", !.attempt = thread[t].attempt + 1]]
    BY <1>1, <1>3 DEF Lose, TypeOK
  <2>3. thread' = [thread EXCEPT ![t] = r]
    BY <2>2
  <2> HIDE DEF n
  <2>4. r \in Worker /\ r.pc = "tell" /\ r.gen = thread[t].gen /\ r.profile = thread[t].profile
        /\ r.why = thread[t].why /\ r.holding = thread[t].holding
    BY <1>1, <2>1, WorkerSet DEF Worker, Pcs, Waiting
  <2> HIDE DEF r
  <2>5. Goes(t, r.pc)
    BY <2>3, <2>4, WorksOn
  <2> QED BY <2>4, <2>5
<1>4. Slots /\ hop' = hop
  BY <1>1, SlotsAre
<1>5. \/ Leaves(t)
      \/ \E l \in {"clear", "tell", "wait"} : Goes(t, l) /\ (l = "clear" => ~thread[t].holding)
  BY <1>2, <1>3
<1> QED BY <1>1, <1>4, <1>5 DEF TypeOK, Leaves, Goes, Slots

\* A thread that looked and may act.
LEMMA LooksDoes ==
  ASSUME TypeOK, NEW t \in Threads, Attempt(t) \/ (Check(t) /\ Current(Gen(t)))
  PROVE  /\ TypeOK' /\ thread[t] \in Worker /\ thread[t].pc \in Waiting /\ Current(Gen(t))
         /\ Frame /\ hop' = hop /\ Stay(Threads \ {t}) /\ Prompt
         /\ thread'[t] \in Worker /\ thread'[t].pc \in {"take", "lose"}
         /\ thread'[t].gen = thread[t].gen /\ thread'[t].why = thread[t].why
         /\ thread'[t].holding = thread[t].holding
<1>1. /\ thread[t] \in Worker /\ thread[t].pc \in Waiting /\ Current(Gen(t)) /\ Prompt
      /\ Frame /\ UNCHANGED processes
  BY PcTells DEF Attempt, Check, At, Waiting, Frame, supervisor
<1>2. Slots /\ hop' = hop
  BY <1>1, SlotsAre
<1>3. CASE Check(t)
  <2>1. Goes(t, "lose")
    BY <1>1, <1>3, GotoDoes DEF Check, Pcs, Waiting
  <2> QED BY <1>1, <1>2, <2>1, FrameTypes DEF Goes, Same
<1>4. CASE Attempt(t)
  <2>1. PICK route \in Seq(Kinds) :
          thread' = [thread EXCEPT ![t].pc = "take", ![t].pos = 1, ![t].profile.route = route]
    <3>1. Route(t) \in Seq(Kinds)
      BY <1>1, WorkerFields DEF Route
    <3> QED BY <1>4, <3>1, ProfilesAreProfiles DEF Attempt
  <2> DEFINE p == [thread[t].profile EXCEPT !.route = route]
             r == [thread[t] EXCEPT !.pc = "take", !.pos = 1, !.profile = p]
  <2>2. p \in Profile
    BY <1>1 DEF Worker, Profile
  <2>3. thread' = [thread EXCEPT ![t] = r]
    BY <1>1, <2>1 DEF TypeOK, Worker
  <2> HIDE DEF p
  <2>4. r \in Worker
    BY <1>1, <2>2, WorkerSet DEF Pcs, Waiting
  <2>5. /\ r.pc = "take" /\ r.gen = thread[t].gen /\ r.why = thread[t].why
        /\ r.holding = thread[t].holding
    BY <1>1 DEF Worker
  <2> HIDE DEF r
  <2>6. thread' \in [Threads -> Thread] /\ thread'[t] = r /\ Stay(Threads \ {t})
    BY <2>3, <2>4, Written DEF Thread
  <2> QED BY <1>1, <1>2, <2>4, <2>5, <2>6, FrameTypes
<1> QED BY <1>3, <1>4

\* A disconnect: the hops but the engine first, ...
LEMMA StopDoes ==
  ASSUME TypeOK, NEW t \in Threads, Stop(t)
  PROVE  /\ TypeOK' /\ thread[t] = Free /\ Frame /\ Fewer
         /\ thread'[t] = Stopper /\ Stay(Threads \ {t})
         /\ \A k \in Kinds \ {"aether"} : hop'[k] = None
<1>1. thread[t] = Free /\ Frame
  BY PcTells DEF Stop, Command, FirstFree, At, Frame, supervisor
<1>2. thread' = [thread EXCEPT ![t] = Stopper]
  BY DEF Stop, Stopper
<1>3. thread' \in [Threads -> Thread] /\ thread'[t] = Stopper /\ Stay(Threads \ {t})
  BY <1>2, Written DEF Thread
<1>4. hop' \in [Kinds -> Nat] /\ Fewer /\ \A k \in Kinds \ {"aether"} : hop'[k] = None
  BY DEF Stop, Fewer, TypeOK, None
<1>5. ended' \subseteq Kinds
  BY DEF Stop, TypeOK
<1> QED BY <1>1, <1>3, <1>4, <1>5, FrameTypes DEF Slots

\* ... then the generation and the engine.
LEMMA StoppedDoes ==
  ASSUME TypeOK, NEW t \in Threads, Stopped(t)
  PROVE  /\ TypeOK' /\ thread[t] = Stopper /\ watches' = watches /\ Leaves(t) /\ Fewer
         /\ generation' = generation + 1 /\ session' = NoSession
         /\ hop' = [hop EXCEPT !["aether"] = None]
<1>1. /\ thread[t] = Stopper /\ watches' = watches /\ Leaves(t)
      /\ generation' = generation + 1 /\ session' = NoSession
  BY PcTells, LeaveDoes DEF Stopped, At
<1>2. Slots /\ Fewer /\ hop' = [hop EXCEPT !["aether"] = None]
  BY SlotsAre DEF Stopped
<1> QED BY <1>1, <1>2 DEF TypeOK, Leaves, Slots

\* A start by hand, when there is no session.
LEMMA StartDoes ==
  ASSUME TypeOK, NEW t \in Threads, Start(t)
  PROVE  /\ TypeOK' /\ thread[t] = Free /\ Frame /\ hop' = hop /\ Stay(Threads \ {t})
         /\ ~HasSession /\ Prompt /\ ("user" \in Calm => ~Busy("start"))
         /\ thread'[t] \in Worker /\ thread'[t].pc = "begin" /\ thread'[t].why = "start"
<1>1. /\ thread[t] = Free /\ Frame /\ UNCHANGED processes /\ ~HasSession /\ Prompt
      /\ ("user" \in Calm => ~Busy("start"))
  BY PcTells DEF Start, Startable, Command, FirstFree, At, Frame, supervisor
<1>2. PICK p \in Profile :
        thread' = [thread EXCEPT ![t] = [Starter(generation, p, "start", 0) EXCEPT !.pc = "begin"]]
  BY ProfilesAreProfiles DEF Start
<1> DEFINE q == Starter(generation, p, "start", 0)
           r == [q EXCEPT !.pc = "begin"]
<1>3. q \in Worker /\ q.why = "start"
  BY StarterIsWorker DEF TypeOK, Starter
<1>4. thread' = [thread EXCEPT ![t] = r]
  BY <1>2
<1> HIDE DEF q
<1>5. r \in Worker /\ r.pc = "begin" /\ r.why = "start"
  BY <1>3, WorkerSet DEF Worker, Pcs
<1> HIDE DEF r
<1>6. thread' \in [Threads -> Thread] /\ thread'[t] = r /\ Stay(Threads \ {t})
  BY <1>4, <1>5, Written DEF Thread
<1>7. Slots /\ hop' = hop
  BY <1>1, SlotsAre
<1> QED BY <1>1, <1>5, <1>6, <1>7, FrameTypes

\* A move to another exit starts the hops of the session again.
LEMMA MoveDoes ==
  ASSUME TypeOK, NEW t \in Threads, Move(t)
  PROVE  /\ TypeOK' /\ thread[t] = Free /\ HasSession /\ hop' = Off /\ Frame /\ Stay(Threads \ {t})
         /\ ("user" \in Calm => \A u \in Threads : At(u, "idle"))
         /\ thread'[t] \in Worker
         /\ thread'[t].pc = "hop" /\ thread'[t].gen = generation /\ thread'[t].why = "move"
<1>1. /\ thread[t] = Free /\ HasSession /\ StopAllHops /\ Frame
      /\ ("user" \in Calm => \A u \in Threads : At(u, "idle"))
  BY PcTells DEF Move, Command, FirstFree, At, Frame
<1> DEFINE r == Starter(generation, session.profile, "move", 0)
<1>2. session.profile \in Profile /\ generation \in Nat
  BY <1>1 DEF HasSession, TypeOK
<1>3. r \in Worker /\ r.pc = "hop" /\ r.gen = generation /\ r.why = "move"
  BY <1>2, StarterIsWorker DEF Starter
<1>4. thread' = [thread EXCEPT ![t] = r]
  BY DEF Move
<1> HIDE DEF r
<1>5. thread' \in [Threads -> Thread] /\ thread'[t] = r /\ Stay(Threads \ {t})
  BY <1>3, <1>4, Written DEF Thread
<1>6. Slots /\ hop' = Off
  BY <1>1, SlotsAre
<1> QED BY <1>1, <1>3, <1>5, <1>6, FrameTypes

\* A thread that mourns a session.
LEMMA MournerIsWorker ==
  ASSUME TypeOK, HasSession, NEW w \in watches, NEW l \in Mourning,
         NEW why \in {"start", "move", "recovery", "end"}, NEW attempt \in Nat
  PROVE  /\ Mourner(w, l, why, attempt) \in Worker
         /\ Mourner(w, l, why, attempt).pc = l /\ Mourner(w, l, why, attempt).gen = w.gen
<1> DEFINE q == Starter(w.gen, session.profile, why, attempt)
           b == Holds
           r == [q EXCEPT !.pc = l, !.holding = b]
<1>1. w.gen \in Nat /\ session.profile \in Profile
  BY DEF TypeOK, HasSession
<1>2. q \in Worker /\ q.gen = w.gen
  BY <1>1, StarterIsWorker DEF Starter
<1>3. b \in BOOLEAN
  BY DEF Holds
<1>4. Mourner(w, l, why, attempt) = r
  BY DEF Mourner
<1> HIDE DEF q, b
<1>5. r \in Worker /\ r.pc = l /\ r.gen = w.gen
  BY <1>2, <1>3 DEF Worker, Pcs
<1> HIDE DEF r
<1> QED BY <1>4, <1>5

\* A watch that finds its session dead is over, and its thread mourns the session.
LEMMA HopDiedDoes ==
  ASSUME TypeOK, NEW w \in watches, NEW t \in Threads, HopDied(w, t)
  PROVE  /\ TypeOK' /\ thread[t] = Free /\ Current(w.gen) /\ UNCHANGED <<generation, session, hop>>
         /\ watches' = watches \ {w} /\ Stay(Threads \ {t})
         /\ ("watch" \in Calm => ~Busy("move"))
         /\ thread'[t] \in Worker /\ thread'[t].pc = "teardown" /\ thread'[t].gen = w.gen
<1>1. /\ thread[t] = Free /\ Current(w.gen) /\ UNCHANGED <<generation, session, processes>>
      /\ watches' = watches \ {w} /\ HasSession /\ ("watch" \in Calm => ~Busy("move"))
  BY PcTells DEF HopDied, Dead, Notices, FirstFree, At
<1>2. session.attempt \in Nat
  BY <1>1 DEF HasSession, TypeOK
<1> DEFINE why == IF session.gen = w.gen /\ session.profile.reconnect THEN "recovery" ELSE "end"
<1>3. PICK attempt \in {1, session.attempt + 1} :
        thread' = [thread EXCEPT ![t] = Mourner(w, "teardown", why, attempt)]
  BY DEF HopDied
<1>8. why \in {"recovery", "end"} /\ attempt \in Nat
  BY <1>2
<1> HIDE DEF why
<1> DEFINE r == Mourner(w, "teardown", why, attempt)
<1>4. r \in Worker /\ r.pc = "teardown" /\ r.gen = w.gen
  BY <1>1, <1>8, MournerIsWorker DEF Mourning
<1>5. thread' = [thread EXCEPT ![t] = r]
  BY <1>3
<1> HIDE DEF r
<1>6. thread' \in [Threads -> Thread] /\ thread'[t] = r /\ Stay(Threads \ {t})
  BY <1>4, <1>5, Written DEF Thread
<1>7. Slots /\ hop' = hop
  BY <1>1, SlotsAre
<1> QED BY <1>1, <1>4, <1>6, <1>7 DEF TypeOK, Slots

\* The monitor of an engine that ended mourns its session, or is over with it.
LEMMA EngineDiedDoes ==
  ASSUME TypeOK, NEW w \in watches, NEW t \in Threads, EngineDied(w, t)
  PROVE  /\ TypeOK' /\ thread[t] = Free /\ Current(w.gen) /\ generation' = generation /\ Fewer
         /\ watches' = watches \ {w} /\ HasSession' = HasSession
         /\ HasSession => session'.gen = session.gen
         /\ ("watch" \in Calm => ~Busy("move"))
         /\ \/ thread' = thread
            \/ /\ thread'[t] \in Worker /\ Stay(Threads \ {t})
               /\ thread'[t].pc = "engine" /\ thread'[t].gen = w.gen
<1>1. /\ thread[t] = Free /\ Current(w.gen) /\ generation' = generation
      /\ watches' = watches \ {w} /\ Fill("aether", None) /\ ("watch" \in Calm => ~Busy("move"))
  BY PcTells DEF EngineDied, Notices, FirstFree, At
<1>2. Slots /\ Fewer
  BY <1>1, SlotsAre
<1>3. CASE HasSession /\ session.gen = w.gen
  <2> DEFINE n == session.attempt + 1
             r == Mourner(w, "engine", "recovery", n)
             s == [session EXCEPT !.attempt = n]
  <2>1. session.attempt \in Nat /\ n \in Nat
    BY <1>3 DEF HasSession, TypeOK
  <2>2. session' = [session EXCEPT !.attempt = session.attempt + 1] /\ thread' = [thread EXCEPT ![t] = r]
    BY <1>3 DEF EngineDied
  <2>3. session' = s
    BY <2>2
  <2> HIDE DEF n
  <2>4. /\ s \in [gen : Nat \ {None}, profile : Profile, attempt : Nat] /\ s.gen = session.gen
        /\ s # NoSession
    <3>1. session \in [gen : Nat \ {None}, profile : Profile, attempt : Nat]
      BY <1>3 DEF HasSession, TypeOK
    <3> QED BY <2>1, <3>1 DEF NoSession, None
  <2>5. r \in Worker /\ r.pc = "engine" /\ r.gen = w.gen
    BY <1>3, <2>1, MournerIsWorker DEF Mourning
  <2> HIDE DEF r, s
  <2>6. thread' \in [Threads -> Thread] /\ thread'[t] = r /\ Stay(Threads \ {t})
    BY <2>2, <2>5, Written DEF Thread
  <2>7. TypeOK'
    BY <1>1, <1>2, <2>3, <2>4, <2>6 DEF TypeOK, Slots
  <2> QED BY <1>1, <1>2, <1>3, <2>3, <2>4, <2>5, <2>6, <2>7 DEF HasSession
<1>4. CASE ~(HasSession /\ session.gen = w.gen)
  <2>1. UNCHANGED <<session, thread>>
    BY <1>4 DEF EngineDied
  <2> QED BY <1>1, <1>2, <2>1 DEF TypeOK, Slots, HasSession
<1> QED BY <1>3, <1>4

\* What the engine's lines tell is of the session there is.
LEMMA EngineUpDoes ==
  ASSUME TypeOK, EngineUp
  PROVE  /\ TypeOK' /\ UNCHANGED <<generation, hop, watches, thread>> /\ HasSession' = HasSession
         /\ HasSession => session'.gen = session.gen
<1>1. UNCHANGED <<generation, watches, thread, hop, ended>>
  BY DEF EngineUp, processes
<1>2. CASE HasSession
  <2>1. session \in [gen : Nat \ {None}, profile : Profile, attempt : Nat]
    BY <1>2 DEF HasSession, TypeOK
  <2>2. session' = [session EXCEPT !.attempt = 0]
    BY <1>2 DEF EngineUp
  <2>3. /\ session' \in [gen : Nat \ {None}, profile : Profile, attempt : Nat]
        /\ session'.gen = session.gen /\ session' # NoSession
    BY <2>1, <2>2 DEF NoSession, None
  <2> QED BY <1>1, <1>2, <2>3 DEF TypeOK, HasSession
<1>3. CASE ~HasSession
  BY <1>1, <1>3 DEF EngineUp, TypeOK, HasSession
<1> QED BY <1>2, <1>3

\* What nobody's thread has a part in: a watch is over, the routing engine is restarted, a
\* process dies.
Others ==
  \/ UNCHANGED vars
  \/ \E t \in Threads : SetChain(t)
  \/ \E w \in watches : WatchEnds(w)
  \/ \E k \in Kinds : Die(k)

LEMMA OthersDo ==
  ASSUME TypeOK, Others
  PROVE  TypeOK' /\ UNCHANGED <<generation, session, thread, hop>> /\ watches' \subseteq watches
<1>1. /\ UNCHANGED <<generation, session, thread, hop>> /\ watches' \subseteq watches
      /\ ended' \subseteq ended \union Kinds
  BY DEF Others, vars, SetChain, WatchEnds, Die, supervisor, processes
<1> QED BY <1>1 DEF TypeOK

\* Nobody does what he did not do, and nobody does it for another session.
Fades ==
  \A u \in Threads :
    /\ Handles(u)' => Handles(u)
    /\ Works(u)' => Works(u)
    /\ Mourns(u)' => Mourns(u)
    /\ Looks(u)' => Looks(u)
    /\ Writes(u)' => Writes(u)
    /\ At(u, "begin")' => At(u, "begin")
    /\ thread'[u].pc \notin {"idle", "stopping"} => Same(u)
NobodyClears == \A u \in Threads : At(u, "clear")' => At(u, "clear")

\* A thread that goes on, leaves or was stopping is nobody new.
LEMMA OnwardFades ==
  ASSUME NEW t \in Threads, Onward(t)
  PROVE  Fades /\ NobodyClears
<1> USE DEF Handles, Works, Mourns, Looks, Writes, Starts, At, Handling, Mourning, Looking
<1>1. \A u \in Threads \ {t} : thread'[u] = thread[u]
  BY DEF Onward, Leaves, Goes, Stay
<1>2. CASE Leaves(t)
  BY <1>1, <1>2 DEF Fades, NobodyClears, Leaves, Free, Same
<1>3. ASSUME NEW l \in Handling, Handles(t), Goes(t, l) PROVE Fades /\ NobodyClears
  BY <1>1, <1>3 DEF Fades, NobodyClears, Goes, Same
<1>4. ASSUME NEW l \in {"tell", "wait", "check"}, Works(t), Goes(t, l) PROVE Fades /\ NobodyClears
  BY <1>1, <1>4 DEF Fades, NobodyClears, Goes, Same
<1>5. ASSUME Mourns(t), Goes(t, "claim") PROVE Fades /\ NobodyClears
  BY <1>1, <1>5 DEF Fades, NobodyClears, Goes, Same
<1> QED BY <1>2, <1>3, <1>4, <1>5 DEF Onward

\* So is one that is over, or stops.
LEMMA LeavesFades ==
  ASSUME NEW t \in Threads, Stay(Threads \ {t}), thread'[t] \in {Free, Stopper}
  PROVE  Fades /\ NobodyClears
<1>1. \A u \in Threads \ {t} : thread'[u] = thread[u]
  BY DEF Stay
<1> QED BY <1>1 DEF Fades, NobodyClears, Free, Stopper, Same, Handles, Works, Mourns, Looks, Writes, Starts, At,
          Handling, Mourning, Looking

\* What is of a generation that has been stays so.
LEMMA KnownFades ==
  ASSUME TypeOK, Known, Fades, NobodyClears, generation' = generation, watches' \subseteq watches,
         \A k \in Kinds : hop'[k] <= generation, HasSession' => session'.gen <= generation
  PROVE  Known'
BY DEF Known, Fades, NobodyClears, Same, Works, Mourns, At, Gen, Mourning

\* So it is if one thread changes.
LEMMA KnownOne ==
  ASSUME TypeOK, TypeOK', Known, NEW t \in Threads, Stay(Threads \ {t}),
         generation' \in {generation, generation + 1},
         \A k \in Kinds : hop'[k] <= generation',
         \A w \in watches' : w.gen <= generation',
         HasSession' => session'.gen <= generation',
         Works(t)' \/ Mourns(t)' => Gen(t)' \in 1 .. generation',
         At(t, "clear")' => ~thread'[t].holding, At(t, "begin")' => thread'[t].why = "start"
  PROVE  Known'
<1>1. \A u \in Threads \ {t} : thread'[u] = thread[u]
  BY DEF Stay
<1>2. generation \in Nat
  BY DEF TypeOK
<1>3. \A u \in Threads : Works(u)' \/ Mourns(u)' => Gen(u)' \in 1 .. generation'
  BY <1>1, <1>2 DEF Known, Works, Mourns, Gen
<1> QED BY <1>1, <1>3 DEF Known, At

\* What there is of hops, sessions and watches has been, and is in the next generation.
LEMMA Been ==
  ASSUME TypeOK, Known
  PROVE  /\ generation \in Nat
         /\ \A k \in Kinds : hop[k] \in Nat /\ hop[k] <= generation /\ hop[k] <= generation + 1
         /\ \A w \in watches : w.gen <= generation /\ w.gen <= generation + 1
         /\ HasSession => session.gen <= generation /\ session.gen <= generation + 1
         /\ Fewer => \A k \in Kinds : hop'[k] <= generation /\ hop'[k] <= generation + 1
         /\ hop' = Off => \A k \in Kinds : hop'[k] <= generation
         /\ \A t \in Threads : Works(t) \/ Mourns(t) =>
              Gen(t) \in Nat /\ Gen(t) # 0 /\ Gen(t) <= generation /\ Gen(t) # generation + 1
<1>1. /\ generation \in Nat /\ \A k \in Kinds : hop[k] \in Nat /\ hop[k] <= generation
      /\ \A w \in watches : w.gen \in Nat /\ w.gen <= generation
      /\ HasSession => session.gen \in Nat /\ session.gen <= generation
  BY DEF TypeOK, Known, HasSession
<1>2. Fewer => \A k \in Kinds : hop'[k] <= generation /\ hop'[k] <= generation + 1
  BY <1>1 DEF Fewer, None
<1>3. hop' = Off => \A k \in Kinds : hop'[k] <= generation
  BY <1>1 DEF Off, None
<1>4. \A t \in Threads : Works(t) \/ Mourns(t) =>
        Gen(t) \in Nat /\ Gen(t) # 0 /\ Gen(t) <= generation /\ Gen(t) # generation + 1
  BY <1>1 DEF Known
<1> QED BY <1>1, <1>2, <1>3, <1>4

\* Types are kept, and nothing is of a generation that has not been.
LEMMA KnownStep == TypeOK /\ Known /\ [Next]_vars => TypeOK' /\ Known'
<1> SUFFICES ASSUME TypeOK, Known, [Next]_vars PROVE TypeOK' /\ Known'
  OBVIOUS
<1> USE DEF Gen
<1>1. ASSUME NEW t \in Threads, TypeOK', Onward(t), \A k \in Kinds : hop'[k] <= generation
      PROVE  TypeOK' /\ Known'
  BY <1>1, OnwardFades, KnownFades DEF Onward, Frame, Known, HasSession
<1>2. ASSUME NEW t \in Threads, StartHop(t) PROVE TypeOK' /\ Known'
  <2>1. Gen(t) <= generation
    BY <1>2, StartHopDoes, Been DEF Works, At
  <2>2. \A k \in Kinds : hop'[k] <= generation
    BY <1>2, <2>1, StartHopDoes, Been DEF TypeOK
  <2> QED BY <1>1, <1>2, <2>2, StartHopDoes
<1>3. ASSUME NEW t \in Threads, HopUp(t) \/ HopFails(t) \/ Teardown(t) \/ AttemptFailed(t)
      PROVE  TypeOK' /\ Known'
  BY <1>1, <1>3, Been, HopUpDoes, HopFailsDoes, EmptyingDoes
<1>4. ASSUME NEW t \in Threads,
             \/ LaunchFails(t) \/ EngineFails(t) \/ Joined(t)
             \/ ClearProxy(t) \/ Tell(t) \/ RoundFails(t) \/ RecoveryEnds(t)
             \/ StartFailed(t) /\ thread[t].why # "start"
             \/ (Launch(t) \/ Claim(t) \/ Check(t)) /\ ~Current(Gen(t))
      PROVE  TypeOK' /\ Known'
  BY <1>1, <1>4, Been, HandlingDoes, LeavingDoes, WaitingDoes
<1>5. ASSUME NEW t \in Threads, Begin(t) \/ (Claim(t) /\ Current(Gen(t))) PROVE TypeOK' /\ Known'
  <2>1. /\ TypeOK' /\ UNCHANGED <<session, watches, hop>> /\ generation' = generation + 1
        /\ Stay(Threads \ {t}) /\ thread'[t].pc \in {"take", "drop"} /\ thread'[t].gen = generation'
    BY <1>5, BeginDoes, ClaimDoes
  <2>2. thread'[t].gen \in 1 .. generation'
    BY <2>1, Been
  <2>3. \A k \in Kinds : hop'[k] <= generation'
    BY <2>1, Been
  <2>4. \A w \in watches' : w.gen <= generation'
    BY <2>1, Been
  <2>5. HasSession' => session'.gen <= generation'
    BY <2>1, Been DEF HasSession
  <2> QED BY <2>1, <2>2, <2>3, <2>4, <2>5, KnownOne DEF At
<1>6. ASSUME NEW t \in Threads, Take(t) PROVE TypeOK' /\ Known'
  <2>1. Gen(t) \in 1 .. generation /\ Gen(t) <= generation
    BY <1>6, Been, TakeDoes DEF Works, At, Known
  <2>2. /\ TypeOK' /\ Stay(Threads \ {t}) /\ UNCHANGED <<generation, watches, hop>>
        /\ session'.gen = Gen(t) /\ thread'[t].pc = "hop" /\ Gen(t)' = Gen(t)
    BY <1>6, TakeDoes DEF Goes, Same
  <2> QED BY <2>1, <2>2, Been, KnownOne DEF At
<1>7. ASSUME NEW t \in Threads, (Launch(t) /\ Current(Gen(t))) \/ Publish(t) PROVE TypeOK' /\ Known'
  <2>1. /\ TypeOK' /\ Handles(t) /\ UNCHANGED <<generation, session>> /\ Leaves(t)
        /\ \E w : w.gen = Gen(t) /\ watches' = watches \union {w}
        /\ \/ hop' = [hop EXCEPT !["aether"] = Gen(t)]
           \/ hop' = hop
    BY <1>7, WatchedDoes
  <2>2. Gen(t) <= generation
    BY <2>1, Been DEF Works, Handles, Handling
  <2>3. \A k \in Kinds : hop'[k] <= generation
    BY <2>1, <2>2, Been DEF TypeOK
  <2>4. \A w \in watches' : w.gen <= generation
    BY <2>1, <2>2, Been
  <2> QED BY <2>1, <2>3, <2>4, KnownOne DEF Leaves, Free, Works, Mourns, Mourning, At, Known, HasSession
<1>8. ASSUME NEW t \in Threads, (StartFailed(t) /\ thread[t].why = "start") \/ Drop(t) \/ Lose(t)
      PROVE  TypeOK' /\ Known'
  <2>1. TypeOK' /\ UNCHANGED <<generation, watches>> /\ ~HasSession' /\ Stay(Threads \ {t})
    BY <1>8, StartFailedDoes, DropDoes DEF HasSession, Leaves, Goes
  <2>2. \A k \in Kinds : hop'[k] <= generation
    BY <1>8, Been, StartFailedDoes, DropDoes
  <2>3. \/ thread'[t] = Free
        \/ /\ Works(t) /\ Gen(t)' = Gen(t) /\ thread'[t].pc \in {"clear", "tell", "wait"}
           /\ thread'[t].pc = "clear" => ~thread'[t].holding
    <3>1. CASE Drop(t) \/ Lose(t)
      BY <3>1, DropDoes DEF Leaves, Goes, Same, Works
    <3> QED BY <1>8, <3>1, StartFailedDoes DEF Leaves
  <2>4. Works(t)' \/ Mourns(t)' => Gen(t)' \in 1 .. generation
    BY <2>3 DEF Known, Works, Mourns, Mourning, Free
  <2> QED BY <2>1, <2>2, <2>3, <2>4, Been, KnownOne DEF At, Free
<1>9. ASSUME NEW t \in Threads, Attempt(t) \/ (Check(t) /\ Current(Gen(t))) PROVE TypeOK' /\ Known'
  <2>1. /\ TypeOK' /\ Frame /\ hop' = hop /\ Stay(Threads \ {t}) /\ Works(t)
        /\ thread'[t].pc \in {"take", "lose"} /\ Gen(t)' = Gen(t)
    BY <1>9, LooksDoes DEF Works, Waiting
  <2>2. Gen(t)' \in 1 .. generation
    BY <2>1 DEF Known
  <2> QED BY <2>1, <2>2, Been, KnownOne DEF At, Frame, HasSession
<1>10. ASSUME NEW t \in Threads, Stopped(t) PROVE TypeOK' /\ Known'
  <2>1. /\ TypeOK' /\ thread'[t] = Free /\ Stay(Threads \ {t}) /\ watches' = watches /\ Fewer
        /\ ~HasSession' /\ generation' = generation + 1
    BY <1>10, StoppedDoes DEF Leaves, HasSession
  <2> QED BY <2>1, Been, KnownOne DEF Free, Works, Mourns, Mourning, At
<1>11. ASSUME NEW t \in Threads, Stop(t) PROVE TypeOK' /\ Known'
  BY <1>11, StopDoes, LeavesFades, KnownFades, Been DEF Frame, Known, HasSession
<1>12. ASSUME NEW t \in Threads, Start(t) PROVE TypeOK' /\ Known'
  BY <1>12, StartDoes, KnownOne, Been DEF Frame, HasSession, Works, Mourns, Mourning, At
<1>13. ASSUME NEW t \in Threads, Move(t) PROVE TypeOK' /\ Known'
  <2>1. generation \in 1 .. generation
    <3>1. session.gen \in Nat \ {None} /\ session.gen <= generation /\ generation \in Nat
      BY <1>13, MoveDoes DEF TypeOK, HasSession, Known
    <3> QED BY <3>1 DEF None
  <2> QED BY <1>13, <2>1, MoveDoes, KnownOne, Been DEF Frame, HasSession, At
<1>14. ASSUME NEW w \in watches, Watch(w) PROVE TypeOK' /\ Known'
  <2>1. ASSUME NEW t \in Threads, HopDied(w, t) \/ EngineDied(w, t) PROVE TypeOK' /\ Known'
    <3>1. w.gen \in 1 .. generation
      BY DEF TypeOK, Known, None
    <3>2. /\ TypeOK' /\ generation' = generation /\ watches' \subseteq watches
          /\ (HasSession' => HasSession /\ session'.gen = session.gen)
      BY <2>1, HopDiedDoes, EngineDiedDoes DEF HasSession
    <3>3. \A k \in Kinds : hop'[k] <= generation
      BY <2>1, HopDiedDoes, EngineDiedDoes, Been
    <3>4. CASE thread' = thread
      BY <3>2, <3>3, <3>4, Been DEF Known, Works, Mourns, At
    <3>5. CASE /\ thread'[t].pc \in {"teardown", "engine"} /\ thread'[t].gen = w.gen
               /\ Stay(Threads \ {t})
      BY <3>1, <3>2, <3>3, <3>5, Been, KnownOne DEF At
    <3> QED BY <2>1, <3>4, <3>5, HopDiedDoes, EngineDiedDoes
  <2>2. CASE WatchEnds(w)
    BY <2>2, OthersDo DEF Others, Known, HasSession, Works, Mourns, At
  <2> QED BY <1>14, <2>1, <2>2 DEF Watch
<1>15. CASE Others
  BY <1>15, OthersDo DEF Known, HasSession, Works, Mourns, At
<1>16. CASE EngineUp
  BY <1>16, EngineUpDoes DEF Known, HasSession, Works, Mourns, At
<1>17. ASSUME NEW t \in Threads, Run(t) PROVE TypeOK' /\ Known'
  BY <1>2, <1>3, <1>4, <1>5, <1>6, <1>7, <1>8, <1>9, <1>10, <1>17 DEF Run, Starting, Recovering
<1> QED BY <1>11, <1>12, <1>13, <1>14, <1>15, <1>16, <1>17 DEF Next, Others

\* Who works for a session works for it alone, if nobody new works, ...
LEMMA WorksFades ==
  ASSUME OneWorks, \A u \in Threads : Works(u)' => Works(u) /\ Gen(u)' = Gen(u)
  PROVE  OneWorks'
BY DEF OneWorks

\* ... or one whose generation is new, or who is alone.
LEMMA WorksComes ==
  ASSUME TypeOK, Known, OneWorks, NEW t \in Threads, Stay(Threads \ {t}),
         thread'[t].gen = generation + 1 \/ \A u \in Threads : At(u, "idle")
  PROVE  OneWorks'
<1>1. \A u \in Threads \ {t} : thread'[u] = thread[u]
  BY DEF Stay
<1>2. \A u \in Threads \ {t} : Works(u)' => Works(u) /\ Gen(u)' = Gen(u) /\ Gen(u) # thread'[t].gen
  BY <1>1, Been DEF Works, At, Gen
<1> QED BY <1>2 DEF OneWorks, Gen

\* A generation has one thread that works for it.
LEMMA OneWorksStep ==
  ASSUME TypeOK, Known, OneWorks, "user" \in Calm, [Next]_vars
  PROVE  OneWorks'
<1> USE DEF Gen
<1>1. ASSUME Fades PROVE OneWorks'
  BY <1>1, WorksFades DEF Fades, Same, Works
<1>2. ASSUME NEW t \in Threads,
             \/ StartHop(t) \/ HopUp(t) \/ HopFails(t) \/ Teardown(t) \/ AttemptFailed(t)
             \/ LaunchFails(t) \/ EngineFails(t) \/ Joined(t)
             \/ ClearProxy(t) \/ Tell(t) \/ RoundFails(t) \/ RecoveryEnds(t)
             \/ StartFailed(t) /\ thread[t].why # "start"
             \/ (Launch(t) \/ Claim(t) \/ Check(t)) /\ ~Current(Gen(t))
      PROVE  OneWorks'
  BY <1>1, <1>2, OnwardFades, StartHopDoes, HopUpDoes, HopFailsDoes, EmptyingDoes, HandlingDoes,
     LeavingDoes, WaitingDoes
<1>3. ASSUME NEW t \in Threads, Begin(t) \/ (Claim(t) /\ Current(Gen(t))) PROVE OneWorks'
  BY <1>3, BeginDoes, ClaimDoes, WorksComes
<1>4. ASSUME NEW t \in Threads, Stay(Threads \ {t}), Works(t)' => Works(t) /\ Gen(t)' = Gen(t)
      PROVE  OneWorks'
  BY <1>4, WorksFades DEF Stay, Works
<1>5. ASSUME NEW t \in Threads,
             \/ Take(t) \/ Drop(t) \/ Lose(t)
             \/ Attempt(t) \/ (Check(t) /\ Current(Gen(t)))
      PROVE  OneWorks'
  <2>1. Works(t) /\ Stay(Threads \ {t}) /\ (thread'[t] = Free \/ Gen(t)' = Gen(t))
    BY <1>5, TakeDoes, DropDoes, LooksDoes DEF Goes, Leaves, Same, Works, Waiting, At
  <2> QED BY <1>4, <2>1 DEF Works, Free
<1>6. ASSUME NEW t \in Threads,
             \/ (Launch(t) /\ Current(Gen(t))) \/ Publish(t)
             \/ (StartFailed(t) /\ thread[t].why = "start")
             \/ Stopped(t) \/ Stop(t)
      PROVE  OneWorks'
  BY <1>1, <1>6, LeavesFades, WatchedDoes, StartFailedDoes, StoppedDoes, StopDoes DEF Leaves
<1>7. ASSUME NEW t \in Threads, Start(t) PROVE OneWorks'
  BY <1>4, <1>7, StartDoes DEF Works
<1>8. ASSUME NEW t \in Threads, Move(t) PROVE OneWorks'
  BY <1>8, MoveDoes, WorksComes
<1>9. ASSUME UNCHANGED thread PROVE OneWorks'
  BY <1>9, WorksFades DEF Works
<1>10. ASSUME NEW w \in watches, NEW t \in Threads, HopDied(w, t) \/ EngineDied(w, t) PROVE OneWorks'
  <2>1. \/ UNCHANGED thread
        \/ Stay(Threads \ {t}) /\ thread'[t].pc \in {"teardown", "engine"}
    BY <1>10, HopDiedDoes, EngineDiedDoes
  <2> QED BY <1>4, <1>9, <2>1 DEF Works
<1>11. ASSUME NEW t \in Threads, Run(t) PROVE OneWorks'
  BY <1>2, <1>3, <1>5, <1>6, <1>11 DEF Run, Starting, Recovering
<1>12. CASE Others \/ EngineUp
  BY <1>9, <1>12, OthersDo, EngineUpDoes
<1> QED BY <1>6, <1>7, <1>8, <1>10, <1>11, <1>12 DEF Next, Watch, Others

\* One at most acts for the live generation.
LEMMA OneActs ==
  ASSUME TypeOK, OneWorks
  PROVE  OneAtWork
<1>1. \A t, u \in Acting : t = u
  BY DEF Acting, OneWorks, Current
<1>2. CASE Acting = {}
  <2>1. Cardinality(Acting) = 0
    BY <1>2, FS_EmptySet
  <2> QED BY <2>1 DEF OneAtWork
<1>3. CASE Acting # {}
  <2>1. PICK t \in Acting : TRUE
    BY <1>3
  <2>2. Acting = {t}
    BY <1>1, <2>1
  <2>3. Cardinality(Acting) = 1
    BY <2>2, FS_Singleton
  <2> QED BY <2>3 DEF OneAtWork
<1> QED BY <1>2, <1>3

\* At first nobody is at work.
LEMMA KnownInit == Init => TypeOK /\ Known /\ OneWorks
BY DEF Init, TypeOK, Known, OneWorks, None, NoSession, HasSession, Free, Works, Mourns, Mourning, At,
   Thread

\* One thread at most acts for the session there is, if the user connects when his last
\* connect and disconnect have returned and moves when nothing is at work: a death noticed
\* twice, or late, is answered once (carrier_died, schedule_carrier_recovery).
THEOREM DeathIsMetOnce == "user" \in Calm => (Spec => []OneAtWork)
<1> SUFFICES ASSUME "user" \in Calm PROVE Spec => []OneAtWork
  OBVIOUS
<1>1. TypeOK /\ Known /\ OneWorks /\ [Next]_vars => (TypeOK /\ Known /\ OneWorks)'
  BY KnownStep, OneWorksStep
<1>2. TypeOK /\ OneWorks => OneAtWork
  BY OneActs
<1> QED BY KnownInit, <1>1, <1>2, PTL DEF Spec

\* A proxy that is put back is put back by a thread that does not hold the traffic.
LEMMA ClearsAreFree ==
  ASSUME TypeOK, Known, [Next]_vars, proxy # None, proxy' = None
  PROVE  \A t \in Threads : thread'[t] # thread[t] => ~Holding(t)
<1> SUFFICES ASSUME NEW u \in Threads, thread'[u] # thread[u] PROVE ~Holding(u)
  OBVIOUS
<1>1. ASSUME NEW t \in Threads, ClearProxy(t) \/ Teardown(t) \/ AttemptFailed(t) PROVE ~Holding(u)
  <2>1. thread[t] \in Worker /\ Stay(Threads \ {t})
    BY <1>1, WaitingDoes, EmptyingDoes DEF Onward, Goes, Leaves
  <2>2. ~thread[t].holding
    BY <1>1 DEF ClearProxy, Known, Teardown, AttemptFailed, ClearUnlessHolding
  <2> QED BY <2>1, <2>2 DEF Holding, Stay
<1>2. ASSUME NEW t \in Threads, Stopped(t) PROVE ~Holding(u)
  BY <1>2, StoppedDoes DEF Leaves, Holding, Stay, Stopper
<1>3. ASSUME NEW t \in Threads, Move(t) PROVE ~Holding(u)
  BY <1>3, MoveDoes DEF Holding, Stay, Free
<1>4. ASSUME NEW t \in Threads, Publish(t) PROVE FALSE
  <2>1. Gen(t) # None
    BY <1>4, Been, WatchedDoes DEF Works, Handles, Handling, None
  <2> QED BY <1>4, <2>1 DEF Publish
<1>5. ASSUME NEW t \in Threads, SetChain(t) PROVE FALSE
  BY <1>5 DEF SetChain
<1>6. ASSUME NEW t \in Threads,
             \/ Begin(t) \/ Take(t) \/ LaunchFails(t) \/ Launch(t) \/ StartHop(t) \/ HopUp(t)
             \/ HopFails(t) \/ Joined(t) \/ EngineFails(t) \/ StartFailed(t)
      PROVE  FALSE
  BY <1>6 DEF Begin, Take, LaunchFails, Launch, StartHop, HopUp, HopFails, Joined, EngineFails,
     StartFailed, outside
<1>7. ASSUME NEW t \in Threads,
             \/ Claim(t) \/ Drop(t) \/ Tell(t) \/ RecoveryEnds(t) \/ RoundFails(t) \/ Attempt(t)
             \/ Check(t) \/ Lose(t) \/ Start(t) \/ Stop(t)
      PROVE  FALSE
  BY <1>7 DEF Claim, Drop, Tell, RecoveryEnds, RoundFails, Attempt, Check, Lose, Start, Stop, outside
<1>8. ASSUME NEW w \in watches, Watch(w) PROVE FALSE
  BY <1>8 DEF Watch, WatchEnds, HopDied, EngineDied, outside
<1>9. CASE EngineUp
  BY <1>9 DEF EngineUp, None
<1>10. ASSUME NEW k \in Kinds, Die(k) PROVE FALSE
  BY <1>10 DEF Die, outside
<1>11. ASSUME UNCHANGED vars PROVE FALSE
  BY <1>11 DEF vars, outside
<1>12. ASSUME NEW t \in Threads, Run(t) PROVE ~Holding(u)
  BY <1>1, <1>2, <1>4, <1>6, <1>7, <1>12 DEF Run, Starting, Recovering
<1> QED BY <1>3, <1>5, <1>7, <1>8, <1>9, <1>10, <1>11, <1>12 DEF Next

\* A thread that holds the traffic of a dead session never puts the proxy back, whatever
\* overlapped (carrier_died and schedule_carrier_recovery read the kill switch first).
THEOREM HeldTrafficStays == Spec => KillSwitchHolds
<1>1. TypeOK /\ Known /\ [Next]_vars =>
        [proxy # None /\ proxy' = None => \A t \in Threads : thread'[t] # thread[t] => ~Holding(t)]_vars
  BY ClearsAreFree
<1>2. Init => TypeOK /\ Known
  BY KnownInit
<1> QED BY <1>1, <1>2, KnownStep, PTL DEF Spec, KillSwitchHolds

\* Nothing of the live generation comes by itself.
LEMMA FreshFades ==
  ASSUME Fades, generation' = generation, watches' \subseteq watches, Fresh,
         \A k \in Kinds : hop'[k] # generation
  PROVE  Fresh'
BY DEF Fresh, Fades, Same, Live, Current, Gen, Works, Mourns, Mourning

\* A hop is what it was, is gone, or is of a thread that works.
Hopwise ==
  \A k \in Kinds : hop'[k] \in {None, hop[k]} \/ \E t \in Threads : Works(t) /\ hop'[k] = Gen(t)

\* A writer that was overtaken stays alone.
LEMMA FreshStays ==
  ASSUME TypeOK, Known, Fades, generation' = generation, watches' \subseteq watches, Hopwise,
         NEW t \in Threads, Writes(t), Works(t), Fresh
  PROVE  Fresh'
<1>1. generation # None
  <2>1. Gen(t) \in Nat /\ Gen(t) # 0 /\ Gen(t) <= generation /\ generation \in Nat
    BY Been
  <2> QED BY <2>1 DEF None
<1>2. ASSUME NEW k \in Kinds PROVE hop'[k] # generation
  BY <1>1 DEF Hopwise, Fresh, Live, Current
<1> QED BY <1>2, FreshFades

\* Who writes works, unless he has yet to begin.
LEMMA WritersWork ==
  ASSUME NEW t \in Threads
  PROVE  /\ Writes(t) => Works(t)
         /\ Handles(t) => Works(t)
         /\ thread[t].pc \in Waiting => Works(t)
         /\ Works(t) => ~Mourns(t) /\ ~At(t, "begin")
BY DEF Writes, Starts, Handles, Works, Handling, Waiting, Mourns, Mourning, At

\* If nobody new comes, what is said of the threads of a session stays true of it.
LEMMA FadesKeeps ==
  ASSUME TypeOK, Known, OneSession, Fades, Hopwise, generation' = generation,
         watches' \subseteq watches, HasSession' = HasSession
  PROVE  OneSession'
<1>1. \A t \in Threads : Writes(t)' => Writes(t) /\ Works(t) /\ Gen(t)' = Gen(t)
  BY WritersWork DEF Fades, Same, Gen, Writes, Starts, Handles, Handling
<1>2. ASSUME NEW t \in Threads, Writes(t)', ~Current(Gen(t))' PROVE Fresh'
  <2>1. Writes(t) /\ Works(t) /\ Fresh
    BY <1>1, <1>2 DEF OneSession, Current
  <2> QED BY <2>1, FreshStays
<1>3. \A t \in Threads : Works(t)' \/ Mourns(t)' => Gen(t)' = Gen(t) /\ thread'[t].why = thread[t].why
  BY DEF Fades, Same, Gen, Works, Mourns, Mourning
<1>4. \A t \in Threads : Handles(t)' => Works(t)'
  BY DEF Handles, Works, Handling
<1> QED BY <1>2, <1>3, <1>4 DEF OneSession, Fades, Current

\* A session that its thread ends, and is no more handled, is over for everybody.
LEMMA OverKeeps ==
  ASSUME TypeOK, Known, OneWorks, OneSession, Fades, Hopwise, UNCHANGED <<generation, watches>>,
         session' = NoSession, NEW t \in Threads, Writes(t), ~Handles(t)'
  PROVE  OneSession'
<1>0. \A u \in Threads : Works(u)' \/ Mourns(u)' => Gen(u)' = Gen(u) /\ thread'[u].why = thread[u].why
  BY DEF Fades, Same, Gen, Works, Mourns, Mourning
<1>1. ASSUME NEW u \in Threads, Writes(u)', ~Current(Gen(u))' PROVE Fresh'
  <2>1. Writes(u) /\ Works(u) /\ Gen(u)' = Gen(u)
    BY <1>0, <1>1, WritersWork DEF Fades, Writes, Starts, Handles, Works, Handling
  <2>2. Fresh
    BY <1>1, <2>1 DEF OneSession, Current
  <2> QED BY <2>1, <2>2, FreshStays
<1>2. ASSUME NEW u \in Threads, Handles(u)', Current(Gen(u))' PROVE FALSE
  <2>1. Handles(u) /\ Works(u) /\ Current(Gen(u)) /\ u # t
    BY <1>0, <1>2, WritersWork DEF Fades, Handles, Works, Handling, Current
  <2>2. Current(Gen(t))
    BY <2>1 DEF OneSession, Fresh, Live
  <2> QED BY <2>1, <2>2, WritersWork DEF OneWorks, Current
<1>3. ~HasSession'
  BY DEF HasSession
<1> QED BY <1>0, <1>1, <1>2, <1>3 DEF OneSession, Fades, Current

\* What the steps keep that a thread makes for what it works.
LEMMA SessionOnward ==
  ASSUME TypeOK, Known, OneSession, NEW t \in Threads,
         \/ StartHop(t) \/ HopUp(t) \/ HopFails(t) \/ Teardown(t) \/ AttemptFailed(t)
         \/ LaunchFails(t) \/ EngineFails(t) \/ Joined(t)
         \/ ClearProxy(t) \/ Tell(t) \/ RoundFails(t) \/ RecoveryEnds(t)
         \/ StartFailed(t) /\ thread[t].why # "start"
         \/ (Launch(t) \/ Claim(t) \/ Check(t)) /\ ~Current(Gen(t))
  PROVE  OneSession'
<1>1. ASSUME Onward(t), Hopwise PROVE OneSession'
  BY <1>1, OnwardFades, FadesKeeps DEF Onward, Frame, HasSession
<1>2. CASE StartHop(t)
  <2>1. Onward(t) /\ Works(t) /\ hop' = [hop EXCEPT ![Kind(t)] = Gen(t)]
    BY <1>2, StartHopDoes DEF Works, At
  <2>2. Hopwise
    BY <2>1 DEF Hopwise, TypeOK
  <2> QED BY <1>1, <2>1, <2>2
<1>3. ASSUME Onward(t), Fewer PROVE OneSession'
  BY <1>1, <1>3 DEF Hopwise, Fewer
<1>4. ASSUME Onward(t), hop' = hop PROVE OneSession'
  BY <1>1, <1>4 DEF Hopwise
<1>5. CASE HopUp(t) \/ HopFails(t) \/ Teardown(t) \/ AttemptFailed(t)
  BY <1>3, <1>5, HopUpDoes, HopFailsDoes, EmptyingDoes
<1>6. CASE \/ LaunchFails(t) \/ EngineFails(t) \/ Joined(t)
           \/ ClearProxy(t) \/ Tell(t) \/ RoundFails(t) \/ RecoveryEnds(t)
           \/ StartFailed(t) /\ thread[t].why # "start"
           \/ (Launch(t) \/ Claim(t) \/ Check(t)) /\ ~Current(Gen(t))
  BY <1>4, <1>6, HandlingDoes, LeavingDoes, WaitingDoes
<1> QED BY <1>2, <1>5, <1>6

\* A new generation has nobody but the thread that made it.
LEMMA SessionNew ==
  ASSUME TypeOK, Known, OneSession, "prompt" \in Calm, NEW t \in Threads,
         Begin(t) \/ (Claim(t) /\ Current(Gen(t)))
  PROVE  OneSession'
<1>1. /\ UNCHANGED <<session, watches, hop>> /\ generation' = generation + 1
      /\ thread'[t].pc \in {"take", "drop"} /\ thread'[t].gen = generation' /\ Stay(Threads \ {t})
  BY BeginDoes, ClaimDoes
<1>2. \A u \in Threads \ {t} : thread'[u] = thread[u]
  BY <1>1 DEF Stay
<1>3. ASSUME NEW u \in Threads, u # t PROVE ~Looks(u) /\ ~Writes(u)
  <2>1. CASE Begin(t)
    <3>1. At(t, "begin") /\ Looks(t)
      BY <2>1, BeginDoes DEF Looks, Looking, At
    <3> QED BY <1>3, <3>1 DEF OneSession
  <2>2. CASE Claim(t) /\ Current(Gen(t))
    <3>1. Prompt /\ Mourns(t) /\ Live(t)
      BY <2>2, ClaimDoes DEF Mourns, Mourning, At, Live
    <3>2. ~Looks(u)
      BY <3>1 DEF Prompt, Looks, Looking
    <3>3. Writes(u) => Works(u)
      BY WritersWork
    <3> QED BY <2>2, <3>1, <3>2, <3>3 DEF OneSession, Fresh
  <2> QED BY <2>1, <2>2
<1>4. \A u \in Threads \ {t} : (Works(u) \/ Mourns(u))' => ~Current(Gen(u))'
  BY <1>1, <1>2, Been DEF Works, Mourns, Gen, Current
<1>5. \A u \in Threads \ {t} : ~Looks(u)' /\ ~Writes(u)' /\ ~At(u, "begin")'
  BY <1>2, <1>3 DEF Looks, Looking, Writes, Starts, Handles, At
<1>6. \A w \in watches' : ~Current(w.gen)'
  BY <1>1, Been DEF Current, TypeOK, Known
<1>7. Current(Gen(t))' /\ ~Handles(t)' /\ ~Mourns(t)' /\ ~At(t, "begin")'
  BY <1>1 DEF Current, Gen, Handles, Handling, Mourns, Mourning, At
<1>8. \A u \in Threads : Handles(u)' => Works(u)'
  BY DEF Handles, Works, Handling
<1> QED BY <1>4, <1>5, <1>6, <1>7, <1>8 DEF OneSession

\* A session is claimed by the thread that looked.
LEMMA SessionTaken ==
  ASSUME TypeOK, Known, OneSession, NEW t \in Threads, Take(t)
  PROVE  OneSession'
<1> USE DEF Gen
<1>1. /\ At(t, "take") /\ UNCHANGED <<generation, watches, hop>> /\ HasSession' /\ Goes(t, "hop")
  BY TakeDoes DEF HasSession
<1>2. \A u \in Threads \ {t} : thread'[u] = thread[u]
  BY <1>1 DEF Goes, Stay
<1>3. thread'[t].pc = "hop" /\ Gen(t)' = Gen(t) /\ thread'[t].why = thread[t].why
  BY <1>1 DEF Goes, Same
<1>4. Looks(t) /\ Writes(t) /\ Works(t) /\ Works(t)' /\ ~Looks(t)' /\ ~Mourns(t)' /\ ~At(t, "begin")'
  BY <1>1, <1>3 DEF Looks, Looking, Writes, Works, At, Mourns, Mourning
<1>5. \A u \in Threads : (Works(u)' => Works(u)) /\ (Writes(u)' => Writes(u)) /\ (Looks(u)' => Looks(u))
                         /\ (Mourns(u)' => Mourns(u)) /\ (At(u, "begin")' => At(u, "begin"))
  BY <1>2, <1>4 DEF Works, Writes, Starts, Handles, Looks, Mourns, At
<1>6. \A u \in Threads : Gen(u)' = Gen(u) /\ thread'[u].why = thread[u].why
  BY <1>2, <1>3
<1>7. Fresh => Fresh'
  BY <1>1, <1>5, <1>6 DEF Fresh, Live, Current
<1>8. \A u \in Threads : ~At(u, "begin")'
  BY <1>4, <1>5 DEF OneSession, Looks, Looking, At
<1> QED BY <1>1, <1>5, <1>6, <1>7, <1>8 DEF OneSession, Current

\* What is watched is at work no more.
LEMMA SessionWatched ==
  ASSUME TypeOK, Known, OneWorks, OneSession, NEW t \in Threads,
         (Launch(t) /\ Current(Gen(t))) \/ Publish(t)
  PROVE  OneSession'
<1> USE DEF Gen
<1>1. /\ Handles(t) /\ Works(t) /\ UNCHANGED <<generation, session>> /\ Leaves(t)
      /\ \E w : w.gen = Gen(t) /\ watches' = watches \union {w}
      /\ hop' = [hop EXCEPT !["aether"] = Gen(t)] \/ hop' = hop
  BY WatchedDoes, WritersWork
<1>2. Fades /\ Hopwise
  <2>1. Fades
    BY <1>1, LeavesFades DEF Leaves
  <2>2. Hopwise
    BY <1>1 DEF Hopwise, TypeOK
  <2> QED BY <2>1, <2>2
<1>3. \A u \in Threads : Works(u)' \/ Mourns(u)' => Gen(u)' = Gen(u) /\ thread'[u].why = thread[u].why
  BY <1>2 DEF Fades, Same, Works, Mourns, Mourning
<1>4. ASSUME NEW u \in Threads, Writes(u)', ~Current(Gen(u))' PROVE Fresh'
  <2>1. Writes(u) /\ Works(u) /\ Gen(u)' = Gen(u)
    BY <1>2, <1>3, <1>4, WritersWork DEF Fades, Writes, Starts, Handles, Works, Handling
  <2>2. Fresh
    BY <1>1, <1>4, <2>1 DEF OneSession, Current
  <2>3. ~Current(Gen(t))
    BY <1>1, <2>2 DEF Fresh, Live
  <2>4. \A w \in watches' : w.gen # generation
    BY <1>1, <2>2, <2>3 DEF Fresh, Current
  <2>5. \A k \in Kinds : hop'[k] # generation
    BY <1>1, <2>2, <2>3 DEF Fresh, Current, TypeOK
  <2> QED BY <1>1, <1>2, <1>3, <2>2, <2>4, <2>5 DEF Fresh, Live, Current, Fades
<1>5. ASSUME NEW w \in watches', NEW u \in Threads, Current(w.gen)', Works(u)', Current(Gen(u))'
      PROVE  thread'[u].why = "move"
  <2>1. Works(u) /\ Gen(u)' = Gen(u) /\ thread'[u].why = thread[u].why /\ u # t
    BY <1>1, <1>2, <1>3, <1>5 DEF Fades, Leaves, Free, Works
  <2>2. CASE w \in watches
    BY <1>1, <1>5, <2>1, <2>2 DEF OneSession, Current
  <2>3. CASE w.gen = Gen(t)
    BY <1>1, <1>5, <2>1, <2>3 DEF OneWorks, Current
  <2> QED BY <1>1, <2>2, <2>3
<1>6. \A u \in Threads : Handles(u)' => Works(u)'
  BY DEF Handles, Works, Handling
<1> QED BY <1>1, <1>2, <1>3, <1>4, <1>5, <1>6 DEF OneSession, Fades, Current, HasSession

\* The thread that ends its session.
LEMMA SessionDropped ==
  ASSUME TypeOK, Known, OneWorks, OneSession, NEW t \in Threads,
         (StartFailed(t) /\ thread[t].why = "start") \/ Drop(t) \/ Lose(t)
  PROVE  OneSession'
<1>1. UNCHANGED <<generation, watches>> /\ session' = NoSession /\ Fewer /\ Writes(t)
  <2>1. CASE Drop(t) \/ Lose(t)
    BY <2>1, DropDoes DEF Fewer, TypeOK, Writes
  <2>2. CASE StartFailed(t) /\ thread[t].why = "start"
    BY <2>2, StartFailedDoes DEF Writes, Starts, Handles, Handling, At
  <2> QED BY <2>1, <2>2
<1>2. ASSUME Leaves(t) PROVE ~Handles(t)' /\ Fades
  BY <1>2, LeavesFades DEF Leaves, Free, Handles, Handling
<1>3. ASSUME NEW l \in {"clear", "tell", "wait"}, Goes(t, l), thread[t].pc \in {"drop", "lose"}
      PROVE  ~Handles(t)' /\ Fades
  <2>1. \A u \in Threads \ {t} : thread'[u] = thread[u]
    BY <1>3 DEF Goes, Stay
  <2> QED BY <1>3, <2>1 DEF Goes, Fades, Works, Handles, Mourns, Looks, Writes, Starts, At, Handling,
             Mourning, Looking, Same
<1>4. ~Handles(t)' /\ Fades
  BY <1>2, <1>3, StartFailedDoes, DropDoes
<1>5. Hopwise
  BY <1>1 DEF Hopwise, Fewer
<1> QED BY <1>1, <1>4, <1>5, OverKeeps

\* A thread that looked and may act is of the live generation.
LEMMA SessionLooked ==
  ASSUME TypeOK, Known, OneSession, "prompt" \in Calm, NEW t \in Threads,
         Attempt(t) \/ (Check(t) /\ Current(Gen(t)))
  PROVE  OneSession'
<1> USE DEF Gen
<1>1. /\ Current(Gen(t)) /\ Frame /\ hop' = hop /\ Stay(Threads \ {t}) /\ Prompt
      /\ thread[t].pc \in Waiting /\ thread'[t].pc \in {"take", "lose"}
      /\ Gen(t)' = Gen(t) /\ thread'[t].why = thread[t].why
  BY LooksDoes
<1>2. \A u \in Threads \ {t} : thread'[u] = thread[u]
  BY <1>1 DEF Stay
<1>3. \A u \in Threads : Gen(u)' = Gen(u) /\ thread'[u].why = thread[u].why
  BY <1>1, <1>2
<1>4. Works(t) /\ Live(t) /\ ~Fresh
  BY <1>1, WritersWork DEF Live, Fresh
<1>5. \A u \in Threads : ~Looks(u)
  BY <1>1 DEF Prompt, Looks, Looking
<1>6. \A u \in Threads : (Works(u)' => Works(u)) /\ (Mourns(u)' => Mourns(u)) /\ (Handles(u)' => Handles(u))
                         /\ ~At(u, "begin")' /\ (u # t => ~Looks(u)')
  BY <1>1, <1>2, <1>4, <1>5 DEF Works, Mourns, Handles, Looks, Looking, At, Mourning, Handling
<1>7. \A u \in Threads : Writes(u)' => Current(Gen(u))
  <2>1. \A u \in Threads \ {t} : Writes(u)' => Writes(u)
    BY <1>2 DEF Writes, Starts, Handles
  <2> QED BY <1>1, <1>4, <2>1 DEF OneSession
<1> QED BY <1>1, <1>3, <1>6, <1>7 DEF OneSession, Frame, Current, HasSession

\* A disconnect leaves nobody of the live generation.
LEMMA SessionStopped ==
  ASSUME TypeOK, Known, OneSession, NEW t \in Threads, Stopped(t)
  PROVE  OneSession'
<1> USE DEF Gen
<1>1. /\ watches' = watches /\ Leaves(t) /\ Fewer /\ generation' = generation + 1 /\ ~HasSession'
  BY StoppedDoes DEF HasSession
<1>2. Fades
  BY <1>1, LeavesFades DEF Leaves
<1>3. \A u \in Threads : Works(u)' \/ Mourns(u)' => ~Current(Gen(u))'
  BY <1>1, <1>2, Been DEF Fades, Same, Current, Works, Mourns, Mourning
<1>4. Fresh'
  <2>1. \A w \in watches' : ~Current(w.gen)'
    BY <1>1, Been DEF Current, TypeOK
  <2>2. \A k \in Kinds : hop'[k] # generation'
    BY <1>1, Been DEF Fewer, None
  <2> QED BY <1>3, <2>1, <2>2 DEF Fresh, Live
<1>5. \A u \in Threads : Handles(u)' => Works(u)'
  BY DEF Handles, Works, Handling
<1> QED BY <1>1, <1>2, <1>3, <1>4, <1>5 DEF OneSession, Fades

\* A start by hand comes when nobody starts and nobody has looked.
LEMMA SessionStarts ==
  ASSUME TypeOK, Known, OneSession, {"user", "prompt"} \subseteq Calm, NEW t \in Threads, Start(t)
  PROVE  OneSession'
<1> USE DEF Gen
<1>1. /\ Frame /\ hop' = hop /\ Stay(Threads \ {t}) /\ ~HasSession /\ Prompt /\ ~Busy("start")
      /\ thread[t] = Free /\ thread'[t].pc = "begin"
  BY StartDoes
<1>2. \A u \in Threads \ {t} : thread'[u] = thread[u]
  BY <1>1 DEF Stay
<1>3. \A u \in Threads : ~Looks(u) /\ ~Writes(u)
  BY <1>1 DEF Prompt, Busy, Looks, Looking, Writes, Starts, Handles, Handling
<1>4. ~Works(t)' /\ ~Mourns(t)' /\ ~Handles(t)' /\ ~Writes(t)'
  BY <1>1 DEF Works, Mourns, Mourning, Handles, Handling, Writes, Starts
<1>5. \A u \in Threads : ~Writes(u)' /\ (u # t => ~Looks(u)')
  BY <1>2, <1>3, <1>4 DEF Writes, Starts, Handles, Looks
<1> QED BY <1>1, <1>2, <1>4, <1>5 DEF OneSession, Frame, HasSession, Handles, Works, Mourns, Current

\* A move comes when nobody is at work.
LEMMA SessionMoves ==
  ASSUME TypeOK, Known, OneSession, "user" \in Calm, NEW t \in Threads, Move(t)
  PROVE  OneSession'
<1>1. /\ Frame /\ HasSession /\ Stay(Threads \ {t}) /\ \A u \in Threads : At(u, "idle")
      /\ thread'[t].pc = "hop" /\ thread'[t].why = "move"
  BY MoveDoes
<1>2. \A u \in Threads \ {t} : thread'[u].pc = "idle"
  BY <1>1 DEF Stay, At
<1>3. \A u \in Threads : ~Looks(u)' /\ ~Writes(u)' /\ ~Mourns(u)' /\ ~At(u, "begin")'
                         /\ (Works(u)' => u = t)
  BY <1>1, <1>2 DEF Looks, Looking, Writes, Starts, Handles, Handling, Mourns, Mourning, At, Works
<1> QED BY <1>1, <1>3 DEF OneSession, Frame, HasSession

\* A death is noticed where nobody is at work for the session.
LEMMA SessionMourned ==
  ASSUME TypeOK, Known, OneSession, "watch" \in Calm, NEW w \in watches, NEW t \in Threads,
         HopDied(w, t) \/ EngineDied(w, t)
  PROVE  OneSession'
<1> USE DEF Gen
<1>1. /\ generation' = generation /\ Current(w.gen) /\ watches' \subseteq watches /\ ~Busy("move")
      /\ thread[t] = Free /\ HasSession' = HasSession /\ Fewer
      /\ \/ thread' = thread
         \/ Stay(Threads \ {t}) /\ thread'[t].pc \in {"teardown", "engine"}
  BY HopDiedDoes, EngineDiedDoes DEF HasSession, Fewer, TypeOK
<1>2. CASE thread' = thread
  <2>1. Fades /\ Hopwise
    BY <1>1, <1>2 DEF Fades, Same, Handles, Works, Mourns, Looks, Writes, Starts, At, Hopwise, Fewer
  <2> QED BY <1>1, <2>1, FadesKeeps
<1>3. CASE Stay(Threads \ {t}) /\ thread'[t].pc \in {"teardown", "engine"}
  <2>1. \A u \in Threads \ {t} : thread'[u] = thread[u]
    BY <1>3 DEF Stay
  <2>2. ~Works(t)' /\ ~Looks(t)' /\ ~Writes(t)' /\ ~Handles(t)' /\ ~At(t, "begin")'
    BY <1>3 DEF Works, Looks, Looking, Writes, Starts, Handles, Handling, At
  <2>3. \A u \in Threads : Works(u)' => Works(u) /\ u # t /\ thread'[u] = thread[u]
    BY <2>1, <2>2 DEF Works
  <2>4. \A u \in Threads : Works(u) => ~Current(Gen(u))
    <3>1. \A u \in Threads : Works(u) => thread[u].why # "move"
      BY <1>1 DEF Busy, Works
    <3> QED BY <1>1, <3>1 DEF OneSession
  <2>5. \A u \in Threads : Works(u)' => ~Current(Gen(u))'
    BY <1>1, <2>3, <2>4 DEF Current
  <2>6. ~Fresh
    BY <1>1 DEF Fresh
  <2>7. \A u \in Threads : ~Writes(u)'
    <3>1. \A u \in Threads : Writes(u)' => Writes(u) /\ Works(u)
      BY <2>1, <2>2, WritersWork DEF Writes, Starts, Handles
    <3> QED BY <2>4, <2>6, <3>1 DEF OneSession
  <2>8. \A u \in Threads : (Looks(u)' => Looks(u)) /\ (At(u, "begin")' => At(u, "begin"))
                           /\ (Handles(u)' => Works(u)')
    BY <2>1, <2>2 DEF Looks, At, Handles, Works, Handling
  <2> QED BY <1>1, <2>5, <2>7, <2>8 DEF OneSession
<1> QED BY <1>1, <1>2, <1>3

\* What is said of the threads of a session stays true of it.
LEMMA OneSessionStep ==
  ASSUME TypeOK, Known, OneWorks, OneSession, {"user", "watch", "prompt"} \subseteq Calm, [Next]_vars
  PROVE  OneSession'
<1>1. ASSUME NEW t \in Threads, Run(t) PROVE OneSession'
  <2>1. CASE Starting(t)
    BY <2>1, SessionOnward, SessionNew, SessionTaken, SessionWatched, SessionDropped DEF Starting
  <2>2. CASE Recovering(t)
    BY <2>2, SessionOnward, SessionNew, SessionDropped, SessionLooked DEF Recovering
  <2> QED BY <1>1, <2>1, <2>2, SessionStopped DEF Run
<1>2. ASSUME NEW t \in Threads, Stop(t) PROVE OneSession'
  <2>1. Fades /\ Hopwise
    BY <1>2, StopDoes, LeavesFades DEF Hopwise, Fewer
  <2> QED BY <1>2, <2>1, StopDoes, FadesKeeps DEF Frame, HasSession
<1>3. CASE Others \/ EngineUp
  <2>1. /\ UNCHANGED <<generation, thread, hop>> /\ HasSession' = HasSession /\ watches' \subseteq watches
    BY <1>3, OthersDo, EngineUpDoes DEF HasSession
  <2>2. Fades /\ Hopwise
    BY <2>1 DEF Fades, Same, Handles, Works, Mourns, Looks, Writes, Starts, At, Hopwise
  <2> QED BY <2>1, <2>2, FadesKeeps
<1> QED BY <1>1, <1>2, <1>3, SessionStarts, SessionMoves, SessionMourned DEF Next, Watch, Others

\* Who awaits a hop goes on to await it, unless he changes.
LEMMA AwaitsStays ==
  ASSUME NEW t \in Threads, Stay(Threads \ {t}), NEW k \in Kinds, hop'[k] = hop[k], Awaited(k),
         ~Awaits(t, k)
  PROVE  Awaited(k)'
<1>1. PICK u \in Threads : Awaits(u, k)
  BY DEF Awaited
<1>2. thread'[u] = thread[u]
  BY <1>1 DEF Stay
<1>3. Awaits(u, k)'
  BY <1>1, <1>2 DEF Awaits, At, Gen, Kind, Route
<1> QED BY <1>3 DEF Awaited

\* A thread that waits for no tunnel that it did not wait for, and handles hops as it did.
Quietly(t) ==
  /\ Stay(Threads \ {t}) /\ ~At(t, "tunnel")'
  /\ Handles(t)' => Handles(t) /\ Gen(t)' = Gen(t) /\ Route(t)' = Route(t)

\* Such a one leaves the threads typed that wait, and lone engines to be started.
LEMMA QuietlyKeeps ==
  ASSUME TypeOK, Known, Owned, NEW t \in Threads, Quietly(t), Fewer
  PROVE  /\ \A u \in Threads : At(u, "tunnel")' => thread'[u].pos <= Len(Route(u))'
         /\ \A u \in Threads, k \in Kinds : (Handles(u) /\ Route(u) = Alone)' => hop'[k] # Gen(u)'
<1>1. \A u \in Threads \ {t} : thread'[u] = thread[u]
  BY DEF Quietly, Stay
<1>2. \A u \in Threads : At(u, "tunnel")' => thread'[u].pos <= Len(Route(u))'
  BY <1>1 DEF Quietly, Owned, At, Route
<1>3. \A u \in Threads : Handles(u)' => Handles(u) /\ Gen(u)' = Gen(u) /\ Route(u)' = Route(u)
  BY <1>1 DEF Quietly, Handles, Gen, Route
<1>4. \A u \in Threads : Handles(u) => Gen(u) # None
  BY Been, WritersWork DEF None
<1>5. ASSUME NEW u \in Threads, NEW k \in Kinds, Handles(u)', Route(u)' = Alone PROVE hop'[k] # Gen(u)'
  <2>1. Handles(u) /\ Gen(u)' = Gen(u) /\ Route(u) = Alone /\ Gen(u) # None
    BY <1>3, <1>4, <1>5
  <2>2. hop[k] # Gen(u)
    BY <2>1 DEF Owned
  <2> QED BY <2>1, <2>2 DEF Fewer
<1> QED BY <1>2, <1>5

\* A thread that goes on keeps the hops owned, if it awaited none that stays and stays out
\* of those that have stopped everything.
LEMMA KeepsOwned ==
  ASSUME TypeOK, Known, Owned, NEW t \in Threads, Quietly(t), Fewer,
         generation' = generation, HasSession => HasSession',
         \A k \in Kinds : Awaits(t, k) /\ k # "aether" =>
           hop'[k] = None \/ (Current(hop[k]) /\ \A u \in Threads : ~At(u, "stopping")'),
         At(t, "claim")' \/ thread'[t].pc \in Waiting =>
           thread[t].pc \in Waiting /\ Gen(t)' = Gen(t),
         At(t, "stopping")' => At(t, "stopping")
  PROVE  Owned'
<1>1. \A u \in Threads \ {t} : thread'[u] = thread[u]
  BY DEF Quietly, Stay
<1>2. \A k \in Kinds : hop'[k] # None => hop'[k] = hop[k]
  BY DEF Fewer
<1>3. ASSUME NEW k \in Kinds, hop'[k] # None, ~Current(hop[k])' PROVE k # "aether" /\ Awaited(k)'
  <2>1. hop'[k] = hop[k] /\ ~Current(hop[k]) /\ hop[k] # None
    BY <1>2, <1>3 DEF Current
  <2>2. k # "aether" /\ Awaited(k)
    BY <2>1 DEF Owned
  <2>3. ~Awaits(t, k)
    BY <1>3, <2>1, <2>2
  <2> QED BY <2>1, <2>2, <2>3, AwaitsStays DEF Quietly
<1>4. ASSUME NEW k \in Kinds, hop'[k] # None, Current(hop[k])'
      PROVE  /\ HasSession'
             /\ \A u \in Threads : At(u, "claim")' \/ thread'[u].pc \in Waiting => ~Current(Gen(u))'
             /\ k # "aether" /\ (\E u \in Threads : At(u, "stopping")') => Awaited(k)'
  <2>1. hop'[k] = hop[k] /\ Current(hop[k]) /\ hop[k] # None
    BY <1>2, <1>4 DEF Current
  <2>2. /\ HasSession
        /\ \A u \in Threads : At(u, "claim") \/ thread[u].pc \in Waiting => ~Current(Gen(u))
    BY <2>1 DEF Owned
  <2>3. \A u \in Threads : At(u, "claim")' \/ thread'[u].pc \in Waiting =>
          (At(u, "claim") \/ thread[u].pc \in Waiting) /\ Gen(u)' = Gen(u)
    BY <1>1 DEF At, Gen
  <2>4. ASSUME k # "aether", NEW u \in Threads, At(u, "stopping")' PROVE Awaited(k)'
    <3>1. At(u, "stopping")
      BY <1>1, <2>4 DEF At
    <3>2. Awaited(k)
      BY <2>1, <2>4, <3>1 DEF Owned
    <3>3. ~Awaits(t, k)
      BY <1>4, <2>4
    <3> QED BY <2>1, <3>2, <3>3, AwaitsStays DEF Quietly
  <2> QED BY <2>2, <2>3, <2>4 DEF Current
<1>5. /\ \A u \in Threads : At(u, "tunnel")' => thread'[u].pos <= Len(Route(u))'
      /\ \A u \in Threads, k \in Kinds : (Handles(u) /\ Route(u) = Alone)' => hop'[k] # Gen(u)'
  BY QuietlyKeeps
<1> QED BY <1>3, <1>4, <1>5 DEF Owned

\* Where no hop is of the live generation, all are awaited.
LEMMA StaleOwned ==
  ASSUME TypeOK, Known, Owned, NEW t \in Threads, Quietly(t), ~At(t, "tunnel"), Fewer,
         \A k \in Kinds : hop'[k] # None => ~Current(hop[k])' /\ (Current(hop[k]) => k # "aether" /\ Awaited(k))
  PROVE  Owned'
<1>1. ASSUME NEW k \in Kinds, hop'[k] # None PROVE k # "aether" /\ Awaited(k)' /\ ~Current(hop[k])'
  <2>1. hop'[k] = hop[k] /\ hop[k] # None
    BY <1>1 DEF Fewer
  <2>2. k # "aether" /\ Awaited(k)
    BY <1>1, <2>1 DEF Owned
  <2>3. ~Awaits(t, k)
    BY DEF Awaits
  <2> QED BY <1>1, <2>1, <2>2, <2>3, AwaitsStays DEF Quietly
<1>2. /\ \A u \in Threads : At(u, "tunnel")' => thread'[u].pos <= Len(Route(u))'
      /\ \A u \in Threads, k \in Kinds : (Handles(u) /\ Route(u) = Alone)' => hop'[k] # Gen(u)'
  BY QuietlyKeeps
<1> QED BY <1>1, <1>2 DEF Owned

\* Where there is no hop, none is left to nobody.
LEMMA OffOwned ==
  ASSUME TypeOK, TypeOK', Known', Owned, NEW t \in Threads, Stay(Threads \ {t}),
         ~At(t, "tunnel")', hop' = Off
  PROVE  Owned'
<1>1. \A k \in Kinds : hop'[k] = None
  BY DEF Off
<1>2. \A u \in Threads : At(u, "tunnel")' => thread'[u].pos <= Len(Route(u))'
  BY DEF Stay, Owned, At, Route
<1>3. \A u \in Threads : Handles(u)' => Gen(u)' # None
  BY DEF Known, Handles, Works, Handling, None, TypeOK
<1> QED BY <1>1, <1>2, <1>3 DEF Owned

\* A hop that is started is awaited by its thread.
LEMMA OwnedStart ==
  ASSUME TypeOK, Known, OneWorks, OneSession, Owned, NEW t \in Threads, StartHop(t)
  PROVE  Owned'
<1>0. PICK kind : kind = Kind(t)
  OBVIOUS
<1>1. /\ Frame /\ At(t, "hop") /\ Works(t) /\ Handles(t) /\ Route(t) # Alone /\ thread[t].pos <= Len(Route(t))
      /\ Goes(t, "tunnel") /\ thread'[t].pos = thread[t].pos
      /\ kind = "aether" => Current(Gen(t))
      /\ hop' = [hop EXCEPT ![kind] = Gen(t)]
  BY <1>0, StartHopDoes DEF Onward, Works, Handles, Handling, At
<1>2. \A u \in Threads \ {t} : thread'[u] = thread[u]
  BY <1>1 DEF Goes, Stay
<1>3. /\ At(t, "tunnel")' /\ Gen(t)' = Gen(t) /\ Route(t)' = Route(t) /\ Kind(t)' = kind
      /\ thread'[t].pos = thread[t].pos
  BY <1>0, <1>1 DEF Goes, Same, At, Gen, Route, Kind
<1>4. \A k \in Kinds : (k = kind => hop'[k] = Gen(t)) /\ (k # kind => hop'[k] = hop[k])
  BY <1>1 DEF TypeOK
<1>5. kind \in Kinds => Awaited(kind)'
  BY <1>3, <1>4 DEF Awaited, Awaits
<1>6. ASSUME NEW k \in Kinds, hop'[k] = hop[k], Awaited(k) PROVE Awaited(k)'
  <2>1. ~Awaits(t, k) /\ Stay(Threads \ {t})
    BY <1>1 DEF Awaits, At, Goes
  <2> QED BY <1>6, <2>1, AwaitsStays
<1>7. \A u \in Threads : At(u, "tunnel")' => thread'[u].pos <= Len(Route(u))'
  BY <1>1, <1>2, <1>3 DEF Owned, At, Route
<1>8. ASSUME NEW k \in Kinds, hop'[k] # None, ~Current(hop[k])' PROVE k # "aether" /\ Awaited(k)'
  <2>1. CASE k = kind
    BY <1>1, <1>4, <1>5, <1>8, <2>1 DEF Current, Frame
  <2>2. CASE k # kind
    BY <1>1, <1>4, <1>6, <1>8, <2>2 DEF Owned, Current, Frame
  <2> QED BY <2>1, <2>2
<1>9. ASSUME NEW k \in Kinds, hop'[k] # None, Current(hop[k])'
      PROVE  /\ HasSession'
             /\ \A u \in Threads : At(u, "claim")' \/ thread'[u].pc \in Waiting => ~Current(Gen(u))'
             /\ k # "aether" /\ (\E u \in Threads : At(u, "stopping")') => Awaited(k)'
  <2>1. \A u \in Threads : At(u, "claim")' \/ thread'[u].pc \in Waiting =>
          /\ u # t /\ Gen(u)' = Gen(u)
          /\ At(u, "claim") \/ thread[u].pc \in Waiting
    BY <1>2, <1>3 DEF At, Waiting, Gen
  <2>2. CASE k = kind
    <3>1. Current(Gen(t))
      BY <1>1, <1>4, <1>9, <2>2 DEF Current, Frame
    <3>2. HasSession
      BY <1>1, <3>1 DEF OneSession
    <3>3. \A u \in Threads : At(u, "claim") => ~Current(Gen(u))
      BY <1>1, <3>1 DEF OneSession, Mourns, Mourning, At
    <3>4. \A u \in Threads : u # t /\ thread[u].pc \in Waiting => ~Current(Gen(u))
      BY <1>1, <3>1, WritersWork DEF OneWorks, Current
    <3> QED BY <1>1, <1>5, <2>1, <2>2, <3>2, <3>3, <3>4 DEF Frame, HasSession, Current
  <2>3. CASE k # kind
    <3>1. hop'[k] = hop[k] /\ hop[k] # None /\ Current(hop[k])
      BY <1>1, <1>4, <1>9, <2>3 DEF Current, Frame
    <3>2. /\ HasSession
          /\ \A u \in Threads : At(u, "claim") \/ thread[u].pc \in Waiting => ~Current(Gen(u))
          /\ k # "aether" /\ (\E u \in Threads : At(u, "stopping")) => Awaited(k)
      BY <3>1 DEF Owned
    <3>3. (\E u \in Threads : At(u, "stopping")') => \E u \in Threads : At(u, "stopping")
      BY <1>2, <1>3 DEF At
    <3> QED BY <1>1, <1>6, <2>1, <3>1, <3>2, <3>3 DEF Frame, HasSession, Current
  <2> QED BY <2>2, <2>3
<1>10. ASSUME NEW u \in Threads, NEW k \in Kinds, Handles(u)', Route(u)' = Alone PROVE hop'[k] # Gen(u)'
  <2>1. u # t
    BY <1>1, <1>3, <1>10
  <2>2. Handles(u) /\ Works(u) /\ Route(u) = Alone /\ Gen(u)' = Gen(u)
    BY <1>2, <1>10, <2>1, WritersWork DEF Handles, Route, Gen
  <2>3. Gen(u) # Gen(t)
    BY <1>1, <2>1, <2>2 DEF OneWorks
  <2> QED BY <1>4, <2>2, <2>3 DEF Owned
<1> QED BY <1>7, <1>8, <1>9, <1>10 DEF Owned

\* A thread that goes on handles what it handled.
LEMMA OnwardQuietly ==
  ASSUME NEW t \in Threads, Onward(t), ~At(t, "tunnel")'
  PROVE  Quietly(t)
<1>1. CASE Leaves(t)
  BY <1>1 DEF Leaves, Free, Quietly, Handles, Handling
<1>2. ASSUME NEW l, Goes(t, l), l \in Handling => Handles(t) PROVE Quietly(t)
  BY <1>2 DEF Goes, Same, Quietly, Handles, Gen, Route
<1> QED BY <1>1, <1>2 DEF Onward, Handling

\* What the steps keep that a thread makes for what it works.
LEMMA OwnedOnward ==
  ASSUME TypeOK, Known, Owned, {"stop", "tunnel"} \subseteq Calm, NEW t \in Threads,
         \/ HopUp(t) \/ HopFails(t)
         \/ LaunchFails(t) \/ EngineFails(t) \/ Joined(t)
         \/ ClearProxy(t) \/ Tell(t) \/ RoundFails(t) \/ RecoveryEnds(t)
         \/ StartFailed(t) /\ thread[t].why # "start"
         \/ (Launch(t) \/ Claim(t) \/ Check(t)) /\ ~Current(Gen(t))
  PROVE  Owned'
<1> USE DEF At
<1>1. ASSUME Onward(t), Fewer,
             \A k \in Kinds : Awaits(t, k) /\ k # "aether" =>
               hop'[k] = None \/ (Current(hop[k]) /\ \A u \in Threads : ~At(u, "stopping")'),
             thread'[t].pc \in Handling \union {"idle"} \/ (thread[t].pc \in Waiting /\ Goes(t, "wait")),
             thread'[t].pc # "tunnel"
      PROVE  Owned'
  <2>1. Quietly(t)
    BY <1>1, OnwardQuietly
  <2>2. generation' = generation /\ (HasSession => HasSession')
    BY <1>1 DEF Onward, Frame, HasSession
  <2>3. /\ At(t, "claim")' \/ thread'[t].pc \in Waiting => thread[t].pc \in Waiting /\ Gen(t)' = Gen(t)
        /\ ~At(t, "stopping")'
    BY <1>1 DEF Handling, Waiting, Goes, Same, Gen
  <2> QED BY <1>1, <2>1, <2>2, <2>3, KeepsOwned
<1>2. CASE HopUp(t)
  <2>1. /\ Onward(t) /\ Fewer /\ \A u \in Threads : ~At(u, "stopping")
        /\ \/ Current(Gen(t)) /\ Goes(t, "hop")
           \/ hop' = Off /\ Goes(t, "failed")
    BY <1>2, HopUpDoes DEF SlowEnough, NoStop
  <2>2. \A u \in Threads : ~At(u, "stopping")'
    BY <2>1 DEF Goes, Stay
  <2>3. \A k \in Kinds : Awaits(t, k) => hop'[k] = None \/ Current(hop[k])
    BY <2>1 DEF Awaits, Off
  <2> QED BY <1>1, <2>1, <2>2, <2>3 DEF Goes, Handling
<1>3. CASE HopFails(t)
  <2>1. /\ Onward(t) /\ Fewer /\ Goes(t, "failed")
        /\ hop' = [hop EXCEPT ![Kind(t)] = None] \/ Kind(t) = "aether"
    BY <1>3, HopFailsDoes
  <2>2. \A k \in Kinds : Awaits(t, k) /\ k # "aether" => hop'[k] = None
    BY <2>1 DEF Awaits, TypeOK
  <2> QED BY <1>1, <2>1, <2>2 DEF Goes, Handling
<1>4. ASSUME Onward(t), hop' = hop, ~At(t, "tunnel"),
             thread'[t].pc \in {"mihomo", "failed", "idle"} \/ (thread[t].pc \in Waiting /\ Goes(t, "wait"))
      PROVE  Owned'
  <2>1. Fewer
    BY <1>4 DEF Fewer, TypeOK
  <2>2. \A k \in Kinds : ~Awaits(t, k)
    BY <1>4 DEF Awaits
  <2>3. thread'[t].pc # "tunnel" /\ (Goes(t, "wait") \/ thread'[t].pc \in Handling \union {"idle"})
    BY <1>4 DEF Goes, Handling
  <2> QED BY <1>1, <1>4, <2>1, <2>2, <2>3 DEF Handling
<1>5. CASE LaunchFails(t) \/ EngineFails(t) \/ Joined(t)
  BY <1>4, <1>5, HandlingDoes DEF Goes
<1>6. CASE \/ RecoveryEnds(t) \/ (StartFailed(t) /\ thread[t].why # "start")
           \/ (Launch(t) \/ Claim(t) \/ Check(t)) /\ ~Current(Gen(t))
  <2>1. Onward(t) /\ hop' = hop /\ ~At(t, "tunnel") /\ thread'[t] = Free
    BY <1>6, LeavingDoes DEF Leaves
  <2> QED BY <1>4, <2>1 DEF Free
<1>7. CASE ClearProxy(t) \/ Tell(t) \/ RoundFails(t)
  <2>1. /\ Onward(t) /\ hop' = hop /\ thread[t].pc \in Waiting
        /\ thread'[t] = Free \/ Goes(t, "wait")
    BY <1>7, WaitingDoes DEF Leaves
  <2> QED BY <1>4, <2>1 DEF Free, Waiting
<1> QED BY <1>2, <1>3, <1>5, <1>6, <1>7

\* A new generation has no hop; what the last one had is awaited, or was stopped.
LEMMA OwnedNew ==
  ASSUME TypeOK, Known, OneSession, Owned, NEW t \in Threads,
         Begin(t) \/ (Claim(t) /\ Current(Gen(t))) \/ Stopped(t)
  PROVE  Owned'
<1> USE DEF At
<1>1. /\ generation' = generation + 1 /\ Fewer /\ Quietly(t) /\ ~At(t, "tunnel")
  <2>1. CASE Begin(t) \/ (Claim(t) /\ Current(Gen(t)))
    BY <2>1, BeginDoes, ClaimDoes DEF Fewer, TypeOK, Quietly, Handles, Handling
  <2>2. CASE Stopped(t)
    BY <2>2, StoppedDoes DEF Leaves, Free, Stopper, Quietly, Handles, Handling
  <2> QED BY <2>1, <2>2
<1>2. \A k \in Kinds : hop'[k] # None => ~Current(hop[k])'
  BY <1>1, Been DEF Fewer, Current
<1>3. ASSUME NEW k \in Kinds, hop'[k] # None, Current(hop[k]) PROVE k # "aether" /\ Awaited(k)
  <2>1. hop'[k] = hop[k] /\ hop[k] # None
    BY <1>1, <1>3 DEF Fewer
  <2>2. CASE Begin(t)
    <3>1. ~HasSession
      BY <2>2, BeginDoes DEF OneSession
    <3> QED BY <1>3, <2>1, <3>1 DEF Owned
  <2>3. CASE Claim(t) /\ Current(Gen(t))
    BY <1>3, <2>1, <2>3, ClaimDoes DEF Owned
  <2>4. CASE Stopped(t)
    <3>1. k # "aether" /\ At(t, "stopping")
      BY <1>3, <2>4, StoppedDoes DEF TypeOK, Stopper
    <3> QED BY <1>3, <2>1, <3>1 DEF Owned
  <2> QED BY <2>2, <2>3, <2>4
<1> QED BY <1>1, <1>2, <1>3, StaleOwned

\* The session is claimed where no hop is of it.
LEMMA OwnedTaken ==
  ASSUME TypeOK, Known, OneWorks, Owned, NEW t \in Threads, Take(t)
  PROVE  Owned'
<1> USE DEF At
<1>1. /\ At(t, "take") /\ Works(t) /\ thread[t].pc \in Waiting
      /\ UNCHANGED <<generation, hop>> /\ HasSession' /\ Goes(t, "hop")
  BY TakeDoes DEF HasSession, Works, Waiting
<1>2. \A u \in Threads \ {t} : thread'[u] = thread[u]
  BY <1>1 DEF Goes, Stay
<1>3. thread'[t].pc = "hop" /\ Gen(t)' = Gen(t)
  BY <1>1 DEF Goes, Same, Gen
<1>4. \A k \in Kinds : Awaited(k) => Awaited(k)'
  <2>1. \A k \in Kinds : ~Awaits(t, k)
    BY <1>1 DEF Awaits
  <2> QED BY <1>1, <2>1, AwaitsStays DEF Goes
<1>5. \A k \in Kinds : hop[k] # Gen(t)
  <2> SUFFICES ASSUME NEW k \in Kinds, hop[k] = Gen(t) PROVE FALSE
    OBVIOUS
  <2>1. hop[k] # None
    BY <1>1, Been DEF None
  <2>2. ~Current(hop[k])
    BY <1>1, <2>1 DEF Owned
  <2>3. PICK u \in Threads : Awaits(u, k)
    BY <2>1, <2>2 DEF Owned, Awaited
  <2>4. Works(u) /\ Gen(u) = Gen(t) /\ u # t
    BY <1>1, <2>3 DEF Awaits, Works
  <2> QED BY <1>1, <2>4 DEF OneWorks
<1>6. \A u \in Threads : At(u, "tunnel")' => thread'[u].pos <= Len(Route(u))'
  BY <1>2, <1>3 DEF Owned, Route
<1>7. \A k \in Kinds : hop'[k] # None /\ ~Current(hop[k])' => k # "aether" /\ Awaited(k)'
  BY <1>1, <1>4 DEF Owned, Current
<1>8. \A k \in Kinds : hop'[k] # None /\ Current(hop[k])' =>
        /\ \A u \in Threads : At(u, "claim")' \/ thread'[u].pc \in Waiting => ~Current(Gen(u))'
        /\ k # "aether" /\ (\E u \in Threads : At(u, "stopping")') => Awaited(k)'
  <2>1. \A u \in Threads : At(u, "claim")' \/ thread'[u].pc \in Waiting =>
          (At(u, "claim") \/ thread[u].pc \in Waiting) /\ Gen(u)' = Gen(u)
    BY <1>2, <1>3 DEF Waiting, Gen
  <2>2. (\E u \in Threads : At(u, "stopping")') => \E u \in Threads : At(u, "stopping")
    BY <1>2, <1>3
  <2> QED BY <1>1, <1>4, <2>1, <2>2 DEF Owned, Current
<1>9. \A u \in Threads, k \in Kinds : (Handles(u) /\ Route(u) = Alone)' => hop'[k] # Gen(u)'
  BY <1>1, <1>2, <1>3, <1>5 DEF Owned, Handles, Route, Gen
<1> QED BY <1>1, <1>6, <1>7, <1>8, <1>9 DEF Owned

\* A lone engine is of the session that it is watched for.
LEMMA OwnedWatched ==
  ASSUME TypeOK, Known, OneWorks, OneSession, Owned, NEW t \in Threads,
         (Launch(t) /\ Current(Gen(t))) \/ Publish(t)
  PROVE  Owned'
<1> USE DEF At
<1>1. /\ Handles(t) /\ Works(t) /\ UNCHANGED <<generation, session>> /\ Leaves(t) /\ ~At(t, "tunnel")
      /\ \/ hop' = [hop EXCEPT !["aether"] = Gen(t)] /\ Current(Gen(t))
         \/ hop' = hop
  BY WatchedDoes, WritersWork
<1>2. Quietly(t) /\ \A k \in Kinds : ~Awaits(t, k)
  BY <1>1 DEF Leaves, Free, Quietly, Handles, Handling, Awaits
<1>3. CASE hop' = hop
  <2>1. Fewer
    BY <1>3 DEF Fewer, TypeOK
  <2>2. thread'[t].pc = "idle"
    BY <1>1 DEF Leaves, Free
  <2> QED BY <1>1, <1>2, <2>1, <2>2, KeepsOwned DEF HasSession, Waiting
<1>4. CASE hop' = [hop EXCEPT !["aether"] = Gen(t)] /\ Current(Gen(t))
  <2>1. \A u \in Threads \ {t} : thread'[u] = thread[u]
    BY <1>1 DEF Leaves, Stay
  <2>2. thread'[t].pc = "idle"
    BY <1>1 DEF Leaves, Free
  <2>3. \A k \in Kinds : (k = "aether" => hop'[k] = Gen(t)) /\ (k # "aether" => hop'[k] = hop[k])
    BY <1>4 DEF TypeOK
  <2>4. \A k \in Kinds : k # "aether" /\ Awaited(k) => Awaited(k)'
    BY <1>2, <2>3, AwaitsStays DEF Quietly
  <2>5. \A u \in Threads : At(u, "tunnel")' => thread'[u].pos <= Len(Route(u))'
    BY <2>1, <2>2 DEF Owned, Route
  <2>6. \A k \in Kinds : hop'[k] # None /\ ~Current(hop[k])' => k # "aether" /\ Awaited(k)'
    BY <1>1, <1>4, <2>3, <2>4 DEF Owned, Current
  <2>7. HasSession /\ \A u \in Threads : At(u, "claim") => ~Current(Gen(u))
    BY <1>1, <1>4 DEF OneSession, Mourns, Mourning
  <2>8. \A u \in Threads : u # t /\ thread[u].pc \in Waiting => ~Current(Gen(u))
    BY <1>1, <1>4, WritersWork DEF OneWorks, Current
  <2>9. \A u \in Threads : At(u, "claim")' \/ thread'[u].pc \in Waiting =>
          u # t /\ (At(u, "claim") \/ thread[u].pc \in Waiting) /\ Gen(u)' = Gen(u)
    BY <2>1, <2>2 DEF Waiting, Gen
  <2>10. (\E u \in Threads : At(u, "stopping")') => \E u \in Threads : At(u, "stopping")
    BY <2>1, <2>2
  <2>11. \A k \in Kinds : hop'[k] # None /\ Current(hop[k])' =>
           /\ HasSession'
           /\ \A u \in Threads : At(u, "claim")' \/ thread'[u].pc \in Waiting => ~Current(Gen(u))'
           /\ k # "aether" /\ (\E u \in Threads : At(u, "stopping")') => Awaited(k)'
    <3>1. HasSession' /\ \A u \in Threads : At(u, "claim")' \/ thread'[u].pc \in Waiting => ~Current(Gen(u))'
      BY <1>1, <2>7, <2>8, <2>9 DEF HasSession, Current
    <3>2. ASSUME NEW k \in Kinds, hop'[k] # None, Current(hop[k])', k # "aether",
                 \E u \in Threads : At(u, "stopping")'
          PROVE  Awaited(k)'
      BY <1>1, <2>3, <2>4, <2>10, <3>2 DEF Owned, Current
    <3> QED BY <3>1, <3>2
  <2>12. ASSUME NEW u \in Threads, NEW k \in Kinds, Handles(u)', Route(u)' = Alone PROVE hop'[k] # Gen(u)'
    <3>1. u # t /\ Handles(u) /\ Works(u) /\ Route(u) = Alone /\ Gen(u)' = Gen(u)
      BY <2>1, <2>2, <2>12, WritersWork DEF Handles, Handling, Route, Gen
    <3>2. Gen(u) # Gen(t)
      BY <1>1, <3>1 DEF OneWorks
    <3> QED BY <2>3, <3>1, <3>2 DEF Owned
  <2> QED BY <2>5, <2>6, <2>11, <2>12 DEF Owned
<1> QED BY <1>1, <1>3, <1>4

\* A session that is over leaves no hop of the live generation.
LEMMA OwnedDropped ==
  ASSUME TypeOK, Known, OneSession, Owned, NEW t \in Threads,
         (StartFailed(t) /\ thread[t].why = "start") \/ Drop(t) \/ Lose(t)
  PROVE  Owned'
<1> USE DEF At
<1>1. CASE hop' = Off
  <2>1. TypeOK' /\ Stay(Threads \ {t}) /\ thread'[t].pc # "tunnel"
    <3>1. CASE Drop(t) \/ Lose(t)
      BY <3>1, DropDoes DEF Leaves, Goes, Free
    <3>2. CASE StartFailed(t) /\ thread[t].why = "start"
      BY <3>2, StartFailedDoes DEF Leaves, Free
    <3> QED BY <3>1, <3>2
  <2>2. Known'
    BY KnownStep DEF Next, Run, Starting, Recovering
  <2> QED BY <1>1, <2>1, <2>2, OffOwned
<1>2. CASE hop' # Off
  <2>1. /\ hop' = hop /\ generation' = generation /\ Writes(t) /\ Stay(Threads \ {t})
        /\ thread[t].pc # "tunnel" /\ thread'[t].pc \in {"idle", "clear", "tell", "wait"}
        /\ \/ thread[t].pc \in Waiting
           \/ Handles(t) /\ Route(t) = Alone
    <3>1. CASE Drop(t) \/ Lose(t)
      BY <3>1, DropDoes DEF Writes, Leaves, Goes, Free, Waiting
    <3>2. CASE StartFailed(t) /\ thread[t].why = "start"
      <4>1. /\ hop' = hop /\ Route(t) = Alone /\ generation' = generation /\ thread'[t] = Free
            /\ Stay(Threads \ {t}) /\ thread[t].pc = "failed"
        BY <1>2, <3>2, StartFailedDoes DEF Leaves
      <4> QED BY <3>2, <4>1 DEF Writes, Starts, Handles, Handling, Free
    <3> QED BY <3>1, <3>2
  <2>2. ASSUME NEW k \in Kinds, hop[k] # None, Current(hop[k]) PROVE FALSE
    <3>1. CASE Current(Gen(t))
      BY <2>1, <2>2, <3>1 DEF Owned, Current
    <3>2. CASE ~Current(Gen(t))
      BY <2>1, <2>2, <3>2 DEF OneSession, Fresh, Current
    <3> QED BY <3>1, <3>2
  <2>3. Quietly(t) /\ Fewer
    BY <2>1 DEF Quietly, Handles, Handling, Fewer, TypeOK
  <2> QED BY <2>1, <2>2, <2>3, StaleOwned DEF Current
<1> QED BY <1>1, <1>2

\* Who comes has no hop yet.
LEMMA OwnedComes ==
  ASSUME TypeOK, Known, Owned, NEW t \in Threads,
         \/ Attempt(t) \/ (Check(t) /\ Current(Gen(t))) \/ Start(t)
         \/ \E w \in watches : HopDied(w, t) \/ EngineDied(w, t)
  PROVE  Owned'
<1> USE DEF At
<1>1. ASSUME Stay(Threads \ {t}), generation' = generation, HasSession' = HasSession, Fewer,
             thread[t].pc \in Waiting \union {"idle"},
             \/ thread'[t].pc \in {"begin", "idle", "teardown", "engine"}
             \/ thread'[t].pc \in {"take", "lose"} /\ thread[t].pc \in Waiting /\ Gen(t)' = Gen(t)
      PROVE  Owned'
  <2>1. Quietly(t)
    BY <1>1 DEF Quietly, Handles, Handling
  <2>2. \A k \in Kinds : ~Awaits(t, k)
    BY <1>1 DEF Awaits, Waiting
  <2>3. /\ At(t, "claim")' \/ thread'[t].pc \in Waiting => thread[t].pc \in Waiting /\ Gen(t)' = Gen(t)
        /\ ~At(t, "stopping")'
    BY <1>1 DEF Waiting
  <2> QED BY <1>1, <2>1, <2>2, <2>3, KeepsOwned
<1>2. CASE Attempt(t) \/ (Check(t) /\ Current(Gen(t)))
  <2>1. /\ Stay(Threads \ {t}) /\ generation' = generation /\ HasSession' = HasSession /\ hop' = hop
        /\ thread[t].pc \in Waiting /\ thread'[t].pc \in {"take", "lose"} /\ Gen(t)' = Gen(t)
    BY <1>2, LooksDoes DEF Frame, HasSession, Gen
  <2>2. Fewer
    BY <2>1 DEF Fewer, TypeOK
  <2> QED BY <1>1, <2>1, <2>2
<1>3. CASE Start(t)
  <2>1. /\ Stay(Threads \ {t}) /\ generation' = generation /\ HasSession' = HasSession /\ hop' = hop
        /\ thread[t].pc = "idle" /\ thread'[t].pc = "begin"
    BY <1>3, StartDoes DEF Frame, HasSession, Free
  <2>2. Fewer
    BY <2>1 DEF Fewer, TypeOK
  <2> QED BY <1>1, <2>1, <2>2
<1>4. ASSUME NEW w \in watches, HopDied(w, t) \/ EngineDied(w, t) PROVE Owned'
  <2>1. /\ generation' = generation /\ HasSession' = HasSession /\ Fewer /\ thread[t].pc = "idle"
        /\ Stay(Threads \ {t}) /\ thread'[t].pc \in {"idle", "teardown", "engine"}
    BY <1>4, HopDiedDoes, EngineDiedDoes DEF Free, Fewer, TypeOK, HasSession, Stay
  <2> QED BY <1>1, <2>1
<1> QED BY <1>2, <1>3, <1>4

\* A disconnect stops the carriers; what stops everything leaves nothing.
LEMMA OwnedStopped ==
  ASSUME TypeOK, Known, Owned, NEW t \in Threads,
         Stop(t) \/ Move(t) \/ Teardown(t) \/ AttemptFailed(t)
  PROVE  Owned'
<1> USE DEF At
<1>1. CASE Stop(t)
  <2>1. /\ UNCHANGED <<generation, session>> /\ Fewer /\ Stay(Threads \ {t}) /\ thread'[t] = Stopper
        /\ \A k \in Kinds \ {"aether"} : hop'[k] = None
    BY <1>1, StopDoes DEF Frame
  <2>2. Quietly(t)
    BY <2>1 DEF Quietly, Stopper, Handles, Handling
  <2>3. \A u \in Threads \ {t} : thread'[u] = thread[u]
    BY <2>1 DEF Stay
  <2>4. ASSUME NEW k \in Kinds, hop'[k] # None
        PROVE  /\ k = "aether" /\ Current(hop[k])' /\ HasSession'
               /\ \A u \in Threads : At(u, "claim")' \/ thread'[u].pc \in Waiting => ~Current(Gen(u))'
    <3>1. k = "aether" /\ hop'[k] = hop[k] /\ hop[k] # None
      BY <2>1, <2>4 DEF Fewer
    <3>2. Current(hop[k])
      BY <3>1 DEF Owned
    <3>3. HasSession /\ \A u \in Threads : At(u, "claim") \/ thread[u].pc \in Waiting => ~Current(Gen(u))
      BY <3>1, <3>2 DEF Owned
    <3> QED BY <2>1, <2>3, <3>1, <3>2, <3>3 DEF HasSession, Stopper, Current, Gen, Waiting
  <2>5. /\ \A u \in Threads : At(u, "tunnel")' => thread'[u].pos <= Len(Route(u))'
        /\ \A u \in Threads, k \in Kinds : (Handles(u) /\ Route(u) = Alone)' => hop'[k] # Gen(u)'
    BY <2>1, <2>2, QuietlyKeeps
  <2> QED BY <2>4, <2>5 DEF Owned
<1>2. CASE Move(t) \/ Teardown(t) \/ AttemptFailed(t)
  <2>1. TypeOK' /\ hop' = Off /\ Stay(Threads \ {t}) /\ thread'[t].pc # "tunnel"
    <3>1. CASE Move(t)
      BY <3>1, MoveDoes
    <3>2. CASE Teardown(t) \/ AttemptFailed(t)
      BY <3>2, EmptyingDoes DEF Goes
    <3> QED BY <1>2, <3>1, <3>2
  <2>2. Known'
    BY <1>2, KnownStep DEF Next, Run, Recovering
  <2> QED BY <2>1, <2>2, OffOwned
<1> QED BY <1>1, <1>2

\* Whom a hop belongs to is kept.
LEMMA OwnedStep ==
  ASSUME TypeOK, Known, OneWorks, OneSession, Owned, {"stop", "tunnel"} \subseteq Calm, [Next]_vars
  PROVE  Owned'
<1>1. ASSUME NEW t \in Threads, Run(t) PROVE Owned'
  <2>1. CASE Starting(t)
    BY <2>1, OwnedStart, OwnedOnward, OwnedNew, OwnedTaken, OwnedWatched, OwnedDropped DEF Starting
  <2>2. CASE Recovering(t)
    BY <2>2, OwnedOnward, OwnedNew, OwnedDropped, OwnedComes, OwnedStopped DEF Recovering
  <2> QED BY <1>1, <2>1, <2>2, OwnedNew DEF Run
<1>2. CASE Others \/ EngineUp
  <2>1. UNCHANGED <<generation, thread, hop>> /\ HasSession' = HasSession
    BY <1>2, OthersDo, EngineUpDoes DEF HasSession
  <2> QED BY <2>1 DEF Owned, At, Gen, Kind, Route, Current, Handles, Awaited, Awaits
<1> QED BY <1>1, <1>2, OwnedComes, OwnedStopped DEF Next, Watch, Others

\* The invariants together, of which the last needs the others.
Carried == TypeOK /\ Known /\ OneWorks /\ OneSession /\ Owned

\* When nobody is at work and there is no session, no hop runs, whatever overlapped: a start
\* that a disconnect overtook, a recovery, a move (start_carrier_blocking, stop_inner), under
\* the hypotheses that Carriers gives.
THEOREM NoHopIsLeft ==
  {"stop", "user", "watch", "tunnel", "prompt"} \subseteq Calm => (Spec => []NothingIsLeft)
<1> SUFFICES ASSUME {"stop", "user", "watch", "tunnel", "prompt"} \subseteq Calm
             PROVE  Spec => []NothingIsLeft
  OBVIOUS
<1>1. Init => Carried
  <2> SUFFICES ASSUME Init PROVE Carried
    OBVIOUS
  <2>1. OneSession
    BY DEF Init, OneSession, Looks, Looking, Writes, Starts, Handles, Handling, HasSession, Free, Works,
       Mourns, Mourning, At
  <2>2. Owned
    BY DEF Init, Owned, At, Handles, Free, Handling, None
  <2> QED BY <2>1, <2>2, KnownInit DEF Carried
<1>2. Carried /\ [Next]_vars => Carried'
  BY KnownStep, OneWorksStep, OneSessionStep, OwnedStep DEF Carried
<1>3. Carried => NothingIsLeft
  <2> SUFFICES ASSUME Carried, Quiet, ~HasSession PROVE hop = Off
    BY DEF NothingIsLeft
  <2>1. \A k \in Kinds : hop[k] = None
    BY DEF Carried, Owned, Quiet, At, Awaited, Awaits
  <2> QED BY <2>1 DEF Carried, TypeOK, Off
<1> QED BY <1>1, <1>2, <1>3, PTL DEF Spec
=============================================================================

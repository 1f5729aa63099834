------------------------------ MODULE RaceProofs ------------------------------
(***************************************************************************)
(* Proofs about Race and Planning, which share the route memory.           *)
(*                                                                         *)
(* Of Race, for any carriers, lanes and memory, and any number of rounds,  *)
(* searches and events: Queued says what the channel tells of the workers, *)
(* Kept where a lane that carried is while the search has not taken it,    *)
(* and Judged what a lane is worth to the route memory.                    *)
(*                                                                         *)
(* Of Planning, for any settings, networks, windows and room in the        *)
(* memory: PlanInv says what a ladder and an entry of the memory are.      *)
(***************************************************************************)
EXTENDS Race, Planning, FiniteSetTheorems, SequenceTheorems, WellFoundedInduction, TLAPS

Lane == Carriers \X Nat
Labels == {"idle", "recall", "head", "receive", "stop", "stop tor", "join", "verify",
           "record", "finish"}
Message == [what : {"attempt", "done"}, carrier : Carriers, lane : Nat, ok : BOOLEAN]
Main == [pc : Labels, gen : Nat, network : Networks \union {Unknown}, order : {main.order},
         chosen : Lane \union {NoLane}, provisional : Lane \union {NoLane},
         done : SUBSET Carriers, cancelled : BOOLEAN]
Worker == [pc : {"off", "lane", "start", "tunnel", "probe", "pause", "over"}, lane : Nat,
           round : Nat]
Running == {"off", "search", "session"}

\* The type invariant; the order of the recipes may be any.
TypeOK ==
  /\ here \in Networks \union {Unknown} /\ generation \in Nat
  /\ active \in BOOLEAN /\ flag \in BOOLEAN
  /\ main \in Main /\ worker \in [Carriers -> Worker]
  /\ channel \in Seq(Message) /\ running \in [Carriers -> Running]
  /\ report \in [winner : Lane \union {NoLane}, cancelled : BOOLEAN]
  /\ carried \in SUBSET Lane
  /\ DOMAIN memory \subseteq Networks /\ \A n \in DOMAIN memory : "route" \in DOMAIN memory[n]
  /\ proven = [n \in Networks |-> proven[n]]

\* The workers and the thread that decides: none before the groups, all over when the
\* search is judged, and a trial engine only in the hands of the worker that probes it.
Phases ==
  /\ active <=> ~At("idle")
  /\ At("idle") \/ At("recall") => carried = {} /\ \A c \in Carriers : WorkerAt(c, "off")
  /\ main.pc \in {"verify", "record", "finish"} => \A c \in Carriers : WorkerAt(c, "over")
  /\ main.pc \in {"idle", "recall", "record", "finish"} => channel = <<>>
  /\ ~WorkerAt("aether", "tunnel")
  /\ running["aether"] = "search" => WorkerAt("aether", "probe")

\* What has interrupted a search has left it with an older generation.
Gens ==
  /\ main.gen <= generation
  /\ interrupted => ~At("idle") /\ ~At("recall") /\ main.gen < generation

\* Of a group that is done nothing comes any more; what is reported to work, what is kept
\* in reserve and what is chosen has carried.
Queued ==
  /\ \A i \in 1 .. Len(channel) : channel[i].what = "done" =>
       /\ WorkerAt(channel[i].carrier, "over")
       /\ \A j \in 1 .. Len(channel) : channel[j].carrier = channel[i].carrier => j <= i
  /\ \A c \in main.done :
       WorkerAt(c, "over") /\ \A i \in 1 .. Len(channel) : channel[i].carrier # c
  /\ \A i \in 1 .. Len(channel) : channel[i].ok =>
       channel[i].what = "attempt" /\ <<channel[i].carrier, channel[i].lane>> \in carried
  /\ {main.provisional, main.chosen} \subseteq carried \union {NoLane}

\* A lane that carried is in reserve or still to be heard of; after the loop, one is
\* chosen, or the search is void, or there was none.
Kept ==
  /\ At("head") \/ At("receive") => \A lane \in carried :
       \/ main.provisional # NoLane
       \/ \E i \in 1 .. Len(channel) : channel[i].ok /\ channel[i].carrier = lane[1]
  /\ main.pc \in {"stop", "stop tor", "join", "verify"} =>
       \/ main.cancelled \/ main.chosen # NoLane
       \/ main.done = Carriers /\ carried = {}
  /\ At("record") => main.cancelled \/ main.chosen # NoLane \/ carried = {}
  /\ At("finish") => report.cancelled \/ report.winner # NoLane \/ carried = {}

\* While the machine is on the network the search began on, every lane that carried has
\* done so there; and a route that has been judged is proven there whatever comes.
Judged ==
  /\ main.network # Unknown /\ here = main.network =>
       \A lane \in carried : RouteOf(lane) \in proven[here]
  /\ At("record") /\ ~main.cancelled /\ main.chosen # NoLane /\ main.network # Unknown =>
       RouteOf(main.chosen) \in proven[main.network]
  /\ RememberedIsProven

(***************************************************************************)
(* Lemmas on the route memory.                                             *)
(***************************************************************************)
\* What is kept of a memory is as it was.
LEMMA PruneKeeps ==
  ASSUME NEW m, NEW t
  PROVE  /\ DOMAIN Prune(m, t) \subseteq DOMAIN m
         /\ \A n \in DOMAIN Prune(m, t) : Prune(m, t)[n] = m[n]
BY DEF Prune

\* A memory whose entries have a route.
Routed(m) == \A n \in DOMAIN m : "route" \in DOMAIN m[n]

\* A win changes no other network's route, and leaves its own with the winner.
LEMMA WinRoutes ==
  ASSUME NEW m, Routed(m), NEW k, NEW r, NEW t
  PROVE  LET w == RecordWin(m, k, r, t) IN
         /\ Routed(w) /\ DOMAIN w \subseteq DOMAIN m \union {k}
         /\ \A n \in DOMAIN w : IF n = k THEN w[n].route = r
                                ELSE n \in DOMAIN m /\ w[n].route = m[n].route
<1> DEFINE old == EntryOf(m, k)
           clear == IF IsEngine(r) THEN [old EXCEPT !.failed = Never, !.remedy = None] ELSE old
           entry == [clear EXCEPT !.route = r, !.won = t, !.seen = t]
<1>1. "route" \in DOMAIN old
  BY DEF EntryOf, Routed, Blank
<1>2. "route" \in DOMAIN clear
  BY <1>1
<1>3. entry.route = r /\ "route" \in DOMAIN entry
  BY <1>2
<1>4. RecordWin(m, k, r, t) = Prune(Put(m, k, entry), t)
  BY DEF RecordWin
<1> HIDE DEF entry
<1> DEFINE put == Put(m, k, entry)
<1>5. /\ DOMAIN put = DOMAIN m \union {k}
      /\ \A n \in DOMAIN put : put[n] = IF n = k THEN entry ELSE m[n]
  BY DEF Put
<1> HIDE DEF put
<1>6. /\ DOMAIN Prune(put, t) \subseteq DOMAIN put
      /\ \A n \in DOMAIN Prune(put, t) : Prune(put, t)[n] = put[n]
  BY PruneKeeps
<1>7. RecordWin(m, k, r, t) = Prune(put, t)
  BY <1>4 DEF put
<1> QED BY <1>3, <1>5, <1>6, <1>7 DEF Routed

\* A failure changes no route; of a network that is new it leaves none.
LEMMA FailureRoutes ==
  ASSUME NEW m, Routed(m), NEW k, NEW lead, NEW d, NEW t
  PROVE  LET w == RecordEngineFailure(m, k, lead, d, t) IN
         /\ Routed(w) /\ DOMAIN w \subseteq DOMAIN m \union {k}
         /\ \A n \in DOMAIN w : w[n].route = IF n \in DOMAIN m THEN m[n].route ELSE NoRoute
<1> DEFINE old == EntryOf(m, k)
           entry == [old EXCEPT !.failed = IF lead THEN t ELSE @,
                                !.remedy = IF d # None THEN d ELSE @, !.seen = t]
<1>1. "route" \in DOMAIN old /\ old.route = IF k \in DOMAIN m THEN m[k].route ELSE NoRoute
  BY DEF EntryOf, Routed, Blank
<1>2. entry.route = old.route /\ "route" \in DOMAIN entry
  BY <1>1
<1>3. RecordEngineFailure(m, k, lead, d, t) = Prune(Put(m, k, entry), t)
  BY DEF RecordEngineFailure
<1> HIDE DEF entry, old
<1> DEFINE put == Put(m, k, entry)
<1>4. /\ DOMAIN put = DOMAIN m \union {k}
      /\ \A n \in DOMAIN put : put[n] = IF n = k THEN entry ELSE m[n]
  BY DEF Put
<1> HIDE DEF put
<1>5. /\ DOMAIN Prune(put, t) \subseteq DOMAIN put
      /\ \A n \in DOMAIN Prune(put, t) : Prune(put, t)[n] = put[n]
  BY PruneKeeps
<1>6. RecordEngineFailure(m, k, lead, d, t) = Prune(put, t)
  BY <1>3 DEF put
<1> QED BY <1>1, <1>2, <1>4, <1>5, <1>6 DEF Routed

\* What a search teaches: nothing but the winner's route on its own network.
LEMMA LearntRoutes ==
  ASSUME NEW k, Routed(memory)
  PROVE  /\ Routed(Learnt(k)) /\ DOMAIN Learnt(k) \subseteq DOMAIN memory \union {k}
         /\ \A n \in DOMAIN Learnt(k) :
              \/ n = k /\ main.chosen # NoLane /\ Learnt(k)[n].route = RouteOf(main.chosen)
              \/ n \in DOMAIN memory /\ Learnt(k)[n].route = memory[n].route
              \/ Learnt(k)[n].route = NoRoute
<1> DEFINE after == IF main.chosen = NoLane THEN memory
                    ELSE RecordWin(memory, k, RouteOf(main.chosen), now)
<1>1. /\ Routed(after) /\ DOMAIN after \subseteq DOMAIN memory \union {k}
      /\ \A n \in DOMAIN after :
           \/ n = k /\ main.chosen # NoLane /\ after[n].route = RouteOf(main.chosen)
           \/ n \in DOMAIN memory /\ after[n].route = memory[n].route
  BY WinRoutes
<1>2. Learnt(k) = after \/ Learnt(k) = RecordEngineFailure(after, k, EngineDone, remedy, now)
  BY DEF Learnt
<1> HIDE DEF after
<1> QED BY <1>1, <1>2, FailureRoutes

(***************************************************************************)
(* Type correctness.                                                       *)
(***************************************************************************)
\* A lane is not the lack of one.
LEMMA LaneIsOne == \A lane \in Lane : lane # NoLane
<1>1. ASSUME NEW c, NEW i PROVE <<c, i>> # NoLane
  <2>1. Len(<<c, i>>) = 2 /\ Len(NoLane) = 0
    BY DEF NoLane
  <2> QED BY <2>1
<1>2. \A lane \in Lane : lane = <<lane[1], lane[2]>>
  BY DEF Lane
<1> QED BY <1>1, <1>2

\* The worker that moves is the only one, and keeps its lane.
LEMMA WorkerMoves ==
  ASSUME TypeOK, NEW c \in Carriers, NEW l \in {"off", "lane", "start", "tunnel", "probe", "pause", "over"}
  PROVE  /\ WorkerGoto(c, l) =>
              /\ worker' \in [Carriers -> Worker] /\ worker'[c].pc = l
              /\ \A d \in Carriers \ {c} : worker'[d] = worker[d]
         /\ worker' = [worker EXCEPT ![c].pc = l, ![c].lane = @ + 1] =>
              /\ worker' \in [Carriers -> Worker] /\ worker'[c].pc = l
              /\ \A d \in Carriers \ {c} : worker'[d] = worker[d]
<1>1. worker[c] \in Worker /\ worker \in [Carriers -> Worker]
  BY DEF TypeOK
<1>2. [worker[c] EXCEPT !.pc = l] \in Worker /\ [worker[c] EXCEPT !.pc = l].pc = l
  BY <1>1 DEF Worker
<1>3. /\ [worker[c] EXCEPT !.pc = l, !.lane = @ + 1] \in Worker
      /\ [worker[c] EXCEPT !.pc = l, !.lane = @ + 1].pc = l
  <2>1. worker[c].lane + 1 \in Nat
    BY <1>1 DEF Worker
  <2> QED BY <1>1, <2>1 DEF Worker
<1>4. ASSUME WorkerGoto(c, l)
      PROVE  /\ worker' \in [Carriers -> Worker] /\ worker'[c].pc = l
             /\ \A d \in Carriers \ {c} : worker'[d] = worker[d]
  <2>1. worker' = [worker EXCEPT ![c] = [worker[c] EXCEPT !.pc = l]]
    BY <1>4 DEF WorkerGoto
  <2> QED BY <1>1, <1>2, <2>1
<1>5. ASSUME worker' = [worker EXCEPT ![c].pc = l, ![c].lane = @ + 1]
      PROVE  /\ worker' \in [Carriers -> Worker] /\ worker'[c].pc = l
             /\ \A d \in Carriers \ {c} : worker'[d] = worker[d]
  <2>1. worker' = [worker EXCEPT ![c] = [worker[c] EXCEPT !.pc = l, !.lane = @ + 1]]
    BY <1>5
  <2> QED BY <1>1, <1>3, <2>1
<1> QED BY <1>4, <1>5

\* The thread that decides goes on with what it has.
LEMMA MainMoves ==
  ASSUME TypeOK, NEW l \in Labels, Goto(l)
  PROVE  /\ main' \in Main' /\ main'.pc = l
         /\ main' = [main EXCEPT !.pc = l]
         /\ main'.gen = main.gen /\ main'.network = main.network /\ main'.order = main.order
         /\ main'.chosen = main.chosen /\ main'.provisional = main.provisional
         /\ main'.done = main.done /\ main'.cancelled = main.cancelled
BY DEF TypeOK, Main, Goto

\* What a worker that moves leaves alone, and what it adds to the channel.
Speaks(c) ==
  /\ channel' \in Seq(Message) /\ Len(channel) <= Len(channel')
  /\ \A i \in 1 .. Len(channel) : channel'[i] = channel[i]
  /\ \A i \in Len(channel) + 1 .. Len(channel') :
       /\ channel'[i].carrier = c
       /\ channel'[i].what = "done" => worker'[c].pc = "over" /\ i = Len(channel')
       /\ channel'[i].ok => channel'[i].what = "attempt" /\ <<c, channel'[i].lane>> \in carried'
  /\ carried \subseteq carried' /\ carried' \subseteq Lane
  /\ \A lane \in carried' \ carried :
       /\ lane[1] = c /\ (here # Unknown => RouteOf(lane) \in proven'[here])
       /\ \E i \in 1 .. Len(channel') : channel'[i].ok /\ channel'[i].carrier = c

\* One message, or two, at the end of the channel.
LEMMA Said ==
  ASSUME TypeOK, NEW a \in Message, NEW b \in Message
  PROVE  /\ Len(channel) \in Nat
         /\ LET s == Append(channel, a) IN
            /\ s \in Seq(Message) /\ Len(s) = Len(channel) + 1 /\ s[Len(channel) + 1] = a
            /\ \A i \in 1 .. Len(channel) : s[i] = channel[i]
         /\ LET s == channel \o <<a, b>> IN
            /\ s \in Seq(Message) /\ Len(s) = Len(channel) + 2
            /\ s[Len(channel) + 1] = a /\ s[Len(channel) + 2] = b
            /\ \A i \in 1 .. Len(channel) : s[i] = channel[i]
<1>1. channel \in Seq(Message) /\ Len(channel) \in Nat
  BY DEF TypeOK
<1>2. LET s == Append(channel, a) IN
        /\ s \in Seq(Message) /\ Len(s) = Len(channel) + 1 /\ s[Len(channel) + 1] = a
        /\ \A i \in 1 .. Len(channel) : s[i] = channel[i]
  BY <1>1
<1>3. LET s == channel \o <<a, b>> IN
        /\ s \in Seq(Message) /\ Len(s) = Len(channel) + 2
        /\ s[Len(channel) + 1] = a /\ s[Len(channel) + 2] = b
        /\ \A i \in 1 .. Len(channel) : s[i] = channel[i]
  BY <1>1
<1> QED BY <1>1, <1>2, <1>3

\* What workers say are messages.
LEMMA Messages ==
  ASSUME TypeOK, NEW c \in Carriers
  PROVE  Done(c) \in Message /\ \A ok \in BOOLEAN : Attempt(c, ok) \in Message
BY DEF TypeOK, Message, Done, Attempt, Worker

\* Nothing is said.
LEMMA Silence ==
  ASSUME TypeOK, NEW c \in Carriers, UNCHANGED <<channel, carried>>
  PROVE  Speaks(c)
BY DEF TypeOK, Speaks

\* One message that does not say that a lane works.
LEMMA SpeaksOnce ==
  ASSUME TypeOK, NEW c \in Carriers, NEW m \in Message, m.carrier = c, ~m.ok,
         m.what = "done" => worker'[c].pc = "over",
         channel' = Append(channel, m), UNCHANGED carried
  PROVE  Speaks(c)
<1>1. /\ channel' \in Seq(Message) /\ Len(channel') = Len(channel) + 1
      /\ Len(channel) \in Nat /\ channel'[Len(channel) + 1] = m
      /\ \A i \in 1 .. Len(channel) : channel'[i] = channel[i]
  BY Said
<1>2. \A i \in Len(channel) + 1 .. Len(channel') : i = Len(channel') /\ channel'[i] = m
  BY <1>1
<1> QED BY <1>1, <1>2 DEF Speaks, TypeOK

\* An attempt, and the end of the group.
LEMMA SpeaksTwice ==
  ASSUME TypeOK, NEW c \in Carriers, NEW a \in Message, NEW b \in Message,
         a.carrier = c, b.carrier = c, a.what = "attempt", b.what = "done", ~b.ok,
         worker'[c].pc = "over", channel' = channel \o <<a, b>>,
         carried' = IF a.ok THEN carried \union {<<c, a.lane>>} ELSE carried,
         a.ok /\ here # Unknown => RouteOf(<<c, a.lane>>) \in proven'[here]
  PROVE  Speaks(c)
<1>1. /\ channel' \in Seq(Message) /\ Len(channel') = Len(channel) + 2
      /\ Len(channel) \in Nat
      /\ channel'[Len(channel) + 1] = a /\ channel'[Len(channel) + 2] = b
      /\ \A i \in 1 .. Len(channel) : channel'[i] = channel[i]
  BY Said
<1>2. \A i \in Len(channel) + 1 .. Len(channel') :
        channel'[i] = a \/ (i = Len(channel') /\ channel'[i] = b)
  BY <1>1
<1>3. <<c, a.lane>> \in Lane /\ <<c, a.lane>>[1] = c
  BY DEF Lane, Message
<1>4. carried \subseteq carried' /\ carried' \subseteq Lane
  BY <1>3 DEF TypeOK
<1>5. \A lane \in carried' \ carried : a.ok /\ lane = <<c, a.lane>>
  OBVIOUS
<1>6. Len(channel) + 1 \in 1 .. Len(channel')
  BY <1>1
<1>7. Len(channel) <= Len(channel')
  BY <1>1
<1>8. \A i \in Len(channel) + 1 .. Len(channel') :
        /\ channel'[i].carrier = c
        /\ channel'[i].what = "done" => worker'[c].pc = "over" /\ i = Len(channel')
        /\ channel'[i].ok => channel'[i].what = "attempt" /\ <<c, channel'[i].lane>> \in carried'
  BY <1>2
<1>9. \A lane \in carried' \ carried :
        /\ lane[1] = c /\ (here # Unknown => RouteOf(lane) \in proven'[here])
        /\ \E i \in 1 .. Len(channel') : channel'[i].ok /\ channel'[i].carrier = c
  BY <1>1, <1>3, <1>5, <1>6
<1> QED BY <1>1, <1>4, <1>7, <1>8, <1>9 DEF Speaks

\* A lane that fails.
LEMMA FailsMoves ==
  ASSUME TypeOK, NEW c \in Carriers, NEW stopped \in BOOLEAN, Fails(c, stopped),
         UNCHANGED carried
  PROVE  /\ running' \in [Carriers -> Running] /\ worker' \in [Carriers -> Worker]
         /\ running'[c] = IF stopped \/ c = "tor" THEN "off" ELSE running[c]
         /\ \A d \in Carriers \ {c} : worker'[d] = worker[d] /\ running'[d] = running[d]
         /\ worker'[c].pc \in {"lane", "over"} /\ Speaks(c)
<1>1. /\ running' \in [Carriers -> Running]
      /\ running'[c] = IF stopped \/ c = "tor" THEN "off" ELSE running[c]
      /\ \A d \in Carriers \ {c} : running'[d] = running[d]
  BY DEF TypeOK, Fails, Running
<1>2. CASE /\ channel' = Append(channel, Attempt(c, FALSE))
           /\ worker' = [worker EXCEPT ![c].pc = "lane", ![c].lane = @ + 1]
  <2>1. Speaks(c)
    BY <1>2, SpeaksOnce, Messages DEF Attempt
  <2> QED BY <1>1, <1>2, <2>1, WorkerMoves
<1>3. CASE channel' = channel \o <<Attempt(c, FALSE), Done(c)>> /\ WorkerGoto(c, "over")
  <2>1. worker'[c].pc = "over"
    BY <1>3, WorkerMoves
  <2>2. Speaks(c)
    BY <1>3, <2>1, SpeaksTwice, Messages DEF Attempt, Done
  <2> QED BY <1>1, <1>3, <2>2, WorkerMoves
<1> QED BY <1>2, <1>3 DEF Fails

\* What any step of a worker is.
LEMMA WorkMoves ==
  ASSUME TypeOK, NEW c \in Carriers, Work(c)
  PROVE  /\ ~WorkerAt(c, "over") /\ ~WorkerAt(c, "off")
         /\ worker' \in [Carriers -> Worker] /\ ~WorkerAt(c, "off")'
         /\ running' \in [Carriers -> Running]
         /\ \A d \in Carriers \ {c} : worker'[d] = worker[d] /\ running'[d] = running[d]
         /\ UNCHANGED <<world, supervisor, memory, active, flag, main, report, interrupted>>
         /\ Speaks(c)
         /\ \/ proven' = proven /\ carried' = carried
            \/ here # Unknown /\ proven' = [proven EXCEPT ![here] = @ \union {RouteOf(<<c, worker[c].lane>>)}]
            \/ here = Unknown /\ proven' = proven
<1> USE DEF WorkerAt, history, bounds
<1>1. CASE TakeLane(c)
  <2>1. UNCHANGED <<channel, carried, running, proven>> /\ (WorkerGoto(c, "start") \/ WorkerGoto(c, "pause"))
    BY <1>1 DEF TakeLane
  <2> QED BY <1>1, <2>1, Silence, WorkerMoves DEF TakeLane, TypeOK
<1>2. CASE StartLane(c)
  <2>1. CASE Fails(c, TRUE)
    BY <1>2, <2>1, FailsMoves DEF StartLane
  <2>2. CASE /\ running' = [running EXCEPT ![c] = "search"] /\ UNCHANGED channel
             /\ WorkerGoto(c, IF c = "aether" THEN "probe" ELSE "tunnel")
    BY <1>2, <2>2, Silence, WorkerMoves DEF StartLane, TypeOK, Running
  <2> QED BY <1>2, <2>1, <2>2 DEF StartLane
<1>3. CASE WaitForTunnel(c)
  <2>1. CASE Fails(c, TRUE)
    BY <1>3, <2>1, FailsMoves DEF WaitForTunnel
  <2>2. CASE WorkerGoto(c, "probe") /\ UNCHANGED <<running, channel>>
    BY <1>3, <2>2, Silence, WorkerMoves DEF WaitForTunnel, TypeOK
  <2> QED BY <1>3, <2>1, <2>2 DEF WaitForTunnel
<1>4. CASE Carries(c)
  <2>1. worker'[c].pc = "over" /\ worker' \in [Carriers -> Worker]
        /\ \A d \in Carriers \ {c} : worker'[d] = worker[d]
    BY <1>4, WorkerMoves DEF Carries
  <2>2. <<c, worker[c].lane>> \in Lane
    BY DEF TypeOK, Lane, Worker
  <2>3. here # Unknown => here \in Networks
    BY DEF TypeOK
  <2>4. here # Unknown => RouteOf(<<c, worker[c].lane>>) \in proven'[here]
    BY <1>4, <2>3 DEF Carries, TypeOK
  <2>5. Speaks(c)
    <3>1. /\ Attempt(c, TRUE) \in Message /\ Done(c) \in Message
          /\ Attempt(c, TRUE).carrier = c /\ Attempt(c, TRUE).what = "attempt"
          /\ Attempt(c, TRUE).ok /\ Attempt(c, TRUE).lane = worker[c].lane
          /\ Done(c).carrier = c /\ Done(c).what = "done" /\ ~Done(c).ok
      BY Messages DEF Attempt, Done
    <3>2. /\ channel' = channel \o <<Attempt(c, TRUE), Done(c)>>
          /\ carried' = carried \union {<<c, worker[c].lane>>}
      BY <1>4 DEF Carries
    <3> QED BY <2>1, <2>4, <3>1, <3>2, SpeaksTwice
  <2> QED BY <1>4, <2>1, <2>5 DEF Carries, TypeOK, Running
<1>5. CASE ProbeFails(c)
  <2>1. (c = "aether") \in BOOLEAN /\ Fails(c, c = "aether") /\ UNCHANGED <<carried, proven>>
    BY <1>5 DEF ProbeFails
  <2> QED BY <1>5, <2>1, FailsMoves DEF ProbeFails
<1>6. CASE Pause(c)
  <2>1. CASE /\ worker' = [worker EXCEPT ![c] = [pc |-> "lane", lane |-> 1, round |-> @.round + 1]]
             /\ UNCHANGED channel
    <3>1. [pc |-> "lane", lane |-> 1, round |-> worker[c].round + 1] \in Worker
      BY DEF TypeOK, Worker
    <3>2. worker' \in [Carriers -> Worker] /\ worker'[c].pc = "lane"
          /\ \A d \in Carriers \ {c} : worker'[d] = worker[d]
      BY <2>1, <3>1 DEF TypeOK
    <3> QED BY <1>6, <2>1, <3>2, Silence DEF Pause, TypeOK
  <2>2. CASE channel' = Append(channel, Done(c)) /\ WorkerGoto(c, "over")
    <3>1. worker'[c].pc = "over"
      BY <2>2, WorkerMoves
    <3>2. Speaks(c)
      BY <1>6, <2>2, <3>1, SpeaksOnce, Messages DEF Pause, Done
    <3> QED BY <1>6, <2>2, <3>2, WorkerMoves DEF Pause, TypeOK
  <2> QED BY <1>6, <2>1, <2>2 DEF Pause
<1> QED BY <1>1, <1>2, <1>3, <1>4, <1>5, <1>6 DEF Work

\* What is received is a message, and the others are what they were.
LEMMA Received ==
  ASSUME TypeOK, channel # <<>>
  PROVE  /\ Head(channel) \in Message /\ Head(channel) = channel[1] /\ Len(channel) \in Nat \ {0}
         /\ Tail(channel) \in Seq(Message) /\ Len(Tail(channel)) = Len(channel) - 1
         /\ \A i \in 1 .. Len(Tail(channel)) : Tail(channel)[i] = channel[i + 1]
<1>1. channel \in Seq(Message)
  BY DEF TypeOK
<1> QED BY <1>1

\* What a message makes of the thread that decides.
LEMMA ReceiveMain ==
  ASSUME TypeOK, Receive, channel # <<>>
  PROVE  LET event == channel[1]
             lane == <<event.carrier, event.lane>>
         IN  \/ /\ event.what = "done"
                /\ main' = [main EXCEPT !.pc = "head", !.done = @ \union {event.carrier}]
             \/ /\ event.what # "done" /\ event.ok
                /\ main' = [main EXCEPT !.pc = "stop", !.chosen = lane]
             \/ /\ event.what # "done" /\ event.ok
                /\ main' = [main EXCEPT !.pc = "head", !.provisional = lane]
             \/ /\ event.what # "done" /\ (event.ok => main.provisional # NoLane)
                /\ main' = [main EXCEPT !.pc = "head"]
<1> DEFINE e == channel[1]
<1>1. Head(channel) = e /\ e.ok \in BOOLEAN
  BY Received DEF Message
<1>2. CASE e.what = "done"
  BY <1>1, <1>2 DEF Receive
<1>3. CASE e.what # "done" /\ e.ok /\ (e.carrier = "aether" \/ EngineDone)
  BY <1>1, <1>3 DEF Receive
<1>4. CASE e.what # "done" /\ e.ok /\ ~(e.carrier = "aether" \/ EngineDone)
  BY <1>1, <1>4 DEF Receive
<1>5. CASE e.what # "done" /\ ~e.ok
  BY <1>1, <1>5 DEF Receive
<1> QED BY <1>2, <1>3, <1>4, <1>5

\* What the thread that decides makes of itself.
LEMMA SearchMain ==
  ASSUME TypeOK, Search
  PROVE  main' \in Main'
<1> USE DEF TypeOK, Main, Labels
<1>1. CASE RecallRoute
  BY <1>1 DEF RecallRoute
<1>2. CASE Decide
  BY <1>2 DEF Decide, Goto
<1>3. CASE Receive
  <2>1. CASE Goto("head")
    BY <2>1 DEF Goto
  <2>2. CASE channel # <<>>
    <3>1. channel[1] \in Message
      BY <2>2, Received
    <3>2. channel[1].carrier \in Carriers /\ <<channel[1].carrier, channel[1].lane>> \in Lane
      BY <3>1 DEF Message, Lane
    <3>3. main.done \union {channel[1].carrier} \in SUBSET Carriers
      BY <3>2
    <3> QED BY <1>3, <2>2, <3>2, <3>3, ReceiveMain
  <2> QED BY <1>3, <2>1, <2>2 DEF Receive
<1>4. CASE StopAll
  BY <1>4 DEF StopAll
<1>5. CASE StopTor \/ Join \/ Record
  BY <1>5 DEF StopTor, Join, Record, Goto
<1>6. CASE Verify
  BY <1>6 DEF Verify
<1>7. CASE Finish
  BY <1>7 DEF Finish, Rest, Unknown
<1> QED BY <1>1, <1>2, <1>3, <1>4, <1>5, <1>6, <1>7 DEF Search

\* A step of the search keeps the types.
LEMMA TypeSearch ==
  ASSUME TypeOK, Search
  PROVE  TypeOK'
<1> USE SearchMain DEF TypeOK, world, supervisor, bounds, history
<1>1. CASE RecallRoute
  <2>1. [NotYet EXCEPT !.pc = "lane"] \in Worker
    BY DEF NotYet, Worker
  <2> QED BY <1>1, <2>1 DEF RecallRoute
<1>2. CASE Decide \/ Join
  BY <1>2 DEF Decide, Join
<1>3. CASE Receive
  <2>1. channel' \in Seq(Message)
    BY <1>3, Received DEF Receive
  <2> QED BY <1>3, <2>1 DEF Receive
<1>4. CASE StopAll \/ StopTor
  BY <1>4 DEF StopAll, StopTor, Running
<1>5. CASE Verify
  BY <1>5 DEF Verify
<1>6. CASE Record
  <2>1. main.network = Unknown \/ main.network \in Networks
    BY DEF Main
  <2>2. /\ DOMAIN memory' \subseteq Networks /\ \A n \in DOMAIN memory' : "route" \in DOMAIN memory'[n]
    BY <1>6, <2>1, LearntRoutes DEF Record, Routed
  <2>3. report' \in [winner : Lane \union {NoLane}, cancelled : BOOLEAN]
    BY <1>6 DEF Record, Main
  <2> QED BY <1>6, <2>2, <2>3 DEF Record
<1>7. CASE Finish
  <2>1. NotYet \in Worker
    BY DEF NotYet, Worker
  <2> QED BY <1>7, <2>1 DEF Finish
<1> QED BY <1>1, <1>2, <1>3, <1>4, <1>5, <1>6, <1>7 DEF Search

\* The user, the network and the supervisor.
Outside ==
  \/ Cancel \/ Disconnect \/ Disconnected \/ (\E c \in Carriers : Connect(c)) \/ Connected
  \/ Move \/ Between

\* What they leave alone.
LEMMA OutsideMoves ==
  ASSUME TypeOK, Outside
  PROVE  /\ UNCHANGED <<memory, active, main, worker, channel, report, carried, proven>>
         /\ running' \in [Carriers -> Running]
         /\ running'["aether"] \in {running["aether"], "off"}
         /\ here' \in Networks \union {Unknown} /\ (active => UNCHANGED context)
         /\ generation' \in {generation, generation + 1} /\ flag' \in BOOLEAN
         /\ \/ UNCHANGED <<generation, interrupted>>
            \/ generation' = generation + 1 /\ (interrupted' => active /\ ~At("recall"))
<1> USE EngineIsInstalled DEF TypeOK, world, supervisor, bounds, history, Running
<1>1. CASE Cancel
  BY <1>1 DEF Cancel
<1>2. CASE Disconnect
  BY <1>2 DEF Disconnect
<1>3. CASE Disconnected
  BY <1>3 DEF Disconnected
<1>4. ASSUME NEW c \in Carriers, Connect(c)
      PROVE  /\ UNCHANGED <<memory, active, main, worker, channel, report, carried, proven, here, context, flag>>
             /\ running' \in [Carriers -> Running]
             /\ running'["aether"] = running["aether"]
             /\ generation' = generation + 1 /\ (interrupted' => active /\ ~At("recall"))
  BY <1>4 DEF Connect
<1>5. CASE Connected
  BY <1>5 DEF Connected
<1>6. CASE Move
  BY <1>6 DEF Move
<1>7. CASE Between
  BY <1>7 DEF Between
<1> QED BY <1>1, <1>2, <1>3, <1>4, <1>5, <1>6, <1>7 DEF Outside

\* Every step is one of these.
LEMMA Steps ==
  ASSUME [Next]_vars
  PROVE  Begin \/ Search \/ (\E c \in Carriers : Work(c)) \/ Outside \/ UNCHANGED vars
BY DEF Next, Outside

\* Every step keeps every type.
LEMMA TypeStep ==
  ASSUME TypeOK, [Next]_vars
  PROVE  TypeOK'
<1>1. CASE Begin
  BY <1>1 DEF Begin, TypeOK, Main, Labels, Rest, Unknown, NoReport, world, supervisor
<1>2. ASSUME NEW c \in Carriers, Work(c) PROVE TypeOK'
  <2>1. carried' \in SUBSET Lane /\ channel' \in Seq(Message)
    BY <1>2, WorkMoves DEF Speaks
  <2>2. proven' = [n \in Networks |-> proven'[n]]
    BY <1>2, WorkMoves DEF TypeOK
  <2> QED BY <1>2, <2>1, <2>2, WorkMoves DEF TypeOK, Main, world, supervisor
<1>3. CASE Outside
  <2>1. generation' \in Nat
    BY <1>3, OutsideMoves DEF TypeOK
  <2>2. main' \in Main'
    BY <1>3, OutsideMoves DEF TypeOK, Main
  <2> QED BY <1>3, <2>1, <2>2, OutsideMoves DEF TypeOK
<1>4. CASE UNCHANGED vars
  BY <1>4 DEF TypeOK, Main, vars, world, supervisor, bounds, history
<1> QED BY <1>1, <1>2, <1>3, <1>4, Steps, TypeSearch

\* The initial state is well typed, and a search that has not begun has nothing to keep.
LEMMA InitTypes == Init => TypeOK /\ Phases /\ Gens /\ Queued /\ Kept /\ Judged
<1> SUFFICES ASSUME Init PROVE TypeOK /\ Phases /\ Gens /\ Queued /\ Kept /\ Judged
  OBVIOUS
<1>1. DOMAIN memory \subseteq Networks /\ \A n \in DOMAIN memory : memory[n] \in Entry
  BY EarlierIsRead DEF Init
<1>2. \A n \in DOMAIN memory : "route" \in DOMAIN memory[n]
  BY <1>1 DEF Entry
<1>3. TypeOK
  <2>1. main \in Main
    BY DEF Init, Main, Labels, Rest, Unknown
  <2>2. worker \in [Carriers -> Worker] /\ running \in [Carriers -> Running]
    BY DEF Init, NotYet, Worker, Running
  <2>3. proven = [n \in Networks |-> proven[n]]
    BY DEF Init
  <2>4. here \in Networks \union {Unknown} /\ channel \in Seq(Message)
        /\ report \in [winner : Lane \union {NoLane}, cancelled : BOOLEAN]
    BY DEF Init, NoReport
  <2> QED BY <1>1, <1>2, <2>1, <2>2, <2>3, <2>4 DEF Init, TypeOK
<1>4. RememberedIsProven
  BY <1>1 DEF Init, RememberedIsProven
<1>5. Phases /\ Gens /\ Queued /\ Kept
  BY EngineIsInstalled DEF Init, Phases, Gens, Queued, Kept, At, WorkerAt, Rest, NotYet
<1>6. Judged
  BY <1>4 DEF Init, Judged, At, Rest
<1> QED BY <1>3, <1>5, <1>6

(***************************************************************************)
(* The phases of a search.                                                 *)
(***************************************************************************)
\* A search begins where there is none.
LEMMA BeginMoves ==
  ASSUME TypeOK, Begin
  PROVE  /\ At("idle") /\ ~active /\ active' = TRUE /\ main'.pc = "recall"
         /\ main'.gen = 0 /\ main'.done = {} /\ main'.network = Unknown
         /\ main'.chosen = NoLane /\ main'.provisional = NoLane
         /\ carried' = {} /\ interrupted' = FALSE
         /\ UNCHANGED <<worker, channel, running, memory, proven, here, context, generation>>
BY DEF Begin, Rest, world, supervisor, Unknown

\* Phases is inductive: a worker that works, or the thread that decides.
LEMMA PhasesWork ==
  ASSUME TypeOK, Phases, NEW c \in Carriers, Work(c)
  PROVE  Phases'
<1>1. UNCHANGED <<active, main>> /\ ~WorkerAt(c, "over") /\ ~WorkerAt(c, "off")
  BY WorkMoves
<1>2. \A d \in Carriers \ {c} : worker'[d] = worker[d] /\ running'[d] = running[d]
  BY WorkMoves
<1>3. ~WorkerAt("aether", "tunnel")' /\ (running'["aether"] = "search" => WorkerAt("aether", "probe")')
  <2>1. CASE c # "aether"
    BY <1>2, <2>1, EngineIsInstalled DEF Phases, WorkerAt
  <2>2. CASE c = "aether"
    <3>1. CASE TakeLane(c) \/ Pause(c)
      <4>1. UNCHANGED running /\ ~WorkerAt(c, "probe")
        BY <3>1 DEF TakeLane, Pause, WorkerAt
      <4>2. worker'[c].pc \in {"start", "pause", "lane", "over"}
        <5>1. CASE worker' = [worker EXCEPT ![c] = [pc |-> "lane", lane |-> 1, round |-> @.round + 1]]
          BY <5>1 DEF TypeOK
        <5> QED BY <3>1, <5>1, WorkerMoves DEF TakeLane, Pause
      <4> QED BY <2>2, <4>1, <4>2 DEF Phases, WorkerAt
    <3>2. CASE StartLane(c)
      <4>1. CASE Fails(c, TRUE) /\ UNCHANGED carried
        BY <2>2, <4>1, FailsMoves DEF WorkerAt
      <4>2. CASE WorkerGoto(c, IF c = "aether" THEN "probe" ELSE "tunnel")
        BY <2>2, <4>2, WorkerMoves DEF WorkerAt
      <4> QED BY <3>2, <4>1, <4>2 DEF StartLane, history
    <3>3. CASE Carries(c)
      <4>1. running'["aether"] = "off" /\ worker'[c].pc = "over"
        BY <2>2, <3>3, WorkerMoves DEF Carries, TypeOK
      <4> QED BY <2>2, <4>1 DEF WorkerAt
    <3>4. CASE ProbeFails(c)
      <4>1. Fails(c, TRUE) /\ UNCHANGED carried
        BY <2>2, <3>4 DEF ProbeFails, history
      <4> QED BY <2>2, <4>1, FailsMoves DEF WorkerAt
    <3>5. ~WaitForTunnel(c)
      BY <2>2 DEF Phases, WaitForTunnel
    <3> QED BY <3>1, <3>2, <3>3, <3>4, <3>5 DEF Work
  <2> QED BY <2>1, <2>2
<1>4. main.pc \notin {"idle", "recall", "verify", "record", "finish"}
  BY <1>1 DEF Phases, At, WorkerAt
<1> QED BY <1>1, <1>3, <1>4 DEF Phases, At

\* The thread that decides waits for the workers before it judges.
LEMMA PhasesSearch ==
  ASSUME TypeOK, Phases, Search
  PROVE  Phases'
<1> USE EngineIsInstalled DEF Phases, At, WorkerAt, world, supervisor, bounds, history
<1>0. main \in Main /\ active \in BOOLEAN
  BY DEF TypeOK
<1>1. CASE RecallRoute
  <2>1. main'.pc = "head"
    BY <1>0, <1>1 DEF RecallRoute, Main
  <2>2. \A c \in Carriers : worker'[c].pc = "lane"
    BY <1>1 DEF RecallRoute, NotYet
  <2> QED BY <1>1, <2>1, <2>2 DEF RecallRoute
<1>2. CASE Decide
  <2>1. main'.pc \in {"stop", "receive"}
    BY <1>0, <1>2 DEF Decide, Main, Goto
  <2> QED BY <1>2, <2>1 DEF Decide
<1>3. CASE Receive
  <2>1. main'.pc \in {"stop", "head"}
    <3>1. Goto("head") => main'.pc = "head"
      BY <1>0 DEF Goto, Main
    <3>2. channel # <<>> => main'.pc \in {"stop", "head"}
      BY <1>0, <1>3, ReceiveMain DEF Main
    <3> QED BY <1>3, <3>1, <3>2 DEF Receive
  <2> QED BY <1>3, <2>1 DEF Receive
<1>4. CASE StopAll \/ StopTor
  <2>1. main'.pc \in {"stop tor", "join"}
    BY <1>0, <1>4 DEF StopAll, StopTor, Main, Goto
  <2>2. running'["aether"] = running["aether"]
    BY <1>4 DEF StopAll, StopTor, TypeOK
  <2> QED BY <1>4, <2>1, <2>2 DEF StopAll, StopTor
<1>5. CASE Join
  <2>1. main'.pc = "verify"
    BY <1>0, <1>5 DEF Join, Main, Goto
  <2> QED BY <1>5, <2>1 DEF Join
<1>6. CASE Verify
  <2>1. main'.pc = "record"
    BY <1>0, <1>6 DEF Verify, Main
  <2> QED BY <1>6, <2>1 DEF Verify
<1>7. CASE Record
  <2>1. main'.pc = "finish"
    BY <1>0, <1>7 DEF Record, Main, Goto
  <2> QED BY <1>7, <2>1 DEF Record
<1>8. CASE Finish
  <2>1. main'.pc = "idle" /\ \A c \in Carriers : worker'[c].pc = "off"
    BY <1>8 DEF Finish, Rest, NotYet
  <2> QED BY <1>8, <2>1 DEF Finish
<1> QED BY <1>1, <1>2, <1>3, <1>4, <1>5, <1>6, <1>7, <1>8 DEF Search

\* Phases is inductive.
LEMMA PhasesStep ==
  ASSUME TypeOK, Phases, [Next]_vars
  PROVE  Phases'
<1>1. CASE Begin
  BY <1>1, BeginMoves DEF Phases, At, WorkerAt
<1>2. CASE Outside
  BY <1>2, OutsideMoves DEF Phases, At, WorkerAt
<1>3. CASE UNCHANGED vars
  BY <1>3 DEF Phases, At, WorkerAt, vars, history
<1> QED BY <1>1, <1>2, <1>3, PhasesWork, PhasesSearch, Steps

\* Once a search is over nothing of it runs: the workers are gone and no trial engine is
\* left behind, whatever the user and the network do meanwhile.
THEOREM SearchLeavesNothing == Spec => []NothingTriedIsLeft
<1>1. TypeOK /\ Phases /\ [Next]_vars => (TypeOK /\ Phases)'
  BY TypeStep, PhasesStep
<1>2. TypeOK /\ Phases => NothingTriedIsLeft
  BY EngineIsInstalled DEF TypeOK, Phases, NothingTriedIsLeft, At, WorkerAt
<1> QED BY InitTypes, <1>1, <1>2, PTL DEF Spec

(***************************************************************************)
(* Whose the winner is.                                                    *)
(***************************************************************************)
\* Gens is inductive: a disconnect or a connect takes the generation on.
LEMMA GensStep ==
  ASSUME TypeOK, Phases, Gens, [Next]_vars
  PROVE  Gens'
<1>0. main \in Main /\ generation \in Nat /\ main.gen \in Nat
  BY DEF TypeOK, Main
<1>1. CASE Begin
  BY <1>0, <1>1, BeginMoves DEF Gens
<1>2. ASSUME NEW c \in Carriers, Work(c) PROVE Gens'
  BY <1>2, WorkMoves DEF Gens, At, supervisor
<1>3. CASE Outside
  <2>1. CASE UNCHANGED <<generation, interrupted>>
    BY <1>3, <2>1, OutsideMoves DEF Gens, At
  <2>2. CASE generation' = generation + 1 /\ (interrupted' => active /\ ~At("recall"))
    <3>1. main' = main
      BY <1>3, OutsideMoves
    <3>2. main.gen < generation + 1
      BY <1>0 DEF Gens
    <3> QED BY <1>0, <2>2, <3>1, <3>2 DEF Gens, At, Phases
  <2> QED BY <1>3, <2>1, <2>2, OutsideMoves
<1>4. CASE UNCHANGED vars
  BY <1>4 DEF Gens, At, vars, supervisor, history
<1>5. CASE RecallRoute
  <2>1. main'.gen = generation /\ ~interrupted /\ UNCHANGED <<generation, interrupted>>
    BY <1>0, <1>5 DEF RecallRoute, Main, history, Gens
  <2> QED BY <1>0, <2>1 DEF Gens
<1>6. CASE Finish
  <2>1. main'.gen = 0 /\ interrupted' = FALSE /\ UNCHANGED generation
    BY <1>6 DEF Finish, Rest
  <2> QED BY <1>0, <2>1 DEF Gens
<1>7. CASE Decide \/ Receive \/ StopAll \/ StopTor \/ Join \/ Verify \/ Record
  <2>1. UNCHANGED <<generation, interrupted>> /\ ~At("idle") /\ ~At("recall")
    BY <1>7 DEF Decide, Receive, StopAll, StopTor, Join, Verify, Record, At, supervisor, history
  <2>2. main'.gen = main.gen /\ main'.pc \notin {"idle", "recall"}
    <3>1. CASE Receive
      <4>1. Goto("head") => main'.gen = main.gen /\ main'.pc = "head"
        BY <1>0 DEF Goto, Main
      <4>2. channel # <<>> => main'.gen = main.gen /\ main'.pc \in {"head", "stop"}
        BY <1>0, <3>1, ReceiveMain DEF Main
      <4> QED BY <3>1, <4>1, <4>2 DEF Receive
    <3>2. CASE Decide
      BY <1>0, <3>2 DEF Decide, Main, Goto
    <3>3. CASE StopAll \/ Verify
      BY <1>0, <3>3 DEF StopAll, Verify, Main
    <3>4. CASE StopTor \/ Join \/ Record
      BY <1>0, <3>4 DEF StopTor, Join, Record, Main, Goto
    <3> QED BY <1>7, <3>1, <3>2, <3>3, <3>4
  <2> QED BY <2>1, <2>2 DEF Gens, At
<1> QED BY <1>1, <1>2, <1>3, <1>4, <1>5, <1>6, <1>7, Steps DEF Search

\* The search is judged in one step.
LEMMA OnlyVerify ==
  ASSUME TypeOK, At("verify"), [Next]_vars, main'.pc = "record"
  PROVE  Verify
<1>1. ~Begin /\ ~UNCHANGED main
  BY BeginMoves DEF At
<1>2. ~Outside /\ ~UNCHANGED vars /\ \A c \in Carriers : ~Work(c)
  BY <1>1, OutsideMoves, WorkMoves DEF vars
<1>3. Search
  BY <1>1, <1>2, Steps
<1> QED BY <1>3 DEF Search, RecallRoute, Decide, Receive, StopAll, StopTor, Join, Record, Finish, At

\* A search that a disconnect or a connect has overtaken has no winner, for any number
\* of them and in any order with the workers, the lanes and the network.
THEOREM WinnerIsNotStale == Spec => WinnerIsWanted
<1>1. TypeOK /\ Phases /\ Gens /\ [Next]_vars => (TypeOK /\ Phases /\ Gens)'
  BY TypeStep, PhasesStep, GensStep
<1>2. TypeOK /\ Phases /\ Gens /\ [Next]_vars =>
        [At("verify") /\ main'.pc = "record" /\ interrupted /\ ~ending
           => main'.cancelled /\ main'.chosen = NoLane]_vars
  <2> SUFFICES ASSUME TypeOK, Gens, [Next]_vars, At("verify"), main'.pc = "record", interrupted
               PROVE  main'.cancelled /\ main'.chosen = NoLane
    OBVIOUS
  <2>1. Verify
    BY OnlyVerify
  <2>2. generation # main.gen /\ main \in Main
    BY DEF Gens, TypeOK, Main
  <2> QED BY <2>1, <2>2 DEF Verify, Main
<1> QED BY InitTypes, <1>1, <1>2, PTL DEF Spec, WinnerIsWanted

(***************************************************************************)
(* What carried, where it is kept, and what it proves.                     *)
(***************************************************************************)
\* The thread that decides stays on its network and with its recipes.
Stays == main'.network = main.network /\ main'.order = main.order

\* It keeps what it has as well.
Keeps ==
  /\ Stays /\ main'.done = main.done /\ main'.provisional = main.provisional
  /\ main'.chosen = main.chosen /\ main'.cancelled = main.cancelled

\* What each step makes of it.
LEMMA MainAfter ==
  ASSUME TypeOK
  PROVE  /\ RecallRoute =>
              /\ At("recall") /\ main'.pc = "head" /\ main'.done = main.done
              /\ main'.provisional = main.provisional /\ main'.chosen = main.chosen
              /\ main'.cancelled = main.cancelled
         /\ Decide => At("head") /\ Stays /\ main'.done = main.done
              /\ main'.provisional = main.provisional
              /\ \/ main'.pc = "stop" /\ main'.cancelled /\ main'.chosen = main.chosen
                 \/ /\ main'.pc = "stop" /\ main.provisional # NoLane
                    /\ main'.chosen = main.provisional
                 \/ /\ main'.pc = "stop" /\ main.provisional = NoLane /\ main.done = Carriers
                    /\ Keeps
                 \/ main'.pc = "receive" /\ Keeps
         /\ StopAll => /\ At("stop") /\ Stays /\ main'.pc = "stop tor" /\ main'.done = main.done
                       /\ main'.provisional = main.provisional
                       /\ main'.cancelled = main.cancelled
                       /\ \/ main'.chosen = main.chosen
                          \/ main.chosen = NoLane /\ main'.chosen = main.provisional
         /\ StopTor => At("stop tor") /\ main'.pc = "join" /\ Keeps
         /\ Join => At("join") /\ main'.pc = "verify" /\ Keeps
         /\ Verify => /\ At("verify") /\ Stays /\ main'.pc = "record" /\ main'.done = main.done
                      /\ main'.provisional = main.provisional
                      /\ \/ main'.cancelled /\ main'.chosen \in {main.chosen, NoLane}
                         \/ /\ main'.chosen = main.chosen /\ ~Moved
                            /\ main'.cancelled = main.cancelled
         /\ Record => At("record") /\ main'.pc = "finish" /\ Keeps
<1> USE DEF TypeOK, Main, At, Goto, Stays, Keeps
<1>1. RecallRoute =>
        /\ At("recall") /\ main'.pc = "head" /\ main'.done = main.done
        /\ main'.provisional = main.provisional /\ main'.chosen = main.chosen
        /\ main'.cancelled = main.cancelled
  BY DEF RecallRoute
<1>2. ASSUME Decide
      PROVE  /\ At("head") /\ Stays /\ main'.done = main.done
             /\ main'.provisional = main.provisional
             /\ \/ main'.pc = "stop" /\ main'.cancelled /\ main'.chosen = main.chosen
                \/ /\ main'.pc = "stop" /\ main.provisional # NoLane
                   /\ main'.chosen = main.provisional
                \/ /\ main'.pc = "stop" /\ main.provisional = NoLane /\ main.done = Carriers
                   /\ Keeps
                \/ main'.pc = "receive" /\ Keeps
  <2>1. CASE main' = [main EXCEPT !.pc = "stop", !.cancelled = TRUE]
    BY <1>2, <2>1 DEF Decide
  <2>2. CASE main.provisional # NoLane /\ main' = [main EXCEPT !.pc = "stop", !.chosen = main.provisional]
    BY <1>2, <2>2 DEF Decide
  <2>3. CASE main.provisional = NoLane /\ main.done = Carriers /\ Goto("stop")
    BY <1>2, <2>3 DEF Decide
  <2>4. CASE Goto("receive")
    BY <1>2, <2>4 DEF Decide
  <2> QED BY <1>2, <2>1, <2>2, <2>3, <2>4 DEF Decide
<1>3. StopAll => /\ At("stop") /\ Stays /\ main'.pc = "stop tor" /\ main'.done = main.done
                 /\ main'.provisional = main.provisional
                 /\ main'.cancelled = main.cancelled
                 /\ \/ main'.chosen = main.chosen
                    \/ main.chosen = NoLane /\ main'.chosen = main.provisional
  BY DEF StopAll
<1>4. (StopTor => At("stop tor") /\ main'.pc = "join" /\ Keeps)
      /\ (Join => At("join") /\ main'.pc = "verify" /\ Keeps)
      /\ (Record => At("record") /\ main'.pc = "finish" /\ Keeps)
  BY DEF StopTor, Join, Record
<1>5. ASSUME Verify
      PROVE  /\ At("verify") /\ Stays /\ main'.pc = "record" /\ main'.done = main.done
             /\ main'.provisional = main.provisional
             /\ \/ main'.cancelled /\ main'.chosen \in {main.chosen, NoLane}
                \/ /\ main'.chosen = main.chosen /\ ~Moved
                   /\ main'.cancelled = main.cancelled
  <2> DEFINE void == generation # main.gen \/ Moved
  <2>1. CASE void
    BY <1>5, <2>1 DEF Verify
  <2>2. CASE ~void
    BY <1>5, <2>2 DEF Verify
  <2> QED BY <2>1, <2>2
<1> QED BY <1>1, <1>2, <1>3, <1>4, <1>5

\* What a message, or the lack of one, makes of it.
LEMMA ReceiveAfter ==
  ASSUME TypeOK, Receive
  PROVE  /\ At("receive") /\ Stays /\ main'.cancelled = main.cancelled
         /\ \/ channel = <<>> /\ channel' = channel /\ main'.pc = "head" /\ Keeps
            \/ /\ channel # <<>> /\ channel' = Tail(channel)
               /\ LET event == channel[1]
                      lane == <<event.carrier, event.lane>>
                  IN  \/ /\ event.what = "done" /\ main'.pc = "head"
                         /\ main'.done = main.done \union {event.carrier}
                         /\ main'.provisional = main.provisional
                         /\ main'.chosen = main.chosen
                      \/ /\ event.ok /\ main'.pc = "stop" /\ main'.chosen = lane
                         /\ main'.done = main.done /\ main'.provisional = main.provisional
                      \/ /\ event.ok /\ main'.pc = "head" /\ main'.provisional = lane
                         /\ main'.done = main.done /\ main'.chosen = main.chosen
                      \/ /\ event.ok => main.provisional # NoLane
                         /\ main'.pc = "head" /\ Keeps
<1> USE DEF TypeOK, Main, Stays, Keeps
<1>1. CASE channel = <<>> /\ Goto("head") /\ UNCHANGED channel
  BY <1>1 DEF Receive, Goto, At
<1>2. CASE channel # <<>> /\ channel' = Tail(channel)
  BY <1>2, ReceiveMain DEF Receive, At
<1> QED BY <1>1, <1>2 DEF Receive

\* Queued is inductive: a worker speaks last when it is over,
LEMMA QueuedWork ==
  ASSUME TypeOK, Queued, NEW c \in Carriers, Work(c)
  PROVE  Queued'
<1>1. Speaks(c) /\ ~WorkerAt(c, "over") /\ UNCHANGED main
      /\ \A d \in Carriers \ {c} : worker'[d] = worker[d]
  BY WorkMoves
<1>2. Len(channel) \in Nat /\ Len(channel') \in Nat /\ channel \in Seq(Message)
      /\ channel' \in Seq(Message)
  BY <1>1 DEF TypeOK, Speaks
<1>3. \A i \in 1 .. Len(channel') : i \in 1 .. Len(channel) \/ i \in Len(channel) + 1 .. Len(channel')
  BY <1>2
<1>4. \A i \in 1 .. Len(channel') : channel'[i] \in Message
  BY <1>2
<1>5. ASSUME NEW i \in 1 .. Len(channel'), channel'[i].what = "done"
      PROVE  /\ worker'[channel'[i].carrier].pc = "over"
             /\ \A j \in 1 .. Len(channel') : channel'[j].carrier = channel'[i].carrier => j <= i
  <2>1. CASE i \in 1 .. Len(channel)
    <3>1. channel'[i] = channel[i] /\ channel[i].carrier \in Carriers
      BY <1>1, <1>4, <2>1 DEF Speaks, Message
    <3>2. WorkerAt(channel[i].carrier, "over") /\ channel[i].carrier # c
      BY <1>1, <1>5, <2>1, <3>1 DEF Queued
    <3>3. ASSUME NEW j \in 1 .. Len(channel'), channel'[j].carrier = channel'[i].carrier
          PROVE  j <= i
      <4>1. j \in 1 .. Len(channel)
        BY <1>1, <1>3, <3>1, <3>2, <3>3 DEF Speaks
      <4>2. channel[j].carrier = channel[i].carrier
        BY <1>1, <3>1, <3>3, <4>1 DEF Speaks
      <4> QED BY <1>5, <2>1, <3>1, <4>1, <4>2 DEF Queued
    <3> QED BY <1>1, <3>1, <3>2, <3>3 DEF WorkerAt
  <2>2. CASE i \in Len(channel) + 1 .. Len(channel')
    <3>1. channel'[i].carrier = c /\ worker'[c].pc = "over" /\ i = Len(channel')
      BY <1>1, <1>5, <2>2 DEF Speaks
    <3>2. \A j \in 1 .. Len(channel') : j <= Len(channel')
      BY <1>2
    <3> QED BY <3>1, <3>2
  <2> QED BY <1>3, <2>1, <2>2
<1>6. ASSUME NEW d \in main.done
      PROVE  worker'[d].pc = "over" /\ \A i \in 1 .. Len(channel') : channel'[i].carrier # d
  <2>1. d \in Carriers /\ d # c /\ WorkerAt(d, "over")
    BY <1>1 DEF Queued, TypeOK, Main
  <2>2. worker'[d].pc = "over"
    BY <1>1, <2>1 DEF WorkerAt
  <2>3. ASSUME NEW i \in 1 .. Len(channel') PROVE channel'[i].carrier # d
    <3>1. CASE i \in 1 .. Len(channel)
      BY <1>1, <3>1 DEF Queued, Speaks
    <3>2. CASE i \in Len(channel) + 1 .. Len(channel')
      BY <1>1, <2>1, <3>2 DEF Speaks
    <3> QED BY <1>3, <3>1, <3>2
  <2> QED BY <2>2, <2>3
<1>7. ASSUME NEW i \in 1 .. Len(channel'), channel'[i].ok
      PROVE  channel'[i].what = "attempt" /\ <<channel'[i].carrier, channel'[i].lane>> \in carried'
  BY <1>1, <1>3, <1>7 DEF Queued, Speaks
<1>8. {main'.provisional, main'.chosen} \subseteq carried' \union {NoLane}
  BY <1>1 DEF Queued, Speaks
<1> QED BY <1>1, <1>5, <1>6, <1>7, <1>8 DEF Queued, WorkerAt

\* and what has been heard is no longer in the channel.
LEMMA QueuedReceive ==
  ASSUME TypeOK, Queued, Receive
  PROVE  Queued'
<1>0. UNCHANGED <<worker, carried>>
  BY DEF Receive, history
<1>1. CASE channel' = channel /\ Keeps
  BY <1>0, <1>1 DEF Queued, Keeps, WorkerAt
<1>2. CASE channel # <<>> /\ channel' = Tail(channel)
  <2> DEFINE e == channel[1]
  <2>1. /\ Len(channel) \in Nat \ {0} /\ Len(channel') = Len(channel) - 1
        /\ \A i \in 1 .. Len(channel') : channel'[i] = channel[i + 1] /\ i + 1 \in 1 .. Len(channel)
        /\ 1 \in 1 .. Len(channel) /\ e \in Message
    BY <1>2, Received
  <2>2. ASSUME NEW i \in 1 .. Len(channel'), channel'[i].what = "done"
        PROVE  /\ worker'[channel'[i].carrier].pc = "over"
               /\ \A j \in 1 .. Len(channel') : channel'[j].carrier = channel'[i].carrier => j <= i
    <3>1. WorkerAt(channel[i + 1].carrier, "over")
      BY <2>1, <2>2 DEF Queued
    <3>2. ASSUME NEW j \in 1 .. Len(channel'), channel'[j].carrier = channel'[i].carrier
          PROVE  j <= i
      <4>1. j + 1 <= i + 1
        BY <2>1, <2>2, <3>2 DEF Queued
      <4> QED BY <2>1, <4>1
    <3> QED BY <1>0, <2>1, <2>2, <3>1, <3>2 DEF WorkerAt
  <2>3. ASSUME NEW d \in main'.done
        PROVE  worker'[d].pc = "over" /\ \A i \in 1 .. Len(channel') : channel'[i].carrier # d
    <3>1. d \in main.done \/ (d = e.carrier /\ e.what = "done")
      BY <1>2, <2>3, ReceiveAfter DEF Keeps
    <3>2. CASE d \in main.done
      BY <1>0, <2>1, <3>2 DEF Queued, WorkerAt
    <3>3. CASE d = e.carrier /\ e.what = "done"
      <4>1. /\ WorkerAt(d, "over")
            /\ \A j \in 1 .. Len(channel) : channel[j].carrier = d => j <= 1
        BY <2>1, <3>3 DEF Queued
      <4>2. ASSUME NEW i \in 1 .. Len(channel') PROVE channel'[i].carrier # d
        BY <2>1, <4>1
      <4> QED BY <1>0, <4>1, <4>2 DEF WorkerAt
    <3> QED BY <3>1, <3>2, <3>3
  <2>4. \A i \in 1 .. Len(channel') : channel'[i].ok =>
          channel'[i].what = "attempt" /\ <<channel'[i].carrier, channel'[i].lane>> \in carried'
    BY <1>0, <2>1 DEF Queued
  <2>5. {main'.provisional, main'.chosen} \subseteq carried' \union {NoLane}
    <3>1. e.ok => <<e.carrier, e.lane>> \in carried
      BY <2>1 DEF Queued
    <3> QED BY <1>0, <1>2, <3>1, ReceiveAfter DEF Queued, Keeps
  <2> QED BY <2>2, <2>3, <2>4, <2>5 DEF Queued, WorkerAt
<1> QED BY <1>1, <1>2, ReceiveAfter

\* Queued is inductive.
LEMMA QueuedStep ==
  ASSUME TypeOK, Phases, Queued, [Next]_vars
  PROVE  Queued'
<1>1. CASE Begin
  BY <1>1, BeginMoves DEF Queued, Phases, At, WorkerAt
<1>2. CASE Outside
  BY <1>2, OutsideMoves DEF Queued, WorkerAt
<1>3. CASE UNCHANGED vars
  BY <1>3 DEF Queued, WorkerAt, vars, history
<1>4. CASE RecallRoute
  <2>1. channel' = <<>> /\ carried' = carried
    BY <1>4 DEF Phases, RecallRoute, At, history
  <2>2. main'.done = {}
    BY <1>4, MainAfter DEF Phases, Queued, TypeOK, Main, At, WorkerAt
  <2>3. {main'.provisional, main'.chosen} \subseteq carried' \union {NoLane}
    BY <1>4, <2>1, MainAfter DEF Queued
  <2>4. Len(channel') = 0
    BY <2>1
  <2> QED BY <2>2, <2>3, <2>4 DEF Queued
<1>5. CASE Decide \/ StopAll \/ StopTor \/ Join \/ Record
  <2>1. UNCHANGED <<worker, channel, carried>>
    BY <1>5 DEF Decide, StopAll, StopTor, Join, Record, history
  <2>2. main'.done = main.done /\ {main'.provisional, main'.chosen} \subseteq {main.provisional, main.chosen}
    BY <1>5, MainAfter DEF Keeps
  <2> QED BY <2>1, <2>2 DEF Queued, WorkerAt
<1>6. CASE Verify
  <2>1. UNCHANGED <<worker, carried>> /\ channel' = <<>>
    BY <1>6 DEF Verify, history
  <2>2. main'.done = main.done /\ main'.provisional = main.provisional /\ main'.chosen \in {main.chosen, NoLane}
    BY <1>6, MainAfter
  <2> QED BY <2>1, <2>2 DEF Queued, WorkerAt
<1>7. CASE Finish
  <2>1. channel' = <<>>
    BY <1>7 DEF Finish, Phases, At
  <2> QED BY <1>7, <2>1 DEF Finish, Rest, Queued
<1> QED BY <1>1, <1>2, <1>3, <1>4, <1>5, <1>6, <1>7, QueuedWork, QueuedReceive, Steps DEF Search

\* Kept is inductive: a worker adds to what carried only with a message,
LEMMA KeptWork ==
  ASSUME TypeOK, Phases, Queued, Kept, NEW c \in Carriers, Work(c)
  PROVE  Kept'
<1>1. Speaks(c) /\ ~WorkerAt(c, "over") /\ UNCHANGED <<main, report>>
  BY WorkMoves
<1>2. main.pc \notin {"record", "finish"} /\ main.done # Carriers
  BY <1>1 DEF Phases, Queued
<1>3. ASSUME main.pc \in {"head", "receive"}, NEW lane \in carried'
      PROVE  \/ main.provisional # NoLane
             \/ \E i \in 1 .. Len(channel') : channel'[i].ok /\ channel'[i].carrier = lane[1]
  <2>1. CASE lane \in carried
    <3>1. \A i \in 1 .. Len(channel) : i \in 1 .. Len(channel') /\ channel'[i] = channel[i]
      BY <1>1 DEF Speaks, TypeOK
    <3> QED BY <1>3, <2>1, <3>1 DEF Kept, At
  <2>2. CASE lane \notin carried
    BY <1>1, <2>2 DEF Speaks
  <2> QED BY <2>1, <2>2
<1> QED BY <1>1, <1>2, <1>3 DEF Kept, At

\* the loop ends when there is nothing left to hear,
LEMMA KeptDecide ==
  ASSUME TypeOK, Queued, Kept, Decide
  PROVE  Kept'
<1>1. UNCHANGED <<channel, carried, report>>
  BY DEF Decide, history
<1>2. CASE main'.pc = "stop" /\ (main'.cancelled \/ main'.chosen # NoLane)
  BY <1>2 DEF Kept, At
<1>3. CASE main.provisional = NoLane /\ main.done = Carriers /\ Keeps /\ main'.pc = "stop"
  <2>1. \A lane \in carried : lane[1] \in Carriers
    BY DEF TypeOK, Lane
  <2>2. carried = {}
    BY <1>3, <2>1, MainAfter DEF Kept, Queued
  <2> QED BY <1>1, <1>3, <2>2 DEF Kept, Keeps, At
<1>4. CASE main'.pc = "receive" /\ Keeps
  BY <1>1, <1>4, MainAfter DEF Kept, Keeps, At
<1> QED BY <1>2, <1>3, <1>4, MainAfter

\* and a message that says that a lane works is taken, or one is in reserve already.
LEMMA KeptReceive ==
  ASSUME TypeOK, Queued, Kept, Receive
  PROVE  Kept'
<1>1. UNCHANGED <<carried, report>> /\ At("receive")
  BY DEF Receive, history
<1>2. CASE channel' = channel /\ main'.pc = "head" /\ Keeps
  BY <1>1, <1>2 DEF Kept, Keeps, At
<1>3. CASE channel # <<>> /\ channel' = Tail(channel)
  <2> DEFINE e == channel[1]
  <2>1. /\ Len(channel) \in Nat \ {0} /\ Len(channel') = Len(channel) - 1
        /\ \A i \in 1 .. Len(channel') : channel'[i] = channel[i + 1]
        /\ 1 \in 1 .. Len(channel) /\ e \in Message
    BY <1>3, Received
  <2>2. \A k \in 2 .. Len(channel) : k - 1 \in 1 .. Len(channel') /\ channel'[k - 1] = channel[k]
    BY <2>1
  <2>3. <<e.carrier, e.lane>> # NoLane
    BY <2>1, LaneIsOne DEF Message, Lane
  <2>4. CASE main'.pc = "stop" /\ main'.chosen = <<e.carrier, e.lane>>
    BY <2>3, <2>4 DEF Kept, At
  <2>5. CASE main'.pc = "head" /\ main'.provisional = <<e.carrier, e.lane>>
    BY <2>3, <2>5 DEF Kept, At
  <2>6. CASE /\ main'.pc = "head" /\ main'.provisional = main.provisional
             /\ e.ok => main.provisional # NoLane
    <3>1. ASSUME NEW lane \in carried, main.provisional = NoLane
          PROVE  \E i \in 1 .. Len(channel') : channel'[i].ok /\ channel'[i].carrier = lane[1]
      <4>1. PICK k \in 1 .. Len(channel) : channel[k].ok /\ channel[k].carrier = lane[1]
        BY <1>1, <3>1 DEF Kept
      <4>2. k # 1
        BY <2>6, <3>1, <4>1
      <4>3. k \in 2 .. Len(channel)
        BY <4>2
      <4> QED BY <2>2, <4>1, <4>3
    <3> QED BY <1>1, <2>6, <3>1 DEF Kept, At
  <2>7. e.what = "done" => ~e.ok
    BY <2>1 DEF Queued
  <2> QED BY <1>3, <2>4, <2>5, <2>6, <2>7, ReceiveAfter DEF Keeps
<1> QED BY <1>2, <1>3, ReceiveAfter

\* Kept is inductive.
LEMMA KeptStep ==
  ASSUME TypeOK, Phases, Queued, Kept, [Next]_vars
  PROVE  Kept'
<1>1. CASE Begin
  BY <1>1, BeginMoves DEF Kept, At
<1>2. CASE Outside
  BY <1>2, OutsideMoves DEF Kept, At
<1>3. CASE UNCHANGED vars
  BY <1>3 DEF Kept, At, vars, history
<1>4. CASE RecallRoute
  <2>1. carried' = {}
    BY <1>4 DEF Phases, RecallRoute, At, history
  <2> QED BY <1>4, <2>1, MainAfter DEF Kept, At
<1>5. CASE StopAll \/ StopTor \/ Join
  <2>1. UNCHANGED carried
    BY <1>5 DEF StopAll, StopTor, Join, history
  <2> QED BY <1>5, <2>1, MainAfter DEF Kept, Keeps, At
<1>6. CASE Verify
  <2>1. UNCHANGED carried
    BY <1>6 DEF Verify, history
  <2> QED BY <1>6, <2>1, MainAfter DEF Kept, At
<1>7. CASE Record
  <2>1. UNCHANGED carried /\ report'.cancelled = main.cancelled
        /\ (~main.cancelled => report'.winner = main.chosen)
    BY <1>7 DEF Record, history
  <2> QED BY <1>7, <2>1, MainAfter DEF Kept, Keeps, At
<1>8. CASE Finish
  BY <1>8 DEF Finish, Rest, Kept, At
<1> QED BY <1>1, <1>2, <1>3, <1>4, <1>5, <1>6, <1>7, <1>8, KeptWork, KeptDecide, KeptReceive, Steps
    DEF Search

\* A working route is not thrown away: a search that was not cancelled and names no winner
\* has no lane that carried, for any carriers, lanes and rounds, and in whatever order
\* the workers' messages come.
THEOREM SearchMissesNothing == Spec => []NothingMissed
<1>1. TypeOK /\ Phases /\ Queued /\ Kept /\ [Next]_vars => (TypeOK /\ Phases /\ Queued /\ Kept)'
  BY TypeStep, PhasesStep, QueuedStep, KeptStep
<1>2. Kept => NothingMissed
  BY DEF Kept, NothingMissed
<1> QED BY InitTypes, <1>1, <1>2, PTL DEF Spec

(***************************************************************************)
(* What is remembered.                                                     *)
(***************************************************************************)
\* A machine that has left the network a search began on does not come back before the
\* search is over.
NoReturn == Moved => here' # main.network

\* What is worth something to the memory: the context and the recipes of the search are
\* those of its beginning.
LEMMA SameRoutes ==
  ASSUME UNCHANGED context, main'.order = main.order, NEW lane
  PROVE  RouteOf(lane)' = RouteOf(lane)
BY DEF RouteOf

\* Judged is inductive: a worker's lane is proven where the machine is,
LEMMA JudgedWork ==
  ASSUME TypeOK, Phases, Judged, NEW c \in Carriers, Work(c)
  PROVE  Judged'
<1>1. Speaks(c) /\ UNCHANGED <<main, here, context, memory>> /\ ~WorkerAt(c, "over")
  BY WorkMoves DEF world
<1>2. \A n \in Networks : proven[n] \subseteq proven'[n]
  BY WorkMoves DEF TypeOK
<1>3. main.network # Unknown => main.network \in Networks
  BY DEF TypeOK, Main
<1>4. \A lane : RouteOf(lane)' = RouteOf(lane)
  BY <1>1, SameRoutes
<1>5. main.network # Unknown /\ here = main.network =>
        \A lane \in carried' : RouteOf(lane) \in proven'[here]
  BY <1>1, <1>2, <1>3 DEF Judged, Speaks
<1>6. ~At("record")
  BY <1>1 DEF Phases, At
<1>7. RememberedIsProven'
  BY <1>1, <1>2 DEF Judged, RememberedIsProven, TypeOK
<1> QED BY <1>1, <1>4, <1>5, <1>6, <1>7 DEF Judged, At

\* and a record takes what has been judged.
LEMMA JudgedRecord ==
  ASSUME TypeOK, Judged, Record
  PROVE  Judged'
<1>1. UNCHANGED <<proven, carried, here, context>> /\ main'.pc = "finish" /\ Keeps
  BY MainAfter DEF Record, world, history
<1>2. Routed(memory) /\ (main.network # Unknown => main.network \in Networks)
  BY DEF TypeOK, Routed, Main
<1>3. RememberedIsProven'
  <2>1. CASE memory' = memory
    BY <1>1, <2>1 DEF Judged, RememberedIsProven
  <2>2. CASE ~main.cancelled /\ main.network # Unknown /\ memory' = Learnt(main.network)
    <3> SUFFICES ASSUME NEW n \in DOMAIN memory', memory'[n].route # NoRoute
                 PROVE  memory'[n].route \in proven[n]
      BY <1>1 DEF RememberedIsProven
    <3>1. \/ /\ n = main.network /\ main.chosen # NoLane
             /\ memory'[n].route = RouteOf(main.chosen)
          \/ n \in DOMAIN memory /\ memory'[n].route = memory[n].route
      BY <1>2, <2>2, LearntRoutes
    <3>2. At("record")
      BY DEF Record
    <3> QED BY <2>2, <3>1, <3>2 DEF Judged, RememberedIsProven
  <2> QED BY <2>1, <2>2 DEF Record
<1>4. \A lane : RouteOf(lane)' = RouteOf(lane)
  BY <1>1, SameRoutes DEF Keeps, Stays
<1> QED BY <1>1, <1>3, <1>4 DEF Judged, Keeps, Stays, At

\* Judged is inductive for a machine that does not come back.
LEMMA JudgedStep ==
  ASSUME TypeOK, Phases, Queued, Judged, [Next]_vars, [NoReturn]_vars
  PROVE  Judged'
<1>1. CASE Begin
  BY <1>1, BeginMoves DEF Judged, RememberedIsProven, At
<1>2. CASE Outside
  <2>1. UNCHANGED <<memory, active, main, carried, proven>> /\ (active => UNCHANGED context)
    BY <1>2, OutsideMoves
  <2>2. CASE ~active
    <3>1. carried = {} /\ main.pc = "idle"
      BY <2>2 DEF Phases, At
    <3> QED BY <2>1, <3>1 DEF Judged, RememberedIsProven, At
  <2>3. CASE active
    <3>1. main.network # Unknown /\ here' = main.network => here = main.network
      BY DEF NoReturn, Moved, vars, world
    <3>2. \A lane : RouteOf(lane)' = RouteOf(lane)
      BY <2>1, <2>3, SameRoutes
    <3> QED BY <2>1, <3>1, <3>2 DEF Judged, RememberedIsProven, At
  <2> QED BY <2>2, <2>3 DEF TypeOK
<1>3. CASE UNCHANGED vars
  BY <1>3 DEF Judged, RememberedIsProven, RouteOf, At, vars, world, history
<1>4. CASE RecallRoute
  <2>1. carried' = {} /\ UNCHANGED <<memory, proven>> /\ main'.pc = "head"
    BY <1>4, MainAfter DEF Phases, RecallRoute, At, history
  <2> QED BY <2>1 DEF Judged, RememberedIsProven, At
<1>5. CASE Decide \/ Receive \/ StopAll \/ StopTor \/ Join
  <2>1. UNCHANGED <<memory, proven, carried, here, context>> /\ Stays /\ main'.pc # "record"
    BY <1>5, MainAfter, ReceiveAfter
       DEF Decide, Receive, StopAll, StopTor, Join, world, history, Keeps
  <2>2. \A lane : RouteOf(lane)' = RouteOf(lane)
    BY <2>1, SameRoutes DEF Stays
  <2> QED BY <2>1, <2>2 DEF Judged, RememberedIsProven, At, Stays
<1>6. CASE Verify
  <2>1. UNCHANGED <<memory, proven, carried, here, context>> /\ Stays
    BY <1>6, MainAfter DEF Verify, world, history
  <2>2. \A lane : RouteOf(lane)' = RouteOf(lane)
    BY <2>1, SameRoutes DEF Stays
  <2>3. ~main'.cancelled /\ main'.chosen # NoLane /\ main.network # Unknown =>
          RouteOf(main'.chosen) \in proven[main.network]
    <3>1. ~main'.cancelled => main'.chosen = main.chosen /\ ~Moved
      BY <1>6, MainAfter
    <3>2. main.chosen # NoLane => main.chosen \in carried
      BY DEF Queued
    <3> QED BY <3>1, <3>2 DEF Judged, Moved
  <2>4. RouteOf(main.chosen)' = RouteOf(main'.chosen)
    BY <2>1 DEF RouteOf, Stays
  <2> QED BY <2>1, <2>2, <2>3, <2>4 DEF Judged, RememberedIsProven, At, Stays
<1>7. CASE Finish
  BY <1>7 DEF Finish, Rest, Judged, RememberedIsProven, At
<1> QED BY <1>1, <1>2, <1>3, <1>4, <1>5, <1>6, <1>7, JudgedWork, JudgedRecord, Steps DEF Search

\* What is remembered of a network has carried traffic on that network with those settings,
\* for any number of networks, searches, moves and windows of the memory, as long as the
\* machine does not leave a network and come back to it within one search.
THEOREM MemoryIsProven == Spec /\ [][NoReturn]_vars => []RememberedIsProven
<1>1. TypeOK /\ Phases /\ Queued /\ Judged /\ [Next]_vars /\ [NoReturn]_vars
        => (TypeOK /\ Phases /\ Queued /\ Judged)'
  BY TypeStep, PhasesStep, QueuedStep, JudgedStep
<1>2. Judged => RememberedIsProven
  BY DEF Judged
<1> QED BY InitTypes, <1>1, <1>2, PTL DEF Spec


(***************************************************************************)
(* Planning: lemmas on ranks and on the order of the recipes.              *)
(***************************************************************************)
\* The natural numbers are well founded by a relation that holds of all that are less.
LEMMA LessIsWellFounded ==
  \E less : IsWellFoundedOn(less, Nat) /\ \A a, b \in Nat : a < b => <<a, b>> \in less
<1> DEFINE Less == OpToRel(<, Nat)
<1>1. IsWellFoundedOn(Less, Nat)
  BY NatLessThanWellFounded
<1>2. Less = {p \in Nat \X Nat : p[1] < p[2]}
  BY DEF OpToRel
<1> HIDE DEF Less
<1>3. PICK less : less = Less
  OBVIOUS
<1>4. less = {p \in Nat \X Nat : p[1] < p[2]}
  BY <1>2, <1>3
<1>5. \A a, b \in Nat : a < b => <<a, b>> \in less
  BY <1>4
<1>6. IsWellFoundedOn(less, Nat)
  BY <1>1, <1>3
<1> QED BY <1>5, <1>6

\* A set of natural numbers that is not empty has a least.
LEMMA LeastNatural ==
  ASSUME NEW T \in SUBSET Nat, T # {}
  PROVE  \E x \in T : \A y \in T : x <= y
<1>1. PICK less : /\ IsWellFoundedOn(less, Nat)
                  /\ \A a, b \in Nat : a < b => <<a, b>> \in less
  BY LessIsWellFounded
<1>2. IsWellFoundedOn(less, Nat) /\ T \subseteq Nat
  BY <1>1
<1>3. \E x \in T : \A y \in T : ~ (<<y, x>> \in less)
  BY <1>2, WFMin
<1>4. PICK x \in T : \A y \in T : ~ (<<y, x>> \in less)
  BY <1>3
<1>5. ASSUME NEW y \in T  PROVE x <= y
  <2>1. x \in Nat /\ y \in Nat
    OBVIOUS
  <2>2. ~ (y < x)
    BY <1>1, <1>4, <2>1
  <2> QED BY <2>1, <2>2
<1> QED BY <1>5

\* A part of a finite set that misses something is smaller.
LEMMA PartIsSmaller ==
  ASSUME NEW S, IsFiniteSet(S), NEW T \in SUBSET S, NEW x \in S, x \notin T
  PROVE  /\ Cardinality(T) \in Nat /\ Cardinality(S) \in Nat
         /\ Cardinality(T) < Cardinality(S)
<1>1. /\ Cardinality(T) <= Cardinality(S) /\ Cardinality(T) # Cardinality(S)
      /\ IsFiniteSet(T)
  BY FS_Subset
<1>2. Cardinality(T) \in Nat /\ Cardinality(S) \in Nat
  BY <1>1, FS_CardinalityType
<1> QED BY <1>1, <1>2

\* Counting what is below gives each member of a finite set of numbers a place of its own,
\* and leaves no place free.
LEMMA PlacesAreTaken ==
  ASSUME NEW F \in SUBSET Nat, IsFiniteSet(F)
  PROVE  /\ Cardinality(F) \in Nat
         /\ \A k \in 1 .. Cardinality(F) :
              \E i \in F : Cardinality({j \in F : j < i}) = k - 1
         /\ \A i \in F : Cardinality({j \in F : j < i}) + 1 \in 1 .. Cardinality(F)
         /\ \A h, i \in F : Cardinality({j \in F : j < h}) = Cardinality({j \in F : j < i})
                              => h = i
<1> DEFINE size == Cardinality(F)
           Below(i) == {j \in F : j < i}
           rank == [i \in F |-> Cardinality(Below(i))]
           top == size - 1
<1>1. size \in Nat
  BY FS_CardinalityType
<1>2. ASSUME NEW i \in F  PROVE rank[i] \in Nat /\ rank[i] < size
  <2>1. Below(i) \in SUBSET F /\ i \notin Below(i)
    OBVIOUS
  <2> QED BY <2>1, PartIsSmaller
<1>3. ASSUME NEW h \in F, NEW i \in F, h < i  PROVE rank[h] < rank[i]
  <2>1. h \in Nat /\ i \in Nat /\ \A j \in F : j \in Nat
    OBVIOUS
  <2>2. \A j \in F : j < h => j < i
    BY <1>3, <2>1
  <2>3. \A j \in Below(h) : j \in Below(i)
    BY <2>2
  <2>4. h \in Below(i)
    BY <1>3
  <2>5. h \notin Below(h)
    BY <2>1
  <2>6. Below(h) \in SUBSET Below(i) /\ h \in Below(i) /\ h \notin Below(h)
    BY <2>3, <2>4, <2>5
  <2>7. IsFiniteSet(Below(i))
    BY FS_Subset
  <2>8. Cardinality(Below(h)) < Cardinality(Below(i))
    BY <2>6, <2>7, PartIsSmaller
  <2> QED BY <2>8
<1> HIDE DEF size
<1>4. rank \in [F -> 0 .. top]
  BY <1>1, <1>2
<1> HIDE DEF rank
<1>5. \A h, i \in F : rank[h] = rank[i] => h = i
  <2> SUFFICES ASSUME NEW h \in F, NEW i \in F, rank[h] = rank[i]  PROVE h = i
    OBVIOUS
  <2>1. rank[h] \in Nat /\ rank[i] \in Nat
    BY <1>2
  <2> QED BY <1>3, <2>1
<1>6. rank \in Injection(F, 0 .. top)
  BY <1>4, <1>5 DEF Injection, IsInjective
<1>7. IsFiniteSet(0 .. top) /\ Cardinality(0 .. top) = size
  BY <1>1, FS_Interval
<1>8. rank \in Surjection(F, 0 .. top)
  BY <1>6, <1>7, FS_Injection DEF size
<1>9. ASSUME NEW k \in 1 .. size  PROVE \E i \in F : rank[i] = k - 1
  <2>1. k - 1 \in 0 .. top
    BY <1>1
  <2> QED BY <1>8, <2>1 DEF Surjection
<1>10. \A i \in F : rank[i] = Cardinality({j \in F : j < i})
  BY DEF rank
<1>11. ASSUME NEW k \in 1 .. size  PROVE \E i \in F : Cardinality({j \in F : j < i}) = k - 1
  BY <1>9, <1>10
<1>12. ASSUME NEW i \in F  PROVE Cardinality({j \in F : j < i}) + 1 \in 1 .. size
  BY <1>1, <1>2, <1>10
<1>13. \A h, i \in F : Cardinality({j \in F : j < h}) = Cardinality({j \in F : j < i}) => h = i
  BY <1>5, <1>10
<1> QED BY <1>1, <1>11, <1>12, <1>13 DEF size

\* The place of the first element that passes a test is a place, or 0.
LEMMA Places ==
  ASSUME NEW len \in Nat, NEW I \in SUBSET (1 .. len)
  PROVE  /\ (IF I # {} THEN Min(I) ELSE 0) \in 0 .. len
         /\ I # {} => Min(I) \in I
<1>1. CASE I = {}
  BY <1>1
<1>2. CASE I # {}
  <2>1. \E x \in I : \A y \in I : x <= y
    BY <1>2, LeastNatural
  <2>2. Min(I) = CHOOSE x \in I : \A y \in I : x <= y
    BY DEF Min
  <2>3. Min(I) \in I
    BY <2>1, <2>2
  <2>4. \A k \in I : k \in 0 .. len
    OBVIOUS
  <2>5. Min(I) \in 0 .. len
    BY <2>3, <2>4
  <2> QED BY <1>2, <2>3, <2>5
<1> QED BY <1>1, <1>2

\* The same recipes are in a ladder, whichever leads it.
LEMMA Leading ==
  ASSUME NEW S, NEW seq \in Seq(S), NEW i \in 0 .. Len(seq)
  PROVE  /\ Lead(seq, i) \in Seq(S) /\ Len(Lead(seq, i)) = Len(seq)
         /\ ToSet(Lead(seq, i)) = ToSet(seq)
         /\ i = 0 => Lead(seq, i) = seq
         /\ i > 0 => Lead(seq, i)[1] = seq[i]
<1>1. CASE i = 0
  <2>1. SubSeq(seq, 1, i - 1) = << >> /\ SubSeq(seq, i + 1, Len(seq)) = seq
    BY <1>1, SubSeqEmpty, SubSeqFull
  <2>2. RemoveAt(seq, i) = seq
    BY <2>1, ConcatEmptySeq DEF RemoveAt
  <2>3. Lead(seq, i) = seq
    BY <1>1, <2>2, ConcatEmptySeq DEF Lead
  <2> QED BY <1>1, <2>3
<1>2. CASE i > 0
  <2> DEFINE before == SubSeq(seq, 1, i - 1)
             after == SubSeq(seq, i + 1, Len(seq))
             rest == before \o after
  <2>1. /\ before \in Seq(S) /\ Len(before) = i - 1
        /\ \A j \in 1 .. i - 1 : before[j] = seq[j]
    BY <1>2
  <2>2. /\ after \in Seq(S) /\ Len(after) = Len(seq) - i
        /\ \A j \in 1 .. Len(seq) - i : after[j] = seq[i + j]
    BY <1>2
  <2> HIDE DEF before, after
  <2> DEFINE upto == Len(before) + Len(after)
  <2>3. /\ rest \in Seq(S) /\ Len(rest) = upto
        /\ \A j \in 1 .. upto :
             rest[j] = IF j <= Len(before) THEN before[j] ELSE after[j - Len(before)]
    BY <2>1, <2>2, ConcatProperties
  <2>4. /\ rest \in Seq(S) /\ Len(rest) = Len(seq) - 1
        /\ \A j \in 1 .. Len(rest) : rest[j] = IF j < i THEN seq[j] ELSE seq[j + 1]
    <3>1. upto = Len(seq) - 1
      BY <1>2, <2>1, <2>2
    <3>2. ASSUME NEW j \in 1 .. upto  PROVE rest[j] = IF j < i THEN seq[j] ELSE seq[j + 1]
      <4>1. CASE j < i
        BY <1>2, <2>1, <2>3, <4>1
      <4>2. CASE j >= i
        <5>1. rest[j] = after[j - (i - 1)]
          BY <1>2, <2>1, <2>3, <4>2
        <5>2. j - (i - 1) \in 1 .. Len(seq) - i
          BY <1>2, <3>1, <4>2
        <5>3. after[j - (i - 1)] = seq[i + (j - (i - 1))]
          BY <2>2, <5>2
        <5> QED BY <1>2, <4>2, <5>1, <5>3
      <4> QED BY <4>1, <4>2, <1>2
    <3> QED BY <2>3, <3>1, <3>2
  <2>5. Lead(seq, i) = <<seq[i]>> \o rest
    <3>1. RemoveAt(seq, i) = rest
      BY DEF RemoveAt, before, after
    <3> HIDE DEF rest
    <3> QED BY <1>2, <3>1 DEF Lead
  <2> HIDE DEF rest
  <2>6. /\ <<seq[i]>> \o rest \in Seq(S) /\ Len(<<seq[i]>> \o rest) = Len(seq)
        /\ \A j \in 1 .. Len(seq) :
             (<<seq[i]>> \o rest)[j] = IF j = 1 THEN seq[i] ELSE rest[j - 1]
    BY <1>2, <2>4
  <2>7. \A j \in 1 .. Len(seq) :
          Lead(seq, i)[j] = IF j = 1 THEN seq[i] ELSE IF j <= i THEN seq[j - 1] ELSE seq[j]
    BY <1>2, <2>4, <2>5, <2>6
  <2>8. /\ Lead(seq, i) \in Seq(S) /\ Len(Lead(seq, i)) = Len(seq)
    BY <2>5, <2>6
  <2> HIDE DEF rest
  <2>9. ToSet(Lead(seq, i)) \subseteq ToSet(seq)
    BY <1>2, <2>7, <2>8 DEF ToSet
  <2>10. ASSUME NEW j \in 1 .. Len(seq)  PROVE seq[j] \in ToSet(Lead(seq, i))
    <3>1. CASE j = i
      BY <3>1, <2>7, <2>8 DEF ToSet
    <3>2. CASE j < i
      <4>1. j + 1 \in 1 .. Len(seq) /\ Lead(seq, i)[j + 1] = seq[j]
        BY <1>2, <2>7, <3>2
      <4> QED BY <2>8, <4>1 DEF ToSet
    <3>3. CASE j > i
      BY <3>3, <2>7, <2>8, <1>2 DEF ToSet
    <3> QED BY <3>1, <3>2, <3>3
  <2>11. ToSet(seq) \subseteq ToSet(Lead(seq, i))
    <3> SUFFICES ASSUME NEW j \in DOMAIN seq  PROVE seq[j] \in ToSet(Lead(seq, i))
      BY DEF ToSet
    <3> QED BY <2>10
  <2>12. ToSet(Lead(seq, i)) = ToSet(seq)
    BY <2>9, <2>11
  <2>13. Lead(seq, i)[1] = seq[i]
    BY <1>2, <2>7
  <2> QED BY <1>2, <2>8, <2>12, <2>13
<1> QED BY <1>1, <1>2

\* What is added once only: nothing is lost, nothing is there twice.
LEMMA EachOnceKeeps ==
  ASSUME NEW S, NEW seq \in Seq(S)
  PROVE  /\ EachOnce(seq) \in Seq(S) /\ Len(EachOnce(seq)) <= Len(seq)
         /\ ToSet(EachOnce(seq)) = ToSet(seq)
         /\ \A k, l \in 1 .. Len(EachOnce(seq)) :
              EachOnce(seq)[k] = EachOnce(seq)[l] => k = l
<1> DEFINE firsts == {i \in DOMAIN seq : \A j \in 1 .. i - 1 : seq[j] # seq[i]}
           size == Cardinality(firsts)
           rank(i) == Cardinality({j \in firsts : j < i})
           Nth(k) == CHOOSE i \in firsts : rank(i) = k - 1
           items == [k \in 1 .. size |-> seq[Nth(k)]]
<1>1. /\ DOMAIN seq = 1 .. Len(seq) /\ Len(seq) \in Nat
      /\ firsts \subseteq 1 .. Len(seq) /\ firsts \in SUBSET Nat
  OBVIOUS
<1>2. IsFiniteSet(firsts) /\ size <= Len(seq)
  <2>1. IsFiniteSet(1 .. Len(seq)) /\ Cardinality(1 .. Len(seq)) = Len(seq)
    <3>1. Len(seq) \in Int /\ Len(seq) >= 0
      BY <1>1
    <3>2. /\ IsFiniteSet(1 .. Len(seq))
          /\ Cardinality(1 .. Len(seq)) = IF 1 > Len(seq) THEN 0 ELSE Len(seq) - 1 + 1
      BY <3>1, FS_Interval
    <3> QED BY <3>1, <3>2
  <2>2. firsts \in SUBSET (1 .. Len(seq))
    BY <1>1
  <2> HIDE DEF firsts
  <2> QED BY <2>1, <2>2, FS_Subset
<1>3. /\ size \in Nat
      /\ \A k \in 1 .. size : \E i \in firsts : rank(i) = k - 1
      /\ \A i \in firsts : rank(i) + 1 \in 1 .. size
      /\ \A h, i \in firsts : rank(h) = rank(i) => h = i
  BY <1>1, <1>2, PlacesAreTaken
<1>4. firsts = {i \in 1 .. Len(seq) : \A j \in 1 .. i - 1 : seq[j] # seq[i]}
  BY <1>1
<1> HIDE DEF firsts, rank
<1>5. \A k \in 1 .. size : Nth(k) \in firsts /\ rank(Nth(k)) = k - 1
  BY <1>3
<1> HIDE DEF Nth
<1>6. items \in Seq(S) /\ Len(items) = size
  <2>1. \A k \in 1 .. size : seq[Nth(k)] \in S
    <3>1. \A i \in 1 .. Len(seq) : seq[i] \in S
      OBVIOUS
    <3>2. \A k \in 1 .. size : Nth(k) \in 1 .. Len(seq)
      BY <1>1, <1>5
    <3> QED BY <3>1, <3>2
  <2> QED BY <1>3, <2>1
<1>7. EachOnce(seq) = items
  <2>1. EachOnce(seq) = SubSeq(items, 1, size)
    BY DEF EachOnce, firsts, rank, Nth
  <2> QED BY <1>6, <2>1, SubSeqFull
<1>8. \A k \in 1 .. size : items[k] = seq[Nth(k)]
  OBVIOUS
<1>9. \A k \in 1 .. size : seq[Nth(k)] \in ToSet(seq)
  BY <1>1, <1>5 DEF ToSet
<1>10. ASSUME NEW i \in DOMAIN seq  PROVE \E k \in 1 .. size : items[k] = seq[i]
  <2> DEFINE same == {j \in 1 .. Len(seq) : seq[j] = seq[i]}
  <2>1. same \in SUBSET Nat /\ same # {}
    BY <1>1
  <2>2. PICK f \in same : \A j \in same : f <= j
    BY <2>1, LeastNatural
  <2>3. f \in 1 .. Len(seq) /\ seq[f] = seq[i]
    BY <2>2
  <2>4. \A j \in 1 .. f - 1 : seq[j] # seq[f]
    <3> SUFFICES ASSUME NEW j \in 1 .. f - 1, seq[j] = seq[f]  PROVE FALSE
      OBVIOUS
    <3>1. j \in same
      BY <1>1, <2>3
    <3> QED BY <2>2, <2>3, <3>1
  <2>5. f \in firsts
    BY <1>4, <2>3, <2>4
  <2>6. PICK k \in 1 .. size : k = rank(f) + 1
    BY <1>3, <2>5
  <2>7. rank(Nth(k)) = k - 1 /\ Nth(k) \in firsts
    BY <1>5
  <2>8. rank(f) \in Int
    <3>1. \A j \in firsts : j < f => j \in firsts
      OBVIOUS
    <3>2. {j \in firsts : j < f} \in SUBSET firsts
      BY <3>1
    <3> QED BY <1>2, <3>2, FS_Subset, FS_CardinalityType DEF rank
  <2>9. rank(Nth(k)) = rank(f)
    BY <2>6, <2>7, <2>8
  <2>10. Nth(k) = f
    BY <1>3, <2>5, <2>7, <2>9
  <2> QED BY <1>8, <2>3, <2>10
<1> HIDE DEF items
<1>11. DOMAIN items = 1 .. size
  BY <1>6
<1>12. ToSet(items) = ToSet(seq)
  BY <1>8, <1>9, <1>10, <1>11 DEF ToSet
<1>13. ASSUME NEW k \in 1 .. size, NEW l \in 1 .. size, items[k] = items[l]  PROVE k = l
  <2>1. seq[Nth(k)] = seq[Nth(l)] /\ Nth(k) \in 1 .. Len(seq) /\ Nth(l) \in 1 .. Len(seq)
    BY <1>1, <1>5, <1>8, <1>13
  <2>2. ASSUME NEW h \in firsts, NEW i \in firsts, h < i  PROVE seq[h] # seq[i]
    BY <1>4, <2>2
  <2>3. Nth(k) \in firsts /\ Nth(l) \in firsts
    BY <1>5
  <2>4. Nth(k) = Nth(l)
    BY <2>1, <2>2, <2>3
  <2>5. k - 1 = l - 1
    BY <1>5, <2>4
  <2> QED BY <1>3, <2>5
<1> HIDE DEF size
<1>14. \A k, l \in 1 .. size : items[k] = items[l] => k = l
  BY <1>13
<1> QED BY <1>2, <1>6, <1>7, <1>12, <1>14

\* A sequence is as long as its parts are together.
LEMMA Joined ==
  ASSUME NEW S, NEW s \in Seq(S), NEW t \in Seq(S), NEW m \in Nat, NEW n \in Nat,
         Len(s) <= m, Len(t) <= n
  PROVE  s \o t \in Seq(S) /\ Len(s \o t) <= m + n /\ Len(s \o t) >= Len(t)
OBVIOUS

\* The ladder has a place at least and twelve at most.
LEMMA LadderIsShort ==
  ASSUME NEW p \in Recipe
  PROVE  candidates(p) \in Seq(Recipe) /\ Len(candidates(p)) \in 1 .. 12
<1> DEFINE start == [p EXCEPT !.scan = IF @ = "thorough" THEN "balanced" ELSE @]
           h2 == [start EXCEPT !.protocol = "masque", !.transport = "h2", !.scan = "turbo",
                               !.shape = "off"]
           h3 == [h2 EXCEPT !.transport = "h3"]
           Unless(condition, seq) == IF condition THEN <<>> ELSE seq
           c1 == Unless(p.protocol = "masque" /\ p.shape = "off" /\ p.ech # "auto",
                        <<[start EXCEPT !.scan = "turbo"]>>)
           c2 == IF p.transport = "h3" THEN <<h3, h2>> ELSE <<h2, h3>>
           c3 == << [h2 EXCEPT !.shape = "records"], [h2 EXCEPT !.shape = "plain"] >>
           c4 == Unless(p.ech = "off", << [h2 EXCEPT !.ech = "auto"], [h3 EXCEPT !.ech = "auto"] >>)
           c5 == << [h2 EXCEPT !.shape = "compact"] >>
           c6 == Unless(p.family = "v4", << [h2 EXCEPT !.family = "v6"] >>)
           c7 == << [h2 EXCEPT !.protocol = "wom"], [h2 EXCEPT !.scan = "balanced"],
                    [h2 EXCEPT !.protocol = "mim"] >>
<1>1. candidates(p) = c1 \o c2 \o c3 \o c4 \o c5 \o c6 \o c7
  BY DEF candidates
<1>2. start \in Recipe /\ [start EXCEPT !.scan = "turbo"] \in Recipe
  BY DEF Recipe
<1>3. c1 \in Seq(Recipe) /\ Len(c1) <= 1
  BY <1>2
<1> HIDE DEF start
<1>4. h2 \in Recipe
  BY <1>2, ZenonT(60) DEF Recipe
<1> HIDE DEF h2
<1>5. h3 \in Recipe
  BY <1>4 DEF Recipe
<1>6. /\ [h2 EXCEPT !.shape = "records"] \in Recipe /\ [h2 EXCEPT !.shape = "plain"] \in Recipe
      /\ [h2 EXCEPT !.shape = "compact"] \in Recipe
  BY <1>4 DEF Recipe
<1>7. /\ [h2 EXCEPT !.protocol = "wom"] \in Recipe /\ [h2 EXCEPT !.scan = "balanced"] \in Recipe
      /\ [h2 EXCEPT !.protocol = "mim"] \in Recipe
  BY <1>4 DEF Recipe
<1>8. [h2 EXCEPT !.ech = "auto"] \in Recipe /\ [h2 EXCEPT !.family = "v6"] \in Recipe
  BY <1>4 DEF Recipe
<1> HIDE DEF h3
<1>9. [h3 EXCEPT !.ech = "auto"] \in Recipe
  BY <1>5 DEF Recipe
<1>10. c2 \in Seq(Recipe) /\ Len(c2) <= 2
  BY <1>4, <1>5
<1>11. c3 \in Seq(Recipe) /\ Len(c3) <= 2
  BY <1>6
<1>12. c4 \in Seq(Recipe) /\ Len(c4) <= 2
  BY <1>8, <1>9
<1>13. c5 \in Seq(Recipe) /\ Len(c5) <= 1
  BY <1>6
<1>14. c6 \in Seq(Recipe) /\ Len(c6) <= 1
  BY <1>8
<1>15. c7 \in Seq(Recipe) /\ Len(c7) = 3
  BY <1>7
<1> HIDE DEF c1, c2, c3, c4, c5, c6, c7
<1>16. c1 \o c2 \in Seq(Recipe) /\ Len(c1 \o c2) <= 3
  BY <1>3, <1>10, Joined
<1>17. c1 \o c2 \o c3 \in Seq(Recipe) /\ Len(c1 \o c2 \o c3) <= 5
  BY <1>16, <1>11, Joined
<1>18. c1 \o c2 \o c3 \o c4 \in Seq(Recipe) /\ Len(c1 \o c2 \o c3 \o c4) <= 7
  BY <1>17, <1>12, Joined
<1>19. c1 \o c2 \o c3 \o c4 \o c5 \in Seq(Recipe) /\ Len(c1 \o c2 \o c3 \o c4 \o c5) <= 8
  BY <1>18, <1>13, Joined
<1> DEFINE most == c1 \o c2 \o c3 \o c4 \o c5 \o c6
<1>20. most \in Seq(Recipe) /\ Len(most) <= 9
  BY <1>19, <1>14, Joined
<1>21. candidates(p) = most \o c7
  BY <1>1
<1> HIDE DEF most
<1>22. most \o c7 \in Seq(Recipe) /\ Len(most \o c7) <= 12 /\ Len(most \o c7) >= 1
  <2>1. Len(c7) <= 3 /\ Len(c7) >= 1
    BY <1>15
  <2>2. /\ most \o c7 \in Seq(Recipe) /\ Len(most \o c7) <= 9 + 3
        /\ Len(most \o c7) >= Len(c7)
    BY <1>20, <1>15, <2>1, Joined
  <2> HIDE DEF c7
  <2> QED BY <2>1, <2>2, SMTT(40)
<1> QED BY <1>21, <1>22

\* A plan has the recipes of the ladder and no others; what is remembered leads, unless a
\* failure names another.
LEMMA RecipesAreTheLadder ==
  ASSUME NEW p \in Recipe, NEW remembered, NEW named
  PROVE  /\ recipes(p, remembered, named) \in Seq(Recipe)
         /\ Len(recipes(p, remembered, named)) \in 1 .. 12
         /\ ToSet(recipes(p, remembered, named)) = ToSet(candidates(p))
         /\ named = None /\ remembered \in ToSet(candidates(p)) =>
              Head(recipes(p, remembered, named)) = remembered
<1> DEFINE rungs == candidates(p)
           ladder == EachOnce(rungs)
           Known == {i \in 1 .. Len(ladder) : ladder[i] = remembered}
           known == IF Known # {} THEN Min(Known) ELSE 0
           led == Lead(ladder, known)
           Asked == {i \in 1 .. Len(led) : Answers(led[i], named)}
           asked == IF Asked # {} THEN Min(Asked) ELSE 0
<1>1. recipes(p, remembered, named) = Lead(led, asked)
  BY DEF recipes, SelectInSeq
<1>2. rungs \in Seq(Recipe) /\ Len(rungs) \in 1 .. 12
  BY LadderIsShort
<1> HIDE DEF rungs
<1>3. ladder \in Seq(Recipe) /\ Len(ladder) <= Len(rungs) /\ ToSet(ladder) = ToSet(rungs)
  BY <1>2, EachOnceKeeps
<1> HIDE DEF ladder
<1>4. rungs[1] \in ToSet(rungs)
  BY <1>2 DEF ToSet
<1>5. Len(ladder) \in 1 .. 12
  <2>1. Len(ladder) \in Nat
    BY <1>3
  <2>2. \A n \in 1 .. 12 : Len(ladder) <= n => Len(ladder) <= 12
    BY <2>1
  <2>3. Len(ladder) \in Nat /\ Len(ladder) <= 12
    BY <1>2, <1>3, <2>1, <2>2
  <2>4. DOMAIN ladder # {}
    BY <1>3, <1>4 DEF ToSet
  <2>5. Len(ladder) # 0
    BY <1>3, <2>4
  <2>6. \A n \in Nat : n <= 12 /\ n # 0 => n \in 1 .. 12
    OBVIOUS
  <2> QED BY <2>3, <2>5, <2>6
<1>6. known \in 0 .. Len(ladder) /\ (Known # {} => Min(Known) \in Known)
  <2>1. Len(ladder) \in Nat /\ Known \in SUBSET (1 .. Len(ladder))
    BY <1>5
  <2> HIDE DEF Known
  <2> QED BY <2>1, Places
<1>7. /\ led \in Seq(Recipe) /\ Len(led) = Len(ladder) /\ ToSet(led) = ToSet(ladder)
      /\ known > 0 => led[1] = ladder[known]
  BY <1>3, <1>6, Leading
<1> HIDE DEF led
<1>8. asked \in 0 .. Len(led)
  <2>1. Len(led) \in Nat /\ Asked \in SUBSET (1 .. Len(led))
    BY <1>5, <1>7
  <2> HIDE DEF Asked
  <2> QED BY <2>1, Places
<1>9. /\ Lead(led, asked) \in Seq(Recipe) /\ Len(Lead(led, asked)) = Len(led)
      /\ ToSet(Lead(led, asked)) = ToSet(led)
      /\ asked = 0 => Lead(led, asked) = led
  BY <1>7, <1>8, Leading
<1>10. ASSUME named = None, remembered \in ToSet(rungs)
       PROVE  Head(Lead(led, asked)) = remembered
  <2>1. Asked = {}
    BY <1>10, NoneIsOther DEF Answers
  <2>2. Lead(led, asked) = led
    BY <1>9, <2>1
  <2>3. Known # {}
    BY <1>3, <1>10 DEF ToSet
  <2>4. known \in Known
    BY <1>6, <2>3
  <2>5. led[1] = remembered
    BY <1>5, <1>7, <2>4
  <2>6. led # <<>>
    BY <1>5, <1>7
  <2> QED BY <1>7, <2>2, <2>5, <2>6
<1> HIDE DEF asked
<1>11. ToSet(Lead(led, asked)) = ToSet(rungs)
  BY <1>3, <1>7, <1>9
<1>12. Len(Lead(led, asked)) \in 1 .. 12 /\ Lead(led, asked) \in Seq(Recipe)
  BY <1>5, <1>7, <1>9
<1> QED BY <1>1, <1>10, <1>11, <1>12 DEF rungs

(***************************************************************************)
(* Planning: lemmas on the memory, and the inductive invariant.            *)
(***************************************************************************)
\* The memory has room for MaxNetworks, and what is seen later than all else has a place.
LEMMA PruneBounds ==
  ASSUME NEW m, IsFiniteSet(DOMAIN m), DOMAIN m \subseteq Nat,
         \A n \in DOMAIN m : m[n].seen \in Nat, NEW t \in Nat
  PROVE  /\ IsFiniteSet(DOMAIN Prune(m, t)) /\ Cardinality(DOMAIN Prune(m, t)) <= MaxNetworks
         /\ \A k \in DOMAIN m :
              m[k].seen = t /\ (\A n \in DOMAIN m : n # k => m[n].seen < t)
                => k \in DOMAIN Prune(m, t)
<1> DEFINE fresh == {n \in DOMAIN m : Age(m[n].seen, t) < ForgetAfter}
           Newer(a, b) == \/ m[a].seen > m[b].seen
                          \/ m[a].seen = m[b].seen /\ a > b
           Above(n) == {a \in fresh : Newer(a, n)}
           kept == {n \in fresh : Cardinality(Above(n)) < MaxNetworks}
           rank == [n \in kept |-> Cardinality(Above(n))]
           top == MaxNetworks - 1
<1>1. Prune(m, t) = [n \in kept |-> m[n]]
  BY DEF Prune
<1>2. fresh \in SUBSET DOMAIN m
  OBVIOUS
<1>3. IsFiniteSet(fresh)
  BY <1>2, FS_Subset
<1>4. \A n \in fresh : m[n].seen \in Nat /\ n \in Nat
  BY <1>2
<1>5. \A k \in DOMAIN m : m[k].seen = t => k \in fresh
  BY WindowsAreNumbers DEF Age
<1> HIDE DEF fresh
<1>6. kept \in SUBSET fresh
  OBVIOUS
<1>7. IsFiniteSet(kept)
  BY <1>3, <1>6, FS_Subset
<1>8. ASSUME NEW a \in fresh, NEW b \in fresh, Newer(a, b)
      PROVE  Cardinality(Above(a)) < Cardinality(Above(b))
  <2>1. \A c \in fresh : Newer(c, a) => Newer(c, b)
    BY <1>4, <1>8
  <2>2. ~Newer(a, a)
    BY <1>4
  <2> HIDE DEF Newer
  <2>3. Above(a) \in SUBSET Above(b)
    BY <2>1
  <2>4. a \in Above(b) /\ a \notin Above(a)
    BY <1>8, <2>2
  <2>5. Above(b) \in SUBSET fresh
    OBVIOUS
  <2>6. IsFiniteSet(Above(b))
    BY <1>3, <2>5, FS_Subset
  <2> HIDE DEF Above
  <2> QED BY <2>3, <2>4, <2>6, PartIsSmaller
<1>9. \A a, b \in fresh : a = b \/ Newer(a, b) \/ Newer(b, a)
  BY <1>4
<1>10. \A n \in fresh : Cardinality(Above(n)) \in Nat
  <2> SUFFICES ASSUME NEW n \in fresh  PROVE Cardinality(Above(n)) \in Nat
    OBVIOUS
  <2>1. Above(n) \in SUBSET fresh
    OBVIOUS
  <2> QED BY <1>3, <2>1, FS_Subset, FS_CardinalityType
<1>11. ASSUME NEW k \in DOMAIN m, m[k].seen = t, \A n \in DOMAIN m : n # k => m[n].seen < t
       PROVE  k \in kept
  <2>1. k \in fresh
    BY <1>5, <1>11
  <2>2. \A n \in fresh : ~Newer(n, k)
    <3> SUFFICES ASSUME NEW n \in fresh  PROVE ~Newer(n, k)
      OBVIOUS
    <3>1. CASE n = k
      BY <1>4, <2>1, <3>1
    <3>2. CASE n # k
      <4>1. m[n].seen < t /\ m[n].seen \in Nat
        BY <1>2, <1>4, <1>11, <3>2
      <4> QED BY <1>11, <4>1
    <3> QED BY <3>1, <3>2
  <2> HIDE DEF Newer
  <2>3. Above(k) = {}
    BY <2>2
  <2>4. Cardinality(Above(k)) = 0
    BY <2>3, FS_EmptySet
  <2> HIDE DEF Above
  <2>5. Cardinality(Above(k)) < MaxNetworks
    BY <2>4, RoomForOne
  <2> QED BY <2>1, <2>5
<1> HIDE DEF Above, Newer
<1>12. rank \in [kept -> 0 .. top]
  BY <1>6, <1>10, RoomForOne
<1>13. \A a, b \in kept : rank[a] = rank[b] => a = b
  <2> SUFFICES ASSUME NEW a \in kept, NEW b \in kept, rank[a] = rank[b]  PROVE a = b
    OBVIOUS
  <2>1. Cardinality(Above(a)) = Cardinality(Above(b))
    OBVIOUS
  <2>2. a \in fresh /\ b \in fresh
    BY <1>6
  <2>3. Cardinality(Above(a)) \in Nat
    BY <1>10, <2>2
  <2> QED BY <1>8, <1>9, <2>1, <2>2, <2>3
<1> HIDE DEF rank, kept
<1>14. rank \in Injection(kept, 0 .. top)
  BY <1>12, <1>13 DEF Injection, IsInjective
<1>15. IsFiniteSet(0 .. top) /\ Cardinality(0 .. top) = MaxNetworks
  BY FS_Interval, RoomForOne
<1>16. Cardinality(kept) <= MaxNetworks
  BY <1>14, <1>15, FS_Injection
<1>17. DOMAIN Prune(m, t) = kept
  BY <1>1
<1> QED BY <1>7, <1>11, <1>16, <1>17

\* The fields of an entry, whatever they hold.
Fields == DOMAIN Blank
Filled(m) == \A n \in DOMAIN m : DOMAIN m[n] = Fields

\* A memory that is another one, but for the entry of k.
Renews(put, m, k) ==
  /\ DOMAIN put = DOMAIN m \union {k} /\ Filled(put)
  /\ \A n \in DOMAIN put : n # k => n \in DOMAIN m /\ put[n] = m[n]

\* The entry of a win, and that of a failure.
Wins(put, k, r, t) ==
  /\ put[k].route = r /\ put[k].won = t /\ put[k].seen = t
  /\ IsEngine(r) => put[k].failed = Never /\ put[k].remedy = None
Missed(put, k, t) == put[k].seen = t

\* A win leaves the other entries as they are, and in its own what it brings; of the engine
\* it takes away the mark and the remedy of a failure.
LEMMA WinEntries ==
  ASSUME NEW m, Filled(m), NEW k, NEW r, NEW t
  PROVE  \E put : RecordWin(m, k, r, t) = Prune(put, t) /\ Renews(put, m, k) /\ Wins(put, k, r, t)
<1> DEFINE old == EntryOf(m, k)
           clear == IF IsEngine(r) THEN [old EXCEPT !.failed = Never, !.remedy = None] ELSE old
           entry == [clear EXCEPT !.route = r, !.won = t, !.seen = t]
           put == Put(m, k, entry)
<1>1. DOMAIN old = {"route", "won", "failed", "remedy", "seen"}
  BY DEF EntryOf, Filled, Fields, Blank
<1> HIDE DEF old
<1>2. /\ DOMAIN clear = {"route", "won", "failed", "remedy", "seen"}
      /\ IsEngine(r) => clear.failed = Never /\ clear.remedy = None
  BY <1>1
<1> HIDE DEF clear
<1>3. /\ DOMAIN entry = {"route", "won", "failed", "remedy", "seen"}
      /\ entry.route = r /\ entry.won = t /\ entry.seen = t
      /\ entry.failed = clear.failed /\ entry.remedy = clear.remedy
  BY <1>2
<1>4. RecordWin(m, k, r, t) = Prune(put, t)
  BY DEF RecordWin, old, clear
<1> HIDE DEF entry
<1>5. /\ DOMAIN put = DOMAIN m \union {k}
      /\ \A n \in DOMAIN put : put[n] = IF n = k THEN entry ELSE m[n]
  BY DEF Put
<1> HIDE DEF put
<1>6. Filled(put)
  BY <1>3, <1>5 DEF Filled, Fields, Blank
<1>7. Renews(put, m, k)
  BY <1>5, <1>6 DEF Renews
<1>8. put[k] = entry
  BY <1>5
<1>9. Wins(put, k, r, t)
  BY <1>2, <1>3, <1>8 DEF Wins
<1> QED BY <1>4, <1>7, <1>9

\* A failure leaves the other entries as they are, and its own seen.
LEMMA FailureEntries ==
  ASSUME NEW m, Filled(m), NEW k, NEW lead, NEW d, NEW t
  PROVE  \E put : /\ RecordEngineFailure(m, k, lead, d, t) = Prune(put, t)
                  /\ Renews(put, m, k) /\ Missed(put, k, t)
<1> DEFINE old == EntryOf(m, k)
           entry == [old EXCEPT !.failed = IF lead THEN t ELSE @,
                                !.remedy = IF d # None THEN d ELSE @, !.seen = t]
           put == Put(m, k, entry)
<1>1. DOMAIN old = {"route", "won", "failed", "remedy", "seen"}
  BY DEF EntryOf, Filled, Fields, Blank
<1>2. RecordEngineFailure(m, k, lead, d, t) = Prune(put, t)
  BY DEF RecordEngineFailure
<1> HIDE DEF old
<1>3. DOMAIN entry = {"route", "won", "failed", "remedy", "seen"} /\ entry.seen = t
  BY <1>1
<1> HIDE DEF entry
<1>4. /\ DOMAIN put = DOMAIN m \union {k}
      /\ \A n \in DOMAIN put : put[n] = IF n = k THEN entry ELSE m[n]
  BY DEF Put
<1> HIDE DEF put
<1>5. Filled(put)
  BY <1>3, <1>4 DEF Filled, Fields, Blank
<1>6. Renews(put, m, k)
  BY <1>4, <1>5 DEF Renews
<1>7. Missed(put, k, t)
  BY <1>3, <1>4 DEF Missed
<1> QED BY <1>2, <1>6, <1>7

\* A memory of which nothing but the entry of k was seen after a time.
Held(m, k, at) ==
  /\ IsFiniteSet(DOMAIN m) /\ DOMAIN m \subseteq Networks /\ Filled(m)
  /\ \A n \in DOMAIN m : m[n].seen \in Nat /\ (n # k => m[n].seen <= at)

\* What a search has just put is kept, and the rest is as it was.
LEMMA JustPut ==
  ASSUME NEW m, NEW k \in Networks, NEW at \in Nat, Held(m, k, at),
         NEW put, Renews(put, m, k), put[k].seen = at + 1,
         NEW w, w = Prune(put, at + 1)
  PROVE  /\ Held(w, k, at) /\ Cardinality(DOMAIN w) <= MaxNetworks /\ k \in DOMAIN w
         /\ \A n \in DOMAIN w : w[n].seen <= at + 1 /\ (n # k => n \in DOMAIN m /\ w[n] = m[n])
         /\ w[k] = put[k]
<1> USE DEF Renews
<1>1. IsFiniteSet(DOMAIN put)
  BY FS_AddElement DEF Held
<1>2. DOMAIN put \subseteq Networks /\ DOMAIN put \subseteq Nat
  BY NetworksAreOrdered DEF Held
<1>3. at + 1 \in Nat /\ at < at + 1
  OBVIOUS
<1>4. \A n \in DOMAIN put :
        /\ put[n].seen \in Nat /\ put[n].seen <= at + 1
        /\ n # k => put[n].seen <= at /\ put[n].seen < at + 1
  <2> SUFFICES ASSUME NEW n \in DOMAIN put
               PROVE  /\ put[n].seen \in Nat /\ put[n].seen <= at + 1
                      /\ n # k => put[n].seen <= at /\ put[n].seen < at + 1
    OBVIOUS
  <2>1. CASE n = k
    BY <1>3, <2>1
  <2>2. CASE n # k
    <3>1. put[n].seen \in Nat /\ put[n].seen <= at
      BY <2>2 DEF Held
    <3> QED BY <3>1
  <2> QED BY <2>1, <2>2
<1>5. k \in DOMAIN put
  OBVIOUS
<1>6. /\ IsFiniteSet(DOMAIN w) /\ Cardinality(DOMAIN w) <= MaxNetworks
      /\ k \in DOMAIN w
  BY <1>1, <1>2, <1>3, <1>4, <1>5, PruneBounds
<1>7. DOMAIN w \subseteq DOMAIN put /\ \A n \in DOMAIN w : w[n] = put[n]
  BY PruneKeeps
<1>8. Filled(w)
  BY <1>7 DEF Filled
<1>9. Held(w, k, at)
  BY <1>2, <1>4, <1>6, <1>7, <1>8 DEF Held
<1>10. \A n \in DOMAIN w : w[n].seen <= at + 1 /\ (n # k => n \in DOMAIN m /\ w[n] = m[n])
  BY <1>4, <1>7
<1> QED BY <1>6, <1>7, <1>9, <1>10

PlanTypes ==
  /\ user \in Recipe /\ profile \in Recipe /\ base \in Recipe \union {None}
  /\ network \in Networks /\ clock \in Nat /\ won = [n \in Networks |-> won[n]]

\* The memory is small, and of the past.
Remembered ==
  /\ Held(routes, network, clock) /\ Cardinality(DOMAIN routes) <= MaxNetworks
  /\ \A n \in DOMAIN routes : routes[n].seen <= clock

\* What won last on a network is one of the ladder of its settings, and the entry of the
\* network, if there is one still, has it, with no mark of a failure.
Recorded ==
  \A n \in Networks : won[n] # None =>
    /\ won[n].at \in Nat /\ won[n].at <= clock
    /\ won[n].at = clock => n \in DOMAIN routes
    /\ won[n].user \in Recipe /\ won[n].recipe \in ToSet(candidates(won[n].user))
    /\ n \in DOMAIN routes =>
         /\ routes[n].route = [carrier |-> "aether", recipe |-> won[n].recipe,
                               context |-> ContextOf(won[n].user)]
         /\ routes[n].won = won[n].at /\ routes[n].failed = Never /\ routes[n].remedy = None

PlanInv == PlanTypes /\ SettingsSurvive /\ Remembered /\ Recorded

\* Every plan is the ladder of the user's own settings.
LEMMA PlansAreLadders ==
  ASSUME PlanTypes, SettingsSurvive
  PROVE  /\ Policy(profile) = user /\ ToSet(Plan) = ToSet(candidates(user))
         /\ ToSet(Plan) \subseteq Recipe
<1> DEFINE recalled == Recall(routes, network, clock)
           remembered == IF recalled.route # NoRoute /\ recalled.route.context = ContextOf(user)
                         THEN recalled.route.recipe ELSE None
<1>1. Policy(profile) = user
  BY DEF SettingsSurvive
<1>2. Plan = recipes(user, remembered, recalled.remedy)
  BY <1>1 DEF Plan
<1> HIDE DEF recalled, remembered
<1>3. user \in Recipe
  BY DEF PlanTypes
<1>4. Plan \in Seq(Recipe) /\ ToSet(Plan) = ToSet(candidates(user))
  BY <1>2, <1>3, RecipesAreTheLadder
<1>5. ToSet(Plan) \subseteq Recipe
  BY <1>4 DEF ToSet
<1> QED BY <1>1, <1>4, <1>5

LEMMA PlanInitInv == PlanInit => PlanInv
<1> SUFFICES ASSUME PlanInit  PROVE PlanInv
  OBVIOUS
<1>1. DOMAIN routes = {}
  BY DEF PlanInit, Empty
<1>2. IsFiniteSet(DOMAIN routes) /\ Cardinality(DOMAIN routes) <= MaxNetworks
  BY <1>1, FS_EmptySet, RoomForOne
<1>3. Remembered
  BY <1>1, <1>2 DEF Remembered, Held, Filled
<1>4. PlanTypes
  BY SettingsAreRecipes DEF PlanInit, PlanTypes
<1>5. SettingsSurvive
  BY DEF PlanInit, SettingsSurvive, Policy
<1>6. Recorded
  BY DEF PlanInit, Recorded
<1> QED BY <1>3, <1>4, <1>5, <1>6 DEF PlanInv

\* The engine wins: its recipe is of the ladder, and the entry of the network is new.
LEMMA WinIsRecorded ==
  ASSUME PlanInv, NEW r \in ToSet(Plan), EngineWins(r)
  PROVE  PlanInv'
<1> DEFINE route == [carrier |-> "aether", recipe |-> r, context |-> ContextOf(user)]
           at == clock + 1
<1>1. /\ PlanTypes /\ SettingsSurvive /\ Remembered /\ Recorded
      /\ user \in Recipe /\ network \in Networks /\ clock \in Nat /\ at \in Nat
  BY DEF PlanInv, PlanTypes
<1>2. Policy(profile) = user /\ r \in ToSet(candidates(user)) /\ r \in Recipe
  BY <1>1, PlansAreLadders
<1>3. /\ clock' = at /\ routes' = RecordWin(routes, network, route, at)
      /\ profile' = r /\ base' = user /\ user' = user /\ network' = network
      /\ won' = [won EXCEPT ![network] = [recipe |-> r, user |-> user, at |-> at]]
  BY <1>2 DEF EngineWins
<1>4. Held(routes, network, clock) /\ Filled(routes)
  BY <1>1 DEF Remembered, Held
<1>5. PICK put : routes' = Prune(put, at) /\ Renews(put, routes, network) /\ Wins(put, network, route, at)
  <2> HIDE DEF route, at
  <2>1. \E put : /\ RecordWin(routes, network, route, at) = Prune(put, at)
                 /\ Renews(put, routes, network) /\ Wins(put, network, route, at)
    BY <1>4, WinEntries
  <2> QED BY <1>3, <2>1
<1>6. /\ put[network].route = route /\ put[network].won = at /\ put[network].seen = at
      /\ put[network].failed = Never /\ put[network].remedy = None
  BY <1>5 DEF Wins, IsEngine
<1>7. /\ Held(routes', network, clock) /\ Cardinality(DOMAIN routes') <= MaxNetworks
      /\ network \in DOMAIN routes'
      /\ \A n \in DOMAIN routes' : /\ routes'[n].seen <= at
                                   /\ n # network => n \in DOMAIN routes /\ routes'[n] = routes[n]
      /\ routes'[network] = put[network]
  BY <1>1, <1>4, <1>5, <1>6, JustPut
<1>8. Remembered'
  <2>1. \A n \in DOMAIN routes' : routes'[n].seen \in Nat
    BY <1>7 DEF Held
  <2>2. Held(routes', network', clock')
    BY <1>3, <1>7, <2>1 DEF Held
  <2> QED BY <1>3, <1>7, <2>2 DEF Remembered
<1>9. PlanTypes'
  BY <1>1, <1>2, <1>3 DEF PlanTypes
<1>10. SettingsSurvive'
  <2>1. user # None
    BY <1>1, NoneIsOther
  <2> QED BY <1>3, <2>1 DEF SettingsSurvive, Policy
<1>11. Recorded'
  <2> SUFFICES ASSUME NEW n \in Networks, won'[n] # None
      PROVE  /\ won'[n].at \in Nat /\ won'[n].at <= at
             /\ won'[n].at = at => n \in DOMAIN routes'
             /\ won'[n].user \in Recipe /\ won'[n].recipe \in ToSet(candidates(won'[n].user))
             /\ n \in DOMAIN routes' =>
                  /\ routes'[n].route = [carrier |-> "aether", recipe |-> won'[n].recipe,
                                         context |-> ContextOf(won'[n].user)]
                  /\ routes'[n].won = won'[n].at /\ routes'[n].failed = Never
                  /\ routes'[n].remedy = None
    BY <1>3 DEF Recorded
  <2>1. CASE n = network
    <3>1. won'[n] = [recipe |-> r, user |-> user, at |-> at]
      BY <1>1, <1>3, <2>1 DEF PlanTypes
    <3>2. won'[n].recipe = r /\ won'[n].user = user /\ won'[n].at = at
      BY <3>1
    <3> HIDE DEF at
    <3> QED BY <1>1, <1>2, <1>5, <1>6, <1>7, <2>1, <3>2
  <2>2. CASE n # network
    <3>1. won'[n] = won[n]
      BY <1>1, <1>3, <2>2 DEF PlanTypes
    <3>2. won[n].at \in Nat /\ won[n].at <= clock
      BY <1>1, <3>1 DEF Recorded
    <3>3. won[n].at <= at /\ won[n].at # at
      BY <1>1, <3>2
    <3> HIDE DEF at
    <3> QED BY <1>1, <1>7, <2>2, <3>1, <3>2, <3>3 DEF Recorded
  <2> QED BY <2>1, <2>2
<1> QED BY <1>8, <1>9, <1>10, <1>11 DEF PlanInv

\* A search the engine has not won: nothing is known to have won last on the network.
LEMMA LossIsRecorded ==
  ASSUME PlanInv, NEW winner, NEW named, NEW engineDone, EngineLoses(winner, named, engineDone)
  PROVE  PlanInv'
<1> DEFINE route == [carrier |-> winner, recipe |-> None, context |-> ContextOf(Policy(profile))]
           at == clock + 1
           after == IF winner = None THEN routes ELSE RecordWin(routes, network, route, at)
<1>1. /\ PlanTypes /\ SettingsSurvive /\ Remembered /\ Recorded
      /\ user \in Recipe /\ network \in Networks /\ clock \in Nat /\ at \in Nat
  BY DEF PlanInv, PlanTypes
<1>2. /\ clock' = at /\ routes' = RecordEngineFailure(after, network, engineDone, named, at)
      /\ profile' = profile /\ base' = base /\ user' = user /\ network' = network
      /\ won' = [won EXCEPT ![network] = None]
  BY DEF EngineLoses
<1> HIDE DEF route
<1>3. Held(routes, network, clock) /\ Filled(routes)
  BY <1>1 DEF Remembered, Held
<1>4. Held(after, network, clock) /\ \A n \in DOMAIN after :
        n # network => n \in DOMAIN routes /\ after[n] = routes[n]
  <2>1. CASE winner = None
    BY <1>3, <2>1
  <2>2. CASE winner # None
    <3>1. after = RecordWin(routes, network, route, at)
      BY <2>2
    <3> HIDE DEF after, at
    <3>2. PICK put : /\ after = Prune(put, at)
                     /\ Renews(put, routes, network) /\ Wins(put, network, route, at)
      BY <1>3, <3>1, WinEntries
    <3>3. put[network].seen = at
      BY <3>2 DEF Wins
    <3> USE DEF at
    <3>4. Held(after, network, clock) /\ \A n \in DOMAIN after :
            n # network => n \in DOMAIN routes /\ after[n] = routes[n]
      BY <1>1, <1>3, <3>2, <3>3, JustPut
    <3> QED BY <3>4
  <2> QED BY <2>1, <2>2
<1> HIDE DEF after
<1>5. PICK put : routes' = Prune(put, at) /\ Renews(put, after, network) /\ Missed(put, network, at)
  <2>1. Filled(after)
    BY <1>4 DEF Held
  <2> HIDE DEF at
  <2>2. \E put : /\ RecordEngineFailure(after, network, engineDone, named, at) = Prune(put, at)
                 /\ Renews(put, after, network) /\ Missed(put, network, at)
    BY <2>1, FailureEntries
  <2> QED BY <1>2, <2>2
<1>6. /\ Held(routes', network, clock) /\ Cardinality(DOMAIN routes') <= MaxNetworks
      /\ \A n \in DOMAIN routes' : /\ routes'[n].seen <= at
                                   /\ n # network => n \in DOMAIN after /\ routes'[n] = after[n]
  <2>1. put[network].seen = at
    BY <1>5 DEF Missed
  <2> QED BY <1>1, <1>4, <1>5, <2>1, JustPut
<1>7. Remembered'
  <2>1. \A n \in DOMAIN routes' : routes'[n].seen \in Nat
    BY <1>6 DEF Held
  <2>2. Held(routes', network', clock')
    BY <1>2, <1>6, <2>1 DEF Held
  <2> QED BY <1>2, <1>6, <2>2 DEF Remembered
<1>8. PlanTypes'
  BY <1>1, <1>2 DEF PlanTypes
<1>9. SettingsSurvive'
  BY <1>1, <1>2 DEF SettingsSurvive, Policy
<1>10. Recorded'
  <2> SUFFICES ASSUME NEW n \in Networks, won'[n] # None
      PROVE  /\ won'[n].at \in Nat /\ won'[n].at <= at
             /\ won'[n].at = at => n \in DOMAIN routes'
             /\ won'[n].user \in Recipe /\ won'[n].recipe \in ToSet(candidates(won'[n].user))
             /\ n \in DOMAIN routes' =>
                  /\ routes'[n].route = [carrier |-> "aether", recipe |-> won'[n].recipe,
                                         context |-> ContextOf(won'[n].user)]
                  /\ routes'[n].won = won'[n].at /\ routes'[n].failed = Never
                  /\ routes'[n].remedy = None
    BY <1>2 DEF Recorded
  <2>1. n # network /\ won'[n] = won[n]
    BY <1>1, <1>2 DEF PlanTypes
  <2>2. won[n].at \in Nat /\ won[n].at <= clock
    BY <1>1, <2>1 DEF Recorded
  <2>3. won[n].at <= at /\ won[n].at # at
    BY <1>1, <2>2
  <2>4. n \in DOMAIN routes' => n \in DOMAIN routes /\ routes'[n] = routes[n]
    BY <1>4, <1>6, <2>1
  <2> HIDE DEF at
  <2> QED BY <1>1, <2>1, <2>2, <2>3, <2>4 DEF Recorded
<1> QED BY <1>7, <1>8, <1>9, <1>10 DEF PlanInv

\* What a user saves again is the user's own; on another network nothing is learnt.
LEMMA PlanStep == PlanInv /\ [PlanNext]_planVars => PlanInv'
<1> SUFFICES ASSUME PlanInv, [PlanNext]_planVars  PROVE PlanInv'
  OBVIOUS
<1>1. CASE \E r \in ToSet(Plan) \intersect Passing : EngineWins(r)
  BY <1>1, WinIsRecorded
<1>2. CASE \E winner \in (Carriers \ {"aether"}) \union {None},
             named \in Remedies \union {None}, engineDone \in BOOLEAN :
             EngineLoses(winner, named, engineDone)
  BY <1>2, LossIsRecorded
<1>3. CASE \E s \in Later \union {user} : Choose(s)
  <2>1. PICK s \in Later \union {user} : Choose(s)
    BY <1>3
  <2>2. s \in Recipe
    BY SettingsAreRecipes DEF PlanInv, PlanTypes
  <2>3. PlanTypes'
    BY <2>1, <2>2 DEF PlanInv, PlanTypes, Choose
  <2>4. SettingsSurvive'
    BY <2>1 DEF Choose, SettingsSurvive, Policy
  <2>5. Remembered' /\ Recorded'
    BY <2>1 DEF PlanInv, Choose, Remembered, Recorded
  <2> QED BY <2>3, <2>4, <2>5 DEF PlanInv
<1>4. CASE \E n \in Networks : ChangeNetwork(n)
  <2>1. PICK n \in Networks : ChangeNetwork(n)
    BY <1>4
  <2>2. PlanTypes'
    BY <2>1 DEF PlanInv, PlanTypes, ChangeNetwork
  <2>3. SettingsSurvive'
    BY <2>1 DEF PlanInv, ChangeNetwork, SettingsSurvive, Policy
  <2>4. /\ routes' = routes /\ clock' = clock /\ network' = n /\ won' = won
    BY <2>1 DEF ChangeNetwork
  <2>5. Held(routes', network', clock')
    BY <2>4 DEF PlanInv, Remembered, Held
  <2>6. Remembered' /\ Recorded'
    BY <2>4, <2>5 DEF PlanInv, Remembered, Recorded
  <2> QED BY <2>2, <2>3, <2>6 DEF PlanInv
<1>5. CASE UNCHANGED planVars
  BY <1>5 DEF planVars, PlanInv, PlanTypes, SettingsSurvive, Policy, Remembered, Held, Recorded
<1> QED BY <1>1, <1>2, <1>3, <1>4, <1>5 DEF PlanNext

LEMMA PlanInvariance == PlanSpec => []PlanInv
  BY PlanInitInv, PlanStep, PTL DEF PlanSpec

\* A winner is applied to the engine's settings, never made the user's own requirement:
\* recovery_base is what was saved, through any number of searches.
THEOREM SettingsStay == PlanSpec => []SettingsSurvive
<1>1. PlanInv => SettingsSurvive
  BY DEF PlanInv
<1> QED BY <1>1, PlanInvariance, PTL

\* prune keeps the file within MAX_NETWORKS, and never drops what a search has just put
\* there, whatever the networks and however many of them.
THEOREM MemoryStaysSmall == PlanSpec => []MemoryIsBounded
<1>1. PlanInv => MemoryIsBounded
  BY DEF PlanInv, MemoryIsBounded, Remembered, Recorded
<1> QED BY <1>1, PlanInvariance, PTL

\* What won last on this network with these settings is the first of the next plan: no
\* mark, remedy, other win or change of settings and back has come between.
THEOREM ProvenStaysFirst == PlanSpec => []ProvenLeads
<1>1. PlanInv => ProvenLeads
  <2> DEFINE w == won[network]
             recalled == Recall(routes, network, clock)
             entry == routes[network]
  <2> SUFFICES ASSUME PlanInv, w # None, network \in DOMAIN routes,
                      clock - w.at < ForgetAfter, w.user = user
               PROVE  Head(Plan) = w.recipe
    BY DEF ProvenLeads
  <2>1. /\ PlanTypes /\ SettingsSurvive /\ Recorded
        /\ network \in Networks /\ clock \in Nat /\ user \in Recipe
    BY DEF PlanInv, PlanTypes
  <2>2. /\ w.at \in Nat /\ w.at <= clock /\ w.recipe \in ToSet(candidates(user))
        /\ entry.route = [carrier |-> "aether", recipe |-> w.recipe, context |-> ContextOf(user)]
        /\ entry.won = w.at /\ entry.failed = Never /\ entry.remedy = None
    BY <2>1 DEF Recorded
  <2>3. w.recipe \in Recipe
    <3>1. candidates(user) \in Seq(Recipe)
      BY <2>1, LadderIsShort
    <3>2. ToSet(candidates(user)) \subseteq Recipe
      BY <3>1 DEF ToSet
    <3> QED BY <2>2, <3>2
  <2>4. EntryOf(routes, network) = entry
    BY DEF EntryOf
  <2>5. Age(entry.won, clock) < ForgetAfter
    BY <2>1, <2>2, WindowsAreNumbers DEF Age
  <2>6. IsEngine(entry.route)
    BY <2>2 DEF IsEngine
  <2> HIDE DEF entry, w
  <2>7. recalled = [route |-> entry.route, remedy |-> None]
    BY <2>2, <2>4, <2>5, <2>6 DEF Recall
  <2> HIDE DEF recalled
  <2>8. recalled.route = entry.route /\ recalled.remedy = None
    BY <2>7
  <2>9. recalled.route # NoRoute /\ recalled.route.context = ContextOf(user)
        /\ recalled.route.recipe = w.recipe
    <3>1. entry.route.recipe # None
      BY <2>2, <2>3, NoneIsOther
    <3> QED BY <2>2, <2>8, <3>1 DEF NoRoute
  <2>10. Policy(profile) = user
    BY <2>1, PlansAreLadders
  <2>11. Plan = recipes(user, w.recipe, None)
    BY <2>8, <2>9, <2>10 DEF Plan, recalled
  <2> QED BY <2>1, <2>2, <2>11, RecipesAreTheLadder
<1> QED BY <1>1, PlanInvariance, PTL

\* A count that goes round a short sequence comes to each place of it.
LEMMA TurnsCoverAll ==
  ASSUME NEW S, NEW seq \in Seq(S), Len(seq) \in 1 .. 12
  PROVE  {seq[(n % Len(seq)) + 1] : n \in 0 .. MaxAttempts} = ToSet(seq)
<1> DEFINE len == Len(seq)
           turns == {seq[(n % len) + 1] : n \in 0 .. MaxAttempts}
<1>1. DOMAIN seq = 1 .. len /\ len \in Nat /\ len > 0 /\ len <= 12
  <2>1. DOMAIN seq = 1 .. len /\ len \in Nat
    OBVIOUS
  <2>2. \A n \in 1 .. 12 : n > 0 /\ n <= 12
    OBVIOUS
  <2> QED BY <2>1, <2>2
<1>2. ASSUME NEW n \in 0 .. MaxAttempts  PROVE seq[(n % len) + 1] \in ToSet(seq)
  <2>1. n \in Nat
    BY AttemptsForAll
  <2> HIDE DEF len
  <2>2. n % len \in 0 .. len - 1
    BY <1>1, <2>1
  <2>3. (n % len) + 1 \in DOMAIN seq
    BY <1>1, <2>2
  <2> QED BY <2>3 DEF ToSet
<1>3. ASSUME NEW i \in DOMAIN seq  PROVE seq[i] \in turns
  <2> HIDE DEF len
  <2>1. i \in 1 .. len /\ i - 1 \in 0 .. len - 1 /\ i - 1 \in 0 .. MaxAttempts
    BY <1>1, AttemptsForAll
  <2>2. (i - 1) % len = i - 1
    BY <1>1, <2>1, SMTT(40)
  <2>3. ((i - 1) % len) + 1 = i
    <3>1. i \in Int /\ (i - 1) + 1 = i
      BY <2>1
    <3> QED BY <2>2, <3>1
  <2> QED BY <2>1, <2>3
<1> HIDE DEF len
<1>4. turns \subseteq ToSet(seq)
  BY <1>2
<1>5. ToSet(seq) \subseteq turns
  BY <1>3 DEF ToSet
<1> QED BY <1>4, <1>5 DEF len

\* The attempts of a session go through the whole ladder of the user's settings, with the
\* winner applied last in front of it, before MAX_ATTEMPTS ends the session.
THEOREM EveryRecipeIsTried == PlanSpec => []EveryRecipeHasItsTurn
<1>1. PlanInv => EveryRecipeHasItsTurn
  <2> DEFINE ladder == recipes(user, IF base = None THEN None ELSE profile, None)
  <2> SUFFICES ASSUME PlanInv, auto \/ profile.protocol = "masque"
               PROVE  {profile_for_attempt(n) : n \in 0 .. MaxAttempts}
                        = ToSet(recipes(user, None, None))
    BY DEF EveryRecipeHasItsTurn
  <2>1. user \in Recipe /\ Policy(profile) = user
    BY PlansAreLadders DEF PlanInv, PlanTypes
  <2>2. \A n \in 0 .. MaxAttempts : profile_for_attempt(n) = ladder[(n % Len(ladder)) + 1]
    BY <2>1 DEF profile_for_attempt
  <2>3. /\ ladder \in Seq(Recipe) /\ Len(ladder) \in 1 .. 12
        /\ ToSet(ladder) = ToSet(candidates(user))
    BY <2>1, RecipesAreTheLadder
  <2>4. ToSet(recipes(user, None, None)) = ToSet(candidates(user))
    BY <2>1, RecipesAreTheLadder
  <2> HIDE DEF ladder
  <2>5. {ladder[(n % Len(ladder)) + 1] : n \in 0 .. MaxAttempts} = ToSet(ladder)
    BY <2>3, TurnsCoverAll
  <2>6. {profile_for_attempt(n) : n \in 0 .. MaxAttempts}
          = {ladder[(n % Len(ladder)) + 1] : n \in 0 .. MaxAttempts}
    BY <2>2
  <2> QED BY <2>3, <2>4, <2>5, <2>6
<1> QED BY <1>1, PlanInvariance, PTL
=============================================================================

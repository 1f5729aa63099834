------------------------------ MODULE Carriers ------------------------------
(***************************************************************************)
(* core_supervisor.rs, the carriers: a session of one or two hops, its     *)
(* watch, the death of a hop, the recovery, the disconnect, the move to    *)
(* another exit and the routing engine in front of the last hop.           *)
(*                                                                         *)
(* A hop is a slot: CarrierProcess has what is in it.  The engine on its   *)
(* own (Supervisor) is here for the carriers' sake: its exit may hand the  *)
(* session to the recovery.  Slots hold the generation they are filled     *)
(* for, 0 when they are empty.                                             *)
(***************************************************************************)
EXTENDS Integers, Sequences, FiniteSets

CONSTANTS
  Kinds,         \* carriers: "aether" is the engine
  Routes,        \* the chains a profile may name: <<first>> or <<first, second>>
  Profiles,      \* [route, kill, auto, reconnect]: the settings that matter here
  Threads,       \* threads the supervisor may have at once
  Commands,      \* what the user does: "start", "stop", "move", "chain"
  MaxCommands,   \* bound: commands in a run
  MaxDeaths,     \* bound: hops that die
  MaxAttempts,   \* MAX_ATTEMPTS
  Calm           \* which of the hypotheses below are made

VARIABLES
  generation, session, state, blocking,  \* the supervisor and its screen
  chain,     \* inner.chain: the generation whose hops it holds
  hop,       \* the slot of each carrier's process: the generation it was filled for
  ended,     \* the slots whose process has ended
  mihomo,    \* the routing engine: the generation whose hops it dials
  door,      \* network sharing: whether it is open
  proxy,     \* the system proxy
  watches,   \* the watches: their generation, and what started them
  thread,    \* what each thread is doing
  commands, deaths

supervisor == <<generation, session, state, blocking>>
processes == <<hop, ended>>
outside == <<mihomo, door, proxy>>
bounds == <<commands, deaths>>
vars == <<supervisor, chain, processes, outside, watches, thread, bounds>>

None == 0
Alone == <<"aether">>

\* What a profile says of a session.  The engine on its own is here when its exit is
\* handed to the recovery; Supervisor has the others.
Profile == [route : Seq(Kinds), kill : BOOLEAN, auto : BOOLEAN, reconnect : BOOLEAN]
ASSUME ProfilesAreProfiles ==
  /\ Profiles \subseteq Profile /\ Routes \subseteq Seq(Kinds)
  /\ \A p \in Profiles : p.route = Alone => p.auto /\ p.reconnect

NoSession == [gen |-> 0]
Free == [pc |-> "idle"]

At(t, label) == thread[t].pc = label
Goto(t, label) == thread' = [thread EXCEPT ![t].pc = label]
Leave(t) == thread' = [thread EXCEPT ![t] = Free]
Gen(t) == thread[t].gen
Current(g) == generation = g
HasSession == session # NoSession
Route(t) == thread[t].profile.route
Kind(t) == Route(t)[thread[t].pos]
Watching(t) == [gen |-> Gen(t), by |-> thread[t].why]
Monitor(t) == [gen |-> Gen(t), by |-> "engine"]

Init ==
  /\ generation = 0 /\ session = NoSession /\ state = "idle" /\ blocking = FALSE
  /\ chain = None /\ hop = [k \in Kinds |-> None] /\ ended = {}
  /\ mihomo = None /\ door = FALSE /\ proxy = None /\ watches = {}
  /\ thread = [t \in Threads |-> Free] /\ commands = 0 /\ deaths = 0

\* What stop_all_hops leaves.
Off == [k \in Kinds |-> None]
StopAllHops == hop' = Off /\ ended' = {}
Fill(k, g) == hop' = [hop EXCEPT ![k] = g] /\ ended' = ended \ {k}

\* A command takes the first thread that is free, and so does a death.
FirstFree(t) == At(t, "idle") /\ \A u \in Threads : At(u, "idle") => t <= u
Command(name, t) ==
  /\ name \in Commands /\ commands < MaxCommands /\ commands' = commands + 1
  /\ FirstFree(t)

\* "stop": a disconnect is over before the tunnel of a later process is up.  "user": the
\* user connects when his last connect and disconnect have returned, and moves when
\* nothing is at work.  "watch": no watch looks while hops are being moved.  "tunnel":
\* the tunnel that a start has waited for is there when its address is read.  "prompt": a
\* thread that looked whether it may act makes its next statement before another looks.
Busy(why) == \E t \in Threads : thread[t].pc \notin {"idle", "stopping"} /\ thread[t].why = why
NoStop == \A t \in Threads : ~At(t, "stopping")
SlowEnough == "stop" \in Calm => NoStop
Prompt == "prompt" \in Calm => \A t \in Threads : thread[t].pc \notin {"begin", "take", "drop", "lose"}

Starter(g, profile, why, attempt) ==
  [pc |-> "hop", gen |-> g, pos |-> 1, profile |-> profile, why |-> why,
   attempt |-> attempt, holding |-> FALSE]

(***************************************************************************)
(* start_core_blocking and start_carrier_blocking.                         *)
(***************************************************************************)
\* The guard of a connect: the engine's slot is empty, and there is no session.
Startable == hop["aether"] = None /\ ~HasSession

Start(t) ==
  /\ Command("start", t)
  /\ Startable /\ Prompt /\ ("user" \in Calm => ~Busy("start") /\ NoStop)
  /\ \E p \in Profiles :
       thread' = [thread EXCEPT ![t] = [Starter(generation, p, "start", 0) EXCEPT !.pc = "begin"]]
  /\ UNCHANGED <<supervisor, chain, processes, outside, watches, deaths>>

Begin(t) ==
  /\ At(t, "begin")
  /\ generation' = generation + 1
  /\ thread' = [thread EXCEPT ![t].pc = "take", ![t].gen = generation']
  /\ UNCHANGED <<session, state, blocking, chain, processes, outside, watches, bounds>>

\* The session is claimed, and the screen says that carriers are starting.
Take(t) ==
  /\ At(t, "take") /\ Goto(t, "hop")
  /\ session' = [gen |-> Gen(t), profile |-> thread[t].profile, attempt |-> thread[t].attempt]
  /\ IF Route(t) = Alone THEN UNCHANGED <<state, blocking>>
     ELSE state' = "connecting" /\ blocking' = FALSE
  /\ UNCHANGED <<generation, chain, processes, outside, watches, bounds>>

\* launch looks at the generation under the lock of the slot.
LaunchFails(t) ==
  /\ At(t, "hop") /\ thread[t].pos <= Len(Route(t)) /\ Goto(t, "failed")
  /\ UNCHANGED <<supervisor, chain, processes, outside, watches, bounds>>

\* The engine on its own: watched from here on by its monitor.  Of a launch that was
\* overtaken the caller hears nothing.
Launch(t) ==
  /\ At(t, "hop") /\ Route(t) = Alone /\ Leave(t)
  /\ IF Current(Gen(t))
     THEN /\ Fill("aether", Gen(t)) /\ state' = "connecting" /\ blocking' = FALSE
          /\ watches' = watches \union {Monitor(t)}
     ELSE UNCHANGED <<processes, state, blocking, watches>>
  /\ UNCHANGED <<generation, session, chain, outside, bounds>>

\* start_hop.  Psiphon and tor replace what is in their slot; the engine is launched for
\* the generation there is, or not at all.
StartHop(t) ==
  /\ At(t, "hop") /\ Route(t) # Alone /\ thread[t].pos <= Len(Route(t))
  /\ \/ /\ Kind(t) # "aether" /\ UNCHANGED <<state, blocking>>
     \/ /\ Kind(t) = "aether" /\ Current(Gen(t)) /\ state' = "connecting" /\ blocking' = FALSE
  /\ Fill(Kind(t), Gen(t)) /\ Goto(t, "tunnel")
  /\ UNCHANGED <<generation, session, chain, outside, watches, bounds>>

\* Mutant: what came up after a disconnect is left running.
HopUpLeaving(t) ==
  /\ At(t, "tunnel") /\ hop[Kind(t)] = Gen(t) /\ Kind(t) \notin ended /\ SlowEnough
  /\ IF Current(Gen(t)) THEN thread' = [thread EXCEPT ![t].pc = "hop", ![t].pos = @ + 1]
     ELSE Goto(t, "failed")
  /\ state' = IF Kind(t) = "aether" THEN "connected" ELSE state
  /\ UNCHANGED <<generation, session, blocking, chain, processes, outside, watches, bounds>>

\* Its tunnel comes up, and the session is still the one that asked for it; or the
\* session is gone and every hop is stopped.  The engine's lines are shown.
HopUp(t) ==
  /\ At(t, "tunnel") /\ hop[Kind(t)] = Gen(t) /\ Kind(t) \notin ended /\ SlowEnough
  /\ IF Current(Gen(t))
     THEN thread' = [thread EXCEPT ![t].pc = "hop", ![t].pos = @ + 1] /\ UNCHANGED processes
     ELSE StopAllHops /\ Goto(t, "failed")
  /\ state' = IF Kind(t) = "aether" THEN "connected" ELSE state
  /\ UNCHANGED <<generation, session, blocking, chain, outside, watches, bounds>>

\* A hop that does not come up: Psiphon and tor empty their slot, whatever is in it now;
\* the engine is left running (and, without "tunnel", Psiphon may be).
HopFails(t) ==
  /\ At(t, "tunnel") /\ Goto(t, "failed")
  /\ \/ Kind(t) # "aether" /\ Fill(Kind(t), None)
     \/ (Kind(t) = "aether" \/ "tunnel" \notin Calm) /\ UNCHANGED processes
  /\ UNCHANGED <<supervisor, chain, outside, watches, bounds>>

\* A line of the engine on its own tells that it carries (record_log): the screen, the
\* attempts, the proxy.
EngineUp ==
  /\ hop["aether"] # None /\ "aether" \notin ended /\ state = "connecting" /\ SlowEnough
  /\ [gen |-> hop["aether"], by |-> "engine"] \in watches
  /\ state' = "connected" /\ blocking' = FALSE
  /\ IF HasSession
     THEN session' = [session EXCEPT !.attempt = 0] /\ proxy' \in {proxy, hop["aether"]}
     ELSE UNCHANGED <<session, proxy>>
  /\ UNCHANGED <<generation, chain, processes, mihomo, door, watches, thread, bounds>>

\* All hops are up: the chain is recorded, the screen says so, and the routing engine
\* is started, which first stops the one there is.
Joined(t) ==
  /\ At(t, "hop") /\ thread[t].pos > Len(Route(t))
  /\ state' = "connected" /\ mihomo' = None /\ chain' = Gen(t) /\ Goto(t, "mihomo")
  /\ UNCHANGED <<generation, session, blocking, processes, door, proxy, watches, bounds>>

\* The routing engine answers: the door, the proxy and the watch.
Publish(t) ==
  /\ At(t, "mihomo") /\ Leave(t)
  /\ mihomo' = Gen(t) /\ door' \in BOOLEAN /\ proxy' \in {proxy, Gen(t)}
  /\ watches' = watches \union {Watching(t)}
  /\ UNCHANGED <<supervisor, chain, processes, bounds>>

EngineFails(t) ==
  /\ At(t, "mihomo") /\ Goto(t, "failed")
  /\ UNCHANGED <<supervisor, chain, processes, outside, watches, bounds>>

\* What a failed start leaves: a start by hand clears its session and, for carriers,
\* every hop; a move leaves the screen, the session and the hops as they are.
StartFailed(t) ==
  /\ At(t, "failed") /\ thread[t].why # "recovery" /\ Leave(t)
  /\ IF thread[t].why = "start" THEN session' = NoSession ELSE UNCHANGED session
  /\ IF thread[t].why = "start" /\ Route(t) # Alone THEN StopAllHops /\ state' = "error"
     ELSE UNCHANGED <<processes, state>>
  /\ UNCHANGED <<generation, blocking, chain, outside, watches, bounds>>

(***************************************************************************)
(* spawn_carrier_watch, carrier_died; the monitor's automatic branch.      *)
(***************************************************************************)
Hops == {session.profile.route[i] : i \in DOMAIN session.profile.route}
Lost(k) == hop[k] = None \/ k \in ended

\* Mutant: the exit alone is looked at.
DeadExit == HasSession /\ Lost(session.profile.route[Len(session.profile.route)])

Dead == HasSession /\ \E k \in Hops : Lost(k)

WatchEnds(w) ==
  /\ \/ ~Current(w.gen)
     \/ IF w.by = "engine" THEN hop["aether"] = None ELSE ~HasSession
  /\ watches' = watches \ {w}
  /\ UNCHANGED <<supervisor, chain, processes, outside, thread, bounds>>

\* A watch finds the session of its generation dead, and reads what it wants.
Notices(w, t) ==
  /\ Current(w.gen) /\ FirstFree(t) /\ ("watch" \in Calm => ~Busy("move"))
  /\ watches' = watches \ {w}

Holds == session.profile.kill /\ proxy # None
Mourner(w, label, why, attempt) ==
  [Starter(w.gen, session.profile, why, attempt) EXCEPT !.pc = label, !.holding = Holds]

\* A hop is gone; the screen says so.  The attempts of a stable session begin anew.
HopDied(w, t) ==
  LET mine == session.gen = w.gen
      why == IF mine /\ session.profile.reconnect THEN "recovery" ELSE "end" IN
  /\ w.by # "engine" /\ Dead /\ Notices(w, t)
  /\ state' = "error" /\ blocking' = Holds
  /\ \E attempt \in {1, session.attempt + 1} :
       thread' = [thread EXCEPT ![t] = Mourner(w, "teardown", why, attempt)]
  /\ UNCHANGED <<generation, session, chain, processes, outside, bounds>>

\* The engine on its own has ended, and its handle is taken; the last of the attempts is
\* Supervisor's.
EngineDied(w, t) ==
  /\ w.by = "engine" /\ "aether" \in ended /\ Notices(w, t)
  /\ Fill("aether", None)
  /\ IF HasSession /\ session.gen = w.gen
     THEN /\ session.attempt < MaxAttempts
          /\ session' = [session EXCEPT !.attempt = @ + 1]
          /\ thread' = [thread EXCEPT ![t] = Mourner(w, "engine", "recovery", session.attempt + 1)]
     ELSE UNCHANGED <<session, thread>>
  /\ UNCHANGED <<generation, state, blocking, chain, outside, bounds>>

\* clear_system_proxy, which may fail and leaves the route recorded then.
Clear == proxy' \in {None, proxy} /\ blocking' = FALSE
ClearUnlessHolding(t) == IF thread[t].holding THEN UNCHANGED <<proxy, blocking>> ELSE Clear

\* The routing engine, the door and every hop are stopped.
Teardown(t) ==
  /\ thread[t].pc \in {"engine", "teardown"} /\ Goto(t, "claim")
  /\ mihomo' = None /\ door' = FALSE /\ StopAllHops
  /\ IF At(t, "engine") THEN ClearUnlessHolding(t) ELSE UNCHANGED <<proxy, blocking>>
  /\ UNCHANGED <<generation, session, state, chain, watches, bounds>>

\* Mutant: the session is taken over without a look at the generation.
ClaimBlindly(t) ==
  /\ At(t, "claim")
  /\ generation' = Gen(t) + 1
  /\ thread' = [thread EXCEPT ![t].pc = "drop", ![t].gen = generation']
  /\ UNCHANGED <<session, state, blocking, chain, processes, outside, watches, bounds>>

\* One of those that found the session dead takes it over: compare_exchange.
Claim(t) ==
  /\ At(t, "claim") /\ Prompt
  /\ IF Current(Gen(t))
     THEN /\ generation' = generation + 1
          /\ thread' = [thread EXCEPT ![t].pc = "drop", ![t].gen = generation']
     ELSE Leave(t) /\ UNCHANGED generation
  /\ UNCHANGED <<session, state, blocking, chain, processes, outside, watches, bounds>>

\* A recovery begins, or the session is over.
Go(t) == IF thread[t].why = "recovery" THEN Goto(t, "wait") ELSE Leave(t)

\* Mutant: the proxy is put back when the session ends, kill switch or not.
DropClearing(t) ==
  /\ At(t, "drop") /\ session' = NoSession
  /\ IF thread[t].why = "recovery" /\ Route(t) = Alone THEN Goto(t, "tell") ELSE Goto(t, "clear")
  /\ UNCHANGED <<generation, state, blocking, chain, processes, outside, watches, bounds>>

\* The claim on the session goes.
Drop(t) ==
  /\ At(t, "drop") /\ session' = NoSession
  /\ IF thread[t].why = "recovery" /\ Route(t) = Alone THEN Goto(t, "tell")
     ELSE IF thread[t].holding THEN Go(t) ELSE Goto(t, "clear")
  /\ UNCHANGED <<generation, state, blocking, chain, processes, outside, watches, bounds>>

ClearProxy(t) ==
  /\ At(t, "clear") /\ Clear /\ Go(t)
  /\ UNCHANGED <<generation, session, state, chain, processes, mihomo, door, watches, bounds>>

Tell(t) ==
  /\ At(t, "tell") /\ state' = "error" /\ Goto(t, "wait")
  /\ UNCHANGED <<generation, session, blocking, chain, processes, outside, watches, bounds>>

(***************************************************************************)
(* schedule_carrier_recovery.                                              *)
(***************************************************************************)
\* Superseded, out of attempts, or a search that somebody cancelled.
RecoveryEnds(t) ==
  /\ At(t, "wait") /\ Leave(t)
  /\ ~Current(Gen(t)) \/ thread[t].attempt > MaxAttempts \/ thread[t].profile.auto
  /\ UNCHANGED <<supervisor, chain, processes, outside, watches, bounds>>

\* The search (Race) found no route.
RoundFails(t) ==
  /\ At(t, "wait") /\ Current(Gen(t)) /\ thread[t].attempt <= MaxAttempts
  /\ thread[t].profile.auto
  /\ thread' = [thread EXCEPT ![t].attempt = @ + 1]
  /\ UNCHANGED <<supervisor, chain, processes, outside, watches, bounds>>

\* The wait is over: the winner of a search, which is one hop, or the route there was.
Attempt(t) ==
  /\ At(t, "wait") /\ Prompt /\ Current(Gen(t)) /\ thread[t].attempt <= MaxAttempts
  /\ \E route \in IF thread[t].profile.auto THEN {r \in Routes : Len(r) = 1}
                  ELSE {Route(t)} :
       thread' = [thread EXCEPT ![t].pc = "take", ![t].pos = 1, ![t].profile.route = route]
  /\ UNCHANGED <<supervisor, chain, processes, outside, watches, bounds>>

\* A failed attempt stops everything, keeps a held proxy, and looks whether it is still
\* the one: then the session goes, and the next attempt is due.
AttemptFailed(t) ==
  /\ At(t, "failed") /\ thread[t].why = "recovery" /\ Goto(t, "check")
  /\ mihomo' = None /\ door' = FALSE /\ StopAllHops /\ ClearUnlessHolding(t)
  /\ UNCHANGED <<generation, session, state, chain, watches, bounds>>

Check(t) ==
  /\ At(t, "check") /\ Prompt
  /\ IF Current(Gen(t)) THEN Goto(t, "lose") ELSE Leave(t)
  /\ UNCHANGED <<supervisor, chain, processes, outside, watches, bounds>>

Lose(t) ==
  /\ At(t, "lose") /\ session' = NoSession
  /\ thread' = [thread EXCEPT ![t].pc = "tell", ![t].attempt = @ + 1]
  /\ UNCHANGED <<generation, state, blocking, chain, processes, outside, watches, bounds>>

(***************************************************************************)
(* stop_inner, set_psiphon_region and set_chain.                           *)
(***************************************************************************)
Stop(t) ==
  /\ Command("stop", t)
  /\ mihomo' = None /\ door' = FALSE
  /\ hop' = [k \in Kinds |-> IF k = "aether" THEN hop[k] ELSE None]
  /\ ended' = ended \intersect {"aether"}
  /\ thread' = [thread EXCEPT ![t] = [pc |-> "stopping"]]
  /\ UNCHANGED <<supervisor, chain, proxy, watches, deaths>>

\* The rest of it, which only a connect could tell from one step.
Stopped(t) ==
  /\ At(t, "stopping") /\ Leave(t)
  /\ generation' = generation + 1 /\ session' = NoSession /\ Clear
  /\ Fill("aether", None) /\ state' = "idle"
  /\ UNCHANGED <<chain, mihomo, door, watches, bounds>>

\* Another exit country: everything stops and the hops are started again, in the same
\* session.
Move(t) ==
  /\ Command("move", t) /\ HasSession /\ ("user" \in Calm => \A u \in Threads : At(u, "idle"))
  /\ "psiphon" \in Hops
  /\ mihomo' = None /\ StopAllHops /\ Clear /\ state' = "connecting"
  /\ thread' = [thread EXCEPT ![t] = Starter(generation, session.profile, "move", 0)]
  /\ UNCHANGED <<generation, session, chain, door, watches, deaths>>

\* current_chain: what was recorded, or the hop there is.
current_chain == IF chain # None THEN chain ELSE IF state = "connected" THEN generation ELSE None

\* set_chain: the routing engine is restarted over what is carrying.
SetChain(t) ==
  /\ Command("chain", t)
  /\ mihomo' \in IF current_chain = None THEN {None} ELSE {None, current_chain}
  /\ proxy' \in IF HasSession /\ mihomo' # None THEN {proxy, mihomo'} ELSE {proxy}
  /\ UNCHANGED <<supervisor, chain, processes, door, watches, thread, deaths>>

\* A process of a carrier ends; its handle stays where it is.
Die(k) ==
  /\ deaths < MaxDeaths /\ deaths' = deaths + 1
  /\ hop[k] # None /\ k \notin ended /\ ended' = ended \union {k}
  /\ UNCHANGED <<supervisor, chain, hop, outside, watches, thread, commands>>

(***************************************************************************)
(* Specification.                                                          *)
(***************************************************************************)
Starting(t) ==
  \/ Begin(t) \/ Take(t) \/ LaunchFails(t) \/ Launch(t) \/ StartHop(t) \/ HopUp(t)
  \/ HopFails(t) \/ Joined(t) \/ Publish(t) \/ EngineFails(t) \/ StartFailed(t)

Recovering(t) ==
  \/ Teardown(t) \/ Claim(t) \/ Drop(t) \/ ClearProxy(t) \/ Tell(t)
  \/ RecoveryEnds(t) \/ RoundFails(t) \/ Attempt(t) \/ AttemptFailed(t) \/ Check(t) \/ Lose(t)

Run(t) == Starting(t) \/ Recovering(t) \/ Stopped(t)

Watch(w) == WatchEnds(w) \/ \E t \in Threads : HopDied(w, t) \/ EngineDied(w, t)

Next ==
  \/ \E t \in Threads : Run(t) \/ Start(t) \/ Stop(t) \/ Move(t) \/ SetChain(t)
  \/ \E w \in watches : Watch(w)
  \/ EngineUp
  \/ \E k \in Kinds : Die(k)

\* Threads run, and watches look.
Fairness ==
  /\ \A t \in Threads : WF_vars(Run(t))
  /\ WF_vars(\E w \in watches : Watch(w))

Spec == Init /\ [][Next]_vars
FairSpec == Spec /\ Fairness

(***************************************************************************)
(* Properties.                                                             *)
(***************************************************************************)
Quiet == \A t \in Threads : At(t, "idle")
Works(t) ==
  thread[t].pc \in {"take", "hop", "tunnel", "mihomo", "failed",
                    "drop", "clear", "tell", "wait", "check", "lose"}
Acting == {t \in Threads : Works(t) /\ Current(Gen(t))}

\* One thread at most acts for the session there is: a death noticed twice, or late, is
\* answered once.
OneAtWork == Cardinality(Acting) <= 1

\* When nobody is at work and there is no session, no hop runs, whatever overlapped.
NothingIsLeft == Quiet /\ ~HasSession => hop = Off

\* A thread that holds the traffic of a dead session never puts the proxy back: the
\* user does, by a disconnect or by another exit.
Holding(t) == "holding" \in DOMAIN thread[t] /\ thread[t].holding
KillSwitchHolds ==
  [][proxy # None /\ proxy' = None => \A t \in Threads : thread'[t] # thread[t] => ~Holding(t)]_vars

\* The death of a hop is answered: the session is over or carries again.  (An engine on
\* its own is answered for when it ends: one that a late stop_all_hops of another thread
\* takes is missed by its monitor.)
Broken ==
  /\ HasSession
  /\ IF session.profile.route = Alone
     THEN \/ "aether" \in ended
          \/ \E t \in Threads : thread[t].pc \in {"engine", "claim", "drop"}
     ELSE \E k \in Hops : Lost(k)
DeathIsAnswered == (state = "connected" /\ Current(session.gen) /\ Broken) ~> ~Broken
=============================================================================

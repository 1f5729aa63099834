--------------------------------- MODULE Race ---------------------------------
(***************************************************************************)
(* race.rs: the search for a way out that works, and what it leaves in the *)
(* route memory.                                                           *)
(*                                                                         *)
(* One thread decides; one worker per carrier tries that carrier's lanes   *)
(* one after the other, round after round, and reports through a channel.  *)
(* A flag ends them all.  The user may cancel, disconnect and connect, and *)
(* the machine may change networks, while they run.                        *)
(***************************************************************************)
EXTENDS RouteMemory, Sequences

CONSTANTS
  Order,        \* the engine's recipes as recipes gives them, without a memory
  Remedied,     \* the recipe each remedy asks for
  OtherLanes,   \* how many lanes each other carrier has
  Earlier,      \* what earlier runs may have left in the memory
  MaxRounds,    \* bound: the ceiling is reached after that many rounds
  MaxSearches,  \* bound: searches in a run
  MaxEvents,    \* bound: of the user and of the network
  MaxNow,       \* bound: ticks of the clock
  User          \* what may happen: "cancel", "disconnect", "connect", "move"

ASSUME EarlierIsRead ==
  \A m \in Earlier : DOMAIN m \subseteq Networks /\ m \in [DOMAIN m -> Entry]

VARIABLES
  here, now,    \* the network the machine is on, and the time
  context,      \* the settings the next search starts from
  memory,       \* route-memory.json
  snapshot,     \* the state on screen
  generation, session, ending,  \* the supervisor; a disconnect under way
  active, flag, \* search_stop: there is one, and what it says
  main,         \* the thread of search_blocking
  worker,       \* the thread of each group
  channel,      \* attempts on their way from the workers
  remedy,       \* what the engine's lines have named in this search
  running,      \* whose each carrier's process is
  report,       \* the answer of the last search
  searches, events,
  carried, interrupted, proven  \* history, for the properties

world == <<here, now, context>>
supervisor == <<snapshot, generation, session, ending>>
bounds == <<searches, events>>
history == <<carried, interrupted, proven>>
vars == <<world, supervisor, memory, active, flag, main, worker, channel, remedy,
          running, report, bounds, history>>

Unknown == 0
NoLane == <<>>
NotYet == [pc |-> "off", lane |-> 1, round |-> 0]
Rest == [pc |-> "idle", gen |-> 0, network |-> Unknown, order |-> Order,
         chosen |-> NoLane, provisional |-> NoLane, done |-> {}, cancelled |-> FALSE]
NoReport == [winner |-> NoLane, cancelled |-> FALSE]

At(label) == main.pc = label
Goto(label) == main' = [main EXCEPT !.pc = label]
Lanes(c) == IF c = "aether" THEN Len(main.order) ELSE OtherLanes[c]
\* route_of: the lane as the memory keeps it.
RouteOf(lane) ==
  [carrier |-> lane[1], context |-> context,
   recipe |-> IF lane[1] = "aether" THEN main.order[lane[2]] ELSE None]

\* A recipe that is not in the ladder leads nowhere.
ToFront(recipes, r) ==
  SelectSeq(recipes, LAMBDA x : x = r) \o SelectSeq(recipes, LAMBDA x : x # r)
\* recovery::recipes: the remembered recipe leads, unless a remedy does.
RecipesFor(remembered, named) ==
  LET led == IF remembered = None THEN Order ELSE ToFront(Order, remembered)
  IN  IF named = None THEN led ELSE ToFront(led, Remedied[named])

Init ==
  /\ here \in Networks /\ now = 1 /\ context \in Contexts /\ events = 0
  /\ memory \in Earlier /\ snapshot = "idle" /\ generation = 0
  /\ session = None /\ ending = FALSE /\ active = FALSE /\ flag = FALSE
  /\ main = Rest /\ worker = [c \in Carriers |-> NotYet] /\ channel = <<>>
  /\ remedy = None /\ running = [c \in Carriers |-> "off"]
  /\ report = NoReport /\ searches = 0
  /\ carried = {} /\ interrupted = FALSE
  /\ proven = [n \in Networks |-> IF n \in DOMAIN memory THEN {memory[n].route} ELSE {}]

(***************************************************************************)
(* The start of a search.                                                  *)
(***************************************************************************)
\* begin_search: one at a time, and only while nothing is connected.
Begin ==
  /\ searches < MaxSearches /\ searches' = searches + 1
  /\ At("idle") /\ ~active /\ snapshot = "idle"
  /\ active' = TRUE /\ flag' = FALSE
  /\ main' = [Rest EXCEPT !.pc = "recall"]
  /\ report' = NoReport /\ carried' = {} /\ interrupted' = FALSE
  /\ UNCHANGED <<world, supervisor, memory, worker, channel, remedy, running, events,
                 proven>>

\* The generation, the network and what is remembered of it; then the groups, and
\* a worker for each.  show_search leaves a connected screen alone.
RecallRoute ==
  LET recall == Recall(memory, here, now)
      remembered == IF here # Unknown /\ recall.route.context = context
                    THEN recall.route.recipe ELSE None
      named == IF here = Unknown THEN None ELSE recall.remedy
  IN
  /\ At("recall")
  /\ main' = [main EXCEPT !.pc = "head", !.gen = generation, !.network = here,
                          !.order = RecipesFor(remembered, named)]
  /\ worker' = [c \in Carriers |-> [NotYet EXCEPT !.pc = "lane"]]
  /\ remedy' = None
  /\ snapshot' = IF snapshot = "connected" THEN snapshot ELSE "scanning"
  /\ UNCHANGED <<world, generation, session, ending, memory, active, flag, channel,
                 running, report, bounds, history>>

(***************************************************************************)
(* run_group and run_lane.                                                 *)
(***************************************************************************)
Attempt(c, ok) == [what |-> "attempt", carrier |-> c, lane |-> worker[c].lane, ok |-> ok]
Done(c) == [what |-> "done", carrier |-> c, lane |-> 0, ok |-> FALSE]
WorkerAt(c, label) == worker[c].pc = label
WorkerGoto(c, label) == worker' = [worker EXCEPT ![c].pc = label]

\* After the group's delay, the next lane, unless the flag is up or, after the
\* first round, what is left until the ceiling does not cover it.
TakeLane(c) ==
  /\ WorkerAt(c, "lane")
  /\ \/ ~flag /\ worker[c].lane <= Lanes(c) /\ WorkerGoto(c, "start")
     \/ /\ flag \/ worker[c].lane > Lanes(c) \/ worker[c].round > 0
        /\ WorkerGoto(c, "pause")
  /\ UNCHANGED <<world, supervisor, memory, active, flag, main, channel, remedy,
                 running, report, bounds, history>>

\* A lane has failed: the attempt is reported and the next lane is due.  An error
\* that settles the engine's identity ends its group.  A failed start and a trial
\* engine leave no process; tor is stopped before its next lane.
Fails(c, stopped) ==
  /\ running' = [running EXCEPT ![c] = IF stopped \/ c = "tor" THEN "off" ELSE @]
  /\ \/ /\ channel' = Append(channel, Attempt(c, FALSE))
        /\ worker' = [worker EXCEPT ![c].pc = "lane", ![c].lane = @ + 1]
     \/ /\ c = "aether"
        /\ channel' = channel \o <<Attempt(c, FALSE), Done(c)>>
        /\ WorkerGoto(c, "over")

\* A trial engine of the lane's own, or the one process of the carrier, whose
\* start ends the one before it, whosever that was.
StartLane(c) ==
  /\ WorkerAt(c, "start")
  /\ \/ /\ running' = [running EXCEPT ![c] = "search"]
        /\ WorkerGoto(c, IF c = "aether" THEN "probe" ELSE "tunnel")
        /\ UNCHANGED channel
     \/ Fails(c, TRUE)
  /\ UNCHANGED <<world, supervisor, memory, active, flag, main, remedy, report,
                 bounds, history>>

\* start_for_search waits for a tunnel, for a failure or for someone's stop; it
\* does not look at the flag.
WaitForTunnel(c) ==
  /\ WorkerAt(c, "tunnel")
  /\ \/ running[c] = "search" /\ WorkerGoto(c, "probe") /\ UNCHANGED <<running, channel>>
     \/ Fails(c, TRUE)
  /\ UNCHANGED <<world, supervisor, memory, active, flag, main, remedy, report,
                 bounds, history>>

\* Verified traffic, from a process that is there; a trial engine ends with its
\* lane.  The attempt, then the end of the group, go into the channel.
Carries(c) ==
  /\ WorkerAt(c, "probe") /\ running[c] = "search"
  /\ running' = [running EXCEPT ![c] = IF c = "aether" THEN "off" ELSE @]
  /\ channel' = channel \o <<Attempt(c, TRUE), Done(c)>>
  /\ WorkerGoto(c, "over")
  /\ carried' = carried \union {<<c, worker[c].lane>>}
  /\ proven' = IF here = Unknown THEN proven
               ELSE [proven EXCEPT ![here] = @ \union {RouteOf(<<c, worker[c].lane>>)}]
  /\ UNCHANGED <<world, supervisor, memory, active, flag, main, remedy, report,
                 bounds, interrupted>>

\* Mutant: a trial engine outlives its lane.
ProbeFailsLeaving(c) ==
  /\ WorkerAt(c, "probe") /\ Fails(c, FALSE)
  /\ \E named \in Remedies \union {None} :
       remedy' = IF c = "aether" /\ named # None THEN named ELSE remedy
  /\ UNCHANGED <<world, supervisor, memory, active, flag, main, report, bounds,
                 history>>

\* The budget, the flag, or the engine's exit; its lines may name a remedy.
ProbeFails(c) ==
  /\ WorkerAt(c, "probe") /\ Fails(c, c = "aether")
  /\ \E named \in Remedies \union {None} :
       remedy' = IF c = "aether" /\ named # None THEN named ELSE remedy
  /\ UNCHANGED <<world, supervisor, memory, active, flag, main, report, bounds,
                 history>>

\* Mutant: the ceiling is not looked at.
PauseForever(c) ==
  /\ WorkerAt(c, "pause")
  /\ \/ /\ ~flag
        /\ worker' = [worker EXCEPT ![c] = [pc |-> "lane", lane |-> 1, round |-> @.round]]
        /\ UNCHANGED channel
     \/ /\ flag /\ channel' = Append(channel, Done(c)) /\ WorkerGoto(c, "over")
  /\ UNCHANGED <<world, supervisor, memory, active, flag, main, remedy, running,
                 report, bounds, history>>

\* The end of a round: another one, unless the flag or the ceiling ends the group.
Pause(c) ==
  /\ WorkerAt(c, "pause")
  /\ \/ /\ ~flag /\ worker[c].round + 1 < MaxRounds
        /\ worker' = [worker EXCEPT ![c] = [pc |-> "lane", lane |-> 1, round |-> @.round + 1]]
        /\ UNCHANGED channel
     \/ /\ channel' = Append(channel, Done(c))
        /\ WorkerGoto(c, "over")
  /\ UNCHANGED <<world, supervisor, memory, active, flag, main, remedy, running,
                 report, bounds, history>>

(***************************************************************************)
(* search_blocking: the loop, and what follows it.                         *)
(***************************************************************************)
EngineDone == "aether" \in main.done
\* network_changed: only of a network that has a key.
Moved == main.network # Unknown /\ here # main.network

\* The head of the loop: the flag, the network, the carrier kept in reserve, the
\* groups that are over; otherwise it receives.
Decide ==
  /\ At("head")
  /\ \/ /\ flag \/ Moved
        /\ main' = [main EXCEPT !.pc = "stop", !.cancelled = TRUE]
     \/ /\ ~flag /\ main.provisional # NoLane
        /\ main' = [main EXCEPT !.pc = "stop", !.chosen = main.provisional]
     \/ /\ ~flag /\ main.provisional = NoLane /\ main.done = Carriers
        /\ Goto("stop")
     \/ /\ ~flag /\ main.done # Carriers /\ (main.provisional # NoLane => ~EngineDone)
        /\ Goto("receive")
  /\ UNCHANGED <<world, supervisor, memory, active, flag, worker, channel, remedy,
                 running, report, bounds, history>>

\* Mutant: once a carrier is in reserve the others are not heard.
ReceiveDeaf ==
  /\ At("receive")
  /\ \/ channel = <<>> /\ Goto("head") /\ UNCHANGED channel
     \/ /\ channel # <<>> /\ channel' = Tail(channel)
        /\ LET event == Head(channel)
               lane == <<event.carrier, event.lane>> IN
           main' = IF event.what = "done"
                   THEN [main EXCEPT !.pc = "head", !.done = @ \union {event.carrier}]
                   ELSE IF event.ok /\ event.carrier = "aether"
                   THEN [main EXCEPT !.pc = "stop", !.chosen = lane]
                   ELSE [main EXCEPT !.pc = "head"]
  /\ UNCHANGED <<world, supervisor, memory, active, flag, worker, remedy, running,
                 report, bounds, history>>

\* recv_timeout.  The engine is taken at once; another carrier waits in reserve
\* until the engine is done or its grace is over.
Receive ==
  /\ At("receive")
  /\ \/ channel = <<>> /\ Goto("head") /\ UNCHANGED channel
     \/ /\ channel # <<>> /\ channel' = Tail(channel)
        /\ LET event == Head(channel)
               lane == <<event.carrier, event.lane>> IN
           main' = IF event.what = "done"
                   THEN [main EXCEPT !.pc = "head", !.done = @ \union {event.carrier}]
                   ELSE IF event.ok /\ (event.carrier = "aether" \/ EngineDone)
                   THEN [main EXCEPT !.pc = "stop", !.chosen = lane]
                   ELSE IF event.ok /\ main.provisional = NoLane
                   THEN [main EXCEPT !.pc = "head", !.provisional = lane]
                   ELSE [main EXCEPT !.pc = "head"]
  /\ UNCHANGED <<world, supervisor, memory, active, flag, worker, remedy, running,
                 report, bounds, history>>

\* The flag, then the carriers one after the other.
StopAll ==
  /\ At("stop")
  /\ flag' = TRUE
  /\ running' = [running EXCEPT !["psiphon"] = "off"]
  /\ main' = [main EXCEPT !.pc = "stop tor",
       !.chosen = IF @ = NoLane /\ ~main.cancelled THEN main.provisional ELSE @]
  /\ UNCHANGED <<world, supervisor, memory, active, worker, channel, remedy, report,
                 bounds, history>>

StopTor ==
  /\ At("stop tor") /\ Goto("join")
  /\ running' = [c \in Carriers |-> IF c = "tor" THEN "off" ELSE running[c]]
  /\ UNCHANGED <<world, supervisor, memory, active, flag, worker, channel, remedy,
                 report, bounds, history>>

\* Every worker is waited for.
Join ==
  /\ At("join") /\ \A c \in Carriers : WorkerAt(c, "over")
  /\ Goto("verify")
  /\ UNCHANGED <<world, supervisor, memory, active, flag, worker, channel, remedy,
                 running, report, bounds, history>>

\* Mutant: a disconnect during the join is not noticed.
VerifyNetwork ==
  /\ At("verify")
  /\ main' = [main EXCEPT !.pc = "record", !.cancelled = @ \/ Moved,
                          !.chosen = IF Moved THEN NoLane ELSE @]
  /\ channel' = <<>>
  /\ UNCHANGED <<world, supervisor, memory, active, flag, worker, remedy, running,
                 report, bounds, history>>

\* A newer session or another network: the search is void.  What is left in the
\* channel is only reported.
Verify ==
  LET void == generation # main.gen \/ Moved IN
  /\ At("verify")
  /\ main' = [main EXCEPT !.pc = "record", !.cancelled = @ \/ void,
                          !.chosen = IF void THEN NoLane ELSE @]
  /\ channel' = <<>>
  /\ UNCHANGED <<world, supervisor, memory, active, flag, worker, remedy, running,
                 report, bounds, history>>

\* What the search has taught of a network: the win, then the engine's failure if
\* it did not win.
Learnt(network) ==
  LET won == IF main.chosen = NoLane THEN memory
             ELSE RecordWin(memory, network, RouteOf(main.chosen), now)
  IN  IF main.chosen # NoLane /\ main.chosen[1] = "aether" THEN won
      ELSE RecordEngineFailure(won, network, EngineDone, remedy, now)

\* Mutant: what is found is remembered of the network the machine is on by now.
RecordHere ==
  /\ At("record") /\ Goto("finish")
  /\ memory' = IF main.cancelled \/ here = Unknown THEN memory ELSE Learnt(here)
  /\ report' = [winner |-> IF main.cancelled THEN NoLane ELSE main.chosen,
                cancelled |-> main.cancelled]
  /\ UNCHANGED <<world, supervisor, active, flag, worker, channel, remedy, running,
                 bounds, history>>

\* Of the network the search began on; the file is replaced as a whole, or not at
\* all.
Record ==
  /\ At("record") /\ Goto("finish")
  /\ memory' \in IF main.cancelled \/ main.network = Unknown THEN {memory}
                 ELSE {memory, Learnt(main.network)}
  /\ report' = [winner |-> IF main.cancelled THEN NoLane ELSE main.chosen,
                cancelled |-> main.cancelled]
  /\ UNCHANGED <<world, supervisor, active, flag, worker, channel, remedy, running,
                 bounds, history>>

\* finish_search.
Finish ==
  /\ At("finish") /\ main' = Rest
  /\ active' = FALSE /\ flag' = FALSE /\ remedy' = None
  /\ carried' = {} /\ interrupted' = FALSE
  /\ snapshot' = IF snapshot = "connected" THEN snapshot ELSE "idle"
  /\ worker' = [c \in Carriers |-> NotYet]
  /\ UNCHANGED <<world, generation, session, ending, memory, channel, running, report,
                 bounds, proven>>

(***************************************************************************)
(* The user and the network.                                               *)
(***************************************************************************)
Happens(actor) == actor \in User /\ events < MaxEvents /\ events' = events + 1

\* cancel_scan.
Cancel ==
  /\ Happens("cancel") /\ active /\ ~flag /\ flag' = TRUE
  /\ UNCHANGED <<world, supervisor, memory, active, main, worker, channel, remedy,
                 running, report, searches, history>>

\* stop_inner: the flag, then the carriers, the generation and the screen.
Disconnect ==
  /\ Happens("disconnect") /\ ~ending /\ ending' = TRUE
  /\ active \/ session # None
  /\ flag' = (flag \/ active)
  /\ running' = [c \in Carriers |-> IF c = "aether" THEN running[c] ELSE "off"]
  /\ UNCHANGED <<world, snapshot, generation, session, memory, active, main, worker,
                 channel, remedy, report, searches, history>>

Disconnected ==
  /\ ending /\ ending' = FALSE
  /\ generation' = generation + 1 /\ session' = None /\ snapshot' = "idle"
  /\ interrupted' = (active /\ ~At("recall"))
  /\ UNCHANGED <<world, memory, active, flag, main, worker, channel, remedy, running,
                 report, bounds, carried, proven>>

\* start_core_blocking looks at the session and the child, not at the search.
Connect(c) ==
  /\ Happens("connect") /\ session = None /\ ~ending
  /\ generation' = generation + 1 /\ session' = c /\ snapshot' = "connecting"
  /\ running' = [running EXCEPT ![c] = IF c = "aether" THEN @ ELSE "session"]
  /\ interrupted' = (active /\ ~At("recall"))
  /\ UNCHANGED <<world, ending, memory, active, flag, main, worker, channel, remedy,
                 report, searches, carried, proven>>

Connected ==
  /\ session # None /\ snapshot = "connecting" /\ snapshot' = "connected"
  /\ UNCHANGED <<world, generation, session, ending, memory, active, flag, main,
                 worker, channel, remedy, running, report, bounds, history>>

Move ==
  /\ Happens("move")
  /\ here' \in (Networks \union {Unknown}) \ {here}
  /\ UNCHANGED <<now, context, supervisor, memory, active, flag, main, worker, channel,
                 remedy, running, report, searches, history>>

\* Between two searches time passes and the user changes settings.
Between ==
  /\ ~active
  /\ \/ now < MaxNow /\ now' = now + 1 /\ UNCHANGED context
     \/ context' \in Contexts \ {context} /\ UNCHANGED now
  /\ UNCHANGED <<here, supervisor, memory, active, flag, main, worker, channel,
                 remedy, running, report, bounds, history>>

(***************************************************************************)
(* Specification.                                                          *)
(***************************************************************************)
Search ==
  \/ RecallRoute \/ Decide \/ Receive \/ StopAll \/ StopTor \/ Join \/ Verify
  \/ Record \/ Finish

Work(c) ==
  \/ TakeLane(c) \/ StartLane(c) \/ WaitForTunnel(c) \/ Carries(c)
  \/ ProbeFails(c) \/ Pause(c)

Next ==
  \/ Begin \/ Search \/ \E c \in Carriers : Work(c)
  \/ Cancel \/ Disconnect \/ Disconnected \/ (\E c \in Carriers : Connect(c)) \/ Connected
  \/ Move \/ Between

\* Threads are scheduled, and a lane ends by its budget.
Fairness == WF_vars(Search) /\ \A c \in Carriers : WF_vars(Work(c))

Spec == Init /\ [][Next]_vars
FairSpec == Spec /\ Fairness

(***************************************************************************)
(* Properties.                                                             *)
(***************************************************************************)
\* A search that was not cancelled and names no winner has no lane that carried:
\* a working route is not thrown away.
NothingMissed == At("finish") /\ ~report.cancelled /\ report.winner = NoLane => carried = {}

\* A disconnect or a connect that is over before the search is judged voids it.
\* What was found then belongs to nobody.
WinnerIsWanted ==
  [][At("verify") /\ main'.pc = "record" /\ interrupted /\ ~ending
       => main'.cancelled /\ main'.chosen = NoLane]_vars

\* Once a search is over nothing of it runs: no worker and no trial engine.
NothingTriedIsLeft ==
  ~active => running["aether"] # "search" /\ \A c \in Carriers : WorkerAt(c, "off")

\* What is remembered of a network has carried traffic on that network, with those
\* settings; unless the machine left it in the middle of the search and came back, which
\* a search that looks at the network once a second may not notice.
RememberedIsProven ==
  \A n \in DOMAIN memory :
    memory[n].route # NoRoute => memory[n].route \in proven[n]

\* Every search ends.
SearchEnds == active ~> ~active
=============================================================================

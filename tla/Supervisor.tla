----------------------------- MODULE Supervisor -----------------------------
(***************************************************************************)
(* The engine path of core_supervisor.rs: a user's connect and disconnect, *)
(* the Aether process they start and end, and the threads that outlive     *)
(* both -- the exit monitor and the retry it turns into, the log reader,   *)
(* the route watch -- all of them sharing the mutexes of SupervisorInner.  *)
(*                                                                         *)
(* A step is what one thread does under one lock; `thr[t].pc' names the    *)
(* next one.  Where two locks are taken in a row and no property tells the *)
(* difference (the blocking flag and the route of clear_system_proxy, the  *)
(* chain and the door a stop closes) they are one step.                    *)
(* A thread spawned for a process is named after that process, so a retry  *)
(* (the monitor thread, then handle_exit, then the waiting thread it       *)
(* spawns) is one entry of `thr' until it launches the next process.       *)
(***************************************************************************)
EXTENDS Integers, FiniteSets

CONSTANTS
  Procs,        \* process identities; one is reused once nothing refers to it
  MaxAttempts,  \* MAX_ATTEMPTS
  Profiles,     \* the profiles a user may connect with
  UserCommands, \* which of the commands below the user issues
  MaxEvents,    \* bound: how many of them, and of routes gone bad, in all
  Patient,      \* whether the user lets one command take hold before the next:
                \* a disconnect return, a connect claim its session
  Faults,       \* which operating-system calls may fail
  Lines,        \* which of the lines below the engine prints
  SlowRoutes    \* whether a route may answer slowly BAD_ROUTE_STREAK times

NoProc == 0
Profile == [auto_reconnect : BOOLEAN, auto_route : BOOLEAN,
            kill_switch : BOOLEAN, system_proxy : BOOLEAN,
            chain : BOOLEAN, lan_share : BOOLEAN]
\* What record_log uses when it finds no session (ChainSettings::default()
\* and LanSettings::default()), and what a thread that has none carries.
DefaultProfile == [auto_reconnect |-> FALSE, auto_route |-> FALSE,
                   kill_switch |-> FALSE, system_proxy |-> FALSE,
                   chain |-> FALSE, lan_share |-> FALSE]

Session == [generation : Nat, attempt : 0 .. MaxAttempts, profile : Profile]
\* A generation is at least 1 once something has started.
NoSession == [generation |-> 0, attempt |-> 0, profile |-> DefaultProfile]

CoreSnapshot ==
  [state : {"idle", "starting", "searching", "connected", "error"},
   pid : Procs \union {NoProc}, blocking : BOOLEAN, ech : BOOLEAN,
   from : Procs \union {NoProc}]

ASSUME ProcsAssumption == Procs \subseteq Nat \ {NoProc}
ASSUME BudgetAssumption == MaxAttempts \in Nat \ {0} /\ MaxEvents \in Nat
ASSUME ProfilesAssumption == Profiles \subseteq Profile
ASSUME CommandsAssumption ==
  UserCommands \subseteq {"start", "stop", "enable", "disable"}
ASSUME EnvironmentAssumption ==
  /\ Faults \subseteq {"spawn", "kill", "apply", "revert", "mihomo", "door"}
  /\ Lines \subseteq {"listening", "hunting", "swept", "ech", "error"}
  /\ SlowRoutes \in BOOLEAN /\ Patient \in BOOLEAN

VARIABLES
  generation,   \* AtomicU64
  session,      \* Mutex<Option<Session>>; NoSession is None
  child,        \* Mutex<Option<Child>>: the process in the slot, or NoProc
  proc,         \* what the operating system knows of each process
  snapshot,     \* Mutex<CoreSnapshot>, with whose line made it connected
  route,        \* Mutex<Option<ProxyRoute>>
  mihomo, door, \* the routing engine is running; the LAN door is open
  thr,          \* every thread: where it is and what it holds
  events,       \* how many commands and bad routes there have been
  wanted        \* what the last command to take effect asked for

vars == <<generation, session, child, proc, snapshot, route, mihomo, door,
          thr, events, wanted>>
machine == <<route, mihomo, door>>

Start == <<"start", NoProc>>
Stop == <<"stop", NoProc>>
Toggle == <<"toggle", NoProc>>
Monitor(p) == <<"monitor", p>>
Reader(p) == <<"reader", p>>
Watch(p) == <<"watch", p>>
Threads == {Start, Stop, Toggle} \union
           ({"monitor", "reader", "watch"} \X Procs)

Labels == {"done", "bump", "claim", "spawn", "slot", "publish", "unclaim",
           "watch", "poll", "exit", "terminal", "holding", "decide", "retry",
           "announce", "wait", "hold", "giveup", "giveup_ech", "release_proxy",
           "release", "session", "clear", "kill", "idle", "read", "sweep", "mihomo", "proxy",
           "chain", "reset", "renew", "quell", "unproxy", "reclaim", "reshow",
           "apply", "enable", "disable"}
Thread == [pc : Labels, gen : Nat, proc : Procs \union {NoProc},
           holding : BOOLEAN, listener : BOOLEAN, profile : Profile]
Ended == [pc |-> "done", gen |-> 0, proc |-> NoProc, holding |-> FALSE,
          listener |-> FALSE, profile |-> DefaultProfile]

(***************************************************************************)
(* Helpers.                                                                *)
(***************************************************************************)
is_current(t) == thr[t].gen = generation

Become(t, state) == thr' = [thr EXCEPT ![t] = state]
Goto(t, label) == Become(t, [thr[t] EXCEPT !.pc = label])
\* Going on with nothing in hand but the generation.
GotoAfresh(t, label) ==
  Become(t, [Ended EXCEPT !.pc = label, !.gen = thr[t].gen])
End(t) == Become(t, Ended)

NewSession(g, profile) == [generation |-> g, attempt |-> 0, profile |-> profile]

\* An identity the system may hand out: no thread and no slot still names it.
Fresh(p) ==
  /\ proc[p] # "running" /\ child # p /\ snapshot.pid # p
  /\ \A t \in Threads : thr[t].proc # p
  /\ \A t \in {Monitor(p), Reader(p), Watch(p)} : thr[t].pc = "done"

Killed(p) == IF p = NoProc THEN proc ELSE [proc EXCEPT ![p] = "exited"]

\* clear_system_proxy: the block is over whatever the system answers; the
\* route is forgotten only once the system has taken its proxy back.
ClearSystemProxy ==
  /\ snapshot' = [snapshot EXCEPT !.blocking = FALSE]
  /\ \/ route' = "none"
     \/ "revert" \in Faults /\ UNCHANGED route

\* apply_proxy_route: the route is remembered only once the system accepts it.
ApplyProxyRoute(requested) ==
  \/ route' = requested
  \/ "apply" \in Faults /\ UNCHANGED route

Init ==
  /\ generation = 0 /\ session = NoSession /\ child = NoProc
  /\ proc = [p \in Procs |-> "exited"]
  /\ snapshot = [state |-> "idle", pid |-> NoProc, blocking |-> FALSE,
                 ech |-> FALSE, from |-> NoProc]
  /\ route = "none" /\ mihomo = FALSE /\ door = FALSE
  /\ thr = [t \in Threads |-> Ended]
  /\ events = 0 /\ wanted = FALSE

(***************************************************************************)
(* start_core.                                                             *)
(***************************************************************************)
StartCheck ==
  /\ thr[Start].pc = "done"
  /\ "start" \in UserCommands /\ events < MaxEvents
  /\ Patient => thr[Stop].pc = "done"
  /\ child = NoProc /\ session = NoSession
  /\ \E profile \in Profiles :
       Become(Start, [Ended EXCEPT !.pc = "bump", !.profile = profile])
  /\ events' = events + 1
  /\ UNCHANGED <<generation, session, child, proc, snapshot, machine, wanted>>

StartBump ==
  /\ thr[Start].pc = "bump"
  /\ generation' = generation + 1
  /\ wanted' = TRUE
  /\ Become(Start, [thr[Start] EXCEPT !.pc = "claim", !.gen = generation + 1])
  /\ UNCHANGED <<session, child, proc, snapshot, machine, events>>

StartClaim ==
  /\ thr[Start].pc = "claim"
  /\ session' = NewSession(thr[Start].gen, thr[Start].profile)
  /\ Goto(Start, "spawn")
  /\ UNCHANGED <<generation, child, proc, snapshot, machine, events, wanted>>

\* launch returned an error: the claim is dropped, whoever holds it.
StartUnclaim ==
  /\ thr[Start].pc = "unclaim"
  /\ session' = NoSession
  /\ End(Start)
  /\ UNCHANGED <<generation, child, proc, snapshot, machine, events, wanted>>

(***************************************************************************)
(* launch, called by start_core, by a retry and by a rescan.               *)
(***************************************************************************)
Spawn(t) ==
  /\ thr[t].pc = "spawn"
  /\ \/ \E p \in Procs :
          /\ Fresh(p)
          /\ proc' = [proc EXCEPT ![p] = "running"]
          /\ Become(t, [thr[t] EXCEPT !.pc = "slot", !.proc = p])
     \/ /\ "spawn" \in Faults
        /\ Goto(t, IF t = Start THEN "unclaim" ELSE "exit")
        /\ UNCHANGED proc
  /\ UNCHANGED <<generation, session, child, snapshot, machine, events,
                 wanted>>

\* Mutants: the process of a stale launch is dropped alive; the slot is taken
\* without a look at the generation.
ClaimSlotDropped(t) ==
  /\ thr[t].pc = "slot"
  /\ IF is_current(t)
       THEN child' = thr[t].proc /\ Goto(t, "publish")
       ELSE End(t) /\ UNCHANGED child
  /\ UNCHANGED <<generation, session, proc, snapshot, machine, events, wanted>>
ClaimSlotBlind(t) ==
  /\ thr[t].pc = "slot"
  /\ child' = thr[t].proc /\ Goto(t, "publish")
  /\ UNCHANGED <<generation, session, proc, snapshot, machine, events, wanted>>

ClaimSlot(t) ==
  /\ thr[t].pc = "slot"
  /\ IF is_current(t)
       THEN /\ child' = thr[t].proc
            /\ Goto(t, "publish")
            /\ UNCHANGED proc
       ELSE /\ proc' = Killed(thr[t].proc)
            /\ End(t)
            /\ UNCHANGED child
  /\ UNCHANGED <<generation, session, snapshot, machine, events, wanted>>

\* The snapshot is replaced without a second look at the generation; then the
\* threads that will watch this process start, and the launching one is done.
Publish(t) ==
  /\ thr[t].pc = "publish"
  /\ LET p == thr[t].proc
         minder(label) == [Ended EXCEPT !.pc = label, !.gen = thr[t].gen]
     IN  /\ snapshot' = [state |-> "starting", pid |-> p, blocking |-> FALSE,
                         ech |-> FALSE, from |-> NoProc]
         /\ thr' = [thr EXCEPT ![t] = Ended,
                               ![Monitor(p)] = minder("watch"),
                               ![Reader(p)] = minder("read"),
                               ![Watch(p)] = IF SlowRoutes
                                               THEN minder("watch")
                                               ELSE Ended]
  /\ UNCHANGED <<generation, session, child, proc, machine, events, wanted>>

(***************************************************************************)
(* The engine process: it may end whenever it likes.                       *)
(***************************************************************************)
EngineExits(p) ==
  /\ proc[p] = "running"
  /\ proc' = [proc EXCEPT ![p] = "exited"]
  /\ UNCHANGED <<generation, session, child, snapshot, machine, thr, events,
                 wanted>>

(***************************************************************************)
(* The log reader: record_log, once per line of the engine's output.  The  *)
(* lines of a process that has ended may still be in the pipe.             *)
(***************************************************************************)
\* "searching" stands for scanning, connecting and reconnecting.
apply_log_to_snapshot(line, p) ==
  CASE line = "listening" ->
         [snapshot EXCEPT !.state = "connected", !.blocking = FALSE, !.from = p]
    [] line = "hunting" -> [snapshot EXCEPT !.state = "searching", !.from = NoProc]
    [] line \in {"ech", "error"} -> [snapshot EXCEPT !.ech = (line = "ech")]
    [] line = "swept" -> snapshot

\* pid is the terminal marker: without one a line changes nothing.
ReadLine(p) ==
  /\ thr[Reader(p)].pc = "read"
  /\ \E line \in Lines :
       LET live == snapshot.pid # NoProc
           after == IF live THEN apply_log_to_snapshot(line, p) ELSE snapshot
           connected == live /\ after.state = "connected"
       IN  /\ snapshot' = after
           /\ Goto(Reader(p), IF connected THEN "session"
                              ELSE IF line = "swept" THEN "sweep" ELSE "read")
  /\ UNCHANGED <<generation, session, child, proc, machine, events, wanted>>

\* end_fruitless_sweep: kill whatever is in the slot and leave it there for
\* the exit monitor to find.
Sweep(p) ==
  /\ thr[Reader(p)].pc = "sweep"
  /\ proc' = Killed(child)
  /\ Goto(Reader(p), "read")
  /\ UNCHANGED <<generation, session, child, snapshot, machine, events,
                 wanted>>

\* Connected: the failures are spent and the profile is copied out.
ReadSession(p) ==
  /\ thr[Reader(p)].pc = "session"
  /\ session' = [session EXCEPT !.attempt = 0]
  /\ Become(Reader(p), [thr[Reader(p)] EXCEPT !.pc = "chain",
                                              !.profile = session.profile])
  /\ UNCHANGED <<generation, child, proc, snapshot, machine, events, wanted>>

OpenDoor(lan) ==
  \/ door' = (door \/ lan)
  \/ "door" \in Faults /\ UNCHANGED door

GotoAfterChain(p, listener) ==
  IF thr[Reader(p)].profile.system_proxy
    THEN Become(Reader(p), [Ended EXCEPT !.pc = "proxy",
                                         !.gen = thr[Reader(p)].gen,
                                         !.listener = listener])
    ELSE GotoAfresh(Reader(p), "read")

ReadChain(p) ==
  LET profile == thr[Reader(p)].profile
  IN  /\ thr[Reader(p)].pc = "chain"
      /\ IF profile.chain /\ ~mihomo
           THEN Goto(Reader(p), "mihomo") /\ UNCHANGED door
           ELSE GotoAfterChain(p, FALSE) /\ OpenDoor(profile.lan_share)
      /\ UNCHANGED <<generation, session, child, proc, snapshot, route, mihomo,
                     events, wanted>>

\* Chain::start has taken as long as mihomo took to answer, or to fail.
ChainStarted(p) ==
  /\ thr[Reader(p)].pc = "mihomo"
  /\ \/ mihomo' = TRUE /\ GotoAfterChain(p, TRUE)
     \/ "mihomo" \in Faults /\ UNCHANGED mihomo /\ GotoAfterChain(p, FALSE)
  /\ OpenDoor(thr[Reader(p)].profile.lan_share)
  /\ UNCHANGED <<generation, session, child, proc, snapshot, route, events,
                 wanted>>

ReadProxy(p) ==
  /\ thr[Reader(p)].pc = "proxy"
  /\ ApplyProxyRoute(IF thr[Reader(p)].listener \/ mihomo
                       THEN "chain" ELSE "tunnel")
  /\ GotoAfresh(Reader(p), "read")
  /\ UNCHANGED <<generation, session, child, proc, snapshot, mihomo, door,
                 events, wanted>>

\* The pipe is closed once the process has ended and its lines are read.
ReadEof(p) ==
  /\ thr[Reader(p)].pc = "read" /\ proc[p] = "exited"
  /\ End(Reader(p))
  /\ UNCHANGED <<generation, session, child, proc, snapshot, machine, events,
                 wanted>>

(***************************************************************************)
(* spawn_exit_monitor.  It looks at the slot, not at its own process.      *)
(***************************************************************************)
MonitorCheck(p) ==
  /\ thr[Monitor(p)].pc = "watch"
  /\ IF is_current(Monitor(p)) THEN Goto(Monitor(p), "poll") ELSE End(Monitor(p))
  /\ UNCHANGED <<generation, session, child, proc, snapshot, machine, events,
                 wanted>>

\* Mutant: an engine that has ended is taken from the slot and forgotten.
MonitorPollForgets(p) ==
  /\ thr[Monitor(p)].pc = "poll"
  /\ IF child # NoProc /\ proc[child] = "running"
       THEN Goto(Monitor(p), "watch") /\ UNCHANGED child
       ELSE End(Monitor(p)) /\ child' = NoProc
  /\ UNCHANGED <<generation, session, proc, snapshot, machine, events, wanted>>

MonitorPoll(p) ==
  /\ thr[Monitor(p)].pc = "poll"
  /\ CASE child = NoProc -> End(Monitor(p)) /\ UNCHANGED child
       [] child # NoProc /\ proc[child] = "exited" ->
            Goto(Monitor(p), "exit") /\ child' = NoProc
       [] OTHER -> Goto(Monitor(p), "watch") /\ UNCHANGED child
  /\ UNCHANGED <<generation, session, proc, snapshot, machine, events, wanted>>

(***************************************************************************)
(* handle_exit, run by a monitor or, when its launch failed, by a rescan.  *)
(***************************************************************************)
\* An ECH key that cannot be had ends the session, unless the route is
\* automatic; any other exit is weighed against the retry budget.
ExitReason(t) ==
  /\ thr[t].pc = "exit"
  /\ Goto(t, IF snapshot.ech /\ ~session.profile.auto_route
               THEN "terminal" ELSE "holding")
  /\ UNCHANGED <<generation, session, child, proc, snapshot, machine, events,
                 wanted>>

ExitTerminal(t) ==
  /\ thr[t].pc = "terminal"
  /\ IF session.generation = thr[t].gen
       THEN /\ session' = NoSession
            /\ Become(t, [thr[t] EXCEPT !.pc = "giveup_ech",
                                        !.profile = session.profile])
       ELSE End(t) /\ UNCHANGED session
  /\ UNCHANGED <<generation, child, proc, snapshot, machine, events, wanted>>

ExitHolding(t) ==
  /\ thr[t].pc = "holding"
  /\ Become(t, [thr[t] EXCEPT
       !.pc = "decide",
       !.holding = session.profile.kill_switch /\ route # "none"])
  /\ UNCHANGED <<generation, session, child, proc, snapshot, machine, events,
                 wanted>>

\* Mutant: one retry too many.
decide_exit_late(attempt, profile, holding) ==
  IF attempt > MaxAttempts + 1 \/ ~profile.auto_reconnect
    THEN IF holding THEN "hold" ELSE "giveup"
    ELSE IF profile.auto_route THEN "release" ELSE "retry"

\* decide_exit: what a session on its attempt-th failure should do next.
decide_exit(attempt, profile, holding) ==
  IF attempt > MaxAttempts \/ ~profile.auto_reconnect
    THEN IF holding THEN "hold" ELSE "giveup"
    ELSE IF profile.auto_route THEN "release" ELSE "retry"

\* Mutant: a retry is not counted.
DecideUncounted(t) ==
  LET next == decide_exit(session.attempt + 1, session.profile, thr[t].holding)
  IN  /\ thr[t].pc = "decide"
      /\ IF session.generation = thr[t].gen
           THEN /\ session' = CASE next = "giveup" -> NoSession
                                [] next = "hold" -> [session EXCEPT !.attempt = 0]
                                [] OTHER -> session
                /\ Become(t, [thr[t] EXCEPT !.pc = next,
                                            !.profile = session.profile])
           ELSE End(t) /\ UNCHANGED session
      /\ UNCHANGED <<generation, child, proc, snapshot, machine, events,
                     wanted>>

Decide(t) ==
  LET attempt == session.attempt + 1
      next == decide_exit(attempt, session.profile, thr[t].holding)
  IN  /\ thr[t].pc = "decide"
      /\ IF session.generation = thr[t].gen
           THEN /\ session' = CASE next = "giveup" -> NoSession
                                [] next = "hold" -> [session EXCEPT !.attempt = 0]
                                [] OTHER -> [session EXCEPT !.attempt = attempt]
                /\ Become(t, [thr[t] EXCEPT !.pc = next,
                                            !.profile = session.profile])
           ELSE End(t) /\ UNCHANGED session
      /\ UNCHANGED <<generation, child, proc, snapshot, machine, events,
                     wanted>>

\* Mutant: the kill switch is not asked.
RetryClearAlways(t) ==
  /\ thr[t].pc = "retry"
  /\ ClearSystemProxy
  /\ Goto(t, "announce")
  /\ UNCHANGED <<generation, session, child, proc, mihomo, door, events,
                 wanted>>

\* A retry leaves the machine usable meanwhile, unless the kill switch is on.
RetryClear(t) ==
  /\ thr[t].pc = "retry"
  /\ IF thr[t].profile.kill_switch
       THEN UNCHANGED <<snapshot, route>>
       ELSE ClearSystemProxy
  /\ Goto(t, "announce")
  /\ UNCHANGED <<generation, session, child, proc, mihomo, door, events,
                 wanted>>

\* The three verdicts are shown under the snapshot lock, each only if the
\* generation is still the one it is about.
Show(t, from, next, after) ==
  /\ thr[t].pc = from
  /\ IF is_current(t)
       THEN /\ snapshot' = after
            /\ IF next = "wait" THEN GotoAfresh(t, next) ELSE Goto(t, next)
       ELSE End(t) /\ UNCHANGED snapshot
  /\ UNCHANGED <<generation, session, child, proc, machine, events, wanted>>

RetryAnnounce(t) ==
  Show(t, "announce", "wait",
       [snapshot EXCEPT !.state = "searching", !.pid = NoProc,
                        !.from = NoProc])

\* Mutant: the block is shown without a look at the generation.
HoldBlind(t) ==
  /\ thr[t].pc = "hold"
  /\ snapshot' = [snapshot EXCEPT !.state = "error", !.pid = NoProc,
                                  !.blocking = TRUE, !.ech = FALSE,
                                  !.from = NoProc]
  /\ GotoAfresh(t, "wait")
  /\ UNCHANGED <<generation, session, child, proc, machine, events, wanted>>

Hold(t) ==
  Show(t, "hold", "wait",
       [snapshot EXCEPT !.state = "error", !.pid = NoProc, !.blocking = TRUE,
                        !.ech = FALSE, !.from = NoProc])

\* The reason given is shown: the ECH failure itself, or the engine's exit.
GiveUp(t) ==
  \E terminal \in BOOLEAN :
    Show(t, IF terminal THEN "giveup_ech" ELSE "giveup", "release_proxy",
         [snapshot EXCEPT !.state = "error", !.pid = NoProc, !.ech = terminal,
                           !.from = NoProc])

\* The kill switch bites here: a proxy that is applied is left where it is.
GiveUpProxy(t) ==
  /\ thr[t].pc = "release_proxy"
  /\ mihomo' = FALSE
  /\ IF thr[t].profile.kill_switch /\ route # "none"
       THEN UNCHANGED <<snapshot, route>>
       ELSE ClearSystemProxy
  /\ End(t)
  /\ UNCHANGED <<generation, session, child, proc, door, events, wanted>>

\* The delay of a retry, or of a hold, has run out.
WaitOver(t) ==
  /\ thr[t].pc = "wait"
  /\ IF is_current(t) THEN Goto(t, "spawn") ELSE End(t)
  /\ UNCHANGED <<generation, session, child, proc, snapshot, machine, events,
                 wanted>>

(***************************************************************************)
(* stop_core, and the shutdown of the application.                         *)
(***************************************************************************)
StopBegin ==
  /\ thr[Stop].pc = "done"
  /\ "stop" \in UserCommands /\ events < MaxEvents
  /\ Patient => thr[Start].pc \notin {"bump", "claim"}
  /\ events' = events + 1
  /\ mihomo' = FALSE /\ door' = FALSE
  /\ Goto(Stop, "bump")
  /\ UNCHANGED <<generation, session, child, proc, snapshot, route, wanted>>

StopBump ==
  /\ thr[Stop].pc = "bump"
  /\ generation' = generation + 1
  /\ wanted' = FALSE
  /\ Goto(Stop, "session")
  /\ UNCHANGED <<session, child, proc, snapshot, machine, events>>

StopSession ==
  /\ thr[Stop].pc = "session"
  /\ session' = NoSession
  /\ Goto(Stop, "clear")
  /\ UNCHANGED <<generation, child, proc, snapshot, machine, events, wanted>>

StopClear ==
  /\ thr[Stop].pc = "clear"
  /\ ClearSystemProxy
  /\ Goto(Stop, "kill")
  /\ UNCHANGED <<generation, session, child, proc, mihomo, door, events,
                 wanted>>

\* A kill the system refuses ends the command with the slot already empty.
StopKill ==
  /\ thr[Stop].pc = "kill"
  /\ child' = NoProc
  /\ \/ proc' = Killed(child) /\ Goto(Stop, "idle")
     \/ /\ "kill" \in Faults /\ child # NoProc
        /\ End(Stop) /\ UNCHANGED proc
  /\ UNCHANGED <<generation, session, snapshot, machine, events, wanted>>

StopIdle ==
  /\ thr[Stop].pc = "idle"
  /\ snapshot' = [snapshot EXCEPT !.state = "idle", !.pid = NoProc, !.ech = FALSE,
                                   !.from = NoProc]
  /\ End(Stop)
  /\ UNCHANGED <<generation, session, child, proc, machine, events, wanted>>

(***************************************************************************)
(* set_system_proxy.  It runs on the one thread of the window.             *)
(***************************************************************************)
ToggleBegin ==
  /\ thr[Toggle].pc = "done" /\ events < MaxEvents
  /\ Patient => thr[Start].pc \notin {"bump", "claim"}
  /\ \E command \in UserCommands \intersect {"enable", "disable"} :
       /\ session' = IF session = NoSession THEN session
                     ELSE [session EXCEPT
                             !.profile.system_proxy = (command = "enable")]
       /\ Goto(Toggle, command)
  /\ events' = events + 1
  /\ UNCHANGED <<generation, child, proc, snapshot, machine, wanted>>

ToggleDisable ==
  /\ thr[Toggle].pc = "disable"
  /\ ClearSystemProxy
  /\ End(Toggle)
  /\ UNCHANGED <<generation, session, child, proc, mihomo, door, events,
                 wanted>>

\* Before there is a listener, or while a requested chain is still coming up,
\* nothing is applied: the log reader will do it.
ToggleEnable ==
  LET chain_requested == mihomo \/ session.profile.chain
  IN  /\ thr[Toggle].pc = "enable"
      /\ IF snapshot.state = "connected" /\ (chain_requested => mihomo)
           THEN Become(Toggle, [thr[Toggle] EXCEPT
                                  !.pc = "apply", !.listener = chain_requested])
           ELSE End(Toggle)
      /\ UNCHANGED <<generation, session, child, proc, snapshot, machine,
                     events, wanted>>

ToggleApply ==
  /\ thr[Toggle].pc = "apply"
  /\ ApplyProxyRoute(IF thr[Toggle].listener THEN "chain" ELSE "tunnel")
  /\ End(Toggle)
  /\ UNCHANGED <<generation, session, child, proc, snapshot, mihomo, door,
                 events, wanted>>

(***************************************************************************)
(* spawn_route_watch and rescan_bad_route.                                 *)
(***************************************************************************)
WatchEnds(p) ==
  /\ thr[Watch(p)].pc = "watch" /\ ~is_current(Watch(p))
  /\ End(Watch(p))
  /\ UNCHANGED <<generation, session, child, proc, snapshot, machine, events,
                 wanted>>

\* Connected, and the third bad sample in a row has just come in.
WatchBadRoute(p) ==
  /\ thr[Watch(p)].pc = "watch" /\ is_current(Watch(p))
  /\ snapshot.state = "connected"
  /\ events < MaxEvents /\ events' = events + 1
  /\ Goto(Watch(p), "reset")
  /\ UNCHANGED <<generation, session, child, proc, snapshot, machine, wanted>>

RescanReset(p) ==
  /\ thr[Watch(p)].pc = "reset"
  /\ IF session.generation = thr[Watch(p)].gen
       THEN /\ session' = [session EXCEPT !.attempt = 0]
            /\ Become(Watch(p), [thr[Watch(p)] EXCEPT
                                   !.pc = "renew", !.profile = session.profile])
       ELSE End(Watch(p)) /\ UNCHANGED session
  /\ UNCHANGED <<generation, child, proc, snapshot, machine, events, wanted>>

\* Mutant: the rescan goes on under the generation it found.
RescanBumpless(p) ==
  /\ thr[Watch(p)].pc = "renew"
  /\ Goto(Watch(p), "quell")
  /\ UNCHANGED <<generation, session, child, proc, snapshot, machine, events,
                 wanted>>

\* The generation is bumped without asking whether it still is this one.
RescanBump(p) ==
  /\ thr[Watch(p)].pc = "renew"
  /\ generation' = generation + 1
  /\ Become(Watch(p), [thr[Watch(p)] EXCEPT !.pc = "quell",
                                            !.gen = generation + 1])
  /\ UNCHANGED <<session, child, proc, snapshot, machine, events, wanted>>

RescanQuell(p) ==
  /\ thr[Watch(p)].pc = "quell"
  /\ mihomo' = FALSE
  /\ proc' = Killed(child) /\ child' = NoProc
  /\ Goto(Watch(p), "unproxy")
  /\ UNCHANGED <<generation, session, snapshot, route, door, events, wanted>>

RescanUnproxy(p) ==
  /\ thr[Watch(p)].pc = "unproxy"
  /\ ClearSystemProxy
  /\ Goto(Watch(p), "reclaim")
  /\ UNCHANGED <<generation, session, child, proc, mihomo, door, events,
                 wanted>>

RescanClaim(p) ==
  /\ thr[Watch(p)].pc = "reclaim"
  /\ session' = NewSession(thr[Watch(p)].gen, thr[Watch(p)].profile)
  /\ Goto(Watch(p), "reshow")
  /\ UNCHANGED <<generation, child, proc, snapshot, machine, events, wanted>>

RescanShow(p) ==
  /\ thr[Watch(p)].pc = "reshow"
  /\ snapshot' = [snapshot EXCEPT !.state = "searching", !.pid = NoProc,
                        !.from = NoProc]
  /\ Goto(Watch(p), "spawn")
  /\ UNCHANGED <<generation, session, child, proc, machine, events, wanted>>

(***************************************************************************)
(* The specification.                                                      *)
(***************************************************************************)
Launch(t) == Spawn(t) \/ ClaimSlot(t) \/ Publish(t)
HandleExit(t) ==
  \/ ExitReason(t) \/ ExitTerminal(t) \/ ExitHolding(t) \/ Decide(t)
  \/ RetryClear(t) \/ RetryAnnounce(t) \/ Hold(t) \/ GiveUp(t) \/ GiveUpProxy(t)
  \/ WaitOver(t)
StartStep == StartBump \/ StartClaim \/ StartUnclaim \/ Launch(Start)
StopStep == StopBump \/ StopSession \/ StopClear \/ StopKill \/ StopIdle
ToggleStep == ToggleDisable \/ ToggleEnable \/ ToggleApply
MonitorStep(p) ==
  \/ MonitorCheck(p) \/ MonitorPoll(p)
  \/ HandleExit(Monitor(p)) \/ Launch(Monitor(p))
RecordLog(p) ==
  \/ Sweep(p) \/ ReadSession(p) \/ ReadChain(p) \/ ChainStarted(p)
  \/ ReadProxy(p)
ReaderStep(p) == ReadLine(p) \/ ReadEof(p) \/ RecordLog(p)
Rescan(p) ==
  \/ RescanReset(p) \/ RescanBump(p) \/ RescanQuell(p) \/ RescanUnproxy(p)
  \/ RescanClaim(p) \/ RescanShow(p)
  \/ HandleExit(Watch(p)) \/ Launch(Watch(p))
WatchStep(p) == WatchEnds(p) \/ WatchBadRoute(p) \/ Rescan(p)

Next ==
  \/ StartCheck \/ StartStep
  \/ StopBegin \/ StopStep
  \/ ToggleBegin \/ ToggleStep
  \/ \E p \in Procs :
       EngineExits(p) \/ MonitorStep(p) \/ ReaderStep(p) \/ WatchStep(p)

\* Every thread keeps running, and a closed pipe ends its reader.  Nothing
\* obliges the user to act, an engine to exit or to print, a route to go bad.
Fairness ==
  /\ WF_vars(StartStep) /\ WF_vars(StopStep) /\ WF_vars(ToggleStep)
  /\ \A p \in Procs :
       /\ WF_vars(MonitorStep(p)) /\ WF_vars(RecordLog(p))
       /\ WF_vars(Rescan(p)) /\ SF_vars(ReadEof(p))

Spec == Init /\ [][Next]_vars
FairSpec == Spec /\ Fairness

(***************************************************************************)
(* Properties.                                                             *)
(***************************************************************************)
\* Every variable has its type, and a retry count never passes MAX_ATTEMPTS.
DataOK ==
  /\ generation \in Nat
  /\ session \in Session
  /\ child \in Procs \union {NoProc}
  /\ proc \in [Procs -> {"running", "exited"}]
  /\ snapshot \in CoreSnapshot
  /\ route \in {"none", "tunnel", "chain"}
  /\ thr \in [Threads -> Thread]
  /\ events \in 0 .. MaxEvents
FlagsOK == mihomo \in BOOLEAN /\ door \in BOOLEAN /\ wanted \in BOOLEAN
TypeOK == DataOK /\ FlagsOK

\* The labels at which a thread answers for the engine of its generation: it is
\* bringing one up, watching it, or deciding what its end means.
Duties(t) ==
  CASE t = Start -> {"claim", "spawn", "slot", "publish", "unclaim"}
    [] t \in {Monitor(p) : p \in Procs} ->
         Labels \ {"done", "giveup", "giveup_ech", "release_proxy"}
    [] t \in {Watch(p) : p \in Procs} ->
         Labels \ {"done", "watch", "reset", "renew", "giveup", "giveup_ech",
                   "release_proxy"}
    [] OTHER -> {}
Answering(t) == thr[t].pc \in Duties(t)
Supervising(t) == Answering(t) /\ is_current(t)

\* launch: "Otherwise the child outlives the session and runs unsupervised."
\* A running engine is in the slot a stop empties, or still in the hands of
\* the thread that spawned it and has not yet looked at the generation.
NoStrayEngine ==
  \A p \in Procs : proc[p] = "running" =>
    child = p \/ \E t \in Threads : thr[t].pc = "slot" /\ thr[t].proc = p

\* A stop is final: once it has emptied the slot nothing that was in flight
\* when the user asked for it puts an engine back.
StopSticks ==
  ~wanted /\ thr[Stop].pc \in {"idle", "done"} => child = NoProc

\* However starts, stops, exits and retries interleave, no two threads answer
\* for the engine of the live generation: no doubled retry, no second engine.
OneSupervisor ==
  \A t, u \in Threads : Supervising(t) /\ Supervising(u) => t = u

\* CoreSnapshot::blocking says "the system proxy still points at it, and the
\* supervisor is retrying in the background": both are true when it is shown.
BlockingIsRetried ==
  snapshot.blocking /\ thr[Stop].pc = "done" =>
    route # "none" /\ \E t \in Threads : Supervising(t)

\* give_up: "The kill switch only bites here, on the failure path."  No failure,
\* retry or verdict uncovers the machine's traffic: only the user does, by a
\* stop or by taking the system proxy off -- or a rescan of a bad route.
KillSwitchHolds ==
  [][route # "none" /\ route' = "none" =>
       \/ thr[Stop].pc = "clear" \/ thr[Toggle].pc = "disable"
       \/ \E p \in Procs : thr[Watch(p)].pc = "unproxy"]_vars

\* An engine that ends is replaced, or its session is given up or stopped.
ExitIsAnswered ==
  (session # NoSession /\ session.generation = generation /\ child = NoProc) ~>
    (child # NoProc \/ session.generation # generation)

\* handle_exit "eventually stops" rather than "retrying a dead configuration
\* forever": an engine that keeps ending without once connecting is given up.
RetriesEnd ==
  /\ []<>(child = NoProc)
  /\ [](snapshot.state # "connected")
  => []((session # NoSession) => <>(session = NoSession))

(***************************************************************************)
(* The supervisor implements Lifecycle: whatever holds the slot is "up".   *)
(***************************************************************************)
L == INSTANCE Lifecycle
       WITH engine <- IF child = NoProc THEN "none" ELSE "up"

\* The refinement itself, with the promise that a disconnect ends the engine.
LifecycleSpec == L!Spec

(***************************************************************************)
(* The inductive invariant behind NoStrayEngine, StopSticks, OneSupervisor *)
(* and the safety half of LifecycleSpec, for a patient user and routes     *)
(* that stay fast; SupervisorProofs proves it.                             *)
(***************************************************************************)
\* Which labels each kind of thread can be at.
Roles ==
  /\ thr[Start].pc \in {"done", "bump", "claim", "spawn", "slot", "publish",
                        "unclaim"}
  /\ thr[Stop].pc \in {"done", "bump", "session", "clear", "kill", "idle"}
  /\ thr[Toggle].pc \in {"done", "enable", "disable", "apply"}
  /\ \A p \in Procs :
       /\ thr[Monitor(p)].pc \notin {"bump", "claim", "unclaim"}
       /\ thr[Reader(p)].pc \in {"done", "read", "sweep", "session", "chain",
                                 "mihomo", "proxy"}
       /\ thr[Watch(p)].pc = "done"

\* Nobody holds a generation that has not been issued.
GenerationIssued ==
  \A t \in Threads :
    thr[t].gen <= generation /\ (Answering(t) => thr[t].gen > 0)

\* Only a wanted connection is supervised, and its session is the current one.
SupervisedIsClaimed ==
  \A t \in Threads : Supervising(t) =>
    /\ wanted
    /\ thr[t].pc # "claim" => session.generation = generation

\* A thread about to launch for the live generation finds the slot empty.
SlotAwaitsLaunch ==
  \A t \in Threads :
    Supervising(t) /\ thr[t].pc \notin {"publish", "watch", "poll"} =>
      child = NoProc

\* What a connect relies on between its check and its claim.
StartIsAlone ==
  /\ thr[Start].pc = "bump" =>
       child = NoProc /\ session = NoSession /\ thr[Stop].pc = "done"
  /\ thr[Start].pc = "claim" => is_current(Start) /\ thr[Stop].pc = "done"
  /\ thr[Start].pc \notin {"done", "bump"} /\ ~is_current(Start) => ~wanted

StopIsHeeded ==
  /\ thr[Stop].pc \notin {"done", "bump"} => ~wanted
  /\ child # NoProc => wanted \/ thr[Stop].pc \in {"session", "clear", "kill"}

\* A thread that names a process has spawned it and not yet handed it over; no
\* other thread names it, and it has no monitor yet.
InHand ==
  \A t \in Threads : thr[t].proc # NoProc =>
    /\ thr[t].pc \in {"slot", "publish"}
    /\ thr[Monitor(thr[t].proc)].pc = "done"
    /\ \A u \in Threads : thr[u].proc = thr[t].proc => u = t

Supervision ==
  /\ TypeOK /\ Roles /\ GenerationIssued /\ SupervisedIsClaimed
  /\ SlotAwaitsLaunch /\ StartIsAlone /\ StopIsHeeded /\ OneSupervisor
=============================================================================

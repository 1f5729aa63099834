-------------------------- MODULE SupervisorProofs --------------------------
(***************************************************************************)
(* What the generation counter buys, for a user who lets a disconnect      *)
(* return and a connect claim its session before asking for more, and for  *)
(* routes that stay fast enough to start no rescan.  The argument is an    *)
(* inductive invariant in two layers.                                      *)
(*                                                                         *)
(* Supervision: at most one thread answers for the live generation; that   *)
(* generation is wanted, its session is the current one, and until that    *)
(* thread hands an engine over the slot is empty.  It is kept by Calm (a   *)
(* thread moves on within its duty), Resign (a duty ends, with or without  *)
(* the session) and Bump (a new generation orphans every thread at once).  *)
(*                                                                         *)
(* Hands: a running engine is in the slot or held by the one thread that   *)
(* spawned it.  This layer also needs that a kill does not fail.           *)
(*                                                                         *)
(* Armed is a third invariant, of the kill switch alone; Blocked, the last *)
(* one, rests on it and on Supervision, and is about the block the window  *)
(* shows while a kill switch holds the proxy.                              *)
(***************************************************************************)
EXTENDS Supervisor, TLAPS

(***************************************************************************)
(* The type invariant, for any number of processes and attempts, any       *)
(* profiles, any faults and any bound on the commands.                     *)
(***************************************************************************)
\* Threads have distinct names, and these are all of them.
LEMMA ThreadIds ==
  /\ {Start, Stop, Toggle} \subseteq Threads
  /\ \A p \in Procs : {Monitor(p), Reader(p), Watch(p)} \subseteq Threads
  /\ Start # Stop /\ Start # Toggle /\ Stop # Toggle
  /\ \A p : /\ Monitor(p) \notin {Start, Stop, Toggle}
            /\ Reader(p) \notin {Start, Stop, Toggle}
            /\ Watch(p) \notin {Start, Stop, Toggle}
  /\ \A p, q : /\ Monitor(p) # Reader(q) /\ Monitor(p) # Watch(q)
               /\ Reader(p) # Watch(q)
               /\ Monitor(p) = Monitor(q) => p = q
  /\ \A t \in Threads :
       t \in {Start, Stop, Toggle}
       \/ \E p \in Procs : t \in {Monitor(p), Reader(p), Watch(p)}
BY DEF Threads, Start, Stop, Toggle, Monitor, Reader, Watch

\* No thread is named after the process that is none.
LEMMA NobodyMinds ==
  {Monitor(NoProc), Reader(NoProc), Watch(NoProc)} \intersect Threads = {}
BY ProcsAssumption DEF Threads, Start, Stop, Toggle, Monitor, Reader, Watch, NoProc

(***************************************************************************)
(* Type correctness.                                                       *)
(***************************************************************************)
\* The values a thread and the session are reset to have their types.
LEMMA EmptyRecords == Ended \in Thread /\ NoSession \in Session
BY BudgetAssumption
   DEF Ended, Thread, Labels, NoProc, DefaultProfile, Profile, NoSession, Session

\* The initial state is well typed.
LEMMA TypeInit == Init => TypeOK
<1> SUFFICES ASSUME Init PROVE TypeOK
  OBVIOUS
<1>1. DataOK
  BY EmptyRecords, BudgetAssumption DEF Init, DataOK, CoreSnapshot
<1>2. FlagsOK
  BY DEF Init, FlagsOK
<1> QED BY <1>1, <1>2 DEF TypeOK

\* Every update of a thread gives a thread.
LEMMA ThreadUpdates ==
  ASSUME NEW r \in Thread, NEW l \in Labels
  PROVE  /\ [r EXCEPT !.pc = l] \in Thread
         /\ \A g \in Nat : [r EXCEPT !.pc = l, !.gen = g] \in Thread
         /\ \A g \in Nat, b \in BOOLEAN :
              [r EXCEPT !.pc = l, !.gen = g, !.listener = b] \in Thread
         /\ \A p \in Procs \union {NoProc} :
              [r EXCEPT !.pc = l, !.proc = p] \in Thread
         /\ \A f \in Profile : [r EXCEPT !.pc = l, !.profile = f] \in Thread
         /\ \A b \in BOOLEAN : /\ [r EXCEPT !.pc = l, !.holding = b] \in Thread
                              /\ [r EXCEPT !.pc = l, !.listener = b] \in Thread
BY DEF Thread

\* The fields of a thread have their types.
LEMMA ThreadFields ==
  ASSUME DataOK, NEW t \in Threads
  PROVE  /\ thr[t] \in Thread /\ thr[t].pc \in Labels /\ thr[t].gen \in Nat
         /\ thr[t].proc \in Procs \union {NoProc}
         /\ thr[t].profile \in Profile
BY DEF DataOK, Thread

\* The fields of the session have theirs.
LEMMA SessionFields ==
  ASSUME DataOK
  PROVE  /\ session.generation \in Nat /\ session.profile \in Profile
         /\ session.profile.kill_switch \in BOOLEAN
BY DEF DataOK, Session, Profile

\* The three ways a thread moves on that most actions use.
LEMMA Moves ==
  ASSUME DataOK, NEW t \in Threads
  PROVE  /\ \A r \in Thread : Become(t, r) => thr' \in [Threads -> Thread]
         /\ End(t) => thr' \in [Threads -> Thread]
         /\ \A l \in Labels :
              Goto(t, l) \/ GotoAfresh(t, l) => thr' \in [Threads -> Thread]
<1>1. \A r \in Thread : Become(t, r) => thr' \in [Threads -> Thread]
  BY DEF DataOK, Become
<1> QED
  BY <1>1, ThreadUpdates, ThreadFields, EmptyRecords DEF Goto, GotoAfresh, End

\* The steps of each kind of thread leave every thread well typed: a connect,
LEMMA StartMoves ==
  ASSUME DataOK, StartCheck \/ StartBump \/ StartClaim \/ StartUnclaim
  PROVE  thr' \in [Threads -> Thread]
<1>1. CASE StartCheck
  BY <1>1, ThreadIds, Moves, ThreadUpdates, EmptyRecords, ProfilesAssumption
     DEF StartCheck, Labels
<1>2. CASE StartBump
  <2>1. generation + 1 \in Nat /\ "claim" \in Labels
    BY DEF DataOK, Labels
  <2> QED BY <1>2, <2>1, ThreadIds, Moves, ThreadUpdates, ThreadFields DEF StartBump
<1>3. CASE StartClaim
  BY <1>3, ThreadIds, Moves
     DEF StartClaim, Labels
<1>4. CASE StartUnclaim
  BY <1>4, ThreadIds, Moves
     DEF StartUnclaim
<1> QED BY <1>1, <1>2, <1>3, <1>4

\* a launch,
LEMMA LaunchMoves ==
  ASSUME DataOK, NEW t \in Threads, Spawn(t) \/ ClaimSlot(t) \/ Publish(t)
  PROVE  thr' \in [Threads -> Thread]
<1>1. CASE Spawn(t)
  BY <1>1, Moves, ThreadUpdates, ThreadFields
     DEF Spawn, Labels
<1>2. CASE ClaimSlot(t)
  BY <1>2, Moves
     DEF ClaimSlot, Labels
<1>3. CASE Publish(t)
  BY <1>3, EmptyRecords, ThreadUpdates, ThreadFields
     DEF Publish, Labels, DataOK
<1> QED BY <1>1, <1>2, <1>3

\* a log reader,
LEMMA ReaderMoves ==
  ASSUME DataOK, NEW p \in Procs,
         ReadLine(p) \/ Sweep(p) \/ ReadSession(p) \/ ReadChain(p)
         \/ ChainStarted(p) \/ ReadProxy(p) \/ ReadEof(p)
  PROVE  thr' \in [Threads -> Thread]
<1>1. CASE ReadLine(p)
  BY <1>1, ThreadIds, Moves
     DEF ReadLine, Labels
<1>2. CASE Sweep(p)
  BY <1>2, ThreadIds, Moves
     DEF Sweep, Labels
<1>3. CASE ReadSession(p)
  BY <1>3, ThreadIds, Moves, ThreadUpdates, ThreadFields, SessionFields
     DEF ReadSession, Labels
<1>0. ASSUME NEW b \in BOOLEAN, GotoAfterChain(p, b)
      PROVE  thr' \in [Threads -> Thread]
  <2>1. Reader(p) \in Threads /\ "read" \in Labels /\ "proxy" \in Labels
    BY ThreadIds DEF Labels
  <2>2. [Ended EXCEPT !.pc = "proxy", !.gen = thr[Reader(p)].gen, !.listener = b]
          \in Thread
    BY <2>1, ThreadUpdates, ThreadFields, EmptyRecords
  <2> QED BY <1>0, <2>1, <2>2, Moves DEF GotoAfterChain
<1>4. CASE ReadChain(p)
  BY <1>0, <1>4, ThreadIds, Moves DEF ReadChain, Labels
<1>5. CASE ChainStarted(p)
  BY <1>0, <1>5 DEF ChainStarted
<1>6. CASE ReadProxy(p)
  BY <1>6, ThreadIds, Moves
     DEF ReadProxy, Labels
<1>7. CASE ReadEof(p)
  BY <1>7, ThreadIds, Moves
     DEF ReadEof
<1> QED BY <1>1, <1>2, <1>3, <1>4, <1>5, <1>6, <1>7

\* an exit monitor,
LEMMA MonitorMoves ==
  ASSUME DataOK, NEW p \in Procs, MonitorCheck(p) \/ MonitorPoll(p)
  PROVE  thr' \in [Threads -> Thread]
<1>1. CASE MonitorCheck(p)
  BY <1>1, ThreadIds, Moves
     DEF MonitorCheck, Labels
<1>2. CASE MonitorPoll(p)
  BY <1>2, ThreadIds, Moves
     DEF MonitorPoll, Labels
<1> QED BY <1>1, <1>2

\* handle_exit,
LEMMA ExitMoves ==
  ASSUME DataOK, NEW t \in Threads, HandleExit(t)
  PROVE  thr' \in [Threads -> Thread]
<1>1. CASE ExitReason(t)
  BY <1>1, Moves
     DEF ExitReason, Labels
<1>2. CASE ExitTerminal(t)
  BY <1>2, Moves, ThreadUpdates, ThreadFields, SessionFields
     DEF ExitTerminal, Labels
<1>3. CASE ExitHolding(t)
  BY <1>3, Moves, ThreadUpdates, ThreadFields, SessionFields
     DEF ExitHolding, Labels
<1>4. CASE Decide(t)
  BY <1>4, Moves, ThreadUpdates, ThreadFields, SessionFields
     DEF Decide, decide_exit, Labels
<1>5. CASE RetryClear(t)
  BY <1>5, Moves
     DEF RetryClear, Labels
<1>6. CASE RetryAnnounce(t)
  BY <1>6, Moves
     DEF RetryAnnounce, Show, Labels
<1>7. CASE Hold(t)
  BY <1>7, Moves
     DEF Hold, Show, Labels
<1>8. CASE GiveUp(t)
  BY <1>8, Moves
     DEF GiveUp, Show, Labels
<1>9. CASE GiveUpProxy(t)
  BY <1>9, Moves
     DEF GiveUpProxy
<1>10. CASE WaitOver(t)
  BY <1>10, Moves
     DEF WaitOver, Labels
<1> QED
  BY <1>1, <1>2, <1>3, <1>4, <1>5, <1>6, <1>7, <1>8, <1>9, <1>10 DEF HandleExit

\* a disconnect,
LEMMA StopMoves ==
  ASSUME DataOK, StopBegin \/ StopStep
  PROVE  thr' \in [Threads -> Thread]
<1>1. CASE StopBegin
  BY <1>1, ThreadIds, Moves
     DEF StopBegin, Labels
<1>2. CASE StopStep
  BY <1>2, ThreadIds, Moves
     DEF StopStep, StopBump, StopSession, StopClear, StopKill, StopIdle, Labels
<1> QED BY <1>1, <1>2

\* set_system_proxy,
LEMMA ToggleMoves ==
  ASSUME DataOK, ToggleBegin \/ ToggleStep
  PROVE  thr' \in [Threads -> Thread]
<1>1. CASE ToggleBegin
  BY <1>1, ThreadIds, Moves
     DEF ToggleBegin, Labels
<1>2. CASE ToggleDisable
  BY <1>2, ThreadIds, Moves
     DEF ToggleDisable
<1>3. CASE ToggleEnable
  BY <1>3, ThreadIds, Moves, ThreadUpdates, ThreadFields
     DEF ToggleEnable, Labels
<1>4. CASE ToggleApply
  BY <1>4, ThreadIds, Moves
     DEF ToggleApply
<1> QED BY <1>1, <1>2, <1>3, <1>4 DEF ToggleStep

\* a route watch and its rescan.
LEMMA WatchMoves ==
  ASSUME DataOK, NEW p \in Procs,
         WatchEnds(p) \/ WatchBadRoute(p) \/ RescanReset(p) \/ RescanBump(p)
         \/ RescanQuell(p) \/ RescanUnproxy(p) \/ RescanClaim(p) \/ RescanShow(p)
  PROVE  thr' \in [Threads -> Thread]
<1>1. CASE WatchEnds(p) \/ WatchBadRoute(p)
  BY <1>1, ThreadIds, Moves
     DEF WatchEnds, WatchBadRoute, Labels
<1>2. CASE RescanReset(p)
  BY <1>2, ThreadIds, Moves, ThreadUpdates, ThreadFields, SessionFields
     DEF RescanReset, Labels
<1>3. CASE RescanBump(p)
  <2>1. generation + 1 \in Nat /\ "quell" \in Labels
    BY DEF DataOK, Labels
  <2> QED BY <1>3, <2>1, ThreadIds, Moves, ThreadUpdates, ThreadFields DEF RescanBump
<1>4. CASE RescanQuell(p) \/ RescanUnproxy(p)
  BY <1>4, ThreadIds, Moves
     DEF RescanQuell, RescanUnproxy, Labels
<1>5. CASE RescanClaim(p) \/ RescanShow(p)
  BY <1>5, ThreadIds, Moves
     DEF RescanClaim, RescanShow, Labels
<1> QED BY <1>1, <1>2, <1>3, <1>4, <1>5

\* Every update of the session gives a session.
LEMMA SessionUpdates ==
  ASSUME NEW s \in Session
  PROVE  /\ \A n \in 0 .. MaxAttempts : [s EXCEPT !.attempt = n] \in Session
         /\ \A b \in BOOLEAN : [s EXCEPT !.profile.system_proxy = b] \in Session
         /\ [s EXCEPT !.attempt = 0] \in Session
         /\ \A g \in Nat, f \in Profile : NewSession(g, f) \in Session
BY BudgetAssumption DEF Session, Profile, NewSession

\* The two ways the system proxy changes keep its type and the snapshot's.
LEMMA ProxyData ==
  ASSUME DataOK
  PROVE  /\ ClearSystemProxy => snapshot' \in CoreSnapshot
                                 /\ route' \in {"none", "tunnel", "chain"}
         /\ \A r \in {"tunnel", "chain"} : ApplyProxyRoute(r) => route' \in {"none", "tunnel", "chain"}
BY DEF DataOK, CoreSnapshot, ClearSystemProxy, ApplyProxyRoute

\* The same steps leave all the other data well typed: a connect,
LEMMA StartData ==
  ASSUME DataOK, StartCheck \/ StartBump \/ StartClaim \/ StartUnclaim
  PROVE  DataOK'
<1>0. thr' \in [Threads -> Thread]
  BY StartMoves
<1>1. CASE StartCheck
  <2>1. events' = events + 1 /\ events < MaxEvents
    BY <1>1 DEF StartCheck
  <2>2. UNCHANGED <<generation, session, child, proc, snapshot, route>>
    BY <1>1 DEF StartCheck, machine
  <2>3. events' \in 0 .. MaxEvents
    BY <2>1, BudgetAssumption DEF DataOK
  <2> QED BY <1>0, <2>2, <2>3 DEF DataOK
<1>2. CASE StartBump
  BY <1>0, <1>2
     DEF StartBump, DataOK, machine
<1>3. CASE StartClaim
  BY <1>0, <1>3, ThreadIds, ThreadFields, SessionUpdates
     DEF StartClaim, DataOK, machine
<1>4. CASE StartUnclaim
  BY <1>0, <1>4, EmptyRecords
     DEF StartUnclaim, DataOK, machine
<1> QED BY <1>1, <1>2, <1>3, <1>4

\* a launch,
LEMMA LaunchData ==
  ASSUME DataOK, NEW t \in Threads, Spawn(t) \/ ClaimSlot(t) \/ Publish(t)
  PROVE  DataOK'
<1>0. thr' \in [Threads -> Thread]
  BY LaunchMoves
<1>1. CASE Spawn(t)
  BY <1>0, <1>1
     DEF Spawn, DataOK, machine
<1>2. CASE ClaimSlot(t)
  BY <1>0, <1>2, ThreadFields
     DEF ClaimSlot, Killed, DataOK, machine
<1>3. CASE Publish(t)
  BY <1>0, <1>3, ThreadFields
     DEF Publish, CoreSnapshot, DataOK, machine
<1> QED BY <1>1, <1>2, <1>3

\* a log reader,
LEMMA ReaderData ==
  ASSUME DataOK, NEW p \in Procs,
         ReadLine(p) \/ Sweep(p) \/ ReadSession(p) \/ ReadChain(p)
         \/ ChainStarted(p) \/ ReadProxy(p) \/ ReadEof(p)
  PROVE  DataOK'
<1>0. thr' \in [Threads -> Thread]
  BY ReaderMoves
<1>1. CASE ReadLine(p)
  <2>1. snapshot' = snapshot \/ \E line \in Lines :
          snapshot' = apply_log_to_snapshot(line, p)
    BY <1>1 DEF ReadLine
  <2>2. ASSUME NEW line \in Lines PROVE apply_log_to_snapshot(line, p) \in CoreSnapshot
    <3>1. snapshot \in CoreSnapshot
      BY DEF DataOK
    <3> QED BY <3>1, EnvironmentAssumption DEF apply_log_to_snapshot, CoreSnapshot
  <2> QED BY <1>0, <1>1, <2>1, <2>2 DEF ReadLine, DataOK, machine
<1>2. CASE Sweep(p)
  BY <1>0, <1>2
     DEF Sweep, Killed, DataOK, machine
<1>3. CASE ReadSession(p)
  BY <1>0, <1>3, SessionUpdates
     DEF ReadSession, DataOK, machine
<1>4. CASE ReadChain(p)
  BY <1>0, <1>4
     DEF ReadChain, DataOK, machine
<1>5. CASE ChainStarted(p)
  BY <1>0, <1>5
     DEF ChainStarted, DataOK, machine
<1>6. CASE ReadProxy(p)
  BY <1>0, <1>6, ProxyData
     DEF ReadProxy, DataOK, machine
<1>7. CASE ReadEof(p)
  BY <1>0, <1>7
     DEF ReadEof, DataOK, machine
<1> QED BY <1>1, <1>2, <1>3, <1>4, <1>5, <1>6, <1>7

\* an exit monitor,
LEMMA MonitorData ==
  ASSUME DataOK, NEW p \in Procs, MonitorCheck(p) \/ MonitorPoll(p)
  PROVE  DataOK'
<1>0. thr' \in [Threads -> Thread]
  BY MonitorMoves
<1>1. CASE MonitorCheck(p)
  BY <1>0, <1>1
     DEF MonitorCheck, DataOK, machine
<1>2. CASE MonitorPoll(p)
  BY <1>0, <1>2
     DEF MonitorPoll, DataOK, machine
<1> QED BY <1>1, <1>2

\* handle_exit, which also keeps the retry count within MAX_ATTEMPTS,
LEMMA ExitData ==
  ASSUME DataOK, NEW t \in Threads, HandleExit(t)
  PROVE  DataOK'
<1>0. thr' \in [Threads -> Thread]
  BY ExitMoves
<1>1. CASE ExitReason(t)
  BY <1>0, <1>1
     DEF ExitReason, DataOK, machine
<1>2. CASE ExitTerminal(t)
  BY <1>0, <1>2, EmptyRecords
     DEF ExitTerminal, DataOK, machine
<1>3. CASE ExitHolding(t)
  BY <1>0, <1>3
     DEF ExitHolding, DataOK, machine
<1>4. CASE Decide(t)
  BY <1>0, <1>4, SessionUpdates, BudgetAssumption, EmptyRecords
     DEF Decide, decide_exit, Session, DataOK, machine
<1>5. CASE RetryClear(t)
  BY <1>0, <1>5, ProxyData
     DEF RetryClear, DataOK, machine
<1>6. CASE RetryAnnounce(t)
  BY <1>0, <1>6
     DEF RetryAnnounce, CoreSnapshot, Show, DataOK, machine
<1>7. CASE Hold(t)
  BY <1>0, <1>7
     DEF Hold, CoreSnapshot, Show, DataOK, machine
<1>8. CASE GiveUp(t)
  <2>1. snapshot' = snapshot \/ \E terminal \in BOOLEAN :
          snapshot' = [snapshot EXCEPT !.state = "error", !.pid = NoProc,
                                       !.ech = terminal, !.from = NoProc]
    BY <1>8 DEF GiveUp, Show
  <2>2. snapshot' \in CoreSnapshot
    BY <2>1 DEF DataOK, CoreSnapshot
  <2> QED BY <1>0, <1>8, <2>2 DEF GiveUp, Show, DataOK, machine
<1>9. CASE GiveUpProxy(t)
  BY <1>0, <1>9, ProxyData
     DEF GiveUpProxy, DataOK, machine
<1>10. CASE WaitOver(t)
  BY <1>0, <1>10
     DEF WaitOver, DataOK, machine
<1> QED BY <1>1, <1>2, <1>3, <1>4, <1>5, <1>6, <1>7, <1>8, <1>9, <1>10
     DEF HandleExit

\* a disconnect,
LEMMA StopData ==
  ASSUME DataOK, StopBegin \/ StopStep
  PROVE  DataOK'
<1>0. thr' \in [Threads -> Thread]
  BY StopMoves
<1>1. CASE StopBegin
  BY <1>0, <1>1, BudgetAssumption
     DEF StopBegin, DataOK, machine
<1>2. CASE StopBump
  BY <1>0, <1>2
     DEF StopBump, DataOK, machine
<1>3. CASE StopSession
  BY <1>0, <1>3, EmptyRecords
     DEF StopSession, DataOK, machine
<1>4. CASE StopClear
  BY <1>0, <1>4, ProxyData
     DEF StopClear, DataOK, machine
<1>5. CASE StopKill
  BY <1>0, <1>5
     DEF StopKill, Killed, DataOK, machine
<1>6. CASE StopIdle
  BY <1>0, <1>6
     DEF StopIdle, CoreSnapshot, DataOK, machine
<1> QED BY <1>1, <1>2, <1>3, <1>4, <1>5, <1>6 DEF StopStep

\* set_system_proxy,
LEMMA ToggleData ==
  ASSUME DataOK, ToggleBegin \/ ToggleStep
  PROVE  DataOK'
<1>0. thr' \in [Threads -> Thread]
  BY ToggleMoves
<1>1. CASE ToggleBegin
  <2>1. session' \in Session
    BY <1>1, SessionUpdates DEF ToggleBegin, DataOK
  <2>2. events' \in 0 .. MaxEvents
    BY <1>1, BudgetAssumption DEF ToggleBegin, DataOK
  <2> QED BY <1>0, <1>1, <2>1, <2>2 DEF ToggleBegin, DataOK, machine
<1>2. CASE ToggleDisable
  BY <1>0, <1>2, ProxyData
     DEF ToggleDisable, DataOK, machine
<1>3. CASE ToggleEnable
  BY <1>0, <1>3
     DEF ToggleEnable, DataOK, machine
<1>4. CASE ToggleApply
  BY <1>0, <1>4, ProxyData
     DEF ToggleApply, DataOK, machine
<1> QED BY <1>1, <1>2, <1>3, <1>4 DEF ToggleStep

\* a route watch and its rescan.
LEMMA WatchData ==
  ASSUME DataOK, NEW p \in Procs,
         WatchEnds(p) \/ WatchBadRoute(p) \/ RescanReset(p) \/ RescanBump(p)
         \/ RescanQuell(p) \/ RescanUnproxy(p) \/ RescanClaim(p) \/ RescanShow(p)
  PROVE  DataOK'
<1>0. thr' \in [Threads -> Thread]
  BY WatchMoves
<1>1. CASE WatchEnds(p) \/ WatchBadRoute(p)
  BY <1>0, <1>1, BudgetAssumption
     DEF WatchEnds, WatchBadRoute, DataOK, machine
<1>2. CASE RescanReset(p)
  BY <1>0, <1>2, SessionUpdates
     DEF RescanReset, DataOK, machine
<1>3. CASE RescanBump(p)
  BY <1>0, <1>3
     DEF RescanBump, DataOK, machine
<1>4. CASE RescanQuell(p)
  BY <1>0, <1>4
     DEF RescanQuell, Killed, DataOK, machine
<1>5. CASE RescanUnproxy(p)
  BY <1>0, <1>5, ProxyData
     DEF RescanUnproxy, DataOK, machine
<1>6. CASE RescanClaim(p)
  BY <1>0, <1>6, ThreadIds, ThreadFields, SessionUpdates
     DEF RescanClaim, DataOK, machine
<1>7. CASE RescanShow(p)
  BY <1>0, <1>7
     DEF RescanShow, CoreSnapshot, DataOK, machine
<1> QED BY <1>1, <1>2, <1>3, <1>4, <1>5, <1>6, <1>7

\* Each disjunct of Next as one of the groups the lemmas are about.
LEMMA NextCases ==
  ASSUME Next
  PROVE  \/ StartCheck \/ StartBump \/ StartClaim \/ StartUnclaim
         \/ StopBegin \/ StopStep
         \/ ToggleBegin \/ ToggleStep
         \/ \E t \in Threads : \/ Spawn(t) \/ ClaimSlot(t) \/ Publish(t)
                              \/ HandleExit(t)
         \/ \E p \in Procs :
              \/ EngineExits(p)
              \/ MonitorCheck(p) \/ MonitorPoll(p)
              \/ ReadLine(p) \/ Sweep(p) \/ ReadSession(p) \/ ReadChain(p)
              \/ ChainStarted(p) \/ ReadProxy(p) \/ ReadEof(p)
              \/ WatchEnds(p) \/ WatchBadRoute(p) \/ RescanReset(p)
              \/ RescanBump(p) \/ RescanQuell(p) \/ RescanUnproxy(p)
              \/ RescanClaim(p) \/ RescanShow(p)
BY ThreadIds DEF Next, StartStep, Launch, MonitorStep, ReaderStep, RecordLog,
   WatchStep, Rescan

\* So every step keeps the data well typed,
LEMMA DataStep == DataOK /\ [Next]_vars => DataOK'
<1> SUFFICES ASSUME DataOK, [Next]_vars PROVE DataOK'
  OBVIOUS
<1>1. CASE UNCHANGED vars
  BY <1>1 DEF vars, DataOK
<1>2. ASSUME NEW p \in Procs, EngineExits(p) PROVE DataOK'
  BY <1>2 DEF EngineExits, DataOK, machine
<1> QED
  BY <1>1, <1>2, NextCases, StartData, StopData, ToggleData, LaunchData,
     ExitData, MonitorData, ReaderData, WatchData

\* and the flags too.
LEMMA FlagsStep == FlagsOK /\ [Next]_vars => FlagsOK'
<1> SUFFICES ASSUME FlagsOK, [Next]_vars PROVE FlagsOK'
  OBVIOUS
<1> USE DEF FlagsOK, machine
<1>1. CASE UNCHANGED vars
  BY <1>1 DEF vars
<1>2. CASE StartCheck \/ StartBump \/ StartClaim \/ StartUnclaim
  BY <1>2 DEF StartCheck, StartBump, StartClaim, StartUnclaim
<1>3. CASE StopBegin \/ StopStep
  BY <1>3 DEF StopBegin, StopStep, StopBump, StopSession, StopClear, StopKill, StopIdle
<1>4. CASE ToggleBegin \/ ToggleStep
  BY <1>4 DEF ToggleBegin, ToggleStep, ToggleDisable, ToggleEnable, ToggleApply
<1>5. ASSUME NEW t \in Threads, Spawn(t) \/ ClaimSlot(t) \/ Publish(t)
      PROVE  FlagsOK'
  BY <1>5 DEF Spawn, ClaimSlot, Publish
<1>6. ASSUME NEW t \in Threads, HandleExit(t) PROVE FlagsOK'
  BY <1>6 DEF HandleExit, ExitReason, ExitTerminal, ExitHolding, Decide,
     RetryClear, RetryAnnounce, Hold, GiveUp, GiveUpProxy, WaitOver, Show
<1>7. ASSUME NEW p \in Procs,
             EngineExits(p) \/ MonitorCheck(p) \/ MonitorPoll(p)
      PROVE  FlagsOK'
  BY <1>7 DEF EngineExits, MonitorCheck, MonitorPoll
<1>8. ASSUME NEW p \in Procs,
             \/ ReadLine(p) \/ Sweep(p) \/ ReadSession(p) \/ ReadChain(p)
             \/ ChainStarted(p) \/ ReadProxy(p) \/ ReadEof(p)
      PROVE  FlagsOK'
  BY <1>8 DEF ReadLine, Sweep, ReadSession, ReadChain, ChainStarted, ReadProxy,
     ReadEof, OpenDoor
<1>9. ASSUME NEW p \in Procs,
             \/ WatchEnds(p) \/ WatchBadRoute(p) \/ RescanReset(p)
             \/ RescanBump(p) \/ RescanQuell(p) \/ RescanUnproxy(p)
             \/ RescanClaim(p) \/ RescanShow(p)
      PROVE  FlagsOK'
  BY <1>9 DEF WatchEnds, WatchBadRoute, RescanReset, RescanBump, RescanQuell,
     RescanUnproxy, RescanClaim, RescanShow
<1> QED
  BY <1>1, <1>2, <1>3, <1>4, <1>5, <1>6, <1>7, <1>8, <1>9, NextCases

\* Every variable of the supervisor keeps its type, whatever the constants.
THEOREM TypeCorrect == Spec => []TypeOK
<1>1. TypeOK /\ [Next]_vars => TypeOK'
  BY DataStep, FlagsStep DEF TypeOK
<1> QED BY <1>1, TypeInit, PTL DEF Spec

(***************************************************************************)
(* Supervision is inductive.  The parts of it that speak of whole threads  *)
(* are preserved by any step that does not let a thread take up a duty.    *)
(***************************************************************************)
\* What each kind of thread answers for, spelled out.
LEMMA DutyFacts ==
  /\ Duties(Start) = {"claim", "spawn", "slot", "publish", "unclaim"}
  /\ Duties(Stop) = {} /\ Duties(Toggle) = {}
  /\ \A p \in Procs :
       /\ Duties(Monitor(p)) =
            Labels \ {"done", "giveup", "giveup_ech", "release_proxy"}
       /\ Duties(Reader(p)) = {}
       /\ Duties(Watch(p)) =
            Labels \ {"done", "watch", "reset", "renew", "giveup", "giveup_ech",
                      "release_proxy"}
  /\ \A t \in Threads : /\ Duties(t) \subseteq Labels
                        /\ Duties(t) \intersect {"done", "giveup", "giveup_ech",
                                                "release_proxy"} = {}
<1>1. Duties(Start) = {"claim", "spawn", "slot", "publish", "unclaim"}
  BY ThreadIds DEF Duties
<1>2. Duties(Stop) = {} /\ Duties(Toggle) = {}
  BY ThreadIds DEF Duties
<1>3. ASSUME NEW p \in Procs
      PROVE  /\ Duties(Monitor(p)) =
                   Labels \ {"done", "giveup", "giveup_ech", "release_proxy"}
             /\ Duties(Reader(p)) = {}
             /\ Duties(Watch(p)) =
                  Labels \ {"done", "watch", "reset", "renew", "giveup",
                            "giveup_ech", "release_proxy"}
  BY ThreadIds DEF Duties
<1> QED BY <1>1, <1>2, <1>3, ThreadIds DEF Labels

Claims ==
  /\ GenerationIssued /\ SupervisedIsClaimed /\ SlotAwaitsLaunch
  /\ OneSupervisor

\* A thread that moves on keeps the claims if it ends its duty, or stays in it
\* and, once it has handed its engine over, only takes it up again with the slot empty.
LEMMA Calm ==
  ASSUME DataOK, Claims, NEW t \in Threads, NEW r \in Thread, Become(t, r),
         generation' = generation, wanted' = wanted,
         session'.generation = session.generation,
         child' \in {child, NoProc},
         \/ r.pc \notin Duties(t) /\ r.gen <= generation
         \/ /\ r.gen = thr[t].gen /\ thr[t].pc \in Duties(t)
            /\ thr[t].pc = "claim" => r.pc = "claim"
            /\ r.pc \notin {"publish", "watch", "poll"} =>
                 \/ thr[t].pc \notin {"publish", "watch", "poll"}
                 \/ child' = NoProc
  PROVE  Claims'
<1>1. thr'[t] = r /\ \A u \in Threads \ {t} : thr'[u] = thr[u]
  BY DEF DataOK, Become
<1>2. \A u \in Threads \ {t} : Supervising(u)' <=> Supervising(u)
  BY <1>1 DEF Supervising, Answering, is_current
<1>3. Supervising(t)' =>
        /\ Supervising(t)
        /\ r.gen = thr[t].gen /\ thr[t].pc \in Duties(t)
        /\ thr[t].pc = "claim" => r.pc = "claim"
        /\ r.pc \notin {"publish", "watch", "poll"} =>
             \/ thr[t].pc \notin {"publish", "watch", "poll"}
             \/ child' = NoProc
  BY <1>1 DEF Supervising, Answering, is_current
<1>4. OneSupervisor'
  BY <1>2, <1>3 DEF Claims, OneSupervisor
<1>5. SupervisedIsClaimed'
  BY <1>1, <1>2, <1>3 DEF Claims, SupervisedIsClaimed
<1>6. SlotAwaitsLaunch'
  BY <1>1, <1>2, <1>3 DEF Claims, SlotAwaitsLaunch
<1>7. GenerationIssued'
  BY <1>1, ThreadFields DEF Claims, GenerationIssued, Answering
<1> QED BY <1>4, <1>5, <1>6, <1>7 DEF Claims

\* What a step may do to the supervisor while a thread moves on.
Undisturbed ==
  /\ generation' = generation /\ wanted' = wanted
  /\ session'.generation = session.generation
  /\ child' \in {child, NoProc}

\* A thread that goes on with the generation it has.
LEMMA CalmGoto ==
  ASSUME DataOK, Claims, Undisturbed, NEW t \in Threads, NEW l \in Labels,
         Goto(t, l) \/ GotoAfresh(t, l),
         \/ l \notin Duties(t)
         \/ /\ thr[t].pc \in Duties(t)
            /\ thr[t].pc = "claim" => l = "claim"
            /\ l \notin {"publish", "watch", "poll"} =>
                 \/ thr[t].pc \notin {"publish", "watch", "poll"}
                 \/ child' = NoProc
  PROVE  Claims'
<1>1. PICK r \in Thread : Become(t, r) /\ r.pc = l /\ r.gen = thr[t].gen
  <2> DEFINE kept == [thr[t] EXCEPT !.pc = l]
             afresh == [Ended EXCEPT !.pc = l, !.gen = thr[t].gen]
  <2>1. kept \in Thread /\ kept.pc = l /\ kept.gen = thr[t].gen
    <3>1. kept \in Thread
      BY ThreadFields, ThreadUpdates
    <3>2. kept.pc = l /\ kept.gen = thr[t].gen
      BY ThreadFields DEF Thread
    <3> QED BY <3>1, <3>2
  <2>2. afresh \in Thread /\ afresh.pc = l /\ afresh.gen = thr[t].gen
    <3>1. afresh \in Thread
      BY ThreadFields, ThreadUpdates, EmptyRecords
    <3>2. afresh.pc = l /\ afresh.gen = thr[t].gen
      BY DEF Ended
    <3> QED BY <3>1, <3>2
  <2>3. Become(t, kept) \/ Become(t, afresh)
    BY DEF Goto, GotoAfresh
  <2> HIDE DEF kept, afresh
  <2> QED BY <2>1, <2>2, <2>3
<1>2. r.gen <= generation
  BY <1>1 DEF Claims, GenerationIssued
<1> QED BY <1>1, <1>2, Calm DEF Undisturbed

\* A thread that ends answers for nothing.
LEMMA CalmEnd ==
  ASSUME DataOK, Claims, Undisturbed, NEW t \in Threads, End(t)
  PROVE  Claims'
<1>1. Become(t, Ended) /\ Ended \in Thread
  BY EmptyRecords DEF End
<1>2. Ended.pc \notin Duties(t) /\ Ended.gen <= generation
  BY DutyFacts DEF Ended, DataOK
<1> QED BY <1>1, <1>2, Calm DEF Undisturbed

\* The readers, the stopping thread and the toggle answer for no engine.
LEMMA CalmBystander ==
  ASSUME DataOK, Claims, Undisturbed, NEW t \in Threads, Duties(t) = {},
         NEW r \in Thread, Become(t, r), r.gen <= generation
  PROVE  Claims'
BY Calm DEF Undisturbed

\* A thread whose duty is over may take the session with it, as long as no
\* other thread's claim rests on that session.
LEMMA Resign ==
  ASSUME DataOK, Claims, NEW t \in Threads, NEW r \in Thread, Become(t, r),
         generation' = generation, wanted' = wanted, child' = child,
         r.pc \notin Duties(t), r.gen <= generation,
         \A u \in Threads \ {t} : Supervising(u) => thr[u].pc = "claim"
  PROVE  Claims'
<1>1. thr'[t] = r /\ \A u \in Threads \ {t} : thr'[u] = thr[u]
  BY DEF DataOK, Become
<1>2. \A u \in Threads : Supervising(u)' => u # t /\ Supervising(u)
  BY <1>1 DEF Supervising, Answering, is_current
<1>3. OneSupervisor'
  BY <1>2 DEF Claims, OneSupervisor
<1>4. SupervisedIsClaimed'
  BY <1>1, <1>2 DEF Claims, SupervisedIsClaimed
<1>5. SlotAwaitsLaunch'
  BY <1>1, <1>2 DEF Claims, SlotAwaitsLaunch
<1>6. GenerationIssued'
  BY <1>1, ThreadFields DEF Claims, GenerationIssued, Answering
<1> QED BY <1>3, <1>4, <1>5, <1>6 DEF Claims

\* After a bump nobody but its author can hold the new generation.
LEMMA Bump ==
  ASSUME DataOK, Claims, NEW t \in Threads, NEW r \in Thread, Become(t, r),
         generation' = generation + 1, child' = child,
         \/ r.pc \notin Duties(t) /\ r.gen <= generation
         \/ /\ r.pc = "claim" /\ r.gen = generation + 1
            /\ wanted' /\ child = NoProc
  PROVE  Claims'
<1>1. thr'[t] = r /\ \A u \in Threads \ {t} : thr'[u] = thr[u]
  BY DEF DataOK, Become
<1>2. \A u \in Threads \ {t} : thr'[u].gen # generation'
  BY <1>1, ThreadFields DEF Claims, GenerationIssued, DataOK
<1>3. \A u \in Threads : Supervising(u)' =>
        u = t /\ r.pc = "claim" /\ wanted' /\ child' = NoProc
  <2>1. ASSUME NEW u \in Threads, Supervising(u)' PROVE u = t
    BY <1>2, <2>1 DEF Supervising, is_current
  <2>2. Supervising(t)' => r.pc = "claim" /\ wanted' /\ child' = NoProc
    BY <1>1 DEF Supervising, is_current, Answering, DataOK
  <2> QED BY <2>1, <2>2
<1>4. OneSupervisor'
  BY <1>3 DEF OneSupervisor
<1>5. SupervisedIsClaimed'
  BY <1>1, <1>3 DEF SupervisedIsClaimed
<1>6. SlotAwaitsLaunch'
  BY <1>1, <1>3 DEF SlotAwaitsLaunch
<1>7. GenerationIssued'
  <2>1. generation \in Nat /\ \A u \in Threads :
          /\ thr[u].gen \in Nat /\ thr[u].gen <= generation
          /\ thr[u].pc \in Duties(u) => thr[u].gen > 0
    BY ThreadFields DEF Claims, GenerationIssued, Answering, DataOK
  <2>2. r.gen \in Nat
    BY DEF Thread
  <2> SUFFICES ASSUME NEW u \in Threads
               PROVE  /\ thr'[u].gen <= generation + 1
                      /\ thr'[u].pc \in Duties(u) => thr'[u].gen > 0
    BY DEF GenerationIssued, Answering
  <2>3. CASE u = t
    BY <1>1, <2>1, <2>2, <2>3
  <2>4. CASE u # t
    BY <1>1, <2>1, <2>4
  <2> QED BY <2>3, <2>4
<1> QED BY <1>4, <1>5, <1>6, <1>7 DEF Claims

\* The labels of a supervising thread are duties of the threads that reach them.
LEMMA OnDuty ==
  ASSUME DataOK, Roles, NEW t \in Threads,
         thr[t].pc \in {"spawn", "slot", "publish", "watch", "poll", "exit",
                       "terminal", "holding", "decide", "retry", "announce",
                       "hold", "wait"}
  PROVE  /\ thr[t].pc \in Duties(t)
         /\ t = Start \/ \E p \in Procs : t = Monitor(p)
<1>1. t = Start \/ \E p \in Procs : t = Monitor(p)
  <2>1. t # Stop /\ t # Toggle
    BY DEF Roles
  <2>2. \A p \in Procs : t # Reader(p) /\ t # Watch(p)
    BY DEF Roles
  <2> QED BY <2>1, <2>2, ThreadIds
<1>2. thr[t].pc \in Labels
  BY ThreadFields
<1>3. CASE t = Start
  BY <1>3, DutyFacts DEF Roles
<1>4. CASE \E p \in Procs : t = Monitor(p)
  BY <1>2, <1>4, DutyFacts
<1> QED BY <1>1, <1>3, <1>4

(***************************************************************************)
(* Each action preserves the claims.                                       *)
(***************************************************************************)
\* start_core: the check, the bump, the claim and the failed launch.
LEMMA ClaimsStart ==
  ASSUME TypeOK, Supervision,
         StartCheck \/ StartBump \/ StartClaim \/ StartUnclaim
  PROVE  Claims'
<1> USE DEF Supervision, TypeOK
<1>0. Claims /\ DataOK /\ Start \in Threads
  BY ThreadIds DEF Claims
<1>1. CASE StartCheck
  <2>1. PICK profile \in Profiles :
          Become(Start, [Ended EXCEPT !.pc = "bump", !.profile = profile])
    BY <1>1 DEF StartCheck
  <2> DEFINE r == [Ended EXCEPT !.pc = "bump", !.profile = profile]
  <2>2. r \in Thread
    BY ThreadUpdates, EmptyRecords, ProfilesAssumption DEF Labels
  <2>3. r.pc = "bump" /\ r.gen = 0
    BY DEF Ended
  <2>4. "bump" \notin Duties(Start)
    BY DutyFacts
  <2>5. r.gen <= generation
    BY <1>0, <2>3 DEF DataOK
  <2> HIDE DEF r
  <2>6. Undisturbed
    BY <1>1 DEF StartCheck, Undisturbed
  <2> QED BY <1>0, <2>1, <2>2, <2>3, <2>4, <2>5, <2>6, Calm DEF Undisturbed, r
<1>2. CASE StartBump
  <2> DEFINE r == [thr[Start] EXCEPT !.pc = "claim", !.gen = generation + 1]
  <2>1. r \in Thread
    <3>1. generation + 1 \in Nat /\ "claim" \in Labels
      BY <1>0 DEF DataOK, Labels
    <3> QED BY <1>0, <3>1, ThreadFields, ThreadUpdates
  <2>2. r.pc = "claim" /\ r.gen = generation + 1
    BY <1>0, ThreadFields DEF Thread
  <2>3. child = NoProc
    BY <1>2 DEF StartBump, StartIsAlone
  <2>4. Become(Start, r)
    BY <1>2 DEF StartBump
  <2> HIDE DEF r
  <2>5. generation' = generation + 1 /\ child' = child /\ wanted'
    BY <1>2 DEF StartBump
  <2> QED BY <1>0, <2>1, <2>2, <2>3, <2>4, <2>5, Bump
<1>4. CASE StartUnclaim
  <2>1. Become(Start, Ended) /\ Ended \in Thread /\ Ended.pc \notin Duties(Start)
    BY <1>0, <1>4, EmptyRecords, DutyFacts DEF StartUnclaim, End, Ended
  <2>2. Ended.gen <= generation
    BY <1>0 DEF Ended, DataOK
  <2>3. ASSUME NEW u \in Threads \ {Start}, Supervising(u) PROVE FALSE
    <3>1. CASE is_current(Start)
      <4>1. Supervising(Start)
        BY <1>4, <3>1, DutyFacts DEF StartUnclaim, Supervising, Answering
      <4> QED BY <1>0, <2>3, <4>1 DEF OneSupervisor
    <3>2. CASE ~is_current(Start)
      <4>1. ~wanted
        BY <1>4, <3>2 DEF StartUnclaim, StartIsAlone
      <4> QED BY <1>0, <2>3, <4>1 DEF SupervisedIsClaimed
    <3> QED BY <3>1, <3>2
  <2>4. generation' = generation /\ wanted' = wanted /\ child' = child
    BY <1>4 DEF StartUnclaim
  <2> QED BY <1>0, <2>1, <2>2, <2>3, <2>4, Resign
<1>3. CASE StartClaim
  <2> DEFINE r == [thr[Start] EXCEPT !.pc = "spawn"]
  <2>1. thr[Start].gen = generation /\ Supervising(Start)
    BY <1>3, DutyFacts
       DEF StartClaim, StartIsAlone, is_current, Supervising, Answering
  <2>2. thr'[Start] = r /\ \A u \in Threads \ {Start} : thr'[u] = thr[u]
    BY <1>0, <1>3 DEF StartClaim, Goto, Become, DataOK
  <2>3. r.pc = "spawn" /\ r.gen = generation
    BY <1>0, <2>1, ThreadFields DEF Thread
  <2> HIDE DEF r
  <2>4. \A u \in Threads : Supervising(u)' <=> u = Start
    <3>1. \A u \in Threads \ {Start} : Supervising(u)' <=> Supervising(u)
      BY <1>3, <2>2 DEF StartClaim, Supervising, Answering, is_current
    <3>2. Supervising(Start)'
      BY <1>3, <2>2, <2>3, DutyFacts
         DEF StartClaim, Supervising, Answering, is_current
    <3> QED BY <1>0, <2>1, <3>1, <3>2 DEF OneSupervisor
  <2>5. wanted' /\ child' = NoProc /\ session'.generation = generation'
    BY <1>0, <1>3, <2>1
       DEF StartClaim, NewSession, SupervisedIsClaimed, SlotAwaitsLaunch
  <2>6. GenerationIssued'
    BY <1>0, <1>3, <2>1, <2>2, <2>3, DutyFacts
       DEF StartClaim, GenerationIssued, Answering
  <2> QED
    BY <2>4, <2>5, <2>6
       DEF Claims, OneSupervisor, SupervisedIsClaimed, SlotAwaitsLaunch
<1> QED BY <1>1, <1>2, <1>3, <1>4

\* launch: a process is spawned, put into the slot or killed, and shown.
LEMMA ClaimsLaunch ==
  ASSUME TypeOK, Supervision, NEW t \in Threads,
         Spawn(t) \/ ClaimSlot(t) \/ Publish(t)
  PROVE  Claims'
<1>0. Claims /\ DataOK /\ Roles
  BY DEF Claims, Supervision, TypeOK
<1>1. CASE Spawn(t)
  <2>0. Undisturbed /\ thr[t].pc = "spawn" /\ "spawn" \in Duties(t)
    BY <1>0, <1>1, OnDuty DEF Spawn, Undisturbed
  <2>1. CASE \E p \in Procs : Become(t, [thr[t] EXCEPT !.pc = "slot", !.proc = p])
    <3>1. PICK p \in Procs : Become(t, [thr[t] EXCEPT !.pc = "slot", !.proc = p])
      BY <2>1
    <3> DEFINE r == [thr[t] EXCEPT !.pc = "slot", !.proc = p]
    <3>2. r \in Thread
      BY <1>0, ThreadFields, ThreadUpdates DEF Labels
    <3>3. r.pc = "slot" /\ r.gen = thr[t].gen
      BY <1>0, ThreadFields DEF Thread
    <3> HIDE DEF r
    <3>4. Become(t, r)
      BY <3>1 DEF r
    <3> QED BY <1>0, <2>0, <3>2, <3>3, <3>4, Calm DEF Undisturbed
  <2>2. CASE Goto(t, IF t = Start THEN "unclaim" ELSE "exit")
    <3>1. (IF t = Start THEN "unclaim" ELSE "exit") \in Labels
      BY DEF Labels
    <3>2. (IF t = Start THEN "unclaim" ELSE "exit") \notin {"publish", "watch", "poll"}
      OBVIOUS
    <3> QED BY <1>0, <2>0, <2>2, <3>1, <3>2, CalmGoto
  <2> QED BY <1>1, <2>1, <2>2 DEF Spawn
<1>2. CASE ClaimSlot(t)
  <2>0. thr[t].pc = "slot" /\ "slot" \in Duties(t)
    BY <1>0, <1>2, OnDuty DEF ClaimSlot
  <2>1. CASE ~is_current(t)
    BY <1>0, <1>2, <2>1, CalmEnd DEF ClaimSlot, Undisturbed
  <2>2. CASE is_current(t)
    <3> DEFINE r == [thr[t] EXCEPT !.pc = "publish"]
    <3>1. Supervising(t)
      BY <2>0, <2>2 DEF Supervising, Answering
    <3>2. thr'[t] = r /\ \A u \in Threads \ {t} : thr'[u] = thr[u]
      BY <1>0, <1>2, <2>2 DEF ClaimSlot, Goto, Become, DataOK
    <3>3. r.pc = "publish" /\ r.gen = generation
      BY <1>0, <2>2, ThreadFields DEF Thread, is_current
    <3> HIDE DEF r
    <3>4. UNCHANGED <<generation, session, wanted>>
      BY <1>2 DEF ClaimSlot
    <3>5. \A u \in Threads : Supervising(u)' => u = t
      <4>1. ASSUME NEW u \in Threads \ {t}, Supervising(u)' PROVE Supervising(u)
        BY <3>2, <3>4, <4>1 DEF Supervising, Answering, is_current
      <4> QED BY <1>0, <3>1, <4>1 DEF Claims, OneSupervisor
    <3>6. OneSupervisor' /\ SlotAwaitsLaunch'
      BY <3>2, <3>3, <3>5 DEF OneSupervisor, SlotAwaitsLaunch
    <3>7. SupervisedIsClaimed'
      BY <1>0, <2>0, <3>1, <3>4, <3>5 DEF Claims, SupervisedIsClaimed
    <3>8. GenerationIssued'
      BY <1>0, <2>0, <2>2, <3>2, <3>3, <3>4
         DEF Claims, GenerationIssued, Answering, is_current
    <3> QED BY <3>6, <3>7, <3>8 DEF Claims
  <2> QED BY <2>1, <2>2
<1>3. CASE Publish(t)
  <2> DEFINE p == thr[t].proc
             minder(label) == [Ended EXCEPT !.pc = label, !.gen = thr[t].gen]
  <2>0. thr[t].pc = "publish" /\ "publish" \in Duties(t)
    BY <1>0, <1>3, OnDuty DEF Publish
  <2>1. UNCHANGED <<generation, session, child, wanted>>
    BY <1>3 DEF Publish
  <2>2. \A u \in Threads :
          \/ thr'[u] = thr[u] /\ u # t
          \/ thr'[u] = Ended
          \/ u = Monitor(p) /\ thr'[u] = minder("watch")
          \/ u = Reader(p) /\ thr'[u] = minder("read")
          \/ u = Watch(p) /\ thr'[u] = minder("watch")
    BY <1>0, <1>3 DEF Publish, DataOK
  <2>3. \A u \in Threads : u = Reader(p) \/ u = Watch(p) => p \in Procs
    BY <1>0, ThreadIds, ThreadFields DEF Threads, Reader, Watch
  <2>4. "read" \notin Duties(Reader(p)) \/ p \notin Procs
    BY DutyFacts
  <2>5. "watch" \notin Duties(Watch(p)) \/ p \notin Procs
    BY DutyFacts
  <2>6. \A l : minder(l).pc = l /\ minder(l).gen = thr[t].gen
    BY DEF Ended
  <2>7. Ended.pc = "done" /\ Ended.gen = 0
    BY DEF Ended
  <2> HIDE DEF p, minder
  <2>8. \A u \in Threads : Supervising(u)' =>
          \/ u # t /\ thr'[u] = thr[u] /\ Supervising(u)
          \/ u = Monitor(p) /\ thr'[u].pc = "watch" /\ Supervising(t)
    <3> SUFFICES ASSUME NEW u \in Threads, Supervising(u)'
                 PROVE  \/ u # t /\ thr'[u] = thr[u] /\ Supervising(u)
                        \/ /\ u = Monitor(p) /\ thr'[u].pc = "watch"
                           /\ Supervising(t)
      OBVIOUS
    <3>1. thr'[u].pc \in Duties(u) /\ thr'[u].gen = generation
      BY <2>1 DEF Supervising, Answering, is_current
    <3>2. CASE thr'[u] = thr[u] /\ u # t
      BY <2>1, <3>1, <3>2 DEF Supervising, Answering, is_current
    <3>3. CASE thr'[u] = Ended
      BY <2>7, <3>1, <3>3, DutyFacts
    <3>4. CASE u = Monitor(p) /\ thr'[u] = minder("watch")
      BY <2>0, <2>6, <3>1, <3>4 DEF Supervising, Answering, is_current
    <3>5. CASE u = Reader(p) /\ thr'[u] = minder("read")
      BY <2>3, <2>4, <2>6, <3>1, <3>5
    <3>6. CASE u = Watch(p) /\ thr'[u] = minder("watch")
      BY <2>3, <2>5, <2>6, <3>1, <3>6
    <3> QED BY <2>2, <3>2, <3>3, <3>4, <3>5, <3>6
  <2>9. OneSupervisor'
    BY <1>0, <2>8 DEF Claims, OneSupervisor
  <2>10. SlotAwaitsLaunch'
    BY <1>0, <2>1, <2>8 DEF Claims, SlotAwaitsLaunch
  <2>11. SupervisedIsClaimed'
    BY <1>0, <2>0, <2>1, <2>8 DEF Claims, SupervisedIsClaimed
  <2>12. GenerationIssued'
    <3>1. 0 <= generation /\ thr[t].gen <= generation /\ thr[t].gen > 0
      BY <1>0, <2>0 DEF Claims, GenerationIssued, Answering, DataOK
    <3> SUFFICES ASSUME NEW u \in Threads
                 PROVE  /\ thr'[u].gen <= generation
                        /\ thr'[u].pc \in Duties(u) => thr'[u].gen > 0
      BY <2>1 DEF GenerationIssued, Answering
    <3>2. CASE thr'[u] = thr[u]
      BY <1>0, <3>2 DEF Claims, GenerationIssued, Answering
    <3>3. CASE thr'[u] = Ended
      BY <2>7, <3>1, <3>3, DutyFacts
    <3>4. CASE \E l : thr'[u] = minder(l)
      BY <2>6, <3>1, <3>4
    <3> QED BY <2>2, <3>2, <3>3, <3>4
  <2> QED BY <2>9, <2>10, <2>11, <2>12 DEF Claims
<1> QED BY <1>1, <1>2, <1>3

\* spawn_exit_monitor: the thread goes on watching, ends, or empties the slot.
LEMMA ClaimsMonitor ==
  ASSUME TypeOK, Supervision, NEW p \in Procs, MonitorCheck(p) \/ MonitorPoll(p)
  PROVE  Claims'
<1>0. Claims /\ DataOK /\ Roles /\ Monitor(p) \in Threads
  BY ThreadIds DEF Claims, Supervision, TypeOK
<1>1. thr[Monitor(p)].pc \in {"watch", "poll"} /\ thr[Monitor(p)].pc \in Duties(Monitor(p))
  BY <1>0, OnDuty DEF MonitorCheck, MonitorPoll
<1>2. Undisturbed
  BY DEF MonitorCheck, MonitorPoll, Undisturbed
<1>3. CASE End(Monitor(p))
  BY <1>0, <1>2, <1>3, CalmEnd
<1>4. CASE Goto(Monitor(p), "watch") \/ Goto(Monitor(p), "poll")
  BY <1>0, <1>1, <1>2, <1>4, CalmGoto DEF Labels
<1>5. CASE Goto(Monitor(p), "exit") /\ child' = NoProc
  BY <1>0, <1>1, <1>2, <1>5, CalmGoto DEF Labels
<1> QED BY <1>3, <1>4, <1>5 DEF MonitorCheck, MonitorPoll

\* handle_exit: a retry keeps its duty, a verdict lays it down.
LEMMA ClaimsExit ==
  ASSUME TypeOK, Supervision, NEW t \in Threads, HandleExit(t)
  PROVE  Claims'
<1>0. Claims /\ DataOK /\ Roles
  BY DEF Claims, Supervision, TypeOK
<1>1. CASE ExitReason(t) \/ RetryClear(t) \/ RetryAnnounce(t) \/ Hold(t)
            \/ WaitOver(t)
  <2>1. thr[t].pc \in {"exit", "retry", "announce", "hold", "wait"}
    BY <1>1 DEF ExitReason, RetryClear, RetryAnnounce, Hold, Show, WaitOver
  <2>2. thr[t].pc \in Duties(t)
    BY <1>0, <2>1, OnDuty
  <2>3. Undisturbed
    BY <1>1 DEF Undisturbed, ExitReason, RetryClear, RetryAnnounce, Hold, Show,
                WaitOver
  <2>4. \/ End(t)
        \/ \E l \in {"terminal", "holding", "announce", "wait", "spawn"} :
             Goto(t, l) \/ GotoAfresh(t, l)
    BY <1>1 DEF ExitReason, RetryClear, RetryAnnounce, Hold, Show, WaitOver
  <2> QED BY <1>0, <2>1, <2>2, <2>3, <2>4, CalmEnd, CalmGoto DEF Labels
<1>2. CASE GiveUp(t) \/ GiveUpProxy(t)
  <2>1. Undisturbed
    BY <1>2 DEF Undisturbed, GiveUp, Show, GiveUpProxy
  <2>2. End(t) \/ Goto(t, "release_proxy")
    BY <1>2 DEF GiveUp, Show, GiveUpProxy
  <2>3. "release_proxy" \notin Duties(t) /\ "release_proxy" \in Labels
    BY DutyFacts DEF Labels
  <2> QED BY <1>0, <2>1, <2>2, <2>3, CalmEnd, CalmGoto
<1>3. CASE ExitHolding(t)
  <2> DEFINE b == session.profile.kill_switch /\ route # "none"
             r == [thr[t] EXCEPT !.pc = "decide", !.holding = b]
  <2>1. r \in Thread
    BY <1>0, ThreadFields, ThreadUpdates DEF Labels
  <2>2. r.pc = "decide" /\ r.gen = thr[t].gen
    BY <1>0, ThreadFields DEF Thread
  <2>3. Become(t, r) /\ Undisturbed
    BY <1>3 DEF ExitHolding, Undisturbed
  <2>4. thr[t].pc = "holding" /\ "holding" \in Duties(t)
    BY <1>0, <1>3, OnDuty DEF ExitHolding
  <2> HIDE DEF r
  <2> QED BY <1>0, <2>1, <2>2, <2>3, <2>4, Calm DEF Undisturbed
<1>4. CASE ExitTerminal(t) \/ Decide(t)
  <2>0. thr[t].pc \in {"terminal", "decide"} /\ thr[t].pc \in Duties(t)
    BY <1>0, <1>4, OnDuty DEF ExitTerminal, Decide
  <2>1. UNCHANGED <<generation, child, wanted>>
    BY <1>4 DEF ExitTerminal, Decide
  <2>2. CASE End(t) /\ UNCHANGED session
    BY <1>0, <2>1, <2>2, CalmEnd DEF Undisturbed
  <2>3. CASE session.generation = thr[t].gen
    <3> DEFINE r(l) == [thr[t] EXCEPT !.pc = l, !.profile = session.profile]
    <3>1. PICK l \in {"giveup", "giveup_ech", "hold", "release", "retry"} :
            /\ Become(t, r(l))
            /\ \/ l \in {"giveup", "giveup_ech"}
               \/ session'.generation = session.generation
      <4>1. CASE ExitTerminal(t)
        BY <2>3, <4>1 DEF ExitTerminal
      <4>2. CASE Decide(t)
        BY <1>0, <2>3, <4>2 DEF Decide, decide_exit, DataOK, Session
      <4> QED BY <1>4, <4>1, <4>2
    <3>2. r(l) \in Thread
      BY <1>0, <3>1, ThreadFields, ThreadUpdates, SessionFields DEF Labels
    <3>3. r(l).pc = l /\ r(l).gen = thr[t].gen /\ r(l).gen <= generation
      BY <1>0, ThreadFields DEF Thread, Claims, GenerationIssued
    <3> HIDE DEF r
    <3>4. CASE l \notin {"giveup", "giveup_ech"}
      BY <1>0, <2>0, <2>1, <3>1, <3>2, <3>3, <3>4, Calm
    <3>5. CASE l \in {"giveup", "giveup_ech"}
      <4>1. l \notin Duties(t)
        BY <3>5, DutyFacts
      <4>2. ASSUME NEW u \in Threads \ {t}, Supervising(u), thr[u].pc # "claim"
            PROVE  FALSE
        <5>1. session.generation = generation
          BY <1>0, <4>2 DEF Claims, SupervisedIsClaimed
        <5>2. Supervising(t)
          BY <2>0, <2>3, <5>1 DEF Supervising, Answering, is_current
        <5> QED BY <1>0, <4>2, <5>2 DEF Claims, OneSupervisor
      <4> QED BY <1>0, <2>1, <3>1, <3>2, <3>3, <4>1, <4>2, Resign
    <3> QED BY <3>4, <3>5
  <2> QED BY <1>4, <2>2, <2>3 DEF ExitTerminal, Decide
<1> QED BY <1>1, <1>2, <1>3, <1>4 DEF HandleExit

\* stop_inner: the bump orphans whoever was supervising.
LEMMA ClaimsStop ==
  ASSUME TypeOK, Supervision, StopBegin \/ StopStep
  PROVE  Claims'
<1>0. Claims /\ DataOK /\ Stop \in Threads /\ Duties(Stop) = {}
  BY ThreadIds, DutyFacts DEF Claims, Supervision, TypeOK
<1>1. CASE StopBegin \/ StopClear \/ StopKill \/ StopIdle
  <2>1. Undisturbed
    BY <1>1 DEF Undisturbed, StopBegin, StopClear, StopKill, StopIdle
  <2>2. End(Stop) \/ \E l \in {"bump", "kill", "idle"} : Goto(Stop, l)
    BY <1>1 DEF StopBegin, StopClear, StopKill, StopIdle
  <2> QED BY <1>0, <2>1, <2>2, CalmEnd, CalmGoto DEF Labels
<1>2. CASE StopBump
  <2> DEFINE r == [thr[Stop] EXCEPT !.pc = "session"]
  <2>1. r \in Thread
    BY <1>0, ThreadFields, ThreadUpdates DEF Labels
  <2>2. r.gen = thr[Stop].gen /\ r.gen <= generation
    BY <1>0, ThreadFields DEF Thread, Claims, GenerationIssued
  <2>3. Become(Stop, r) /\ generation' = generation + 1 /\ child' = child
    BY <1>2 DEF StopBump, Goto
  <2> HIDE DEF r
  <2> QED BY <1>0, <2>1, <2>2, <2>3, Bump
<1>3. CASE StopSession
  <2> DEFINE r == [thr[Stop] EXCEPT !.pc = "clear"]
  <2>1. r \in Thread
    BY <1>0, ThreadFields, ThreadUpdates DEF Labels
  <2>2. r.gen = thr[Stop].gen /\ r.gen <= generation
    BY <1>0, ThreadFields DEF Thread, Claims, GenerationIssued
  <2>3. Become(Stop, r) /\ UNCHANGED <<generation, child, wanted>>
    BY <1>3 DEF StopSession, Goto
  <2>4. ~wanted
    BY <1>3 DEF StopSession, Supervision, StopIsHeeded
  <2>5. \A u \in Threads : ~Supervising(u)
    BY <1>0, <2>4 DEF Claims, SupervisedIsClaimed
  <2> HIDE DEF r
  <2> QED BY <1>0, <2>1, <2>2, <2>3, <2>5, Resign
<1> QED BY <1>1, <1>2, <1>3 DEF StopStep

\* set_system_proxy leaves the generation, the slot and the duties alone.
LEMMA ClaimsToggle ==
  ASSUME TypeOK, Supervision, ToggleBegin \/ ToggleStep
  PROVE  Claims'
<1>0. Claims /\ DataOK /\ Toggle \in Threads /\ Duties(Toggle) = {}
  BY ThreadIds, DutyFacts DEF Claims, Supervision, TypeOK
<1>1. session'.generation = session.generation
  <2>1. CASE ToggleBegin
    BY <1>0, <2>1 DEF ToggleBegin, DataOK, Session
  <2>2. CASE ToggleStep
    BY <2>2 DEF ToggleStep, ToggleDisable, ToggleEnable, ToggleApply
  <2> QED BY <2>1, <2>2
<1>2. Undisturbed
  BY <1>1 DEF Undisturbed, ToggleBegin, ToggleStep, ToggleDisable, ToggleEnable,
     ToggleApply
<1>3. CASE End(Toggle) \/ Goto(Toggle, "enable") \/ Goto(Toggle, "disable")
  BY <1>0, <1>2, <1>3, CalmEnd, CalmGoto DEF Labels
<1>4. ASSUME NEW b \in BOOLEAN,
             Become(Toggle, [thr[Toggle] EXCEPT !.pc = "apply", !.listener = b])
      PROVE  Claims'
  <2> DEFINE r == [thr[Toggle] EXCEPT !.pc = "apply", !.listener = b]
  <2>1. r \in Thread
    BY <1>0, ThreadFields, ThreadUpdates DEF Labels
  <2>2. r.gen <= generation
    BY <1>0, ThreadFields DEF Thread, Claims, GenerationIssued
  <2> HIDE DEF r
  <2>3. Become(Toggle, r)
    BY <1>4 DEF r
  <2> QED BY <1>0, <1>2, <2>1, <2>2, <2>3, CalmBystander
<1> QED
  BY <1>3, <1>4 DEF ToggleBegin, ToggleStep, ToggleDisable, ToggleEnable, ToggleApply

\* record_log answers for no engine.
LEMMA ClaimsReader ==
  ASSUME TypeOK, Supervision, NEW p \in Procs,
         ReadLine(p) \/ Sweep(p) \/ ReadSession(p) \/ ReadChain(p)
         \/ ChainStarted(p) \/ ReadProxy(p) \/ ReadEof(p)
  PROVE  Claims'
<1>0. Claims /\ DataOK /\ Reader(p) \in Threads /\ Duties(Reader(p)) = {}
  BY ThreadIds, DutyFacts DEF Claims, Supervision, TypeOK
<1> DEFINE t == Reader(p)
<1>1. session'.generation = session.generation
  <2>1. CASE ReadSession(p)
    BY <1>0, <2>1 DEF ReadSession, DataOK, Session
  <2> QED
    BY <2>1 DEF ReadLine, Sweep, ReadChain, ChainStarted, ReadProxy, ReadEof
<1>2. Undisturbed
  BY <1>1 DEF Undisturbed, ReadLine, Sweep, ReadSession, ReadChain, ChainStarted,
     ReadProxy, ReadEof
<1>3. CASE \/ End(t)
           \/ \E l \in {"session", "sweep", "read", "mihomo"} :
                Goto(t, l) \/ GotoAfresh(t, l)
  BY <1>0, <1>2, <1>3, CalmEnd, CalmGoto DEF Labels
<1>4. CASE ReadSession(p)
  <2> DEFINE r == [thr[t] EXCEPT !.pc = "chain", !.profile = session.profile]
  <2>1. r \in Thread
    BY <1>0, ThreadFields, SessionFields, ThreadUpdates DEF Labels
  <2>2. r.gen <= generation
    BY <1>0, ThreadFields DEF Thread, Claims, GenerationIssued
  <2>3. Become(t, r)
    BY <1>4 DEF ReadSession
  <2> HIDE DEF r
  <2> QED BY <1>0, <1>2, <2>1, <2>2, <2>3, CalmBystander
<1>5. ASSUME NEW b \in BOOLEAN, GotoAfterChain(p, b) PROVE Claims'
  <2> DEFINE r == [Ended EXCEPT !.pc = "proxy", !.gen = thr[t].gen, !.listener = b]
  <2>1. r \in Thread
    BY <1>0, ThreadFields, EmptyRecords, ThreadUpdates DEF Labels
  <2>2. r.gen <= generation
    BY <1>0, ThreadFields DEF Ended, Claims, GenerationIssued
  <2> HIDE DEF r
  <2>3. Become(t, r) \/ GotoAfresh(t, "read")
    BY <1>5 DEF GotoAfterChain, r
  <2> QED BY <1>0, <1>2, <1>3, <2>1, <2>2, <2>3, CalmBystander
<1>6. CASE ReadLine(p) \/ Sweep(p) \/ ReadProxy(p) \/ ReadEof(p)
  BY <1>3, <1>6 DEF ReadLine, Sweep, ReadProxy, ReadEof
<1>7. CASE ReadChain(p) \/ ChainStarted(p)
  BY <1>3, <1>5, <1>7 DEF ReadChain, ChainStarted
<1> QED BY <1>4, <1>6, <1>7

\* With routes that stay fast, no watch thread is ever at work.
LEMMA WatchIsIdle ==
  ASSUME Roles, NEW p \in Procs
  PROVE  /\ ~WatchEnds(p) /\ ~WatchBadRoute(p) /\ ~RescanReset(p)
         /\ ~RescanBump(p) /\ ~RescanQuell(p) /\ ~RescanUnproxy(p)
         /\ ~RescanClaim(p) /\ ~RescanShow(p)
BY DEF Roles, WatchEnds, WatchBadRoute, RescanReset, RescanBump, RescanQuell,
   RescanUnproxy, RescanClaim, RescanShow

\* So every step keeps the claims.
LEMMA ClaimsStep == TypeOK /\ Supervision /\ [Next]_vars => Claims'
<1> SUFFICES ASSUME TypeOK, Supervision, [Next]_vars PROVE Claims'
  OBVIOUS
<1>1. CASE UNCHANGED vars
  BY <1>1 DEF vars, Claims, Supervision, GenerationIssued, SupervisedIsClaimed,
     SlotAwaitsLaunch, OneSupervisor, Supervising, Answering, is_current
<1>2. ASSUME NEW p \in Procs, EngineExits(p) PROVE Claims'
  BY <1>2 DEF EngineExits, Claims, Supervision, GenerationIssued,
     SupervisedIsClaimed, SlotAwaitsLaunch, OneSupervisor, Supervising, Answering,
     is_current
<1>3. Roles
  BY DEF Supervision
<1> QED
  BY <1>1, <1>2, <1>3, NextCases, ClaimsStart, ClaimsStop, ClaimsToggle,
     ClaimsLaunch, ClaimsExit, ClaimsMonitor, ClaimsReader, WatchIsIdle

(***************************************************************************)
(* Each action preserves the rest of Supervision: where threads may be,    *)
(* and what a connect and a disconnect rely on.                            *)
(***************************************************************************)
MovesTo(t, S) ==
  thr'[t].pc \in S /\ \A u \in Threads \ {t} : thr'[u] = thr[u]

\* Where a thread is after each of the ways of moving it.
LEMMA After ==
  ASSUME DataOK, NEW t \in Threads
  PROVE  /\ \A r : Become(t, r) => MovesTo(t, {r.pc}) /\ thr'[t] = r
         /\ End(t) => MovesTo(t, {"done"})
         /\ \A l : Goto(t, l) \/ GotoAfresh(t, l) =>
              MovesTo(t, {l}) /\ thr'[t].gen = thr[t].gen
<1>1. \A r : Become(t, r) => MovesTo(t, {r.pc}) /\ thr'[t] = r
  BY DEF DataOK, Become, MovesTo
<1>2. End(t) => MovesTo(t, {"done"})
  BY <1>1 DEF End, Ended
<1>3. ASSUME NEW l, Goto(t, l)
      PROVE  MovesTo(t, {l}) /\ thr'[t].gen = thr[t].gen
  <2>1. [thr[t] EXCEPT !.pc = l].pc = l /\ [thr[t] EXCEPT !.pc = l].gen = thr[t].gen
    BY ThreadFields DEF Thread
  <2> QED BY <1>1, <1>3, <2>1 DEF Goto
<1>4. ASSUME NEW l, GotoAfresh(t, l)
      PROVE  MovesTo(t, {l}) /\ thr'[t].gen = thr[t].gen
  <2> DEFINE r == [Ended EXCEPT !.pc = l, !.gen = thr[t].gen]
  <2>1. r.pc = l /\ r.gen = thr[t].gen
    BY DEF Ended
  <2>2. Become(t, r)
    BY <1>4 DEF GotoAfresh
  <2> HIDE DEF r
  <2> QED BY <1>1, <2>1, <2>2
<1> QED BY <1>1, <1>2, <1>3, <1>4

\* A step of a thread that is neither connecting nor disconnecting.
LEMMA Aside ==
  ASSUME Supervision, NEW t \in Threads \ {Start, Stop}, NEW S, MovesTo(t, S),
         UNCHANGED <<generation, wanted>>, child' \in {child, NoProc},
         session = NoSession => session' = NoSession
  PROVE  StartIsAlone' /\ StopIsHeeded'
<1>1. thr'[Start] = thr[Start] /\ thr'[Stop] = thr[Stop]
  BY ThreadIds DEF MovesTo
<1>2. StartIsAlone'
  BY <1>1 DEF Supervision, StartIsAlone, is_current
<1>3. StopIsHeeded'
  BY <1>1 DEF Supervision, StopIsHeeded
<1> QED BY <1>2, <1>3

\* A thread that goes to a label of its own kind keeps the roles.
LEMMA RolesKept ==
  ASSUME DataOK, Roles, NEW t \in Threads, NEW S, MovesTo(t, S),
         \/ S \subseteq {"done"}
         \/ t = Start /\ S \subseteq {"done", "bump", "claim", "spawn", "slot",
                                     "publish", "unclaim"}
         \/ t = Stop /\ S \subseteq {"done", "bump", "session", "clear", "kill",
                                    "idle"}
         \/ t = Toggle /\ S \subseteq {"done", "enable", "disable", "apply"}
         \/ /\ \E p \in Procs : t = Monitor(p)
            /\ S \intersect {"bump", "claim", "unclaim"} = {}
         \/ /\ \E p \in Procs : t = Reader(p)
            /\ S \subseteq {"done", "read", "sweep", "session", "chain", "mihomo",
                           "proxy"}
  PROVE  Roles'
<1>1. thr'[t].pc \in S /\ \A u \in Threads \ {t} : thr'[u] = thr[u]
  BY DEF MovesTo
<1>2. thr'[Start].pc \in {"done", "bump", "claim", "spawn", "slot", "publish",
                          "unclaim"}
  BY <1>1, ThreadIds DEF Roles
<1>3. thr'[Stop].pc \in {"done", "bump", "session", "clear", "kill", "idle"}
  BY <1>1, ThreadIds DEF Roles
<1>4. thr'[Toggle].pc \in {"done", "enable", "disable", "apply"}
  BY <1>1, ThreadIds DEF Roles
<1>5. ASSUME NEW q \in Procs
      PROVE  thr'[Monitor(q)].pc \notin {"bump", "claim", "unclaim"}
  BY <1>1, ThreadIds DEF Roles
<1>6. ASSUME NEW q \in Procs
      PROVE  thr'[Reader(q)].pc \in {"done", "read", "sweep", "session", "chain",
                                     "mihomo", "proxy"}
  BY <1>1, ThreadIds DEF Roles
<1>7. ASSUME NEW q \in Procs PROVE thr'[Watch(q)].pc = "done"
  BY <1>1, ThreadIds DEF Roles
<1> QED BY <1>2, <1>3, <1>4, <1>5, <1>6, <1>7 DEF Roles

Rest == Roles /\ StartIsAlone /\ StopIsHeeded

\* record_log disturbs neither a connect nor a disconnect.
LEMMA RestReader ==
  ASSUME TypeOK, Supervision, NEW p \in Procs,
         ReadLine(p) \/ Sweep(p) \/ ReadSession(p) \/ ReadChain(p)
         \/ ChainStarted(p) \/ ReadProxy(p) \/ ReadEof(p)
  PROVE  Rest'
<1>0. DataOK /\ Roles /\ Reader(p) \in Threads \ {Start, Stop}
  BY ThreadIds DEF Supervision, TypeOK
<1> DEFINE S == {"done", "read", "sweep", "session", "chain", "mihomo", "proxy"}
<1>1. MovesTo(Reader(p), S)
  <2>1. ASSUME NEW l \in S, Goto(Reader(p), l) \/ GotoAfresh(Reader(p), l)
        PROVE  MovesTo(Reader(p), S)
    BY <1>0, <2>1, After DEF MovesTo
  <2>2. ASSUME End(Reader(p)) PROVE MovesTo(Reader(p), S)
    BY <1>0, <2>2, After DEF MovesTo
  <2>3. CASE ReadSession(p)
    <3>1. [thr[Reader(p)] EXCEPT !.pc = "chain", !.profile = session.profile].pc
            = "chain"
      BY <1>0, ThreadFields DEF Thread
    <3> QED BY <1>0, <2>3, <3>1, After DEF ReadSession, MovesTo
  <2>4. ASSUME NEW b \in BOOLEAN, GotoAfterChain(p, b) PROVE MovesTo(Reader(p), S)
    <3> DEFINE r == [Ended EXCEPT !.pc = "proxy", !.gen = thr[Reader(p)].gen,
                                  !.listener = b]
    <3>1. r.pc = "proxy"
      BY DEF Ended
    <3>2. Become(Reader(p), r) \/ GotoAfresh(Reader(p), "read")
      BY <2>4 DEF GotoAfterChain
    <3> HIDE DEF r
    <3> QED BY <1>0, <2>1, <3>1, <3>2, After DEF MovesTo
  <2> QED
    BY <2>1, <2>2, <2>3, <2>4
       DEF ReadLine, Sweep, ReadChain, ChainStarted, ReadProxy, ReadEof
<1>2. UNCHANGED <<generation, wanted, child>>
  BY DEF ReadLine, Sweep, ReadSession, ReadChain, ChainStarted, ReadProxy, ReadEof
<1>3. session = NoSession => session' = NoSession
  <2>1. [NoSession EXCEPT !.attempt = 0] = NoSession
    BY DEF NoSession
  <2> QED
    BY <2>1 DEF ReadLine, Sweep, ReadSession, ReadChain, ChainStarted, ReadProxy,
       ReadEof
<1> HIDE DEF S
<1>4. StartIsAlone' /\ StopIsHeeded'
  BY <1>0, <1>1, <1>2, <1>3, Aside
<1>5. Roles'
  BY <1>0, <1>1, RolesKept DEF S
<1> QED BY <1>4, <1>5 DEF Rest

\* Nor does an exit monitor.
LEMMA RestMonitor ==
  ASSUME TypeOK, Supervision, NEW p \in Procs, MonitorCheck(p) \/ MonitorPoll(p)
  PROVE  Rest'
<1>0. DataOK /\ Roles /\ Monitor(p) \in Threads \ {Start, Stop}
  BY ThreadIds DEF Supervision, TypeOK
<1> DEFINE S == {"done", "watch", "poll", "exit"}
<1>1. MovesTo(Monitor(p), S)
  BY <1>0, After DEF MonitorCheck, MonitorPoll, MovesTo
<1>2. UNCHANGED <<generation, wanted, session>> /\ child' \in {child, NoProc}
  BY DEF MonitorCheck, MonitorPoll
<1>3. S \intersect {"bump", "claim", "unclaim"} = {}
  OBVIOUS
<1> HIDE DEF S
<1>4. StartIsAlone' /\ StopIsHeeded'
  BY <1>0, <1>1, <1>2, Aside
<1>5. Roles'
  BY <1>0, <1>1, <1>3, RolesKept
<1> QED BY <1>4, <1>5 DEF Rest

\* Nor does handle_exit: it drops a session only of the live generation.
LEMMA RestExit ==
  ASSUME TypeOK, Supervision, NEW t \in Threads, HandleExit(t)
  PROVE  Rest'
<1>0. DataOK /\ Roles
  BY DEF Supervision, TypeOK
<1> DEFINE S == {"done", "terminal", "holding", "decide", "giveup", "giveup_ech",
                 "hold", "release", "retry", "announce", "wait", "release_proxy",
                 "spawn"}
<1>1. \E p \in Procs : t = Monitor(p)
  <2>1. thr[t].pc \in {"exit", "terminal", "holding", "decide", "retry", "announce",
                     "hold", "giveup", "giveup_ech", "release_proxy", "wait"}
    BY DEF HandleExit, ExitReason, ExitTerminal, ExitHolding, Decide, RetryClear,
           RetryAnnounce, Hold, GiveUp, Show, GiveUpProxy, WaitOver
  <2>2. t # Start /\ t # Stop /\ t # Toggle
    BY <1>0, <2>1 DEF Roles
  <2>3. \A p \in Procs : t # Reader(p) /\ t # Watch(p)
    BY <1>0, <2>1 DEF Roles
  <2> QED BY <2>2, <2>3, ThreadIds
<1>2. MovesTo(t, S)
  <2>1. ASSUME NEW l \in S, Goto(t, l) \/ GotoAfresh(t, l) PROVE MovesTo(t, S)
    BY <1>0, <2>1, After DEF MovesTo
  <2>2. ASSUME End(t) PROVE MovesTo(t, S)
    BY <1>0, <2>2, After DEF MovesTo
  <2>3. ASSUME NEW l \in S, NEW f,
               Become(t, [thr[t] EXCEPT !.pc = l, !.profile = f])
        PROVE  MovesTo(t, S)
    <3>1. [thr[t] EXCEPT !.pc = l, !.profile = f].pc = l
      BY <1>0, ThreadFields DEF Thread
    <3> QED BY <1>0, <2>3, <3>1, After DEF MovesTo
  <2>4. CASE ExitHolding(t)
    <3> DEFINE r == [thr[t] EXCEPT
                       !.pc = "decide",
                       !.holding = session.profile.kill_switch /\ route # "none"]
    <3>1. r.pc = "decide"
      BY <1>0, ThreadFields DEF Thread
    <3>2. Become(t, r)
      BY <2>4 DEF ExitHolding
    <3> HIDE DEF r
    <3> QED BY <1>0, <3>1, <3>2, After DEF MovesTo
  <2>5. CASE Decide(t)
    BY <2>2, <2>3, <2>5 DEF Decide, decide_exit
  <2>6. CASE ExitTerminal(t)
    BY <2>2, <2>3, <2>6 DEF ExitTerminal
  <2>7. CASE GiveUp(t)
    BY <2>1, <2>2, <2>7 DEF GiveUp, Show
  <2>8. CASE RetryAnnounce(t) \/ Hold(t)
    BY <2>1, <2>2, <2>8 DEF RetryAnnounce, Hold, Show
  <2>9. CASE ExitReason(t) \/ RetryClear(t) \/ GiveUpProxy(t) \/ WaitOver(t)
    BY <2>1, <2>2, <2>9 DEF ExitReason, RetryClear, GiveUpProxy, WaitOver
  <2> QED BY <2>4, <2>5, <2>6, <2>7, <2>8, <2>9 DEF HandleExit
<1>3. UNCHANGED <<generation, wanted, child>>
  BY DEF HandleExit, ExitReason, ExitTerminal, ExitHolding, Decide, RetryClear,
         RetryAnnounce, Hold, GiveUp, Show, GiveUpProxy, WaitOver
<1>4. session = NoSession => session' = NoSession
  <2>1. CASE Decide(t)
    <3>1. thr[t].gen > 0
      BY <1>0, <2>1, OnDuty DEF Decide, Supervision, GenerationIssued, Answering
    <3>2. NoSession.generation = 0
      BY DEF NoSession
    <3> QED BY <2>1, <3>1, <3>2 DEF Decide
  <2> QED
    BY <2>1 DEF HandleExit, ExitReason, ExitTerminal, ExitHolding, RetryClear,
       RetryAnnounce, Hold, GiveUp, Show, GiveUpProxy, WaitOver
<1>5. S \intersect {"bump", "claim", "unclaim"} = {}
  OBVIOUS
<1> HIDE DEF S
<1>6. t \in Threads \ {Start, Stop}
  BY <1>1, ThreadIds
<1>7. StartIsAlone' /\ StopIsHeeded'
  BY <1>2, <1>3, <1>4, <1>6, Aside
<1>8. Roles'
  BY <1>0, <1>1, <1>2, <1>5, RolesKept
<1> QED BY <1>7, <1>8 DEF Rest

\* Nor does set_system_proxy.
LEMMA RestToggle ==
  ASSUME TypeOK, Supervision, ToggleBegin \/ ToggleStep
  PROVE  Rest'
<1>0. DataOK /\ Roles /\ Toggle \in Threads \ {Start, Stop}
  BY ThreadIds DEF Supervision, TypeOK
<1> DEFINE S == {"done", "enable", "disable", "apply"}
<1>1. MovesTo(Toggle, S)
  <2>1. ASSUME NEW b,
               Become(Toggle, [thr[Toggle] EXCEPT !.pc = "apply", !.listener = b])
        PROVE  MovesTo(Toggle, S)
    <3>1. [thr[Toggle] EXCEPT !.pc = "apply", !.listener = b].pc = "apply"
      BY <1>0, ThreadFields DEF Thread
    <3> QED BY <1>0, <2>1, <3>1, After DEF MovesTo
  <2>2. ASSUME NEW l \in S, Goto(Toggle, l) PROVE MovesTo(Toggle, S)
    BY <1>0, <2>2, After DEF MovesTo
  <2>3. ASSUME End(Toggle) PROVE MovesTo(Toggle, S)
    BY <1>0, <2>3, After DEF MovesTo
  <2> QED
    BY <2>1, <2>2, <2>3
       DEF ToggleBegin, ToggleStep, ToggleDisable, ToggleEnable, ToggleApply
<1>2. UNCHANGED <<generation, wanted, child>>
  BY DEF ToggleBegin, ToggleStep, ToggleDisable, ToggleEnable, ToggleApply
<1>3. session = NoSession => session' = NoSession
  BY DEF ToggleBegin, ToggleStep, ToggleDisable, ToggleEnable, ToggleApply
<1> HIDE DEF S
<1>4. StartIsAlone' /\ StopIsHeeded'
  BY <1>0, <1>1, <1>2, <1>3, Aside
<1>5. Roles'
  BY <1>0, <1>1, RolesKept DEF S
<1> QED BY <1>4, <1>5 DEF Rest

\* A disconnect starts only when no connect is between its check and its claim.
LEMMA RestStop ==
  ASSUME TypeOK, Supervision, Patient, StopBegin \/ StopStep
  PROVE  Rest'
<1>0. DataOK /\ Roles /\ Stop \in Threads /\ Start \in Threads /\ Start # Stop
  BY ThreadIds DEF Supervision, TypeOK
<1>1. Roles' /\ thr'[Start] = thr[Start]
  <2> DEFINE S == {"done", "bump", "session", "clear", "kill", "idle"}
  <2>1. MovesTo(Stop, S)
    BY <1>0, After DEF MovesTo, StopBegin, StopStep, StopBump, StopSession,
       StopClear, StopKill, StopIdle
  <2> QED BY <1>0, <2>1, RolesKept DEF MovesTo
<1>2. CASE StopBegin
  <2>1. thr[Start].pc \notin {"bump", "claim"} /\ thr[Stop].pc = "done"
        /\ UNCHANGED <<generation, child, session, wanted>>
    BY <1>2 DEF StopBegin
  <2>2. thr'[Stop].pc = "bump"
    BY <1>0, <1>2, After DEF StopBegin, MovesTo
  <2>3. StartIsAlone'
    BY <1>1, <2>1 DEF Supervision, StartIsAlone, is_current
  <2>4. StopIsHeeded'
    BY <2>1, <2>2 DEF Supervision, StopIsHeeded
  <2> QED BY <1>1, <2>3, <2>4 DEF Rest
<1>3. CASE StopBump
  <2>1. thr[Stop].pc = "bump" /\ ~wanted' /\ thr'[Stop].pc = "session"
    BY <1>0, <1>3, After DEF StopBump, MovesTo
  <2>2. thr[Start].pc \notin {"bump", "claim"}
    BY <2>1 DEF Supervision, StartIsAlone
  <2>3. StartIsAlone'
    BY <1>1, <2>1, <2>2 DEF StartIsAlone
  <2>4. StopIsHeeded'
    BY <2>1 DEF StopIsHeeded
  <2> QED BY <1>1, <2>3, <2>4 DEF Rest
<1>4. CASE StopSession \/ StopClear \/ StopKill \/ StopIdle
  <2>1. thr[Stop].pc \in {"session", "clear", "kill", "idle"}
    BY <1>4 DEF StopSession, StopClear, StopKill, StopIdle
  <2>2. ~wanted /\ UNCHANGED <<generation, wanted>>
    BY <1>4, <2>1
       DEF Supervision, StopIsHeeded, StopSession, StopClear, StopKill, StopIdle
  <2>3. thr[Start].pc \notin {"bump", "claim"}
    BY <2>1 DEF Supervision, StartIsAlone
  <2>4. StartIsAlone'
    BY <1>1, <2>2, <2>3 DEF StartIsAlone
  <2>5. \/ thr'[Stop].pc \in {"clear", "kill"}
        \/ child' = NoProc
    <3>1. CASE StopSession
      BY <1>0, <3>1, After DEF StopSession, MovesTo
    <3>2. CASE StopClear
      BY <1>0, <3>2, After DEF StopClear, MovesTo
    <3>3. CASE StopKill
      BY <3>3 DEF StopKill
    <3>4. CASE StopIdle
      <4>1. child = NoProc /\ child' = child
        BY <2>2, <3>4 DEF StopIdle, Supervision, StopIsHeeded
      <4> QED BY <4>1
    <3> QED BY <1>4, <3>1, <3>2, <3>3, <3>4
  <2>6. StopIsHeeded'
    BY <2>2, <2>5 DEF StopIsHeeded
  <2> QED BY <1>1, <2>4, <2>6 DEF Rest
<1> QED BY <1>2, <1>3, <1>4 DEF StopStep

\* A connect starts only when no disconnect is under way.
LEMMA RestStart ==
  ASSUME TypeOK, Supervision, Patient,
         StartCheck \/ StartBump \/ StartClaim \/ StartUnclaim
  PROVE  Rest'
<1>0. DataOK /\ Roles /\ Stop \in Threads /\ Start \in Threads /\ Start # Stop
  BY ThreadIds DEF Supervision, TypeOK
<1>1. CASE StartCheck
  <2>1. PICK profile \in Profiles :
          Become(Start, [Ended EXCEPT !.pc = "bump", !.profile = profile])
    BY <1>1 DEF StartCheck
  <2>2. [Ended EXCEPT !.pc = "bump", !.profile = profile].pc = "bump"
    BY DEF Ended
  <2>3. MovesTo(Start, {"bump"})
    BY <1>0, <2>1, <2>2, After
  <2>4. thr[Stop].pc = "done" /\ child = NoProc /\ session = NoSession
        /\ UNCHANGED <<child, session, wanted>>
    BY <1>1 DEF StartCheck
  <2>5. thr'[Start].pc = "bump" /\ thr'[Stop] = thr[Stop]
    BY <1>0, <2>3 DEF MovesTo
  <2>6. StartIsAlone' /\ StopIsHeeded'
    BY <2>4, <2>5 DEF StartIsAlone, StopIsHeeded
  <2> QED BY <1>0, <2>3, <2>6, RolesKept DEF Rest
<1>2. CASE StartBump
  <2> DEFINE r == [thr[Start] EXCEPT !.pc = "claim", !.gen = generation + 1]
  <2>1. r.pc = "claim" /\ r.gen = generation + 1
    BY <1>0, ThreadFields DEF Thread
  <2>2. Become(Start, r)
    BY <1>2 DEF StartBump
  <2> HIDE DEF r
  <2>3. MovesTo(Start, {"claim"}) /\ thr'[Start] = r
    BY <1>0, <2>1, <2>2, After
  <2>4. generation' = generation + 1 /\ wanted' /\ child' = NoProc
        /\ thr[Stop].pc = "done"
    BY <1>2 DEF StartBump, Supervision, StartIsAlone
  <2>5. thr'[Start].pc = "claim" /\ is_current(Start)' /\ thr'[Stop] = thr[Stop]
    BY <1>0, <2>1, <2>3, <2>4 DEF MovesTo, is_current
  <2>6. StartIsAlone' /\ StopIsHeeded'
    BY <2>4, <2>5 DEF StartIsAlone, StopIsHeeded
  <2> QED BY <1>0, <2>3, <2>6, RolesKept DEF Rest
<1>3. CASE StartClaim
  <2>1. MovesTo(Start, {"spawn"}) /\ thr'[Start].gen = thr[Start].gen
    BY <1>0, <1>3, After DEF StartClaim
  <2>2. is_current(Start) /\ UNCHANGED <<generation, wanted, child>>
    BY <1>3 DEF StartClaim, Supervision, StartIsAlone
  <2>3. thr'[Start].pc = "spawn" /\ is_current(Start)' /\ thr'[Stop] = thr[Stop]
    BY <1>0, <2>1, <2>2 DEF MovesTo, is_current
  <2>4. StartIsAlone' /\ StopIsHeeded'
    BY <2>2, <2>3 DEF Supervision, StartIsAlone, StopIsHeeded
  <2> QED BY <1>0, <2>1, <2>4, RolesKept DEF Rest
<1>4. CASE StartUnclaim
  <2>1. MovesTo(Start, {"done"}) /\ UNCHANGED <<generation, wanted, child>>
    BY <1>0, <1>4, After DEF StartUnclaim
  <2>2. thr'[Start].pc = "done" /\ thr'[Stop] = thr[Stop]
    BY <1>0, <2>1 DEF MovesTo
  <2>3. StartIsAlone' /\ StopIsHeeded'
    BY <2>1, <2>2 DEF Supervision, StartIsAlone, StopIsHeeded
  <2> QED BY <1>0, <2>1, <2>3, RolesKept DEF Rest
<1> QED BY <1>1, <1>2, <1>3, <1>4

\* An engine enters the slot only for a generation that is wanted.
LEMMA RestLaunch ==
  ASSUME TypeOK, Supervision, ~SlowRoutes, NEW t \in Threads,
         Spawn(t) \/ ClaimSlot(t) \/ Publish(t)
  PROVE  Rest'
<1>0. DataOK /\ Claims /\ Roles /\ Start \in Threads /\ Stop \in Threads
      /\ Start # Stop
  BY ThreadIds DEF Supervision, TypeOK, Claims
<1>1. t = Start \/ \E p \in Procs : t = Monitor(p)
  BY <1>0, OnDuty DEF Spawn, ClaimSlot, Publish
<1>2. t \in Threads \ {Stop}
  BY <1>1, ThreadIds
<1>3. UNCHANGED <<generation, session, wanted>>
  BY DEF Spawn, ClaimSlot, Publish
<1>4. thr[t].pc \in Duties(t) /\ thr[t].pc \in {"spawn", "slot", "publish"}
  BY <1>0, OnDuty DEF Spawn, ClaimSlot, Publish
<1> DEFINE l == thr'[t].pc
<1>5. ASSUME \A u \in Threads \ {t} : thr'[u] = thr[u],
             thr'[t].gen = thr[t].gen \/ l = "done",
             \/ l \in {"done", "slot", "publish"}
             \/ t = Start /\ l = "unclaim"
             \/ t # Start /\ l = "exit",
             child' = child \/ Supervising(t)
      PROVE  Rest'
  <2>1. Roles'
    <3>0. MovesTo(t, {l})
      BY <1>5 DEF MovesTo
    <3>1. CASE t = Start
      BY <1>0, <1>5, <3>0, <3>1, RolesKept
    <3>2. CASE t # Start
      <4>1. {l} \intersect {"bump", "claim", "unclaim"} = {}
        BY <1>5, <3>2
      <4> QED BY <1>0, <1>1, <1>5, <3>0, <3>2, <4>1, RolesKept
    <3> QED BY <3>1, <3>2
  <2>2. thr'[Stop] = thr[Stop]
    BY <1>0, <1>2, <1>5
  <2>3. Supervising(t) => wanted /\ (thr[Start].pc = "bump" => FALSE)
    <3>1. ASSUME Supervising(t)
          PROVE  wanted /\ session.generation = generation /\ generation > 0
      BY <1>0, <1>4, <3>1
         DEF Claims, SupervisedIsClaimed, GenerationIssued, Supervising, Answering,
             is_current
    <3>2. thr[Start].pc = "bump" => session.generation = 0
      BY DEF Supervision, StartIsAlone, NoSession
    <3> QED BY <3>1, <3>2
  <2>4. StopIsHeeded'
    BY <1>3, <1>5, <2>2, <2>3 DEF Supervision, StopIsHeeded
  <2>5. StartIsAlone'
    <3>1. CASE t = Start
      <4>1. thr'[Start].pc \notin {"bump", "claim"}
        BY <1>5, <3>1
      <4>2. thr[Start].pc \notin {"done", "bump"}
        BY <1>4, <3>1
      <4>3. thr'[Start].pc # "done" => (is_current(Start)' <=> is_current(Start))
        BY <1>3, <1>5, <3>1, <4>1 DEF is_current
      <4> QED BY <1>3, <4>1, <4>2, <4>3 DEF Supervision, StartIsAlone
    <3>2. CASE t # Start
      <4>1. thr'[Start] = thr[Start]
        BY <1>0, <1>5, <3>2
      <4> QED
        BY <1>3, <1>5, <2>2, <2>3, <4>1
           DEF Supervision, StartIsAlone, is_current
    <3> QED BY <3>1, <3>2
  <2> QED BY <2>1, <2>4, <2>5 DEF Rest
<1>6. CASE Spawn(t)
  <2>1. ASSUME NEW p \in Procs,
               Become(t, [thr[t] EXCEPT !.pc = "slot", !.proc = p])
        PROVE  Rest'
    <3> DEFINE r == [thr[t] EXCEPT !.pc = "slot", !.proc = p]
    <3>1. r.pc = "slot" /\ r.gen = thr[t].gen
      BY <1>0, ThreadFields DEF Thread
    <3> HIDE DEF r
    <3>2. MovesTo(t, {"slot"}) /\ thr'[t].gen = thr[t].gen
      BY <1>0, <2>1, <3>1, After DEF r
    <3>3. child' = child
      BY <1>6 DEF Spawn
    <3> QED BY <1>5, <3>2, <3>3 DEF MovesTo
  <2>2. CASE Goto(t, IF t = Start THEN "unclaim" ELSE "exit")
    <3>1. MovesTo(t, {IF t = Start THEN "unclaim" ELSE "exit"})
          /\ thr'[t].gen = thr[t].gen
      BY <1>0, <2>2, After
    <3>2. child' = child
      BY <1>6 DEF Spawn
    <3> QED BY <1>5, <3>1, <3>2 DEF MovesTo
  <2> QED BY <1>6, <2>1, <2>2 DEF Spawn
<1>7. CASE ClaimSlot(t)
  <2>1. CASE is_current(t)
    <3>1. MovesTo(t, {"publish"}) /\ thr'[t].gen = thr[t].gen
      BY <1>0, <1>7, <2>1, After DEF ClaimSlot
    <3>2. Supervising(t)
      BY <1>4, <2>1 DEF Supervising, Answering
    <3> QED BY <1>5, <3>1, <3>2 DEF MovesTo
  <2>2. CASE ~is_current(t)
    <3>1. MovesTo(t, {"done"}) /\ child' = child
      BY <1>0, <1>7, <2>2, After DEF ClaimSlot
    <3> QED BY <1>5, <3>1 DEF MovesTo
  <2> QED BY <2>1, <2>2
<1>8. CASE Publish(t)
  <2> DEFINE p == thr[t].proc
             minder(label) == [Ended EXCEPT !.pc = label, !.gen = thr[t].gen]
  <2>1. child' = child
    BY <1>8 DEF Publish
  <2>2. thr' = [thr EXCEPT ![t] = Ended, ![Monitor(p)] = minder("watch"),
                           ![Reader(p)] = minder("read"), ![Watch(p)] = Ended]
    BY <1>8 DEF Publish
  <2>3. Ended.pc = "done" /\ minder("watch").pc = "watch" /\ minder("read").pc = "read"
    BY DEF Ended
  <2> HIDE DEF p, minder
  <2>4. \A u \in Threads :
          \/ thr'[u] = thr[u]
          \/ thr'[u].pc = "done" /\ (u = t \/ u = Watch(p))
          \/ u = Monitor(p) /\ thr'[u].pc = "watch"
          \/ u = Reader(p) /\ thr'[u].pc = "read"
    BY <1>0, <2>2, <2>3 DEF DataOK
  <2>5. thr'[Stop] = thr[Stop] /\ (thr'[Start] = thr[Start] \/ thr'[Start].pc = "done")
    <3>1. \A q : Start # Monitor(q) /\ Start # Reader(q) /\ Start # Watch(q)
                /\ Stop # Monitor(q) /\ Stop # Reader(q) /\ Stop # Watch(q)
      BY ThreadIds
    <3>2. thr'[Stop] = thr[Stop]
      BY <1>0, <1>2, <2>2, <3>1 DEF DataOK
    <3> QED BY <1>0, <2>4, <3>1, <3>2
  <2>6. StartIsAlone' /\ StopIsHeeded'
    BY <1>3, <2>1, <2>5 DEF Supervision, StartIsAlone, StopIsHeeded, is_current
  <2>7. thr'[Start].pc \in {"done", "bump", "claim", "spawn", "slot", "publish",
                            "unclaim"}
    BY <1>0, <2>5 DEF Roles
  <2>8. thr'[Stop].pc \in {"done", "bump", "session", "clear", "kill", "idle"}
    BY <1>0, <2>5 DEF Roles
  <2>9. thr'[Toggle].pc \in {"done", "enable", "disable", "apply"}
    BY <1>0, <2>4, ThreadIds DEF Roles
  <2>10. ASSUME NEW q \in Procs
         PROVE  /\ thr'[Monitor(q)].pc \notin {"bump", "claim", "unclaim"}
                /\ thr'[Reader(q)].pc \in {"done", "read", "sweep", "session",
                                          "chain", "mihomo", "proxy"}
                /\ thr'[Watch(q)].pc = "done"
    <3>1. thr'[Monitor(q)].pc \notin {"bump", "claim", "unclaim"}
      BY <1>0, <2>4, ThreadIds DEF Roles
    <3>2. thr'[Reader(q)].pc \in {"done", "read", "sweep", "session", "chain",
                                  "mihomo", "proxy"}
      BY <1>0, <2>4, ThreadIds DEF Roles
    <3>3. thr'[Watch(q)].pc = "done"
      BY <1>0, <2>4, ThreadIds DEF Roles
    <3> QED BY <3>1, <3>2, <3>3
  <2> QED BY <2>6, <2>7, <2>8, <2>9, <2>10 DEF Rest, Roles
<1> QED BY <1>6, <1>7, <1>8

\* The invariant behind StopSticks and OneSupervisor is inductive.
LEMMA SupervisionInit == Init => Supervision
<1> SUFFICES ASSUME Init PROVE Supervision
  OBVIOUS
<1>1. \A t \in Threads : thr[t] = Ended
  BY DEF Init
<1>2. Ended.pc = "done" /\ Ended.gen = 0
  BY DEF Ended
<1>3. \A t \in Threads : ~Answering(t)
  BY <1>1, <1>2, DutyFacts DEF Answering
<1>4. GenerationIssued
  BY <1>1, <1>2, <1>3 DEF GenerationIssued, Init
<1>5. SupervisedIsClaimed /\ SlotAwaitsLaunch /\ OneSupervisor
  BY <1>3 DEF SupervisedIsClaimed, SlotAwaitsLaunch, OneSupervisor, Supervising
<1>6. Roles
  BY <1>1, <1>2, ThreadIds DEF Roles
<1>7. StartIsAlone /\ StopIsHeeded
  BY <1>1, <1>2, ThreadIds DEF StartIsAlone, StopIsHeeded, Init
<1> QED BY <1>4, <1>5, <1>6, <1>7, TypeInit DEF Supervision

\* Supervision is kept by every step of such a user and such routes.
LEMMA SupervisionStep ==
  ASSUME Patient, ~SlowRoutes
  PROVE  Supervision /\ [Next]_vars => Supervision'
<1> SUFFICES ASSUME Supervision, [Next]_vars PROVE Supervision'
  OBVIOUS
<1>0. TypeOK /\ TypeOK'
  BY DataStep, FlagsStep DEF Supervision, TypeOK
<1>1. Claims'
  BY <1>0, ClaimsStep
<1>2. Rest'
  <2>1. CASE UNCHANGED vars
    BY <2>1 DEF vars, Supervision, Rest, Roles, StartIsAlone, StopIsHeeded, is_current
  <2>2. ASSUME NEW p \in Procs, EngineExits(p) PROVE Rest'
    BY <2>2 DEF EngineExits, Supervision, Rest, Roles, StartIsAlone, StopIsHeeded,
       is_current
  <2>3. Roles
    BY DEF Supervision
  <2> QED
    BY <1>0, <2>1, <2>2, <2>3, NextCases, RestStart, RestStop, RestToggle,
       RestLaunch, RestExit, RestMonitor, RestReader, WatchIsIdle
<1> QED BY <1>0, <1>1, <1>2 DEF Supervision, Claims, Rest

\* However a user's connects and disconnects interleave with engines that end and
\* with retries, no two threads answer for the engine of the live generation.
THEOREM SupervisorIsAlone ==
  ASSUME Patient, ~SlowRoutes
  PROVE  Spec => []OneSupervisor
<1>1. Supervision => OneSupervisor
  BY DEF Supervision
<1> QED BY <1>1, SupervisionInit, SupervisionStep, PTL DEF Spec

\* Once a disconnect has emptied the slot, no retry or launch that was in flight
\* puts an engine back until the user connects again.
THEOREM DisconnectIsFinal ==
  ASSUME Patient, ~SlowRoutes
  PROVE  Spec => []StopSticks
<1>1. Supervision => StopSticks
  BY DEF Supervision, StopIsHeeded, StopSticks
<1> QED BY <1>1, SupervisionInit, SupervisionStep, PTL DEF Spec

(***************************************************************************)
(* Engines in hand.                                                        *)
(***************************************************************************)
\* What a thread that names no process may do: end, or go on naming none.
LEMMA Empty ==
  ASSUME DataOK, InHand, NEW t \in Threads, thr[t].pc \notin {"slot", "publish"}
  PROVE  /\ thr[t].proc = NoProc
         /\ End(t) => thr'[t].proc = NoProc
         /\ \A l : Goto(t, l) \/ GotoAfresh(t, l) => thr'[t].proc = NoProc
<1>1. thr[t].proc = NoProc
  BY DEF InHand
<1>2. End(t) => thr'[t].proc = NoProc
  BY DEF DataOK, End, Become, Ended
<1>3. ASSUME NEW l, Goto(t, l) PROVE thr'[t].proc = NoProc
  <2>1. [thr[t] EXCEPT !.pc = l].proc = NoProc
    BY <1>1, ThreadFields DEF Thread
  <2> QED BY <1>3, <2>1, After DEF Goto
<1>4. ASSUME NEW l, GotoAfresh(t, l) PROVE thr'[t].proc = NoProc
  <2>1. [Ended EXCEPT !.pc = l, !.gen = thr[t].gen].proc = NoProc
    BY DEF Ended
  <2> QED BY <1>4, <2>1, After DEF GotoAfresh
<1> QED BY <1>1, <1>2, <1>3, <1>4

\* A step that spawns and hands over nothing, and empties the slot only of an
\* engine that has ended, keeps every engine in hand.
LEMMA HandsCalm ==
  ASSUME DataOK, InHand, NoStrayEngine, NEW t \in Threads,
         \A u \in Threads \ {t} : thr'[u] = thr[u], thr'[t].proc = NoProc,
         thr[t].pc \notin {"slot", "publish"},
         \/ thr[t].pc # "done"
         \/ \A p \in Procs : t # Monitor(p),
         \/ child' = child
         \/ child' = NoProc /\ (child # NoProc => proc'[child] = "exited"),
         \A p \in Procs : proc'[p] = "running" => proc[p] = "running"
  PROVE  InHand' /\ NoStrayEngine'
<1>1. InHand'
  <2> SUFFICES ASSUME NEW u \in Threads, thr'[u].proc # NoProc
               PROVE  /\ thr'[u].pc \in {"slot", "publish"}
                      /\ thr'[Monitor(thr'[u].proc)].pc = "done"
                      /\ \A v \in Threads : thr'[v].proc = thr'[u].proc => v = u
    BY DEF InHand
  <2>1. thr'[u] = thr[u] /\ u # t
    OBVIOUS
  <2>2. thr[u].proc \in Procs /\ Monitor(thr[u].proc) \in Threads
    BY <2>1, ThreadFields, ThreadIds
  <2>3. Monitor(thr[u].proc) # t
    BY <2>1, <2>2 DEF InHand
  <2> QED BY <2>1, <2>2, <2>3 DEF InHand
<1>2. NoStrayEngine'
  <2> SUFFICES ASSUME NEW p \in Procs, proc'[p] = "running"
               PROVE  \/ child' = p
                      \/ \E u \in Threads : thr'[u].pc = "slot" /\ thr'[u].proc = p
    BY DEF NoStrayEngine
  <2>1. p # NoProc /\ proc[p] = "running"
    BY ProcsAssumption
  <2>2. CASE child = p
    BY <2>1, <2>2
  <2>3. CASE \E u \in Threads : thr[u].pc = "slot" /\ thr[u].proc = p
    BY <2>3
  <2> QED BY <2>1, <2>2, <2>3 DEF NoStrayEngine
<1> QED BY <1>1, <1>2

Hands == InHand /\ NoStrayEngine

\* record_log kills what is in the slot at most.
LEMMA HandsReader ==
  ASSUME TypeOK, Supervision, Hands, NEW p \in Procs,
         ReadLine(p) \/ Sweep(p) \/ ReadSession(p) \/ ReadChain(p)
         \/ ChainStarted(p) \/ ReadProxy(p) \/ ReadEof(p)
  PROVE  Hands'
<1> DEFINE t == Reader(p)
<1>0. DataOK /\ InHand /\ NoStrayEngine /\ t \in Threads
      /\ \A q \in Procs : t # Monitor(q)
  BY ThreadIds DEF TypeOK, Hands
<1>1. thr[t].pc \notin {"slot", "publish"}
  BY DEF ReadLine, Sweep, ReadSession, ReadChain, ChainStarted, ReadProxy, ReadEof
<1>2. child' = child
  BY DEF ReadLine, Sweep, ReadSession, ReadChain, ChainStarted, ReadProxy, ReadEof
<1>3. \A q \in Procs : proc'[q] = "running" => proc[q] = "running"
  BY <1>0 DEF ReadLine, Sweep, ReadSession, ReadChain, ChainStarted, ReadProxy,
     ReadEof, Killed, DataOK
<1>4. thr'[t].proc = NoProc /\ \A u \in Threads \ {t} : thr'[u] = thr[u]
  <2>1. CASE End(t) \/ \E l : Goto(t, l) \/ GotoAfresh(t, l)
    BY <1>0, <1>1, <2>1, Empty, After DEF MovesTo
  <2>2. CASE ReadSession(p)
    <3> DEFINE r == [thr[t] EXCEPT !.pc = "chain", !.profile = session.profile]
    <3>1. Become(t, r)
      BY <2>2 DEF ReadSession
    <3>2. r.proc = NoProc
      BY <1>0, <1>1, Empty, ThreadFields DEF Thread
    <3> HIDE DEF r
    <3> QED BY <1>0, <3>1, <3>2, After DEF MovesTo
  <2>3. ASSUME NEW b \in BOOLEAN, GotoAfterChain(p, b)
        PROVE  thr'[t].proc = NoProc /\ \A u \in Threads \ {t} : thr'[u] = thr[u]
    <3> DEFINE r == [Ended EXCEPT !.pc = "proxy", !.gen = thr[t].gen,
                                  !.listener = b]
    <3>1. Become(t, r) \/ GotoAfresh(t, "read")
      BY <2>3 DEF GotoAfterChain
    <3>2. r.proc = NoProc
      BY DEF Ended
    <3> HIDE DEF r
    <3> QED BY <1>0, <2>1, <3>1, <3>2, After DEF MovesTo
  <2> QED
    BY <2>1, <2>2, <2>3
       DEF ReadLine, Sweep, ReadChain, ChainStarted, ReadProxy, ReadEof
<1> QED BY <1>0, <1>1, <1>2, <1>3, <1>4, HandsCalm DEF Hands

\* An exit monitor takes an engine that has ended.
LEMMA HandsMonitor ==
  ASSUME TypeOK, Supervision, Hands, NEW p \in Procs,
         MonitorCheck(p) \/ MonitorPoll(p)
  PROVE  Hands'
<1> DEFINE t == Monitor(p)
<1>0. DataOK /\ InHand /\ NoStrayEngine /\ t \in Threads
  BY ThreadIds DEF TypeOK, Hands
<1>1. thr[t].pc \in {"watch", "poll"} /\ UNCHANGED proc
  BY DEF MonitorCheck, MonitorPoll
<1>2. \/ child' = child
      \/ child' = NoProc /\ (child # NoProc => proc'[child] = "exited")
  <2>1. CASE MonitorCheck(p)
    BY <2>1 DEF MonitorCheck
  <2>2. CASE MonitorPoll(p) /\ child # NoProc /\ proc[child] = "exited"
    BY <1>1, <2>2 DEF MonitorPoll
  <2>3. CASE MonitorPoll(p) /\ ~(child # NoProc /\ proc[child] = "exited")
    BY <2>3 DEF MonitorPoll
  <2> QED BY <2>1, <2>2, <2>3
<1>3. End(t) \/ \E l : Goto(t, l)
  BY DEF MonitorCheck, MonitorPoll
<1>4. thr'[t].proc = NoProc /\ \A u \in Threads \ {t} : thr'[u] = thr[u]
  BY <1>0, <1>1, <1>3, Empty, After DEF MovesTo
<1> QED BY <1>0, <1>1, <1>2, <1>4, HandsCalm DEF Hands

\* handle_exit leaves the engines alone.
LEMMA HandsExit ==
  ASSUME TypeOK, Supervision, Hands, NEW t \in Threads, HandleExit(t)
  PROVE  Hands'
<1>0. DataOK /\ InHand /\ NoStrayEngine
  BY DEF TypeOK, Hands
<1>1. thr[t].pc \notin {"slot", "publish", "done"} /\ UNCHANGED <<child, proc>>
  BY DEF HandleExit, ExitReason, ExitTerminal, ExitHolding, Decide, RetryClear,
     RetryAnnounce, Hold, GiveUp, Show, GiveUpProxy, WaitOver
<1>2. thr'[t].proc = NoProc /\ \A u \in Threads \ {t} : thr'[u] = thr[u]
  <2>1. CASE End(t) \/ \E l : Goto(t, l) \/ GotoAfresh(t, l)
    BY <1>0, <1>1, <2>1, Empty, After DEF MovesTo
  <2>2. ASSUME NEW l, NEW f, Become(t, [thr[t] EXCEPT !.pc = l, !.profile = f])
        PROVE  thr'[t].proc = NoProc /\ \A u \in Threads \ {t} : thr'[u] = thr[u]
    <3>1. [thr[t] EXCEPT !.pc = l, !.profile = f].proc = NoProc
      BY <1>0, <1>1, Empty, ThreadFields DEF Thread
    <3> QED BY <1>0, <2>2, <3>1, After DEF MovesTo
  <2>3. CASE ExitHolding(t)
    <3> DEFINE r == [thr[t] EXCEPT
                       !.pc = "decide",
                       !.holding = session.profile.kill_switch /\ route # "none"]
    <3>1. Become(t, r)
      BY <2>3 DEF ExitHolding
    <3>2. r.proc = NoProc
      BY <1>0, <1>1, Empty, ThreadFields DEF Thread
    <3> HIDE DEF r
    <3> QED BY <1>0, <3>1, <3>2, After DEF MovesTo
  <2>4. CASE ExitTerminal(t) \/ Decide(t)
    BY <2>1, <2>2, <2>4 DEF ExitTerminal, Decide
  <2>5. CASE GiveUp(t)
    BY <2>1, <2>5 DEF GiveUp, Show
  <2>6. CASE RetryAnnounce(t) \/ Hold(t)
    BY <2>1, <2>6 DEF RetryAnnounce, Hold, Show
  <2>7. CASE ExitReason(t) \/ RetryClear(t) \/ GiveUpProxy(t) \/ WaitOver(t)
    BY <2>1, <2>7 DEF ExitReason, RetryClear, GiveUpProxy, WaitOver
  <2> QED BY <2>3, <2>4, <2>5, <2>6, <2>7 DEF HandleExit
<1> QED BY <1>0, <1>1, <1>2, HandsCalm DEF Hands

\* A disconnect kills the engine it takes from the slot.
LEMMA HandsCommands ==
  ASSUME TypeOK, Supervision, Hands, "kill" \notin Faults,
         \/ StartCheck \/ StartBump \/ StartClaim \/ StartUnclaim
         \/ StopBegin \/ StopStep \/ ToggleBegin \/ ToggleStep
  PROVE  Hands'
<1>0. DataOK /\ InHand /\ NoStrayEngine /\ Roles
  BY DEF TypeOK, Hands, Supervision
<1>1. PICK t \in {Start, Stop, Toggle} :
        /\ thr[t].pc \notin {"slot", "publish"}
        /\ thr'[t].proc = NoProc /\ \A u \in Threads \ {t} : thr'[u] = thr[u]
  <2>1. CASE StartCheck
    <3>1. PICK profile \in Profiles :
            Become(Start, [Ended EXCEPT !.pc = "bump", !.profile = profile])
      BY <2>1 DEF StartCheck
    <3> DEFINE r == [Ended EXCEPT !.pc = "bump", !.profile = profile]
    <3>2. r.proc = NoProc
      BY DEF Ended
    <3>3. thr[Start].pc = "done" /\ Start \in Threads
      BY <2>1, ThreadIds DEF StartCheck
    <3> HIDE DEF r
    <3>4. Become(Start, r)
      BY <3>1 DEF r
    <3> QED BY <1>0, <3>2, <3>3, <3>4, After DEF MovesTo
  <2>2. CASE StartBump
    <3> DEFINE r == [thr[Start] EXCEPT !.pc = "claim", !.gen = generation + 1]
    <3>1. Become(Start, r) /\ thr[Start].pc = "bump" /\ Start \in Threads
      BY <2>2, ThreadIds DEF StartBump
    <3>2. r.proc = NoProc
      BY <1>0, <3>1, Empty, ThreadFields DEF Thread
    <3> HIDE DEF r
    <3> QED BY <1>0, <3>1, <3>2, After DEF MovesTo
  <2>3. CASE StartClaim \/ StartUnclaim
    <3>1. /\ Start \in Threads /\ thr[Start].pc \notin {"slot", "publish"}
          /\ End(Start) \/ Goto(Start, "spawn")
      BY <2>3, ThreadIds DEF StartClaim, StartUnclaim
    <3> QED BY <1>0, <3>1, Empty, After DEF MovesTo
  <2>4. CASE StopBegin \/ StopStep
    <3>1. /\ Stop \in Threads /\ thr[Stop].pc \notin {"slot", "publish"}
          /\ End(Stop) \/ \E l : Goto(Stop, l)
      BY <2>4, ThreadIds DEF StopBegin, StopStep, StopBump, StopSession, StopClear,
         StopKill, StopIdle
    <3> QED BY <1>0, <3>1, Empty, After DEF MovesTo
  <2>5. CASE ToggleBegin \/ ToggleStep
    <3>1. Toggle \in Threads /\ thr[Toggle].pc \notin {"slot", "publish"}
      BY <1>0, ThreadIds DEF Roles
    <3>2. CASE End(Toggle) \/ \E l : Goto(Toggle, l)
      BY <1>0, <3>1, <3>2, Empty, After DEF MovesTo
    <3>3. ASSUME NEW b,
                 Become(Toggle, [thr[Toggle] EXCEPT !.pc = "apply", !.listener = b])
          PROVE  /\ thr'[Toggle].proc = NoProc
                 /\ \A u \in Threads \ {Toggle} : thr'[u] = thr[u]
      <4>1. [thr[Toggle] EXCEPT !.pc = "apply", !.listener = b].proc = NoProc
        BY <1>0, <3>1, Empty, ThreadFields DEF Thread
      <4> QED BY <1>0, <3>1, <3>3, <4>1, After DEF MovesTo
    <3>4. \/ End(Toggle) \/ \E l : Goto(Toggle, l)
          \/ \E b : Become(Toggle, [thr[Toggle] EXCEPT !.pc = "apply",
                                                       !.listener = b])
      BY <2>5 DEF ToggleBegin, ToggleStep, ToggleDisable, ToggleEnable, ToggleApply
    <3> QED BY <3>1, <3>2, <3>3, <3>4
  <2> QED BY <2>1, <2>2, <2>3, <2>4, <2>5
<1>2. \/ child' = child
      \/ child' = NoProc /\ (child # NoProc => proc'[child] = "exited")
  <2>1. CASE StopKill
    <3>1. child' = NoProc /\ proc' = Killed(child) /\ (child # NoProc => child \in Procs)
      BY <1>0, <2>1 DEF StopKill, DataOK
    <3>2. child # NoProc => proc'[child] = "exited"
      BY <1>0, <3>1 DEF Killed, DataOK
    <3> QED BY <3>1, <3>2
  <2> QED
    BY <2>1 DEF StartCheck, StartBump, StartClaim, StartUnclaim, StopBegin, StopStep,
       StopBump, StopSession, StopClear, StopIdle, ToggleBegin, ToggleStep,
       ToggleDisable, ToggleEnable, ToggleApply
<1>3. \A q \in Procs : proc'[q] = "running" => proc[q] = "running"
  BY <1>0 DEF StartCheck, StartBump, StartClaim, StartUnclaim, StopBegin, StopStep,
     StopBump, StopSession, StopClear, StopKill, StopIdle, ToggleBegin, ToggleStep,
     ToggleDisable, ToggleEnable, ToggleApply, Killed, DataOK
<1>4. t \in Threads /\ \A p \in Procs : t # Monitor(p)
  BY ThreadIds
<1> QED BY <1>0, <1>1, <1>2, <1>3, <1>4, HandsCalm DEF Hands

\* launch hands a fresh process from its thread to the slot, or kills it.
LEMMA HandsLaunch ==
  ASSUME TypeOK, Supervision, Hands, ~SlowRoutes, NEW t \in Threads,
         Spawn(t) \/ ClaimSlot(t) \/ Publish(t)
  PROVE  Hands'
<1>0. DataOK /\ InHand /\ NoStrayEngine /\ Roles /\ Claims
  BY DEF TypeOK, Hands, Supervision, Claims
<1>1. CASE Spawn(t)
  <2>0. thr[t].pc = "spawn" /\ thr[t].proc = NoProc /\ child' = child
    BY <1>0, <1>1 DEF Spawn, InHand
  <2>1. ASSUME Goto(t, IF t = Start THEN "unclaim" ELSE "exit"), UNCHANGED proc
        PROVE  Hands'
    <3>1. thr'[t].proc = NoProc /\ \A u \in Threads \ {t} : thr'[u] = thr[u]
      BY <1>0, <2>0, <2>1, Empty, After DEF MovesTo
    <3> QED BY <1>0, <2>0, <2>1, <3>1, HandsCalm DEF Hands
  <2>2. ASSUME NEW p \in Procs, Fresh(p), proc' = [proc EXCEPT ![p] = "running"],
               Become(t, [thr[t] EXCEPT !.pc = "slot", !.proc = p])
        PROVE  Hands'
    <3> DEFINE r == [thr[t] EXCEPT !.pc = "slot", !.proc = p]
    <3>1. r.pc = "slot" /\ r.proc = p
      BY <1>0, ThreadFields DEF Thread
    <3>2. thr'[t] = r /\ \A u \in Threads \ {t} : thr'[u] = thr[u]
      BY <1>0, <2>2, After DEF MovesTo
    <3> HIDE DEF r
    <3>3. /\ \A u \in Threads : thr[u].proc # p
          /\ thr[Monitor(p)].pc = "done" /\ Monitor(p) # t /\ Monitor(p) \in Threads
      BY <2>0, <2>2, ThreadIds DEF Fresh
    <3>4. InHand'
      <4> SUFFICES ASSUME NEW u \in Threads, thr'[u].proc # NoProc
                   PROVE  /\ thr'[u].pc \in {"slot", "publish"}
                          /\ thr'[Monitor(thr'[u].proc)].pc = "done"
                          /\ \A v \in Threads :
                               thr'[v].proc = thr'[u].proc => v = u
        BY DEF InHand
      <4>1. CASE u = t
        BY <3>1, <3>2, <3>3, <4>1
      <4>2. CASE u # t
        <5>1. thr'[u] = thr[u] /\ thr[u].proc # p
          BY <3>2, <3>3, <4>2
        <5>2. thr[u].proc \in Procs /\ Monitor(thr[u].proc) \in Threads
          BY <1>0, <5>1, ThreadFields, ThreadIds
        <5>3. Monitor(thr[u].proc) # t
          BY <1>0, <2>0, <5>1 DEF InHand
        <5>4. thr[u].pc \in {"slot", "publish"} /\ thr[Monitor(thr[u].proc)].pc = "done"
          BY <1>0, <5>1 DEF InHand
        <5>5. ASSUME NEW v \in Threads, thr'[v].proc = thr'[u].proc PROVE v = u
          <6>1. v # t
            BY <3>1, <3>2, <5>1, <5>5
          <6> QED BY <1>0, <3>2, <5>1, <5>5, <6>1 DEF InHand
        <5> QED BY <3>2, <5>1, <5>2, <5>3, <5>4, <5>5
      <4> QED BY <4>1, <4>2
    <3>5. NoStrayEngine'
      <4> SUFFICES ASSUME NEW q \in Procs, proc'[q] = "running"
                   PROVE  \/ child' = q
                          \/ \E u \in Threads : thr'[u].pc = "slot" /\ thr'[u].proc = q
        BY DEF NoStrayEngine
      <4>1. CASE q = p
        BY <3>1, <3>2, <4>1
      <4>2. CASE q # p
        <5>1. proc[q] = "running"
          BY <1>0, <2>2, <4>2 DEF DataOK
        <5>2. CASE child = q
          BY <2>0, <5>2
        <5>3. CASE \E u \in Threads : thr[u].pc = "slot" /\ thr[u].proc = q
          <6>1. PICK u \in Threads : thr[u].pc = "slot" /\ thr[u].proc = q
            BY <5>3
          <6>2. thr'[u] = thr[u]
            BY <2>0, <3>2, <6>1
          <6> QED BY <6>1, <6>2
        <5> QED BY <1>0, <5>1, <5>2, <5>3 DEF NoStrayEngine
      <4> QED BY <4>1, <4>2
    <3> QED BY <3>4, <3>5 DEF Hands
  <2> QED BY <1>1, <2>1, <2>2 DEF Spawn
<1>2. CASE ClaimSlot(t)
  <2> DEFINE p == thr[t].proc
  <2>0. thr[t].pc = "slot" /\ \A u \in Threads \ {t} : thr'[u] = thr[u]
    BY <1>0, <1>2, After DEF ClaimSlot, MovesTo
  <2>1. \/ thr'[t].proc = NoProc
        \/ thr'[t].proc = p /\ thr'[t].pc = "publish"
    <3>1. CASE End(t)
      BY <1>0, <3>1 DEF DataOK, End, Become, Ended
    <3>2. CASE Goto(t, "publish")
      <4>1. /\ [thr[t] EXCEPT !.pc = "publish"].proc = p
            /\ [thr[t] EXCEPT !.pc = "publish"].pc = "publish"
        BY <1>0, ThreadFields DEF Thread
      <4> QED BY <1>0, <3>2, <4>1, After DEF Goto
    <3> QED BY <1>2, <3>1, <3>2 DEF ClaimSlot
  <2> HIDE DEF p
  <2>2. InHand'
    <3> SUFFICES ASSUME NEW u \in Threads, thr'[u].proc # NoProc
                 PROVE  /\ thr'[u].pc \in {"slot", "publish"}
                        /\ thr'[Monitor(thr'[u].proc)].pc = "done"
                        /\ \A v \in Threads : thr'[v].proc = thr'[u].proc => v = u
      BY DEF InHand
    <3>1. thr'[u].proc = thr[u].proc /\ thr'[u].pc \in {"slot", "publish"}
      BY <1>0, <2>0, <2>1 DEF InHand, p
    <3>2. thr[u].proc \in Procs /\ Monitor(thr[u].proc) \in Threads
      BY <1>0, <3>1, ThreadFields, ThreadIds
    <3>3. Monitor(thr[u].proc) # t /\ thr[Monitor(thr[u].proc)].pc = "done"
      BY <1>0, <2>0, <3>1 DEF InHand
    <3>4. ASSUME NEW v \in Threads, thr'[v].proc = thr'[u].proc PROVE v = u
      <4>1. thr[v].proc = thr[u].proc
        BY <2>0, <2>1, <3>1, <3>4 DEF p
      <4> QED BY <1>0, <3>1, <4>1 DEF InHand
    <3> QED BY <2>0, <3>1, <3>2, <3>3, <3>4
  <2>3. NoStrayEngine'
    <3> SUFFICES ASSUME NEW q \in Procs, proc'[q] = "running"
                 PROVE  \/ child' = q
                        \/ \E u \in Threads : thr'[u].pc = "slot" /\ thr'[u].proc = q
      BY DEF NoStrayEngine
    <3>1. q # NoProc
      BY ProcsAssumption
    <3>2. CASE is_current(t)
      <4>1. child' = p /\ proc' = proc
        BY <1>2, <3>2 DEF ClaimSlot, p
      <4>2. child = NoProc
        <5>1. Supervising(t)
          BY <1>0, <2>0, <3>2, OnDuty DEF Supervising, Answering
        <5> QED BY <1>0, <2>0, <5>1 DEF Claims, SlotAwaitsLaunch
      <4>3. PICK u \in Threads : thr[u].pc = "slot" /\ thr[u].proc = q
        BY <1>0, <3>1, <4>1, <4>2 DEF NoStrayEngine
      <4>4. CASE u = t
        BY <4>1, <4>3, <4>4 DEF p
      <4>5. CASE u # t
        BY <2>0, <4>3, <4>5
      <4> QED BY <4>4, <4>5
    <3>3. CASE ~is_current(t)
      <4>1. proc' = Killed(p) /\ child' = child
        BY <1>2, <3>3 DEF ClaimSlot, p
      <4>2. q # p /\ proc[q] = "running"
        BY <1>0, <3>1, <4>1 DEF Killed, DataOK
      <4>3. CASE child = q
        BY <4>1, <4>3
      <4>4. CASE \E u \in Threads : thr[u].pc = "slot" /\ thr[u].proc = q
        <5>1. PICK u \in Threads : thr[u].pc = "slot" /\ thr[u].proc = q
          BY <4>4
        <5>2. u # t
          BY <4>2, <5>1 DEF p
        <5> QED BY <2>0, <5>1, <5>2
      <4> QED BY <1>0, <4>2, <4>3, <4>4 DEF NoStrayEngine
    <3> QED BY <3>2, <3>3
  <2> QED BY <2>2, <2>3 DEF Hands
<1>3. CASE Publish(t)
  <2> DEFINE p == thr[t].proc
             minder(label) == [Ended EXCEPT !.pc = label, !.gen = thr[t].gen]
  <2>0. thr[t].pc = "publish" /\ UNCHANGED <<child, proc>>
    BY <1>3 DEF Publish
  <2>1. thr' = [thr EXCEPT ![t] = Ended, ![Monitor(p)] = minder("watch"),
                           ![Reader(p)] = minder("read"), ![Watch(p)] = Ended]
    BY <1>3 DEF Publish
  <2>2. Ended.proc = NoProc /\ \A l : minder(l).proc = NoProc
    BY DEF Ended
  <2> HIDE DEF minder
  <2>3. \A u \in Threads :
          \/ u \notin {t, Monitor(p), Reader(p), Watch(p)} /\ thr'[u] = thr[u]
          \/ thr'[u].proc = NoProc
    BY <1>0, <2>1, <2>2 DEF DataOK
  <2>4. \A u \in Threads : thr'[u] = thr[u] \/ u \in {t, Monitor(p), Reader(p), Watch(p)}
    BY <1>0, <2>1 DEF DataOK
  <2> HIDE DEF p
  <2>5. InHand'
    <3> SUFFICES ASSUME NEW u \in Threads, thr'[u].proc # NoProc
                 PROVE  /\ thr'[u].pc \in {"slot", "publish"}
                        /\ thr'[Monitor(thr'[u].proc)].pc = "done"
                        /\ \A v \in Threads : thr'[v].proc = thr'[u].proc => v = u
      BY DEF InHand
    <3>1. u # t /\ thr'[u] = thr[u]
      BY <2>3
    <3>2. thr[u].proc \in Procs /\ Monitor(thr[u].proc) \in Threads
      BY <1>0, <3>1, ThreadFields, ThreadIds
    <3>3. thr[u].proc # p
      BY <1>0, <3>1, <3>2 DEF InHand, p
    <3>4. Monitor(thr[u].proc) \notin {t, Monitor(p), Reader(p), Watch(p)}
      <4>1. thr[Monitor(thr[u].proc)].pc = "done"
        BY <1>0, <3>1 DEF InHand
      <4>2. Monitor(thr[u].proc) # t
        BY <2>0, <4>1
      <4>3. Monitor(thr[u].proc) # Monitor(p)
        BY <3>3, ThreadIds
      <4> QED BY <4>2, <4>3, ThreadIds
    <3>5. thr'[Monitor(thr[u].proc)] = thr[Monitor(thr[u].proc)]
      BY <2>4, <3>2, <3>4
    <3> QED BY <1>0, <2>3, <3>1, <3>5 DEF InHand
  <2>6. NoStrayEngine'
    <3> SUFFICES ASSUME NEW q \in Procs, proc[q] = "running", child # q
                 PROVE  \E u \in Threads : thr'[u].pc = "slot" /\ thr'[u].proc = q
      BY <2>0 DEF NoStrayEngine
    <3>1. PICK u \in Threads : thr[u].pc = "slot" /\ thr[u].proc = q
      BY <1>0 DEF NoStrayEngine
    <3>2. q # NoProc /\ u # t
      BY <2>0, <3>1, ProcsAssumption
    <3>3. u \notin {Monitor(p), Reader(p), Watch(p)}
      <4>1. \A x \in Procs : u # Reader(x) /\ u # Watch(x)
        BY <1>0, <3>1 DEF Roles
      <4>2. p \in Procs \/ p = NoProc
        BY <1>0, ThreadFields DEF p
      <4>3. CASE p = NoProc
        BY <4>3, NobodyMinds
      <4>4. CASE p \in Procs
        <5>1. thr[Monitor(p)].pc = "done"
          BY <1>0, <4>4, ProcsAssumption DEF InHand, p
        <5> QED BY <3>1, <4>1, <4>4, <5>1
      <4> QED BY <4>2, <4>3, <4>4
    <3>4. thr'[u] = thr[u]
      BY <2>4, <3>2, <3>3
    <3> QED BY <3>1, <3>4
  <2> QED BY <2>5, <2>6 DEF Hands
<1> QED BY <1>1, <1>2, <1>3

\* At first there is no engine.
LEMMA HandsInit == Init => Hands
<1> SUFFICES ASSUME Init PROVE Hands
  OBVIOUS
<1>1. \A t \in Threads : thr[t].proc = NoProc
  BY DEF Init, Ended
<1>2. \A p \in Procs : proc[p] = "exited"
  BY DEF Init
<1> QED BY <1>1, <1>2 DEF Hands, InHand, NoStrayEngine

\* Every engine stays in hand, unless a kill fails or a rescan is at work.
LEMMA HandsStep ==
  ASSUME ~SlowRoutes, "kill" \notin Faults
  PROVE  TypeOK /\ Supervision /\ Hands /\ [Next]_vars => Hands'
<1> SUFFICES ASSUME TypeOK, Supervision, Hands, [Next]_vars PROVE Hands'
  OBVIOUS
<1>1. CASE UNCHANGED vars
  BY <1>1 DEF vars, Hands, InHand, NoStrayEngine
<1>2. ASSUME NEW p \in Procs, EngineExits(p) PROVE Hands'
  <2>1. \A q \in Procs : proc'[q] = "running" => proc[q] = "running"
    BY <1>2 DEF EngineExits, TypeOK, DataOK
  <2> QED BY <1>2, <2>1 DEF EngineExits, Hands, InHand, NoStrayEngine
<1>3. Roles
  BY DEF Supervision
<1> QED
  BY <1>1, <1>2, <1>3, NextCases, HandsCommands, HandsLaunch, HandsExit,
     HandsMonitor, HandsReader, WatchIsIdle

\* Where no kill fails, every running engine is in the slot that a disconnect
\* empties, or held by the one thread that has spawned it and has yet to look
\* at the generation: none runs unsupervised.
THEOREM EnginesAreHeld ==
  ASSUME Patient, ~SlowRoutes, "kill" \notin Faults
  PROVE  Spec => []NoStrayEngine
<1>1. Init => Supervision /\ Hands
  BY SupervisionInit, HandsInit
<1>2. Supervision /\ Hands /\ [Next]_vars => (Supervision /\ Hands)'
  <2> SUFFICES ASSUME Supervision, Hands, [Next]_vars PROVE Supervision' /\ Hands'
    OBVIOUS
  <2>1. TypeOK
    BY DEF Supervision
  <2> QED BY <2>1, SupervisionStep, HandsStep
<1>3. Hands => NoStrayEngine
  BY DEF Hands
<1> QED BY <1>1, <1>2, <1>3, PTL DEF Spec

(***************************************************************************)
(* The supervisor implements Lifecycle.                                    *)
(***************************************************************************)
\* Only launch fills the slot, only a connect or a disconnect changes its mind.
LEMMA SlotSteps ==
  ASSUME Next
  PROVE  \/ wanted' = wanted /\ child' \in {child, NoProc}
         \/ StartBump \/ StopBump
         \/ \E t \in Threads : ClaimSlot(t)
<1>1. CASE StartCheck \/ StartBump \/ StartClaim \/ StartUnclaim
  BY <1>1 DEF StartCheck, StartClaim, StartUnclaim
<1>2. CASE StopBegin \/ StopStep
  BY <1>2 DEF StopBegin, StopStep, StopSession, StopClear, StopKill, StopIdle
<1>3. CASE ToggleBegin \/ ToggleStep
  BY <1>3 DEF ToggleBegin, ToggleStep, ToggleDisable, ToggleEnable, ToggleApply
<1>4. ASSUME NEW t \in Threads, Spawn(t) \/ Publish(t) \/ HandleExit(t)
      PROVE  wanted' = wanted /\ child' \in {child, NoProc}
  BY <1>4 DEF Spawn, Publish, HandleExit, ExitReason, ExitTerminal, ExitHolding,
     Decide, RetryClear, RetryAnnounce, Hold, GiveUp, GiveUpProxy, WaitOver,
     Show
<1>5. ASSUME NEW p \in Procs,
             \/ EngineExits(p) \/ MonitorCheck(p) \/ MonitorPoll(p)
             \/ ReadLine(p) \/ Sweep(p) \/ ReadSession(p) \/ ReadChain(p)
             \/ ChainStarted(p) \/ ReadProxy(p) \/ ReadEof(p)
      PROVE  wanted' = wanted /\ child' \in {child, NoProc}
  BY <1>5 DEF EngineExits, MonitorCheck, MonitorPoll, ReadLine, Sweep, ReadSession,
     ReadChain, ChainStarted, ReadProxy, ReadEof
<1>6. ASSUME NEW p \in Procs,
             \/ WatchEnds(p) \/ WatchBadRoute(p) \/ RescanReset(p)
             \/ RescanBump(p) \/ RescanQuell(p) \/ RescanUnproxy(p)
             \/ RescanClaim(p) \/ RescanShow(p)
      PROVE  wanted' = wanted /\ child' \in {child, NoProc}
  BY <1>6 DEF WatchEnds, WatchBadRoute, RescanReset, RescanBump, RescanQuell,
     RescanUnproxy, RescanClaim, RescanShow
<1> QED BY <1>1, <1>2, <1>3, <1>4, <1>5, <1>6, NextCases

\* Every step of the supervisor is one of Lifecycle's, or leaves its state alone.
LEMMA LifecycleStep == Supervision /\ [Next]_vars => [L!Next]_(L!vars)
<1> SUFFICES ASSUME Supervision, [Next]_vars PROVE [L!Next]_(L!vars)
  OBVIOUS
<1> USE DEF L!Next, L!vars, L!Connect, L!Disconnect, L!Launch, L!End
<1>1. CASE UNCHANGED vars
  BY <1>1 DEF vars
<1>2. CASE wanted' = wanted /\ child' \in {child, NoProc}
  BY <1>2
<1>3. CASE StartBump
  BY <1>3 DEF StartBump
<1>4. CASE StopBump
  BY <1>4 DEF StopBump
<1>5. ASSUME NEW t \in Threads, ClaimSlot(t) PROVE [L!Next]_(L!vars)
  <2>1. CASE ~is_current(t)
    BY <1>5, <2>1 DEF ClaimSlot
  <2>2. CASE is_current(t)
    <3>1. Supervising(t) /\ thr[t].pc = "slot"
      BY <1>5, <2>2, OnDuty
         DEF ClaimSlot, Supervision, TypeOK, Supervising, Answering
    <3>2. wanted /\ child = NoProc
      BY <3>1 DEF Supervision, SupervisedIsClaimed, SlotAwaitsLaunch
    <3>3. UNCHANGED wanted
      BY <1>5 DEF ClaimSlot
    <3> QED BY <3>2, <3>3
  <2> QED BY <2>1, <2>2
<1> QED BY <1>1, <1>2, <1>3, <1>4, <1>5, SlotSteps

\* An engine takes the slot only while a connection is asked for and only when
\* the slot is empty: every behaviour of the supervisor is one of Lifecycle.
THEOREM ImplementsLifecycle ==
  ASSUME Patient, ~SlowRoutes
  PROVE  Spec => L!SafeSpec
<1>1. Init => L!Init
  BY DEF Init, L!Init
<1> QED
  BY <1>1, SupervisionInit, SupervisionStep, LifecycleStep, PTL
     DEF Spec, L!SafeSpec


(***************************************************************************)
(* The kill switch, proved for every user, patient or not, for every fault *)
(* and for routes that go bad.  KillSwitchHolds is about steps; what makes *)
(* it true is that the profile a thread acts on when it clears a proxy was *)
(* copied from a session, and that no thread of a real generation ever     *)
(* copies the empty profile of a session that is gone.  Armed says so.     *)
(***************************************************************************)
\* The labels at which a thread holds a profile that decides what a later step
\* does to the system proxy or to the next session.
Acting == {"claim", "retry", "giveup", "giveup_ech", "release_proxy",
           "renew", "quell", "unproxy", "reclaim"}
\* The labels at which a thread holds a generation it may compare or claim with.
Numbered == {"claim", "spawn", "slot", "publish", "watch", "poll", "exit",
             "terminal", "holding", "decide", "retry", "announce", "wait", "hold",
             "reset", "renew", "quell", "unproxy", "reclaim", "reshow"}

ArmedAs(t, r) ==
  /\ r.pc \in Acting => r.profile.kill_switch
  /\ t = Start /\ r.pc = "bump" => r.profile.kill_switch
  /\ r.pc \in Numbered => r.gen # 0
SessionArmed == session.generation # 0 => session.profile.kill_switch
Armed == SessionArmed /\ \A t \in Threads : ArmedAs(t, thr[t])

\* A step is a thread moving on: the others are as armed as they were.
LEMMA ArmedBecome ==
  ASSUME DataOK, Armed, SessionArmed', NEW t \in Threads, NEW r,
         Become(t, r), ArmedAs(t, r)
  PROVE  Armed'
<1>1. thr'[t] = r /\ \A u \in Threads \ {t} : thr'[u] = thr[u]
  BY DEF DataOK, Become
<1> QED BY <1>1 DEF Armed, ArmedAs

\* A thread that ends holds nothing.
LEMMA ArmedEnd ==
  ASSUME DataOK, Armed, SessionArmed', NEW t \in Threads, End(t)
  PROVE  Armed'
<1>1. ArmedAs(t, Ended)
  BY DEF ArmedAs, Ended, Acting, Numbered
<1> QED BY <1>1, ArmedBecome DEF End

\* A thread that moves on holds what it held.
LEMMA ArmedGoto ==
  ASSUME DataOK, Armed, SessionArmed', NEW t \in Threads, NEW l, Goto(t, l),
         l \in Acting => thr[t].pc \in Acting, l = "bump" => t # Start,
         l \in Numbered => thr[t].pc \in Numbered
  PROVE  Armed'
<1> DEFINE r == [thr[t] EXCEPT !.pc = l]
<1>1. r.pc = l /\ r.gen = thr[t].gen /\ r.profile = thr[t].profile
  BY ThreadFields DEF Thread
<1>2. Become(t, r)
  BY DEF Goto
<1> HIDE DEF r
<1>3. ArmedAs(t, r)
  BY <1>1 DEF Armed, ArmedAs
<1> QED BY <1>2, <1>3, ArmedBecome

\* A thread that moves on with nothing but its generation.
LEMMA ArmedGotoAfresh ==
  ASSUME DataOK, Armed, SessionArmed', NEW t \in Threads, NEW l, GotoAfresh(t, l),
         l \notin Acting \union {"bump"},
         l \in Numbered => thr[t].pc \in Numbered
  PROVE  Armed'
<1> DEFINE r == [Ended EXCEPT !.pc = l, !.gen = thr[t].gen]
<1>1. r.pc = l /\ r.gen = thr[t].gen
  BY DEF Ended
<1>2. Become(t, r)
  BY DEF GotoAfresh
<1> HIDE DEF r
<1>3. ArmedAs(t, r)
  BY <1>1 DEF Armed, ArmedAs
<1> QED BY <1>2, <1>3, ArmedBecome

\* A thread that takes a profile in hand takes it from a session it has checked.
LEMMA ArmedTake ==
  ASSUME DataOK, Armed, SessionArmed', NEW t \in Threads, NEW l, NEW f,
         Become(t, [thr[t] EXCEPT !.pc = l, !.profile = f]),
         thr[t].pc \in Numbered, l # "bump", l \in Acting => f.kill_switch
  PROVE  Armed'
<1> DEFINE r == [thr[t] EXCEPT !.pc = l, !.profile = f]
<1>1. r.pc = l /\ r.gen = thr[t].gen /\ r.profile = f
  BY ThreadFields DEF Thread
<1> HIDE DEF r
<1>2. ArmedAs(t, r)
  BY <1>1 DEF Armed, ArmedAs
<1>3. Become(t, r)
  BY DEF r
<1> QED BY <1>2, <1>3, ArmedBecome

\* start_core claims with the profile the user chose.
LEMMA ArmedStart ==
  ASSUME DataOK, Armed, \A f \in Profiles : f.kill_switch,
         StartCheck \/ StartBump \/ StartClaim \/ StartUnclaim
  PROVE  Armed'
<1>0. SessionArmed /\ ArmedAs(Start, thr[Start]) /\ Start \in Threads
  BY ThreadIds DEF Armed
<1>1. CASE StartCheck
  <2>1. PICK f \in Profiles : Become(Start, [Ended EXCEPT !.pc = "bump", !.profile = f])
    BY <1>1 DEF StartCheck
  <2> DEFINE r == [Ended EXCEPT !.pc = "bump", !.profile = f]
  <2>2. r.pc = "bump" /\ r.profile = f
    BY DEF Ended
  <2>3. Become(Start, r)
    BY <2>1
  <2> HIDE DEF r
  <2>4. ArmedAs(Start, r)
    BY <2>2 DEF ArmedAs, Numbered
  <2>5. SessionArmed'
    BY <1>0, <1>1 DEF StartCheck, SessionArmed
  <2> QED BY <1>0, <2>3, <2>4, <2>5, ArmedBecome
<1>2. CASE StartBump
  <2> DEFINE r == [thr[Start] EXCEPT !.pc = "claim", !.gen = generation + 1]
  <2>1. r.pc = "claim" /\ r.gen = generation + 1 /\ r.profile = thr[Start].profile
    BY <1>0, ThreadFields DEF Thread
  <2>2. Become(Start, r) /\ thr[Start].pc = "bump"
    BY <1>2 DEF StartBump
  <2>3. generation + 1 # 0
    BY DEF DataOK
  <2> HIDE DEF r
  <2>4. ArmedAs(Start, r)
    BY <1>0, <2>1, <2>2, <2>3, ThreadIds DEF ArmedAs, Acting, Numbered
  <2>5. SessionArmed'
    BY <1>0, <1>2 DEF StartBump, SessionArmed
  <2> QED BY <1>0, <2>2, <2>4, <2>5, ArmedBecome
<1>3. CASE StartClaim
  <2>1. thr[Start].pc = "claim" /\ Goto(Start, "spawn")
    BY <1>3 DEF StartClaim
  <2>2. thr[Start].profile.kill_switch
    BY <1>0, <2>1, ThreadIds DEF ArmedAs, Acting, Numbered
  <2>3. SessionArmed'
    BY <1>3, <2>2 DEF StartClaim, SessionArmed, NewSession
  <2> QED BY <1>0, <2>1, <2>3, ArmedGoto DEF Acting, Numbered
<1>4. CASE StartUnclaim
  <2>1. SessionArmed'
    BY <1>4 DEF StartUnclaim, SessionArmed, NoSession
  <2> QED BY <1>0, <1>4, <2>1, ArmedEnd DEF StartUnclaim
<1> QED BY <1>1, <1>2, <1>3, <1>4

\* The minders of a new process inherit the generation that launched it.
LEMMA ArmedLaunch ==
  ASSUME DataOK, Armed, NEW t \in Threads, Spawn(t) \/ ClaimSlot(t) \/ Publish(t)
  PROVE  Armed'
<1>0. SessionArmed /\ SessionArmed' /\ ArmedAs(t, thr[t])
  BY DEF Armed, SessionArmed, Spawn, ClaimSlot, Publish
<1>1. CASE Spawn(t)
  <2>1. thr[t].pc = "spawn"
    BY <1>1 DEF Spawn
  <2>2. ASSUME NEW p \in Procs,
               Become(t, [thr[t] EXCEPT !.pc = "slot", !.proc = p])
        PROVE  Armed'
    <3> DEFINE r == [thr[t] EXCEPT !.pc = "slot", !.proc = p]
    <3>1. r.pc = "slot" /\ r.gen = thr[t].gen /\ r.profile = thr[t].profile
      BY ThreadFields DEF Thread
    <3> HIDE DEF r
    <3>2. ArmedAs(t, r)
      BY <1>0, <2>1, <3>1 DEF ArmedAs, Acting, Numbered
    <3>3. Become(t, r)
      BY <2>2 DEF r
    <3> QED BY <1>0, <3>2, <3>3, ArmedBecome
  <2>3. ASSUME Goto(t, IF t = Start THEN "unclaim" ELSE "exit")
        PROVE  Armed'
    BY <1>0, <2>1, <2>3, ArmedGoto DEF Acting, Numbered
  <2> QED BY <1>1, <2>2, <2>3 DEF Spawn
<1>2. CASE ClaimSlot(t)
  BY <1>0, <1>2, ArmedGoto, ArmedEnd DEF ClaimSlot, Acting, Numbered
<1>3. CASE Publish(t)
  <2> DEFINE p == thr[t].proc
             m == [Ended EXCEPT !.pc = "watch", !.gen = thr[t].gen]
             r == [Ended EXCEPT !.pc = "read", !.gen = thr[t].gen]
             w == IF SlowRoutes THEN m ELSE Ended
  <2>0. thr[t].pc = "publish" /\ w \in {m, Ended}
    BY <1>3 DEF Publish
  <2>1. thr' = [thr EXCEPT ![t] = Ended, ![Monitor(p)] = m, ![Reader(p)] = r,
                           ![Watch(p)] = w]
    BY <1>3 DEF Publish
  <2>2. m.pc = "watch" /\ m.gen = thr[t].gen /\ r.pc = "read" /\ r.gen = thr[t].gen
    BY DEF Ended
  <2> HIDE DEF m, r, w, p
  <2>3. \A u \in Threads : thr'[u] \in {thr[u], Ended, m, r}
    BY <2>0, <2>1 DEF DataOK
  <2>4. thr[t].gen # 0
    BY <1>0, <2>0 DEF ArmedAs, Numbered
  <2>5. \A u \in Threads : ArmedAs(u, Ended) /\ ArmedAs(u, m) /\ ArmedAs(u, r)
    BY <2>2, <2>4 DEF ArmedAs, Ended, Acting, Numbered
  <2>6. \A u \in Threads : ArmedAs(u, thr'[u])
    BY <2>3, <2>5 DEF Armed
  <2> QED BY <1>0, <2>6 DEF Armed, ArmedAs
<1> QED BY <1>1, <1>2, <1>3

\* handle_exit decides with the profile of the session it has just matched.
LEMMA ArmedExit ==
  ASSUME DataOK, Armed, NEW t \in Threads, HandleExit(t)
  PROVE  Armed'
<1>0. SessionArmed /\ ArmedAs(t, thr[t])
  BY DEF Armed
<1>1. CASE ExitTerminal(t) \/ Decide(t)
  <2>0. thr[t].pc \in {"terminal", "decide"} /\ thr[t].gen # 0
    BY <1>0, <1>1 DEF ExitTerminal, Decide, ArmedAs, Numbered
  <2>1. SessionArmed'
    <3>1. \/ session' = NoSession \/ session' = session
          \/ \E n : session' = [session EXCEPT !.attempt = n]
      BY <1>1 DEF ExitTerminal, Decide
    <3>2. \A n : /\ [session EXCEPT !.attempt = n].generation = session.generation
                 /\ [session EXCEPT !.attempt = n].profile = session.profile
      BY DEF DataOK, Session
    <3>3. CASE session' = NoSession
      BY <3>3 DEF SessionArmed, NoSession
    <3>4. CASE session' # NoSession
      <4>1. session'.generation = session.generation
        BY <3>1, <3>2, <3>4
      <4>2. session'.profile = session.profile
        BY <3>1, <3>2, <3>4
      <4> QED BY <1>0, <4>1, <4>2 DEF SessionArmed
    <3> QED BY <3>3, <3>4
  <2>2. CASE session.generation # thr[t].gen
    BY <1>0, <1>1, <2>1, <2>2, ArmedEnd DEF ExitTerminal, Decide
  <2>3. CASE session.generation = thr[t].gen
    <3>1. session.profile.kill_switch
      BY <1>0, <2>0, <2>3 DEF SessionArmed
    <3>2. PICK l \in Labels \ {"bump"} :
            Become(t, [thr[t] EXCEPT !.pc = l, !.profile = session.profile])
      BY <1>1, <2>3 DEF ExitTerminal, Decide, decide_exit, Labels
    <3> QED BY <2>0, <2>1, <3>1, <3>2, ArmedTake DEF Numbered
  <2> QED BY <2>2, <2>3
<1>2. CASE ExitHolding(t)
  <2> DEFINE b == session.profile.kill_switch /\ route # "none"
             r == [thr[t] EXCEPT !.pc = "decide", !.holding = b]
  <2>1. r.pc = "decide" /\ r.gen = thr[t].gen
    BY ThreadFields DEF Thread
  <2>2. Become(t, r) /\ thr[t].pc = "holding" /\ session' = session
    BY <1>2 DEF ExitHolding
  <2> HIDE DEF r
  <2>3. ArmedAs(t, r)
    BY <1>0, <2>1, <2>2 DEF ArmedAs, Acting, Numbered
  <2> QED BY <1>0, <2>2, <2>3, ArmedBecome DEF SessionArmed
<1>3. CASE ExitReason(t) \/ RetryClear(t) \/ WaitOver(t) \/ GiveUpProxy(t)
  <2>1. SessionArmed'
    BY <1>0, <1>3
       DEF ExitReason, RetryClear, WaitOver, GiveUpProxy, SessionArmed
  <2>2. \/ End(t)
        \/ thr[t].pc = "exit" /\ Goto(t, "terminal")
        \/ thr[t].pc = "exit" /\ Goto(t, "holding")
        \/ thr[t].pc = "retry" /\ Goto(t, "announce")
        \/ thr[t].pc = "wait" /\ Goto(t, "spawn")
    BY <1>3 DEF ExitReason, RetryClear, WaitOver, GiveUpProxy
  <2> QED BY <2>1, <2>2, ArmedEnd, ArmedGoto DEF Acting, Numbered
<1>4. CASE RetryAnnounce(t) \/ Hold(t) \/ GiveUp(t)
  <2>1. SessionArmed'
    BY <1>0, <1>4 DEF RetryAnnounce, Hold, GiveUp, Show, SessionArmed
  <2>2. \/ End(t)
        \/ thr[t].pc \in {"announce", "hold"} /\ GotoAfresh(t, "wait")
        \/ thr[t].pc \in {"giveup", "giveup_ech"} /\ Goto(t, "release_proxy")
    BY <1>4 DEF RetryAnnounce, Hold, GiveUp, Show
  <2> QED BY <2>1, <2>2, ArmedEnd, ArmedGoto, ArmedGotoAfresh DEF Acting, Numbered
<1> QED BY <1>1, <1>2, <1>3, <1>4 DEF HandleExit

\* A disconnect and the toggle hold no profile; the toggle keeps the session's.
LEMMA ArmedCommands ==
  ASSUME DataOK, Armed, StopBegin \/ StopStep \/ ToggleBegin \/ ToggleStep
  PROVE  Armed'
<1>0. SessionArmed /\ Stop \in Threads /\ Toggle \in Threads /\ Start \notin {Stop, Toggle}
  BY ThreadIds DEF Armed
<1>1. CASE StopBegin \/ StopStep
  <2>1. SessionArmed'
    BY <1>0, <1>1 DEF StopBegin, StopStep, StopBump, StopSession, StopClear,
       StopKill, StopIdle, SessionArmed, NoSession
  <2>2. \/ End(Stop)
        \/ \E l \in {"bump", "session", "clear", "kill", "idle"} : Goto(Stop, l)
    BY <1>1 DEF StopBegin, StopStep, StopBump, StopSession, StopClear, StopKill,
       StopIdle
  <2> QED BY <1>0, <2>1, <2>2, ArmedEnd, ArmedGoto DEF Acting, Numbered
<1>2. CASE ToggleBegin
  <2>1. \/ session' = session
        \/ \E b \in BOOLEAN :
             session' = [session EXCEPT !.profile.system_proxy = b]
    BY <1>2 DEF ToggleBegin
  <2>2. \A b : LET s == [session EXCEPT !.profile.system_proxy = b]
               IN  /\ s.generation = session.generation
                   /\ s.profile.kill_switch = session.profile.kill_switch
    BY DEF DataOK, Session, Profile
  <2>3. SessionArmed'
    BY <1>0, <2>1, <2>2 DEF SessionArmed
  <2>4. Goto(Toggle, "enable") \/ Goto(Toggle, "disable")
    BY <1>2, CommandsAssumption DEF ToggleBegin
  <2> QED BY <1>0, <2>3, <2>4, ArmedGoto DEF Acting, Numbered
<1>3. CASE ToggleEnable \/ ToggleDisable \/ ToggleApply
  <2>1. SessionArmed'
    BY <1>0, <1>3 DEF ToggleEnable, ToggleDisable, ToggleApply, SessionArmed
  <2>2. ASSUME NEW b, Become(Toggle, [thr[Toggle] EXCEPT !.pc = "apply",
                                                        !.listener = b])
        PROVE  Armed'
    <3> DEFINE r == [thr[Toggle] EXCEPT !.pc = "apply", !.listener = b]
    <3>1. r.pc = "apply"
      BY <1>0, ThreadFields DEF Thread
    <3>2. ArmedAs(Toggle, r)
      BY <3>1 DEF ArmedAs, Acting, Numbered
    <3> QED BY <1>0, <2>1, <2>2, <3>2, ArmedBecome
  <2> QED BY <1>0, <1>3, <2>1, <2>2, ArmedEnd
          DEF ToggleEnable, ToggleDisable, ToggleApply
<1> QED BY <1>1, <1>2, <1>3 DEF ToggleStep

\* Exit monitors and log readers act on no profile that Armed speaks of.
LEMMA ArmedObservers ==
  ASSUME DataOK, Armed, NEW p \in Procs,
         \/ MonitorCheck(p) \/ MonitorPoll(p)
         \/ ReadLine(p) \/ Sweep(p) \/ ReadSession(p) \/ ReadChain(p)
         \/ ChainStarted(p) \/ ReadProxy(p) \/ ReadEof(p)
  PROVE  Armed'
<1>0. SessionArmed /\ Monitor(p) \in Threads /\ Reader(p) \in Threads
  BY ThreadIds DEF Armed
<1>1. CASE MonitorCheck(p) \/ MonitorPoll(p)
  <2>1. SessionArmed'
    BY <1>0, <1>1 DEF MonitorCheck, MonitorPoll, SessionArmed
  <2>2. \/ End(Monitor(p))
        \/ thr[Monitor(p)].pc \in {"watch", "poll"}
           /\ \E l \in {"poll", "watch", "exit"} : Goto(Monitor(p), l)
    BY <1>1 DEF MonitorCheck, MonitorPoll
  <2> QED BY <1>0, <2>1, <2>2, ArmedEnd, ArmedGoto DEF Acting, Numbered
<1>2. CASE ReadSession(p)
  <2> DEFINE r == [thr[Reader(p)] EXCEPT !.pc = "chain", !.profile = session.profile]
  <2>1. r.pc = "chain"
    BY <1>0, ThreadFields DEF Thread
  <2>2. ArmedAs(Reader(p), r)
    BY <2>1 DEF ArmedAs, Acting, Numbered
  <2>3. SessionArmed'
    BY <1>0, <1>2 DEF ReadSession, SessionArmed, DataOK, Session
  <2>4. Become(Reader(p), r)
    BY <1>2 DEF ReadSession
  <2> QED BY <1>0, <2>2, <2>3, <2>4, ArmedBecome
<1>3. CASE \/ ReadLine(p) \/ Sweep(p) \/ ReadChain(p)
           \/ ChainStarted(p) \/ ReadProxy(p) \/ ReadEof(p)
  <2>1. SessionArmed'
    BY <1>0, <1>3 DEF ReadLine, Sweep, ReadChain, ChainStarted, ReadProxy, ReadEof,
       SessionArmed
  <2>2. ASSUME NEW b, GotoAfterChain(p, b) PROVE Armed'
    <3> DEFINE r == [Ended EXCEPT !.pc = "proxy", !.gen = thr[Reader(p)].gen,
                                  !.listener = b]
               q == [Ended EXCEPT !.pc = "read", !.gen = thr[Reader(p)].gen]
    <3>1. r.pc = "proxy" /\ q.pc = "read"
      BY DEF Ended
    <3>2. ArmedAs(Reader(p), r) /\ ArmedAs(Reader(p), q)
      BY <3>1 DEF ArmedAs, Acting, Numbered
    <3>3. Become(Reader(p), r) \/ Become(Reader(p), q)
      BY <2>2 DEF GotoAfterChain, GotoAfresh
    <3> QED BY <1>0, <2>1, <3>2, <3>3, ArmedBecome
  <2>3. \/ End(Reader(p)) \/ GotoAfresh(Reader(p), "read")
        \/ \E l \in {"read", "session", "sweep", "mihomo"} : Goto(Reader(p), l)
        \/ \E b : GotoAfterChain(p, b)
    BY <1>3 DEF ReadLine, Sweep, ReadChain, ChainStarted, ReadProxy, ReadEof
  <2> QED BY <1>0, <2>1, <2>2, <2>3, ArmedEnd, ArmedGoto, ArmedGotoAfresh
          DEF Acting, Numbered
<1> QED BY <1>1, <1>2, <1>3

\* A rescan copies the profile of the session it has just matched.
LEMMA ArmedRescan ==
  ASSUME DataOK, Armed, NEW p \in Procs,
         \/ WatchEnds(p) \/ WatchBadRoute(p) \/ RescanReset(p)
         \/ RescanBump(p) \/ RescanQuell(p) \/ RescanUnproxy(p)
         \/ RescanClaim(p) \/ RescanShow(p)
  PROVE  Armed'
<1> DEFINE t == Watch(p)
<1>0. SessionArmed /\ ArmedAs(t, thr[t]) /\ t \in Threads
  BY ThreadIds DEF Armed
<1>1. CASE RescanReset(p)
  <2>0. thr[t].pc = "reset" /\ thr[t].gen # 0
    BY <1>0, <1>1 DEF RescanReset, ArmedAs, Numbered
  <2>1. SessionArmed'
    BY <1>0, <1>1 DEF RescanReset, SessionArmed, DataOK, Session
  <2>2. CASE session.generation # thr[t].gen
    BY <1>0, <1>1, <2>1, <2>2, ArmedEnd DEF RescanReset
  <2>3. CASE session.generation = thr[t].gen
    <3>1. session.profile.kill_switch
      BY <1>0, <2>0, <2>3 DEF SessionArmed
    <3>2. Become(t, [thr[t] EXCEPT !.pc = "renew", !.profile = session.profile])
      BY <1>1, <2>3 DEF RescanReset
    <3> QED BY <1>0, <2>0, <2>1, <3>1, <3>2, ArmedTake DEF Numbered
  <2> QED BY <2>2, <2>3
<1>2. CASE RescanBump(p)
  <2> DEFINE r == [thr[t] EXCEPT !.pc = "quell", !.gen = generation + 1]
  <2>1. r.pc = "quell" /\ r.gen = generation + 1 /\ r.profile = thr[t].profile
    BY <1>0, ThreadFields DEF Thread
  <2>2. Become(t, r) /\ thr[t].pc = "renew"
    BY <1>2 DEF RescanBump
  <2>3. generation + 1 # 0
    BY DEF DataOK
  <2> HIDE DEF r
  <2>4. ArmedAs(t, r)
    BY <1>0, <2>1, <2>2, <2>3 DEF ArmedAs, Acting, Numbered
  <2>5. SessionArmed'
    BY <1>0, <1>2 DEF RescanBump, SessionArmed
  <2> QED BY <1>0, <2>2, <2>4, <2>5, ArmedBecome
<1>3. CASE RescanClaim(p)
  <2>1. thr[t].pc = "reclaim" /\ Goto(t, "reshow")
    BY <1>3 DEF RescanClaim
  <2>2. thr[t].profile.kill_switch
    BY <1>0, <2>1 DEF ArmedAs, Acting
  <2>3. SessionArmed'
    BY <1>3, <2>2 DEF RescanClaim, SessionArmed, NewSession
  <2> QED BY <1>0, <2>1, <2>3, ArmedGoto DEF Acting, Numbered
<1>4. CASE WatchEnds(p) \/ WatchBadRoute(p) \/ RescanQuell(p) \/ RescanUnproxy(p)
           \/ RescanShow(p)
  <2>1. SessionArmed'
    BY <1>0, <1>4 DEF WatchEnds, WatchBadRoute, RescanQuell, RescanUnproxy,
       RescanShow, SessionArmed
  <2>2. \/ End(t)
        \/ thr[t].pc = "watch" /\ Goto(t, "reset")
        \/ thr[t].pc = "quell" /\ Goto(t, "unproxy")
        \/ thr[t].pc = "unproxy" /\ Goto(t, "reclaim")
        \/ thr[t].pc = "reshow" /\ Goto(t, "spawn")
    BY <1>4 DEF WatchEnds, WatchBadRoute, RescanQuell, RescanUnproxy, RescanShow
  <2> QED BY <1>0, <2>1, <2>2, ArmedEnd, ArmedGoto DEF Acting, Numbered
<1> QED BY <1>1, <1>2, <1>3, <1>4

\* With every profile armed, every step keeps the sessions and threads armed.
LEMMA ArmedStep ==
  ASSUME \A f \in Profiles : f.kill_switch
  PROVE  DataOK /\ Armed /\ [Next]_vars => Armed'
<1> SUFFICES ASSUME DataOK, Armed, [Next]_vars PROVE Armed'
  OBVIOUS
<1>1. CASE UNCHANGED vars
  BY <1>1 DEF vars, Armed, SessionArmed, ArmedAs
<1>2. ASSUME NEW p \in Procs, EngineExits(p) PROVE Armed'
  BY <1>2 DEF EngineExits, Armed, SessionArmed, ArmedAs
<1> QED
  BY <1>1, <1>2, NextCases, ArmedStart, ArmedLaunch, ArmedExit, ArmedCommands,
     ArmedObservers, ArmedRescan

\* The steps that take the proxy back are a stop's, the toggle's, a rescan's --
\* or a retry's and a verdict's, whose profile Armed speaks of.
LEMMA ProxyFalls ==
  ASSUME Next, DataOK, Armed, route # "none", route' = "none"
  PROVE  \/ thr[Stop].pc = "clear" \/ thr[Toggle].pc = "disable"
         \/ \E p \in Procs : thr[Watch(p)].pc = "unproxy"
<1>1. CASE StartCheck \/ StartBump \/ StartClaim \/ StartUnclaim
  BY <1>1 DEF StartCheck, StartBump, StartClaim, StartUnclaim, machine
<1>2. CASE StopBegin \/ StopStep
  BY <1>2 DEF StopBegin, StopStep, StopBump, StopSession, StopClear, StopKill,
     StopIdle, machine
<1>3. CASE ToggleBegin \/ ToggleStep
  BY <1>3 DEF ToggleBegin, ToggleStep, ToggleDisable, ToggleEnable, ToggleApply,
     ApplyProxyRoute, machine
<1>4. ASSUME NEW t \in Threads, Spawn(t) \/ ClaimSlot(t) \/ Publish(t) PROVE FALSE
  BY <1>4 DEF Spawn, ClaimSlot, Publish, machine
<1>5. ASSUME NEW t \in Threads, HandleExit(t) PROVE FALSE
  <2>1. CASE RetryClear(t) \/ GiveUpProxy(t)
    <3>1. thr[t].pc \in {"retry", "release_proxy"}
      BY <2>1 DEF RetryClear, GiveUpProxy
    <3>2. thr[t].profile.kill_switch
      BY <3>1 DEF Armed, ArmedAs, Acting
    <3> QED BY <2>1, <3>2 DEF RetryClear, GiveUpProxy
  <2> QED
    BY <1>5, <2>1 DEF HandleExit, ExitReason, ExitTerminal, ExitHolding, Decide,
       RetryAnnounce, Hold, GiveUp, WaitOver, Show, machine
<1>6. ASSUME NEW p \in Procs,
             \/ EngineExits(p) \/ MonitorCheck(p) \/ MonitorPoll(p)
             \/ ReadLine(p) \/ Sweep(p) \/ ReadSession(p) \/ ReadChain(p)
             \/ ChainStarted(p) \/ ReadProxy(p) \/ ReadEof(p)
      PROVE  FALSE
  BY <1>6 DEF EngineExits, MonitorCheck, MonitorPoll, ReadLine, Sweep, ReadSession,
     ReadChain, ChainStarted, ReadProxy, ReadEof, ApplyProxyRoute, machine
<1>7. ASSUME NEW p \in Procs,
             \/ WatchEnds(p) \/ WatchBadRoute(p) \/ RescanReset(p)
             \/ RescanBump(p) \/ RescanQuell(p) \/ RescanUnproxy(p)
             \/ RescanClaim(p) \/ RescanShow(p)
      PROVE  thr[Watch(p)].pc = "unproxy"
  BY <1>7 DEF WatchEnds, WatchBadRoute, RescanReset, RescanBump, RescanQuell,
     RescanUnproxy, RescanClaim, RescanShow, machine
<1> QED BY <1>1, <1>2, <1>3, <1>4, <1>5, <1>6, <1>7, NextCases

\* When every profile has the kill switch on, no failure, retry or verdict takes
\* the system proxy away: only a stop, the toggle or a rescan does.
THEOREM KillSwitchIsKept ==
  ASSUME \A f \in Profiles : f.kill_switch
  PROVE  Spec => KillSwitchHolds
<1>1. Init => DataOK /\ Armed
  BY TypeInit DEF Init, TypeOK, Armed, SessionArmed, ArmedAs, NoSession, Ended,
     Acting, Numbered
<1>2. DataOK /\ Armed /\ [Next]_vars => (DataOK /\ Armed)'
  BY DataStep, ArmedStep
<1>3. DataOK /\ Armed /\ [Next]_vars =>
        [route # "none" /\ route' = "none" =>
           \/ thr[Stop].pc = "clear" \/ thr[Toggle].pc = "disable"
           \/ \E p \in Procs : thr[Watch(p)].pc = "unproxy"]_vars
  BY ProxyFalls
<1> QED BY <1>1, <1>2, <1>3, PTL DEF Spec, KillSwitchHolds

(***************************************************************************)
(* The block that is shown.  A retry follows a hold through another exit   *)
(* to the next hold: Blocked says what holds the proxy where it is and     *)
(* keeps the thread that retries at work.                                  *)
(***************************************************************************)
\* The labels of a thread that retries, from a hold to the next engine; and what it
\* holds when it weighs another exit.
Retrying == {"exit", "holding", "decide", "retry", "announce", "hold", "wait", "release",
             "spawn", "slot", "publish"}
Retries(r) ==
  r.gen = generation /\ r.pc \in Retrying /\ (r.pc = "decide" => r.holding)
Holds(r) == r.gen = generation /\ (r.pc = "hold" \/ (r.pc = "decide" /\ r.holding))
Monitors(t) == \E p \in Procs : t = Monitor(p)
EndsForEch(r) == r.gen = generation /\ r.pc = "giveup_ech"

NobodyDisables == thr[Toggle].pc # "disable"
RouteIsHeld == \A t \in Threads : Holds(thr[t]) => route # "none"
BlockIsTrue ==
  snapshot.blocking => snapshot.pid = NoProc /\ ~snapshot.ech /\ route # "none"
BlockIsNursed ==
  snapshot.blocking /\ thr[Stop].pc \notin {"session", "clear"} =>
    \E p \in Procs : Retries(thr[Monitor(p)])
EchIsFinal ==
  \A t \in Threads : EndsForEch(thr[t]) =>
    ~snapshot.blocking /\ session = NoSession /\ thr[Start].pc # "claim"
Blocked == NobodyDisables /\ RouteIsHeld /\ BlockIsTrue /\ BlockIsNursed /\ EchIsFinal

\* What one thread's step may do: a proxy that is held stays; a block that is shown is
\* true, and was shown before or is shown by a thread that retries.
ShowsTruth(t, r) ==
  /\ route' = "none" => route = "none" \/ \A u \in Threads : ~Holds(thr[u])
  /\ snapshot'.blocking =>
       /\ snapshot'.pid = NoProc /\ ~snapshot'.ech /\ route' # "none"
       /\ \/ snapshot.blocking
          \/ session # NoSession /\ Retries(r) /\ Monitors(t)
       /\ Monitors(t) /\ Retries(thr[t]) => Retries(r)
       /\ t = Stop /\ thr[Stop].pc \in {"session", "clear"} => r.pc \in {"session", "clear"}
KeepsOver == thr[Start].pc = "claim" \/ (session = NoSession => session' = NoSession)

\* A thread that moves on so keeps the invariant.
LEMMA BlockedMove ==
  ASSUME DataOK, Blocked, NEW t \in Threads, NEW r, Become(t, r), generation' = generation,
         ShowsTruth(t, r), KeepsOver,
         Holds(r) => route' # "none",
         EndsForEch(r) => ~snapshot'.blocking /\ session' = NoSession /\ thr[Start].pc # "claim",
         t = Toggle => r.pc # "disable",
         t = Start => r.pc # "claim"
  PROVE  Blocked'
<1>1. thr'[t] = r /\ \A u \in Threads \ {t} : thr'[u] = thr[u]
  BY DEF DataOK, Become
<1>2. \A x : Retries(x)' <=> Retries(x')
  BY DEF Retries
<1>3. {Start, Stop, Toggle} \subseteq Threads /\ \A p \in Procs : Monitor(p) \in Threads
  BY ThreadIds
<1>4. NobodyDisables'
  BY <1>1, <1>3 DEF Blocked, NobodyDisables
<1>5. RouteIsHeld'
  BY <1>1 DEF Blocked, RouteIsHeld, Holds, ShowsTruth
<1>6. BlockIsTrue'
  BY DEF ShowsTruth, BlockIsTrue
<1>7. BlockIsNursed'
  <2> SUFFICES ASSUME snapshot'.blocking, thr'[Stop].pc \notin {"session", "clear"}
               PROVE  \E p \in Procs : Retries(thr[Monitor(p)])'
    BY DEF BlockIsNursed
  <2>1. CASE Monitors(t) /\ Retries(r)
    BY <1>1, <2>1 DEF Monitors, Retries
  <2>2. CASE snapshot.blocking
    <3>1. thr[Stop].pc \notin {"session", "clear"}
      BY <1>1, <1>3 DEF ShowsTruth
    <3>2. PICK p \in Procs : Retries(thr[Monitor(p)])
      BY <2>2, <3>1 DEF Blocked, BlockIsNursed
    <3> QED BY <1>1, <1>3, <3>2 DEF ShowsTruth, Retries, Monitors
  <2> QED BY <2>1, <2>2 DEF ShowsTruth
<1>8. EchIsFinal'
  <2> SUFFICES ASSUME NEW u \in Threads, EndsForEch(thr[u])'
               PROVE  ~snapshot'.blocking /\ session' = NoSession /\ thr'[Start].pc # "claim"
    BY DEF EchIsFinal
  <2>1. CASE u = t
    BY <1>1, <1>3, <2>1 DEF EndsForEch
  <2>2. CASE u # t
    <3>1. EndsForEch(thr[u])
      BY <1>1, <2>2 DEF EndsForEch
    <3>2. ~snapshot.blocking /\ session = NoSession /\ thr[Start].pc # "claim"
      BY <3>1 DEF Blocked, EchIsFinal
    <3> QED BY <1>1, <1>3, <3>2 DEF KeepsOver, ShowsTruth
  <2> QED BY <2>1, <2>2
<1> QED BY <1>4, <1>5, <1>6, <1>7, <1>8 DEF Blocked

\* A step that changes no proxy and shows nothing new.
LEMMA ShowsNothing ==
  ASSUME Blocked, UNCHANGED <<snapshot, route>>, NEW t, NEW r,
         snapshot.blocking /\ Monitors(t) /\ Retries(thr[t]) => Retries(r),
         t = Stop /\ thr[Stop].pc \in {"session", "clear"} => r.pc \in {"session", "clear"}
  PROVE  ShowsTruth(t, r)
<1>1. snapshot' = snapshot /\ route' = route
  OBVIOUS
<1>2. snapshot.blocking => snapshot.pid = NoProc /\ ~snapshot.ech /\ route # "none"
  BY DEF Blocked, BlockIsTrue
<1> QED BY <1>1, <1>2 DEF ShowsTruth

\* After a bump nobody holds, retries or ends for the new generation but its author.
LEMMA BlockedBump ==
  ASSUME Supervision, Blocked, NEW t \in Threads, NEW r, Become(t, r),
         generation' = generation + 1, UNCHANGED <<snapshot, route>>,
         r.pc \notin {"hold", "decide", "giveup_ech", "disable"},
         \/ ~snapshot.blocking
         \/ t = Stop /\ r.pc = "session"
  PROVE  Blocked'
<1>1. thr'[t] = r /\ \A u \in Threads \ {t} : thr'[u] = thr[u]
  BY DEF DataOK, Become, Supervision, TypeOK
<1>2. \A u \in Threads \ {t} : thr'[u].gen # generation'
  BY <1>1, ThreadFields DEF Supervision, TypeOK, GenerationIssued, DataOK
<1>3. NobodyDisables'
  BY <1>1, ThreadIds DEF Blocked, NobodyDisables
<1>4. RouteIsHeld' /\ EchIsFinal'
  BY <1>1, <1>2 DEF RouteIsHeld, Holds, EchIsFinal, EndsForEch
<1>5. BlockIsTrue' /\ BlockIsNursed'
  BY <1>1 DEF Blocked, BlockIsTrue, BlockIsNursed
<1> QED BY <1>3, <1>4, <1>5 DEF Blocked

\* A step to a label that says nothing of itself.
LEMMA BlockedQuiet ==
  ASSUME DataOK, Blocked, NEW t \in Threads, NEW r, Become(t, r), generation' = generation,
         KeepsOver, ShowsTruth(t, r),
         r.pc \notin {"hold", "decide", "giveup_ech", "disable", "claim"}
  PROVE  Blocked'
BY BlockedMove DEF Holds, EndsForEch

\* The records that two of the usual moves make.
LEMMA MoveRecords ==
  ASSUME DataOK, NEW t \in Threads, NEW l \in Labels, Goto(t, l) \/ GotoAfresh(t, l)
  PROVE  \E r \in Thread : Become(t, r) /\ r.pc = l /\ r.gen = thr[t].gen
<1> DEFINE kept == [thr[t] EXCEPT !.pc = l]
           afresh == [Ended EXCEPT !.pc = l, !.gen = thr[t].gen]
<1>1. kept \in Thread /\ kept.pc = l /\ kept.gen = thr[t].gen
  <2>1. kept \in Thread
    BY ThreadFields, ThreadUpdates
  <2>2. kept.pc = l /\ kept.gen = thr[t].gen
    BY ThreadFields DEF Thread
  <2> QED BY <2>1, <2>2
<1>2. afresh \in Thread /\ afresh.pc = l /\ afresh.gen = thr[t].gen
  <2>1. afresh \in Thread
    BY ThreadFields, ThreadUpdates, EmptyRecords
  <2> QED BY <2>1 DEF Ended
<1>3. Become(t, kept) \/ Become(t, afresh)
  BY DEF Goto, GotoAfresh
<1> HIDE DEF kept, afresh
<1> QED BY <1>1, <1>2, <1>3

\* A thread that is no monitor, or does not retry, moves on and touches nothing shown.
LEMMA BlockedGoto ==
  ASSUME DataOK, Blocked, NEW t \in Threads, NEW l \in Labels, Goto(t, l) \/ GotoAfresh(t, l),
         generation' = generation, KeepsOver, UNCHANGED <<snapshot, route>>,
         l \notin {"hold", "decide", "giveup_ech", "disable", "claim"},
         t = Stop /\ thr[Stop].pc \in {"session", "clear"} => l \in {"session", "clear"},
         Monitors(t) /\ thr[t].pc \in Retrying => l \in Retrying
  PROVE  Blocked'
<1>1. PICK r \in Thread : Become(t, r) /\ r.pc = l /\ r.gen = thr[t].gen
  BY MoveRecords
<1>2. Monitors(t) /\ Retries(thr[t]) => Retries(r)
  BY <1>1 DEF Retries
<1>3. ShowsTruth(t, r)
  BY <1>1, <1>2, ShowsNothing
<1> QED BY <1>1, <1>3, BlockedQuiet

\* So may one end.
LEMMA BlockedEnd ==
  ASSUME DataOK, Blocked, NEW t \in Threads, End(t), generation' = generation,
         KeepsOver, UNCHANGED <<snapshot, route>>,
         t = Stop => thr[Stop].pc \notin {"session", "clear"},
         Monitors(t) => ~Retries(thr[t])
  PROVE  Blocked'
<1>1. Become(t, Ended) /\ Ended.pc = "done"
  BY DEF End, Ended
<1>2. ShowsTruth(t, Ended)
  BY <1>1, ShowsNothing
<1> QED BY <1>1, <1>2, BlockedQuiet

\* Nobody retries while a connect has yet to claim, so a block is over by then.
LEMMA NoneAtBump ==
  ASSUME Supervision, Blocked, thr[Start].pc = "bump" PROVE ~snapshot.blocking
<1>1. session = NoSession /\ thr[Stop].pc = "done"
  BY DEF Supervision, StartIsAlone
<1>2. ASSUME NEW p \in Procs, Retries(thr[Monitor(p)]) PROVE FALSE
  <2>1. Monitor(p) \in Threads
    BY ThreadIds
  <2>2. Supervising(Monitor(p)) /\ thr[Monitor(p)].pc # "claim"
    BY <1>2, <2>1, DutyFacts DEF Retries, Retrying, Supervising, Answering, is_current, Labels
  <2>3. session.generation = generation /\ thr[Monitor(p)].gen > 0
    BY <2>1, <2>2 DEF Supervision, SupervisedIsClaimed, GenerationIssued, Supervising
  <2>4. thr[Monitor(p)].gen = generation
    BY <2>2 DEF Supervising, is_current
  <2> QED BY <1>1, <2>3, <2>4 DEF NoSession
<1> QED BY <1>1, <1>2 DEF Blocked, BlockIsNursed

\* A connect: its check, bump, claim and failed launch.
LEMMA BlockedStart ==
  ASSUME Supervision, Blocked, StartCheck \/ StartBump \/ StartClaim \/ StartUnclaim
  PROVE  Blocked'
<1>0. DataOK /\ Start \in Threads /\ Start # Stop /\ ~Monitors(Start)
  BY ThreadIds DEF Supervision, TypeOK, Monitors
<1>1. CASE StartCheck
  <2>1. PICK f \in Profiles : Become(Start, [Ended EXCEPT !.pc = "bump", !.profile = f])
    BY <1>1 DEF StartCheck
  <2> DEFINE r == [Ended EXCEPT !.pc = "bump", !.profile = f]
  <2>2. r.pc = "bump" /\ Become(Start, r)
    BY <2>1 DEF Ended
  <2> HIDE DEF r
  <2>3. generation' = generation /\ KeepsOver /\ UNCHANGED <<snapshot, route>>
    BY <1>1 DEF StartCheck, KeepsOver, machine
  <2>4. ShowsTruth(Start, r)
    BY <1>0, <2>3, ShowsNothing
  <2> QED BY <1>0, <2>2, <2>3, <2>4, BlockedQuiet
<1>2. CASE StartBump
  <2> DEFINE r == [thr[Start] EXCEPT !.pc = "claim", !.gen = generation + 1]
  <2>1. r.pc = "claim"
    BY <1>0, ThreadFields DEF Thread
  <2>2. Become(Start, r) /\ ~snapshot.blocking /\ generation' = generation + 1
        /\ UNCHANGED <<snapshot, route>>
    BY <1>2, NoneAtBump DEF StartBump, machine
  <2> HIDE DEF r
  <2> QED BY <1>0, <2>1, <2>2, BlockedBump
<1>3. CASE StartClaim
  <2>1. /\ Goto(Start, "spawn") /\ "spawn" \in Labels
        /\ generation' = generation /\ UNCHANGED <<snapshot, route>>
    BY <1>3 DEF StartClaim, machine, Labels
  <2>2. KeepsOver
    BY <1>3 DEF StartClaim, KeepsOver
  <2> QED BY <1>0, <2>1, <2>2, BlockedGoto
<1>4. CASE StartUnclaim
  BY <1>0, <1>4, BlockedEnd DEF StartUnclaim, KeepsOver, machine
<1> QED BY <1>1, <1>2, <1>3, <1>4

\* Nobody holds anything while a disconnect clears the proxy.
LEMMA NoneAtClear ==
  ASSUME Supervision, thr[Stop].pc = "clear", NEW u \in Threads PROVE ~Holds(thr[u])
<1> SUFFICES ASSUME Holds(thr[u]) PROVE FALSE
  OBVIOUS
<1>1. thr[u].pc \in Duties(u) /\ thr[u].gen = generation
  BY OnDuty DEF Holds, Supervision, TypeOK
<1>2. wanted
  BY <1>1 DEF Supervision, SupervisedIsClaimed, Supervising, Answering, is_current
<1> QED BY <1>2 DEF Supervision, StopIsHeeded

\* A disconnect.
LEMMA BlockedStop ==
  ASSUME Supervision, Blocked, StopBegin \/ StopStep
  PROVE  Blocked'
<1>0. DataOK /\ Stop \in Threads /\ ~Monitors(Stop) /\ Stop # Start /\ Stop # Toggle
  BY ThreadIds DEF Supervision, TypeOK, Monitors
<1>1. CASE StopBegin
  <2>1. /\ Goto(Stop, "bump") /\ generation' = generation /\ KeepsOver
        /\ UNCHANGED <<snapshot, route>> /\ thr[Stop].pc = "done"
    BY <1>1 DEF StopBegin, KeepsOver
  <2> QED BY <1>0, <2>1, BlockedGoto DEF Labels
<1>2. CASE StopBump
  <2>1. /\ Goto(Stop, "session") /\ generation' = generation + 1
        /\ UNCHANGED <<snapshot, route>>
    BY <1>2 DEF StopBump, machine
  <2>2. PICK r \in Thread : Become(Stop, r) /\ r.pc = "session"
    BY <1>0, <2>1, MoveRecords DEF Labels
  <2> QED BY <1>0, <2>1, <2>2, BlockedBump
<1>3. CASE StopSession
  <2>1. /\ Goto(Stop, "clear") /\ generation' = generation /\ KeepsOver
        /\ UNCHANGED <<snapshot, route>>
    BY <1>3 DEF StopSession, KeepsOver, machine
  <2> QED BY <1>0, <2>1, BlockedGoto DEF Labels
<1>4. CASE StopClear
  <2>1. /\ Goto(Stop, "kill") /\ generation' = generation /\ KeepsOver
        /\ ~snapshot'.blocking /\ thr[Stop].pc = "clear"
    BY <1>0, <1>4 DEF StopClear, KeepsOver, ClearSystemProxy, DataOK, CoreSnapshot
  <2>2. PICK r \in Thread : Become(Stop, r) /\ r.pc = "kill"
    BY <1>0, <2>1, MoveRecords DEF Labels
  <2>3. ShowsTruth(Stop, r)
    BY <2>1, NoneAtClear DEF ShowsTruth
  <2> QED BY <1>0, <2>1, <2>2, <2>3, BlockedQuiet
<1>5. CASE StopKill
  <2>1. /\ Goto(Stop, "idle") \/ End(Stop)
        /\ generation' = generation /\ KeepsOver /\ thr[Stop].pc = "kill"
        /\ UNCHANGED <<snapshot, route>>
    BY <1>5 DEF StopKill, KeepsOver, machine
  <2> QED BY <1>0, <2>1, BlockedGoto, BlockedEnd DEF Labels
<1>6. CASE StopIdle
  <2>1. /\ Become(Stop, Ended) /\ generation' = generation /\ KeepsOver
        /\ thr[Stop].pc = "idle" /\ route' = route /\ Ended.pc = "done"
    BY <1>6 DEF StopIdle, KeepsOver, machine, End, Ended
  <2>2. snapshot'.blocking = snapshot.blocking /\ snapshot'.pid = NoProc /\ ~snapshot'.ech
    BY <1>0, <1>6 DEF StopIdle, DataOK, CoreSnapshot
  <2>3. ShowsTruth(Stop, Ended)
    BY <1>0, <2>1, <2>2 DEF ShowsTruth, Blocked, BlockIsTrue
  <2> QED BY <1>0, <2>1, <2>3, BlockedQuiet
<1> QED BY <1>1, <1>2, <1>3, <1>4, <1>5, <1>6 DEF StopStep

\* The toggle of a user who only switches the proxy on.
LEMMA BlockedToggle ==
  ASSUME DataOK, Blocked, "disable" \notin UserCommands, ToggleBegin \/ ToggleStep
  PROVE  Blocked'
<1>0. Toggle \in Threads /\ ~Monitors(Toggle) /\ Toggle # Start /\ Toggle # Stop
  BY ThreadIds DEF Monitors
<1>1. CASE ToggleBegin
  <2>1. Goto(Toggle, "enable")
    BY <1>1, CommandsAssumption DEF ToggleBegin
  <2>2. generation' = generation /\ KeepsOver /\ UNCHANGED <<snapshot, route>>
    BY <1>1 DEF ToggleBegin, KeepsOver, machine
  <2> QED BY <1>0, <2>1, <2>2, BlockedGoto DEF Labels
<1>2. CASE ToggleDisable
  BY <1>2 DEF ToggleDisable, Blocked, NobodyDisables
<1>3. CASE ToggleEnable
  <2>1. generation' = generation /\ KeepsOver /\ UNCHANGED <<snapshot, route>>
    BY <1>3 DEF ToggleEnable, KeepsOver, machine
  <2>2. CASE End(Toggle)
    BY <1>0, <2>1, <2>2, BlockedEnd
  <2>3. ASSUME NEW b, Become(Toggle, [thr[Toggle] EXCEPT !.pc = "apply", !.listener = b])
        PROVE  Blocked'
    <3> DEFINE r == [thr[Toggle] EXCEPT !.pc = "apply", !.listener = b]
    <3>1. r.pc = "apply" /\ Become(Toggle, r)
      BY <1>0, <2>3, ThreadFields DEF Thread
    <3> HIDE DEF r
    <3>2. ShowsTruth(Toggle, r)
      BY <1>0, <2>1, ShowsNothing
    <3> QED BY <1>0, <2>1, <3>1, <3>2, BlockedQuiet
  <2> QED BY <1>3, <2>2, <2>3 DEF ToggleEnable
<1>4. CASE ToggleApply
  <2>1. /\ Become(Toggle, Ended) /\ Ended.pc = "done" /\ generation' = generation
        /\ KeepsOver /\ snapshot' = snapshot /\ (route' = route \/ route' # "none")
    BY <1>4 DEF ToggleApply, KeepsOver, End, Ended, ApplyProxyRoute
  <2>2. ShowsTruth(Toggle, Ended)
    BY <1>0, <2>1 DEF ShowsTruth, Blocked, BlockIsTrue
  <2> QED BY <1>0, <2>1, <2>2, BlockedQuiet
<1> QED BY <1>1, <1>2, <1>3, <1>4 DEF ToggleStep

\* A reader: while a block is shown no line changes the snapshot.
LEMMA BlockedReader ==
  ASSUME DataOK, Blocked, NEW p \in Procs,
         \/ ReadLine(p) \/ Sweep(p) \/ ReadSession(p) \/ ReadChain(p)
         \/ ChainStarted(p) \/ ReadProxy(p) \/ ReadEof(p)
  PROVE  Blocked'
<1> DEFINE t == Reader(p)
<1>0. t \in Threads /\ ~Monitors(t) /\ t \notin {Start, Stop, Toggle}
  BY ThreadIds DEF Monitors
<1> HIDE DEF t
<1>1. CASE ReadLine(p)
  <2>1. generation' = generation /\ KeepsOver /\ route' = route
    BY <1>1 DEF ReadLine, KeepsOver, machine
  <2>2. PICK l \in {"session", "sweep", "read"} : Goto(t, l)
    BY <1>1 DEF ReadLine, t
  <2>3. snapshot'.blocking => snapshot' = snapshot
    <3>1. CASE snapshot.blocking
      BY <1>1, <3>1 DEF ReadLine, Blocked, BlockIsTrue
    <3>2. CASE ~snapshot.blocking
      <4>1. \A line : line \in Lines =>
              ~apply_log_to_snapshot(line, p).blocking
        BY <3>2, EnvironmentAssumption DEF apply_log_to_snapshot, DataOK, CoreSnapshot
      <4> QED BY <1>1, <3>2, <4>1 DEF ReadLine
    <3> QED BY <3>1, <3>2
  <2>4. PICK r \in Thread : Become(t, r) /\ r.pc = l
    BY <1>0, <2>2, MoveRecords DEF Labels
  <2>5. ShowsTruth(t, r)
    BY <1>0, <2>1, <2>3 DEF ShowsTruth, Blocked, BlockIsTrue
  <2> QED BY <1>0, <2>1, <2>4, <2>5, BlockedQuiet
<1>2. CASE Sweep(p) \/ ReadEof(p)
  <2>1. /\ generation' = generation /\ KeepsOver /\ UNCHANGED <<snapshot, route>>
        /\ Goto(t, "read") \/ End(t)
    BY <1>2 DEF Sweep, ReadEof, KeepsOver, machine, t
  <2> QED BY <1>0, <2>1, BlockedGoto, BlockedEnd DEF Labels
<1>3. CASE ReadSession(p)
  <2>1. generation' = generation /\ UNCHANGED <<snapshot, route>>
    BY <1>3 DEF ReadSession, machine
  <2>2. KeepsOver
    BY <1>3 DEF ReadSession, KeepsOver, NoSession
  <2> DEFINE r == [thr[t] EXCEPT !.pc = "chain", !.profile = session.profile]
  <2>3. r.pc = "chain" /\ Become(t, r)
    BY <1>0, <1>3, ThreadFields DEF Thread, ReadSession, t
  <2> HIDE DEF r
  <2>4. ShowsTruth(t, r)
    BY <1>0, <2>1, ShowsNothing
  <2> QED BY <1>0, <2>1, <2>2, <2>3, <2>4, BlockedQuiet
<1>4. ASSUME NEW b, GotoAfterChain(p, b), generation' = generation, KeepsOver,
             UNCHANGED <<snapshot, route>>
      PROVE  Blocked'
  <2> DEFINE r == [Ended EXCEPT !.pc = "proxy", !.gen = thr[t].gen, !.listener = b]
             q == [Ended EXCEPT !.pc = "read", !.gen = thr[t].gen]
  <2>1. r.pc = "proxy" /\ q.pc = "read"
    BY DEF Ended
  <2>2. Become(t, r) \/ Become(t, q)
    BY <1>4 DEF GotoAfterChain, GotoAfresh, t
  <2> HIDE DEF r, q
  <2>3. ShowsTruth(t, r) /\ ShowsTruth(t, q)
    BY <1>0, <1>4, ShowsNothing
  <2> QED BY <1>0, <1>4, <2>1, <2>2, <2>3, BlockedQuiet
<1>5. CASE ReadChain(p) \/ ChainStarted(p)
  <2>1. generation' = generation /\ KeepsOver /\ UNCHANGED <<snapshot, route>>
    BY <1>5 DEF ReadChain, ChainStarted, KeepsOver
  <2>2. Goto(t, "mihomo") \/ \E b : GotoAfterChain(p, b)
    BY <1>5 DEF ReadChain, ChainStarted, t
  <2> QED BY <1>0, <1>4, <2>1, <2>2, BlockedGoto DEF Labels
<1>6. CASE ReadProxy(p)
  <2>1. /\ generation' = generation /\ KeepsOver /\ snapshot' = snapshot
        /\ route' = route \/ route' # "none"
        /\ GotoAfresh(t, "read")
    BY <1>6 DEF ReadProxy, KeepsOver, ApplyProxyRoute, t
  <2>2. PICK r \in Thread : Become(t, r) /\ r.pc = "read"
    BY <1>0, <2>1, MoveRecords DEF Labels
  <2>3. ShowsTruth(t, r)
    BY <1>0, <2>1 DEF ShowsTruth, Blocked, BlockIsTrue
  <2> QED BY <1>0, <2>1, <2>2, <2>3, BlockedQuiet
<1> QED BY <1>1, <1>2, <1>3, <1>5, <1>6

\* Who supervises while a block is shown is the monitor that retries.
LEMMA SoleRetrier ==
  ASSUME Supervision, Blocked, NEW t \in Threads, Supervising(t), snapshot.blocking
  PROVE  Monitors(t) /\ Retries(thr[t])
<1>1. thr[Stop].pc \notin {"session", "clear"}
  BY DEF Supervision, SupervisedIsClaimed, StopIsHeeded
<1>2. PICK p \in Procs : Retries(thr[Monitor(p)])
  BY <1>1 DEF Blocked, BlockIsNursed
<1>3. Monitor(p) \in Threads /\ Supervising(Monitor(p))
  BY <1>2, ThreadIds, DutyFacts DEF Retries, Retrying, Supervising, Answering, is_current, Labels
<1> QED BY <1>2, <1>3 DEF Supervision, OneSupervisor, Monitors

\* A thread of the live generation at work on an exit or a launch has the session.
LEMMA OnDutyClaims ==
  ASSUME Supervision, NEW t \in Threads,
         thr[t].pc \in {"spawn", "slot", "publish", "watch", "poll", "exit", "terminal",
                       "holding", "decide", "retry", "announce", "hold", "wait"}
  PROVE  /\ thr[t].gen > 0 /\ (t = Start \/ Monitors(t)) /\ t \notin {Stop, Toggle}
         /\ thr[t].gen = generation =>
              /\ Supervising(t) /\ session.generation = generation /\ session # NoSession
<1>1. thr[t].pc \in Duties(t) /\ (t = Start \/ Monitors(t))
  BY OnDuty DEF Supervision, TypeOK, Monitors
<1>2. thr[t].gen > 0
  BY <1>1 DEF Supervision, GenerationIssued, Answering
<1>3. t \notin {Stop, Toggle}
  BY <1>1, ThreadIds DEF Monitors
<1>4. ASSUME thr[t].gen = generation
      PROVE  Supervising(t) /\ session.generation = generation /\ session # NoSession
  <2>1. Supervising(t)
    BY <1>1, <1>4 DEF Supervising, Answering, is_current
  <2>2. session.generation = generation
    BY <2>1 DEF Supervision, SupervisedIsClaimed
  <2> QED BY <1>2, <1>4, <2>1, <2>2, ThreadFields DEF NoSession, Supervision, TypeOK
<1> QED BY <1>1, <1>2, <1>3, <1>4

\* A launch: what it publishes ends the block.
LEMMA BlockedLaunch ==
  ASSUME Supervision, Blocked, NEW t \in Threads, Spawn(t) \/ ClaimSlot(t) \/ Publish(t)
  PROVE  Blocked'
<1>1. /\ DataOK /\ (t = Start \/ Monitors(t)) /\ t \notin {Stop, Toggle}
      /\ ~Monitors(Start) /\ Start \in Threads /\ Toggle \in Threads
  BY OnDutyClaims, ThreadIds DEF Spawn, ClaimSlot, Publish, Supervision, TypeOK, Monitors
<1>2. generation' = generation /\ KeepsOver /\ route' = route
  BY DEF Spawn, ClaimSlot, Publish, KeepsOver, machine
<1>3. CASE Spawn(t)
  <2>1. snapshot' = snapshot /\ thr[t].pc = "spawn"
    BY <1>3 DEF Spawn
  <2>2. ASSUME NEW p \in Procs, Become(t, [thr[t] EXCEPT !.pc = "slot", !.proc = p])
        PROVE  Blocked'
    <3> DEFINE r == [thr[t] EXCEPT !.pc = "slot", !.proc = p]
    <3>1. r.pc = "slot" /\ r.gen = thr[t].gen /\ Become(t, r)
      BY <1>1, <2>2, ThreadFields DEF Thread
    <3> HIDE DEF r
    <3>2. ShowsTruth(t, r)
      BY <1>1, <1>2, <2>1, <3>1, ShowsNothing DEF Retries, Retrying
    <3> QED BY <1>1, <1>2, <3>1, <3>2, BlockedQuiet
  <2>3. CASE Goto(t, IF t = Start THEN "unclaim" ELSE "exit")
    BY <1>1, <1>2, <2>1, <2>3, BlockedGoto DEF Retrying, Labels
  <2> QED BY <1>3, <2>2, <2>3 DEF Spawn
<1>4. CASE ClaimSlot(t)
  <2>1. /\ snapshot' = snapshot
        /\ Goto(t, "publish") \/ (End(t) /\ ~Retries(thr[t]))
    BY <1>4 DEF ClaimSlot, is_current, Retries
  <2> QED BY <1>1, <1>2, <2>1, BlockedGoto, BlockedEnd DEF Retrying, Labels
<1>5. CASE Publish(t)
  <2> DEFINE p == thr[t].proc
             m == [Ended EXCEPT !.pc = "watch", !.gen = thr[t].gen]
             r == [Ended EXCEPT !.pc = "read", !.gen = thr[t].gen]
             w == IF SlowRoutes THEN m ELSE Ended
  <2>0. w \in {m, Ended} /\ ~snapshot'.blocking /\ session' = session
    BY <1>5 DEF Publish
  <2>1. thr' = [thr EXCEPT ![t] = Ended, ![Monitor(p)] = m, ![Reader(p)] = r,
                           ![Watch(p)] = w]
    BY <1>5 DEF Publish
  <2>2. m.pc = "watch" /\ r.pc = "read" /\ Ended.pc = "done"
    BY DEF Ended
  <2> HIDE DEF m, r, w, p
  <2>3. \A u \in Threads : thr'[u] \in {thr[u], Ended, m, r}
    BY <1>1, <2>0, <2>1 DEF DataOK
  <2>4. NobodyDisables'
    BY <1>1, <2>2, <2>3 DEF Blocked, NobodyDisables
  <2>5. RouteIsHeld'
    <3> SUFFICES ASSUME NEW u \in Threads, Holds(thr[u])' PROVE route # "none"
      BY <1>2 DEF RouteIsHeld
    <3>1. thr'[u] = thr[u]
      BY <2>2, <2>3 DEF Holds
    <3> QED BY <1>2, <3>1 DEF Blocked, RouteIsHeld, Holds
  <2>6. EchIsFinal'
    <3> SUFFICES ASSUME NEW u \in Threads, EndsForEch(thr[u])'
                 PROVE  session = NoSession /\ thr'[Start].pc # "claim"
      BY <2>0 DEF EchIsFinal
    <3>1. thr'[u] = thr[u]
      BY <2>2, <2>3 DEF EndsForEch
    <3>2. session = NoSession /\ thr[Start].pc # "claim"
      BY <1>2, <3>1 DEF Blocked, EchIsFinal, EndsForEch
    <3> QED BY <1>1, <2>2, <2>3, <3>2
  <2> QED BY <2>0, <2>4, <2>5, <2>6 DEF Blocked, BlockIsTrue, BlockIsNursed
<1> QED BY <1>3, <1>4, <1>5

\* A monitor that watches does not retry yet.
LEMMA BlockedMonitor ==
  ASSUME DataOK, Blocked, NEW p \in Procs, MonitorCheck(p) \/ MonitorPoll(p)
  PROVE  Blocked'
<1>1. Monitor(p) \in Threads /\ Monitor(p) \notin {Start, Stop, Toggle}
  BY ThreadIds
<1>2. generation' = generation /\ KeepsOver /\ UNCHANGED <<snapshot, route>>
  BY DEF MonitorCheck, MonitorPoll, KeepsOver, machine
<1>3. thr[Monitor(p)].pc \in {"watch", "poll"}
  BY DEF MonitorCheck, MonitorPoll
<1>4. End(Monitor(p)) \/ \E l \in {"poll", "watch", "exit"} : Goto(Monitor(p), l)
  BY DEF MonitorCheck, MonitorPoll
<1> QED BY <1>1, <1>2, <1>3, <1>4, BlockedGoto, BlockedEnd DEF Retries, Retrying, Labels

\* An exit is weighed: with a block shown it is held again or retried.
LEMMA BlockedDecide ==
  ASSUME Supervision, Armed, Blocked, NEW t \in Threads,
         ExitReason(t) \/ ExitTerminal(t) \/ ExitHolding(t) \/ Decide(t)
  PROVE  Blocked'
<1>1. /\ DataOK /\ thr[t].pc \in {"exit", "terminal", "holding", "decide"}
      /\ thr[t].gen > 0 /\ t \notin {Stop, Toggle}
      /\ thr[t].gen = generation => Supervising(t) /\ session.generation = generation
  BY OnDutyClaims DEF ExitReason, ExitTerminal, ExitHolding, Decide, Supervision, TypeOK
<1>2. t # Start /\ Start \in Threads
  BY <1>1, ThreadIds DEF Supervision, Roles
<1>3. generation' = generation /\ UNCHANGED <<snapshot, route>>
  BY DEF ExitReason, ExitTerminal, ExitHolding, Decide, machine
<1>4. CASE ExitReason(t)
  <2>1. /\ thr[t].pc = "exit" /\ KeepsOver
        /\ Goto(t, "holding") \/ (Goto(t, "terminal") /\ ~snapshot.blocking)
    BY <1>4 DEF ExitReason, KeepsOver, Blocked, BlockIsTrue
  <2>2. CASE Goto(t, "holding")
    BY <1>1, <1>2, <1>3, <2>1, <2>2, BlockedGoto DEF Retrying, Labels
  <2>3. CASE Goto(t, "terminal") /\ ~snapshot.blocking
    <3>1. PICK r \in Thread : Become(t, r) /\ r.pc = "terminal"
      BY <1>1, <2>3, MoveRecords DEF Labels
    <3>2. ShowsTruth(t, r)
      BY <1>1, <1>3, <2>3, ShowsNothing
    <3> QED BY <1>1, <1>3, <2>1, <3>1, <3>2, BlockedQuiet
  <2> QED BY <2>1, <2>2, <2>3
<1>5. CASE ExitTerminal(t)
  <2>0. thr[t].pc = "terminal" /\ KeepsOver /\ ~Retries(thr[t])
    BY <1>5 DEF ExitTerminal, KeepsOver, Retries, Retrying
  <2>1. CASE End(t)
    BY <1>1, <1>3, <2>0, <2>1, BlockedEnd
  <2>2. CASE /\ session' = NoSession
             /\ Become(t, [thr[t] EXCEPT !.pc = "giveup_ech", !.profile = session.profile])
    <3> DEFINE r == [thr[t] EXCEPT !.pc = "giveup_ech", !.profile = session.profile]
    <3>1. r.pc = "giveup_ech" /\ r.gen = thr[t].gen /\ Become(t, r)
      BY <2>2, <1>1, ThreadFields DEF Thread
    <3> HIDE DEF r
    <3>2. ShowsTruth(t, r)
      BY <1>1, <1>3, <2>0, ShowsNothing
    <3>3. ASSUME EndsForEch(r)
          PROVE  ~snapshot'.blocking /\ session' = NoSession /\ thr[Start].pc # "claim"
      <4>1. Supervising(t)
        BY <1>1, <3>1, <3>3 DEF EndsForEch
      <4>2. ~snapshot.blocking
        BY <2>0, <4>1, SoleRetrier
      <4>3. thr[Start].pc = "claim" => Supervising(Start)
        BY DutyFacts DEF Supervision, StartIsAlone, Supervising, Answering
      <4> QED BY <1>2, <1>3, <2>2, <4>1, <4>2, <4>3 DEF Supervision, OneSupervisor
    <3> QED BY <1>1, <1>2, <1>3, <2>0, <3>1, <3>2, <3>3, BlockedMove DEF Holds
  <2> QED BY <1>5, <2>1, <2>2 DEF ExitTerminal
<1>6. CASE ExitHolding(t)
  <2> DEFINE b == session.profile.kill_switch /\ route # "none"
             r == [thr[t] EXCEPT !.pc = "decide", !.holding = b]
  <2>1. r.pc = "decide" /\ r.gen = thr[t].gen /\ (r.holding <=> b)
    BY <1>1, ThreadFields, SessionFields DEF Thread
  <2>2. Become(t, r) /\ KeepsOver
    BY <1>6 DEF ExitHolding, KeepsOver
  <2> HIDE DEF r
  <2>3. snapshot.blocking /\ Retries(thr[t]) => Retries(r)
    <3> SUFFICES ASSUME snapshot.blocking, Retries(thr[t]) PROVE b
      BY <2>1 DEF Retries, Retrying
    <3>1. session.generation # 0
      BY <1>1, ThreadFields DEF Retries
    <3> QED BY <3>1 DEF Armed, SessionArmed, Blocked, BlockIsTrue
  <2>4. ShowsTruth(t, r)
    BY <1>1, <1>3, <2>3, ShowsNothing
  <2>5. Holds(r) => route' # "none"
    BY <1>3, <2>1 DEF Holds
  <2> QED BY <1>1, <1>2, <1>3, <2>1, <2>2, <2>4, <2>5, BlockedMove DEF EndsForEch
<1>7. CASE Decide(t)
  <2>1. thr[t].pc = "decide"
    BY <1>7 DEF Decide
  <2>2. CASE session.generation # thr[t].gen
    <3>1. End(t) /\ session' = session
      BY <1>7, <2>2 DEF Decide
    <3>2. ~Retries(thr[t]) /\ KeepsOver
      BY <1>1, <2>2, <3>1 DEF Retries, KeepsOver
    <3> QED BY <1>1, <1>3, <3>1, <3>2, BlockedEnd
  <2>3. CASE session.generation = thr[t].gen
    <3> DEFINE next == decide_exit(session.attempt + 1, session.profile, thr[t].holding)
               r == [thr[t] EXCEPT !.pc = next, !.profile = session.profile]
    <3>1. /\ next \in {"hold", "giveup", "release", "retry"}
          /\ next = "hold" => thr[t].holding
          /\ thr[t].holding => next # "giveup"
      BY DEF decide_exit
    <3> HIDE DEF next
    <3>2. Become(t, r)
      BY <1>7, <2>3 DEF Decide, next
    <3>3. r.pc = next /\ r.gen = thr[t].gen
      BY <1>1, ThreadFields DEF Thread
    <3>4. KeepsOver
      BY <1>1, <2>3 DEF KeepsOver, NoSession
    <3> HIDE DEF r
    <3>5. ShowsTruth(t, r)
      BY <1>1, <1>3, <2>1, <3>1, <3>3, ShowsNothing DEF Retries, Retrying
    <3>6. Holds(r) => route' # "none"
      BY <1>3, <2>1, <3>1, <3>3 DEF Holds, Blocked, RouteIsHeld
    <3> QED BY <1>1, <1>2, <1>3, <3>1, <3>2, <3>3, <3>4, <3>5, <3>6, BlockedMove DEF EndsForEch
  <2> QED BY <2>2, <2>3
<1> QED BY <1>4, <1>5, <1>6, <1>7

\* A verdict: a hold shows a block that is true, and is retried by who shows it.
LEMMA BlockedVerdict ==
  ASSUME Supervision, Armed, Blocked, NEW t \in Threads,
         \/ RetryClear(t) \/ RetryAnnounce(t) \/ Hold(t)
         \/ GiveUp(t) \/ GiveUpProxy(t) \/ WaitOver(t)
  PROVE  Blocked'
<1>1. /\ DataOK
      /\ thr[t].pc \in {"retry", "announce", "hold", "giveup", "giveup_ech",
                        "release_proxy", "wait"}
      /\ t \notin {Stop, Toggle, Start}
  BY DEF RetryClear, RetryAnnounce, Hold, GiveUp, GiveUpProxy, WaitOver, Show,
     Supervision, TypeOK, Roles
<1>2. generation' = generation /\ KeepsOver
  BY DEF RetryClear, RetryAnnounce, Hold, GiveUp, GiveUpProxy, WaitOver, Show, KeepsOver
<1>3. thr[t].pc \in Acting => thr[t].profile.kill_switch
  BY DEF Armed, ArmedAs
<1>4. CASE RetryClear(t)
  <2>1. Goto(t, "announce") /\ UNCHANGED <<snapshot, route>>
    BY <1>3, <1>4 DEF RetryClear, Acting
  <2> QED BY <1>1, <1>2, <2>1, BlockedGoto DEF Labels, Retrying
<1>5. CASE WaitOver(t)
  <2>1. UNCHANGED <<snapshot, route>>
    BY <1>5 DEF WaitOver, machine
  <2>2. Goto(t, "spawn") \/ (End(t) /\ ~Retries(thr[t]))
    BY <1>5 DEF WaitOver, Retries, is_current
  <2> QED BY <1>1, <1>2, <2>1, <2>2, BlockedGoto, BlockedEnd DEF Labels, Retrying
<1>6. CASE GiveUpProxy(t)
  <2>1. End(t) /\ thr[t].pc = "release_proxy" /\ thr[t].profile.kill_switch
    BY <1>3, <1>6 DEF GiveUpProxy, Acting
  <2>2. ~Retries(thr[t])
    BY <2>1 DEF Retries, Retrying
  <2>3. CASE route # "none"
    BY <1>1, <1>2, <1>6, <2>1, <2>2, <2>3, BlockedEnd DEF GiveUpProxy
  <2>4. CASE route = "none"
    <3>1. ~snapshot'.blocking
      BY <1>1, <1>6, <2>4 DEF GiveUpProxy, ClearSystemProxy, DataOK, CoreSnapshot
    <3>2. ShowsTruth(t, Ended)
      BY <2>4, <3>1 DEF ShowsTruth
    <3>3. Become(t, Ended) /\ Ended.pc = "done"
      BY <2>1 DEF End, Ended
    <3> QED BY <1>1, <1>2, <3>2, <3>3, BlockedQuiet
  <2> QED BY <2>3, <2>4
<1>7. ASSUME NEW from, NEW next, NEW after, Show(t, from, next, after), ~is_current(t)
      PROVE  Blocked'
  <2>1. End(t) /\ UNCHANGED <<snapshot, route>> /\ ~Retries(thr[t])
    BY <1>7 DEF Show, machine, Retries, is_current
  <2> QED BY <1>1, <1>2, <2>1, BlockedEnd
<1>8. CASE RetryAnnounce(t) /\ is_current(t)
  <2>1. /\ GotoAfresh(t, "wait") /\ route' = route
        /\ snapshot' = [snapshot EXCEPT !.state = "searching", !.pid = NoProc,
                                        !.from = NoProc]
    BY <1>8 DEF RetryAnnounce, Show, machine
  <2>2. /\ snapshot'.pid = NoProc /\ snapshot'.blocking = snapshot.blocking
        /\ snapshot'.ech = snapshot.ech
    BY <1>1, <2>1 DEF DataOK, CoreSnapshot
  <2>3. PICK r \in Thread : Become(t, r) /\ r.pc = "wait" /\ r.gen = thr[t].gen
    BY <1>1, <2>1, MoveRecords DEF Labels
  <2>4. Retries(r)
    BY <1>8, <2>3 DEF Retries, Retrying, is_current
  <2>5. ShowsTruth(t, r)
    BY <1>1, <2>1, <2>2, <2>4 DEF ShowsTruth, Blocked, BlockIsTrue
  <2> QED BY <1>1, <1>2, <2>3, <2>5, BlockedQuiet
<1>9. CASE Hold(t) /\ is_current(t)
  <2>1. /\ thr[t].pc = "hold" /\ GotoAfresh(t, "wait") /\ route' = route
        /\ snapshot' = [snapshot EXCEPT !.state = "error", !.pid = NoProc,
                                        !.blocking = TRUE, !.ech = FALSE,
                                        !.from = NoProc]
    BY <1>9 DEF Hold, Show, machine
  <2>2. snapshot'.pid = NoProc /\ ~snapshot'.ech
    BY <1>1, <2>1 DEF DataOK, CoreSnapshot
  <2>3. PICK r \in Thread : Become(t, r) /\ r.pc = "wait" /\ r.gen = thr[t].gen
    BY <1>1, <2>1, MoveRecords DEF Labels
  <2>4. Retries(r)
    BY <1>9, <2>3 DEF Retries, Retrying, is_current
  <2>5. session # NoSession /\ Monitors(t)
    BY <1>1, <1>9, <2>1, OnDutyClaims DEF is_current
  <2>6. route # "none"
    BY <1>9, <2>1 DEF Blocked, RouteIsHeld, Holds, is_current
  <2>7. ShowsTruth(t, r)
    BY <1>1, <2>1, <2>2, <2>4, <2>5, <2>6 DEF ShowsTruth
  <2> QED BY <1>1, <1>2, <2>3, <2>7, BlockedQuiet
<1>10. CASE GiveUp(t) /\ is_current(t)
  <2>1. PICK b \in BOOLEAN :
          /\ thr[t].pc = IF b THEN "giveup_ech" ELSE "giveup"
          /\ Goto(t, "release_proxy") /\ route' = route
          /\ snapshot' = [snapshot EXCEPT !.state = "error", !.pid = NoProc, !.ech = b,
                                          !.from = NoProc]
    BY <1>10 DEF GiveUp, Show, machine
  <2>2. /\ snapshot'.pid = NoProc /\ snapshot'.blocking = snapshot.blocking
        /\ snapshot'.ech = b
    BY <1>1, <2>1 DEF DataOK, CoreSnapshot
  <2>3. b => ~snapshot.blocking
    BY <1>10, <2>1 DEF Blocked, EchIsFinal, EndsForEch, is_current
  <2>4. PICK r \in Thread : Become(t, r) /\ r.pc = "release_proxy"
    BY <1>1, <2>1, MoveRecords DEF Labels
  <2>5. ~Retries(thr[t])
    BY <2>1 DEF Retries, Retrying
  <2>6. ShowsTruth(t, r)
    BY <1>1, <2>1, <2>2, <2>3, <2>5 DEF ShowsTruth, Blocked, BlockIsTrue
  <2> QED BY <1>1, <1>2, <2>4, <2>6, BlockedQuiet
<1>11. CASE (RetryAnnounce(t) \/ Hold(t) \/ GiveUp(t)) /\ ~is_current(t)
  BY <1>7, <1>11 DEF RetryAnnounce, Hold, GiveUp
<1> QED BY <1>4, <1>5, <1>6, <1>8, <1>9, <1>10, <1>11

\* So every step of such a user and such routes keeps it.
LEMMA BlockedStep ==
  ASSUME Patient, ~SlowRoutes, "disable" \notin UserCommands
  PROVE  Supervision /\ Armed /\ Blocked /\ [Next]_vars => Blocked'
<1> SUFFICES ASSUME Supervision, Armed, Blocked, [Next]_vars PROVE Blocked'
  OBVIOUS
<1>0. DataOK /\ Roles
  BY DEF Supervision, TypeOK
<1>1. ASSUME UNCHANGED <<generation, session, snapshot, route, thr>> PROVE Blocked'
  BY <1>1 DEF Blocked, NobodyDisables, RouteIsHeld, Holds, BlockIsTrue, BlockIsNursed,
     Retries, EchIsFinal, EndsForEch
<1>2. CASE UNCHANGED vars
  BY <1>1, <1>2 DEF vars
<1>3. ASSUME NEW p \in Procs, EngineExits(p) PROVE Blocked'
  BY <1>1, <1>3 DEF EngineExits, machine
<1>4. ASSUME NEW t \in Threads, HandleExit(t) PROVE Blocked'
  BY <1>4, BlockedDecide, BlockedVerdict DEF HandleExit
<1> QED
  BY <1>0, <1>2, <1>3, <1>4, NextCases, BlockedStart, BlockedStop, BlockedToggle,
     BlockedLaunch, BlockedMonitor, BlockedReader, WatchIsIdle

\* A block the window shows is true for as long as it is shown: the proxy still points
\* at the dead tunnel, and a thread of the live generation is there to retry -- when
\* every profile has the kill switch on and the user does not take the proxy off.
THEOREM BlocksAreRetried ==
  ASSUME Patient, ~SlowRoutes, "disable" \notin UserCommands,
         \A f \in Profiles : f.kill_switch
  PROVE  Spec => []BlockingIsRetried
<1>1. Init => Supervision /\ Armed /\ Blocked
  <2> SUFFICES ASSUME Init PROVE Armed /\ Blocked
    BY SupervisionInit
  <2>1. ~snapshot.blocking /\ \A t \in Threads : thr[t] = Ended
    BY DEF Init
  <2>2. Armed
    BY DEF Init, Armed, SessionArmed, ArmedAs, NoSession, Ended, Acting, Numbered
  <2>3. Blocked
    BY <2>1, ThreadIds DEF Blocked, NobodyDisables, RouteIsHeld, Holds, BlockIsTrue,
       BlockIsNursed, EchIsFinal, EndsForEch, Ended
  <2> QED BY <2>2, <2>3
<1>2. Supervision /\ Armed /\ Blocked /\ [Next]_vars => (Supervision /\ Armed /\ Blocked)'
  BY SupervisionStep, ArmedStep, BlockedStep DEF Supervision, TypeOK
<1>3. Supervision /\ Blocked => BlockingIsRetried
  <2> SUFFICES ASSUME Supervision, Blocked, snapshot.blocking, thr[Stop].pc = "done"
               PROVE  route # "none" /\ \E t \in Threads : Supervising(t)
    BY DEF BlockingIsRetried
  <2>1. PICK p \in Procs : Retries(thr[Monitor(p)])
    BY DEF Blocked, BlockIsNursed
  <2>2. Monitor(p) \in Threads /\ Supervising(Monitor(p))
    BY <2>1, ThreadIds, DutyFacts
       DEF Retries, Retrying, Supervising, Answering, is_current, Labels
  <2> QED BY <2>2 DEF Blocked, BlockIsTrue
<1> QED BY <1>1, <1>2, <1>3, PTL DEF Spec
=============================================================================

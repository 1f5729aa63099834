------------------------- MODULE CarrierProcessProofs -------------------------
(***************************************************************************)
(* Proofs about CarrierProcess, for any number of starters, stoppers,      *)
(* processes and calls and pipes of any length.  Held says who holds a     *)
(* process at each label of a start; Fed says whose notices reach the      *)
(* snapshot of the live generation, and whose files tor's start reads.     *)
(***************************************************************************)
EXTENDS CarrierProcess, TLAPS

Stopping == {"idle", "bump", "kill", "reset"}
Starting == {"begin", "prepare", "announce", "spawn", "claim"}
Waiting == {"wait", "look", "alive", "control", "cookie", "ask", "publish"}
Labels == Stopping \union Starting \union Waiting \union {"failed"}

Call == [pc : Labels, gen : Nat, proc : Procs \union {NoProc},
         back : {"idle", "begin", "failed"}, control : Procs \union {NoProc},
         late : BOOLEAN, result : {"none", "ok", "error"}]
NoticeReader == [pc : {"off", "read", "apply"}, gen : Nat, line : Notices]

\* The type invariant: the threads, the slot, the processes and what they print.
TypeOK ==
  /\ kind \in {"psiphon", "tor"} /\ generation \in Nat
  /\ child \in Procs \union {NoProc} /\ snapshot \in Screen
  /\ proc \in [Procs -> {"none", "up", "bound", "carrying", "ended"}]
  /\ established \in SUBSET Procs
  /\ pipe \in [Procs -> Seq(Notices)] /\ reader \in [Procs -> NoticeReader]
  /\ files \in [control : Procs \union {NoProc}, cookie : Procs \union {NoProc}]
  /\ thr \in [Threads -> Call]

\* A stopper is in stop and goes back to idle; a starter that stops goes on with its
\* start; one starter at most is in start.
Alone ==
  /\ \A t \in Stoppers : thr[t].pc \in Stopping /\ thr[t].back = "idle"
  /\ \A t \in Starters : thr[t].pc \in Stopping \ {"idle"} => thr[t].back # "idle"
  /\ \A t, u \in Starters : At(t, "idle") \/ At(u, "idle") \/ t = u

\* Who holds a process: the slot is empty from a starter's own kill to its claim;
\* what the slot holds is of the live generation, or a stop is about to kill it;
\* and what runs is in the slot or in the hands of the start about to claim.
Held ==
  /\ \A t \in Starters : thr[t].pc \in {"reset", "failed"} \union Starting => child = NoProc
  /\ \A t \in Threads : thr[t].gen <= generation
  /\ \A p \in Procs : reader[p].gen <= generation
  /\ \A p \in Procs :
       child = p => reader[p].gen = generation \/ \E t \in Threads : At(t, "kill")
  /\ \A p \in Procs :
       Running(p) => child = p \/ \E t \in Starters : At(t, "claim") /\ thr[t].proc = p
  /\ \A t \in Starters : At(t, "claim") => thr[t].proc \in Procs

\* tor: the control port that is read is that of the start's own process.
Asks(t) ==
  /\ thr[t].pc = "look" => kind = "psiphon"
  /\ thr[t].pc \in {"control", "cookie", "ask", "publish"} => kind = "tor"
  /\ thr[t].pc \in Waiting => thr[t].proc \in Procs /\ child \in {NoProc, thr[t].proc}
  /\ kind = "tor" =>
       /\ thr[t].pc \in {"announce", "spawn"} => files.control = NoProc
       /\ thr[t].pc \in Waiting \union {"claim"} => files.control \in {NoProc, thr[t].proc}
       /\ thr[t].pc \in Waiting \ {"control"} => thr[t].control = thr[t].proc
       /\ thr[t].pc = "publish" => thr[t].proc \in established
Controlled ==
  /\ \A p \in Procs : proc[p] = "carrying" => p \in established
  /\ \A t \in Starters : Asks(t)

\* psiphon: the tunnel a notice speaks of has been there, and a reader applies notices
\* of the live generation only.
Heard(p) ==
  /\ \A i \in 1 .. Len(pipe[p]) : pipe[p][i] = "up" => p \in established
  /\ reader[p].pc = "apply" =>
       reader[p].gen = generation /\ (reader[p].line = "up" => p \in established)

\* From a start's generation to its claim no reader has it, and from then on only that
\* of its own process.
Mine(t, p) ==
  reader[p].pc # "off" /\ reader[p].gen = generation =>
    /\ thr[t].pc \notin Starting \ {"begin"}
    /\ thr[t].pc \in Waiting => p = thr[t].proc
Fed(t) ==
  /\ \A p \in Procs : Mine(t, p)
  /\ thr[t].pc \in {"spawn", "claim"} => snapshot.state # "connected"
  /\ thr[t].pc \in Waiting /\ kind = "psiphon" /\ snapshot.state = "connected" =>
       thr[t].proc \in established
Informed ==
  /\ \A p \in Procs : Heard(p)
  /\ \A t \in Starters : ~Superseded(t) => Fed(t)

(***************************************************************************)
(* Type correctness.                                                       *)
(***************************************************************************)
\* No process has the number that stands for none.
LEMMA NoProcIsNone == NoProc \notin Procs
BY ProcsAreNumbers DEF NoProc

\* The records that threads, readers and the screen are reset to have their types.
LEMMA ResetValues ==
  /\ Idle \in Call /\ Off \in NoticeReader /\ Blank \in Screen
  /\ [Idle EXCEPT !.pc = "bump", !.back = "begin"] \in Call
  /\ [Blank EXCEPT !.state = "connecting"] \in Screen
  /\ NoFiles \in [control : Procs \union {NoProc}, cookie : Procs \union {NoProc}]
BY DEF Idle, Call, Labels, Stopping, Off, NoticeReader, Notices, Blank, Screen, NoFiles

\* The initial state is well typed.
LEMMA TypeInit == Init => TypeOK
BY ResetValues, KindsAreKnown DEF Init, TypeOK, Threads

\* What a step makes of a thread is a thread.
LEMMA ThreadUpdates ==
  ASSUME thr \in [Threads -> Call], NEW t \in Threads, NEW l \in Labels
  PROVE  /\ [thr EXCEPT ![t].pc = l] \in [Threads -> Call]
         /\ \A b \in {"idle", "begin", "failed"} :
              [thr EXCEPT ![t].pc = l, ![t].back = b] \in [Threads -> Call]
         /\ \A r \in {"none", "ok", "error"} :
              [thr EXCEPT ![t].pc = l, ![t].result = r] \in [Threads -> Call]
         /\ \A g \in Nat : [thr EXCEPT ![t].pc = l, ![t].gen = g] \in [Threads -> Call]
         /\ \A p \in Procs \union {NoProc} :
              /\ [thr EXCEPT ![t].pc = l, ![t].proc = p] \in [Threads -> Call]
              /\ [thr EXCEPT ![t].pc = l, ![t].control = p] \in [Threads -> Call]
<1>1. /\ [thr[t] EXCEPT !.pc = l] \in Call
      /\ \A b \in {"idle", "begin", "failed"} : [thr[t] EXCEPT !.pc = l, !.back = b] \in Call
      /\ \A r \in {"none", "ok", "error"} : [thr[t] EXCEPT !.pc = l, !.result = r] \in Call
      /\ \A g \in Nat : [thr[t] EXCEPT !.pc = l, !.gen = g] \in Call
      /\ \A p \in Procs \union {NoProc} : /\ [thr[t] EXCEPT !.pc = l, !.proc = p] \in Call
                                       /\ [thr[t] EXCEPT !.pc = l, !.control = p] \in Call
  BY DEF Call
<1> QED BY <1>1

\* The labels there are.
LEMMA LabelsAre ==
  {"idle", "bump", "kill", "reset", "begin", "prepare", "announce", "spawn", "claim",
   "wait", "look", "alive", "control", "cookie", "ask", "publish", "failed"} = Labels
BY DEF Labels, Stopping, Starting, Waiting

\* The ways a thread moves on that most steps use.
LEMMA Moves ==
  ASSUME thr \in [Threads -> Call], NEW t \in Threads
  PROVE  /\ \A l \in Labels : Goto(t, l) => thr' \in [Threads -> Call]
         /\ \A r \in {"none", "ok", "error"} : Return(t, r) => thr' \in [Threads -> Call]
         /\ Fail(t) => thr' \in [Threads -> Call]
<1>1. ASSUME NEW l \in Labels, Goto(t, l) PROVE thr' \in [Threads -> Call]
  BY <1>1, ThreadUpdates DEF Goto
<1>2. ASSUME NEW r \in {"none", "ok", "error"}, Return(t, r) PROVE thr' \in [Threads -> Call]
  BY <1>2, ThreadUpdates, LabelsAre DEF Return
<1>3. ASSUME Fail(t) PROVE thr' \in [Threads -> Call]
  BY <1>3, ThreadUpdates, LabelsAre DEF Fail
<1> QED BY <1>1, <1>2, <1>3

\* Threads in stop.
LEMMA TypeStop ==
  ASSUME TypeOK, NEW t \in Threads, StopBump(t) \/ StopKill(t) \/ StopReset(t)
  PROVE  TypeOK'
<1>1. thr \in [Threads -> Call] /\ thr[t].back \in Labels
  BY LabelsAre DEF TypeOK, Call
<1>2. thr' \in [Threads -> Call]
  BY <1>1, LabelsAre, Moves DEF StopBump, StopKill, StopReset
<1>3. CASE StopBump(t) \/ StopReset(t)
  BY <1>2, <1>3, ResetValues DEF TypeOK, program, StopBump, StopReset
<1>4. CASE StopKill(t)
  BY <1>2, <1>4 DEF TypeOK, program, StopKill, Ended
<1> QED BY <1>3, <1>4

\* Threads in start, up to the wait.
LEMMA TypeStart ==
  ASSUME TypeOK, NEW t \in Threads,
         \/ StartBegin(t) \/ PreparePsiphon(t) \/ PrepareTor(t) \/ Announce(t)
         \/ Spawn(t) \/ Claim(t)
  PROVE  TypeOK'
<1>1. thr \in [Threads -> Call] /\ generation + 1 \in Nat
  BY DEF TypeOK
<1>2. thr' \in [Threads -> Call]
  <2>1. CASE StartBegin(t)
    BY <1>1, <2>1, LabelsAre, ThreadUpdates DEF StartBegin
  <2>2. CASE PreparePsiphon(t) \/ PrepareTor(t)
    BY <1>1, <2>2, LabelsAre, Moves DEF PreparePsiphon, PrepareTor, Configured
  <2>3. CASE Announce(t) \/ Claim(t)
    BY <1>1, <2>3, LabelsAre, Moves DEF Announce, Claim
  <2>4. CASE Spawn(t)
    <3>1. ASSUME NEW p \in Procs, thr' = [thr EXCEPT ![t].pc = "claim", ![t].proc = p]
          PROVE  thr' \in [Threads -> Call]
      BY <1>1, <3>1, LabelsAre, ThreadUpdates
    <3> QED BY <1>1, <2>4, <3>1, Moves DEF Spawn
  <2> QED BY <2>1, <2>2, <2>3, <2>4
<1>3. CASE StartBegin(t) \/ PreparePsiphon(t) \/ PrepareTor(t)
  BY <1>2, <1>3, ResetValues DEF TypeOK, program, StartBegin, PreparePsiphon, PrepareTor
<1>4. CASE Announce(t) \/ Spawn(t)
  BY <1>2, <1>4, ResetValues DEF TypeOK, program, Announce, Spawn
<1>5. CASE Claim(t)
  <2>1. thr[t].gen \in Nat /\ thr[t].proc \in Procs \union {NoProc}
    BY <1>1 DEF Call
  <2>2. [Off EXCEPT !.pc = "read", !.gen = thr[t].gen] \in NoticeReader
    BY <2>1 DEF Off, NoticeReader, Notices
  <2> QED BY <1>2, <1>5, <2>1, <2>2 DEF TypeOK, program, Claim, Ended
<1> QED BY <1>3, <1>4, <1>5

\* Threads that wait, and a start that failed.
LEMMA TypeWait ==
  ASSUME TypeOK, NEW t \in Threads,
         \/ WaitForTunnel(t) \/ Look(t) \/ IsAlive(t) \/ ReadControlPort(t) \/ ReadCookie(t)
         \/ AskProgress(t) \/ PublishCircuit(t) \/ Failed(t) \/ Deadline(t)
  PROVE  TypeOK'
<1>1. thr \in [Threads -> Call] /\ files.control \in Procs \union {NoProc}
  BY DEF TypeOK
<1>2. thr' \in [Threads -> Call]
  <2>1. CASE WaitForTunnel(t) \/ Look(t) \/ IsAlive(t) \/ ReadCookie(t) \/ AskProgress(t)
    BY <1>1, <2>1, LabelsAre, Moves
       DEF WaitForTunnel, Look, IsAlive, ReadCookie, AskProgress
  <2>2. CASE ReadControlPort(t) \/ PublishCircuit(t) \/ Failed(t)
    <3>1. [thr EXCEPT ![t].pc = "cookie", ![t].control = files.control] \in [Threads -> Call]
      BY <1>1, LabelsAre, ThreadUpdates
    <3> QED BY <1>1, <2>2, <3>1, Moves DEF ReadControlPort, PublishCircuit, Failed
  <2>3. CASE Deadline(t)
    <3>1. [thr[t] EXCEPT !.late = TRUE] \in Call
      BY <1>1 DEF Call
    <3> QED BY <1>1, <2>3, <3>1 DEF Deadline
  <2> QED BY <2>1, <2>2, <2>3
<1>3. CASE PublishCircuit(t) \/ Failed(t)
  <2>1. thr[t].control \in Procs \union {NoProc}
    BY <1>1 DEF Call
  <2> QED BY <1>2, <1>3, <2>1 DEF TypeOK, program, Screen, PublishCircuit, Failed
<1>4. CASE \/ WaitForTunnel(t) \/ Look(t) \/ IsAlive(t) \/ ReadControlPort(t)
           \/ ReadCookie(t) \/ AskProgress(t) \/ Deadline(t)
  BY <1>2, <1>4 DEF TypeOK, program, WaitForTunnel, Look, IsAlive, ReadControlPort,
     ReadCookie, AskProgress, Deadline
<1> QED BY <1>3, <1>4

\* The readers.
LEMMA TypeReader ==
  ASSUME TypeOK, NEW p \in Procs, ReadNotice(p) \/ ApplyNotice(p)
  PROVE  TypeOK'
<1>1. CASE ReadNotice(p)
  <2>1. pipe[p] \in Seq(Notices) /\ reader[p] \in NoticeReader
    BY DEF TypeOK
  <2>2. Head(pipe[p]) \in Notices /\ Tail(pipe[p]) \in Seq(Notices)
    BY <1>1, <2>1 DEF ReadNotice
  <2>3. \A l \in {"off", "apply"} : [reader[p] EXCEPT !.pc = l, !.line = Head(pipe[p])] \in NoticeReader
    BY <2>1, <2>2 DEF NoticeReader
  <2>4. reader' \in [Procs -> NoticeReader]
    BY <1>1, <2>3 DEF TypeOK, ReadNotice
  <2> QED BY <1>1, <2>2, <2>4 DEF TypeOK, ReadNotice
<1>2. CASE ApplyNotice(p)
  <2>1. Applied(reader[p].line, p) \in Screen
    BY DEF TypeOK, NoticeReader, Notices, Applied, Screen
  <2>2. [reader[p] EXCEPT !.pc = "read"] \in NoticeReader
    BY DEF TypeOK, NoticeReader
  <2> QED BY <1>2, <2>1, <2>2 DEF TypeOK, ApplyNotice, program
<1> QED BY <1>1, <1>2

\* The program the carrier is.
LEMMA TypeRun ==
  ASSUME TypeOK, NEW p \in Procs, Run(p)
  PROVE  TypeOK'
<1>1. ASSUME NEW n \in Notices, Says(p, n) PROVE pipe' \in [Procs -> Seq(Notices)]
  <2>1. Append(pipe[p], n) \in Seq(Notices)
    BY DEF TypeOK
  <2> QED BY <1>1, <2>1 DEF TypeOK, Says
<1>2. pipe' \in [Procs -> Seq(Notices)]
  BY <1>1 DEF Run, Bind, Establish, LoseTunnel, GiveUp, Exit, Notices, TypeOK
<1>3. CASE Bind(p)
  BY <1>2, <1>3 DEF TypeOK, Bind
<1>4. CASE Establish(p) \/ LoseTunnel(p)
  BY <1>2, <1>4 DEF TypeOK, Establish, LoseTunnel
<1>5. CASE GiveUp(p) \/ Exit(p)
  BY <1>2, <1>5 DEF TypeOK, GiveUp, Exit, Ended
<1> QED BY <1>3, <1>4, <1>5 DEF Run

\* A call begins.
LEMMA TypeCall ==
  ASSUME TypeOK, NEW t \in Threads, CallStop(t) \/ CallStart(t)
  PROVE  TypeOK'
<1>1. thr' \in [Threads -> Call]
  <2>1. CASE CallStop(t)
    BY <2>1, LabelsAre, ThreadUpdates DEF TypeOK, CallStop
  <2>2. CASE CallStart(t)
    BY <2>2, ResetValues DEF TypeOK, CallStart
  <2> QED BY <2>1, <2>2
<1> QED BY <1>1 DEF TypeOK, program, CallStop, CallStart

\* Every step keeps every type.
LEMMA TypeStep ==
  ASSUME TypeOK, [Next]_vars
  PROVE  TypeOK'
<1>1. ASSUME NEW t \in Threads, Step(t) \/ Deadline(t) PROVE TypeOK'
  BY <1>1, TypeStop, TypeStart, TypeWait DEF Step
<1>2. CASE UNCHANGED vars
  BY <1>2 DEF vars, program, TypeOK
<1> QED BY <1>1, <1>2, TypeCall, TypeReader, TypeRun DEF Next, Threads


(***************************************************************************)
(* What a step makes of the threads.                                       *)
(***************************************************************************)
\* The other threads stay where they are.
Others(t) == \A u \in Threads \ {t} : thr'[u] = thr[u]

\* The thread goes to a label with the generation and the process it has.
Moved(t, l) ==
  /\ Others(t) /\ thr'[t].pc = l
  /\ thr'[t].gen = thr[t].gen /\ thr'[t].proc = thr[t].proc

\* The general ways to move on.
LEMMA Moving ==
  ASSUME TypeOK, NEW t \in Threads
  PROVE  /\ \A l \in Labels : Goto(t, l) =>
              /\ Moved(t, l)
              /\ thr'[t].back = thr[t].back /\ thr'[t].control = thr[t].control
              /\ thr'[t].result = thr[t].result
         /\ \A r : Return(t, r) => Moved(t, "idle") /\ thr'[t].result = r
         /\ Fail(t) => Moved(t, "bump") /\ thr'[t].back = "failed"
<1>1. ASSUME NEW l \in Labels, Goto(t, l)
      PROVE  /\ Moved(t, l) /\ thr'[t].back = thr[t].back /\ thr'[t].control = thr[t].control
             /\ thr'[t].result = thr[t].result
  <2>1. thr'[t] = [thr[t] EXCEPT !.pc = l] /\ thr[t] \in Call
    BY <1>1 DEF Goto, TypeOK
  <2>2. Others(t)
    BY <1>1 DEF Goto, Others, TypeOK
  <2> QED BY <2>1, <2>2 DEF Call, Moved
<1>2. ASSUME NEW r, Return(t, r) PROVE Moved(t, "idle") /\ thr'[t].result = r
  <2>1. thr'[t] = [thr[t] EXCEPT !.pc = "idle", !.result = r] /\ thr[t] \in Call
    BY <1>2 DEF Return, TypeOK
  <2>2. Others(t)
    BY <1>2 DEF Return, Others, TypeOK
  <2> QED BY <2>1, <2>2 DEF Call, Moved
<1>3. ASSUME Fail(t) PROVE Moved(t, "bump") /\ thr'[t].back = "failed"
  <2>1. thr'[t] = [thr[t] EXCEPT !.pc = "bump", !.back = "failed"] /\ thr[t] \in Call
    BY <1>3 DEF Fail, TypeOK
  <2>2. Others(t)
    BY <1>3 DEF Fail, Others, TypeOK
  <2> QED BY <2>1, <2>2 DEF Call, Moved
<1> QED BY <1>1, <1>2, <1>3

\* The steps that move on in a way of their own.
LEMMA MovingOwn ==
  ASSUME TypeOK, NEW t \in Threads
  PROVE  /\ StartBegin(t) => /\ Others(t) /\ thr'[t].pc = "prepare"
                            /\ thr'[t].gen = generation + 1
         /\ \A p \in Procs : thr' = [thr EXCEPT ![t].pc = "claim", ![t].proc = p] =>
              /\ Others(t) /\ thr'[t].pc = "claim" /\ thr'[t].gen = thr[t].gen
              /\ thr'[t].proc = p
         /\ \A p : thr' = [thr EXCEPT ![t].pc = "cookie", ![t].control = p] =>
              Moved(t, "cookie") /\ thr'[t].control = p
         /\ Deadline(t) => /\ Moved(t, thr[t].pc) /\ thr'[t].control = thr[t].control
         /\ CallStop(t) => Moved(t, "bump") /\ thr'[t].back = "idle"
         /\ CallStart(t) => /\ Others(t) /\ thr'[t].pc = "bump" /\ thr'[t].gen = 0
                           /\ thr'[t].proc = NoProc /\ thr'[t].back = "begin"
<1>0. thr \in [Threads -> Call] /\ thr[t] \in Call
  BY DEF TypeOK
<1>1. ASSUME StartBegin(t)
      PROVE  Others(t) /\ thr'[t].pc = "prepare" /\ thr'[t].gen = generation + 1
  <2>1. thr'[t] = [thr[t] EXCEPT !.pc = "prepare", !.gen = generation + 1]
    BY <1>0, <1>1 DEF StartBegin
  <2> QED BY <1>0, <1>1, <2>1 DEF StartBegin, Others, Call
<1>2. ASSUME NEW p \in Procs, thr' = [thr EXCEPT ![t].pc = "claim", ![t].proc = p]
      PROVE  Others(t) /\ thr'[t].pc = "claim" /\ thr'[t].gen = thr[t].gen /\ thr'[t].proc = p
  <2>1. thr'[t] = [thr[t] EXCEPT !.pc = "claim", !.proc = p]
    BY <1>0, <1>2
  <2> QED BY <1>0, <1>2, <2>1 DEF Others, Call
<1>3. ASSUME NEW p, thr' = [thr EXCEPT ![t].pc = "cookie", ![t].control = p]
      PROVE  Moved(t, "cookie") /\ thr'[t].control = p
  <2>1. thr'[t] = [thr[t] EXCEPT !.pc = "cookie", !.control = p]
    BY <1>0, <1>3
  <2> QED BY <1>0, <1>3, <2>1 DEF Others, Call, Moved
<1>4. ASSUME Deadline(t) PROVE Moved(t, thr[t].pc) /\ thr'[t].control = thr[t].control
  <2>1. thr'[t] = [thr[t] EXCEPT !.late = TRUE]
    BY <1>0, <1>4 DEF Deadline
  <2> QED BY <1>0, <1>4, <2>1 DEF Deadline, Others, Call, Moved
<1>5. ASSUME CallStop(t) PROVE Moved(t, "bump") /\ thr'[t].back = "idle"
  <2>1. thr'[t] = [thr[t] EXCEPT !.pc = "bump", !.back = "idle"]
    BY <1>0, <1>5 DEF CallStop
  <2> QED BY <1>0, <1>5, <2>1 DEF CallStop, Others, Call, Moved
<1>6. ASSUME CallStart(t)
      PROVE  /\ Others(t) /\ thr'[t].pc = "bump" /\ thr'[t].gen = 0 /\ thr'[t].proc = NoProc
             /\ thr'[t].back = "begin"
  <2>1. thr'[t] = [Idle EXCEPT !.pc = "bump", !.back = "begin"]
    BY <1>0, <1>6 DEF CallStart
  <2> QED BY <1>0, <1>6, <2>1 DEF CallStart, Others, Idle
<1> QED BY <1>1, <1>2, <1>3, <1>4, <1>5, <1>6

\* Where a waiting thread goes, and what it leaves alone.
LEMMA WaitMoves ==
  ASSUME TypeOK, NEW t \in Threads,
         \/ WaitForTunnel(t) \/ Look(t) \/ IsAlive(t) \/ ReadControlPort(t) \/ ReadCookie(t)
         \/ AskProgress(t) \/ PublishCircuit(t) \/ Failed(t) \/ Deadline(t)
  PROVE  /\ thr[t].pc \in Waiting \union {"failed"}
         /\ \/ \E l \in Waiting \union {"idle"} : Moved(t, l)
            \/ Moved(t, "bump") /\ thr'[t].back = "failed"
         /\ UNCHANGED <<kind, generation, child, reader, program>>
<1> USE LabelsAre, Moving, MovingOwn DEF Waiting, At
<1>1. CASE WaitForTunnel(t) \/ IsAlive(t)
  BY <1>1 DEF WaitForTunnel, IsAlive
<1>2. CASE Look(t)
  BY <1>2 DEF Look
<1>3. CASE ReadControlPort(t)
  BY <1>3 DEF ReadControlPort
<1>4. CASE ReadCookie(t)
  BY <1>4 DEF ReadCookie
<1>5. CASE AskProgress(t)
  BY <1>5 DEF AskProgress
<1>6. CASE PublishCircuit(t) \/ Failed(t)
  BY <1>6 DEF PublishCircuit, Failed
<1>7. CASE Deadline(t)
  BY <1>7 DEF Deadline
<1> QED BY <1>1, <1>2, <1>3, <1>4, <1>5, <1>6, <1>7

\* Where a thread that stops goes.
LEMMA StopMoves ==
  ASSUME TypeOK, NEW t \in Threads
  PROVE  /\ StopBump(t) => At(t, "bump") /\ Moved(t, "kill") /\ thr'[t].back = thr[t].back
         /\ StopKill(t) => At(t, "kill") /\ Moved(t, "reset") /\ thr'[t].back = thr[t].back
         /\ StopReset(t) => At(t, "reset") /\ Moved(t, thr[t].back) /\ thr'[t].back = thr[t].back
<1>1. thr[t].back \in {"idle", "begin", "failed"}
  BY DEF TypeOK, Call
<1> QED BY <1>1, LabelsAre, Moving DEF StopBump, StopKill, StopReset

\* Where a thread that starts goes.
LEMMA StartMoves ==
  ASSUME TypeOK, NEW t \in Threads
  PROVE  /\ StartBegin(t) => At(t, "begin")
         /\ PreparePsiphon(t) \/ PrepareTor(t) =>
              At(t, "prepare") /\ (Moved(t, "announce") \/ Moved(t, "idle"))
         /\ Announce(t) => At(t, "announce") /\ Moved(t, "spawn")
         /\ Spawn(t) => At(t, "spawn") /\ Others(t)
         /\ Claim(t) => /\ At(t, "claim")
                        /\ Moved(t, "idle") \/ Moved(t, "control") \/ Moved(t, "wait")
<1> USE LabelsAre, Moving, MovingOwn
<1>1. PreparePsiphon(t) \/ PrepareTor(t) =>
        At(t, "prepare") /\ (Moved(t, "announce") \/ Moved(t, "idle"))
  BY DEF PreparePsiphon, PrepareTor, Configured
<1>2. Spawn(t) => At(t, "spawn") /\ Others(t)
  BY DEF Spawn, Moved
<1>3. Claim(t) => /\ At(t, "claim")
                  /\ Moved(t, "idle") \/ Moved(t, "control") \/ Moved(t, "wait")
  BY DEF Claim
<1> QED BY <1>1, <1>2, <1>3 DEF StartBegin, Announce

\* What a spawn puts in the thread's hands.
LEMMA SpawnMoves ==
  ASSUME TypeOK, NEW t \in Threads, Spawn(t)
  PROVE  \/ \E p \in Procs : /\ proc[p] = "none" /\ proc' = [proc EXCEPT ![p] = "up"]
                            /\ thr'[t].pc = "claim" /\ thr'[t].gen = thr[t].gen
                            /\ thr'[t].proc = p
         \/ UNCHANGED proc /\ Moved(t, "idle")
<1>1. ASSUME NEW p \in Procs, proc[p] = "none", proc' = [proc EXCEPT ![p] = "up"],
             thr' = [thr EXCEPT ![t].pc = "claim", ![t].proc = p]
      PROVE  \E q \in Procs : /\ proc[q] = "none" /\ proc' = [proc EXCEPT ![q] = "up"]
                             /\ thr'[t].pc = "claim" /\ thr'[t].gen = thr[t].gen
                             /\ thr'[t].proc = q
  <2>1. thr'[t].pc = "claim" /\ thr'[t].gen = thr[t].gen /\ thr'[t].proc = p
    BY <1>1, MovingOwn
  <2> QED BY <1>1, <2>1
<1>2. Return(t, "error") => Moved(t, "idle")
  BY Moving
<1> QED BY <1>1, <1>2 DEF Spawn

\* What a claim makes of the processes, the slot and the readers.
LEMMA ClaimMoves ==
  ASSUME TypeOK, NEW t \in Threads, Claim(t), thr[t].proc \in Procs
  PROVE  /\ Superseded(t) =>
              /\ Moved(t, "idle") /\ UNCHANGED <<child, reader>> /\ thr'[t].result = "error"
              /\ \A q \in Procs : proc'[q] = IF q = thr[t].proc THEN "ended" ELSE proc[q]
         /\ ~Superseded(t) =>
              /\ Moved(t, IF kind = "tor" THEN "control" ELSE "wait")
              /\ child' = thr[t].proc /\ UNCHANGED proc
              /\ \A q \in Procs \ {thr[t].proc} : reader'[q] = reader[q]
              /\ reader'[thr[t].proc].gen = thr[t].gen /\ reader'[thr[t].proc].pc = "read"
<1>1. CASE Superseded(t)
  <2>1. Return(t, "error") /\ proc' = Ended(thr[t].proc)
    BY <1>1 DEF Claim
  <2> QED BY <1>1, <2>1, Moving DEF Claim, Ended, TypeOK
<1>2. CASE ~Superseded(t)
  <2>1. reader' = [reader EXCEPT ![thr[t].proc] = [Off EXCEPT !.pc = "read", !.gen = thr[t].gen]]
    BY <1>2 DEF Claim
  <2>2. reader'[thr[t].proc] = [Off EXCEPT !.pc = "read", !.gen = thr[t].gen]
    BY <2>1 DEF TypeOK
  <2>3. reader'[thr[t].proc].gen = thr[t].gen /\ reader'[thr[t].proc].pc = "read"
    BY <2>2 DEF Off
  <2>4. \A q \in Procs \ {thr[t].proc} : reader'[q] = reader[q]
    BY <2>1 DEF TypeOK
  <2>5. Moved(t, IF kind = "tor" THEN "control" ELSE "wait")
    BY <1>2, Moving, LabelsAre DEF Claim
  <2> QED BY <1>2, <2>3, <2>4, <2>5 DEF Claim
<1> QED BY <1>1, <1>2

(***************************************************************************)
(* One starter at a time.                                                  *)
(***************************************************************************)
\* The other steps leave the threads, the generation and the slot alone.
LEMMA OthersLeave ==
  ASSUME NEW p \in Procs, Run(p) \/ ReadNotice(p) \/ ApplyNotice(p)
  PROVE  UNCHANGED <<thr, generation, child, kind>>
BY DEF Run, Bind, Establish, LoseTunnel, GiveUp, Exit, ReadNotice, ApplyNotice

\* A thread that takes a step is not idle, and a stopper only stops.
LEMMA Stepping ==
  ASSUME TypeOK, NEW t \in Threads, Step(t) \/ Deadline(t)
  PROVE  /\ ~At(t, "idle") /\ Others(t)
         /\ thr[t].pc \in Stopping =>
              /\ thr'[t].back = thr[t].back
              /\ thr'[t].pc \in {"kill", "reset", thr[t].back}
         /\ thr[t].pc \notin Stopping /\ thr'[t].pc \in Stopping \ {"idle"} =>
              thr'[t].back = "failed"
<1>1. CASE StopBump(t) \/ StopKill(t) \/ StopReset(t)
  BY <1>1, StopMoves DEF At, Moved, Stopping
<1>2. CASE \/ StartBegin(t) \/ PreparePsiphon(t) \/ PrepareTor(t) \/ Announce(t)
           \/ Spawn(t) \/ Claim(t)
  BY <1>2, StartMoves, MovingOwn, SpawnMoves DEF At, Moved, Stopping
<1>3. CASE \/ WaitForTunnel(t) \/ Look(t) \/ IsAlive(t) \/ ReadControlPort(t) \/ ReadCookie(t)
           \/ AskProgress(t) \/ PublishCircuit(t) \/ Failed(t) \/ Deadline(t)
  BY <1>3, WaitMoves DEF At, Moved, Stopping, Waiting
<1> QED BY <1>1, <1>2, <1>3 DEF Step

\* Alone is inductive, for callers who make one start at a time.
LEMMA AloneStep ==
  ASSUME Patient, TypeOK, Alone, [Next]_vars
  PROVE  Alone'
<1>1. ASSUME NEW t \in Threads, Step(t) \/ Deadline(t) PROVE Alone'
  BY <1>1, Stepping DEF Alone, Threads, At, Stopping, Others
<1>2. ASSUME NEW t \in Stoppers, CallStop(t) PROVE Alone'
  <2>1. Moved(t, "bump") /\ thr'[t].back = "idle" /\ t \notin Starters
    BY <1>2, MovingOwn, ThreadsAreApart DEF Threads
  <2> QED BY <2>1 DEF Alone, Threads, At, Stopping, Moved, Others
<1>3. ASSUME NEW t \in Starters, CallStart(t) PROVE Alone'
  <2>1. /\ Others(t) /\ t \notin Stoppers /\ \A u \in Starters : At(u, "idle")
        /\ thr'[t].back = "begin"
    BY <1>3, MovingOwn, ThreadsAreApart DEF Threads, CallStart
  <2> QED BY <2>1 DEF Alone, Threads, At, Others
<1>4. ASSUME NEW p \in Procs, Run(p) \/ ReadNotice(p) \/ ApplyNotice(p) PROVE Alone'
  BY <1>4, OthersLeave DEF Alone, At
<1>5. CASE UNCHANGED vars
  BY <1>5 DEF Alone, At, vars
<1> QED BY <1>1, <1>2, <1>3, <1>4, <1>5 DEF Next

(***************************************************************************)
(* Who holds a process.                                                    *)
(***************************************************************************)
\* stop: a bump is followed by a kill, which empties the slot.
LEMMA HeldStop ==
  ASSUME TypeOK, Alone, Held, NEW t \in Threads, StopBump(t) \/ StopKill(t) \/ StopReset(t)
  PROVE  Held'
<1> USE NoProcIsNone, StopMoves DEF Held, At, Threads, Stopping, Starting, Moved, Others
<1>1. CASE StopBump(t)
  <2>1. UNCHANGED <<child, proc, reader>> /\ generation' = generation + 1
    BY <1>1 DEF StopBump, program
  <2>2. generation \in Nat /\ (\A u \in Threads : thr[u].gen \in Nat)
        /\ (\A p \in Procs : reader[p].gen \in Nat)
    BY DEF TypeOK, Call, NoticeReader
  <2> QED BY <1>1, <2>1, <2>2 DEF Running
<1>2. CASE StopKill(t)
  <2>1. UNCHANGED <<generation, reader>> /\ child' = NoProc
    BY <1>2 DEF StopKill
  <2>2. \A p \in Procs : proc'[p] = IF p = child THEN "ended" ELSE proc[p]
    BY <1>2 DEF StopKill, Ended, TypeOK
  <2> QED BY <1>2, <2>1, <2>2 DEF Running
<1>3. CASE StopReset(t)
  <2>1. UNCHANGED <<generation, child, proc, reader>>
    BY <1>3 DEF StopReset, program
  <2>2. thr[t].back \in {"idle", "begin", "failed"} /\ (t \in Stoppers => thr[t].back = "idle")
    BY DEF TypeOK, Call, Alone
  <2> QED BY <1>3, <2>1, <2>2 DEF Running
<1> QED BY <1>1, <1>2, <1>3

\* start, up to the claim: the starter is the only one, and the slot is empty.
LEMMA HeldStart ==
  ASSUME TypeOK, Alone, Held, NEW t \in Threads,
         StartBegin(t) \/ PreparePsiphon(t) \/ PrepareTor(t) \/ Announce(t) \/ Spawn(t)
  PROVE  Held'
<1> USE NoProcIsNone, StartMoves DEF Held, At, Threads, Stopping, Starting, Moved, Others
<1>1. CASE StartBegin(t)
  <2>1. UNCHANGED <<child, proc, reader>> /\ generation' = generation + 1
    BY <1>1 DEF StartBegin, program
  <2>2. generation \in Nat /\ (\A u \in Threads : thr[u].gen \in Nat)
        /\ (\A p \in Procs : reader[p].gen \in Nat)
    BY DEF TypeOK, Call, NoticeReader
  <2>3. child = NoProc
    BY <1>1 DEF Alone
  <2>4. Others(t) /\ thr'[t].pc = "prepare" /\ thr'[t].gen = generation + 1
    BY <1>1, MovingOwn
  <2> QED BY <1>1, <2>1, <2>2, <2>3, <2>4 DEF Running
<1>2. CASE PreparePsiphon(t) \/ PrepareTor(t) \/ Announce(t)
  <2>1. UNCHANGED <<generation, child, proc, reader>>
    BY <1>2 DEF PreparePsiphon, PrepareTor, Announce, program
  <2> QED BY <1>2, <2>1 DEF Running
<1>3. CASE Spawn(t)
  <2>0. UNCHANGED <<generation, child, reader>> /\ t \in Starters
    BY <1>3 DEF Spawn, Alone
  <2>1. ASSUME NEW p \in Procs, proc[p] = "none", proc' = [proc EXCEPT ![p] = "up"],
               thr'[t].pc = "claim", thr'[t].gen = thr[t].gen, thr'[t].proc = p
        PROVE  Held'
    <3>1. \A q \in Procs : proc'[q] = IF q = p THEN "up" ELSE proc[q]
      BY <2>1 DEF TypeOK
    <3> QED BY <1>3, <2>0, <2>1, <3>1 DEF Running
  <2>2. ASSUME UNCHANGED proc, Moved(t, "idle") PROVE Held'
    BY <1>3, <2>0, <2>2 DEF Running
  <2> QED BY <1>3, <2>1, <2>2, SpawnMoves
<1> QED BY <1>1, <1>2, <1>3

\* The claim: the slot is filled for the live generation, or the process is killed.
LEMMA HeldClaim ==
  ASSUME TypeOK, Alone, Held, NEW t \in Threads, Claim(t)
  PROVE  Held'
<1> USE NoProcIsNone, StartMoves DEF Held, At, Threads, Stopping, Starting, Moved, Others
<1>0. t \in Starters /\ thr[t].proc \in Procs /\ UNCHANGED generation
      /\ \A u \in Starters : u # t => At(u, "idle")
  BY DEF Claim, Alone
<1>1. CASE Superseded(t)
  BY <1>0, <1>1, ClaimMoves DEF Running
<1>2. CASE ~Superseded(t)
  <2>1. \A q \in Procs : reader'[q].gen = IF q = thr[t].proc THEN thr[t].gen ELSE reader[q].gen
    BY <1>0, <1>2, ClaimMoves
  <2>2. thr[t].gen = generation
    BY <1>2 DEF Superseded
  <2>3. /\ child' = thr[t].proc /\ UNCHANGED proc
        /\ Moved(t, IF kind = "tor" THEN "control" ELSE "wait")
    BY <1>0, <1>2, ClaimMoves
  <2>4. child = NoProc
    BY <1>0
  <2> QED BY <1>0, <2>1, <2>2, <2>3, <2>4 DEF Running
<1> QED BY <1>1, <1>2

\* Waiting changes neither the slot nor the processes.
LEMMA HeldWait ==
  ASSUME TypeOK, Alone, Held, NEW t \in Threads,
         \/ WaitForTunnel(t) \/ Look(t) \/ IsAlive(t) \/ ReadControlPort(t) \/ ReadCookie(t)
         \/ AskProgress(t) \/ PublishCircuit(t) \/ Failed(t) \/ Deadline(t)
  PROVE  Held'
BY WaitMoves DEF Held, At, Running, Threads, Starting, Waiting, Moved, Others, program

\* A call begins with a bump.
LEMMA HeldCall ==
  ASSUME TypeOK, Held, NEW t \in Threads, CallStop(t) \/ CallStart(t)
  PROVE  Held'
<1>1. UNCHANGED <<generation, child, proc, reader>> /\ At(t, "idle")
  BY DEF CallStop, CallStart, program
<1>2. Others(t) /\ thr'[t].pc = "bump" /\ (thr'[t].gen = thr[t].gen \/ thr'[t].gen = 0)
  BY MovingOwn DEF Moved
<1>3. generation \in Nat
  BY DEF TypeOK
<1> QED BY <1>1, <1>2, <1>3 DEF Held, At, Running, Threads, Starting, Others

\* Nobody else fills the slot, and a process that begins to run was in hand.
LEMMA HeldOthers ==
  ASSUME TypeOK, Held, NEW p \in Procs, Run(p) \/ ReadNotice(p) \/ ApplyNotice(p)
  PROVE  Held'
<1>1. UNCHANGED <<thr, generation, child>>
  BY OthersLeave
<1>2. \A q \in Procs : reader'[q].gen = reader[q].gen
  <2>1. CASE Run(p)
    BY <2>1 DEF Run, Bind, Establish, LoseTunnel, GiveUp, Exit
  <2>2. CASE ReadNotice(p)
    <3>1. \E l \in {"off", "apply"} : reader' = [reader EXCEPT ![p].pc = l, ![p].line = Head(pipe[p])]
      BY <2>2 DEF ReadNotice
    <3>2. \E l \in {"off", "apply"} : reader'[p] = [reader[p] EXCEPT !.pc = l, !.line = Head(pipe[p])]
      BY <3>1 DEF TypeOK
    <3> QED BY <2>2, <3>1, <3>2 DEF TypeOK, NoticeReader
  <2>3. CASE ApplyNotice(p)
    <3>1. reader'[p] = [reader[p] EXCEPT !.pc = "read"]
      BY <2>3 DEF TypeOK, ApplyNotice
    <3> QED BY <2>3, <3>1 DEF TypeOK, NoticeReader, ApplyNotice
  <2> QED BY <2>1, <2>2, <2>3
<1>3. \A q \in Procs : Running(q)' => Running(q)
  BY DEF TypeOK, Running, Run, Bind, Establish, LoseTunnel, GiveUp, Exit, Ended, ReadNotice,
     ApplyNotice, program
<1> QED BY <1>1, <1>2, <1>3 DEF Held, At

\* Held is inductive beside Alone.
LEMMA HeldStep ==
  ASSUME TypeOK, Alone, Held, [Next]_vars
  PROVE  Held'
<1>1. ASSUME NEW t \in Threads, Step(t) \/ Deadline(t) PROVE Held'
  BY <1>1, HeldStop, HeldStart, HeldClaim, HeldWait DEF Step
<1>2. CASE UNCHANGED vars
  BY <1>2 DEF Held, At, Running, vars, program
<1> QED BY <1>1, <1>2, HeldCall, HeldOthers DEF Next, Threads

\* For callers who make one start at a time, every process that runs is the one there
\* should be, or somebody is about to kill it or to put it where it is found: a stop that
\* overtakes a start between spawn and claim leaves nothing behind.
THEOREM ProcessesAreHeld == Patient => (Spec => []NoStrayProcess)
<1> SUFFICES ASSUME Patient PROVE Spec => []NoStrayProcess
  OBVIOUS
<1>1. Init => Alone /\ Held
  BY NoProcIsNone DEF Init, Alone, Held, At, Idle, Off, Running, Threads, Stopping, Starting
<1>2. TypeOK /\ Alone /\ Held /\ [Next]_vars => (TypeOK /\ Alone /\ Held)'
  BY TypeStep, AloneStep, HeldStep
<1>3. TypeOK /\ Alone /\ Held => NoStrayProcess
  BY DEF TypeOK, Held, NoStrayProcess
<1> QED BY TypeInit, <1>1, <1>2, <1>3, PTL DEF Spec

(***************************************************************************)
(* tor: whose control port is read.                                        *)
(***************************************************************************)
\* A starter that is at work is the only one.
LEMMA OnlyStarter ==
  ASSUME Alone, NEW t \in Starters, ~At(t, "idle")
  PROVE  \A u \in Starters \ {t} : At(u, "idle")
BY DEF Alone

\* Nothing is asked of a thread that is idle.
LEMMA IdleAsksNothing ==
  ASSUME NEW t \in Threads, At(t, "idle")
  PROVE  Asks(t)
BY DEF Asks, At, Waiting

\* What a thread asks does not change while nothing it depends on does.
LEMMA AsksStays ==
  ASSUME NEW t \in Threads, Asks(t), thr'[t] = thr[t],
         UNCHANGED <<kind, files>>, established \subseteq established', child' \in {child, NoProc}
  PROVE  Asks(t)'
BY DEF Asks

\* A step of a thread in start or stop.
LEMMA AsksStart ==
  ASSUME TypeOK, Alone, Held, NEW t \in Starters, Asks(t),
         \/ StopBump(t) \/ StopKill(t) \/ StopReset(t) \/ StartBegin(t)
         \/ PreparePsiphon(t) \/ PrepareTor(t) \/ Announce(t) \/ Spawn(t)
  PROVE  Asks(t)'
<1> USE DEF Asks, Waiting, At
<1>0. t \in Threads
  BY DEF Threads
<1>1. CASE StopBump(t) \/ StopKill(t) \/ StopReset(t)
  <2>1. thr[t].back \in {"idle", "begin", "failed"}
    BY <1>0 DEF TypeOK, Call
  <2> QED BY <1>0, <1>1, <2>1, StopMoves DEF Moved
<1>2. CASE StartBegin(t)
  BY <1>0, <1>2, MovingOwn
<1>3. CASE PreparePsiphon(t)
  BY <1>0, <1>3, StartMoves DEF PreparePsiphon, Moved
<1>4. CASE PrepareTor(t)
  <2>1. Moved(t, "idle") \/ (Moved(t, "announce") /\ files' = NoFiles)
    BY <1>0, <1>4, Moving, LabelsAre DEF PrepareTor, Configured
  <2> QED BY <1>0, <2>1 DEF Moved, NoFiles
<1>5. CASE Announce(t)
  BY <1>0, <1>5, StartMoves DEF Announce, Moved, program
<1>6. CASE Spawn(t)
  BY <1>0, <1>6, StartMoves, SpawnMoves DEF Spawn, Moved
<1> QED BY <1>1, <1>2, <1>3, <1>4, <1>5, <1>6

\* The claim, and the steps that wait.
LEMMA AsksWait ==
  ASSUME TypeOK, Alone, Held, Controlled, NEW t \in Starters, Asks(t),
         \/ Claim(t) \/ WaitForTunnel(t) \/ Look(t) \/ IsAlive(t) \/ ReadControlPort(t)
         \/ ReadCookie(t) \/ AskProgress(t) \/ PublishCircuit(t) \/ Failed(t) \/ Deadline(t)
  PROVE  Asks(t)'
<1> USE LabelsAre DEF Asks, Waiting, At
<1>0. t \in Threads
  BY DEF Threads
<1>1. CASE Claim(t)
  <2>1. thr[t].proc \in Procs /\ UNCHANGED <<kind, files>> /\ thr[t].pc = "claim"
    BY <1>1 DEF Held, Claim
  <2> QED BY <1>0, <1>1, <2>1, ClaimMoves DEF Moved
<1>2. CASE WaitForTunnel(t) \/ Look(t) \/ IsAlive(t)
  <2>1. UNCHANGED <<kind, child, files, established>>
    BY <1>2 DEF WaitForTunnel, Look, IsAlive, program
  <2>2. CASE WaitForTunnel(t)
    <3>1. Moved(t, "bump") \/ (/\ thr'[t].control = thr[t].control
                              /\ Moved(t, IF kind = "tor" THEN "alive" ELSE "look"))
      BY <1>0, <2>2, Moving DEF WaitForTunnel
    <3> QED BY <2>1, <2>2, <3>1 DEF WaitForTunnel, Moved, TypeOK
  <2>3. CASE Look(t)
    <3>1. Moved(t, "bump") \/ Moved(t, "idle") \/ Moved(t, "alive")
      BY <1>0, <2>3, Moving DEF Look
    <3> QED BY <2>1, <2>3, <3>1 DEF Look, Moved
  <2>4. CASE IsAlive(t)
    <3>1. Moved(t, "bump") \/ (/\ thr'[t].control = thr[t].control
                              /\ Moved(t, IF kind = "tor" THEN "ask" ELSE "wait"))
      BY <1>0, <2>4, Moving DEF IsAlive
    <3> QED BY <2>1, <2>4, <3>1 DEF IsAlive, Moved
  <2> QED BY <1>2, <2>2, <2>3, <2>4
<1>3. CASE ReadControlPort(t)
  <2>1. UNCHANGED <<kind, child, files, established>> /\ thr[t].pc = "control"
    BY <1>3 DEF ReadControlPort, program
  <2>2. \/ Moved(t, "bump")
        \/ Moved(t, "cookie") /\ thr'[t].control = files.control /\ files.control # NoProc
    BY <1>0, <1>3, Moving, MovingOwn DEF ReadControlPort
  <2> QED BY <2>1, <2>2 DEF Moved
<1>4. CASE ReadCookie(t)
  <2>1. UNCHANGED <<kind, child, files, established>> /\ thr[t].pc = "cookie"
    BY <1>4 DEF ReadCookie, program
  <2>2. Moved(t, "bump") \/ (Moved(t, "wait") /\ thr'[t].control = thr[t].control)
    BY <1>0, <1>4, Moving DEF ReadCookie
  <2> QED BY <2>1, <2>2 DEF Moved
<1>5. CASE AskProgress(t)
  <2>1. UNCHANGED <<kind, child, files, established>> /\ thr[t].pc = "ask"
    BY <1>5 DEF AskProgress, program
  <2>2. \/ Moved(t, "bump")
        \/ Moved(t, "wait") /\ thr'[t].control = thr[t].control
        \/ /\ Moved(t, "publish") /\ thr'[t].control = thr[t].control
           /\ proc[thr[t].control] = "carrying"
    BY <1>0, <1>5, Moving DEF AskProgress
  <2> QED BY <2>1, <2>2 DEF Moved, Controlled
<1>6. CASE PublishCircuit(t) \/ Failed(t)
  BY <1>0, <1>6, Moving DEF PublishCircuit, Failed, Moved
<1>7. CASE Deadline(t)
  <2>1. UNCHANGED <<kind, child, files, established>>
    BY <1>7 DEF Deadline, program
  <2> QED BY <1>0, <1>7, <2>1, MovingOwn DEF Moved
<1> QED BY <1>1, <1>2, <1>3, <1>4, <1>5, <1>6, <1>7

\* A tunnel that carries traffic has been established, and established it stays.
LEMMA CarryingStep ==
  ASSUME TypeOK, [Next]_vars, \A p \in Procs : proc[p] = "carrying" => p \in established
  PROVE  /\ established \subseteq established'
         /\ \A p \in Procs : proc'[p] = "carrying" => p \in established'
<1>1. ASSUME NEW t \in Threads, Step(t) \/ Deadline(t)
      PROVE  /\ UNCHANGED established
             /\ \A p \in Procs : proc'[p] \in {proc[p], "up", "ended"}
  <2>1. CASE StopKill(t)
    BY <2>1 DEF StopKill, Ended, TypeOK
  <2>2. CASE Spawn(t)
    BY <2>2, SpawnMoves DEF Spawn, TypeOK
  <2>3. CASE Claim(t)
    BY <2>3 DEF Claim, Ended, TypeOK
  <2>4. CASE \/ StopBump(t) \/ StopReset(t) \/ StartBegin(t) \/ PreparePsiphon(t)
             \/ PrepareTor(t) \/ Announce(t)
    BY <2>4 DEF StopBump, StopReset, StartBegin, PreparePsiphon, PrepareTor, Announce, program
  <2> QED BY <1>1, <2>1, <2>2, <2>3, <2>4, WaitMoves DEF Step, program
<1>2. ASSUME NEW t, CallStop(t) \/ CallStart(t) \/ UNCHANGED vars
      PROVE  UNCHANGED <<established, proc>>
  BY <1>2 DEF CallStop, CallStart, program, vars
<1>3. ASSUME NEW p \in Procs, ReadNotice(p) \/ ApplyNotice(p)
      PROVE  UNCHANGED <<established, proc>>
  BY <1>3 DEF ReadNotice, ApplyNotice, program
<1>4. ASSUME NEW q \in Procs, Run(q)
      PROVE  /\ established \subseteq established'
             /\ \A p \in Procs : proc'[p] = "carrying" => p \in established'
  BY <1>4 DEF Run, Bind, Establish, LoseTunnel, GiveUp, Exit, Ended, TypeOK
<1> QED BY <1>1, <1>2, <1>3, <1>4 DEF Next, Threads

\* Controlled is inductive beside Alone and Held.
LEMMA ControlledStep ==
  ASSUME Patient, TypeOK, Alone, Held, Controlled, [Next]_vars
  PROVE  Controlled'
<1>0. /\ established \subseteq established'
      /\ \A p \in Procs : proc'[p] = "carrying" => p \in established'
  BY CarryingStep DEF Controlled
<1> SUFFICES ASSUME NEW u \in Starters PROVE Asks(u)'
  BY <1>0 DEF Controlled
<1>1. Asks(u) /\ u \in Threads
  BY DEF Controlled, Threads
<1>2. ASSUME At(u, "idle"), thr'[u] = thr[u] PROVE Asks(u)'
  BY <1>2 DEF At, Asks, Waiting
<1>3. ASSUME NEW t \in Threads, Step(t) \/ Deadline(t) PROVE Asks(u)'
  <2>1. CASE t = u
    BY <1>1, <1>3, <2>1, AsksStart, AsksWait DEF Step
  <2>2. CASE t # u /\ t \in Starters
    <3>1. ~At(t, "idle") /\ Others(t)
      BY <1>3, Stepping
    <3>2. At(u, "idle") /\ thr'[u] = thr[u]
      BY <1>1, <2>2, <3>1, OnlyStarter DEF Others
    <3> QED BY <1>2, <3>2
  <2>3. CASE t # u /\ t \in Stoppers
    <3>1. thr[t].pc \in Stopping
      BY <2>3 DEF Alone
    <3>2. StopBump(t) \/ StopKill(t) \/ StopReset(t)
      BY <1>3, <3>1, StartMoves, WaitMoves DEF Step, Stopping, Waiting, At
    <3>3. UNCHANGED <<kind, files>> /\ child' \in {child, NoProc}
      BY <3>2 DEF StopBump, StopKill, StopReset, program
    <3> QED BY <1>0, <1>1, <1>3, <2>3, <3>3, AsksStays, Stepping DEF Others
  <2> QED BY <2>1, <2>2, <2>3 DEF Threads
<1>4. ASSUME NEW t \in Threads, CallStop(t) \/ CallStart(t) PROVE Asks(u)'
  <2>1. UNCHANGED <<kind, files, child>> /\ Others(t) /\ thr'[t].pc = "bump"
    BY <1>4, MovingOwn DEF CallStop, CallStart, program, Moved
  <2>2. CASE t = u
    BY <2>1, <2>2 DEF Asks, Waiting
  <2>3. CASE t # u
    BY <1>0, <1>1, <2>1, <2>3, AsksStays DEF Others
  <2> QED BY <2>2, <2>3
<1>5. ASSUME NEW p \in Procs, Run(p) PROVE Asks(u)'
  <2>1. UNCHANGED <<thr, child, kind>>
    BY <1>5, OthersLeave
  <2>2. CASE UNCHANGED files
    BY <1>0, <1>1, <2>1, <2>2, AsksStays
  <2>3. CASE files' = [control |-> p, cookie |-> p] /\ proc[p] = "up"
    <3>1. child = p \/ \E t \in Starters : At(t, "claim") /\ thr[t].proc = p
      BY <2>3 DEF Held, Running
    <3>2. thr[u].pc \in {"announce", "spawn"} => FALSE
      <4>1. ASSUME thr[u].pc \in {"announce", "spawn"} PROVE FALSE
        <5>1. child = NoProc /\ \A t \in Starters : ~At(t, "claim")
          BY <4>1, OnlyStarter DEF Held, Starting, At
        <5> QED BY <3>1, <5>1, NoProcIsNone
      <4> QED BY <4>1
    <3>3. thr[u].pc \in Waiting \union {"claim"} => p = thr[u].proc
      <4>1. ASSUME thr[u].pc \in Waiting \union {"claim"} PROVE p = thr[u].proc
        <5>1. \A t \in Starters : At(t, "claim") => t = u
          BY <4>1, OnlyStarter DEF At, Waiting
        <5>2. child \in {NoProc, thr[u].proc}
          BY <1>1, <4>1 DEF Asks, Held, Starting
        <5> QED BY <3>1, <5>1, <5>2, NoProcIsNone
      <4> QED BY <4>1
    <3> QED BY <1>0, <1>1, <2>1, <2>3, <3>2, <3>3 DEF Asks, Waiting
  <2> QED BY <1>5, <2>2, <2>3 DEF Run, Bind, Establish, LoseTunnel, GiveUp, Exit
<1>6. ASSUME NEW p \in Procs, ReadNotice(p) \/ ApplyNotice(p) PROVE Asks(u)'
  <2>1. UNCHANGED <<thr, child, kind, files>>
    BY <1>6, OthersLeave DEF ReadNotice, ApplyNotice, program
  <2> QED BY <1>0, <1>1, <2>1, AsksStays
<1>7. CASE UNCHANGED vars
  BY <1>0, <1>1, <1>7, AsksStays DEF vars, program
<1> QED BY <1>3, <1>4, <1>5, <1>6, <1>7 DEF Next, Threads

(***************************************************************************)
(* psiphon: whose notices reach the snapshot.                              *)
(***************************************************************************)
\* A step of a starter at work.
LEMMA FedStart ==
  ASSUME TypeOK, Alone, Held, Controlled, Informed, NEW t \in Starters,
         Step(t) \/ Deadline(t), ~Superseded(t)'
  PROVE  Fed(t)'
<1>0. t \in Threads
  BY DEF Threads
<1>1. CASE thr'[t].pc \in Stopping \union {"begin", "failed"}
  BY <1>1 DEF Fed, Mine, Stopping, Starting, Waiting
<1>2. CASE StopBump(t) \/ StopKill(t) \/ StopReset(t)
  <2>1. thr[t].back \in {"idle", "begin", "failed"}
    BY <1>0 DEF TypeOK, Call
  <2> QED BY <1>0, <1>1, <1>2, <2>1, StopMoves DEF Moved, Stopping
<1>3. CASE StartBegin(t)
  <2>1. thr'[t].pc = "prepare" /\ UNCHANGED reader /\ generation' = generation + 1
    BY <1>0, <1>3, MovingOwn DEF StartBegin
  <2>2. \A p \in Procs : reader[p].gen # generation + 1
    BY DEF Held, TypeOK, NoticeReader
  <2> QED BY <2>1, <2>2 DEF Fed, Mine, Starting, Waiting
<1>4. CASE PreparePsiphon(t) \/ PrepareTor(t) \/ Announce(t) \/ Spawn(t)
  <2>1. /\ UNCHANGED <<reader, generation>> /\ thr'[t].gen = thr[t].gen
        /\ thr[t].pc \in Starting \ {"begin"}
        /\ \/ thr'[t].pc \in {"announce", "idle"}
           \/ thr'[t].pc = "spawn" /\ snapshot' = [Blank EXCEPT !.state = "connecting"]
           \/ thr[t].pc = "spawn" /\ thr'[t].pc = "claim" /\ UNCHANGED snapshot
    BY <1>0, <1>4, StartMoves, SpawnMoves
       DEF PreparePsiphon, PrepareTor, Announce, Spawn, Moved, At, Starting
  <2>2. Fed(t)
    BY <2>1 DEF Informed, Superseded
  <2> QED BY <2>1, <2>2 DEF Fed, Mine, Blank, Waiting, Starting
<1>5. CASE Claim(t)
  <2>1. thr[t].proc \in Procs /\ UNCHANGED <<generation, snapshot>> /\ At(t, "claim")
    BY <1>5 DEF Claim, Held
  <2>2. CASE Superseded(t)
    BY <1>0, <1>1, <1>5, <2>1, <2>2, ClaimMoves DEF Moved, Stopping
  <2>3. CASE ~Superseded(t)
    <3>1. Fed(t)
      BY <2>3 DEF Informed
    <3>2. \A p \in Procs \ {thr[t].proc} : Mine(t, p) /\ reader'[p] = reader[p]
      BY <1>0, <1>5, <2>1, <2>3, <3>1, ClaimMoves DEF Fed
    <3>3. thr'[t].proc = thr[t].proc /\ thr'[t].pc \in {"wait", "control"}
      BY <1>0, <1>5, <2>1, <2>3, ClaimMoves DEF Moved
    <3> QED BY <2>1, <3>1, <3>2, <3>3 DEF Fed, Mine, At, Waiting, Starting
  <2> QED BY <2>2, <2>3
<1>6. CASE \/ WaitForTunnel(t) \/ Look(t) \/ IsAlive(t) \/ ReadControlPort(t) \/ ReadCookie(t)
           \/ AskProgress(t) \/ PublishCircuit(t) \/ Failed(t) \/ Deadline(t)
  <2>1. /\ UNCHANGED <<kind, generation, reader, established>>
        /\ thr'[t].gen = thr[t].gen /\ thr'[t].proc = thr[t].proc
        /\ thr'[t].pc \in Waiting \union {"idle", "bump"}
        /\ thr[t].pc \in Waiting \union {"failed"}
    BY <1>0, <1>6, WaitMoves DEF Moved, program
  <2>2. Fed(t)
    BY <2>1 DEF Informed, Superseded
  <2>3. thr'[t].pc \in Waiting => UNCHANGED snapshot /\ thr[t].pc \in Waiting
    <3>1. PublishCircuit(t) \/ Failed(t) => thr'[t].pc = "idle"
      BY <1>0, Moving DEF PublishCircuit, Failed, Moved
    <3>2. thr[t].pc = "failed" => Failed(t)
      BY <1>6 DEF WaitForTunnel, Look, IsAlive, ReadControlPort, ReadCookie, AskProgress,
         PublishCircuit, Deadline, At
    <3> QED BY <1>6, <2>1, <3>1, <3>2 DEF WaitForTunnel, Look, IsAlive, ReadControlPort,
        ReadCookie, AskProgress, Deadline, Waiting
  <2> QED BY <1>1, <2>1, <2>2, <2>3 DEF Fed, Mine, Stopping, Waiting, Starting
<1> QED BY <1>2, <1>3, <1>4, <1>5, <1>6 DEF Step

\* The starter is told nothing while it does nothing itself: by a stop, a call, or the
\* program speaking.
LEMMA FedStays ==
  ASSUME NEW t \in Threads, Fed(t), thr'[t] = thr[t], UNCHANGED <<kind, reader, generation>>,
         established \subseteq established', snapshot' \in {snapshot, Blank}
  PROVE  Fed(t)'
BY DEF Fed, Mine, Blank

\* A notice that is read is of the same run.
LEMMA ReadMoves ==
  ASSUME TypeOK, NEW p \in Procs, ReadNotice(p)
  PROVE  /\ \A q \in Procs \ {p} : reader'[q] = reader[q] /\ pipe'[q] = pipe[q]
         /\ reader[p].pc = "read" /\ reader'[p].gen = reader[p].gen
         /\ pipe'[p] = Tail(pipe[p]) /\ pipe[p] # <<>> /\ reader'[p].line = Head(pipe[p])
         /\ reader'[p].pc = "apply" => reader[p].gen = generation
<1> DEFINE l == IF reader[p].pc # "read" \/ reader[p].gen # generation THEN "off" ELSE "apply"
<1>2. reader' = [reader EXCEPT ![p].pc = l, ![p].line = Head(pipe[p])]
  BY DEF ReadNotice
<1>3. reader'[p] = [reader[p] EXCEPT !.pc = l, !.line = Head(pipe[p])] /\ reader[p] \in NoticeReader
  BY <1>2 DEF TypeOK
<1>4. reader'[p].pc = l /\ reader'[p].gen = reader[p].gen /\ reader'[p].line = Head(pipe[p])
  BY <1>3 DEF NoticeReader
<1>5. \A q \in Procs \ {p} : reader'[q] = reader[q]
  BY <1>2 DEF TypeOK
<1>6. \A q \in Procs : pipe'[q] = IF q = p THEN Tail(pipe[p]) ELSE pipe[q]
  BY DEF ReadNotice, TypeOK
<1>7. l = "apply" => reader[p].gen = generation
  OBVIOUS
<1> QED BY <1>4, <1>5, <1>6, <1>7 DEF ReadNotice

\* What the program prints is at the end of its pipe.
LEMMA SaysMoves ==
  ASSUME TypeOK, NEW p \in Procs, NEW n \in Notices, Says(p, n)
  PROVE  /\ \A q \in Procs \ {p} : pipe'[q] = pipe[q]
         /\ \A i \in 1 .. Len(pipe'[p]) : pipe'[p][i] = n \/
              (i \in 1 .. Len(pipe[p]) /\ pipe'[p][i] = pipe[p][i])
<1>1. CASE kind = "tor"
  BY <1>1 DEF Says
<1>2. CASE kind # "tor"
  <2>1. pipe[p] \in Seq(Notices) /\ \A q \in Procs : pipe'[q] = IF q = p THEN Append(pipe[p], n) ELSE pipe[q]
    BY <1>2 DEF Says, TypeOK
  <2>2. Len(Append(pipe[p], n)) = Len(pipe[p]) + 1 /\ Len(pipe[p]) \in Nat
    BY <2>1
  <2>3. \A i \in 1 .. Len(pipe[p]) + 1 :
          Append(pipe[p], n)[i] = IF i = Len(pipe[p]) + 1 THEN n ELSE pipe[p][i]
    BY <2>1
  <2>4. pipe'[p] = Append(pipe[p], n)
    BY <2>1
  <2> QED BY <2>1, <2>2, <2>3, <2>4
<1> QED BY <1>1, <1>2

\* What has been heard is true of the program.
LEMMA HeardStep ==
  ASSUME Prompt, TypeOK, Held, Informed, [Next]_vars, NEW q \in Procs
  PROVE  Heard(q)'
<1>0. Heard(q) /\ pipe[q] \in Seq(Notices)
  BY DEF Informed, TypeOK
<1>1. ASSUME UNCHANGED <<pipe, established>>, reader'[q].pc # "apply" PROVE Heard(q)'
  BY <1>0, <1>1 DEF Heard
<1>2. ASSUME NEW t \in Threads, Calm, Step(t) \/ Deadline(t) PROVE Heard(q)'
  <2>1. reader[q].pc # "apply"
    BY <1>2 DEF Calm
  <2>2. CASE Claim(t)
    <3>1. thr[t].proc \in Procs \/ UNCHANGED reader
      BY <2>2 DEF Claim, TypeOK, Call
    <3>2. reader'[q].pc # "apply" /\ UNCHANGED <<pipe, established>>
      BY <2>1, <2>2, <3>1, ClaimMoves DEF Claim
    <3> QED BY <1>1, <3>2
  <2>3. CASE \/ StopBump(t) \/ StopKill(t) \/ StopReset(t) \/ StartBegin(t) \/ PreparePsiphon(t)
             \/ PrepareTor(t) \/ Announce(t) \/ Spawn(t)
    BY <1>1, <2>1, <2>3 DEF StopBump, StopKill, StopReset, StartBegin, PreparePsiphon, PrepareTor,
       Announce, Spawn, program
  <2>4. CASE \/ WaitForTunnel(t) \/ Look(t) \/ IsAlive(t) \/ ReadControlPort(t) \/ ReadCookie(t)
             \/ AskProgress(t) \/ PublishCircuit(t) \/ Failed(t) \/ Deadline(t)
    BY <1>1, <2>1, <2>4, WaitMoves DEF program
  <2> QED BY <1>2, <2>2, <2>3, <2>4 DEF Step
<1>3. ASSUME NEW t, Calm, CallStop(t) \/ CallStart(t) PROVE Heard(q)'
  BY <1>1, <1>3 DEF Calm, CallStop, CallStart, program
<1>4. ASSUME NEW p \in Procs, Calm, Run(p) PROVE Heard(q)'
  <2>1. UNCHANGED reader /\ reader[q].pc # "apply" /\ established \subseteq established'
    BY <1>4 DEF Calm, Run, Bind, Establish, LoseTunnel, GiveUp, Exit
  <2>2. UNCHANGED pipe \/ \E n \in Notices : Says(p, n) /\ (n = "up" => p \in established')
    BY <1>4 DEF Run, Bind, Establish, LoseTunnel, GiveUp, Exit, Notices
  <2>3. ASSUME NEW n \in Notices, Says(p, n), n = "up" => p \in established' PROVE Heard(q)'
    BY <1>0, <2>1, <2>3, SaysMoves DEF Heard
  <2> QED BY <1>0, <2>1, <2>2, <2>3 DEF Heard
<1>5. ASSUME NEW p \in Procs, ReadNotice(p) PROVE Heard(q)'
  <2>0. UNCHANGED <<established, generation>>
    BY <1>5 DEF ReadNotice
  <2>1. CASE p = q
    <3>1. Len(pipe[q]) \in Nat /\ Len(Tail(pipe[q])) = Len(pipe[q]) - 1 /\ Len(pipe[q]) > 0
      BY <1>0, <1>5, <2>1, ReadMoves
    <3>2. \A i \in 1 .. Len(Tail(pipe[q])) : Tail(pipe[q])[i] = pipe[q][i + 1]
      BY <1>0, <1>5, <2>1, ReadMoves
    <3>3. Head(pipe[q]) = pipe[q][1]
      BY <1>0, <3>1
    <3>4. reader'[q].line = "up" => q \in established
      BY <1>0, <1>5, <2>1, <3>1, <3>3, ReadMoves DEF Heard
    <3>5. \A i \in 1 .. Len(pipe'[q]) : pipe'[q][i] = "up" => q \in established
      <4>1. ASSUME NEW i \in 1 .. Len(Tail(pipe[q])), Tail(pipe[q])[i] = "up"
            PROVE  q \in established
        <5>1. pipe[q][i + 1] = "up" /\ i + 1 \in 1 .. Len(pipe[q])
          BY <3>1, <3>2, <4>1
        <5> QED BY <1>0, <5>1 DEF Heard
      <4>2. pipe'[q] = Tail(pipe[q])
        BY <1>5, <2>1, ReadMoves
      <4> QED BY <4>1, <4>2
    <3>6. reader'[q].pc = "apply" => reader'[q].gen = generation
      BY <1>5, <2>1, ReadMoves
    <3> QED BY <2>0, <3>4, <3>5, <3>6 DEF Heard
  <2>2. CASE p # q
    BY <1>0, <1>5, <2>0, <2>2, ReadMoves DEF Heard
  <2> QED BY <2>1, <2>2
<1>6. ASSUME NEW p \in Procs, ApplyNotice(p) PROVE Heard(q)'
  <2>1. UNCHANGED <<pipe, established, generation>>
    BY <1>6 DEF ApplyNotice, program
  <2>2. reader'[q] = reader[q] \/ reader'[q].pc = "read"
    <3>1. reader'[q] = IF q = p THEN [reader[q] EXCEPT !.pc = "read"] ELSE reader[q]
      BY <1>6 DEF ApplyNotice, TypeOK
    <3> QED BY <3>1 DEF TypeOK, NoticeReader
  <2> QED BY <1>0, <2>1, <2>2 DEF Heard
<1>7. CASE UNCHANGED vars
  BY <1>0, <1>7 DEF vars, program, Heard
<1> QED BY <1>2, <1>3, <1>4, <1>5, <1>6, <1>7 DEF Next, Threads

\* A notice that is applied is of the starter's own process.
LEMMA FedApply ==
  ASSUME TypeOK, Informed, NEW t \in Starters, ~Superseded(t), NEW p \in Procs, ApplyNotice(p)
  PROVE  Fed(t)'
<1>1. UNCHANGED <<thr, generation, established, kind>> /\ Fed(t) /\ reader[p].pc = "apply"
  BY DEF ApplyNotice, program, Informed
<1>2. /\ reader[p].gen = generation /\ (reader[p].line = "up" => p \in established)
      /\ Mine(t, p)
  BY <1>1 DEF Informed, Heard, Fed
<1>3. \A q \in Procs : Mine(t, q)'
  <2>1. ASSUME NEW q \in Procs PROVE Mine(t, q)'
    <3>1. reader'[q] = IF q = p THEN [reader[q] EXCEPT !.pc = "read"] ELSE reader[q]
      BY DEF ApplyNotice, TypeOK
    <3>2. reader'[q].gen = reader[q].gen /\ (reader'[q].pc # "off" => reader[q].pc # "off")
      BY <1>1, <3>1 DEF TypeOK, NoticeReader
    <3>3. Mine(t, q)
      BY <1>1 DEF Fed
    <3> QED BY <1>1, <3>2, <3>3 DEF Mine
  <2> QED BY <2>1
<1>4. thr[t].pc \notin {"spawn", "claim"} /\ (thr[t].pc \in Waiting => p = thr[t].proc)
  BY <1>1, <1>2 DEF Mine, Starting
<1>5. snapshot'.state = "connected" => snapshot.state = "connected" \/ reader[p].line = "up"
  <2>1. snapshot' = Applied(reader[p].line, p) /\ reader[p].line \in Notices /\ snapshot \in Screen
    BY DEF ApplyNotice, TypeOK, NoticeReader
  <2> QED BY <2>1 DEF Applied, Notices, Screen
<1> QED BY <1>1, <1>2, <1>3, <1>4, <1>5 DEF Fed

\* Informed is inductive beside the others, for a reader that keeps up.
LEMMA InformedStep ==
  ASSUME Patient, Prompt, TypeOK, Alone, Held, Controlled, Informed, [Next]_vars
  PROVE  Informed'
<1>0. established \subseteq established'
  BY CarryingStep DEF Controlled
<1> SUFFICES ASSUME NEW u \in Starters, ~Superseded(u)' PROVE Fed(u)'
  BY HeardStep DEF Informed
<1>1. u \in Threads /\ (~Superseded(u) => Fed(u))
  BY DEF Informed, Threads
<1>2. ASSUME At(u, "idle"), thr'[u] = thr[u] PROVE Fed(u)'
  BY <1>2 DEF At, Fed, Mine, Waiting, Starting
<1>3. ASSUME NEW t \in Threads, Step(t) \/ Deadline(t) PROVE Fed(u)'
  <2>0. ~At(t, "idle") /\ Others(t)
    BY <1>3, Stepping
  <2>1. CASE t = u
    BY <1>3, <2>1, FedStart
  <2>2. CASE t # u /\ t \in Starters
    <3>1. At(u, "idle") /\ thr'[u] = thr[u]
      BY <1>1, <2>0, <2>2, OnlyStarter DEF Others
    <3> QED BY <1>2, <3>1
  <2>3. CASE t # u /\ t \in Stoppers
    <3>0. thr'[u] = thr[u]
      BY <1>1, <2>0, <2>3 DEF Others
    <3>1. thr[t].pc \in Stopping
      BY <2>3 DEF Alone
    <3>2. StopBump(t) \/ StopKill(t) \/ StopReset(t)
      BY <1>3, <3>1, StartMoves, WaitMoves DEF Step, Stopping, Waiting, At
    <3>3. ~StopBump(t)
      <4>1. thr[u].gen <= generation /\ thr[u].gen \in Nat /\ generation \in Nat
        BY <1>1 DEF Held, TypeOK, Call
      <4> QED BY <3>0, <4>1 DEF StopBump, Superseded
    <3>4. UNCHANGED <<kind, reader, generation>> /\ snapshot' \in {snapshot, Blank}
      BY <3>2, <3>3 DEF StopKill, StopReset, program
    <3>5. Fed(u)
      BY <1>1, <3>0, <3>4 DEF Superseded
    <3> QED BY <1>0, <1>1, <3>0, <3>4, <3>5, FedStays
  <2> QED BY <2>1, <2>2, <2>3 DEF Threads
<1>4. ASSUME NEW t \in Threads, CallStop(t) \/ CallStart(t) PROVE Fed(u)'
  <2>1. UNCHANGED <<kind, reader, generation, snapshot>> /\ Others(t) /\ thr'[t].pc = "bump"
    BY <1>4, MovingOwn DEF CallStop, CallStart, program, Moved
  <2>2. CASE t = u
    BY <2>1, <2>2 DEF Fed, Mine, Waiting, Starting
  <2>3. CASE t # u
    <3>1. thr'[u] = thr[u] /\ Fed(u)
      BY <1>1, <2>1, <2>3 DEF Others, Superseded
    <3> QED BY <1>0, <1>1, <2>1, <3>1, FedStays
  <2> QED BY <2>2, <2>3
<1>5. ASSUME NEW p \in Procs, Run(p) PROVE Fed(u)'
  <2>1. UNCHANGED <<thr, generation, kind, reader, snapshot>>
    BY <1>5, OthersLeave DEF Run, Bind, Establish, LoseTunnel, GiveUp, Exit
  <2> QED BY <1>0, <1>1, <2>1, FedStays DEF Superseded
<1>6. ASSUME NEW p \in Procs, ReadNotice(p) PROVE Fed(u)'
  <2>1. UNCHANGED <<thr, generation, kind, snapshot, established>>
    BY <1>6, OthersLeave DEF ReadNotice
  <2>2. Fed(u)
    BY <1>1, <2>1 DEF Superseded
  <2>3. \A q \in Procs : Mine(u, q)'
    BY <1>6, <2>1, <2>2, ReadMoves DEF Fed, Mine
  <2> QED BY <2>1, <2>2, <2>3 DEF Fed
<1>7. ASSUME NEW p \in Procs, ApplyNotice(p) PROVE Fed(u)'
  <2>1. UNCHANGED <<thr, generation>>
    BY <1>7, OthersLeave
  <2> QED BY <1>7, <2>1, FedApply DEF Superseded
<1>8. CASE UNCHANGED vars
  BY <1>0, <1>1, <1>8, FedStays DEF vars, program, Superseded
<1> QED BY <1>3, <1>4, <1>5, <1>6, <1>7, <1>8 DEF Next, Threads

\* A start that returns its way out has seen it work.
LEMMA ReadyStart ==
  ASSUME TypeOK, Alone, Held, Controlled, Informed, NEW t \in Starters,
         Step(t) \/ Deadline(t), ~Superseded(t)', At(t, "idle")', thr'[t].result = "ok"
  PROVE  thr'[t].proc \in established
<1>0. t \in Threads
  BY DEF Threads
<1>1. CASE Look(t)
  <2>1. \/ snapshot.state = "connected" /\ Return(t, "ok")
        \/ Fail(t) \/ Goto(t, "alive")
    BY <1>1 DEF Look
  <2>2. snapshot.state = "connected" /\ Moved(t, "idle") /\ UNCHANGED generation
    BY <1>0, <1>1, <2>1, Moving, LabelsAre DEF Moved, At, Look
  <2>3. Fed(t) /\ kind = "psiphon" /\ thr[t].pc = "look"
    BY <1>1, <2>2 DEF Moved, Superseded, Informed, Controlled, Asks, Look, At
  <2> QED BY <2>2, <2>3 DEF Moved, Fed, Waiting
<1>2. CASE PublishCircuit(t)
  <2>1. Moved(t, "idle") /\ thr[t].pc = "publish"
    BY <1>0, <1>2, Moving DEF PublishCircuit, At
  <2> QED BY <2>1 DEF Moved, Controlled, Asks
<1>3. CASE \/ WaitForTunnel(t) \/ IsAlive(t) \/ ReadControlPort(t) \/ ReadCookie(t)
           \/ AskProgress(t) \/ Deadline(t)
  <2>1. CASE WaitForTunnel(t) \/ IsAlive(t)
    BY <1>0, <2>1, Moving, LabelsAre DEF WaitForTunnel, IsAlive, Moved, At
  <2>2. CASE ReadControlPort(t)
    BY <1>0, <2>2, Moving, MovingOwn DEF ReadControlPort, Moved, At
  <2>3. CASE ReadCookie(t) \/ AskProgress(t)
    BY <1>0, <2>3, Moving, LabelsAre DEF ReadCookie, AskProgress, Moved, At
  <2>4. CASE Deadline(t)
    BY <1>0, <2>4, MovingOwn DEF Deadline, Moved, At
  <2> QED BY <1>3, <2>1, <2>2, <2>3, <2>4
<1>4. CASE Failed(t) \/ PreparePsiphon(t) \/ PrepareTor(t) \/ Announce(t) \/ Claim(t)
  BY <1>0, <1>4, Moving, LabelsAre DEF Failed, PreparePsiphon, PrepareTor, Configured, Announce,
     Claim, Moved, At
<1>5. CASE StartBegin(t)
  BY <1>0, <1>5, MovingOwn DEF At
<1>6. CASE Spawn(t)
  <2>1. Return(t, "error") \/ thr'[t].pc = "claim"
    BY <1>0, <1>6, MovingOwn DEF Spawn
  <2> QED BY <1>0, <2>1, Moving DEF At
<1>7. CASE StopBump(t) \/ StopKill(t) \/ StopReset(t)
  <2>1. thr[t].back # "idle"
    BY <1>7 DEF Alone, StopBump, StopKill, StopReset, At, Stopping
  <2> QED BY <1>0, <1>7, <2>1, StopMoves DEF Moved, At
<1> QED BY <1>1, <1>2, <1>3, <1>4, <1>5, <1>6, <1>7 DEF Step

\* What has been handed out stays good, or is taken back.
LEMMA ReadyStep ==
  ASSUME Patient, TypeOK, Alone, Held, Controlled, Informed, ReadyMeansTunnel, [Next]_vars
  PROVE  ReadyMeansTunnel'
<1>0. established \subseteq established'
  BY CarryingStep DEF Controlled
<1> SUFFICES ASSUME NEW u \in Starters, At(u, "idle")', thr'[u].result = "ok", ~Superseded(u)'
             PROVE  thr'[u].proc \in established'
  BY DEF ReadyMeansTunnel
<1>1. u \in Threads /\ thr[u].gen <= generation /\ generation \in Nat /\ thr[u].gen \in Nat
  BY DEF Threads, Held, TypeOK, Call
<1>2. ASSUME thr'[u] = thr[u], generation' \in {generation, generation + 1}
      PROVE  thr'[u].proc \in established'
  BY <1>0, <1>1, <1>2 DEF ReadyMeansTunnel, Superseded, At
<1>3. ASSUME NEW t \in Threads, Step(t) \/ Deadline(t) PROVE thr'[u].proc \in established'
  <2>1. CASE t = u
    BY <1>0, <1>3, <2>1, ReadyStart
  <2>2. CASE t # u
    <3>1. thr'[u] = thr[u]
      BY <1>1, <1>3, <2>2, Stepping DEF Others
    <3>2. generation' \in {generation, generation + 1}
      BY <1>3, WaitMoves DEF Step, StopBump, StopKill, StopReset, StartBegin, PreparePsiphon,
         PrepareTor, Announce, Spawn, Claim
    <3> QED BY <1>2, <3>1, <3>2
  <2> QED BY <2>1, <2>2
<1>4. ASSUME NEW t \in Threads, CallStop(t) \/ CallStart(t) PROVE thr'[u].proc \in established'
  <2>1. UNCHANGED generation /\ Others(t) /\ thr'[t].pc = "bump"
    BY <1>4, MovingOwn DEF CallStop, CallStart, Moved
  <2> QED BY <1>1, <1>2, <2>1 DEF Others, At
<1>5. ASSUME NEW p \in Procs, Run(p) \/ ReadNotice(p) \/ ApplyNotice(p)
      PROVE  thr'[u].proc \in established'
  BY <1>2, <1>5, OthersLeave
<1>6. CASE UNCHANGED vars
  BY <1>2, <1>6 DEF vars
<1> QED BY <1>3, <1>4, <1>5, <1>6 DEF Next, Threads

\* For callers who make one start at a time and a reader that keeps up with the program:
\* what a start hands out has had a tunnel or a circuit, or has been taken back.  It is
\* the start's own process whose notices and whose control port it went by.
THEOREM ReadyHasTunnel == Patient /\ Prompt => (Spec => []ReadyMeansTunnel)
<1> SUFFICES ASSUME Patient, Prompt PROVE Spec => []ReadyMeansTunnel
  OBVIOUS
<1>1. Init => Alone /\ Held
  BY NoProcIsNone DEF Init, Alone, Held, At, Idle, Off, Running, Threads, Stopping, Starting
<1>2. Init => Controlled /\ Informed /\ ReadyMeansTunnel
  BY DEF Init, Controlled, Asks, Informed, Heard, Fed, Mine, ReadyMeansTunnel, At, Idle, Off,
     Threads, Waiting, Starting
<1>3. /\ TypeOK /\ Alone /\ Held /\ Controlled /\ Informed /\ ReadyMeansTunnel /\ [Next]_vars
      => (TypeOK /\ Alone /\ Held /\ Controlled /\ Informed /\ ReadyMeansTunnel)'
  BY TypeStep, AloneStep, HeldStep, ControlledStep, InformedStep, ReadyStep
<1> QED BY TypeInit, <1>1, <1>2, <1>3, PTL DEF Spec

=============================================================================

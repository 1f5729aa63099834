---------------------------- MODULE CarrierProcess ----------------------------
(***************************************************************************)
(* A carrier that is a program of its own: psiphon.rs and tor.rs.          *)
(*                                                                         *)
(* Both keep a child in a slot, a snapshot and a generation, each behind a *)
(* lock of its own.  A start first stops, then takes a generation, spawns, *)
(* claims the slot and waits until the process carries traffic; a stop     *)
(* bumps the generation, kills what is in the slot and resets the snapshot.*)
(* They differ in how the wait learns that there is a way out: Psiphon     *)
(* prints notices that a reader applies to the snapshot, tor is asked over *)
(* a control port whose address and cookie it leaves in two files.         *)
(***************************************************************************)
EXTENDS Integers, Sequences

CONSTANTS
  Kinds,      \* the carriers considered
  Starters,   \* threads that call start
  Stoppers,   \* threads that call stop
  Procs,      \* identities of the processes a run may spawn
  MaxCalls,   \* bound: calls of start and stop in a run
  MaxPipe,    \* bound: notices printed and not yet read
  Patient,    \* one start at a time
  Prompt      \* a reader applies the notice it has read before anything else

ASSUME KindsAreKnown == Kinds \subseteq {"psiphon", "tor"}
ASSUME ThreadsAreApart == Starters \intersect Stoppers = {}
ASSUME ProcsAreNumbers == Procs \subseteq Nat \ {0}

VARIABLES
  kind,         \* which carrier this is
  generation,   \* Inner::generation
  child,        \* Inner::child, by identity
  snapshot,     \* Inner::snapshot
  proc,         \* what each process has come to
  established,  \* processes that have had a tunnel or a circuit (history)
  pipe,         \* notices each process has printed
  reader,       \* the notice reader of each process
  files,        \* tor's control-port and cookie files: whose they are
  thr,          \* the threads in start and stop
  calls         \* calls so far

program == <<proc, established, pipe, files>>
vars == <<kind, generation, child, snapshot, program, reader, thr, calls>>

Threads == Starters \union Stoppers
NoProc == 0
Screen == [state : {"idle", "connecting", "connected", "error"},
           port : Procs \union {NoProc}, failed : BOOLEAN]
Blank == [state |-> "idle", port |-> NoProc, failed |-> FALSE]
NoFiles == [control |-> NoProc, cookie |-> NoProc]
Notices == {"port", "up", "down", "gave up"}

Idle == [pc |-> "idle", gen |-> 0, proc |-> NoProc, back |-> "idle",
         control |-> NoProc, late |-> FALSE, result |-> "none"]
Off == [pc |-> "off", gen |-> 0, line |-> "port"]

At(t, label) == thr[t].pc = label
Goto(t, label) == thr' = [thr EXCEPT ![t].pc = label]
Return(t, result) == thr' = [thr EXCEPT ![t].pc = "idle", ![t].result = result]
\* Err from a wait: stop, then say why.
Fail(t) == thr' = [thr EXCEPT ![t].pc = "bump", ![t].back = "failed"]
Running(p) == proc[p] \in {"up", "bound", "carrying"}
Ended(p) == [proc EXCEPT ![p] = "ended"]
Superseded(t) == thr[t].gen # generation

Init ==
  /\ kind \in Kinds
  /\ generation = 0 /\ child = NoProc /\ snapshot = Blank
  /\ proc = [p \in Procs |-> "none"] /\ established = {}
  /\ pipe = [p \in Procs |-> <<>>] /\ reader = [p \in Procs |-> Off]
  /\ files = NoFiles /\ thr = [t \in Threads |-> Idle] /\ calls = 0

(***************************************************************************)
(* stop, which start calls first and again when it fails.                  *)
(***************************************************************************)
CallStop(t) ==
  /\ calls < MaxCalls /\ calls' = calls + 1
  /\ At(t, "idle")
  /\ thr' = [thr EXCEPT ![t].pc = "bump", ![t].back = "idle"]
  /\ UNCHANGED <<kind, generation, child, snapshot, program, reader>>

\* fetch_add on the generation.
StopBump(t) ==
  /\ At(t, "bump") /\ Goto(t, "kill")
  /\ generation' = generation + 1
  /\ UNCHANGED <<kind, child, snapshot, program, reader, calls>>

\* The child is taken, killed and waited for under the lock on the slot.
StopKill(t) ==
  /\ At(t, "kill") /\ Goto(t, "reset")
  /\ child' = NoProc
  /\ proc' = IF child = NoProc THEN proc ELSE Ended(child)
  /\ UNCHANGED <<kind, generation, snapshot, established, pipe, files, reader, calls>>

\* The snapshot becomes the default one.
StopReset(t) ==
  /\ At(t, "reset")
  /\ snapshot' = Blank
  /\ Goto(t, thr[t].back)
  /\ UNCHANGED <<kind, generation, child, program, reader, calls>>

(***************************************************************************)
(* start_with_budget, up to the wait.                                      *)
(***************************************************************************)
CallStart(t) ==
  /\ calls < MaxCalls /\ calls' = calls + 1
  /\ At(t, "idle")
  /\ Patient => \A u \in Starters : At(u, "idle")
  /\ thr' = [thr EXCEPT ![t] = [Idle EXCEPT !.pc = "bump", !.back = "begin"]]
  /\ UNCHANGED <<kind, generation, child, snapshot, program, reader>>

StartBegin(t) ==
  /\ At(t, "begin")
  /\ generation' = generation + 1
  /\ thr' = [thr EXCEPT ![t].pc = "prepare", ![t].gen = generation + 1]
  /\ UNCHANGED <<kind, child, snapshot, program, reader, calls>>

\* The configuration is rendered and written, or the start is refused: transports or
\* bridges that are not installed, a directory that cannot be written to.
Configured(t) == Goto(t, "announce") \/ Return(t, "error")

\* Psiphon: the binary, the server list, the directory and the configuration;
\* any of them may be missing or refused, and the error leaves nothing to stop.
PreparePsiphon(t) ==
  /\ kind = "psiphon" /\ At(t, "prepare")
  /\ Configured(t)
  /\ UNCHANGED <<kind, generation, child, snapshot, program, reader, calls>>

\* tor: besides, the files of an earlier run are removed.
PrepareTor(t) ==
  /\ kind = "tor" /\ At(t, "prepare")
  /\ \/ files' = NoFiles /\ Configured(t)
     \/ UNCHANGED files /\ Return(t, "error")
  /\ UNCHANGED <<kind, generation, child, snapshot, proc, established, pipe,
                 reader, calls>>

Announce(t) ==
  /\ At(t, "announce") /\ Goto(t, "spawn")
  /\ snapshot' = [Blank EXCEPT !.state = "connecting"]
  /\ UNCHANGED <<kind, generation, child, program, reader, calls>>

Spawn(t) ==
  /\ At(t, "spawn")
  /\ \/ \E p \in Procs :
          /\ proc[p] = "none"
          /\ proc' = [proc EXCEPT ![p] = "up"]
          /\ thr' = [thr EXCEPT ![t].pc = "claim", ![t].proc = p]
     \/ UNCHANGED proc /\ Return(t, "error")
  /\ UNCHANGED <<kind, generation, child, snapshot, established, pipe, files,
                 reader, calls>>

\* Mutant: the slot is filled without a second look at the generation.
ClaimBlindly(t) ==
  LET p == thr[t].proc IN
  /\ At(t, "claim")
  /\ child' = p
  /\ reader' = [reader EXCEPT ![p] = [Off EXCEPT !.pc = "read", !.gen = thr[t].gen]]
  /\ Goto(t, IF kind = "tor" THEN "control" ELSE "wait")
  /\ UNCHANGED <<kind, generation, snapshot, program, calls>>

\* Under the lock on the slot: a start that has been superseded kills what it
\* spawned; one that has not puts it in the slot and reads its output.
Claim(t) ==
  LET p == thr[t].proc IN
  /\ At(t, "claim")
  /\ IF Superseded(t)
     THEN /\ proc' = Ended(p)
          /\ Return(t, "error")
          /\ UNCHANGED <<child, reader>>
     ELSE /\ child' = p
          /\ reader' = [reader EXCEPT ![p] = [Off EXCEPT !.pc = "read", !.gen = thr[t].gen]]
          /\ Goto(t, IF kind = "tor" THEN "control" ELSE "wait")
          /\ UNCHANGED proc
  /\ UNCHANGED <<kind, generation, snapshot, established, pipe, files, calls>>

\* The deadline of a wait passes.
Deadline(t) ==
  /\ thr[t].pc \in {"wait", "look", "alive", "control", "cookie", "ask", "publish"}
  /\ ~thr[t].late
  /\ thr' = [thr EXCEPT ![t].late = TRUE]
  /\ UNCHANGED <<kind, generation, child, snapshot, program, reader, calls>>

(***************************************************************************)
(* Psiphon: wait_for_tunnel and the notice reader.                         *)
(***************************************************************************)
\* Mutant: the loop has no deadline.
WaitForTunnelForever(t) ==
  /\ At(t, "wait")
  /\ IF Superseded(t) THEN Fail(t) ELSE Goto(t, IF kind = "tor" THEN "alive" ELSE "look")
  /\ UNCHANGED <<kind, generation, child, snapshot, program, reader, calls>>

\* The head of either loop: the deadline, then the generation.
WaitForTunnel(t) ==
  /\ At(t, "wait")
  /\ IF thr[t].late \/ Superseded(t)
     THEN Fail(t)
     ELSE Goto(t, IF kind = "tor" THEN "alive" ELSE "look")
  /\ UNCHANGED <<kind, generation, child, snapshot, program, reader, calls>>

\* Mutant: a listener is taken for a tunnel.
LookForListener(t) ==
  /\ At(t, "look")
  /\ \/ snapshot.port # NoProc /\ Return(t, "ok")
     \/ snapshot.port = NoProc /\ Goto(t, "alive")
  /\ UNCHANGED <<kind, generation, child, snapshot, program, reader, calls>>

\* Connected and a port; or an error.
Look(t) ==
  LET ready == snapshot.state = "connected" /\ snapshot.port # NoProc IN
  /\ At(t, "look")
  /\ \/ ready /\ Return(t, "ok")
     \/ ~ready /\ snapshot.failed /\ Fail(t)
     \/ ~ready /\ ~snapshot.failed /\ Goto(t, "alive")
  /\ UNCHANGED <<kind, generation, child, snapshot, program, reader, calls>>

\* The process in the slot, whosever it is, must still run.
IsAlive(t) ==
  /\ At(t, "alive")
  /\ IF child = NoProc \/ proc[child] = "ended"
     THEN Fail(t)
     ELSE Goto(t, IF kind = "tor" THEN "ask" ELSE "wait")
  /\ UNCHANGED <<kind, generation, child, snapshot, program, reader, calls>>

\* A notice is read, and dropped with the reader if its run is over.
ReadNotice(p) ==
  /\ reader[p].pc = "read" /\ pipe[p] # <<>>
  /\ pipe' = [pipe EXCEPT ![p] = Tail(@)]
  /\ reader' = [reader EXCEPT ![p].pc = IF @ # "read" \/ reader[p].gen # generation
                                        THEN "off" ELSE "apply",
                              ![p].line = Head(pipe[p])]
  /\ UNCHANGED <<kind, generation, child, snapshot, proc, established, files, thr, calls>>

\* apply_notice_to_snapshot: what each notice makes of the snapshot.
Applied(notice, p) ==
  CASE notice = "port" -> [snapshot EXCEPT !.port = p]
    [] notice = "up" -> IF snapshot.state = "connected" THEN snapshot
                        ELSE [snapshot EXCEPT !.state = "connected", !.failed = FALSE]
    [] notice = "down" -> IF snapshot.state # "connected" THEN snapshot
                          ELSE [snapshot EXCEPT !.state = "connecting"]
    [] notice = "gave up" -> [snapshot EXCEPT !.state = "error", !.failed = TRUE]

ApplyNotice(p) ==
  /\ reader[p].pc = "apply"
  /\ snapshot' = Applied(reader[p].line, p)
  /\ reader' = [reader EXCEPT ![p].pc = "read"]
  /\ UNCHANGED <<kind, generation, child, program, thr, calls>>

(***************************************************************************)
(* tor: wait_for_circuit.                                                  *)
(***************************************************************************)
ReadControlPort(t) ==
  /\ At(t, "control")
  /\ \/ /\ files.control # NoProc
        /\ thr' = [thr EXCEPT ![t].pc = "cookie", ![t].control = files.control]
     \/ thr[t].late /\ Fail(t)
  /\ UNCHANGED <<kind, generation, child, snapshot, program, reader, calls>>

\* ControlSession: a command is answered by the process at the other end while it runs;
\* a connection that fails or closes is an error.
ControlAnswers(t) == Running(thr[t].control)

\* The cookie, then ControlSession::open: it connects and authenticates.
ReadCookie(t) ==
  /\ At(t, "cookie")
  /\ \/ /\ files.cookie # NoProc
        /\ \/ ControlAnswers(t) /\ files.cookie = thr[t].control /\ Goto(t, "wait")
           \/ Fail(t)
     \/ thr[t].late /\ Fail(t)
  /\ UNCHANGED <<kind, generation, child, snapshot, program, reader, calls>>

\* status/bootstrap-phase, asked of the process at the other end.
AskProgress(t) ==
  LET built == proc[thr[t].control] = "carrying" IN
  /\ At(t, "ask")
  /\ \/ built /\ Goto(t, "publish")
     \/ ControlAnswers(t) /\ ~built /\ Goto(t, "wait")
     \/ ~ControlAnswers(t) /\ Fail(t)
  /\ UNCHANGED <<kind, generation, child, snapshot, program, reader, calls>>

\* The port is known: connected.
PublishCircuit(t) ==
  /\ At(t, "publish")
  /\ snapshot' = [snapshot EXCEPT !.state = "connected", !.port = thr[t].control]
  /\ Return(t, "ok")
  /\ UNCHANGED <<kind, generation, child, program, reader, calls>>

\* Err of start: the stop is over, the reason is shown.
Failed(t) ==
  /\ At(t, "failed")
  /\ snapshot' = [snapshot EXCEPT !.state = "error", !.failed = TRUE]
  /\ Return(t, "error")
  /\ UNCHANGED <<kind, generation, child, program, reader, calls>>

(***************************************************************************)
(* The program the carrier is.                                             *)
(***************************************************************************)
Says(p, notice) ==
  IF kind = "tor" THEN UNCHANGED pipe
  ELSE Len(pipe[p]) < MaxPipe /\ pipe' = [pipe EXCEPT ![p] = Append(@, notice)]

\* The listener is bound; tor leaves its control port and cookie in the files.
Bind(p) ==
  /\ proc[p] = "up" /\ proc' = [proc EXCEPT ![p] = "bound"]
  /\ Says(p, "port")
  /\ files' = IF kind = "tor" THEN [control |-> p, cookie |-> p] ELSE files
  /\ UNCHANGED <<kind, generation, child, snapshot, established, reader, thr, calls>>

Establish(p) ==
  /\ proc[p] = "bound" /\ proc' = [proc EXCEPT ![p] = "carrying"]
  /\ established' = established \union {p}
  /\ Says(p, "up")
  /\ UNCHANGED <<kind, generation, child, snapshot, files, reader, thr, calls>>

LoseTunnel(p) ==
  /\ proc[p] = "carrying" /\ proc' = [proc EXCEPT ![p] = "bound"]
  /\ Says(p, "down")
  /\ UNCHANGED <<kind, generation, child, snapshot, established, files, reader, thr, calls>>

GiveUp(p) ==
  /\ kind = "psiphon" /\ proc[p] = "bound" /\ p \notin established
  /\ proc' = Ended(p)
  /\ Says(p, "gave up")
  /\ UNCHANGED <<kind, generation, child, snapshot, established, files, reader, thr, calls>>

Exit(p) ==
  /\ Running(p) /\ proc' = Ended(p)
  /\ UNCHANGED <<kind, generation, child, snapshot, established, pipe, files,
                 reader, thr, calls>>

(***************************************************************************)
(* Specification.                                                          *)
(***************************************************************************)
Step(t) ==
  \/ StopBump(t) \/ StopKill(t) \/ StopReset(t)
  \/ StartBegin(t) \/ PreparePsiphon(t) \/ PrepareTor(t) \/ Announce(t) \/ Spawn(t)
  \/ Claim(t) \/ WaitForTunnel(t) \/ Look(t) \/ IsAlive(t)
  \/ ReadControlPort(t) \/ ReadCookie(t) \/ AskProgress(t) \/ PublishCircuit(t)
  \/ Failed(t)

Run(p) == Bind(p) \/ Establish(p) \/ LoseTunnel(p) \/ GiveUp(p) \/ Exit(p)

Calm == Prompt => \A p \in Procs : reader[p].pc # "apply"

Next ==
  \/ \E t \in Stoppers : Calm /\ CallStop(t)
  \/ \E t \in Starters : Calm /\ CallStart(t)
  \/ \E t \in Threads : Calm /\ (Step(t) \/ Deadline(t))
  \/ \E p \in Procs : (Calm /\ (Run(p) \/ ReadNotice(p))) \/ ApplyNotice(p)

\* The threads are the system's and a deadline passes; the user, the network and
\* the program owe nothing.  Strong, because Calm comes and goes while a program
\* keeps printing; the threads themselves never wait for a reader.
Fairness ==
  /\ \A t \in Threads : SF_vars(Calm /\ Step(t)) /\ SF_vars(Calm /\ Deadline(t))
  /\ \A p \in Procs : WF_vars(Calm /\ ReadNotice(p)) /\ WF_vars(ApplyNotice(p))

Spec == Init /\ [][Next]_vars
FairSpec == Spec /\ Fairness

(***************************************************************************)
(* Properties.                                                             *)
(***************************************************************************)
\* A process that runs is wanted or about to end: it is in the slot for the run there is,
\* or in the slot with a stop about to kill it, or in the hands of the start that spawned
\* it and is about to claim the slot or kill it.
NoStrayProcess ==
  \A p \in Procs : Running(p) =>
    \/ child = p /\ (reader[p].gen = generation \/ \E t \in Threads : At(t, "kill"))
    \/ \E t \in Starters : At(t, "claim") /\ thr[t].proc = p

\* What a start hands out has had a tunnel, not just a listener, unless a stop
\* or another start has already taken it back.
ReadyMeansTunnel ==
  \A t \in Starters :
    At(t, "idle") /\ thr[t].result = "ok" /\ ~Superseded(t) => thr[t].proc \in established

\* Every start returns: with a way out, or with a reason.
StartReturns == \A t \in Starters : ~At(t, "idle") ~> At(t, "idle")
=============================================================================

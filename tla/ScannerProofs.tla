--------------------------- MODULE ScannerProofs ----------------------------
(***************************************************************************)
(* Proofs about Scanner, for any number of jobs, gateways, recipes and     *)
(* networks, whoever connects and whatever the processes answer.  Single   *)
(* says that a search has one job, and that the slot is that job's while   *)
(* it waits; a process is then never started next to a held one.  Honesty  *)
(* and Numbered say what a job lists and what is remembered by the traffic *)
(* that crossed in its search.                                             *)
(***************************************************************************)
EXTENDS Scanner, FiniteSetTheorems, TLAPS

Busy(t) == ~At(t, "idle")
HasPc(r) == r = [f \in DOMAIN r |-> r[f]] /\ "pc" \in DOMAIN r

\* Every job stands somewhere.
Places == job = [t \in Jobs |-> job[t]] /\ \A t \in Jobs : HasPc(job[t])

\* One job at a time, of the search there is; what is held is what it waits for.
Single ==
  /\ \A t, u \in Jobs : Busy(t) /\ Busy(u) => t = u
  /\ "on" \in DOMAIN search /\ ((\E t \in Jobs : Busy(t)) => search.on)
  /\ slot # NoJob => slot \in Jobs /\ At(slot, "wait")
  /\ proc = [t \in Jobs |-> proc[t]]
  /\ NothingIsLeft

\* A job goes to pc and the others stay.
Goes(t, pc) ==
  /\ Places' /\ job'[t].pc = pc /\ \A u \in Jobs \ {t} : job'[u] = job[u]

\* A field of a job is set: the job stands where it stood, or where it is put.
LEMMA FieldSet ==
  ASSUME NEW r, HasPc(r), NEW f, NEW x
  PROVE  /\ HasPc([r EXCEPT ![f] = x])
         /\ f = "pc" => [r EXCEPT ![f] = x].pc = x
         /\ f # "pc" => [r EXCEPT ![f] = x].pc = r.pc
BY DEF HasPc

\* A change of place is one.
LEMMA GotoGoes ==
  ASSUME Places, NEW t \in Jobs, NEW pc, Goto(t, pc)
  PROVE  Goes(t, pc)
BY DEF Goto, Goes, Places, HasPc

\* A job written anew goes where the new record says.
LEMMA Replaces ==
  ASSUME Places, NEW t \in Jobs, NEW r, HasPc(r), job' = [job EXCEPT ![t] = r]
  PROVE  Goes(t, r.pc)
BY DEF Goes, Places

\* Whatever is answered, the job goes on to the end, to the next pass or to a gateway.
LEMMA ReceiveGoes ==
  ASSUME Places, NEW t \in Jobs, NEW answer, Receive(t, answer)
  PROVE  \E pc \in {"finish", "pass", "check"} : Goes(t, pc)
<1>0. HasPc(job[t])
  BY DEF Places
<1>1. HasPc(Asked(t)) 
  BY <1>0 DEF HasPc, Asked
<1>2. HasPc(Over(t)) /\ Over(t).pc = "finish"
  BY DEF HasPc, Over
<1>3. PICK next \in Answered(t, answer) : job' = [job EXCEPT ![t] = next]
  BY DEF Receive
<1>4. HasPc(next) /\ next.pc \in {"finish", "pass", "check"}
  <2>1. ASSUME NEW pc \in {"finish", "pass"}, next \in Went(t, pc)
        PROVE  HasPc(next) /\ next.pc \in {"finish", "pass"}
    BY <1>1, <1>2, <2>1 DEF Went, HasPc
  <2>2. ASSUME NEW hits, next = [Asked(t) EXCEPT !.pc = "check", !.hits = hits]
        PROVE  HasPc(next) /\ next.pc = "check"
    BY <1>1, <2>2 DEF HasPc
  <2>3. ASSUME NEW a, NEW b, next = [Asked(t) EXCEPT !.pc = "check", !.checks = a, !.good = b]
        PROVE  HasPc(next) /\ next.pc = "check"
    BY <1>1, <2>3 DEF HasPc
  <2>4. \/ \E pc \in {"finish", "pass"} : next \in Went(t, pc)
        \/ \E hits : next = [Asked(t) EXCEPT !.pc = "check", !.hits = hits]
        \/ \E a, b : next = [Asked(t) EXCEPT !.pc = "check", !.checks = a, !.good = b]
    <3>1. CASE answer = "held" \/ job[t].wants = "test"
      BY <1>3, <3>1 DEF Answered
    <3>2. CASE job[t].wants = "provision" /\ answer # "held"
      BY <1>3, <3>2 DEF Answered
    <3> QED BY <1>3, <3>1, <3>2 DEF Answered
  <2> QED BY <2>1, <2>2, <2>3, <2>4
<1> QED BY <1>3, <1>4, Replaces

\* The search of a job that neither waits nor holds has no process, and nothing is held.
LEMMA NothingHeld ==
  ASSUME Places, Single, NEW t \in Jobs, Busy(t), ~At(t, "wait"), ~At(t, "hold")
  PROVE  slot = NoJob /\ \A u \in Jobs : ~Running(u)
<1>1. slot = NoJob
  <2> SUFFICES ASSUME slot # NoJob PROVE FALSE OBVIOUS
  <2>1. slot \in Jobs /\ At(slot, "wait")
    BY DEF Single
  <2>2. Busy(slot)
    BY <2>1 DEF Busy, At
  <2> QED BY <2>1, <2>2 DEF Single
<1>2. ASSUME NEW u \in Jobs, Running(u) PROVE FALSE
  <2>1. At(u, "hold") \/ u = NoJob
    BY <1>1, <1>2 DEF Single, NothingIsLeft
  <2>2. At(u, "hold")
    BY <2>1, JobsAreJobs
  <2>3. Busy(u)
    BY <2>2 DEF Busy, At
  <2> QED BY <2>2, <2>3 DEF Single
<1> QED BY <1>1, <1>2

\* A job of a search that holds nothing goes on, and still holds nothing.
LEMMA GoesQuietly ==
  ASSUME Places, Single, NEW t \in Jobs, Busy(t), ~At(t, "wait"), ~At(t, "hold"),
         NEW pc, pc # "idle", Goes(t, pc), UNCHANGED <<search, slot, proc>>
  PROVE  Places' /\ Single'
<1>1. slot = NoJob /\ \A u \in Jobs : ~Running(u)
  BY NothingHeld
<1>2. \A u \in Jobs : Busy(u)' <=> Busy(u)
  BY DEF Goes, Busy, At
<1> QED BY <1>1, <1>2 DEF Goes, Single, NothingIsLeft, Running

\* A job that waits or holds, and whose process nobody has any more, goes on.
LEMMA GoesEmpty ==
  ASSUME Places, Single, NEW t \in Jobs, Busy(t), NEW pc, pc # "idle", Goes(t, pc),
         search' = search, slot' = NoJob, proc' = [u \in Jobs |-> proc'[u]],
         \A u \in Jobs : ~Running(u)'
  PROVE  Places' /\ Single'
<1>1. \A u \in Jobs : Busy(u)' <=> Busy(u)
  BY DEF Goes, Busy, At
<1> QED BY <1>1 DEF Goes, Single, NothingIsLeft

\* What is killed runs no longer: nothing does, if the job in hand is not about to hold.
LEMMA KillEnds ==
  ASSUME Single, NEW t \in Jobs, Busy(t), ~At(t, "hold"), Kill
  PROVE  /\ slot' = NoJob /\ proc' = [u \in Jobs |-> proc'[u]]
         /\ \A u \in Jobs : ~Running(u)'
<1>1. ASSUME NEW u \in Jobs PROVE ~Running(u)'
  <2>1. proc'[u] = IF u = slot THEN NoProc ELSE proc[u]
    BY DEF Kill
  <2>2. CASE u = slot
    BY <2>1, <2>2 DEF NoProc, Running
  <2>3. CASE u # slot
    <3>1. Running(u) => At(u, "hold")
      BY <2>3 DEF Single, NothingIsLeft
    <3>2. Running(u) => Busy(u)
      BY <3>1 DEF Busy, At
    <3> QED BY <2>1, <2>3, <3>1, <3>2 DEF Single, Running
  <2> QED BY <2>2, <2>3
<1> QED BY <1>1 DEF Kill


\* The steps of a job between two questions go somewhere, and touch no process.
LEMMA WorkGoes ==
  ASSUME Places, NEW t \in Jobs,
         ShowSearch(t) \/ Prepare(t) \/ Test(t) \/ Pass(t) \/ Check(t) \/ Record(t) \/ Rank(t)
  PROVE  /\ Busy(t) /\ ~At(t, "wait") /\ ~At(t, "hold")
         /\ \E pc : pc # "idle" /\ Goes(t, pc)
         /\ UNCHANGED <<search, slot, proc>>
<1>0. HasPc(job[t])
  BY DEF Places
<1>1. CASE ShowSearch(t)
  BY <1>1, GotoGoes DEF ShowSearch, Busy, At
<1>2. CASE Prepare(t)
  <2> DEFINE r == [pc |-> "report", cmd |-> "scan", net |-> job[t].net, wants |-> "provision",
                   at |-> network, found |-> {}, offer |-> << >>, hits |-> << >>, checks |-> 0, good |-> 0,
                   recipe |-> "", passes |-> Passes(job[t].net)]
  <2>1. HasPc(r) /\ r.pc = "report"
    BY DEF HasPc
  <2>2. job' = [job EXCEPT ![t] = r]
    BY <1>2, <1>0 DEF Prepare, Places
  <2> HIDE DEF r
  <2>3. Goes(t, r.pc)
    BY <2>1, <2>2, Replaces
  <2> QED BY <1>2, <2>1, <2>3 DEF Prepare, Busy, At
<1>3. CASE Test(t)
  <2> DEFINE r == [pc |-> "report", cmd |-> "test", net |-> job[t].net, wants |-> "test", at |-> network]
  <2>1. HasPc(r) /\ r.pc = "report"
    BY DEF HasPc
  <2>2. job' = [job EXCEPT ![t] = r]
    BY <1>3, <1>0 DEF Test, Places
  <2> HIDE DEF r
  <2>3. Goes(t, r.pc)
    BY <2>1, <2>2, Replaces
  <2> QED BY <1>3, <2>1, <2>3 DEF Test, Busy, At
<1>over. HasPc(Over(t)) /\ Over(t).pc = "finish"
  BY DEF HasPc, Over
<1>4. CASE Pass(t)
  <2>1. CASE job' = [job EXCEPT ![t] = Over(t)]
    <3>1. Goes(t, "finish")
      BY <2>1, <1>over, Replaces
    <3> QED BY <1>4, <3>1 DEF Pass, Busy, At
  <2>2. CASE Goto(t, "rank")
    BY <1>4, <2>2, GotoGoes DEF Pass, Busy, At
  <2>4. job' = [job EXCEPT ![t] = Over(t)] \/ Goto(t, "rank")
          \/ \E pc \in {"report", "check"} : Goes(t, pc)
    <3> DEFINE taken == [job[t] EXCEPT !.passes = Tail(@), !.recipe = Head(job[t].passes).recipe]
               scans == [taken EXCEPT !.pc = "report", !.wants = "scan", !.at = network]
               hint == Head(job[t].passes).hint
               looks == [taken EXCEPT !.pc = "check", !.hits = <<hint>>]
    <3>1. \/ job' = [job EXCEPT ![t] = Over(t)] \/ Goto(t, "rank")
          \/ job' = [job EXCEPT ![t] = scans] \/ job' = [job EXCEPT ![t] = looks]
      BY <1>4 DEF Pass
    <3>2. HasPc(taken)
      BY <1>0 DEF HasPc
    <3> HIDE DEF taken
    <3>3. HasPc(scans) /\ scans.pc = "report" /\ HasPc(looks) /\ looks.pc = "check"
      BY <3>2 DEF HasPc
    <3> HIDE DEF scans, looks
    <3> QED BY <3>1, <3>3, Replaces
  <2> QED BY <1>4, <2>1, <2>2, <2>4 DEF Pass, Busy, At
<1>5. CASE Check(t)
  <2>1. CASE job' = [job EXCEPT ![t] = Over(t)]
    <3>1. Goes(t, "finish")
      BY <2>1, <1>over, Replaces
    <3> QED BY <1>5, <3>1 DEF Check, Busy, At
  <2>2. CASE job' = [job EXCEPT ![t].pc = "report", ![t].wants = "confirm", ![t].at = network]
    <3> DEFINE r == [job[t] EXCEPT !.pc = "report", !.wants = "confirm", !.at = network]
    <3>1. HasPc(r) /\ r.pc = "report"
      BY <1>0 DEF HasPc
    <3>2. job' = [job EXCEPT ![t] = r]
      BY <2>2, <1>0 DEF Places
    <3> HIDE DEF r
    <3>3. Goes(t, "report")
      BY <3>1, <3>2, Replaces
    <3> QED BY <1>5, <3>3 DEF Check, Busy, At
  <2> QED BY <1>5, <2>1, <2>2 DEF Check
<1>6. CASE Record(t)
  <2> DEFINE next == IF Len(job[t].hits) > 1 THEN "check" ELSE "pass"
             r == [job[t] EXCEPT !.found = Kept(t), !.hits = Tail(@), !.checks = 0, !.good = 0,
                                 !.pc = next]
  <2>0. next \in {"check", "pass"}
    OBVIOUS
  <2>1. job' = [job EXCEPT ![t] = r]
    BY <1>6, <1>0 DEF Record, Places
  <2> HIDE DEF next
  <2>2. HasPc(r) /\ r.pc = next
    BY <1>0 DEF HasPc
  <2> HIDE DEF r
  <2>3. Goes(t, next)
    BY <2>1, <2>2, Replaces
  <2> QED BY <1>6, <2>0, <2>3 DEF Record, Busy, At
<1>7. CASE Rank(t)
  <2>0. PICK offer \in Rankings(job[t].found) : job' = [job EXCEPT ![t].pc = "finish", ![t].offer = offer]
    BY <1>7 DEF Rank
  <2> DEFINE r == [job[t] EXCEPT !.pc = "finish", !.offer = offer]
  <2>1. HasPc(r) /\ r.pc = "finish"
    BY <1>0 DEF HasPc
  <2>2. job' = [job EXCEPT ![t] = r]
    BY <2>0, <1>0 DEF Places
  <2> HIDE DEF r
  <2>3. Goes(t, "finish")
    BY <2>1, <2>2, Replaces
  <2> QED BY <1>7, <2>3 DEF Rank, Busy, At
<1> QED BY <1>1, <1>2, <1>3, <1>4, <1>5, <1>6, <1>7


\* A process is started by the one job, which then holds it; what is held is polled until
\* it ends, or killed.
LEMMA QuestionStep ==
  ASSUME Places, Single, NEW t \in Jobs, ReportSteps(t)
  PROVE  Places' /\ Single'
<1>1. CASE Spawn(t)
  <2>0. Busy(t) /\ ~At(t, "wait") /\ ~At(t, "hold")
    BY <1>1 DEF Spawn, Busy, At
  <2>1. CASE Receive(t, "error") /\ UNCHANGED proc
    <3>1. PICK pc \in {"finish", "pass", "check"} : Goes(t, pc)
      BY <2>1, ReceiveGoes
    <3> QED BY <1>1, <2>0, <2>1, <3>1, GoesQuietly DEF Spawn
  <2>2. CASE proc' = [proc EXCEPT ![t] = [state |-> "running"]] /\ Goto(t, "hold")
    <3>1. slot = NoJob /\ \A u \in Jobs : ~Running(u)
      BY <2>0, NothingHeld
    <3>2. Goes(t, "hold")
      BY <2>2, GotoGoes
    <3>3. \A u \in Jobs : Busy(u)' <=> Busy(u)
      BY <2>0, <3>2 DEF Goes, Busy, At
    <3>4. slot' = NoJob /\ search' = search
      BY <1>1, <3>1 DEF Spawn
    <3>5. proc' = [u \in Jobs |-> proc'[u]]
      BY <2>2 DEF Single
    <3>6. NothingIsLeft'
      BY <2>2, <3>1, <3>2 DEF Single, Goes, NothingIsLeft, Running, At
    <3> QED BY <3>2, <3>3, <3>4, <3>5, <3>6 DEF Single, Goes
  <2> QED BY <1>1, <2>1, <2>2 DEF Spawn
<1>2. CASE Hold(t)
  <2>0. Busy(t) /\ At(t, "hold")
    BY <1>2 DEF Hold, Busy, At
  <2>1. slot = NoJob
    <3> SUFFICES ASSUME slot # NoJob PROVE FALSE OBVIOUS
    <3>1. slot \in Jobs /\ At(slot, "wait")
      BY DEF Single
    <3>2. Busy(slot)
      BY <3>1 DEF Busy, At
    <3> QED BY <2>0, <3>1, <3>2 DEF Single, At
  <2>2. slot' = t /\ Goto(t, "wait") /\ UNCHANGED <<search, proc>>
    BY <1>2, <2>1 DEF Hold
  <2>3. Goes(t, "wait")
    BY <2>2, GotoGoes
  <2>4. \A u \in Jobs : Busy(u)' <=> Busy(u)
    BY <2>0, <2>3 DEF Goes, Busy, At
  <2>5. NothingIsLeft'
    <3> SUFFICES ASSUME NEW u \in Jobs, Running(u)' PROVE u = t
      BY <2>2 DEF NothingIsLeft
    <3>1. Running(u)
      BY <2>2 DEF Running
    <3>2. u = NoJob \/ At(u, "hold")
      BY <2>1, <3>1 DEF Single, NothingIsLeft
    <3>3. Busy(u)
      BY <3>2, JobsAreJobs DEF Busy, At
    <3> QED BY <2>0, <3>3 DEF Single
  <2>6. At(t, "wait")'
    BY <2>3 DEF Goes, At
  <2> QED BY <2>2, <2>3, <2>4, <2>5, <2>6 DEF Single, Goes
<1>3. CASE NoticeMove(t)
  <2>1. search'.on = search.on /\ "on" \in DOMAIN search'
    BY <1>3 DEF NoticeMove, Flagged, Single
  <2> QED BY <1>3, <2>1 DEF NoticeMove, Places, Single, NothingIsLeft, Running, Busy, At
<1>4. CASE GiveUp(t)
  <2>0. Busy(t) /\ ~At(t, "hold")
    BY <1>4 DEF GiveUp, Busy, At
  <2>1. PICK pc \in {"finish", "pass", "check"} : Goes(t, pc)
    BY <1>4, ReceiveGoes DEF GiveUp
  <2>2. /\ slot' = NoJob /\ proc' = [u \in Jobs |-> proc'[u]]
        /\ \A u \in Jobs : ~Running(u)'
    BY <1>4, <2>0, KillEnds DEF GiveUp
  <2> QED BY <1>4, <2>0, <2>1, <2>2, GoesEmpty DEF GiveUp
<1>5. CASE Poll(t)
  <2>0. Busy(t) /\ At(t, "wait") /\ ~At(t, "hold")
    BY <1>5 DEF Poll, Busy, At
  <2>1. PICK pc \in {"finish", "pass", "check"} : Goes(t, pc)
    BY <1>5, ReceiveGoes DEF Poll
  <2>2. slot' = NoJob /\ proc' = [u \in Jobs |-> proc'[u]] /\ search' = search
    BY <1>5 DEF Poll, Single
  <2>3. ASSUME NEW u \in Jobs, Running(u)' PROVE FALSE
    <3>1. Running(u) /\ (u = t => slot = NoJob)
      BY <1>5, <2>3 DEF Poll, NoProc, Running, Single
    <3>2. u = slot \/ At(u, "hold")
      BY <3>1 DEF Single, NothingIsLeft
    <3>3. CASE u = slot
      <4>1. slot # NoJob
        BY <3>3, JobsAreJobs
      <4>2. At(slot, "wait")
        BY <4>1 DEF Single
      <4>3. Busy(u)
        BY <3>3, <4>2 DEF Busy, At
      <4> QED BY <2>0, <3>1, <4>1, <4>3 DEF Single
    <3>4. CASE At(u, "hold")
      <4>1. Busy(u)
        BY <3>4 DEF Busy, At
      <4> QED BY <2>0, <3>4, <4>1 DEF Single
    <3> QED BY <3>2, <3>3, <3>4
  <2> QED BY <2>0, <2>1, <2>2, <2>3, GoesEmpty
<1> QED BY <1>1, <1>2, <1>3, <1>4, <1>5 DEF ReportSteps


\* A search begins when there is none, and its job is then the only one.
LEMMA BeginStep ==
  ASSUME Places, Single, NEW t \in Jobs, NEW cmd, Begin(t, cmd)
  PROVE  Places' /\ Single'
<1> DEFINE r == [pc |-> "show", cmd |-> cmd, net |-> network]
<1>1. HasPc(r) /\ r.pc = "show" /\ job' = [job EXCEPT ![t] = r]
  BY DEF Begin, HasPc
<1> HIDE DEF r
<1>2. Goes(t, "show")
  BY <1>1, Replaces
<1>3. \A u \in Jobs : ~Busy(u)
  BY DEF Begin, Single
<1>4. \A u \in Jobs : Busy(u)' <=> u = t
  BY <1>2, <1>3 DEF Goes, Busy, At
<1>5. slot = NoJob /\ \A u \in Jobs : ~Running(u)
  <2>1. \A u \in Jobs : ~At(u, "wait") /\ ~At(u, "hold")
    BY <1>3 DEF Busy, At
  <2> QED BY <2>1, JobsAreJobs DEF Single, NothingIsLeft
<1>6. UNCHANGED <<slot, proc>> /\ search'.on /\ "on" \in DOMAIN search'
  BY DEF Begin
<1> QED BY <1>2, <1>4, <1>5, <1>6 DEF Single, NothingIsLeft, Running, Goes

\* The end of a search is the end of its job, and of the process it may have held.
LEMMA FinishStep ==
  ASSUME Places, Single, NEW t \in Jobs, Finish(t)
  PROVE  Places' /\ Single'
<1>0. Busy(t) /\ ~At(t, "hold")
  BY DEF Finish, Busy, At
<1>1. HasPc(Idle) /\ Idle.pc = "idle" /\ job' = [job EXCEPT ![t] = Idle]
  BY DEF Finish, Idle, HasPc
<1>2. Goes(t, "idle")
  BY <1>1, Replaces
<1>3. \A u \in Jobs : ~Busy(u)'
  BY <1>0, <1>2 DEF Single, Goes, Busy, At
<1>4. /\ slot' = NoJob /\ proc' = [u \in Jobs |-> proc'[u]]
      /\ \A u \in Jobs : ~Running(u)'
  BY <1>0, KillEnds DEF Finish
<1>5. "on" \in DOMAIN search'
  BY DEF Finish, NoSearch
<1> QED BY <1>2, <1>3, <1>4, <1>5 DEF Single, NothingIsLeft, Goes

\* A process that ends runs no longer.
LEMMA ExitsStep ==
  ASSUME Places, Single, NEW t \in Jobs, Exits(t)
  PROVE  Places' /\ Single'
<1>1. UNCHANGED <<search, slot, job>>
  BY DEF Exits
<1>2. PICK answer : proc' = [proc EXCEPT ![t] = [state |-> "exited", answer |-> answer]]
  BY DEF Exits
<1>3. proc' = [u \in Jobs |-> proc'[u]]
  BY <1>2 DEF Single
<1>4. \A u \in Jobs : Running(u)' => Running(u)
  BY <1>2 DEF Running, Single
<1> QED BY <1>1, <1>3, <1>4 DEF Places, Single, NothingIsLeft, Busy, At

\* A cancel ends what is held, whoever waits for it.
LEMMA CancelStep ==
  ASSUME Places, Single, Cancel
  PROVE  Places' /\ Single'
<1>1. slot' = NoJob /\ job' = job /\ search'.on = search.on /\ "on" \in DOMAIN search'
  BY DEF Cancel, Kill, Flagged, Single
<1>2. proc' = [u \in Jobs |-> proc'[u]]
  BY DEF Cancel, Kill
<1>3. ASSUME NEW u \in Jobs, Running(u)' PROVE At(u, "hold")
  <2>1. proc'[u] = IF u = slot THEN NoProc ELSE proc[u]
    BY DEF Cancel, Kill
  <2>2. u # slot /\ Running(u)
    BY <1>3, <2>1 DEF NoProc, Running
  <2> QED BY <2>2 DEF Single, NothingIsLeft
<1> QED BY <1>1, <1>2, <1>3 DEF Places, Single, NothingIsLeft, Busy, At

\* Nobody else touches a job or a process, and a search is at most flagged.
LEMMA OtherStep ==
  ASSUME Places, Single, Move \/ Connect \/ ComesUp \/ Disconnect \/ Pump \/ UNCHANGED vars
  PROVE  Places' /\ Single'
<1>1. UNCHANGED <<slot, proc, job>> /\ search'.on = search.on /\ "on" \in DOMAIN search'
  BY DEF Move, Connect, ComesUp, Disconnect, Flagged, Pump, Wake, Send, vars, Single
<1> QED BY <1>1 DEF Places, Single, NothingIsLeft, Running, Busy, At

\* The invariant is one.
LEMMA SingleStep == Places /\ Single /\ [Next]_vars => Places' /\ Single'
<1> SUFFICES ASSUME Places, Single, [Next]_vars PROVE Places' /\ Single'
  OBVIOUS
<1>1. ASSUME NEW t \in Jobs, Step(t) PROVE Places' /\ Single'
  <2>1. CASE ReportSteps(t)
    BY <2>1, QuestionStep
  <2>2. CASE Finish(t)
    BY <2>2, FinishStep
  <2>3. CASE ShowSearch(t) \/ Prepare(t) \/ Test(t) \/ Pass(t) \/ Check(t) \/ Record(t) \/ Rank(t)
    BY <2>3, WorkGoes, GoesQuietly
  <2> QED BY <1>1, <2>1, <2>2, <2>3 DEF Step
<1>2. ASSUME NEW t \in Jobs, NEW cmd, Begin(t, cmd) PROVE Places' /\ Single'
  BY <1>2, BeginStep
<1>3. ASSUME NEW t \in Jobs, Exits(t) PROVE Places' /\ Single'
  BY <1>3, ExitsStep
<1> QED BY <1>1, <1>2, <1>3, CancelStep, OtherStep DEF Next

\* A process of the engine that runs for a search is in the slot, where a cancel finds it,
\* or in the hands of the thread about to put it there (run_report, stop_scan_process).
THEOREM SearchesAreHeld == Spec => []NothingIsLeft
<1>1. Init => Places /\ Single
  BY DEF Init, NoSearch, Idle, NoProc, NoJob, Places, HasPc, Single, NothingIsLeft, Running, Busy, At
<1>2. Single => NothingIsLeft
  BY DEF Single
<1> QED BY <1>1, <1>2, SingleStep, PTL DEF Spec

\* Nothing but the pump takes the mark off or sends, and whoever changes the snapshot marks it.
LEMMA CurrentStep ==
  WindowIsCurrent /\ [Next]_vars => WindowIsCurrent'
<1> SUFFICES ASSUME WindowIsCurrent, [Next]_vars PROVE WindowIsCurrent'
  OBVIOUS
<1>0. \/ UNCHANGED screenVars \/ dirty' \/ Pump
  <2>1. ASSUME NEW t \in Jobs, Step(t) PROVE UNCHANGED screenVars \/ dirty'
    BY <2>1 DEF Step, ShowSearch, Prepare, Test, Pass, Check, Record, Rank, Finish, ReportSteps,
         Spawn, Hold, NoticeMove, GiveUp, Poll, show_search, Show
  <2>2. ASSUME NEW t \in Jobs, NEW cmd, Begin(t, cmd) PROVE UNCHANGED screenVars
    BY <2>2 DEF Begin
  <2>3. ASSUME NEW t \in Jobs, Exits(t) PROVE UNCHANGED screenVars
    BY <2>3 DEF Exits
  <2> QED BY <2>1, <2>2, <2>3
         DEF Next, vars, Cancel, Move, Connect, ComesUp, Disconnect
<1>1. CASE UNCHANGED screenVars
  BY <1>1 DEF screenVars, WindowIsCurrent
<1>2. CASE dirty'
  BY <1>2 DEF WindowIsCurrent
<1>3. CASE Pump
  BY <1>3 DEF Pump, Wake, Send, WindowIsCurrent
<1> QED BY <1>0, <1>1, <1>2, <1>3

\* When the pump has nothing left to do, the window shows what the snapshot says
\* (start_pump takes the mark off before it reads).
THEOREM WindowFollows == Spec => []WindowIsCurrent
<1>1. Init => WindowIsCurrent
  BY DEF Init, WindowIsCurrent
<1> QED BY <1>1, CurrentStep, PTL DEF Spec

(***************************************************************************)
(* What is found, traffic has crossed.                                     *)
(***************************************************************************)
ScanFields == {"pc", "cmd", "net", "wants", "at", "found", "offer", "hits", "checks", "good",
               "recipe", "passes"}
Scans(r) == HasPc(r) /\ DOMAIN r = ScanFields
Asks(r, wants) == r.pc \in {"report", "hold", "wait"} /\ r.wants \in wants

\* The gateway a job has in hand, and whether what it has counted of it is true.
InHand(r) == [peer |-> Head(r.hits), recipe |-> r.recipe]
Counted(r, through) ==
  r.checks \in Nat /\ r.good \in 0 .. r.checks /\ (r.good > 0 => InHand(r) \in through)

\* What a job lists, each gateway once and all of them confirmed.
Listed(found, through) ==
  IsFiniteSet(found) /\ \A c, d \in found :
    /\ [peer |-> c.peer, recipe |-> c.recipe] \in through /\ c.tried \in Nat /\ c.good \in 1 .. c.tried
    /\ c.peer = d.peer /\ c.recipe = d.recipe => c = d

\* What a job offers of what it lists.
Offered(found, offer) ==
  \A k \in DOMAIN offer :
    /\ k \in Nat /\ offer[k] \in found
    /\ \A i \in 1 .. k - 1 : offer[i] # offer[k] /\ offer[i].good >= offer[k].good
    /\ \A c \in found : c.good > offer[k].good => \E i \in 1 .. k - 1 : offer[i] = c

\* A job's record: it counts from nothing until a gateway is looked at, and offers nothing
\* before it ends.
Honest(r, through) ==
  /\ HasPc(r)
  /\ "found" \in DOMAIN r \/ "offer" \in DOMAIN r => Scans(r)
  /\ r.pc \in {"pass", "check", "rank"} => Scans(r)
  /\ r.pc \in {"report", "hold", "wait"} =>
       "wants" \in DOMAIN r /\ Asks(r, {"provision", "test", "scan", "confirm"})
  /\ Asks(r, {"provision", "scan", "confirm"}) => Scans(r)
  /\ Scans(r) =>
       /\ Counted(r, through) /\ Listed(r.found, through) /\ Offered(r.found, r.offer)
       /\ r.pc # "finish" => r.offer = << >>
       /\ r.pc \in {"pass", "rank"} \/ Asks(r, {"provision", "scan"}) => r.good = 0

\* The answer of a process that was asked to confirm a gateway.
Reported(t) ==
  At(t, "hold") \/ At(t, "wait") =>
    (/\ job[t].wants = "confirm" /\ proc[t].state = "exited" /\ proc[t].answer = "ok"
     => InHand(job[t]) \in crossed[searches])

Honesty ==
  \A t \in Jobs : /\ Honest(job[t], crossed[searches]) /\ Reported(t)
                  /\ At(t, "idle") => job[t] = Idle

\* Every search has its number, and what is remembered has the number of the search that
\* remembered it.
Numbered ==
  /\ crossed = [n \in 1 .. MaxSearches |-> crossed[n]]
  /\ searches \in 0 .. MaxSearches /\ ((\E t \in Jobs : Busy(t)) => searches > 0)
  /\ \A e \in memory :
       /\ e.at \in 0 .. MaxSearches
       /\ e.at > 0 => \A k \in DOMAIN e.found : e.found[k] \in crossed[e.at]

\* It is what the property asks for.
LEMMA HonestyConfirms == Honesty /\ Numbered => FoundIsConfirmed
<1> SUFFICES ASSUME Honesty, NEW t \in Jobs
             PROVE  /\ \A c, d \in Found(t) :
                         /\ [peer |-> c.peer, recipe |-> c.recipe] \in crossed[searches] /\ c.good \in 1 .. c.tried
                         /\ c.peer = d.peer /\ c.recipe = d.recipe => c = d
                    /\ \A k \in DOMAIN Offer(t) :
                         /\ Offer(t)[k] \in Found(t)
                         /\ \A i \in 1 .. k - 1 : Offer(t)[i] # Offer(t)[k] /\ Offer(t)[i].good >= Offer(t)[k].good
                         /\ \A c \in Found(t) :
                              c.good > Offer(t)[k].good => \E i \in 1 .. k - 1 : Offer(t)[i] = c
  BY DEF FoundIsConfirmed, Numbered
<1>1. CASE Scans(job[t])
  <2>1. Found(t) = job[t].found /\ Offer(t) = job[t].offer
    BY <1>1 DEF Found, Offer, Scans, ScanFields
  <2>2. Listed(job[t].found, crossed[searches]) /\ Offered(job[t].found, job[t].offer)
    BY <1>1 DEF Honesty, Honest
  <2> QED BY <2>1, <2>2 DEF Listed, Offered
<1>2. CASE ~Scans(job[t])
  <2>1. "found" \notin DOMAIN job[t] /\ "offer" \notin DOMAIN job[t]
    BY <1>2 DEF Honesty, Honest
  <2>2. Found(t) = {} /\ Offer(t) = << >>
    BY <2>1 DEF Found, Offer
  <2> QED BY <2>2
<1> QED BY <1>1, <1>2

\* More traffic takes nothing back.
LEMMA MoreIsHonest ==
  ASSUME NEW r, NEW through, NEW more, through \subseteq more, Honest(r, through)
  PROVE  Honest(r, more)
<1>1. ASSUME Scans(r) PROVE Counted(r, more) /\ Listed(r.found, more)
  BY <1>1 DEF Honest, Counted, Listed
<1> QED BY <1>1 DEF Honest

\* A record of a job that lists nothing.
LEMMA BareIsHonest ==
  ASSUME NEW r, NEW through, HasPc(r), "found" \notin DOMAIN r, "offer" \notin DOMAIN r,
         r.pc \notin {"pass", "check", "rank"},
         r.pc \in {"report", "hold", "wait"} => "wants" \in DOMAIN r /\ r.wants = "test"
  PROVE  Honest(r, through)
<1>1. ~Scans(r)
  BY DEF Scans, ScanFields
<1> QED BY <1>1 DEF Honest, Asks

\* A job that goes on with what it has listed.
LEMMA CarriesOn ==
  ASSUME NEW r, NEW through, Honest(r, through), Scans(r), r.pc # "finish",
         NEW s, Scans(s), s.found = r.found, s.offer = r.offer, Counted(s, through),
         s.pc \in {"pass", "rank"} \/ Asks(s, {"provision", "scan"}) => s.good = 0,
         s.pc \in {"report", "hold", "wait"} => s.wants \in {"provision", "scan", "confirm"}
  PROVE  Honest(s, through)
<1>1. Listed(s.found, through) /\ Offered(s.found, s.offer) /\ s.offer = << >>
  BY DEF Honest
<1>2. "wants" \in DOMAIN s /\ HasPc(s)
  BY DEF Scans, ScanFields
<1> QED BY <1>1, <1>2 DEF Honest, Asks

\* A field of a scanning job is set.
LEMMA ScanSet ==
  ASSUME NEW r, Scans(r), NEW f \in ScanFields, NEW x
  PROVE  /\ Scans([r EXCEPT ![f] = x]) /\ [r EXCEPT ![f] = x][f] = x
         /\ \A g \in ScanFields \ {f} : [r EXCEPT ![f] = x][g] = r[g]
BY DEF Scans, HasPc, ScanFields

\* A job goes to another place: what it asks for is asked for there.
LEMMA PlaceIsHonest ==
  ASSUME NEW r, NEW through, Honest(r, through), r.pc # "finish", NEW pc, pc # "finish",
         pc \in {"pass", "check", "rank"} => r.pc \in {"pass", "check", "rank"},
         pc \in {"pass", "rank"} => r.pc \in {"pass", "rank"},
         pc \in {"report", "hold", "wait"} => r.pc \in {"report", "hold", "wait"}
  PROVE  Honest([r EXCEPT !.pc = pc], through)
<1> DEFINE s == [r EXCEPT !.pc = pc]
<1>0. HasPc(r) /\ HasPc(s) /\ s.pc = pc /\ DOMAIN s = DOMAIN r /\ \A f \in DOMAIN r \ {"pc"} : s[f] = r[f]
  BY DEF Honest, HasPc
<1> HIDE DEF s
<1>1. CASE Scans(r)
  <2>1. Scans(s) /\ s.found = r.found /\ s.offer = r.offer /\ s.checks = r.checks /\ s.good = r.good
          /\ InHand(s) = InHand(r) /\ s.wants = r.wants
    BY <1>0, <1>1 DEF Scans, ScanFields, InHand
  <2>2. Counted(s, through)
    BY <1>1, <2>1 DEF Honest, Counted
  <2>3. s.pc \in {"pass", "rank"} \/ Asks(s, {"provision", "scan"}) => s.good = 0
    BY <1>0, <1>1, <2>1 DEF Honest, Asks
  <2>4. s.pc \in {"report", "hold", "wait"} => s.wants \in {"provision", "test", "scan", "confirm"}
    BY <1>0, <2>1 DEF Honest, Asks
  <2>5. Listed(s.found, through) /\ Offered(s.found, s.offer) /\ s.offer = << >>
    BY <1>1, <2>1 DEF Honest
  <2>6. "wants" \in DOMAIN s
    BY <2>1 DEF Scans, ScanFields
  <2>7. Honest(s, through)
    BY <1>0, <2>1, <2>2, <2>3, <2>4, <2>5, <2>6 DEF Honest, Asks
  <2> QED BY <2>7 DEF s
<1>2. CASE ~Scans(r)
  <2>1. ~Scans(s) /\ pc \notin {"pass", "check", "rank"}
    BY <1>0, <1>2 DEF Scans, Honest
  <2>2. "found" \notin DOMAIN s /\ "offer" \notin DOMAIN s
    BY <1>0, <1>2 DEF Honest
  <2>3. pc \in {"report", "hold", "wait"} => "wants" \in DOMAIN s /\ s.wants = r.wants /\ r.wants = "test"
    BY <1>0, <1>2 DEF Honest, Asks
  <2>4. Honest(s, through)
    BY <1>0, <2>1, <2>2, <2>3, BareIsHonest
  <2> QED BY <2>4 DEF s
<1> QED BY <1>1, <1>2 DEF s

\* An answer: only one that a confirmed gateway gave counts for it.
LEMMA AnswerIsHonest ==
  ASSUME NEW t \in Jobs, NEW answer, NEW through, Honest(job[t], through),
         Asks(job[t], {"provision", "test", "scan", "confirm"}),
         job[t].wants = "confirm" /\ answer = "ok" => InHand(job[t]) \in through,
         NEW next \in Answered(t, answer)
  PROVE  Honest(next, through)
<1> DEFINE r == job[t]
           a == Asked(t)
<1>0. r.pc \in {"report", "hold", "wait"} /\ r.wants \in {"provision", "test", "scan", "confirm"}
  BY DEF Asks
<1>over. Honest(Over(t), through)
  <2>1. HasPc(Over(t)) /\ Over(t).pc = "finish" /\ DOMAIN Over(t) = {"pc", "cmd", "net"}
    BY DEF HasPc, Over
  <2> QED BY <2>1, BareIsHonest
<1>1. CASE r.wants = "test"
  <2>1. Answered(t, answer) = {Over(t)}
    BY <1>1 DEF Answered, Went
  <2> QED BY <2>1, <1>over
<1>2. CASE r.wants # "test"
  <2>1. Scans(r) /\ Counted(r, through)
    BY <1>0, <1>2 DEF Honest, Asks
  <2>2. /\ Scans(a) /\ a.found = r.found /\ a.offer = r.offer /\ a.checks = r.checks
        /\ a.good = r.good /\ a.hits = r.hits /\ a.recipe = r.recipe
    BY <2>1 DEF Asked, Scans, HasPc, ScanFields
  <2>3. r.wants \in {"provision", "scan"} => r.good = 0
    BY <1>0, <2>1 DEF Honest, Asks
  <2> HIDE DEF a
  <2>4. ASSUME r.wants \in {"provision", "scan"}, next = [a EXCEPT !.pc = "pass"]
        PROVE  Honest(next, through)
    <3>1. /\ Scans(next) /\ next.pc = "pass" /\ next.found = r.found /\ next.offer = r.offer
          /\ next.checks = r.checks /\ next.good = 0
      BY <2>2, <2>3, <2>4 DEF Scans, HasPc, ScanFields
    <3>2. Counted(next, through)
      BY <2>1, <2>3, <2>4, <3>1 DEF Counted
    <3> QED BY <1>0, <2>1, <3>1, <3>2, CarriesOn
  <2>5. ASSUME NEW hits, r.wants = "scan", next = [a EXCEPT !.pc = "check", !.hits = hits]
        PROVE  Honest(next, through)
    <3>1. /\ Scans(next) /\ next.pc = "check" /\ next.found = r.found /\ next.offer = r.offer
          /\ next.checks = r.checks /\ next.good = 0
      BY <2>2, <2>3, <2>5 DEF Scans, HasPc, ScanFields
    <3>2. Counted(next, through)
      BY <2>1, <2>3, <2>5, <3>1 DEF Counted
    <3> QED BY <1>0, <2>1, <3>1, <3>2, CarriesOn DEF Asks
  <2>6. ASSUME r.wants = "confirm", NEW n \in {0, 1}, n = 1 => answer = "ok",
               next = [a EXCEPT !.pc = "check", !.checks = @ + 1, !.good = @ + n]
        PROVE  Honest(next, through)
    <3>1. /\ Scans(next) /\ next.pc = "check" /\ next.found = r.found /\ next.offer = r.offer
          /\ next.checks = r.checks + 1 /\ next.good = r.good + n
          /\ next.hits = r.hits /\ next.recipe = r.recipe
      BY <2>2, <2>6 DEF Scans, HasPc, ScanFields
    <3>2. Counted(next, through)
      BY <2>1, <2>6, <3>1 DEF Counted, InHand
    <3> QED BY <1>0, <2>1, <3>1, <3>2, CarriesOn DEF Asks
  <2>7. \/ next = Over(t)
        \/ r.wants \in {"provision", "scan"} /\ next = [a EXCEPT !.pc = "pass"]
        \/ r.wants = "scan" /\ \E hits : next = [a EXCEPT !.pc = "check", !.hits = hits]
        \/ r.wants = "confirm" /\ \E n \in {0, 1} : (n = 1 => answer = "ok")
             /\ next = [a EXCEPT !.pc = "check", !.checks = @ + 1, !.good = @ + n]
    <3>1. CASE r.wants = "provision" /\ answer # "held"
      BY <1>0, <1>2, <3>1 DEF Answered, Went, a
    <3>2. CASE answer = "held"
      BY <3>2 DEF Answered, Went
    <3>3. CASE r.wants = "scan" /\ answer = "ok"
      BY <1>2, <3>3 DEF Answered, a
    <3>4. CASE r.wants = "scan" /\ answer # "ok" /\ answer # "held"
      BY <1>2, <3>4 DEF Answered, Went, a
    <3>5. CASE r.wants = "confirm" /\ answer # "held"
      <4>1. Answered(t, answer) =
              {[Asked(t) EXCEPT !.pc = "check", !.checks = @ + 1, !.good = @ + IF answer = "ok" THEN 1 ELSE 0]}
        BY <1>2, <3>5 DEF Answered
      <4>2. CASE answer = "ok"
        <5>1. next = [a EXCEPT !.pc = "check", !.checks = @ + 1, !.good = @ + 1]
          BY <4>1, <4>2 DEF a
        <5> QED BY <3>5, <4>2, <5>1
      <4>3. CASE answer # "ok"
        <5>1. next = [a EXCEPT !.pc = "check", !.checks = @ + 1, !.good = @ + 0]
          BY <4>1, <4>3 DEF a
        <5> QED BY <3>5, <5>1
      <4> QED BY <4>2, <4>3
    <3> QED BY <1>0, <1>2, <3>1, <3>2, <3>3, <3>4, <3>5
  <2> QED BY <1>over, <2>4, <2>5, <2>6, <2>7
<1> QED BY <1>1, <1>2

\* A pass is begun, or there have been enough.
LEMMA PassIsHonest ==
  ASSUME Places, NEW t \in Jobs, NEW through, Honest(job[t], through), Pass(t)
  PROVE  Honest(job'[t], through) /\ job'[t].pc \notin {"hold", "wait"}
<1> DEFINE r == job[t]
           taken == [r EXCEPT !.passes = Tail(@), !.recipe = Head(r.passes).recipe]
           scan == [taken EXCEPT !.pc = "report", !.wants = "scan", !.at = network]
           hinted == [taken EXCEPT !.pc = "check", !.hits = <<Head(r.passes).hint>>]
<1>0. r.pc = "pass" /\ Scans(r) /\ Counted(r, through) /\ r.good = 0
  BY DEF Pass, At, Honest
<1>1. \/ job'[t] = Over(t) \/ job'[t] = [r EXCEPT !.pc = "rank"]
      \/ job'[t] = scan \/ job'[t] = hinted
  BY DEF Pass, Goto, Places
<1>2. /\ Scans(taken) /\ taken.found = r.found /\ taken.offer = r.offer
      /\ taken.checks = r.checks /\ taken.good = 0
  BY <1>0 DEF Scans, HasPc, ScanFields
<1> HIDE DEF taken
<1>3. /\ Scans(scan) /\ scan.pc = "report" /\ scan.wants = "scan" /\ scan.found = r.found
      /\ scan.offer = r.offer /\ scan.checks = r.checks /\ scan.good = 0
  BY <1>2 DEF Scans, HasPc, ScanFields
<1>4. /\ Scans(hinted) /\ hinted.pc = "check" /\ hinted.found = r.found /\ hinted.offer = r.offer
      /\ hinted.checks = r.checks /\ hinted.good = 0
  BY <1>2 DEF Scans, HasPc, ScanFields
<1> HIDE DEF scan, hinted
<1>5. Counted(scan, through) /\ Counted(hinted, through)
  BY <1>0, <1>3, <1>4 DEF Counted
<1>6. Honest(scan, through) /\ Honest(hinted, through)
  BY <1>0, <1>3, <1>4, <1>5, CarriesOn DEF Asks
<1>7. Honest([r EXCEPT !.pc = "rank"], through) /\ [r EXCEPT !.pc = "rank"].pc = "rank"
  BY <1>0, PlaceIsHonest DEF Scans, HasPc
<1>8. HasPc(Over(t)) /\ Over(t).pc = "finish" /\ DOMAIN Over(t) = {"pc", "cmd", "net"}
  BY DEF HasPc, Over
<1>9. Honest(Over(t), through)
  BY <1>8, BareIsHonest
<1> QED BY <1>1, <1>3, <1>4, <1>6, <1>7, <1>8, <1>9

\* A confirmation is asked for, of the gateway in hand.
LEMMA CheckIsHonest ==
  ASSUME Places, NEW t \in Jobs, NEW through, Honest(job[t], through), Check(t)
  PROVE  Honest(job'[t], through) /\ job'[t].pc \notin {"hold", "wait"}
<1> DEFINE r == job[t]
           asked == [r EXCEPT !.pc = "report", !.wants = "confirm", !.at = network]
<1>0. r.pc = "check" /\ Scans(r) /\ Counted(r, through)
  BY DEF Check, At, Honest
<1>1. job'[t] = Over(t) \/ job'[t] = asked
  BY DEF Check, Places
<1>2. /\ Scans(asked) /\ asked.pc = "report" /\ asked.wants = "confirm" /\ asked.found = r.found
      /\ asked.offer = r.offer /\ asked.checks = r.checks /\ asked.good = r.good
      /\ asked.hits = r.hits /\ asked.recipe = r.recipe
  BY <1>0 DEF Scans, HasPc, ScanFields
<1> HIDE DEF asked
<1>3. Counted(asked, through)
  BY <1>0, <1>2 DEF Counted, InHand
<1>4. Honest(asked, through)
  BY <1>0, <1>2, <1>3, CarriesOn DEF Asks
<1>5. HasPc(Over(t)) /\ Over(t).pc = "finish" /\ DOMAIN Over(t) = {"pc", "cmd", "net"}
  BY DEF HasPc, Over
<1>6. Honest(Over(t), through)
  BY <1>5, BareIsHonest
<1> QED BY <1>1, <1>2, <1>4, <1>5, <1>6

\* The gateway in hand is listed if it was confirmed, in place of what was listed of it.
LEMMA RecordIsHonest ==
  ASSUME Places, NEW t \in Jobs, NEW through, Honest(job[t], through), Record(t)
  PROVE  Honest(job'[t], through) /\ job'[t].pc \notin {"hold", "wait"}
<1> DEFINE r == job[t]
           c == Candidate(t)
           next == IF Len(r.hits) > 1 THEN "check" ELSE "pass"
           s == [r EXCEPT !.found = Kept(t), !.hits = Tail(@), !.checks = 0, !.good = 0, !.pc = next]
<1>0. r.pc = "check" /\ Scans(r) /\ Counted(r, through) /\ Listed(r.found, through) /\ r.offer = << >>
  BY DEF Record, At, Honest
<1>1. job'[t] = s /\ next \in {"check", "pass"}
  BY DEF Record, Places
<1> HIDE DEF next
<1>2. /\ Scans(s) /\ s.pc = next /\ s.found = Kept(t) /\ s.offer = << >> /\ s.checks = 0 /\ s.good = 0
  BY <1>0 DEF Scans, HasPc, ScanFields
<1> HIDE DEF s
<1>3. /\ [peer |-> c.peer, recipe |-> c.recipe] = InHand(r) /\ c.good = r.good /\ c.tried = r.checks
  BY DEF Candidate, InHand
<1> HIDE DEF c
<1>4. Listed(Kept(t), through)
  <2>1. CASE c.good = 0
    <3>1. Kept(t) = r.found
      BY <2>1 DEF Kept, c
    <3> QED BY <1>0, <3>1
  <2>2. CASE c.good # 0
    <3>1. Kept(t) = {f \in r.found : f.peer # c.peer \/ f.recipe # c.recipe} \union {c}
      BY <2>2 DEF Kept, c
    <3>2. /\ [peer |-> c.peer, recipe |-> c.recipe] \in through
          /\ c.tried \in Nat /\ c.good \in 1 .. c.tried
      BY <1>0, <1>3, <2>2 DEF Counted
    <3>3. IsFiniteSet({f \in r.found : f.peer # c.peer \/ f.recipe # c.recipe})
      BY <1>0, FS_Subset DEF Listed
    <3>4. IsFiniteSet(Kept(t))
      BY <3>1, <3>3, FS_AddElement
    <3> QED BY <1>0, <3>1, <3>2, <3>4 DEF Listed
  <2> QED BY <2>1, <2>2
<1>5. Counted(s, through) /\ Offered(s.found, s.offer)
  BY <1>2 DEF Counted, Offered
<1>6. "wants" \in DOMAIN s /\ HasPc(s)
  BY <1>2 DEF Scans, ScanFields
<1> QED BY <1>1, <1>2, <1>4, <1>5, <1>6 DEF Honest, Asks

\* The list is ranked and cut: what was confirmed most comes first.
LEMMA RankIsHonest ==
  ASSUME Places, NEW t \in Jobs, NEW through, Honest(job[t], through), Rank(t)
  PROVE  Honest(job'[t], through) /\ job'[t].pc \notin {"hold", "wait"}
<1> DEFINE r == job[t]
<1>0. r.pc = "rank" /\ Scans(r) /\ Counted(r, through) /\ Listed(r.found, through)
  BY DEF Rank, At, Honest
<1>1. PICK offer \in Rankings(r.found) : job' = [job EXCEPT ![t].pc = "finish", ![t].offer = offer]
  BY DEF Rank
<1> DEFINE s == [r EXCEPT !.pc = "finish", !.offer = offer]
<1>2. job'[t] = s
  BY <1>1 DEF Places
<1>3. /\ Scans(s) /\ s.pc = "finish" /\ s.found = r.found /\ s.offer = offer /\ s.checks = r.checks
      /\ s.good = r.good /\ s.hits = r.hits /\ s.recipe = r.recipe
  BY <1>0 DEF Scans, HasPc, ScanFields
<1> HIDE DEF s
<1>4. Offered(r.found, offer)
  <2> DEFINE places == 1 .. IF Cardinality(r.found) < Limit THEN Cardinality(r.found) ELSE Limit
  <2>1. /\ offer \in [places -> r.found]
        /\ \A i, k \in places : i < k => offer[i] # offer[k] /\ ~Better(offer[k], offer[i])
        /\ \A c \in r.found, i \in places : (\A k \in places : offer[k] # c) => ~Better(c, offer[i])
    BY DEF Rankings
  <2>2. \A k \in places : k \in Nat /\ \A i \in 1 .. k - 1 : i \in places /\ i < k
    <3>1. IsFiniteSet(r.found)
      BY <1>0 DEF Listed
    <3>2. Cardinality(r.found) \in Nat
      BY <3>1, FS_CardinalityType
    <3> QED BY <3>2, LimitIsNumber
  <2> HIDE DEF places
  <2>3. \A c \in r.found : c.good \in Nat
    <3> SUFFICES ASSUME NEW c \in r.found PROVE c.good \in Nat
      OBVIOUS
    <3>1. c.tried \in Nat /\ c.good \in 1 .. c.tried
      BY <1>0 DEF Listed
    <3> QED BY <3>1
  <2> SUFFICES ASSUME NEW k \in places
               PROVE  /\ \A i \in 1 .. k - 1 : offer[i] # offer[k] /\ offer[i].good >= offer[k].good
                      /\ \A c \in r.found : c.good > offer[k].good => \E i \in 1 .. k - 1 : offer[i] = c
    BY <2>1, <2>2 DEF Offered
  <2>4. ASSUME NEW i \in 1 .. k - 1 PROVE offer[i] # offer[k] /\ offer[i].good >= offer[k].good
    BY <2>1, <2>2, <2>3 DEF Better
  <2>5. ASSUME NEW c \in r.found, c.good > offer[k].good PROVE \E i \in 1 .. k - 1 : offer[i] = c
    <3>1. PICK i \in places : offer[i] = c
      BY <2>1, <2>5 DEF Better
    <3>2. ~(k < i) /\ i # k /\ i \in Nat /\ k \in Nat
      BY <2>1, <2>2, <2>3, <2>5, <3>1 DEF Better
    <3>3. i >= 1
      BY DEF places
    <3> QED BY <3>1, <3>2, <3>3
  <2> QED BY <2>4, <2>5
<1>5. Counted(s, through)
  BY <1>0, <1>3 DEF Counted, InHand
<1>6. "wants" \in DOMAIN s /\ HasPc(s)
  BY <1>3 DEF Scans, ScanFields
<1> QED BY <1>0, <1>2, <1>3, <1>4, <1>5, <1>6 DEF Honest, Asks

\* The work of a search between two questions.
LEMMA WorkIsHonest ==
  ASSUME Places, NEW t \in Jobs, NEW through, Honest(job[t], through),
         ShowSearch(t) \/ Prepare(t) \/ Test(t) \/ Pass(t) \/ Check(t) \/ Record(t) \/ Rank(t)
  PROVE  Honest(job'[t], through) /\ job'[t].pc \notin {"hold", "wait"}
<1>0. HasPc(job[t])
  BY DEF Places
<1>1. CASE ShowSearch(t)
  <2>1. PICK pc \in {"prepare", "test"} : job'[t] = [job[t] EXCEPT !.pc = pc]
    BY <1>1 DEF ShowSearch, Goto, Places
  <2>2. job[t].pc = "show"
    BY <1>1 DEF ShowSearch, At
  <2>3. job'[t].pc = pc
    BY <1>0, <2>1 DEF HasPc
  <2> QED BY <2>1, <2>2, <2>3, PlaceIsHonest
<1>2. CASE Prepare(t)
  <2> DEFINE r == [pc |-> "report", cmd |-> "scan", net |-> job[t].net, wants |-> "provision",
                   at |-> network, found |-> {}, offer |-> << >>, hits |-> << >>, checks |-> 0, good |-> 0,
                   recipe |-> "", passes |-> Passes(job[t].net)]
  <2>1. job'[t] = r
    BY <1>2 DEF Prepare, Places
  <2>2. Scans(r) /\ r.pc = "report" /\ r.wants = "provision" /\ r.found = {} /\ r.offer = << >> 
         /\ r.checks = 0 /\ r.good = 0
    BY DEF Scans, HasPc, ScanFields
  <2> HIDE DEF r
  <2>3. Counted(r, through)
    BY <2>2 DEF Counted
  <2>4. Listed(r.found, through)
    BY <2>2, FS_EmptySet DEF Listed
  <2>5. Offered(r.found, r.offer)
    BY <2>2 DEF Offered
  <2>6. "wants" \in DOMAIN r /\ HasPc(r)
    BY <2>2 DEF Scans, ScanFields
  <2>7. Honest(r, through)
    BY <2>2, <2>3, <2>4, <2>5, <2>6 DEF Honest, Asks
  <2> QED BY <2>1, <2>2, <2>7
<1>3. CASE Test(t)
  <2> DEFINE r == [pc |-> "report", cmd |-> "test", net |-> job[t].net, wants |-> "test", at |-> network]
  <2>1. job'[t] = r
    BY <1>3 DEF Test, Places
  <2>2. HasPc(r) /\ r.pc = "report" /\ r.wants = "test" /\ DOMAIN r = {"pc", "cmd", "net", "wants", "at"}
    BY DEF HasPc
  <2> HIDE DEF r
  <2> QED BY <2>1, <2>2, BareIsHonest
<1> QED BY <1>1, <1>2, <1>3, PassIsHonest, CheckIsHonest, RecordIsHonest, RankIsHonest

\* One job moves, nothing crosses; the processes of the others are as they were, or gone.
LEMMA OneMoves ==
  ASSUME Honesty, NEW t \in Jobs,
         \A u \in Jobs \ {t} : job'[u] = job[u] /\ proc'[u] \in {proc[u], NoProc},
         UNCHANGED <<crossed, searches>>,
         Honest(job'[t], crossed[searches]), Reported(t)', At(t, "idle")' => job'[t] = Idle
  PROVE  Honesty'
<1>1. ASSUME NEW u \in Jobs \ {t}
      PROVE  Honest(job'[u], crossed[searches]) /\ Reported(u)' /\ (At(u, "idle")' => job'[u] = Idle)
  <2>1. /\ Reported(u) /\ Honest(job[u], crossed[searches]) /\ job'[u] = job[u]
        /\ At(u, "idle") => job[u] = Idle
    BY DEF Honesty
  <2>2. proc'[u].state = "exited" => proc'[u] = proc[u]
    BY DEF NoProc
  <2> QED BY <2>1, <2>2 DEF Reported, At
<1> QED BY <1>1 DEF Honesty

\* A question is put, held and answered: only the process that was asked answers.
LEMMA QuestionIsHonest ==
  ASSUME Places, Single, Honesty, NEW t \in Jobs, ReportSteps(t)
  PROVE  Honesty'
<1>0. /\ HasPc(job[t]) /\ Honest(job[t], crossed[searches]) /\ Reported(t)
      /\ UNCHANGED <<crossed, searches>>
      /\ job = [u \in Jobs |-> job[u]] /\ proc = [u \in Jobs |-> proc[u]]
  BY DEF Places, Honesty, Single, ReportSteps, Spawn, Hold, NoticeMove, GiveUp, Poll, boundVars
<1>1. ASSUME NEW answer, Receive(t, answer), job[t].pc \in {"report", "hold", "wait"},
             job[t].wants = "confirm" /\ answer = "ok" => InHand(job[t]) \in crossed[searches]
      PROVE  /\ Honest(job'[t], crossed[searches]) /\ Reported(t)' /\ ~At(t, "idle")'
             /\ \A u \in Jobs \ {t} : job'[u] = job[u]
  <2>1. PICK pc \in {"finish", "pass", "check"} : Goes(t, pc)
    BY <1>1, ReceiveGoes
  <2>2. Asks(job[t], {"provision", "test", "scan", "confirm"})
    BY <1>0, <1>1 DEF Honest
  <2>3. PICK next \in Answered(t, answer) : job' = [job EXCEPT ![t] = next]
    BY <1>1 DEF Receive
  <2>4. Honest(next, crossed[searches])
    BY <1>0, <1>1, <2>2, AnswerIsHonest
  <2>5. job'[t] = next
    BY <1>0, <2>3
  <2>6. Reported(t)'
    BY <2>1 DEF Reported, Goes, At
  <2> QED BY <2>1, <2>4, <2>5, <2>6 DEF Goes, At
<1>2. ASSUME NEW pc \in {"hold", "wait"}, Goto(t, pc), job[t].pc \in {"report", "hold"}
      PROVE  /\ Honest(job'[t], crossed[searches]) /\ \A u \in Jobs \ {t} : job'[u] = job[u]
             /\ job'[t].wants = job[t].wants /\ InHand(job'[t]) = InHand(job[t]) /\ ~At(t, "idle")'
  <2>1. job'[t] = [job[t] EXCEPT !.pc = pc]
    BY <1>0, <1>2 DEF Goto
  <2>2. Honest(job'[t], crossed[searches])
    BY <1>0, <1>2, <2>1, PlaceIsHonest
  <2> QED BY <1>0, <1>2, <2>1, <2>2, GotoGoes DEF Goes, HasPc, InHand, At
<1>3. CASE Spawn(t)
  <2>1. job[t].pc = "report"
    BY <1>3 DEF Spawn, At
  <2>2. CASE Receive(t, "error") /\ UNCHANGED proc
    BY <1>0, <1>1, <2>1, <2>2, OneMoves
  <2>3. CASE proc' = [proc EXCEPT ![t] = [state |-> "running"]] /\ Goto(t, "hold")
    <3>1. proc'[t].state = "running" /\ \A u \in Jobs \ {t} : proc'[u] = proc[u]
      BY <1>0, <2>3
    <3>2. Reported(t)'
      BY <3>1 DEF Reported
    <3> QED BY <1>0, <1>2, <2>1, <2>3, <3>1, <3>2, OneMoves
  <2> QED BY <1>3, <2>2, <2>3 DEF Spawn
<1>4. CASE Hold(t)
  <2>1. job[t].pc = "hold" /\ UNCHANGED proc
    BY <1>4 DEF Hold, At
  <2>2. CASE Receive(t, "error")
    BY <1>0, <1>1, <2>1, <2>2, OneMoves
  <2>3. CASE Goto(t, "wait")
    <3>1. Reported(t)'
      BY <1>0, <1>2, <2>1, <2>3 DEF Reported, At
    <3> QED BY <1>0, <1>2, <2>1, <2>3, <3>1, OneMoves
  <2> QED BY <1>4, <2>2, <2>3 DEF Hold
<1>5. CASE NoticeMove(t)
  BY <1>5 DEF NoticeMove, Honesty, Reported, At, boundVars
<1>6. CASE GiveUp(t)
  <2>1. job[t].pc = "wait" /\ Receive(t, "error") /\ \A u \in Jobs : proc'[u] \in {proc[u], NoProc}
    BY <1>6 DEF GiveUp, At, Kill
  <2> QED BY <1>0, <1>1, <2>1, OneMoves
<1>7. CASE Poll(t)
  <2>1. job[t].pc = "wait" /\ \A u \in Jobs : proc'[u] \in {proc[u], NoProc}
    BY <1>0, <1>7 DEF Poll, At
  <2>2. CASE Receive(t, "error")
    BY <1>0, <1>1, <2>1, <2>2, OneMoves
  <2>3. CASE proc[t].state = "exited" /\ Receive(t, proc[t].answer)
    <3>1. job[t].wants = "confirm" /\ proc[t].answer = "ok" => InHand(job[t]) \in crossed[searches]
      BY <1>0, <2>1, <2>3 DEF Reported, At
    <3> QED BY <1>0, <1>1, <2>1, <2>3, <3>1, OneMoves
  <2> QED BY <1>7, <2>2, <2>3 DEF Poll
<1> QED BY <1>3, <1>4, <1>5, <1>6, <1>7 DEF ReportSteps

\* Nobody else touches what a job has listed, but for the traffic that crosses.
LEMMA HonestyStep == Places /\ Single /\ Honesty /\ Numbered /\ [Next]_vars => Honesty'
<1> SUFFICES ASSUME Places, Single, Honesty, Numbered, [Next]_vars PROVE Honesty'
  OBVIOUS
<1>0. /\ job = [u \in Jobs |-> job[u]] /\ proc = [u \in Jobs |-> proc[u]]
      /\ crossed = [n \in 1 .. MaxSearches |-> crossed[n]]
  BY DEF Places, Single, Numbered
<1>1. ASSUME NEW t \in Jobs, Step(t) PROVE Honesty'
  <2>1. CASE ReportSteps(t)
    BY <2>1, QuestionIsHonest
  <2>2. CASE Finish(t)
    <3>1. /\ job'[t] = Idle /\ (\A u \in Jobs \ {t} : job'[u] = job[u]) /\ UNCHANGED <<crossed, searches>>
          /\ \A u \in Jobs : proc'[u] \in {proc[u], NoProc}
      BY <1>0, <2>2 DEF Finish, Kill, boundVars
    <3>2. HasPc(Idle) /\ Idle.pc = "idle" /\ DOMAIN Idle = {"pc"}
      BY DEF Idle, HasPc
    <3>3. Honest(job'[t], crossed[searches])
      BY <3>1, <3>2, BareIsHonest
    <3>4. Reported(t)'
      BY <3>1, <3>2 DEF Reported, At
    <3> QED BY <3>1, <3>3, <3>4, OneMoves
  <2>3. CASE ShowSearch(t) \/ Prepare(t) \/ Test(t) \/ Pass(t) \/ Check(t) \/ Record(t) \/ Rank(t)
    <3>1. PICK pc : Goes(t, pc) /\ pc # "idle"
      BY <2>3, WorkGoes
    <3>2. UNCHANGED <<proc, crossed, searches>>
      BY <2>3 DEF ShowSearch, Prepare, Test, Pass, Check, Record, Rank, boundVars
    <3>3. Honest(job'[t], crossed[searches]) /\ job'[t].pc \notin {"hold", "wait"}
      BY <2>3, WorkIsHonest DEF Honesty
    <3>4. Reported(t)'
      BY <3>3 DEF Reported, At
    <3> QED BY <3>1, <3>2, <3>3, <3>4, OneMoves DEF Goes, At
  <2> QED BY <1>1, <2>1, <2>2, <2>3 DEF Step
<1>2. ASSUME NEW t \in Jobs, NEW cmd, Begin(t, cmd) PROVE Honesty'
  <2> DEFINE r == [pc |-> "show", cmd |-> cmd, net |-> network]
  <2>1. job'[t] = r /\ (\A u \in Jobs \ {t} : job'[u] = job[u]) /\ UNCHANGED proc
    BY <1>0, <1>2 DEF Begin
  <2>2. HasPc(r) /\ r.pc = "show" /\ DOMAIN r = {"pc", "cmd", "net"}
    BY DEF HasPc
  <2> HIDE DEF r
  <2>3. Honest(job'[t], crossed'[searches']) /\ Reported(t)' /\ ~At(t, "idle")'
    BY <2>1, <2>2, BareIsHonest DEF Reported, At
  <2>4. ASSUME NEW u \in Jobs \ {t}
        PROVE  Honest(job'[u], crossed'[searches']) /\ Reported(u)' /\ job'[u] = Idle
    <3>1. ~Busy(u)
      BY <1>2 DEF Begin, Single
    <3>2. job'[u] = Idle /\ HasPc(Idle) /\ Idle.pc = "idle" /\ DOMAIN Idle = {"pc"}
      BY <2>1, <3>1 DEF Honesty, Busy, Idle, HasPc
    <3> QED BY <3>2, BareIsHonest DEF Reported, At
  <2> QED BY <2>3, <2>4 DEF Honesty
<1>3. ASSUME NEW t \in Jobs, Exits(t) PROVE Honesty'
  <2>1. PICK answer : /\ proc' = [proc EXCEPT ![t] = [state |-> "exited", answer |-> answer]]
                      /\ crossed' = IF answer = "ok" /\ job[t].wants = "confirm"
                                    THEN [crossed EXCEPT ![searches] = @ \union {Gateway(t)}] ELSE crossed
    BY <1>3 DEF Exits
  <2>2. /\ job' = job /\ searches' = searches /\ searches \in 1 .. MaxSearches
        /\ crossed[searches] \subseteq crossed'[searches]
        /\ answer = "ok" /\ job[t].wants = "confirm" => Gateway(t) \in crossed'[searches]
    <3>1. Running(t) /\ job' = job /\ searches' = searches
      BY <1>3 DEF Exits, boundVars
    <3>2. \E u \in Jobs : Busy(u)
      BY <3>1, JobsAreJobs DEF Single, NothingIsLeft, Busy, At
    <3>3. searches \in 1 .. MaxSearches
      BY <3>2, SearchesAreBounded DEF Numbered
    <3> QED BY <1>0, <2>1, <3>1, <3>3
  <2>3. \A u \in Jobs : Honest(job'[u], crossed'[searches'])
    BY <2>2, MoreIsHonest DEF Honesty
  <2>4. \A u \in Jobs \ {t} : Reported(u)'
    BY <1>0, <2>1, <2>2 DEF Honesty, Reported, At
  <2>5. Reported(t)'
    BY <1>0, <2>1, <2>2 DEF Reported, At, Gateway, InHand
  <2> QED BY <2>2, <2>3, <2>4, <2>5 DEF Honesty, At
<1>4. CASE Cancel
  <2>1. UNCHANGED <<job, crossed, searches>> /\ \A u \in Jobs : proc'[u] \in {proc[u], NoProc}
    BY <1>4 DEF Cancel, Kill, boundVars
  <2>2. \A u \in Jobs : proc'[u].state = "exited" => proc'[u] = proc[u]
    BY <2>1 DEF NoProc
  <2> QED BY <2>1, <2>2 DEF Honesty, Reported, At
<1>5. CASE Move \/ Connect \/ ComesUp \/ Disconnect \/ Pump \/ UNCHANGED vars
  <2>1. UNCHANGED <<job, crossed, searches, proc>>
    BY <1>5 DEF Move, Connect, ComesUp, Disconnect, Pump, Wake, Send, vars, boundVars
  <2> QED BY <2>1 DEF Honesty, Reported, At
<1> QED BY <1>1, <1>2, <1>3, <1>4, <1>5 DEF Next

\* What is remembered is what was offered, and that was listed.
LEMMA RankRemembers ==
  ASSUME Honesty, Numbered, NEW t \in Jobs, Rank(t)
  PROVE  Numbered'
<1>1. UNCHANGED <<crossed, searches>> /\ searches \in 0 .. MaxSearches /\ searches > 0
  BY DEF Rank, boundVars, Numbered, Busy, At
<1>2. CASE UNCHANGED memory
  BY <1>1, <1>2 DEF Numbered
<1>3. CASE memory' # memory
  <2>1. PICK offer \in Rankings(job[t].found) :
          memory' = Remember(job[t].net, [i \in DOMAIN offer |->
                      [peer |-> offer[i].peer, recipe |-> offer[i].recipe]])
    BY <1>3 DEF Rank
  <2> DEFINE found == [i \in DOMAIN offer |-> [peer |-> offer[i].peer, recipe |-> offer[i].recipe]]
             new == [net |-> job[t].net, at |-> searches, found |-> found]
  <2>2. memory' \subseteq memory \union {new}
    BY <2>1 DEF Remember
  <2>3. Listed(job[t].found, crossed[searches])
    BY DEF Rank, At, Honesty, Honest
  <2>4. \A k \in DOMAIN offer : offer[k] \in job[t].found
    BY DEF Rankings
  <2>5. \A k \in DOMAIN found : found[k] \in crossed[searches]
    BY <2>3, <2>4 DEF Listed
  <2> HIDE DEF found
  <2>6. new.at = searches /\ new.found = found
    OBVIOUS
  <2> HIDE DEF new
  <2> QED BY <1>1, <2>2, <2>5, <2>6 DEF Numbered
<1> QED BY <1>2, <1>3

\* Searches are counted, traffic is only added to, and but for Rank nobody writes memory.
LEMMA NumberedStep == Places /\ Single /\ Honesty /\ Numbered /\ [Next]_vars => Numbered'
<1> SUFFICES ASSUME Places, Single, Honesty, Numbered, [Next]_vars PROVE Numbered'
  OBVIOUS
<1>1. ASSUME UNCHANGED <<crossed, searches, memory>>, \A u \in Jobs : Busy(u)' => \E w \in Jobs : Busy(w)
      PROVE  Numbered'
  BY <1>1 DEF Numbered
<1>2. ASSUME NEW t \in Jobs, Step(t), ~Rank(t) PROVE Numbered'
  <2>1. UNCHANGED <<crossed, searches, memory>> /\ Busy(t)
    BY <1>2 DEF Step, ShowSearch, Prepare, Test, Pass, Check, Record, Finish, ReportSteps,
         Spawn, Hold, NoticeMove, GiveUp, Poll, boundVars, Busy, At
  <2> QED BY <1>1, <2>1
<1>3. ASSUME NEW t \in Jobs, NEW cmd, Begin(t, cmd) PROVE Numbered'
  <2>1. /\ UNCHANGED <<crossed, memory>> /\ searches' = searches + 1 /\ searches < MaxSearches
    BY <1>3 DEF Begin
  <2>2. searches' \in 0 .. MaxSearches /\ searches' > 0
    BY <2>1, SearchesAreBounded DEF Numbered
  <2> QED BY <2>1, <2>2 DEF Numbered
<1>4. ASSUME NEW t \in Jobs, Exits(t) PROVE Numbered'
  <2>1. UNCHANGED <<searches, memory, job>> /\ crossed' = [n \in 1 .. MaxSearches |-> crossed'[n]]
    BY <1>4 DEF Exits, Numbered, boundVars
  <2>2. \A n \in 1 .. MaxSearches : crossed[n] \subseteq crossed'[n]
    BY <1>4 DEF Exits, Numbered
  <2>3. \A u \in Jobs : Busy(u)' => Busy(u)
    BY <2>1 DEF Busy, At
  <2>4. searches' \in 0 .. MaxSearches /\ ((\E u \in Jobs : Busy(u)') => searches' > 0)
    BY <2>1, <2>3 DEF Numbered
  <2>5. ASSUME NEW e \in memory'
        PROVE  /\ e.at \in 0 .. MaxSearches
               /\ e.at > 0 => \A k \in DOMAIN e.found : e.found[k] \in crossed'[e.at]
    <3>1. /\ e.at \in 0 .. MaxSearches
          /\ e.at > 0 => \A k \in DOMAIN e.found : e.found[k] \in crossed[e.at]
      BY <2>1 DEF Numbered
    <3>2. e.at > 0 => e.at \in 1 .. MaxSearches
      BY <3>1, SearchesAreBounded
    <3> QED BY <2>2, <3>1, <3>2
  <2> QED BY <2>1, <2>4, <2>5 DEF Numbered
<1>5. CASE Cancel \/ Move \/ Connect \/ ComesUp \/ Disconnect \/ Pump \/ UNCHANGED vars
  <2>1. UNCHANGED <<crossed, searches, memory, job>>
    BY <1>5 DEF Cancel, Kill, Move, Connect, ComesUp, Disconnect, Pump, Wake, Send, vars, boundVars
  <2> QED BY <1>1, <2>1 DEF Busy, At
<1> QED BY <1>2, <1>3, <1>4, <1>5, RankRemembers DEF Next

\* What a search offers, traffic has crossed during that search, what was confirmed most
\* comes first and is not left out, and what is remembered of a network crossed during the
\* search that remembered it, however that one ended (discover_with, rank, scan_blocking).
THEOREM OffersAreConfirmed == Spec => []FoundIsConfirmed
<1>1. Init => Places /\ Single
  BY DEF Init, NoSearch, Idle, NoProc, NoJob, Places, HasPc, Single, NothingIsLeft, Running, Busy, At
<1>2. Init => Honesty
  <2> SUFFICES ASSUME Init PROVE Honesty
    OBVIOUS
  <2>1. HasPc(Idle) /\ Idle.pc = "idle" /\ DOMAIN Idle = {"pc"}
    BY DEF Idle, HasPc
  <2>2. \A t \in Jobs : job[t] = Idle
    BY DEF Init
  <2>3. \A t \in Jobs : Honest(job[t], crossed[searches])
    BY <2>1, <2>2, BareIsHonest
  <2> QED BY <2>1, <2>2, <2>3 DEF Init, Honesty, Reported, At
<1>3. Init => Numbered
  <2> SUFFICES ASSUME Init PROVE Numbered
    OBVIOUS
  <2>1. \A e \in memory : e.at = 0
    BY DEF Init, Memories
  <2>2. \A t \in Jobs : ~Busy(t)
    BY DEF Init, Busy, At, Idle
  <2> QED BY <2>1, <2>2, SearchesAreBounded DEF Init, Numbered
<1> QED BY <1>1, <1>2, <1>3, SingleStep, HonestyStep, NumberedStep, HonestyConfirms, PTL DEF Spec

=============================================================================

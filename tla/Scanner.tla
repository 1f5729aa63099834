------------------------------ MODULE Scanner -------------------------------
(***************************************************************************)
(* scanner.rs, the search and the scan process of core_supervisor.rs, and  *)
(* the pump that shows the window what the snapshot says.                  *)
(*                                                                         *)
(* A search tries passes one after another: what was remembered, then the  *)
(* recipes.  Each gateway a pass offers is confirmed twice with traffic.   *)
(* Every question is put to a process of the engine that reports and ends. *)
(* A session is what it makes of the snapshot; a network is its name, and  *)
(* the round trips that break ties between candidates are left out.        *)
(***************************************************************************)
EXTENDS Integers, Sequences, FiniteSets

CONSTANTS
  Jobs,       \* threads of the scan commands
  Recipes,    \* sequence of the recipes a search goes through
  Peers,      \* gateways
  Networks,   \* "" is one that cannot be told
  Limit,      \* how many candidates were asked for
  MaxPlaces,  \* networks endpoint-memory.json holds (32 in the code)
  MaxMoves,   \* bound: changes of network
  MaxSearches,\* bound: searches
  Courteous   \* nobody connects while a search is on

VARIABLES
  search,    \* search_stop: whether a search is on, and its flag
  slot,      \* scan_child: whose process is held
  proc,      \* the process each job started
  job, memory, network,
  session, snapshot, dirty, window, pump,
  crossed,   \* what traffic has crossed, of each search
  moves,
  searches   \* how many there were: one at a time, so also the time of what one remembers

screenVars == <<session, snapshot, dirty, window, pump>>
boundVars == <<moves, searches>>
vars == <<search, slot, proc, job, memory, network, screenVars, crossed, boundVars>>

NoSearch == [on |-> FALSE]
NoJob == 0
ASSUME JobsAreJobs == NoJob \notin Jobs
ASSUME LimitIsNumber == Limit \in Nat
ASSUME SearchesAreBounded == MaxSearches \in Nat

NoProc == [state |-> "none"]
Idle == [pc |-> "idle"]
Unknown == ""

\* What an earlier run of the program may have left in endpoint-memory.json.
Memories ==
  {{}} \union {{[net |-> net, at |-> 0, found |-> <<[peer |-> p, recipe |-> Recipes[1]]>>]} :
                 net \in Networks \ {Unknown}, p \in Peers}

Init ==
  /\ search = NoSearch /\ slot = NoJob /\ proc = [t \in Jobs |-> NoProc]
  /\ job = [t \in Jobs |-> Idle] /\ memory \in Memories /\ network \in Networks
  /\ session = "none" /\ snapshot = "idle" /\ dirty = FALSE /\ window = "idle" /\ pump = "asleep"
  /\ crossed = [n \in 1 .. MaxSearches |-> {}] /\ moves = 0 /\ searches = 0

At(t, pc) == job[t].pc = pc
Goto(t, pc) == job' = [job EXCEPT ![t].pc = pc]
Running(t) == proc[t].state = "running"
Stopped == search.on /\ search.stop
Flagged == IF search.on THEN [search EXCEPT !.stop = TRUE] ELSE search

\* The snapshot is changed and marked under its lock.
Show(state) == snapshot' = state /\ dirty' = TRUE /\ UNCHANGED <<session, window, pump>>
show_search(state) == IF snapshot = "connected" THEN UNCHANGED screenVars ELSE Show(state)

\* Mutant: the process is let go of, not ended.
KillDropping == slot' = NoJob /\ UNCHANGED proc

\* stop_scan_process: whatever is in the slot.
Kill == /\ slot' = NoJob
        /\ proc' = [t \in Jobs |-> IF t = slot THEN NoProc ELSE proc[t]]

(***************************************************************************)
(* begin_search and finish_search.                                         *)
(***************************************************************************)
Begin(t, cmd) ==
  /\ At(t, "idle") /\ (\A u \in Jobs : At(u, "idle") => t <= u)
  /\ searches < MaxSearches /\ searches' = searches + 1
  /\ ~search.on /\ snapshot \in {"idle", "error"}
  /\ search' = [on |-> TRUE, stop |-> FALSE]
  /\ job' = [job EXCEPT ![t] = [pc |-> "show", cmd |-> cmd, net |-> network]]
  /\ UNCHANGED <<slot, proc, memory, network, screenVars, crossed, moves>>

ShowSearch(t) ==
  /\ At(t, "show") /\ show_search("scanning")
  /\ Goto(t, IF job[t].cmd = "scan" THEN "prepare" ELSE "test")
  /\ UNCHANGED <<search, slot, proc, memory, network, crossed, boundVars>>

\* The search is over when its flag is taken back; a newer one would keep its own.
Finish(t) ==
  /\ At(t, "finish") /\ Kill
  /\ search' = NoSearch /\ show_search("idle")
  /\ job' = [job EXCEPT ![t] = Idle]
  /\ UNCHANGED <<memory, network, crossed, boundVars>>

(***************************************************************************)
(* run_report: a question for a process of the engine, and what to do with *)
(* the answer, which is ok, an error, or one that says the registration is *)
(* held.                                                                   *)
(***************************************************************************)
\* How each question goes on: what is offered is looked at two by two, and a confirmation
\* counts.
Offers == {<<p>> : p \in Peers} \union {pair \in Peers \X Peers : pair[1] # pair[2]}
Over(t) == [pc |-> "finish", cmd |-> job[t].cmd, net |-> job[t].net]
Asked(t) == [job[t] EXCEPT !.wants = "", !.at = Unknown]
Went(t, pc) == {IF pc = "finish" THEN Over(t) ELSE [Asked(t) EXCEPT !.pc = pc]}
Answered(t, answer) ==
  IF answer = "held" \/ job[t].wants = "test" THEN Went(t, "finish")
  ELSE CASE job[t].wants = "provision" -> Went(t, IF answer = "ok" THEN "pass" ELSE "finish")
    [] job[t].wants = "scan" /\ answer = "ok" ->
         {[Asked(t) EXCEPT !.pc = "check", !.hits = hits] : hits \in Offers}
    [] job[t].wants = "scan" /\ answer # "ok" -> Went(t, "pass")
    [] OTHER -> {[Asked(t) EXCEPT !.pc = "check", !.checks = @ + 1, !.good = @ + IF answer = "ok" THEN 1 ELSE 0]}
Receive(t, answer) == \E next \in Answered(t, answer) : job' = [job EXCEPT ![t] = next]

Spawn(t) ==
  /\ At(t, "report")
  /\ IF Stopped THEN Receive(t, "error") /\ UNCHANGED proc
     ELSE proc' = [proc EXCEPT ![t] = [state |-> "running"]] /\ Goto(t, "hold")
  /\ UNCHANGED <<search, slot, memory, network, screenVars, crossed, boundVars>>

\* A process that cannot be held is let go, and runs on.
Hold(t) ==
  /\ At(t, "hold")
  /\ IF slot = NoJob THEN slot' = t /\ Goto(t, "wait")
     ELSE UNCHANGED slot /\ Receive(t, "error")
  /\ UNCHANGED <<search, proc, memory, network, screenVars, crossed, boundVars>>

Gateway(t) == [peer |-> Head(job[t].hits), recipe |-> job[t].recipe]

\* The process ends with a report.  What it confirms, traffic has crossed.
Exits(t) ==
  /\ Running(t)
  /\ \E answer \in {"ok", "error", "held"} :
       /\ proc' = [proc EXCEPT ![t] = [state |-> "exited", answer |-> answer]]
       /\ crossed' = IF answer = "ok" /\ job[t].wants = "confirm"
                     THEN [crossed EXCEPT ![searches] = @ \union {Gateway(t)}] ELSE crossed
  /\ UNCHANGED <<search, slot, job, memory, network, screenVars, boundVars>>

\* Once a second the network is looked at, and a change flags the search.
NoticeMove(t) ==
  /\ At(t, "wait") /\ job[t].at # Unknown /\ network # job[t].at /\ ~Stopped
  /\ search' = Flagged
  /\ UNCHANGED <<slot, proc, job, memory, network, screenVars, crossed, boundVars>>

\* Mutant: only the flag ends the wait.
GiveUpFlagged(t) ==
  /\ At(t, "wait") /\ Stopped /\ Kill /\ Receive(t, "error")
  /\ UNCHANGED <<search, memory, network, screenVars, crossed, boundVars>>

\* The flag, or the budget and two seconds more.
GiveUp(t) ==
  /\ At(t, "wait") /\ Kill /\ Receive(t, "error")
  /\ UNCHANGED <<search, memory, network, screenVars, crossed, boundVars>>

\* poll_scan: somebody took it, or it has ended.
Poll(t) ==
  /\ At(t, "wait")
  /\ \/ slot = NoJob /\ Receive(t, "error") /\ UNCHANGED <<slot, proc>>
     \/ /\ slot = t /\ proc[t].state = "exited"
        /\ slot' = NoJob /\ proc' = [proc EXCEPT ![t] = NoProc]
        /\ Receive(t, proc[t].answer)
  /\ UNCHANGED <<search, memory, network, screenVars, crossed, boundVars>>

ReportSteps(t) == Spawn(t) \/ Hold(t) \/ NoticeMove(t) \/ GiveUp(t) \/ Poll(t)

(***************************************************************************)
(* scan_blocking and discover_with.                                        *)
(***************************************************************************)
can_continue(t) == ~Stopped /\ network = job[t].net

Remembered(net) == IF \E e \in memory : e.net = net
                   THEN (CHOOSE e \in memory : e.net = net).found ELSE << >>
HintPasses(net) ==
  [i \in {k \in DOMAIN Remembered(net) : k <= 3} |->
     [recipe |-> Remembered(net)[i].recipe, hint |-> Remembered(net)[i].peer]]
Passes(net) == HintPasses(net) \o [i \in DOMAIN Recipes |-> [recipe |-> Recipes[i], hint |-> ""]]

\* What is remembered of this network is read first; then the identity is provided, once.
Prepare(t) ==
  /\ At(t, "prepare")
  /\ job' = [job EXCEPT ![t] = [pc |-> "report", cmd |-> "scan", net |-> @.net, wants |-> "provision",
       at |-> network, found |-> {}, offer |-> << >>, hits |-> << >>, checks |-> 0, good |-> 0,
       recipe |-> "", passes |-> Passes(@.net)]]
  /\ UNCHANGED <<search, slot, proc, memory, network, screenVars, crossed, boundVars>>

Test(t) ==
  /\ At(t, "test")
  /\ job' = [job EXCEPT ![t] = [pc |-> "report", cmd |-> "test", net |-> @.net, wants |-> "test", at |-> network]]
  /\ UNCHANGED <<search, slot, proc, memory, network, screenVars, crossed, boundVars>>

Enough(t) == Cardinality({c \in job[t].found : c.good = 2}) >= IF Limit > 3 THEN 3 ELSE Limit

\* Nobody is asked when there is nothing left to try.  The budget may be gone at every
\* look at the clock.
Pass(t) ==
  /\ At(t, "pass")
  /\ IF job[t].passes = << >> THEN Goto(t, "rank")
     ELSE IF ~can_continue(t) THEN job' = [job EXCEPT ![t] = Over(t)]
     ELSE \/ Goto(t, "rank")
          \/ /\ ~Enough(t)
             /\ LET pass == Head(job[t].passes)
                    taken == [job[t] EXCEPT !.passes = Tail(@), !.recipe = pass.recipe]
                IN job' = [job EXCEPT ![t] =
                     IF pass.hint = ""
                     THEN [taken EXCEPT !.pc = "report", !.wants = "scan", !.at = network]
                     ELSE [taken EXCEPT !.pc = "check", !.hits = <<pass.hint>>]]
  /\ UNCHANGED <<search, slot, proc, memory, network, screenVars, crossed, boundVars>>

\* The gateway is tried twice, unless the budget is gone.
Check(t) ==
  /\ At(t, "check") /\ job[t].checks < 2
  /\ IF can_continue(t)
     THEN job' = [job EXCEPT ![t].pc = "report", ![t].wants = "confirm", ![t].at = network]
     ELSE job' = [job EXCEPT ![t] = Over(t)]
  /\ UNCHANGED <<search, slot, proc, memory, network, screenVars, crossed, boundVars>>

Candidate(t) == [peer |-> Head(job[t].hits), recipe |-> job[t].recipe, good |-> job[t].good,
                 tried |-> job[t].checks]
\* Mutant: a gateway that was offered is a candidate.
KeptOffered(t) == job[t].found \union {Candidate(t)}

\* A gateway that was confirmed replaces what the same recipe found of it.
Kept(t) ==
  LET c == Candidate(t) IN
  IF c.good = 0 THEN job[t].found
  ELSE {f \in job[t].found : f.peer # c.peer \/ f.recipe # c.recipe} \union {c}

Record(t) ==
  /\ At(t, "check") /\ (job[t].checks < 2 => can_continue(t))
  /\ job' = [job EXCEPT ![t].found = Kept(t), ![t].hits = Tail(@), ![t].checks = 0, ![t].good = 0,
                        ![t].pc = IF Len(job[t].hits) > 1 THEN "check" ELSE "pass"]
  /\ UNCHANGED <<search, slot, proc, memory, network, screenVars, crossed, boundVars>>

\* rank: more confirmations first, then fewer failures; the round trips decide between
\* equals, and what is beyond the limit is dropped.
Better(c, d) == c.good > d.good \/ (c.good = d.good /\ c.tried - c.good < d.tried - d.good)
Rankings(found) ==
  LET places == 1 .. IF Cardinality(found) < Limit THEN Cardinality(found) ELSE Limit
  IN  {offer \in [places -> found] :
         /\ \A i, k \in places : i < k => offer[i] # offer[k] /\ ~Better(offer[k], offer[i])
         /\ \A c \in found, i \in places :
              (\A k \in places : offer[k] # c) => ~Better(c, offer[i])}

\* The oldest network is forgotten.
Remember(net, found) ==
  LET places == {e \in memory : e.net # net} \union {[net |-> net, at |-> searches, found |-> found]}
  IN {e \in places : Cardinality({f \in places : f.at > e.at}) < MaxPlaces}

\* The file may not be written.
Rank(t) ==
  /\ At(t, "rank")
  /\ \E offer \in Rankings(job[t].found) :
       /\ job' = [job EXCEPT ![t].pc = "finish", ![t].offer = offer]
       /\ \/ /\ job[t].net # Unknown
             /\ memory' = Remember(job[t].net, [i \in DOMAIN offer |->
                            [peer |-> offer[i].peer, recipe |-> offer[i].recipe]])
          \/ UNCHANGED memory
  /\ UNCHANGED <<search, slot, proc, network, screenVars, crossed, boundVars>>

Step(t) ==
  \/ ShowSearch(t) \/ Prepare(t) \/ Test(t) \/ ReportSteps(t) \/ Pass(t) \/ Check(t) \/ Record(t)
  \/ Rank(t) \/ Finish(t)

(***************************************************************************)
(* Everyone else.                                                          *)
(***************************************************************************)
\* cancel_scan flags the search and kills its process.
Cancel ==
  /\ search.on /\ search' = Flagged /\ Kill
  /\ UNCHANGED <<job, memory, network, screenVars, crossed, boundVars>>

Move ==
  /\ moves < MaxMoves /\ moves' = moves + 1
  /\ network' \in Networks \ {network}
  /\ UNCHANGED <<search, slot, proc, job, memory, screenVars, crossed, searches>>

Session(from, to) == session = from /\ session' = to
Connect ==
  /\ Courteous => ~search.on
  /\ Session("none", "starting") /\ snapshot' = "starting"
  /\ dirty' = TRUE /\ UNCHANGED <<search, slot, proc, job, memory, network, window, pump, crossed, boundVars>>
ComesUp ==
  /\ Session("starting", "connected") /\ snapshot' = "connected"
  /\ dirty' = TRUE /\ UNCHANGED <<search, slot, proc, job, memory, network, window, pump, crossed, boundVars>>

\* A disconnect flags a search as well; a session may also end with an error.
Disconnect ==
  /\ \E from \in {"starting", "connected"} : Session(from, "none")
  /\ snapshot' \in {"idle", "error"} /\ search' = IF snapshot' = "idle" THEN Flagged ELSE search
  /\ dirty' = TRUE /\ UNCHANGED <<slot, proc, job, memory, network, window, pump, crossed, boundVars>>

(***************************************************************************)
(* start_pump.                                                             *)
(***************************************************************************)
\* Mutant: the snapshot is read before the mark is taken off.
WakeLate ==
  /\ pump = "asleep" /\ dirty /\ pump' = "awake" /\ window' = snapshot
  /\ UNCHANGED <<search, slot, proc, job, memory, network, session, snapshot, dirty, crossed, boundVars>>
SendLate ==
  /\ pump = "awake" /\ pump' = "asleep" /\ dirty' = FALSE
  /\ UNCHANGED <<search, slot, proc, job, memory, network, session, snapshot, window, crossed, boundVars>>
PumpLate == WakeLate \/ SendLate

\* The mark is taken off, and then the snapshot is read and sent.
Wake ==
  /\ pump = "asleep" /\ dirty /\ pump' = "awake" /\ dirty' = FALSE
  /\ UNCHANGED <<search, slot, proc, job, memory, network, session, snapshot, window, crossed, boundVars>>
Send ==
  /\ pump = "awake" /\ pump' = "asleep" /\ window' = snapshot
  /\ UNCHANGED <<search, slot, proc, job, memory, network, session, snapshot, dirty, crossed, boundVars>>
Pump == Wake \/ Send

(***************************************************************************)
(* Specification.                                                          *)
(***************************************************************************)
Next ==
  \/ \E t \in Jobs : Step(t) \/ Exits(t) \/ \E cmd \in {"scan", "test"} : Begin(t, cmd)
  \/ Cancel \/ Move \/ Connect \/ ComesUp \/ Disconnect \/ Pump

Spec == Init /\ [][Next]_vars
FairSpec == Spec /\ \A t \in Jobs : WF_vars(Step(t))

(***************************************************************************)
(* Properties.                                                             *)
(***************************************************************************)
\* A process of the engine that runs for a search is in the slot, where a cancel finds
\* it, or in the hands of the thread that is about to put it there.
NothingIsLeft == \A t \in Jobs : Running(t) => slot = t \/ At(t, "hold")

\* What a search offers, traffic has crossed during that search: neither a gateway that
\* only answered nor a hint that no longer works; each once, and what was confirmed most
\* comes first and is not left out.  Whatever is remembered of a network, long after and
\* however the search that remembered it was cancelled or moved, crossed during that one.
Found(t) == IF "found" \in DOMAIN job[t] THEN job[t].found ELSE {}
Offer(t) == IF "offer" \in DOMAIN job[t] THEN job[t].offer ELSE << >>
FoundIsConfirmed ==
  /\ \A t \in Jobs :
       /\ \A c, d \in Found(t) :
            /\ [peer |-> c.peer, recipe |-> c.recipe] \in crossed[searches] /\ c.good \in 1 .. c.tried
            /\ c.peer = d.peer /\ c.recipe = d.recipe => c = d
       /\ \A k \in DOMAIN Offer(t) :
            /\ Offer(t)[k] \in Found(t)
            /\ \A i \in 1 .. k - 1 : Offer(t)[i] # Offer(t)[k] /\ Offer(t)[i].good >= Offer(t)[k].good
            /\ \A c \in Found(t) :
                 c.good > Offer(t)[k].good => \E i \in 1 .. k - 1 : Offer(t)[i] = c
  /\ \A e \in memory : e.at > 0 => \A k \in DOMAIN e.found : e.found[k] \in crossed[e.at]

\* When the pump has nothing left to do, the window shows what the snapshot says.
WindowIsCurrent == pump = "asleep" /\ ~dirty => window = snapshot

\* Every search ends, whatever the process of the engine does.
SearchEnds == search.on ~> ~search.on
=============================================================================

---------------------------- MODULE Deployments -----------------------------
(***************************************************************************)
(* worker_api.rs, and the store and the carrier of worker.rs: the Workers  *)
(* and Pages projects the user has deployed, as the rows kept on this      *)
(* machine, as they are on Cloudflare, and as the command in hand sees     *)
(* them.                                                                   *)
(*                                                                         *)
(* A command is a sequence of requests and saves.  A request may be lost   *)
(* on its way or on its way back, and a busy edge is asked again; a save   *)
(* may fail; and the application may end at any point of a command.  There *)
(* is one domain, which any deployment may be given.                       *)
(***************************************************************************)
EXTENDS Integers, FiniteSets

CONSTANTS
  Workers, Pages,  \* names of deployments of either kind
  Envs,            \* what the script is told: identity, relays and fallback
  MaxFaults,       \* bound: requests and saves that fail, and ends of the application
  Courteous        \* nobody connects, and no operator edits, while a command runs

Names == Workers \union Pages
NoEnv == "none"
Nobody == "nobody"
Other == "other"

ASSUME KindsAreApart == Workers \intersect Pages = {}
ASSUME NamesAreNames == Names \intersect {Nobody, Other} = {} /\ NoEnv \notin Envs
ASSUME FaultsAreCounted == MaxFaults \in Nat

VARIABLES
  rows,       \* deployments.json
  cloud,      \* Cloudflare: scripts, the domain as either service has it, and its DNS record
  job,        \* the command in hand
  using,      \* Worker::snapshot and what its engine was told
  forgotten,  \* deployments whose row the user removed without asking Cloudflare
  unfinished, \* what a command has begun on a deployment and no command has finished
  faults

vars == <<rows, cloud, job, using, forgotten, unfinished, faults>>

NoRow == [saved |-> FALSE]
NewRow(env) ==
  [saved |-> TRUE, env |-> env, created |-> FALSE, ready |-> FALSE, domain |-> FALSE,
   pending |-> FALSE, zone |-> FALSE, record |-> FALSE]
Idle == [pc |-> "idle"]
NotUsed == [state |-> "idle"]
NoScript == [made |-> FALSE, host |-> FALSE, config |-> NoEnv, runs |-> NoEnv]

Init ==
  /\ rows = [n \in Names |-> NoRow]
  /\ cloud = [script |-> [n \in Names |-> NoScript], registered |-> FALSE,
              service |-> Nobody, pages |-> Nobody, record |-> Nobody]
  /\ job = Idle /\ using = NotUsed /\ forgotten = {}
  /\ unfinished = [n \in Names |-> {}] /\ faults = 0

At(pc) == job.pc = pc
Quiet == At("idle")
Faulty == faults < MaxFaults /\ faults' = faults + 1
IsPages(n) == n \in Pages

(***************************************************************************)
(* What a command is made of.                                              *)
(***************************************************************************)
Goto(pc) == job' = [job EXCEPT !.pc = pc, !.tries = 1]
Fail == job' = Idle

\* request_https: no connection, an answer that is lost or unreadable, or a busy edge.
\* Whether the request was carried out is not known.
Unanswered(after) == Faulty /\ cloud' \in {cloud, after}
\* A busy edge is asked again, three times at most.
Again == (job.tries < 3 /\ job' = [job EXCEPT !.tries = @ + 1]) \/ Fail

\* WorkerApi::call.
Ask(after, pc) ==
  \/ cloud' = after /\ Goto(pc) /\ UNCHANGED faults
  \/ Unanswered(after) /\ Again

\* A question, whose answer decides how to go on; NoWay is an error.
NoWay == "error"
Look(pc) ==
  \/ UNCHANGED <<cloud, faults>> /\ IF pc = NoWay THEN Fail ELSE Goto(pc)
  \/ Unanswered(cloud) /\ Again

\* write_deployment: one row of the file is replaced, or the file stays as it was.
Save(row, pc) ==
  /\ UNCHANGED <<cloud, unfinished>>
  /\ \/ rows' = [rows EXCEPT ![job.n] = row] /\ UNCHANGED faults
        /\ job' = [job EXCEPT !.pc = pc, !.tries = 1, !.row = row]
     \/ Faulty /\ Fail /\ UNCHANGED rows

\* The save that a command ends with.
SaveLast(row, parts) ==
  /\ Fail /\ UNCHANGED cloud
  /\ \/ /\ rows' = [rows EXCEPT ![job.n] = row] /\ UNCHANGED faults
        /\ unfinished' = [unfinished EXCEPT ![job.n] = @ \ parts]
     \/ Faulty /\ UNCHANGED <<rows, unfinished>>

Begin(cmd, n, row, pc, parts) ==
  /\ Quiet
  /\ job' = [pc |-> pc, cmd |-> cmd, n |-> n, row |-> row, tries |-> 1]
  /\ unfinished' = [unfinished EXCEPT ![n] = @ \union parts]
  /\ UNCHANGED <<rows, cloud, using, forgotten, faults>>

in_use(n) == using.state \in {"connecting", "connected"} /\ using.n = n
stored(n) == rows[n].saved

Set(n, script) == [cloud EXCEPT !.script[n] = script]
Script == cloud.script[job.n]
Row == job.row

(***************************************************************************)
(* deploy: a Worker is uploaded and its hostname turned on; a Pages        *)
(* project is made or changed and a deployment of it uploaded.             *)
(***************************************************************************)
DeployAt(row, n) ==
  IF n \in Workers THEN "subdomain" ELSE IF row.created THEN "patch" ELSE "project"

Subdomain == At("subdomain") /\ UNCHANGED <<rows, unfinished>> /\
             Look(IF cloud.registered THEN "upload" ELSE "register")
Register == At("register") /\ UNCHANGED <<rows, unfinished>> /\
            Ask([cloud EXCEPT !.registered = TRUE], "upload")
Upload == At("upload") /\ UNCHANGED <<rows, unfinished>> /\
          Ask(Set(job.n, [Script EXCEPT !.made = TRUE, !.config = Row.env, !.runs = Row.env]), "made")

\* A project that an earlier attempt made, even though its answer was lost, is changed.
Project == At("project") /\ UNCHANGED <<rows, unfinished>> /\
           IF Script.made THEN Look("patch")
           ELSE Ask(Set(job.n, [Script EXCEPT !.made = TRUE, !.host = TRUE, !.config = Row.env]), "made")
Patch == At("patch") /\ UNCHANGED <<rows, unfinished>> /\
         IF Script.made THEN Ask(Set(job.n, [Script EXCEPT !.config = Row.env]), "made") ELSE Look(NoWay)

Made == At("made") /\
        Save([Row EXCEPT !.created = TRUE], IF job.n \in Workers THEN "enable" ELSE "push")
Enable == At("enable") /\ UNCHANGED <<rows, unfinished>> /\
          Ask(Set(job.n, [Script EXCEPT !.host = TRUE]), "ready")
Push == At("push") /\ UNCHANGED <<rows, unfinished>> /\
        Ask(Set(job.n, [Script EXCEPT !.runs = Script.config]), "ready")
Ready == At("ready") /\ SaveLast([Row EXCEPT !.ready = TRUE], {"script", "gone"})

DeploySteps ==
  \/ Subdomain \/ Register \/ Upload \/ Project \/ Patch \/ Made \/ Enable \/ Push \/ Ready

(***************************************************************************)
(* attach_domain.                                                          *)
(***************************************************************************)
\* Mutant: once the zone is known the record is taken to be there too.
PendingResuming == At("pending") /\
  Save([Row EXCEPT !.domain = TRUE, !.pending = TRUE],
       IF job.n \in Workers THEN "service" ELSE IF Row.zone THEN "domains" ELSE "zones")

\* Mutant: the domain counts as attached from the start.
PendingAtOnce == At("pending") /\
  Save([Row EXCEPT !.domain = TRUE], IF job.n \in Workers THEN "service" ELSE IF Row.zone THEN "records" ELSE "zones")

\* What is wanted is saved before anything is asked for.
Pending == At("pending") /\
  Save([Row EXCEPT !.domain = TRUE, !.pending = TRUE],
       IF job.n \in Workers THEN "service" ELSE IF Row.zone THEN "records" ELSE "zones")

Service == At("service") /\ UNCHANGED <<rows, unfinished>> /\
           Look(IF cloud.service \in {Nobody, job.n} THEN "claim" ELSE NoWay)
Claim == At("claim") /\ UNCHANGED <<rows, unfinished>> /\
         Ask([cloud EXCEPT !.service = job.n], "attached")

Zones == At("zones") /\ UNCHANGED <<rows, unfinished>> /\ Look("zone")
Zone == At("zone") /\ Save([Row EXCEPT !.zone = TRUE], "records")

Records == At("records") /\ UNCHANGED <<rows, unfinished>> /\
           Look(CASE cloud.record = Nobody -> "post" [] cloud.record = job.n -> "domains" [] OTHER -> NoWay)
Post == At("post") /\ UNCHANGED <<rows, unfinished>> /\
        IF cloud.record = Nobody THEN Ask([cloud EXCEPT !.record = job.n], "record") ELSE Look(NoWay)
Recorded == At("record") /\ Save([Row EXCEPT !.record = TRUE], "domains")
Joined == At("domains") /\ UNCHANGED <<rows, unfinished>> /\
          Look(IF cloud.pages = job.n THEN "attached" ELSE "join")
Join == At("join") /\ UNCHANGED <<rows, unfinished>> /\
        IF cloud.pages = Nobody THEN Ask([cloud EXCEPT !.pages = job.n], "attached") ELSE Look(NoWay)
Attached == At("attached") /\ SaveLast([Row EXCEPT !.pending = FALSE], {"taken"})

AttachSteps ==
  \/ Pending \/ Service \/ Claim \/ Zones \/ Zone \/ Records \/ Post \/ Recorded
  \/ Joined \/ Join \/ Attached

(***************************************************************************)
(* detach_domain and delete.  What is gone already is no error.            *)
(***************************************************************************)
DetachAt(n) == IF n \in Pages THEN "leave" ELSE "routes"
Without(who) == IF who = job.n THEN Nobody ELSE who

Leave == At("leave") /\ UNCHANGED <<rows, unfinished>> /\
         Ask([cloud EXCEPT !.pages = Without(@)], IF Row.zone /\ Row.record THEN "check" ELSE "detached")

\* A changed record belongs to the operator.
Check == At("check") /\ UNCHANGED <<rows, unfinished>> /\
         Look(IF cloud.record = job.n THEN "unrecord" ELSE "detached")
Unrecord == At("unrecord") /\ UNCHANGED <<rows, unfinished>> /\
            Ask([cloud EXCEPT !.record = Nobody], "detached")
Routes == At("routes") /\ UNCHANGED <<rows, unfinished>> /\
          Look(IF cloud.service = job.n THEN "unroute" ELSE "detached")
Unroute == At("unroute") /\ UNCHANGED <<rows, unfinished>> /\
           Ask([cloud EXCEPT !.service = Without(@)], "detached")

\* A deletion does not save what it detached.
Detached == At("detached") /\
  IF job.cmd = "detach"
  THEN SaveLast([Row EXCEPT !.domain = FALSE, !.pending = FALSE, !.zone = FALSE, !.record = FALSE], {"taken"})
  ELSE Goto("remove") /\ UNCHANGED <<rows, cloud, unfinished, faults>>

\* Mutant: what is gone already is an error.
RemoveOnce == At("remove") /\ UNCHANGED <<rows, unfinished>> /\
  IF Script.made THEN Ask(Set(job.n, NoScript), "forget") ELSE Look(NoWay)

Remove == At("remove") /\ UNCHANGED <<rows, unfinished>> /\
          Ask(Set(job.n, NoScript), IF job.cmd = "delete" THEN "forget" ELSE "done")
Forget == At("forget") /\ SaveLast(NoRow, {"script", "taken", "gone"})
Done == At("done") /\ Fail /\ UNCHANGED <<rows, cloud, unfinished, faults>>

DetachSteps == Leave \/ Check \/ Unrecord \/ Routes \/ Unroute \/ Detached \/ Remove \/ Forget \/ Done

Step == (DeploySteps \/ AttachSteps \/ DetachSteps) /\ UNCHANGED <<using, forgotten>>

(***************************************************************************)
(* The commands.                                                           *)
(***************************************************************************)
Fresh(n) == ~stored(n) /\ ~cloud.script[n].made /\ n \notin forgotten

\* Mutant: the row is kept once there is something to keep.
CreateUnsaved(n, env) ==
  /\ Fresh(n) /\ Begin("deploy", n, NewRow(env), DeployAt(NewRow(env), n), {"script"})

\* worker_create keeps the row before the first request.
Create(n, env) ==
  /\ Fresh(n) /\ Quiet
  /\ rows' = [rows EXCEPT ![n] = NewRow(env)]
  /\ job' = [pc |-> DeployAt(NewRow(env), n), cmd |-> "deploy", n |-> n, row |-> NewRow(env), tries |-> 1]
  /\ unfinished' = [unfinished EXCEPT ![n] = @ \union {"script"}]
  /\ UNCHANGED <<cloud, using, forgotten, faults>>

\* worker_update, and worker_save_options when what the script is told has changed.
Update(n, env) ==
  /\ stored(n) /\ ~in_use(n)
  /\ LET row == [rows[n] EXCEPT !.ready = FALSE, !.env = env] IN
     Begin("deploy", n, row, DeployAt(row, n), {"script"})

Attach(n) == stored(n) /\ ~in_use(n) /\ rows[n].ready /\ Begin("attach", n, rows[n], "pending", {})
Detach(n) == stored(n) /\ ~in_use(n) /\ rows[n].domain /\ Begin("detach", n, rows[n], DetachAt(n), {"taken"})
Delete(n) == stored(n) /\ ~in_use(n) /\
  IF rows[n].domain THEN Begin("delete", n, rows[n], DetachAt(n), {"taken", "gone"})
  ELSE Begin("delete", n, rows[n], "remove", {"gone"})

\* worker_account_delete: one that is saved here is deleted from its own card.
AccountDelete(n) == ~stored(n) /\ Begin("account", n, NoRow, "remove", {})

\* worker_forget does not ask Cloudflare.
ForgetHere(n) ==
  /\ stored(n) /\ ~in_use(n) /\ Quiet
  /\ rows' = [rows EXCEPT ![n] = NoRow] /\ forgotten' = forgotten \union {n}
  /\ UNCHANGED <<cloud, job, using, unfinished, faults>>

(***************************************************************************)
(* The carrier.                                                            *)
(***************************************************************************)
Runs(n) == cloud.script[n].runs # NoEnv /\ cloud.script[n].host
HasDomain(n) == IF n \in Pages THEN cloud.pages = n ELSE cloud.service = n

\* connection_host, and whether anything answers there.
ByDomain(row) == row.domain /\ ~row.pending
Answers(n, row) == Runs(n) /\ (ByDomain(row) => HasDomain(n))

\* Worker::start reads the row; without a selection the only ready one is it.
find_deployment(key, n) ==
  IF key # "" THEN key = n /\ stored(n)
  ELSE {m \in Names : stored(m) /\ rows[m].ready} = {n}
Connect(n) ==
  /\ Courteous => Quiet
  /\ \E key \in {"", n} : find_deployment(key, n)
  /\ rows[n].ready
  /\ using' = [state |-> "connecting", n |-> n, row |-> rows[n]]
  /\ UNCHANGED <<rows, cloud, job, forgotten, unfinished, faults>>

\* The engine is up when a handshake has crossed it; or it ends, or is stopped.
Connected ==
  /\ using.state = "connecting" /\ Answers(using.n, using.row)
  /\ using' = [using EXCEPT !.state = "connected"]
  /\ UNCHANGED <<rows, cloud, job, forgotten, unfinished, faults>>
Stop ==
  /\ using.state \in {"connecting", "connected"} /\ using' = NotUsed
  /\ UNCHANGED <<rows, cloud, job, forgotten, unfinished, faults>>

(***************************************************************************)
(* Everyone else.                                                          *)
(***************************************************************************)
\* The operator makes the record the domain's own, or gives the domain to another service.
Operator ==
  /\ Courteous => Quiet
  /\ \/ cloud' = [cloud EXCEPT !.record = Other]
     \/ cloud.service = Nobody /\ cloud' = [cloud EXCEPT !.service = Other]
  /\ UNCHANGED <<rows, job, using, forgotten, unfinished, faults>>

\* The application ends; what it was doing is not taken up again.
Crash ==
  /\ Faulty /\ ~Quiet
  /\ job' = Idle /\ using' = NotUsed
  /\ UNCHANGED <<rows, cloud, forgotten, unfinished>>

(***************************************************************************)
(* Specification.                                                          *)
(***************************************************************************)
Next ==
  \/ Step
  \/ \E n \in Names :
       \/ \E env \in Envs : Create(n, env) \/ Update(n, env)
       \/ Attach(n) \/ Detach(n) \/ Delete(n) \/ AccountDelete(n) \/ ForgetHere(n) \/ Connect(n)
  \/ Connected \/ Stop \/ Operator \/ Crash

Spec == Init /\ [][Next]_vars
FairSpec == Spec /\ WF_vars(Step)

(***************************************************************************)
(* Properties.                                                             *)
(***************************************************************************)
\* What this application has on Cloudflare is known here, so that a setup that failed can
\* be tried again or deleted: a script or project has its row, and a domain that leads to
\* one is in that row.  What the user removed from this computer only is the exception.
NothingIsOrphaned ==
  \A n \in Names \ forgotten :
    /\ cloud.script[n].made => stored(n)
    /\ HasDomain(n) => stored(n) /\ rows[n].domain

\* What a row offers to connect through is there: the script runs and has its hostname,
\* the domain leads to it unless its setup is incomplete, and it was told what the row
\* says.  A command that failed is the exception for the part it had begun.  And the
\* deployment the carrier connects through is not changed under it.
ReadyIsTrue ==
  \A n \in Names :
    /\ stored(n) /\ rows[n].ready =>
         /\ "gone" \notin unfinished[n] => Runs(n)
         /\ unfinished[n] \intersect {"script", "gone"} = {} => cloud.script[n].runs = rows[n].env
         /\ ByDomain(rows[n]) /\ "taken" \notin unfinished[n] => HasDomain(n)
    /\ in_use(n) => rows[n] = using.row

\* A Pages project's domain counts as attached only with its other half, the DNS record
\* (which the operator may have made his own), wherever an earlier attempt to attach it
\* ended.
DomainIsWhole ==
  \A n \in Pages : stored(n) /\ ByDomain(rows[n]) /\ "taken" \notin unfinished[n] =>
    cloud.record \in {n, Other}

\* A deletion that is asked for again and again succeeds, wherever the earlier ones ended.
DeleteSucceeds ==
  \A n \in Names : []<><<Delete(n)>>_vars => []<>(~stored(n))
=============================================================================

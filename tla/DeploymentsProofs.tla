-------------------------- MODULE DeploymentsProofs --------------------------
(***************************************************************************)
(* Proofs about Deployments, for any number of deployments of either kind, *)
(* of settings and of faults.  Begun says what the command in hand knows   *)
(* of its row, Known what is kept of what is on Cloudflare, Told what the  *)
(* rows may offer.                                                         *)
(***************************************************************************)
EXTENDS Deployments, TLAPS

Deploying == {"subdomain", "register", "upload", "project", "patch", "made", "enable", "push",
              "ready"}
Attaching == {"pending", "service", "claim", "zones", "zone", "records", "post", "record",
              "domains", "join", "attached"}
Leaving == {"leave", "check", "unrecord", "routes", "unroute", "detached"}
Gone == {"check", "unrecord", "detached", "remove", "forget"}
Labels == Deploying \union Attaching \union Leaving \union {"remove", "forget", "done"}

Rows == [saved : {TRUE}, env : Envs, created : BOOLEAN, ready : BOOLEAN, domain : BOOLEAN,
         pending : BOOLEAN, zone : BOOLEAN, record : BOOLEAN]
Scripts == [made : BOOLEAN, host : BOOLEAN, config : Envs \union {NoEnv},
            runs : Envs \union {NoEnv}]
Clouds == [script : [Names -> Scripts], registered : BOOLEAN, service : Names \union {Nobody, Other},
           pages : Names \union {Nobody}, record : Names \union {Nobody, Other}]
Jobs == [pc : Labels, cmd : {"deploy", "attach", "detach", "delete", "account"}, n : Names,
         row : Rows \union {NoRow}, tries : 1 .. 3]
Parts == {"script", "taken", "gone"}

\* The type invariant.
TypeOK ==
  /\ rows \in [Names -> Rows \union {NoRow}] /\ cloud \in Clouds
  /\ job \in Jobs \union {Idle}
  /\ using \in [state : {"connecting", "connected"}, n : Names, row : Rows] \union {NotUsed}
  /\ forgotten \in SUBSET Names
  /\ unfinished \in [Names -> SUBSET Parts]
  /\ faults \in 0 .. MaxFaults

\* What the command in hand knows of its row: a deployment is kept before it is touched,
\* and the command works on the row there is, but for what it changes itself.
Begun ==
  ~Quiet =>
    /\ job.cmd = "account" => job.pc \in {"remove", "done"} /\ ~stored(job.n)
    /\ job.cmd # "account" => stored(job.n) /\ Row \in Rows
    /\ job.cmd = "deploy" =>
         /\ job.pc \in Deploying /\ "script" \in unfinished[job.n]
         /\ Row.domain = rows[job.n].domain /\ Row.pending = rows[job.n].pending
    /\ job.cmd = "attach" => job.pc \in Attaching
    /\ job.cmd = "detach" => job.pc \in Leaving
    /\ job.cmd = "delete" =>
         job.pc \in Leaving \union {"remove", "forget"} /\ "gone" \in unfinished[job.n]
    /\ job.cmd \in {"attach", "detach", "delete"} => Row = rows[job.n]
    /\ job.pc \in Leaving => "taken" \in unfinished[job.n]

\* What is kept of what is on Cloudflare.
Known ==
  /\ NothingIsOrphaned
  /\ ~Quiet /\ job.cmd = "attach" /\ job.pc # "pending" => Row.domain
  /\ ~Quiet /\ job.cmd # "account" /\ job.pc \in Gone => ~HasDomain(job.n)
  /\ At("forget") => ~Script.made
  /\ \A n \in forgotten : ~stored(n)

\* A command asks each of the two services about its own kind of deployment.
OfWorkers == {"subdomain", "register", "upload", "enable", "service", "claim", "routes", "unroute"}
OfPages == {"project", "patch", "push", "zones", "zone", "records", "post", "record", "domains",
            "join", "leave", "check", "unrecord"}
OwnKind == (job.pc \in OfWorkers => job.n \notin Pages) /\ (job.pc \in OfPages => job.n \in Pages)

\* What a row may offer: how far a deployment has come at each label.
Offered(n) ==
  stored(n) =>
    /\ rows[n].ready /\ "gone" \notin unfinished[n] => Runs(n)
    /\ rows[n].ready /\ unfinished[n] \intersect {"script", "gone"} = {} =>
         cloud.script[n].runs = rows[n].env
    /\ ByDomain(rows[n]) /\ "taken" \notin unfinished[n] => HasDomain(n)
Made_(n) ==
  cloud.script[n].made => cloud.script[n].config \in Envs /\ (n \in Pages => cloud.script[n].host)
Told ==
  /\ \A n \in Names : Offered(n) /\ Made_(n)
  /\ job.pc \in {"made", "enable", "push", "ready"} =>
       /\ Script.made /\ Script.config = Row.env
       /\ job.n \in Workers \/ At("ready") => Script.runs = Row.env
       /\ At("ready") => Script.host
  /\ At("attached") => HasDomain(job.n)
  /\ At("claim") => cloud.service \in {Nobody, Other, job.n}
  /\ ~Quiet /\ job.cmd = "deploy" => ~Row.ready

\* Nothing in use is changed.
Undisturbed ==
  /\ \A n \in Names : in_use(n) => stored(n) /\ rows[n] = using.row
  /\ ~Quiet /\ job.cmd # "account" => ~in_use(job.n)
(***************************************************************************)
(* What a request, a question and a save leave behind.                     *)
(***************************************************************************)
\* The command goes on at pc, or where it was, with the row it has.
Went(pc, row) ==
  /\ job' \in Jobs /\ job'.pc = pc /\ job'.cmd = job.cmd /\ job'.n = job.n /\ job'.row = row

Looked(pcs) ==
  /\ cloud' = cloud /\ rows' = rows /\ unfinished' = unfinished /\ faults' \in 0 .. MaxFaults
  /\ (\E pc \in pcs : Went(pc, job.row)) \/ Went(job.pc, job.row) \/ job' = Idle

Asked(after, pc) ==
  /\ after \in Clouds /\ rows' = rows /\ unfinished' = unfinished /\ faults' \in 0 .. MaxFaults
  /\ \/ cloud' = after /\ Went(pc, job.row)
     \/ cloud' \in {cloud, after} /\ (Went(job.pc, job.row) \/ job' = Idle)

Kept(row, pcs) ==
  /\ row \in Rows /\ cloud' = cloud /\ unfinished' = unfinished /\ faults' \in 0 .. MaxFaults
  /\ \/ rows' = [rows EXCEPT ![job.n] = row] /\ \E pc \in pcs : Went(pc, row)
     \/ rows' = rows /\ job' = Idle

Closed(row, parts) ==
  /\ row \in Rows \union {NoRow} /\ cloud' = cloud /\ job' = Idle /\ faults' \in 0 .. MaxFaults
  /\ \/ /\ rows' = [rows EXCEPT ![job.n] = row]
        /\ unfinished' = [unfinished EXCEPT ![job.n] = @ \ parts]
     \/ rows' = rows /\ unfinished' = unfinished

\* A command is in hand exactly when there is a label it stands at.
LEMMA AtWork ==
  ASSUME TypeOK
  PROVE  /\ ~Quiet <=> job \in Jobs
         /\ Quiet <=> job = Idle
         /\ ~Quiet => /\ job.pc \in Labels /\ job.n \in Names /\ job.row \in Rows \union {NoRow}
                      /\ job.cmd \in {"deploy", "attach", "detach", "delete", "account"}
<1>1. Idle.pc = "idle" /\ "idle" \notin Labels
  BY DEF Idle, Labels, Deploying, Attaching, Leaving
<1>2. job \in Jobs => /\ job.pc \in Labels /\ job.n \in Names /\ job.row \in Rows \union {NoRow}
                      /\ job.cmd \in {"deploy", "attach", "detach", "delete", "account"}
  BY DEF Jobs
<1> QED BY <1>1, <1>2 DEF TypeOK, Quiet, At

\* The command stands where it was, and is asked again.
LEMMA AsksAgain ==
  ASSUME TypeOK, ~Quiet, Again
  PROVE  Went(job.pc, job.row) \/ job' = Idle
<1>1. job \in Jobs
  BY AtWork
<1>2. CASE job.tries < 3 /\ job' = [job EXCEPT !.tries = @ + 1]
  BY <1>1, <1>2 DEF Went, Jobs
<1> QED BY <1>2 DEF Again, Fail

\* A goto keeps the row.
LEMMA Goes ==
  ASSUME TypeOK, ~Quiet, NEW pc \in Labels, Goto(pc)
  PROVE  Went(pc, job.row)
<1>1. job \in Jobs /\ job.row \in Rows \union {NoRow}
  BY AtWork
<1>2. job' = [pc |-> pc, cmd |-> job.cmd, n |-> job.n, row |-> job.row, tries |-> 1]
  BY <1>1 DEF Goto, Jobs
<1>3. job.cmd \in {"deploy", "attach", "detach", "delete", "account"} /\ job.n \in Names
  BY AtWork
<1> QED BY <1>1, <1>2, <1>3 DEF Went, Jobs

\* Faults are counted up to their bound.
LEMMA FaultCounted ==
  ASSUME TypeOK
  PROVE  Faulty => faults' \in 0 .. MaxFaults
BY FaultsAreCounted DEF Faulty, TypeOK

\* A request is carried out or not, and the command goes on, asks again or fails.
LEMMA AskDoes ==
  ASSUME TypeOK, ~Quiet, NEW after \in Clouds, NEW pc \in Labels, Ask(after, pc),
         UNCHANGED <<rows, unfinished>>
  PROVE  Asked(after, pc)
<1>1. CASE cloud' = after /\ Goto(pc) /\ UNCHANGED faults
  <2>1. Went(pc, job.row)
    BY <1>1, Goes
  <2> QED BY <1>1, <2>1 DEF Asked, TypeOK
<1>2. CASE Unanswered(after) /\ Again
  <2>1. Went(job.pc, job.row) \/ job' = Idle
    BY <1>2, AsksAgain
  <2>2. faults' \in 0 .. MaxFaults /\ cloud' \in {cloud, after}
    BY <1>2, FaultCounted DEF Unanswered
  <2> QED BY <2>1, <2>2 DEF Asked
<1> QED BY <1>1, <1>2 DEF Ask

\* A question changes nothing but where the command stands.
LEMMA LookDoes ==
  ASSUME TypeOK, ~Quiet, NEW pcs \in SUBSET Labels, NEW pc \in pcs \union {NoWay}, Look(pc),
         UNCHANGED <<rows, unfinished>>
  PROVE  Looked(pcs)
<1>1. CASE UNCHANGED <<cloud, faults>> /\ IF pc = NoWay THEN Fail ELSE Goto(pc)
  <2>1. pc # NoWay => Went(pc, job.row)
    BY <1>1, Goes
  <2>2. pc = NoWay => job' = Idle
    BY <1>1 DEF Fail
  <2> QED BY <1>1, <2>1, <2>2 DEF Looked, TypeOK
<1>2. CASE Unanswered(cloud) /\ Again
  <2>1. Went(job.pc, job.row) \/ job' = Idle
    BY <1>2, AsksAgain
  <2>2. faults' \in 0 .. MaxFaults /\ cloud' = cloud
    BY <1>2, FaultCounted DEF Unanswered
  <2> QED BY <2>1, <2>2 DEF Looked
<1> QED BY <1>1, <1>2 DEF Look

\* A save that fails ends the command.
LEMMA SaveDoes ==
  ASSUME TypeOK, ~Quiet, NEW row \in Rows, NEW pcs \in SUBSET Labels, NEW pc \in pcs, Save(row, pc)
  PROVE  Kept(row, pcs)
<1>1. CASE rows' = [rows EXCEPT ![job.n] = row] /\ UNCHANGED faults
           /\ job' = [job EXCEPT !.pc = pc, !.tries = 1, !.row = row]
  <2>1. Went(pc, row)
    <3>1. job \in Jobs /\ pc \in Labels /\ job.n \in Names
          /\ job.cmd \in {"deploy", "attach", "detach", "delete", "account"}
      BY AtWork
    <3>2. job' = [pc |-> pc, cmd |-> job.cmd, n |-> job.n, row |-> row, tries |-> 1]
      BY <1>1, <3>1 DEF Jobs
    <3> QED BY <3>1, <3>2 DEF Went, Jobs
  <2>2. faults' \in 0 .. MaxFaults
    BY <1>1 DEF TypeOK
  <2> QED BY <1>1, <2>1, <2>2 DEF Kept, Save
<1>2. CASE Faulty /\ Fail /\ UNCHANGED rows
  BY <1>2, FaultCounted DEF Kept, Fail, Save
<1> QED BY <1>1, <1>2 DEF Save

\* The last save of a command ends it either way.
LEMMA SaveLastDoes ==
  ASSUME TypeOK, ~Quiet, NEW row \in Rows \union {NoRow}, NEW parts, SaveLast(row, parts)
  PROVE  Closed(row, parts)
BY FaultCounted DEF SaveLast, Closed, Fail, TypeOK

\* The row that a command of a kind has: every command but an account's has one.
LEMMA Whose ==
  ASSUME TypeOK, Begun, ~Quiet
  PROVE  /\ job.pc \in Deploying => job.cmd = "deploy" /\ Row \in Rows
         /\ job.pc \in Attaching => job.cmd = "attach" /\ Row \in Rows
         /\ job.pc \in Leaving => job.cmd \in {"detach", "delete"} /\ Row \in Rows
         /\ job.pc = "remove" => job.cmd \in {"delete", "account"}
         /\ job.pc = "forget" => job.cmd = "delete"
         /\ job.pc = "done" => job.cmd = "account"
<1>1. job.cmd \in {"deploy", "attach", "detach", "delete", "account"}
  BY AtWork
<1> QED BY <1>1 DEF Begun, Deploying, Attaching, Leaving

\* One script of the account is replaced.
LEMMA SetIs ==
  ASSUME cloud \in Clouds, NEW n \in Names, NEW script \in Scripts
  PROVE  /\ Set(n, script) \in Clouds
         /\ Set(n, script).script[n] = script
         /\ \A m \in Names \ {n} : Set(n, script).script[m] = cloud.script[m]
         /\ Set(n, script).service = cloud.service /\ Set(n, script).pages = cloud.pages
         /\ Set(n, script).record = cloud.record
BY DEF Set, Clouds
(***************************************************************************)
(* What each step of a command is, in those terms.                         *)
(***************************************************************************)
\* A command that deploys has a row and a script of its own.
LEMMA InHand ==
  ASSUME TypeOK, Begun, NEW pc \in Labels, At(pc)
  PROVE  /\ ~Quiet /\ job.n \in Names /\ cloud \in Clouds /\ Script \in Scripts
         /\ pc \in Deploying \union Attaching \union Leaving => Row \in Rows
<1>1. ~Quiet
  BY DEF At, Quiet, Labels, Deploying, Attaching, Leaving
<1>2. job.n \in Names /\ cloud \in Clouds
  BY <1>1, AtWork DEF TypeOK
<1>3. Script \in Scripts
  BY <1>2 DEF Script, Clouds
<1> QED BY <1>1, <1>2, <1>3, Whose DEF At

\* The script of a command after each request that changes it.
Uploaded == [Script EXCEPT !.made = TRUE, !.config = Row.env, !.runs = Row.env]
Begotten == [Script EXCEPT !.made = TRUE, !.host = TRUE, !.config = Row.env]
Patched == [Script EXCEPT !.config = Row.env]
Enabled_ == [Script EXCEPT !.host = TRUE]
Pushed == [Script EXCEPT !.runs = Script.config]

\* The steps of a deployment: questions and requests, the save of a row that is there, and the last.
LEMMA DeployDoes ==
  ASSUME TypeOK, Begun
  PROVE  /\ Subdomain => At("subdomain") /\ Looked({"upload", "register"})
         /\ Register => At("register") /\ Asked([cloud EXCEPT !.registered = TRUE], "upload")
         /\ Upload => At("upload") /\ Asked(Set(job.n, Uploaded), "made")
         /\ Project => At("project") /\ (Looked({"patch"}) \/ Asked(Set(job.n, Begotten), "made"))
         /\ Patch => /\ At("patch")
                     /\ Looked({}) \/ (Script.made /\ Asked(Set(job.n, Patched), "made"))
         /\ Made => At("made") /\ Kept([Row EXCEPT !.created = TRUE],
                                       {IF job.n \in Workers THEN "enable" ELSE "push"})
         /\ Enable => At("enable") /\ Asked(Set(job.n, Enabled_), "ready")
         /\ Push => At("push") /\ Asked(Set(job.n, Pushed), "ready")
         /\ Ready => At("ready") /\ Closed([Row EXCEPT !.ready = TRUE], {"script", "gone"})
<1>0. \A pc \in Deploying : At(pc) => /\ ~Quiet /\ job.n \in Names /\ cloud \in Clouds
                                      /\ Script \in Scripts /\ Row \in Rows /\ pc \in Labels
  BY InHand DEF Labels
<1>1. ASSUME Subdomain
      PROVE  At("subdomain") /\ Looked({"upload", "register"})
  <2>1. At("subdomain") /\ ~Quiet
    BY <1>0, <1>1 DEF Subdomain, Deploying
  <2> QED
    BY <1>1, <2>1, LookDoes DEF Subdomain, Labels, Deploying
<1>2. ASSUME Register
      PROVE  At("register") /\ Asked([cloud EXCEPT !.registered = TRUE], "upload")
  <2>1. At("register") /\ ~Quiet /\ cloud \in Clouds
    BY <1>0, <1>2 DEF Register, Deploying
  <2>2. [cloud EXCEPT !.registered = TRUE] \in Clouds
    BY <2>1 DEF Clouds
  <2> QED BY <1>2, <2>1, <2>2, AskDoes DEF Register, Labels, Deploying
<1>3. ASSUME Upload
      PROVE  At("upload") /\ Asked(Set(job.n, Uploaded), "made")
  <2>1. At("upload") /\ ~Quiet /\ job.n \in Names /\ cloud \in Clouds /\ Script \in Scripts /\ Row \in Rows
    BY <1>0, <1>3 DEF Upload, Deploying
  <2>2. Uploaded \in Scripts
    BY <2>1 DEF Uploaded, Scripts, Rows
  <2>3. Set(job.n, Uploaded) \in Clouds
    BY <2>1, <2>2, SetIs
  <2> QED BY <1>3, <2>1, <2>3, AskDoes DEF Upload, Uploaded, Labels, Deploying
<1>4. ASSUME Enable
      PROVE  At("enable") /\ Asked(Set(job.n, Enabled_), "ready")
  <2>1. At("enable") /\ ~Quiet /\ job.n \in Names /\ cloud \in Clouds /\ Script \in Scripts /\ Row \in Rows
    BY <1>0, <1>4 DEF Enable, Deploying
  <2>2. Enabled_ \in Scripts
    BY <2>1 DEF Enabled_, Scripts, Rows
  <2>3. Set(job.n, Enabled_) \in Clouds
    BY <2>1, <2>2, SetIs
  <2> QED BY <1>4, <2>1, <2>3, AskDoes DEF Enable, Enabled_, Labels, Deploying
<1>5. ASSUME Push
      PROVE  At("push") /\ Asked(Set(job.n, Pushed), "ready")
  <2>1. At("push") /\ ~Quiet /\ job.n \in Names /\ cloud \in Clouds /\ Script \in Scripts /\ Row \in Rows
    BY <1>0, <1>5 DEF Push, Deploying
  <2>2. Pushed \in Scripts
    BY <2>1 DEF Pushed, Scripts, Rows
  <2>3. Set(job.n, Pushed) \in Clouds
    BY <2>1, <2>2, SetIs
  <2> QED BY <1>5, <2>1, <2>3, AskDoes DEF Push, Pushed, Labels, Deploying
<1>6. ASSUME Project
      PROVE  At("project") /\ (Looked({"patch"}) \/ Asked(Set(job.n, Begotten), "made"))
  <2>1. At("project") /\ ~Quiet /\ job.n \in Names /\ cloud \in Clouds /\ Script \in Scripts /\ Row \in Rows
    BY <1>0, <1>6 DEF Project, Deploying
  <2>2. Begotten \in Scripts
    BY <2>1 DEF Begotten, Scripts, Rows
  <2>3. Set(job.n, Begotten) \in Clouds
    BY <2>1, <2>2, SetIs
  <2>4. CASE Look("patch")
    BY <1>6, <2>1, <2>4, LookDoes DEF Project, Labels, Deploying
  <2>5. CASE Ask(Set(job.n, Begotten), "made")
    BY <1>6, <2>1, <2>3, <2>5, AskDoes DEF Project, Labels, Deploying
  <2> QED BY <1>6, <2>4, <2>5 DEF Project, Begotten
<1>7. ASSUME Patch
      PROVE  At("patch") /\ (Looked({}) \/ (Script.made /\ Asked(Set(job.n, Patched), "made")))
  <2>1. At("patch") /\ ~Quiet /\ job.n \in Names /\ cloud \in Clouds /\ Script \in Scripts /\ Row \in Rows
    BY <1>0, <1>7 DEF Patch, Deploying
  <2>2. Patched \in Scripts
    BY <2>1 DEF Patched, Scripts, Rows
  <2>3. Set(job.n, Patched) \in Clouds
    BY <2>1, <2>2, SetIs
  <2>4. CASE Look(NoWay)
    BY <1>7, <2>1, <2>4, LookDoes DEF Patch
  <2>5. CASE Script.made /\ Ask(Set(job.n, Patched), "made")
    BY <1>7, <2>1, <2>3, <2>5, AskDoes DEF Patch, Labels, Deploying
  <2> QED BY <1>7, <2>1, <2>4, <2>5 DEF Patch, Patched
<1>8. ASSUME Made
      PROVE  At("made") /\ Kept([Row EXCEPT !.created = TRUE],
                                {IF job.n \in Workers THEN "enable" ELSE "push"})
  <2>1. At("made") /\ ~Quiet /\ Row \in Rows
    BY <1>0, <1>8 DEF Made, Deploying
  <2>2. [Row EXCEPT !.created = TRUE] \in Rows
    BY <2>1 DEF Rows
  <2> QED BY <1>8, <2>1, <2>2, SaveDoes DEF Made, Labels, Deploying
<1>9. ASSUME Ready
      PROVE  At("ready") /\ Closed([Row EXCEPT !.ready = TRUE], {"script", "gone"})
  <2>1. At("ready") /\ ~Quiet /\ Row \in Rows
    BY <1>0, <1>9 DEF Ready, Deploying
  <2>2. [Row EXCEPT !.ready = TRUE] \in Rows
    BY <2>1 DEF Rows
  <2> QED BY <1>9, <2>1, <2>2, SaveLastDoes DEF Ready
<1> QED BY <1>1, <1>2, <1>3, <1>4, <1>5, <1>6, <1>7, <1>8, <1>9
\* The steps that attach a domain.
LEMMA AttachDoes ==
  ASSUME TypeOK, Begun
  PROVE  /\ Pending => At("pending") /\ Kept([Row EXCEPT !.domain = TRUE, !.pending = TRUE], {IF job.n \in Workers THEN "service"
                                            ELSE IF Row.zone THEN "records" ELSE "zones"})
         /\ Service => At("service") /\ (Looked({}) \/ (cloud.service \in {Nobody, job.n} /\ Looked({"claim"})))
         /\ Claim => At("claim") /\ Asked([cloud EXCEPT !.service = job.n], "attached")
         /\ Zones => At("zones") /\ Looked({"zone"})
         /\ Zone => At("zone") /\ Kept([Row EXCEPT !.zone = TRUE], {"records"})
         /\ Records => At("records") /\ Looked({"post", "domains"})
         /\ Post => At("post") /\ (Looked({}) \/ (cloud.record = Nobody /\ Asked([cloud EXCEPT !.record = job.n], "record")))
         /\ Recorded => At("record") /\ Kept([Row EXCEPT !.record = TRUE], {"domains"})
         /\ Joined => At("domains") /\ (Looked({"join"}) \/ (cloud.pages = job.n /\ Looked({"attached"})))
         /\ Join => At("join") /\ (Looked({}) \/ (cloud.pages = Nobody /\ Asked([cloud EXCEPT !.pages = job.n], "attached")))
         /\ Attached => At("attached") /\ Closed([Row EXCEPT !.pending = FALSE], {"taken"})
<1>0. \A pc \in Attaching : At(pc) => /\ ~Quiet /\ job.n \in Names /\ cloud \in Clouds
                                      /\ Row \in Rows /\ pc \in Labels
  BY InHand DEF Labels
<1>1. ASSUME Pending
      PROVE  At("pending") /\ Kept([Row EXCEPT !.domain = TRUE, !.pending = TRUE], {IF job.n \in Workers THEN "service"
                                            ELSE IF Row.zone THEN "records" ELSE "zones"})
  <2>1. At("pending") /\ ~Quiet /\ Row \in Rows
    BY <1>0, <1>1 DEF Pending, Attaching
  <2>2. [Row EXCEPT !.domain = TRUE, !.pending = TRUE] \in Rows
    BY <2>1 DEF Rows
  <2> QED BY <1>1, <2>1, <2>2, SaveDoes DEF Pending, Labels, Attaching
<1>2. ASSUME Service
      PROVE  At("service") /\ (Looked({}) \/ (cloud.service \in {Nobody, job.n} /\ Looked({"claim"})))
  <2>1. At("service") /\ ~Quiet
    BY <1>0, <1>2 DEF Service, Attaching
  <2>2. CASE cloud.service \in {Nobody, job.n}
    <3>1. Look("claim")
      BY <1>2, <2>2 DEF Service
    <3> QED BY <1>2, <2>1, <2>2, <3>1, LookDoes DEF Service, Labels, Attaching
  <2>3. CASE cloud.service \notin {Nobody, job.n}
    <3>1. Look(NoWay)
      BY <1>2, <2>3 DEF Service
    <3> QED BY <1>2, <2>1, <3>1, LookDoes DEF Service
  <2> QED BY <2>2, <2>3
<1>3. ASSUME Claim
      PROVE  At("claim") /\ Asked([cloud EXCEPT !.service = job.n], "attached")
  <2>1. At("claim") /\ ~Quiet /\ job.n \in Names /\ cloud \in Clouds
    BY <1>0, <1>3 DEF Claim, Attaching
  <2>2. [cloud EXCEPT !.service = job.n] \in Clouds
    BY <2>1 DEF Clouds, Without
  <2> QED BY <1>3, <2>1, <2>2, AskDoes DEF Claim, Labels, Attaching
<1>4. ASSUME Zones
      PROVE  At("zones") /\ Looked({"zone"})
  <2>1. At("zones") /\ ~Quiet
    BY <1>0, <1>4 DEF Zones, Attaching
  <2> QED BY <1>4, <2>1, LookDoes DEF Zones, Labels, Attaching
<1>5. ASSUME Zone
      PROVE  At("zone") /\ Kept([Row EXCEPT !.zone = TRUE], {"records"})
  <2>1. At("zone") /\ ~Quiet /\ Row \in Rows
    BY <1>0, <1>5 DEF Zone, Attaching
  <2>2. [Row EXCEPT !.zone = TRUE] \in Rows
    BY <2>1 DEF Rows
  <2> QED BY <1>5, <2>1, <2>2, SaveDoes DEF Zone, Labels, Attaching
<1>6. ASSUME Records
      PROVE  At("records") /\ Looked({"post", "domains"})
  <2>1. At("records") /\ ~Quiet
    BY <1>0, <1>6 DEF Records, Attaching
  <2> QED BY <1>6, <2>1, LookDoes DEF Records, Labels, Attaching
<1>7. ASSUME Post
      PROVE  At("post") /\ (Looked({}) \/ (cloud.record = Nobody /\ Asked([cloud EXCEPT !.record = job.n], "record")))
  <2>1. At("post") /\ ~Quiet /\ job.n \in Names /\ cloud \in Clouds
    BY <1>0, <1>7 DEF Post, Attaching
  <2>2. [cloud EXCEPT !.record = job.n] \in Clouds
    BY <2>1 DEF Clouds
  <2>3. CASE Look(NoWay)
    BY <1>7, <2>1, <2>3, LookDoes DEF Post
  <2>4. CASE cloud.record = Nobody /\ Ask([cloud EXCEPT !.record = job.n], "record")
    BY <1>7, <2>1, <2>2, <2>4, AskDoes DEF Post, Labels, Attaching
  <2> QED BY <1>7, <2>1, <2>3, <2>4 DEF Post
<1>8. ASSUME Recorded
      PROVE  At("record") /\ Kept([Row EXCEPT !.record = TRUE], {"domains"})
  <2>1. At("record") /\ ~Quiet /\ Row \in Rows
    BY <1>0, <1>8 DEF Recorded, Attaching
  <2>2. [Row EXCEPT !.record = TRUE] \in Rows
    BY <2>1 DEF Rows
  <2> QED BY <1>8, <2>1, <2>2, SaveDoes DEF Recorded, Labels, Attaching
<1>9. ASSUME Joined
      PROVE  At("domains") /\ (Looked({"join"}) \/ (cloud.pages = job.n /\ Looked({"attached"})))
  <2>1. At("domains") /\ ~Quiet
    BY <1>0, <1>9 DEF Joined, Attaching
  <2>2. CASE cloud.pages = job.n
    <3>1. Look("attached")
      BY <1>9, <2>2 DEF Joined
    <3> QED BY <1>9, <2>1, <2>2, <3>1, LookDoes DEF Joined, Labels, Attaching
  <2>3. CASE cloud.pages # job.n
    <3>1. Look("join")
      BY <1>9, <2>3 DEF Joined
    <3> QED BY <1>9, <2>1, <3>1, LookDoes DEF Joined, Labels, Attaching
  <2> QED BY <2>2, <2>3
<1>10. ASSUME Join
      PROVE  At("join") /\ (Looked({}) \/ (cloud.pages = Nobody /\ Asked([cloud EXCEPT !.pages = job.n], "attached")))
  <2>1. At("join") /\ ~Quiet /\ job.n \in Names /\ cloud \in Clouds
    BY <1>0, <1>10 DEF Join, Attaching
  <2>2. [cloud EXCEPT !.pages = job.n] \in Clouds
    BY <2>1 DEF Clouds
  <2>3. CASE Look(NoWay)
    BY <1>10, <2>1, <2>3, LookDoes DEF Join
  <2>4. CASE cloud.pages = Nobody /\ Ask([cloud EXCEPT !.pages = job.n], "attached")
    BY <1>10, <2>1, <2>2, <2>4, AskDoes DEF Join, Labels, Attaching
  <2> QED BY <1>10, <2>1, <2>3, <2>4 DEF Join
<1>11. ASSUME Attached
      PROVE  At("attached") /\ Closed([Row EXCEPT !.pending = FALSE], {"taken"})
  <2>1. At("attached") /\ ~Quiet /\ Row \in Rows
    BY <1>0, <1>11 DEF Attached, Attaching
  <2>2. [Row EXCEPT !.pending = FALSE] \in Rows \union {NoRow}
    BY <2>1 DEF Rows
  <2> QED BY <1>11, <2>1, <2>2, SaveLastDoes DEF Attached
<1> QED BY <1>1, <1>2, <1>3, <1>4, <1>5, <1>6, <1>7, <1>8, <1>9, <1>10, <1>11

\* The row of a deployment without its domain.
Freed == [Row EXCEPT !.domain = FALSE, !.pending = FALSE, !.zone = FALSE, !.record = FALSE]

\* The steps that detach a domain.
LEMMA LeaveDoes ==
  ASSUME TypeOK, Begun
  PROVE  /\ Leave => At("leave") /\ (Asked([cloud EXCEPT !.pages = Without(@)], "check") \/ Asked([cloud EXCEPT !.pages = Without(@)], "detached"))
         /\ Check => At("check") /\ Looked({"unrecord", "detached"})
         /\ Unrecord => At("unrecord") /\ Asked([cloud EXCEPT !.record = Nobody], "detached")
         /\ Routes => At("routes") /\ (Looked({"unroute"}) \/ (cloud.service # job.n /\ Looked({"detached"})))
         /\ Unroute => At("unroute") /\ Asked([cloud EXCEPT !.service = Without(@)], "detached")
         /\ Detached => /\ At("detached")
                      /\ \/ job.cmd = "detach" /\ Closed(Freed, {"taken"})
                         \/ job.cmd = "delete" /\ cloud' = cloud /\ Looked({"remove"})
<1>0. \A pc \in Leaving : At(pc) => /\ ~Quiet /\ job.n \in Names /\ cloud \in Clouds
                                      /\ Row \in Rows /\ pc \in Labels
  BY InHand DEF Labels
<1>1. ASSUME Leave
      PROVE  At("leave") /\ (Asked([cloud EXCEPT !.pages = Without(@)], "check") \/ Asked([cloud EXCEPT !.pages = Without(@)], "detached"))
  <2>1. At("leave") /\ ~Quiet /\ job.n \in Names /\ cloud \in Clouds
    BY <1>0, <1>1 DEF Leave, Leaving
  <2>2. [cloud EXCEPT !.pages = Without(@)] \in Clouds
    BY <2>1 DEF Clouds, Without
  <2>3. \/ Ask([cloud EXCEPT !.pages = Without(@)], "check")
        \/ Ask([cloud EXCEPT !.pages = Without(@)], "detached")
    BY <1>1 DEF Leave
  <2> QED BY <1>1, <2>1, <2>2, <2>3, AskDoes DEF Leave, Labels, Leaving
<1>2. ASSUME Check
      PROVE  At("check") /\ Looked({"unrecord", "detached"})
  <2>1. At("check") /\ ~Quiet
    BY <1>0, <1>2 DEF Check, Leaving
  <2> QED BY <1>2, <2>1, LookDoes DEF Check, Labels, Leaving
<1>3. ASSUME Unrecord
      PROVE  At("unrecord") /\ Asked([cloud EXCEPT !.record = Nobody], "detached")
  <2>1. At("unrecord") /\ ~Quiet /\ job.n \in Names /\ cloud \in Clouds
    BY <1>0, <1>3 DEF Unrecord, Leaving
  <2>2. [cloud EXCEPT !.record = Nobody] \in Clouds
    BY <2>1 DEF Clouds, Without
  <2> QED BY <1>3, <2>1, <2>2, AskDoes DEF Unrecord, Labels, Leaving
<1>4. ASSUME Routes
      PROVE  At("routes") /\ (Looked({"unroute"}) \/ (cloud.service # job.n /\ Looked({"detached"})))
  <2>1. At("routes") /\ ~Quiet
    BY <1>0, <1>4 DEF Routes, Leaving
  <2>2. CASE cloud.service # job.n
    <3>1. Look("detached")
      BY <1>4, <2>2 DEF Routes
    <3> QED BY <1>4, <2>1, <2>2, <3>1, LookDoes DEF Routes, Labels, Leaving
  <2>3. CASE cloud.service = job.n
    <3>1. Look("unroute")
      BY <1>4, <2>3 DEF Routes
    <3> QED BY <1>4, <2>1, <3>1, LookDoes DEF Routes, Labels, Leaving
  <2> QED BY <2>2, <2>3
<1>5. ASSUME Unroute
      PROVE  At("unroute") /\ Asked([cloud EXCEPT !.service = Without(@)], "detached")
  <2>1. At("unroute") /\ ~Quiet /\ job.n \in Names /\ cloud \in Clouds
    BY <1>0, <1>5 DEF Unroute, Leaving
  <2>2. [cloud EXCEPT !.service = Without(@)] \in Clouds
    BY <2>1 DEF Clouds, Without
  <2> QED BY <1>5, <2>1, <2>2, AskDoes DEF Unroute, Labels, Leaving
<1>6. ASSUME Detached
      PROVE  /\ At("detached")
                      /\ \/ job.cmd = "detach" /\ Closed(Freed, {"taken"})
                         \/ job.cmd = "delete" /\ cloud' = cloud /\ Looked({"remove"})
  <2>1. At("detached") /\ ~Quiet /\ Row \in Rows /\ job.cmd \in {"detach", "delete"}
    BY <1>0, <1>6, Whose DEF Detached, Leaving, At
  <2>2. Freed \in Rows \union {NoRow}
    BY <2>1 DEF Rows, Freed
  <2>3. CASE job.cmd = "detach"
    <3>1. SaveLast(Freed, {"taken"})
      BY <1>6, <2>3 DEF Detached, Freed
    <3> QED BY <2>1, <2>2, <2>3, <3>1, SaveLastDoes
  <2>4. CASE job.cmd = "delete"
    <3>1. Goto("remove") /\ UNCHANGED <<rows, cloud, unfinished, faults>>
      BY <1>6, <2>4 DEF Detached
    <3>2. Went("remove", job.row)
      BY <2>1, <3>1, Goes DEF Labels
    <3> QED BY <2>1, <2>4, <3>1, <3>2 DEF Looked, TypeOK
  <2> QED BY <2>1, <2>3, <2>4
<1> QED BY <1>1, <1>2, <1>3, <1>4, <1>5, <1>6

\* The steps that delete the script or project.
LEMMA RemoveDoes ==
  ASSUME TypeOK, Begun
  PROVE  /\ Remove => /\ At("remove")
                      /\ \/ job.cmd = "delete" /\ Asked(Set(job.n, NoScript), "forget")
                         \/ job.cmd = "account" /\ Asked(Set(job.n, NoScript), "done")
         /\ Forget => At("forget") /\ Closed(NoRow, Parts)
         /\ Done => At("done") /\ job' = Idle /\ UNCHANGED <<rows, cloud, unfinished, faults>>
<1>1. ASSUME Remove
      PROVE  /\ At("remove")
             /\ \/ job.cmd = "delete" /\ Asked(Set(job.n, NoScript), "forget")
                \/ job.cmd = "account" /\ Asked(Set(job.n, NoScript), "done")
  <2>1. At("remove") /\ ~Quiet /\ job.n \in Names /\ cloud \in Clouds
    BY <1>1, InHand DEF Remove, Labels
  <2>2. job.cmd \in {"delete", "account"}
    BY <2>1, Whose DEF At
  <2>3. NoScript \in Scripts
    BY DEF NoScript, Scripts
  <2>4. Set(job.n, NoScript) \in Clouds
    BY <2>1, <2>3, SetIs
  <2>5. Ask(Set(job.n, NoScript), IF job.cmd = "delete" THEN "forget" ELSE "done")
        /\ UNCHANGED <<rows, unfinished>>
    BY <1>1 DEF Remove
  <2> QED BY <2>1, <2>2, <2>4, <2>5, AskDoes DEF Labels
<1>2. ASSUME Forget
      PROVE  At("forget") /\ Closed(NoRow, Parts)
  <2>1. At("forget") /\ ~Quiet
    BY <1>2, InHand DEF Forget, Labels
  <2> QED BY <1>2, <2>1, SaveLastDoes DEF Forget, Parts
<1>3. ASSUME Done
      PROVE  At("done") /\ job' = Idle /\ UNCHANGED <<rows, cloud, unfinished, faults>>
  BY <1>3 DEF Done, Fail
<1> QED BY <1>1, <1>2, <1>3
(***************************************************************************)
(* The type invariant.                                                     *)
(***************************************************************************)
\* However a step of a command comes out, what it leaves is typed.
LEMMA OutcomesAreTyped ==
  ASSUME TypeOK, ~Quiet, UNCHANGED <<using, forgotten>>
  PROVE  /\ \A pcs : Looked(pcs) => TypeOK'
         /\ \A after, pc : Asked(after, pc) => TypeOK'
         /\ \A row, pcs : Kept(row, pcs) => TypeOK'
         /\ \A row, parts : Closed(row, parts) => TypeOK'
<1>0. job.n \in Names
  BY AtWork
<1>1. ASSUME NEW pc, NEW row, Went(pc, row)
      PROVE  job' \in Jobs
  BY <1>1 DEF Went
<1>2. ASSUME NEW pcs, Looked(pcs)
      PROVE  TypeOK'
  BY <1>1, <1>2 DEF Looked, TypeOK
<1>3. ASSUME NEW after, NEW pc, Asked(after, pc)
      PROVE  TypeOK'
  BY <1>1, <1>3 DEF Asked, TypeOK
<1>4. ASSUME NEW row, NEW pcs, Kept(row, pcs)
      PROVE  TypeOK'
  <2>1. rows' \in [Names -> Rows \union {NoRow}]
    BY <1>0, <1>4 DEF Kept, TypeOK
  <2> QED BY <1>1, <1>4, <2>1 DEF Kept, TypeOK
<1>5. ASSUME NEW row, NEW parts, Closed(row, parts)
      PROVE  TypeOK'
  <2>1. rows' \in [Names -> Rows \union {NoRow}]
    BY <1>0, <1>5 DEF Closed, TypeOK
  <2>2. unfinished' \in [Names -> SUBSET Parts]
    BY <1>0, <1>5 DEF Closed, TypeOK
  <2> QED BY <1>5, <2>1, <2>2 DEF Closed, TypeOK
<1> QED BY <1>2, <1>3, <1>4, <1>5

\* No step of a command is taken while none is in hand.
LEMMA StepsAreBusy ==
  ASSUME TypeOK, Begun
  PROVE  DeploySteps \/ AttachSteps \/ DetachSteps => ~Quiet
<1>1. \A pc \in Labels : At(pc) => ~Quiet
  BY InHand
<1>2. DeploySteps => ~Quiet
  BY <1>1, DeployDoes DEF DeploySteps, Labels, Deploying
<1>3. AttachSteps => ~Quiet
  BY <1>1, AttachDoes DEF AttachSteps, Labels, Attaching
<1>4. DetachSteps => ~Quiet
  BY <1>1, LeaveDoes, RemoveDoes DEF DetachSteps, Labels, Leaving
<1> QED BY <1>2, <1>3, <1>4

\* A step of a command leaves everything typed.
LEMMA StepIsTyped ==
  ASSUME TypeOK, Begun, Step
  PROVE  TypeOK'
<1>1. ~Quiet /\ UNCHANGED <<using, forgotten>>
  BY StepsAreBusy DEF Step
<1>2. CASE DeploySteps
  BY <1>1, <1>2, DeployDoes, OutcomesAreTyped DEF DeploySteps
<1>3. CASE AttachSteps
  BY <1>1, <1>3, AttachDoes, OutcomesAreTyped DEF AttachSteps
<1>4. CASE Done
  <2>1. job' = Idle /\ UNCHANGED <<rows, cloud, unfinished, faults>>
    BY <1>4, RemoveDoes
  <2> QED BY <1>1, <2>1 DEF TypeOK
<1>5. CASE Leave \/ Check \/ Unrecord \/ Routes \/ Unroute \/ Detached
  BY <1>1, <1>5, LeaveDoes, OutcomesAreTyped
<1>6. CASE Remove \/ Forget
  BY <1>1, <1>6, RemoveDoes, OutcomesAreTyped
<1> QED BY <1>2, <1>3, <1>4, <1>5, <1>6 DEF Step, DetachSteps

\* A command begins with the row it is given, and marks what it begins.
LEMMA BeginDoes ==
  ASSUME TypeOK, NEW n \in Names, NEW row \in Rows \union {NoRow}, NEW pc \in Labels,
         NEW cmd \in {"deploy", "attach", "detach", "delete", "account"},
         NEW parts \in SUBSET Parts, Begin(cmd, n, row, pc, parts)
  PROVE  /\ TypeOK' /\ Quiet /\ UNCHANGED <<rows, cloud, using, forgotten>>
         /\ unfinished' = [unfinished EXCEPT ![n] = @ \union parts]
         /\ job' \in Jobs /\ job'.pc = pc /\ job'.cmd = cmd /\ job'.n = n /\ job'.row = row
<1>1. job' \in Jobs /\ job'.pc = pc /\ job'.cmd = cmd /\ job'.n = n /\ job'.row = row
  BY DEF Begin, Jobs
<1>2. unfinished' \in [Names -> SUBSET Parts]
  BY DEF Begin, TypeOK
<1> QED BY <1>1, <1>2 DEF Begin, TypeOK

\* A row that is saved is a row.
LEMMA StoredIsRow ==
  ASSUME TypeOK, NEW n \in Names
  PROVE  stored(n) <=> rows[n] \in Rows
<1>1. rows[n] \in Rows \union {NoRow}
  BY DEF TypeOK
<1>2. \A row \in Rows : row.saved
  BY DEF Rows
<1>3. ~NoRow.saved
  BY DEF NoRow
<1> QED BY <1>1, <1>2, <1>3 DEF stored

\* A new row, and a row that is about to be deployed again.
LEMMA NewRows ==
  ASSUME NEW env \in Envs
  PROVE  /\ NewRow(env) \in Rows
         /\ \A row \in Rows : [row EXCEPT !.ready = FALSE, !.env = env] \in Rows
         /\ \A row \in Rows, n \in Names : DeployAt(row, n) \in Deploying
         /\ \A n \in Names : DetachAt(n) \in Leaving
BY DEF NewRow, Rows, DeployAt, Deploying, DetachAt, Leaving

\* Where a deployment begins.
DeploysAt(n) == IF n \in Workers THEN {"subdomain"} ELSE {"patch", "project"}

\* What each command begins.
LEMMA UpdateDoes ==
  ASSUME TypeOK, NEW n \in Names, NEW env \in Envs, Update(n, env)
  PROVE  /\ TypeOK' /\ Quiet /\ UNCHANGED <<rows, cloud, using, forgotten>>
         /\ stored(n) /\ ~in_use(n)
         /\ unfinished' = [unfinished EXCEPT ![n] = @ \union {"script"}]
         /\ job' \in Jobs /\ job'.pc \in DeploysAt(n) /\ job'.cmd = "deploy" /\ job'.n = n
         /\ job'.row \in Rows /\ job'.row.domain = rows[n].domain /\ job'.row.pending = rows[n].pending
         /\ ~job'.row.ready
<1> DEFINE row == [rows[n] EXCEPT !.ready = FALSE, !.env = env]
<1>1. stored(n) /\ ~in_use(n) /\ Begin("deploy", n, row, DeployAt(row, n), {"script"})
  BY DEF Update
<1>2. rows[n] \in Rows
  BY <1>1, StoredIsRow
<1>3. row \in Rows /\ row.domain = rows[n].domain /\ row.pending = rows[n].pending
      /\ ~row.ready
  BY <1>2 DEF Rows
<1>4. DeployAt(row, n) \in DeploysAt(n)
  BY DEF DeployAt, DeploysAt
<1>5. DeployAt(row, n) \in Labels /\ {"script"} \in SUBSET Parts
  BY <1>4 DEF Labels, Deploying, Parts, DeploysAt
<1> HIDE DEF row
<1> QED BY <1>1, <1>3, <1>4, <1>5, BeginDoes

\* A creation keeps its row and begins to deploy it.
LEMMA CreateDoes ==
  ASSUME TypeOK, NEW n \in Names, NEW env \in Envs, Create(n, env)
  PROVE  /\ TypeOK' /\ Quiet /\ UNCHANGED <<cloud, using, forgotten>>
         /\ ~stored(n) /\ ~cloud.script[n].made
         /\ rows' = [rows EXCEPT ![n] = NewRow(env)]
         /\ unfinished' = [unfinished EXCEPT ![n] = @ \union {"script"}]
         /\ job' \in Jobs /\ job'.pc \in DeploysAt(n) /\ job'.cmd = "deploy" /\ job'.n = n
         /\ job'.row = NewRow(env) /\ NewRow(env) \in Rows
<1>1. NewRow(env) \in Rows
  BY NewRows
<1>2. DeployAt(NewRow(env), n) \in DeploysAt(n)
  BY DEF DeployAt, DeploysAt
<1>3. job' \in Jobs /\ job'.pc \in DeploysAt(n) /\ job'.cmd = "deploy" /\ job'.n = n
      /\ job'.row = NewRow(env)
  BY <1>1, <1>2 DEF Create, Jobs, Labels, Deploying, DeploysAt
<1>4. rows' \in [Names -> Rows \union {NoRow}]
  BY <1>1 DEF Create, TypeOK
<1>5. unfinished' \in [Names -> SUBSET Parts]
  BY DEF Create, TypeOK, Parts
<1>6. TypeOK'
  BY <1>3, <1>4, <1>5 DEF Create, TypeOK
<1> QED BY <1>1, <1>3, <1>6 DEF Create, Fresh
\* A domain is attached to a ready deployment that is not in use.
LEMMA AttachBegins ==
  ASSUME TypeOK, NEW n \in Names, Attach(n)
  PROVE  /\ TypeOK' /\ Quiet /\ UNCHANGED <<rows, cloud, using, forgotten>>
         /\ stored(n) /\ ~in_use(n) /\ rows[n].ready
         /\ unfinished' = unfinished
         /\ job' \in Jobs /\ job'.pc = "pending" /\ job'.cmd = "attach" /\ job'.n = n /\ job'.row = rows[n]
<1>1. stored(n) /\ ~in_use(n) /\ rows[n].ready /\ Begin("attach", n, rows[n], "pending", {})
  BY DEF Attach
<1>2. rows[n] \in Rows \union {NoRow} /\ "pending" \in Labels /\ {} \in SUBSET Parts
  BY <1>1, StoredIsRow DEF Labels, Attaching
<1>3. [unfinished EXCEPT ![n] = @ \union {}] = unfinished
  BY DEF TypeOK
<1>4. /\ TypeOK' /\ Quiet /\ UNCHANGED <<rows, cloud, using, forgotten>>
      /\ unfinished' = [unfinished EXCEPT ![n] = @ \union {}]
      /\ job' \in Jobs /\ job'.pc = "pending" /\ job'.cmd = "attach" /\ job'.n = n /\ job'.row = rows[n]
  BY <1>1, <1>2, BeginDoes
<1> QED BY <1>1, <1>3, <1>4

\* A domain is taken from a deployment that has one.
LEMMA DetachBegins ==
  ASSUME TypeOK, NEW n \in Names, Detach(n)
  PROVE  /\ TypeOK' /\ Quiet /\ UNCHANGED <<rows, cloud, using, forgotten>>
         /\ stored(n) /\ ~in_use(n) /\ rows[n].domain
         /\ unfinished' = [unfinished EXCEPT ![n] = @ \union {"taken"}]
         /\ job' \in Jobs /\ job'.pc = DetachAt(n) /\ job'.cmd = "detach" /\ job'.n = n
         /\ job'.row = rows[n]
<1>1. stored(n) /\ ~in_use(n) /\ rows[n].domain
      /\ Begin("detach", n, rows[n], DetachAt(n), {"taken"})
  BY DEF Detach
<1>2. rows[n] \in Rows
  BY <1>1, StoredIsRow
<1>3. DetachAt(n) \in {"leave", "routes"} /\ DetachAt(n) \in Labels /\ {"taken"} \in SUBSET Parts
  BY DEF DetachAt, Labels, Leaving, Parts
<1> QED BY <1>1, <1>2, <1>3, BeginDoes

\* A deletion detaches first where there is a domain.
LEMMA DeleteBegins ==
  ASSUME TypeOK, NEW n \in Names, Delete(n)
  PROVE  /\ TypeOK' /\ Quiet /\ UNCHANGED <<rows, cloud, using, forgotten>>
         /\ stored(n) /\ ~in_use(n)
         /\ job' \in Jobs /\ job'.cmd = "delete" /\ job'.n = n /\ job'.row = rows[n]
         /\ \/ /\ rows[n].domain /\ job'.pc = DetachAt(n)
               /\ unfinished' = [unfinished EXCEPT ![n] = @ \union {"taken", "gone"}]
            \/ /\ ~rows[n].domain /\ job'.pc = "remove"
               /\ unfinished' = [unfinished EXCEPT ![n] = @ \union {"gone"}]
<1>1. stored(n) /\ ~in_use(n) /\ rows[n] \in Rows
  BY StoredIsRow DEF Delete
<1>2. DetachAt(n) \in {"leave", "routes"} /\ DetachAt(n) \in Labels /\ "remove" \in Labels
      /\ {"taken", "gone"} \in SUBSET Parts /\ {"gone"} \in SUBSET Parts
  BY DEF DetachAt, Labels, Leaving, Parts
<1>3. CASE rows[n].domain
  <2>1. Begin("delete", n, rows[n], DetachAt(n), {"taken", "gone"})
    BY <1>3 DEF Delete
  <2> QED BY <1>1, <1>2, <1>3, <2>1, BeginDoes
<1>4. CASE ~rows[n].domain
  <2>1. Begin("delete", n, rows[n], "remove", {"gone"})
    BY <1>4 DEF Delete
  <2> QED BY <1>1, <1>2, <1>4, <2>1, BeginDoes
<1> QED BY <1>3, <1>4

\* Only what has no row here is deleted from the account list.
LEMMA AccountDeleteBegins ==
  ASSUME TypeOK, NEW n \in Names, AccountDelete(n)
  PROVE  /\ TypeOK' /\ Quiet /\ UNCHANGED <<rows, cloud, using, forgotten>>
         /\ ~stored(n) /\ unfinished' = unfinished
         /\ job' \in Jobs /\ job'.pc = "remove" /\ job'.cmd = "account" /\ job'.n = n /\ job'.row = NoRow
<1>1. ~stored(n) /\ Begin("account", n, NoRow, "remove", {})
  BY DEF AccountDelete
<1>2. [unfinished EXCEPT ![n] = @ \union {}] = unfinished
  BY DEF TypeOK
<1>3. NoRow \in Rows \union {NoRow} /\ "remove" \in Labels /\ {} \in SUBSET Parts
  BY DEF Labels
<1>4. /\ TypeOK' /\ Quiet /\ UNCHANGED <<rows, cloud, using, forgotten>>
      /\ unfinished' = [unfinished EXCEPT ![n] = @ \union {}]
      /\ job' \in Jobs /\ job'.pc = "remove" /\ job'.cmd = "account" /\ job'.n = n /\ job'.row = NoRow
  BY <1>1, <1>3, BeginDoes
<1> QED BY <1>1, <1>2, <1>4

\* What is removed from this computer only leaves no row.
LEMMA ForgetDoes ==
  ASSUME TypeOK, NEW n \in Names, ForgetHere(n)
  PROVE  /\ TypeOK' /\ Quiet /\ stored(n) /\ ~in_use(n)
         /\ rows' = [rows EXCEPT ![n] = NoRow] /\ forgotten' = forgotten \union {n}
         /\ UNCHANGED <<cloud, job, using, unfinished>>
<1>1. rows' \in [Names -> Rows \union {NoRow}]
  BY DEF ForgetHere, TypeOK
<1> QED BY <1>1 DEF ForgetHere, TypeOK

\* The carrier takes the row there is.
LEMMA CarrierDoes ==
  ASSUME TypeOK
  PROVE  /\ \A n \in Names : Connect(n) =>
              /\ TypeOK' /\ UNCHANGED <<rows, cloud, job, forgotten, unfinished>>
              /\ stored(n) /\ rows[n].ready /\ (Courteous => Quiet)
              /\ using' = [state |-> "connecting", n |-> n, row |-> rows[n]]
         /\ Connected =>
              /\ TypeOK' /\ UNCHANGED <<rows, cloud, job, forgotten, unfinished>>
              /\ in_use(using.n) /\ using'.n = using.n /\ using'.row = using.row
         /\ Stop => /\ TypeOK' /\ UNCHANGED <<rows, cloud, job, forgotten, unfinished>>
                    /\ using' = NotUsed
<1>1. ASSUME NEW n \in Names, Connect(n)
      PROVE  /\ TypeOK' /\ UNCHANGED <<rows, cloud, job, forgotten, unfinished>>
             /\ stored(n) /\ rows[n].ready /\ (Courteous => Quiet)
             /\ using' = [state |-> "connecting", n |-> n, row |-> rows[n]]
  <2>1. stored(n)
    <3>1. PICK key \in {"", n} : find_deployment(key, n)
      BY <1>1 DEF Connect
    <3> QED BY <3>1 DEF find_deployment
  <2>2. rows[n] \in Rows
    BY <2>1, StoredIsRow
  <2> QED BY <1>1, <2>1, <2>2 DEF Connect, TypeOK
<1>2. ASSUME Connected
      PROVE  /\ TypeOK' /\ UNCHANGED <<rows, cloud, job, forgotten, unfinished>>
             /\ in_use(using.n) /\ using'.n = using.n /\ using'.row = using.row
  <2>1. using.state = "connecting" /\ using' = [using EXCEPT !.state = "connected"]
    BY <1>2 DEF Connected
  <2>2. using \in [state : {"connecting", "connected"}, n : Names, row : Rows]
    BY <2>1 DEF TypeOK, NotUsed
  <2>3. /\ using' \in [state : {"connecting", "connected"}, n : Names, row : Rows]
        /\ using'.n = using.n /\ using'.row = using.row
    BY <2>1, <2>2
  <2> QED BY <1>2, <2>1, <2>3 DEF Connected, TypeOK, in_use
<1>3. ASSUME Stop
      PROVE  TypeOK' /\ UNCHANGED <<rows, cloud, job, forgotten, unfinished>> /\ using' = NotUsed
  BY <1>3 DEF Stop, TypeOK
<1> QED BY <1>1, <1>2, <1>3

\* The operator changes the record, or a domain that nothing here has.
LEMMA OperatorDoes ==
  ASSUME TypeOK, Operator
  PROVE  /\ TypeOK' /\ UNCHANGED <<rows, job, using, forgotten, unfinished>>
         /\ Courteous => Quiet
         /\ cloud'.script = cloud.script /\ cloud'.pages = cloud.pages
         /\ cloud'.service = cloud.service \/ (cloud.service = Nobody /\ cloud'.service = Other)
<1>1. cloud \in Clouds
  BY DEF TypeOK
<1>2. CASE cloud' = [cloud EXCEPT !.record = Other]
  <2>1. /\ cloud' \in Clouds /\ cloud'.script = cloud.script /\ cloud'.pages = cloud.pages
        /\ cloud'.service = cloud.service
    BY <1>1, <1>2 DEF Clouds
  <2> QED BY <2>1 DEF Operator, TypeOK
<1>3. CASE cloud.service = Nobody /\ cloud' = [cloud EXCEPT !.service = Other]
  <2>1. /\ cloud' \in Clouds /\ cloud'.script = cloud.script /\ cloud'.pages = cloud.pages
        /\ cloud'.service = Other
    BY <1>1, <1>3 DEF Clouds
  <2> QED BY <1>3, <2>1 DEF Operator, TypeOK
<1> QED BY <1>2, <1>3 DEF Operator

\* The end of the application loses the command and the carrier, and nothing else.
LEMMA CrashDoes ==
  ASSUME TypeOK, Crash
  PROVE  /\ TypeOK' /\ job' = Idle /\ using' = NotUsed
         /\ UNCHANGED <<rows, cloud, forgotten, unfinished>>
BY FaultCounted DEF Crash, TypeOK

\* Every step of the system keeps the types.
LEMMA TypeStep ==
  ASSUME TypeOK, Begun, [Next]_vars
  PROVE  TypeOK'
<1>1. ASSUME NEW n \in Names, NEW env \in Envs, Create(n, env) \/ Update(n, env)
      PROVE  TypeOK'
  BY <1>1, CreateDoes, UpdateDoes
<1>2. ASSUME NEW n \in Names, Attach(n) \/ Detach(n) \/ Delete(n) \/ AccountDelete(n)
      PROVE  TypeOK'
  BY <1>2, AttachBegins, DetachBegins, DeleteBegins, AccountDeleteBegins
<1>3. ASSUME NEW n \in Names, ForgetHere(n) \/ Connect(n)
      PROVE  TypeOK'
  BY <1>3, ForgetDoes, CarrierDoes
<1>4. ASSUME Connected \/ Stop \/ Operator \/ Crash
      PROVE  TypeOK'
  BY <1>4, CarrierDoes, OperatorDoes, CrashDoes
<1>5. CASE UNCHANGED vars
  BY <1>5 DEF vars, TypeOK
<1> QED BY <1>1, <1>2, <1>3, <1>4, <1>5, StepIsTyped DEF Next
(***************************************************************************)
(* What the command in hand knows of its row.                              *)
(***************************************************************************)
\* A command that goes on within its own part of the work still fits the row there is.
LEMMA FitsOn ==
  ASSUME TypeOK, Begun, ~Quiet, NEW pc, Went(pc, job.row), UNCHANGED <<rows, unfinished>>,
         \/ pc = job.pc
         \/ job.pc \in Deploying /\ pc \in Deploying
         \/ job.pc \in Attaching /\ pc \in Attaching
         \/ job.pc \in Leaving /\ pc \in Leaving
         \/ job.cmd = "delete" /\ pc \in {"remove", "forget"}
         \/ job.cmd = "account" /\ pc \in {"remove", "done"}
  PROVE  Begun'
<1>1. /\ job'.pc = pc /\ job'.cmd = job.cmd /\ job'.n = job.n /\ job'.row = job.row
      /\ rows' = rows /\ unfinished' = unfinished
  BY DEF Went
<1>2. /\ job.pc \in Deploying => job.cmd = "deploy"
      /\ job.pc \in Attaching => job.cmd = "attach"
      /\ job.pc \in Leaving => job.cmd \in {"detach", "delete"}
  BY Whose
<1>3. Leaving \intersect (Deploying \union Attaching \union {"remove", "forget", "done"}) = {}
  BY DEF Leaving, Deploying, Attaching
<1> QED BY <1>1, <1>2, <1>3 DEF Begun, stored, Row

\* With the row saved as the command has it, it fits it too.
LEMMA FitsSaved ==
  ASSUME TypeOK, Begun, ~Quiet, NEW pc, NEW row \in Rows, Went(pc, row),
         rows' = [rows EXCEPT ![job.n] = row], unfinished' = unfinished,
         \/ job.pc \in Deploying /\ pc \in Deploying
         \/ job.pc \in Attaching /\ pc \in Attaching
  PROVE  Begun'
<1>0. job.n \in Names
  BY AtWork
<1>1. /\ job'.pc = pc /\ job'.cmd = job.cmd /\ job'.n = job.n /\ job'.row = row
      /\ rows'[job.n] = row /\ unfinished' = unfinished /\ row.saved
  BY <1>0 DEF Went, TypeOK, Rows
<1>2. /\ job.pc \in Deploying => job.cmd = "deploy"
      /\ job.pc \in Attaching => job.cmd = "attach"
  BY Whose
<1>3. Leaving \intersect (Deploying \union Attaching) = {}
  BY DEF Leaving, Deploying, Attaching
<1> QED BY <1>1, <1>2, <1>3 DEF Begun, stored, Row

\* A command that has ended knows nothing.
LEMMA IdleFits ==
  ASSUME job' = Idle
  PROVE  Begun'
BY DEF Begun, Quiet, At, Idle

\* A deployment keeps to its part of the work and to its row.
LEMMA DeployFits ==
  ASSUME TypeOK, Begun, DeploySteps
  PROVE  Begun'
<1>0. ~Quiet
  BY StepsAreBusy
<1>1. ASSUME NEW pc \in Deploying, At(pc), NEW pcs, Looked(pcs), pcs \subseteq Deploying
      PROVE  Begun'
  BY <1>0, <1>1, FitsOn, IdleFits DEF Looked, At
<1>2. ASSUME NEW pc \in Deploying, At(pc), NEW after, NEW to \in Deploying, Asked(after, to)
      PROVE  Begun'
  BY <1>0, <1>2, FitsOn, IdleFits DEF Asked, At
<1>3. ASSUME Made
      PROVE  Begun'
  <2>1. At("made") /\ Kept([Row EXCEPT !.created = TRUE], {"enable", "push"})
    BY <1>3, DeployDoes DEF Kept
  <2> QED BY <1>0, <2>1, FitsSaved, IdleFits DEF Kept, At, Deploying
<1>4. ASSUME Ready
      PROVE  Begun'
  BY <1>4, DeployDoes, IdleFits DEF Closed
<1>5. CASE Subdomain
  BY <1>1, <1>5, DeployDoes DEF Deploying
<1>6. CASE Register \/ Upload \/ Enable \/ Push
  BY <1>2, <1>6, DeployDoes DEF Deploying
<1>7. CASE Project \/ Patch
  BY <1>1, <1>2, <1>7, DeployDoes DEF Deploying
<1> QED BY <1>3, <1>4, <1>5, <1>6, <1>7 DEF DeploySteps

\* So does the attaching of a domain.
LEMMA AttachFits ==
  ASSUME TypeOK, Begun, AttachSteps
  PROVE  Begun'
<1>0. ~Quiet
  BY StepsAreBusy
<1>1. ASSUME NEW pc \in Attaching, At(pc), NEW pcs, Looked(pcs), pcs \subseteq Attaching
      PROVE  Begun'
  BY <1>0, <1>1, FitsOn, IdleFits DEF Looked, At
<1>2. ASSUME NEW pc \in Attaching, At(pc), NEW after, NEW to \in Attaching, Asked(after, to)
      PROVE  Begun'
  BY <1>0, <1>2, FitsOn, IdleFits DEF Asked, At
<1>3. ASSUME NEW pc \in Attaching, At(pc), NEW row, NEW pcs, Kept(row, pcs), pcs \subseteq Attaching
      PROVE  Begun'
  BY <1>0, <1>3, FitsSaved, IdleFits DEF Kept, At
<1>4. ASSUME Attached
      PROVE  Begun'
  BY <1>4, AttachDoes, IdleFits DEF Closed
<1>5. CASE Service \/ Zones \/ Records \/ Joined
  BY <1>1, <1>5, AttachDoes DEF Attaching
<1>6. CASE Claim \/ Post \/ Join
  BY <1>1, <1>2, <1>6, AttachDoes DEF Attaching
<1>7. CASE Pending \/ Zone \/ Recorded
  BY <1>3, <1>7, AttachDoes DEF Attaching
<1> QED BY <1>4, <1>5, <1>6, <1>7 DEF AttachSteps

\* So do the detaching of a domain and a deletion.
LEMMA DetachFits ==
  ASSUME TypeOK, Begun, DetachSteps
  PROVE  Begun'
<1>0. ~Quiet
  BY StepsAreBusy
<1>1. ASSUME NEW pc \in Leaving, At(pc), NEW pcs, Looked(pcs), pcs \subseteq Leaving
      PROVE  Begun'
  BY <1>0, <1>1, FitsOn, IdleFits DEF Looked, At
<1>2. ASSUME NEW pc \in Leaving, At(pc), NEW after, NEW to \in Leaving, Asked(after, to)
      PROVE  Begun'
  BY <1>0, <1>2, FitsOn, IdleFits DEF Asked, At
<1>3. CASE Check \/ Routes
  BY <1>1, <1>3, LeaveDoes DEF Leaving
<1>4. CASE Leave \/ Unrecord \/ Unroute
  BY <1>2, <1>4, LeaveDoes DEF Leaving
<1>5. CASE Detached
  <2>1. CASE Closed(Freed, {"taken"})
    BY <2>1, IdleFits DEF Closed
  <2>2. CASE job.cmd = "delete" /\ Looked({"remove"})
    BY <1>0, <2>2, FitsOn, IdleFits DEF Looked
  <2> QED BY <1>5, <2>1, <2>2, LeaveDoes
<1>6. CASE Remove
  <2>1. CASE job.cmd = "delete" /\ Asked(Set(job.n, NoScript), "forget")
    BY <1>0, <2>1, FitsOn, IdleFits DEF Asked
  <2>2. CASE job.cmd = "account" /\ Asked(Set(job.n, NoScript), "done")
    BY <1>0, <2>2, FitsOn, IdleFits DEF Asked
  <2> QED BY <1>6, <2>1, <2>2, RemoveDoes
<1>7. CASE Forget \/ Done
  BY <1>7, RemoveDoes, IdleFits DEF Closed
<1> QED BY <1>3, <1>4, <1>5, <1>6, <1>7 DEF DetachSteps

\* A command that begins fits the row it begins with.
LEMMA CommandsFit ==
  ASSUME TypeOK, NEW n \in Names
  PROVE  /\ \A env \in Envs : Create(n, env) \/ Update(n, env) => Begun'
         /\ Attach(n) \/ Detach(n) \/ Delete(n) \/ AccountDelete(n) => Begun'
<1>0. /\ Leaving \intersect (Deploying \union Attaching \union {"remove", "forget", "done"}) = {}
      /\ DeploysAt(n) \subseteq Deploying /\ "pending" \in Attaching /\ DetachAt(n) \in Leaving
      /\ DetachAt(n) \notin {"remove", "forget"} /\ "remove" \notin Leaving
  BY DEF Leaving, Deploying, Attaching, DeploysAt, DetachAt
<1>1. ASSUME NEW env \in Envs, Create(n, env)
      PROVE  Begun'
  <2>1. /\ job'.pc \in DeploysAt(n) /\ job'.cmd = "deploy" /\ job'.n = n
        /\ job'.row = NewRow(env) /\ NewRow(env) \in Rows
        /\ rows' = [rows EXCEPT ![n] = NewRow(env)]
        /\ unfinished' = [unfinished EXCEPT ![n] = @ \union {"script"}]
    BY <1>1, CreateDoes
  <2>2. rows'[n] = NewRow(env) /\ "script" \in unfinished'[n] /\ NewRow(env).saved
    BY <2>1 DEF TypeOK, Rows
  <2> QED BY <1>0, <2>1, <2>2 DEF Begun, stored, Row
<1>2. ASSUME NEW env \in Envs, Update(n, env)
      PROVE  Begun'
  <2>1. /\ job'.pc \in DeploysAt(n) /\ job'.cmd = "deploy" /\ job'.n = n
        /\ job'.row \in Rows /\ job'.row.domain = rows[n].domain /\ job'.row.pending = rows[n].pending
        /\ rows' = rows /\ stored(n)
        /\ unfinished' = [unfinished EXCEPT ![n] = @ \union {"script"}]
    BY <1>2, UpdateDoes
  <2>2. "script" \in unfinished'[n]
    BY <2>1 DEF TypeOK
  <2> QED BY <1>0, <2>1, <2>2 DEF Begun, stored, Row
<1>3. ASSUME Attach(n)
      PROVE  Begun'
  <2>1. stored(n) /\ rows[n] \in Rows
    BY <1>3, AttachBegins, StoredIsRow
  <2> QED BY <1>0, <1>3, <2>1, AttachBegins DEF Begun, stored, Row
<1>4. ASSUME Detach(n)
      PROVE  Begun'
  <2>1. stored(n) /\ rows[n] \in Rows
    BY <1>4, DetachBegins, StoredIsRow
  <2>2. "taken" \in unfinished'[n]
    BY <1>4, DetachBegins DEF TypeOK
  <2> QED BY <1>0, <1>4, <2>1, <2>2, DetachBegins DEF Begun, stored, Row
<1>5. ASSUME Delete(n)
      PROVE  Begun'
  <2>1. stored(n) /\ rows[n] \in Rows
    BY <1>5, DeleteBegins, StoredIsRow
  <2>2. "gone" \in unfinished'[n] /\ (job'.pc \in Leaving => "taken" \in unfinished'[n])
    BY <1>0, <1>5, DeleteBegins DEF TypeOK
  <2> QED BY <1>0, <1>5, <2>1, <2>2, DeleteBegins DEF Begun, stored, Row
<1>6. ASSUME AccountDelete(n)
      PROVE  Begun'
  BY <1>0, <1>6, AccountDeleteBegins DEF Begun, stored, Row
<1> QED BY <1>1, <1>2, <1>3, <1>4, <1>5, <1>6

\* Every step of the system keeps it.
LEMMA BegunStep ==
  ASSUME TypeOK, Begun, [Next]_vars
  PROVE  Begun'
<1>1. CASE Step
  BY <1>1, DeployFits, AttachFits, DetachFits DEF Step
<1>2. ASSUME NEW n \in Names, ForgetHere(n)
      PROVE  Begun'
  <2>1. job' = Idle
    BY <1>2, ForgetDoes, AtWork
  <2> QED BY <2>1, IdleFits
<1>3. ASSUME UNCHANGED <<rows, job, unfinished>>
      PROVE  Begun'
  BY <1>3 DEF Begun, Quiet, At, stored, Row
<1>4. CASE Connected \/ Stop \/ Operator \/ \E n \in Names : Connect(n)
  BY <1>3, <1>4, CarrierDoes, OperatorDoes
<1>5. CASE Crash
  BY <1>5, CrashDoes, IdleFits
<1>6. CASE UNCHANGED vars
  BY <1>3, <1>6 DEF vars
<1> QED BY <1>1, <1>2, <1>4, <1>5, <1>6, CommandsFit DEF Next
(***************************************************************************)
(* Each command asks about its own kind.                                   *)
(***************************************************************************)
\* A command that stays, or goes on to what its kind of deployment has, asks about its own.
LEMMA StaysOwn ==
  ASSUME TypeOK, OwnKind, ~Quiet, NEW pc, NEW row, Went(pc, row),
         pc = job.pc \/ (/\ pc \in OfWorkers => job.n \notin Pages
                         /\ pc \in OfPages => job.n \in Pages)
  PROVE  OwnKind'
BY DEF OwnKind, Went

\* No command asks nobody.
LEMMA IdleOwn ==
  ASSUME job' = Idle
  PROVE  OwnKind'
BY DEF OwnKind, Idle, OfWorkers, OfPages

\* A deployment is of one kind.
LEMMA OneKind ==
  ASSUME NEW n \in Names
  PROVE  n \in Pages <=> n \notin Workers
BY KindsAreApart DEF Names

\* A step of a command goes on to what its kind of deployment has.
LEMMA StepIsOwn ==
  ASSUME TypeOK, Begun, OwnKind, Step
  PROVE  OwnKind'
<1>0. ~Quiet /\ job.n \in Names /\ (job.n \in Pages <=> job.n \notin Workers)
  BY StepsAreBusy, AtWork, OneKind DEF Step
<1> DEFINE Fits(pc) == (pc \in OfWorkers => job.n \notin Pages) /\ (pc \in OfPages => job.n \in Pages)
<1>1. ASSUME NEW pcs, Looked(pcs), \A pc \in pcs : Fits(pc)
      PROVE  OwnKind'
  BY <1>0, <1>1, StaysOwn, IdleOwn DEF Looked
<1>2. ASSUME NEW after, NEW pc, Asked(after, pc), Fits(pc)
      PROVE  OwnKind'
  BY <1>0, <1>2, StaysOwn, IdleOwn DEF Asked
<1>3. ASSUME NEW row, NEW pcs, Kept(row, pcs), \A pc \in pcs : Fits(pc)
      PROVE  OwnKind'
  BY <1>0, <1>3, StaysOwn, IdleOwn DEF Kept
<1>4. ASSUME NEW row, NEW parts, Closed(row, parts)
      PROVE  OwnKind'
  BY <1>4, IdleOwn DEF Closed
<1>5. Fits(job.pc)
  BY DEF OwnKind
<1>6. \A pc \in {"made", "ready", "attached", "domains", "detached", "remove", "forget", "done"} :
        pc # "domains" => Fits(pc)
  BY DEF OfWorkers, OfPages
<1>7. CASE DeploySteps
  <2>1. CASE Subdomain
    BY <1>1, <1>5, <2>1, DeployDoes DEF At, OfWorkers, OfPages
  <2>2. CASE Register \/ Upload \/ Enable \/ Push
    BY <1>2, <1>5, <2>2, DeployDoes DEF At, OfWorkers, OfPages
  <2>3. CASE Project \/ Patch
    BY <1>1, <1>2, <1>5, <2>3, DeployDoes DEF At, OfWorkers, OfPages
  <2>4. CASE Made
    BY <1>0, <1>3, <2>4, DeployDoes DEF OfWorkers, OfPages
  <2>5. CASE Ready
    BY <1>4, <2>5, DeployDoes
  <2> QED BY <1>7, <2>1, <2>2, <2>3, <2>4, <2>5 DEF DeploySteps
<1>8. CASE AttachSteps
  <2>1. CASE Service \/ Zones \/ Records
    BY <1>1, <1>5, <2>1, AttachDoes DEF At, OfWorkers, OfPages
  <2>2. CASE Joined
    BY <1>1, <1>5, <2>2, AttachDoes DEF At, OfWorkers, OfPages
  <2>3. CASE Claim
    BY <1>2, <2>3, AttachDoes DEF OfWorkers, OfPages
  <2>4. CASE Post \/ Join
    BY <1>1, <1>2, <1>5, <2>4, AttachDoes DEF At, OfWorkers, OfPages
  <2>5. CASE Pending
    BY <1>0, <1>3, <2>5, AttachDoes DEF OfWorkers, OfPages
  <2>6. CASE Zone \/ Recorded
    BY <1>3, <1>5, <2>6, AttachDoes DEF At, OfWorkers, OfPages
  <2>7. CASE Attached
    BY <1>4, <2>7, AttachDoes
  <2> QED BY <1>8, <2>1, <2>2, <2>3, <2>4, <2>5, <2>6, <2>7 DEF AttachSteps
<1>9. CASE DetachSteps
  <2>1. CASE Check \/ Routes
    BY <1>1, <1>5, <2>1, LeaveDoes DEF At, OfWorkers, OfPages
  <2>2. CASE Leave \/ Unrecord \/ Unroute
    BY <1>2, <1>5, <2>2, LeaveDoes DEF At, OfWorkers, OfPages
  <2>3. CASE Detached
    BY <1>1, <1>4, <2>3, LeaveDoes DEF OfWorkers, OfPages
  <2>4. CASE Remove
    BY <1>2, <2>4, RemoveDoes DEF OfWorkers, OfPages
  <2>5. CASE Forget \/ Done
    BY <1>4, <2>5, RemoveDoes, IdleOwn
  <2> QED BY <1>9, <2>1, <2>2, <2>3, <2>4, <2>5 DEF DetachSteps
<1> QED BY <1>7, <1>8, <1>9 DEF Step

\* Every step of the system keeps each command to its own kind.
LEMMA OwnKindStep ==
  ASSUME TypeOK, Begun, OwnKind, [Next]_vars
  PROVE  OwnKind'
<1>1. ASSUME NEW n \in Names, NEW env \in Envs, Create(n, env) \/ Update(n, env)
      PROVE  OwnKind'
  <2>1. job'.pc \in DeploysAt(n) /\ job'.n = n
    BY <1>1, CreateDoes, UpdateDoes
  <2> QED BY <2>1, OneKind DEF OwnKind, OfWorkers, OfPages, DeploysAt
<1>2. ASSUME NEW n \in Names, Attach(n) \/ Detach(n) \/ Delete(n) \/ AccountDelete(n)
      PROVE  OwnKind'
  <2>1. job'.pc \in {"pending", "remove", DetachAt(n)} /\ job'.n = n
    BY <1>2, AttachBegins, DetachBegins, DeleteBegins, AccountDeleteBegins
  <2> QED BY <2>1 DEF OwnKind, OfWorkers, OfPages, DetachAt
<1>3. ASSUME UNCHANGED job
      PROVE  OwnKind'
  BY <1>3 DEF OwnKind
<1>4. ASSUME NEW n \in Names, ForgetHere(n) \/ Connect(n)
      PROVE  OwnKind'
  BY <1>3, <1>4, ForgetDoes, CarrierDoes
<1>5. CASE Connected \/ Stop \/ Operator \/ Crash
  BY <1>3, <1>5, CarrierDoes, OperatorDoes, CrashDoes, IdleOwn
<1>6. CASE UNCHANGED vars
  BY <1>3, <1>6 DEF vars
<1> QED BY <1>1, <1>2, <1>4, <1>5, <1>6, StepIsOwn DEF Next

(***************************************************************************)
(* What is kept of what is on Cloudflare.                                  *)
(***************************************************************************)
Knowing == TypeOK /\ Begun /\ OwnKind /\ Known

\* What a script or a domain of a deployment needs of its row.
LEMMA StillKnown ==
  ASSUME NothingIsOrphaned, forgotten' = forgotten,
         \A m \in Names :
           /\ cloud'.script[m].made => cloud.script[m].made \/ rows'[m].saved
           /\ HasDomain(m)' => HasDomain(m) \/ (rows'[m].saved /\ rows'[m].domain)
           /\ stored(m) => rows'[m].saved \/ (~cloud'.script[m].made /\ ~HasDomain(m)')
           /\ stored(m) /\ rows[m].domain => rows'[m].domain \/ ~HasDomain(m)'
  PROVE  NothingIsOrphaned'
BY DEF NothingIsOrphaned, stored

\* Rows and cloud as they were.
LEMMA SameIsKnown ==
  ASSUME NothingIsOrphaned, UNCHANGED <<rows, cloud>>, forgotten \subseteq forgotten'
  PROVE  NothingIsOrphaned'
BY DEF NothingIsOrphaned, stored, HasDomain

\* The domains of a cloud whose scripts only have changed.
LEMMA SameDomains ==
  ASSUME cloud'.service = cloud.service, cloud'.pages = cloud.pages, NEW m
  PROVE  HasDomain(m)' <=> HasDomain(m)
BY DEF HasDomain
\* The domain of a deployment as a cloud has it.
DomainIn(c, m) == IF m \in Pages THEN c.pages = m ELSE c.service = m

\* A question tells nothing that is not there.
LEMMA LookKnown ==
  ASSUME Knowing, ~Quiet, UNCHANGED forgotten, NEW pcs, Looked(pcs), job.pc # "pending",
         \A pc \in pcs : /\ pc \in Gone /\ job.cmd # "account" => ~HasDomain(job.n)
                         /\ pc # "forget"
  PROVE  Known'
<1>1. NothingIsOrphaned'
  BY SameIsKnown DEF Looked, Knowing, Known
<1>2. CASE job' = Idle
  BY <1>1, <1>2 DEF Known, Knowing, Looked, Quiet, At, Idle, stored
<1>3. CASE \E pc \in pcs \union {job.pc} : Went(pc, job.row)
  <2>1. PICK pc \in pcs \union {job.pc} : Went(pc, job.row)
    BY <1>3
  <2>2. /\ job'.pc = pc /\ job'.cmd = job.cmd /\ job'.n = job.n /\ job'.row = job.row
        /\ rows' = rows /\ cloud' = cloud
    BY <2>1 DEF Went, Looked
  <2>3. (~Quiet /\ job.cmd = "attach" => Row.domain)'
    BY <2>2 DEF Knowing, Known, Row
  <2>4. (~Quiet /\ job.cmd # "account" /\ job.pc \in Gone => ~HasDomain(job.n))'
    BY <2>2, <2>1 DEF Knowing, Known, HasDomain
  <2>5. (At("forget") => ~Script.made)'
    BY <2>2, <2>1 DEF Knowing, Known, At, Script
  <2> QED BY <1>1, <2>2, <2>3, <2>4, <2>5 DEF Known, Knowing, stored
<1> QED BY <1>2, <1>3 DEF Looked

\* A request makes nothing that has no row, and leads no domain where the row has none.
LEMMA AskKnown ==
  ASSUME Knowing, ~Quiet, UNCHANGED forgotten, NEW after, NEW pc, Asked(after, pc),
         job.pc \notin {"pending", "forget"},
         \A m \in Names :
           /\ after.script[m].made => cloud.script[m].made \/ (m = job.n /\ stored(m))
           /\ DomainIn(after, m) =>
                HasDomain(m) \/ (m = job.n /\ stored(m) /\ rows[m].domain /\ job.pc \notin Gone),
         pc \in Gone /\ job.cmd # "account" => ~DomainIn(after, job.n),
         pc = "forget" => ~after.script[job.n].made
  PROVE  Known'
<1>0. job.n \in Names /\ rows' = rows /\ cloud' \in {cloud, after}
  BY AtWork DEF Asked, Knowing
<1>1. NothingIsOrphaned'
  <2>1. \A m \in Names : cloud'.script[m].made => cloud.script[m].made \/ rows'[m].saved
    BY <1>0 DEF stored
  <2>2. \A m \in Names : HasDomain(m)' => HasDomain(m) \/ (rows'[m].saved /\ rows'[m].domain)
    BY <1>0 DEF stored, HasDomain, DomainIn
  <2>3. \A m \in Names : (stored(m) => rows'[m].saved) /\ (rows[m].domain => rows'[m].domain)
    BY <1>0 DEF stored
  <2> QED BY <2>1, <2>2, <2>3, StillKnown DEF Knowing, Known
<1>2. CASE job' = Idle
  BY <1>0, <1>1, <1>2 DEF Known, Knowing, Quiet, At, Idle, stored
<1>3. CASE Went(job.pc, job.row)
  <2>2. /\ job'.pc = job.pc /\ job'.cmd = job.cmd /\ job'.n = job.n /\ job'.row = job.row
    BY <1>3 DEF Went
  <2>3. (~Quiet /\ job.cmd = "attach" => Row.domain)'
    BY <2>2 DEF Knowing, Known, Row
  <2>4. (~Quiet /\ job.cmd # "account" /\ job.pc \in Gone => ~HasDomain(job.n))'
    BY <1>0, <2>2 DEF Knowing, Known, HasDomain, DomainIn
  <2>5. (At("forget") => ~Script.made)'
    BY <2>2 DEF At
  <2> QED BY <1>0, <1>1, <2>2, <2>3, <2>4, <2>5 DEF Known, Knowing, stored
<1>4. CASE cloud' = after /\ Went(pc, job.row)
  <2>2. /\ job'.pc = pc /\ job'.cmd = job.cmd /\ job'.n = job.n /\ job'.row = job.row
    BY <1>4 DEF Went
  <2>3. (~Quiet /\ job.cmd = "attach" => Row.domain)'
    BY <2>2 DEF Knowing, Known, Row
  <2>4. (~Quiet /\ job.cmd # "account" /\ job.pc \in Gone => ~HasDomain(job.n))'
    BY <1>4, <2>2 DEF HasDomain, DomainIn
  <2>5. (At("forget") => ~Script.made)'
    BY <1>4, <2>2 DEF At, Script
  <2> QED BY <1>0, <1>1, <2>2, <2>3, <2>4, <2>5 DEF Known, Knowing, stored
<1> QED BY <1>2, <1>3, <1>4 DEF Asked

\* A save of the row in hand loses no domain.
LEMMA KeptKnown ==
  ASSUME Knowing, ~Quiet, UNCHANGED forgotten, NEW row, NEW pcs, Kept(row, pcs), stored(job.n),
         rows[job.n].domain => row.domain, job.cmd = "attach" => row.domain,
         pcs \intersect (Gone \union {"forget"}) = {}
  PROVE  Known'
<1>0. job.n \in Names /\ row.saved /\ row \in Rows
  BY AtWork DEF Kept, Knowing, Rows
<1>1. CASE rows' = rows /\ job' = Idle
  <2>1. NothingIsOrphaned'
    BY <1>1, SameIsKnown DEF Kept, Knowing, Known
  <2> QED BY <1>1, <2>1 DEF Known, Knowing, Quiet, At, Idle, stored
<1>2. CASE rows' = [rows EXCEPT ![job.n] = row] /\ \E pc \in pcs : Went(pc, row)
  <2>1. rows'[job.n] = row /\ (\A m \in Names \ {job.n} : rows'[m] = rows[m]) /\ cloud' = cloud
    BY <1>0, <1>2 DEF Knowing, TypeOK, Kept
  <2>2. NothingIsOrphaned'
    BY <1>0, <2>1, StillKnown DEF stored, HasDomain, Knowing, Known
  <2>3. PICK pc \in pcs : Went(pc, row)
    BY <1>2
  <2>4. job'.pc = pc /\ job'.cmd = job.cmd /\ job'.n = job.n /\ job'.row = row
    BY <2>3 DEF Went
  <2>5. pc \notin Gone /\ pc # "forget"
    BY <2>3
  <2>6. \A m \in forgotten : ~stored(m)'
    BY <2>1 DEF stored, Knowing, Known, TypeOK
  <2> QED BY <2>2, <2>4, <2>5, <2>6 DEF Known, Row, At
<1> QED BY <1>1, <1>2 DEF Kept

\* The last save of a command loses nothing that is there.
LEMMA ClosedKnown ==
  ASSUME Knowing, ~Quiet, UNCHANGED forgotten, NEW row, NEW parts, Closed(row, parts), stored(job.n),
         row.saved \/ (~Script.made /\ ~HasDomain(job.n)),
         rows[job.n].domain => row.domain \/ ~HasDomain(job.n)
  PROVE  Known'
<1>0. job.n \in Names /\ cloud' = cloud /\ job' = Idle
  BY AtWork DEF Closed, Knowing
<1>1. CASE rows' = rows
  <2>1. NothingIsOrphaned'
    BY <1>0, <1>1, SameIsKnown DEF Knowing, Known
  <2> QED BY <1>0, <1>1, <2>1 DEF Known, Knowing, Quiet, At, Idle, stored
<1>2. CASE rows' = [rows EXCEPT ![job.n] = row]
  <2>1. rows'[job.n] = row /\ \A m \in Names \ {job.n} : rows'[m] = rows[m]
    BY <1>0, <1>2 DEF Knowing, TypeOK
  <2>2. NothingIsOrphaned'
    BY <1>0, <2>1, StillKnown DEF stored, HasDomain, Script, Knowing, Known
  <2>3. \A m \in forgotten : ~stored(m)'
    BY <2>1 DEF stored, Knowing, Known, TypeOK
  <2> QED BY <1>0, <2>2, <2>3 DEF Known, Quiet, At, Idle
<1> QED BY <1>1, <1>2 DEF Closed
\* A request that replaces the script in hand leads no domain anywhere.
LEMMA ScriptKnown ==
  ASSUME Knowing, ~Quiet, UNCHANGED forgotten, NEW script \in Scripts, NEW pc,
         Asked(Set(job.n, script), pc), job.pc \notin {"pending", "forget"},
         script.made => Script.made \/ stored(job.n),
         pc \notin Gone \/ job.pc \in Gone \/ job.cmd = "account",
         pc = "forget" => ~script.made
  PROVE  Known'
<1>1. job.n \in Names /\ cloud \in Clouds
  BY AtWork DEF Knowing, TypeOK
<1>2. /\ Set(job.n, script).script[job.n] = script
      /\ \A m \in Names \ {job.n} : Set(job.n, script).script[m] = cloud.script[m]
      /\ \A m \in Names : DomainIn(Set(job.n, script), m) <=> HasDomain(m)
  BY <1>1, SetIs DEF DomainIn, HasDomain
<1>3. \A m \in Names : Set(job.n, script).script[m].made => cloud.script[m].made \/ (m = job.n /\ stored(m))
  BY <1>1, <1>2 DEF Script
<1>4. pc \in Gone /\ job.cmd # "account" => ~DomainIn(Set(job.n, script), job.n)
  BY <1>1, <1>2 DEF Knowing, Known
<1> QED BY <1>1, <1>2, <1>3, <1>4, AskKnown

\* A request that gives away no domain but the one in hand, to a deployment that wants it.
LEMMA DomainKnown ==
  ASSUME Knowing, ~Quiet, UNCHANGED forgotten, NEW after \in Clouds, NEW pc, Asked(after, pc),
         job.pc \notin {"pending", "forget"}, after.script = cloud.script, pc # "forget",
         \A m \in Names : DomainIn(after, m) => HasDomain(m) \/ (m = job.n /\ job.pc \in Attaching),
         pc \in Gone => ~DomainIn(after, job.n)
  PROVE  Known'
<1>1. job.pc \in Attaching => /\ stored(job.n) /\ rows[job.n].domain /\ job.pc \notin Gone
  <2>1. Attaching \intersect Gone = {}
    BY DEF Attaching, Gone
  <2>2. job.pc \in Attaching => job.cmd = "attach"
    BY Whose DEF Knowing
  <2> QED BY <2>1, <2>2 DEF Knowing, Begun, Known, Row
<1> QED BY <1>1, AskKnown

\* A deployment makes a script only where there is a row.
LEMMA DeployKnown ==
  ASSUME Knowing, UNCHANGED forgotten, DeploySteps
  PROVE  Known'
<1>0. TypeOK /\ Begun /\ ~Quiet
  BY StepsAreBusy DEF Knowing
<1>1. ASSUME NEW pc \in Deploying, At(pc)
      PROVE  /\ stored(job.n) /\ job.pc \notin {"pending", "forget"} /\ Row \in Rows /\ Script \in Scripts
             /\ job.cmd = "deploy" /\ Row.domain = rows[job.n].domain
  <2>1. job.cmd = "deploy" /\ Script \in Scripts
    BY <1>0, <1>1, Whose, InHand DEF At, Labels
  <2> QED BY <1>0, <1>1, <2>1 DEF Begun, At, Deploying
<1>2. {"upload", "register", "patch", "made", "ready", "enable", "push"} \intersect (Gone \union {"forget"}) = {}
  BY DEF Gone
<1>3. CASE Subdomain
  BY <1>0, <1>1, <1>2, <1>3, DeployDoes, LookKnown DEF Deploying
<1>4. CASE Register
  <2>1. At("register") /\ Asked([cloud EXCEPT !.registered = TRUE], "upload")
    BY <1>0, <1>4, DeployDoes
  <2>2. /\ [cloud EXCEPT !.registered = TRUE] \in Clouds
        /\ [cloud EXCEPT !.registered = TRUE].script = cloud.script
        /\ [cloud EXCEPT !.registered = TRUE].service = cloud.service
        /\ [cloud EXCEPT !.registered = TRUE].pages = cloud.pages
    BY <1>0 DEF TypeOK, Clouds
  <2>3. \A m \in Names : DomainIn([cloud EXCEPT !.registered = TRUE], m) => HasDomain(m)
    BY <2>2 DEF DomainIn, HasDomain
  <2> QED BY <1>0, <1>1, <1>2, <2>1, <2>2, <2>3, DomainKnown DEF Deploying
<1>5. Uploaded \in Scripts \/ ~At("upload")
  BY <1>0, <1>1 DEF Uploaded, Scripts, Rows, Deploying
<1>6. Begotten \in Scripts \/ ~At("project")
  BY <1>0, <1>1 DEF Begotten, Scripts, Rows, Deploying
<1>7. Patched \in Scripts \/ ~At("patch")
  BY <1>0, <1>1 DEF Patched, Scripts, Rows, Deploying
<1>8. Enabled_ \in Scripts \/ ~At("enable")
  BY <1>0, <1>1 DEF Enabled_, Scripts, Deploying
<1>9. Pushed \in Scripts \/ ~At("push")
  BY <1>0, <1>1 DEF Pushed, Scripts, Deploying
<1>10. CASE Upload
  BY <1>0, <1>1, <1>2, <1>5, <1>10, DeployDoes, ScriptKnown DEF Deploying
<1>11. CASE Project
  <2>1. At("project") /\ (Looked({"patch"}) \/ Asked(Set(job.n, Begotten), "made"))
    BY <1>0, <1>11, DeployDoes
  <2>2. CASE Looked({"patch"})
    BY <1>0, <1>1, <1>2, <2>1, <2>2, LookKnown DEF Deploying
  <2>3. CASE Asked(Set(job.n, Begotten), "made")
    BY <1>0, <1>1, <1>2, <1>6, <2>1, <2>3, ScriptKnown DEF Deploying
  <2> QED BY <2>1, <2>2, <2>3
<1>12. CASE Patch
  <2>1. At("patch") /\ (Looked({}) \/ Asked(Set(job.n, Patched), "made"))
    BY <1>0, <1>12, DeployDoes
  <2>2. CASE Looked({})
    BY <1>0, <1>1, <2>1, <2>2, LookKnown DEF Deploying
  <2>3. CASE Asked(Set(job.n, Patched), "made")
    BY <1>0, <1>1, <1>2, <1>7, <2>1, <2>3, ScriptKnown DEF Deploying
  <2> QED BY <2>1, <2>2, <2>3
<1>13. CASE Enable
  BY <1>0, <1>1, <1>2, <1>8, <1>13, DeployDoes, ScriptKnown DEF Deploying
<1>14. CASE Push
  BY <1>0, <1>1, <1>2, <1>9, <1>14, DeployDoes, ScriptKnown DEF Deploying
<1>15. CASE Made
  <2>1. At("made") /\ Kept([Row EXCEPT !.created = TRUE], {IF job.n \in Workers THEN "enable" ELSE "push"})
    BY <1>0, <1>15, DeployDoes
  <2>2. stored(job.n) /\ job.cmd = "deploy" /\ Row \in Rows /\ Row.domain = rows[job.n].domain
    BY <1>1, <2>1 DEF Deploying
  <2>3. [Row EXCEPT !.created = TRUE].domain = Row.domain
    BY <2>2 DEF Rows
  <2> QED BY <1>0, <1>2, <2>1, <2>2, <2>3, KeptKnown
<1>16. CASE Ready
  <2>1. At("ready") /\ Closed([Row EXCEPT !.ready = TRUE], {"script", "gone"})
    BY <1>0, <1>16, DeployDoes
  <2>2. stored(job.n) /\ job.cmd = "deploy" /\ Row \in Rows /\ Row.domain = rows[job.n].domain
    BY <1>1, <2>1 DEF Deploying
  <2>3. [Row EXCEPT !.ready = TRUE].domain = Row.domain /\ [Row EXCEPT !.ready = TRUE].saved
    BY <2>2 DEF Rows
  <2> QED BY <1>0, <2>1, <2>2, <2>3, ClosedKnown
<1> QED BY <1>3, <1>4, <1>10, <1>11, <1>12, <1>13, <1>14, <1>15, <1>16 DEF DeploySteps

\* A domain is claimed only once its row says so.
LEMMA AttachKnown ==
  ASSUME Knowing, UNCHANGED forgotten, AttachSteps
  PROVE  Known'
<1>0. TypeOK /\ Begun /\ ~Quiet /\ job.n \in Names /\ cloud \in Clouds
  BY StepsAreBusy, AtWork DEF Knowing, TypeOK
<1>1. ASSUME NEW pc \in Attaching, At(pc)
      PROVE  /\ stored(job.n) /\ job.pc # "forget" /\ Row \in Rows /\ job.pc \in Attaching
             /\ job.cmd = "attach" /\ Row = rows[job.n] /\ (pc # "pending" => Row.domain)
  <2>1. job.cmd = "attach"
    BY <1>0, <1>1, Whose DEF At
  <2> QED BY <1>0, <1>1, <2>1 DEF Begun, At, Attaching, Knowing, Known
<1>2. Attaching \intersect (Gone \union {"forget"}) = {}
  BY DEF Gone, Attaching
<1>3. ASSUME NEW pcs \in SUBSET Attaching, NEW pc \in Attaching \ {"pending"}, At(pc), Looked(pcs)
      PROVE  Known'
  BY <1>0, <1>1, <1>2, <1>3, LookKnown DEF At
<1>4. ASSUME NEW after \in Clouds, NEW pc \in Attaching \ {"pending"}, At(pc), NEW to \in Attaching,
             Asked(after, to), after.script = cloud.script,
             \A m \in Names : DomainIn(after, m) => HasDomain(m) \/ m = job.n
      PROVE  Known'
  BY <1>0, <1>1, <1>2, <1>4, DomainKnown DEF At
<1>5. ASSUME NEW pc \in Attaching, At(pc), NEW row, NEW pcs, Kept(row, pcs), pcs \subseteq Attaching,
             row.domain
      PROVE  Known'
  BY <1>0, <1>1, <1>2, <1>5, KeptKnown
<1>6. CASE Service \/ Zones \/ Records \/ Joined
  BY <1>0, <1>3, <1>6, AttachDoes DEF Attaching
<1>7. CASE Claim
  <2>1. At("claim") /\ Asked([cloud EXCEPT !.service = job.n], "attached")
    BY <1>0, <1>7, AttachDoes
  <2>2. /\ [cloud EXCEPT !.service = job.n] \in Clouds
        /\ [cloud EXCEPT !.service = job.n].script = cloud.script
        /\ [cloud EXCEPT !.service = job.n].pages = cloud.pages
        /\ [cloud EXCEPT !.service = job.n].service = job.n
    BY <1>0 DEF Clouds
  <2>3. \A m \in Names : DomainIn([cloud EXCEPT !.service = job.n], m) => HasDomain(m) \/ m = job.n
    BY <2>2 DEF DomainIn, HasDomain
  <2> QED BY <1>4, <2>1, <2>2, <2>3 DEF Attaching
<1>8. CASE Post
  <2>1. At("post") /\ (Looked({}) \/ Asked([cloud EXCEPT !.record = job.n], "record"))
    BY <1>0, <1>8, AttachDoes
  <2>2. /\ [cloud EXCEPT !.record = job.n] \in Clouds
        /\ [cloud EXCEPT !.record = job.n].script = cloud.script
        /\ [cloud EXCEPT !.record = job.n].pages = cloud.pages
        /\ [cloud EXCEPT !.record = job.n].service = cloud.service
    BY <1>0 DEF Clouds
  <2>3. \A m \in Names : DomainIn([cloud EXCEPT !.record = job.n], m) => HasDomain(m) \/ m = job.n
    BY <2>2 DEF DomainIn, HasDomain
  <2> QED BY <1>3, <1>4, <2>1, <2>2, <2>3 DEF Attaching
<1>9. CASE Join
  <2>1. At("join") /\ (Looked({}) \/ Asked([cloud EXCEPT !.pages = job.n], "attached"))
    BY <1>0, <1>9, AttachDoes
  <2>2. /\ [cloud EXCEPT !.pages = job.n] \in Clouds
        /\ [cloud EXCEPT !.pages = job.n].script = cloud.script
        /\ [cloud EXCEPT !.pages = job.n].pages = job.n
        /\ [cloud EXCEPT !.pages = job.n].service = cloud.service
    BY <1>0 DEF Clouds
  <2>3. \A m \in Names : DomainIn([cloud EXCEPT !.pages = job.n], m) => HasDomain(m) \/ m = job.n
    BY <2>2 DEF DomainIn, HasDomain
  <2> QED BY <1>3, <1>4, <2>1, <2>2, <2>3 DEF Attaching
<1>10. CASE Pending
  <2>1. /\ At("pending")
        /\ Kept([Row EXCEPT !.domain = TRUE, !.pending = TRUE],
                {IF job.n \in Workers THEN "service" ELSE IF Row.zone THEN "records" ELSE "zones"})
    BY <1>0, <1>10, AttachDoes
  <2>2. [Row EXCEPT !.domain = TRUE, !.pending = TRUE].domain
    BY <1>1, <2>1 DEF Rows, Attaching
  <2> QED BY <1>5, <2>1, <2>2 DEF Attaching
<1>11. CASE Zone
  <2>1. At("zone") /\ Kept([Row EXCEPT !.zone = TRUE], {"records"})
    BY <1>0, <1>11, AttachDoes
  <2>2. [Row EXCEPT !.zone = TRUE].domain
    BY <1>1, <2>1 DEF Rows, Attaching
  <2> QED BY <1>5, <2>1, <2>2 DEF Attaching
<1>12. CASE Recorded
  <2>1. At("record") /\ Kept([Row EXCEPT !.record = TRUE], {"domains"})
    BY <1>0, <1>12, AttachDoes
  <2>2. [Row EXCEPT !.record = TRUE].domain
    BY <1>1, <2>1 DEF Rows, Attaching
  <2> QED BY <1>5, <2>1, <2>2 DEF Attaching
<1>13. CASE Attached
  <2>1. At("attached") /\ Closed([Row EXCEPT !.pending = FALSE], {"taken"})
    BY <1>0, <1>13, AttachDoes
  <2>2. stored(job.n) /\ Row \in Rows /\ Row.domain
    BY <1>1, <2>1 DEF Attaching
  <2>3. [Row EXCEPT !.pending = FALSE].domain /\ [Row EXCEPT !.pending = FALSE].saved
    BY <2>2 DEF Rows
  <2> QED BY <1>0, <2>1, <2>2, <2>3, ClosedKnown
<1> QED BY <1>6, <1>7, <1>8, <1>9, <1>10, <1>11, <1>12, <1>13 DEF AttachSteps
\* A row goes only after what it stands for.
LEMMA DetachKnown ==
  ASSUME Knowing, UNCHANGED forgotten, DetachSteps
  PROVE  Known'
<1>0. TypeOK /\ Begun /\ ~Quiet /\ job.n \in Names /\ cloud \in Clouds /\ Nobody \notin Names
  BY StepsAreBusy, AtWork, NamesAreNames DEF Knowing, TypeOK
<1>1. ASSUME NEW pc \in Leaving, At(pc)
      PROVE  /\ stored(job.n) /\ job.pc \notin {"pending", "forget"} /\ Row \in Rows
             /\ job.cmd \in {"detach", "delete"} /\ Row = rows[job.n] /\ job.n \notin forgotten
  <2>1. job.cmd \in {"detach", "delete"}
    BY <1>0, <1>1, Whose DEF At
  <2> QED BY <1>0, <1>1, <2>1 DEF Begun, At, Leaving, Knowing, Known
<1>2. CASE Leave
  <2> DEFINE after == [cloud EXCEPT !.pages = Without(@)]
  <2>1. At("leave") /\ (Asked(after, "check") \/ Asked(after, "detached"))
    BY <1>0, <1>2, LeaveDoes
  <2>2. job.n \in Pages
    BY <2>1 DEF Knowing, OwnKind, OfPages, At
  <2>3. /\ after \in Clouds /\ after.script = cloud.script /\ after.service = cloud.service
        /\ after.pages = Without(cloud.pages)
    BY <1>0 DEF Clouds, Without
  <2>4. \A m \in Names : DomainIn(after, m) => HasDomain(m)
    BY <1>0, <2>3 DEF DomainIn, HasDomain, Without
  <2>5. ~DomainIn(after, job.n)
    BY <1>0, <2>2, <2>3 DEF DomainIn, Without
  <2> HIDE DEF after
  <2> QED BY <1>0, <1>1, <2>1, <2>3, <2>4, <2>5, DomainKnown DEF Leaving
<1>3. CASE Check
  <2>1. At("check") /\ Looked({"unrecord", "detached"})
    BY <1>0, <1>3, LeaveDoes
  <2>2. job.cmd # "account" => ~HasDomain(job.n)
    BY <1>0, <2>1 DEF Knowing, Known, Gone, At
  <2> QED BY <1>0, <1>1, <2>1, <2>2, LookKnown DEF Leaving
<1>4. CASE Unrecord
  <2> DEFINE after == [cloud EXCEPT !.record = Nobody]
  <2>1. At("unrecord") /\ Asked(after, "detached")
    BY <1>0, <1>4, LeaveDoes
  <2>2. /\ after \in Clouds /\ after.script = cloud.script /\ after.service = cloud.service
        /\ after.pages = cloud.pages
    BY <1>0 DEF Clouds
  <2>3. \A m \in Names : DomainIn(after, m) <=> HasDomain(m)
    BY <2>2 DEF DomainIn, HasDomain
  <2>4. ~HasDomain(job.n)
    BY <1>0, <1>1, <2>1 DEF Knowing, Known, Gone, At, Leaving
  <2> HIDE DEF after
  <2> QED BY <1>0, <1>1, <2>1, <2>2, <2>3, <2>4, DomainKnown DEF Leaving
<1>5. CASE Routes
  <2>1. At("routes") /\ (Looked({"unroute"}) \/ (cloud.service # job.n /\ Looked({"detached"})))
    BY <1>0, <1>5, LeaveDoes
  <2>2. job.n \notin Pages
    BY <2>1 DEF Knowing, OwnKind, OfWorkers, At
  <2>3. CASE Looked({"unroute"})
    BY <1>0, <1>1, <2>1, <2>3, LookKnown DEF Leaving, Gone
  <2>4. CASE cloud.service # job.n /\ Looked({"detached"})
    <3>1. ~HasDomain(job.n)
      BY <2>2, <2>4 DEF HasDomain
    <3> QED BY <1>0, <1>1, <2>1, <2>4, <3>1, LookKnown DEF Leaving
  <2> QED BY <2>1, <2>3, <2>4
<1>6. CASE Unroute
  <2> DEFINE after == [cloud EXCEPT !.service = Without(@)]
  <2>1. At("unroute") /\ Asked(after, "detached")
    BY <1>0, <1>6, LeaveDoes
  <2>2. job.n \notin Pages
    BY <2>1 DEF Knowing, OwnKind, OfWorkers, At
  <2>3. /\ after \in Clouds /\ after.script = cloud.script /\ after.pages = cloud.pages
        /\ after.service = Without(cloud.service)
    BY <1>0 DEF Clouds, Without
  <2>4. \A m \in Names : DomainIn(after, m) => HasDomain(m)
    BY <1>0, <2>3 DEF DomainIn, HasDomain, Without
  <2>5. ~DomainIn(after, job.n)
    BY <1>0, <2>2, <2>3 DEF DomainIn, Without
  <2> HIDE DEF after
  <2> QED BY <1>0, <1>1, <2>1, <2>3, <2>4, <2>5, DomainKnown DEF Leaving
<1>7. CASE Detached
  <2>1. At("detached") /\ (Closed(Freed, {"taken"}) \/ Looked({"remove"}))
    BY <1>0, <1>7, LeaveDoes
  <2>2. ~HasDomain(job.n)
    BY <1>0, <1>1, <2>1 DEF Knowing, Known, Gone, At, Leaving
  <2>3. stored(job.n) /\ Row \in Rows /\ job.pc # "pending"
    BY <1>1, <2>1 DEF Leaving
  <2>4. Freed.saved
    BY <2>3 DEF Freed, Rows
  <2>5. CASE Closed(Freed, {"taken"})
    BY <1>0, <2>2, <2>3, <2>4, <2>5, ClosedKnown
  <2>6. CASE Looked({"remove"})
    BY <1>0, <2>2, <2>3, <2>6, LookKnown
  <2> QED BY <2>1, <2>5, <2>6
<1>8. CASE Remove
  <2>1. /\ At("remove")
        /\ \/ job.cmd = "delete" /\ Asked(Set(job.n, NoScript), "forget")
           \/ job.cmd = "account" /\ Asked(Set(job.n, NoScript), "done")
    BY <1>0, <1>8, RemoveDoes
  <2>2. NoScript \in Scripts /\ ~NoScript.made
    BY DEF NoScript, Scripts
  <2>3. job.pc \in Gone /\ job.pc \notin {"pending", "forget"}
    BY <2>1 DEF Gone, At
  <2> QED BY <1>0, <2>1, <2>2, <2>3, ScriptKnown
<1>9. CASE Forget
  <2>1. At("forget") /\ Closed(NoRow, Parts)
    BY <1>0, <1>9, RemoveDoes
  <2>2. job.cmd = "delete"
    BY <1>0, <2>1, Whose DEF At
  <2>3. stored(job.n) /\ ~Script.made /\ ~HasDomain(job.n)
    BY <1>0, <2>1, <2>2 DEF Begun, Knowing, Known, Gone, At
  <2> QED BY <1>0, <2>1, <2>3, ClosedKnown
<1>10. CASE Done
  <2>1. job' = Idle /\ UNCHANGED <<rows, cloud>>
    BY <1>0, <1>10, RemoveDoes
  <2>2. NothingIsOrphaned'
    BY <2>1, SameIsKnown DEF Knowing, Known
  <2> QED BY <2>1, <2>2 DEF Known, Knowing, Quiet, At, Idle, stored
<1> QED BY <1>2, <1>3, <1>4, <1>5, <1>6, <1>7, <1>8, <1>9, <1>10 DEF DetachSteps

\* A command that begins knows what the rows know.
LEMMA CommandsKnown ==
  ASSUME Knowing, NEW n \in Names
  PROVE  /\ \A env \in Envs : Create(n, env) \/ Update(n, env) => Known'
         /\ Attach(n) \/ Detach(n) \/ Delete(n) \/ AccountDelete(n) => Known'
<1>0. TypeOK
  BY DEF Knowing
<1>1. ASSUME NEW env \in Envs, Create(n, env)
      PROVE  Known'
  <2>1. /\ job'.cmd = "deploy" /\ job'.pc \in DeploysAt(n) /\ UNCHANGED <<cloud, forgotten>>
        /\ rows' = [rows EXCEPT ![n] = NewRow(env)] /\ NewRow(env) \in Rows /\ ~stored(n)
    BY <1>0, <1>1, CreateDoes
  <2>2. n \notin forgotten /\ NewRow(env).saved
    BY <1>1 DEF Create, Fresh, NewRow
  <2>3. rows'[n] = NewRow(env) /\ \A m \in Names \ {n} : rows'[m] = rows[m]
    BY <1>0, <2>1 DEF TypeOK
  <2>4. NothingIsOrphaned'
    BY <2>1, <2>2, <2>3, StillKnown DEF Knowing, Known, HasDomain, stored
  <2>5. \A m \in forgotten' : ~stored(m)'
    BY <1>0, <2>1, <2>2, <2>3 DEF Knowing, Known, TypeOK, stored
  <2>6. job'.pc \notin Gone \union {"forget"}
    BY <2>1 DEF DeploysAt, Gone
  <2> QED BY <2>1, <2>4, <2>5, <2>6 DEF Known, At
<1>2. ASSUME UNCHANGED <<rows, cloud, forgotten>>, job'.pc \notin Gone \union {"forget"},
             job'.cmd = "attach" => job'.pc = "pending"
      PROVE  Known'
  <2>1. NothingIsOrphaned'
    BY <1>2, SameIsKnown DEF Knowing, Known
  <2> QED BY <1>2, <2>1 DEF Known, Knowing, At, stored
<1>3. ASSUME NEW env \in Envs, Update(n, env)
      PROVE  Known'
  <2>1. job'.cmd = "deploy" /\ job'.pc \in DeploysAt(n) /\ UNCHANGED <<rows, cloud, forgotten>>
    BY <1>0, <1>3, UpdateDoes
  <2> QED BY <1>2, <2>1 DEF DeploysAt, Gone
<1>4. ASSUME Attach(n)
      PROVE  Known'
  BY <1>0, <1>2, <1>4, AttachBegins DEF Gone
<1>5. DetachAt(n) \notin Gone \union {"forget"}
  BY DEF DetachAt, Gone
<1>6. ASSUME Detach(n)
      PROVE  Known'
  BY <1>0, <1>2, <1>5, <1>6, DetachBegins
<1>7. ASSUME UNCHANGED <<rows, cloud, forgotten>>, job'.pc = "remove", job'.n = n,
             job'.cmd = "account" \/ (job'.cmd = "delete" /\ stored(n) /\ ~rows[n].domain)
      PROVE  Known'
  <2>1. NothingIsOrphaned'
    BY <1>7, SameIsKnown DEF Knowing, Known
  <2>2. job'.cmd = "delete" => ~HasDomain(n)
    BY <1>7 DEF Knowing, Known, NothingIsOrphaned
  <2>3. job'.cmd = "delete" => ~HasDomain(n)'
    BY <1>7, <2>2 DEF HasDomain
  <2>4. (~Quiet /\ job.cmd # "account" /\ job.pc \in Gone => ~HasDomain(job.n))'
    BY <1>7, <2>3 DEF HasDomain
  <2> QED BY <1>7, <2>1, <2>4 DEF Known, Knowing, At, stored
<1>8. ASSUME Delete(n)
      PROVE  Known'
  BY <1>0, <1>2, <1>5, <1>7, <1>8, DeleteBegins
<1>9. ASSUME AccountDelete(n)
      PROVE  Known'
  BY <1>0, <1>7, <1>9, AccountDeleteBegins
<1> QED BY <1>1, <1>3, <1>4, <1>6, <1>8, <1>9

\* Every step of the system keeps what is known of Cloudflare.
LEMMA KnownStep ==
  ASSUME Knowing, [Next]_vars
  PROVE  Known'
<1>0. TypeOK
  BY DEF Knowing
<1>1. CASE Step
  BY <1>1, DeployKnown, AttachKnown, DetachKnown DEF Step
<1>2. ASSUME NEW n \in Names, ForgetHere(n)
      PROVE  Known'
  <2>1. /\ Quiet /\ job' = job /\ cloud' = cloud /\ forgotten' = forgotten \union {n}
        /\ rows' = [rows EXCEPT ![n] = NoRow]
    BY <1>0, <1>2, ForgetDoes
  <2>2. ~rows'[n].saved /\ \A m \in Names \ {n} : rows'[m] = rows[m]
    BY <1>0, <2>1 DEF TypeOK, NoRow
  <2>3. NothingIsOrphaned'
    BY <2>1, <2>2 DEF Knowing, Known, NothingIsOrphaned, stored, HasDomain
  <2>4. \A m \in forgotten' : ~stored(m)'
    BY <1>0, <2>1, <2>2 DEF Knowing, Known, TypeOK, stored
  <2> QED BY <2>1, <2>3, <2>4 DEF Known, Quiet, At
<1>3. ASSUME UNCHANGED <<rows, cloud, job, forgotten>>
      PROVE  Known'
  <2>1. NothingIsOrphaned'
    BY <1>3, SameIsKnown DEF Knowing, Known
  <2> QED BY <1>3, <2>1 DEF Known, Knowing, Quiet, At, HasDomain, Script, Row, stored
<1>4. CASE Connected \/ Stop \/ \E n \in Names : Connect(n)
  BY <1>0, <1>3, <1>4, CarrierDoes
<1>5. CASE Operator
  <2>1. /\ UNCHANGED <<rows, job, forgotten>> /\ cloud'.script = cloud.script /\ cloud'.pages = cloud.pages
        /\ cloud'.service = cloud.service \/ cloud'.service = Other
    BY <1>0, <1>5, OperatorDoes
  <2>2. \A m \in Names : HasDomain(m)' => HasDomain(m)
    BY <2>1, NamesAreNames DEF HasDomain
  <2>3. NothingIsOrphaned'
    BY <2>1, <2>2 DEF Knowing, Known, NothingIsOrphaned, stored
  <2>4. (~Quiet /\ job.cmd # "account" /\ job.pc \in Gone => ~HasDomain(job.n))'
    <3>1. ~Quiet => job.n \in Names
      BY <1>0, AtWork
    <3>2. ~Quiet /\ job.cmd # "account" /\ job.pc \in Gone => ~HasDomain(job.n)'
      <4>1. job'.n = job.n
        BY <2>1
      <4> QED BY <2>2, <3>1, <4>1 DEF Knowing, Known, HasDomain
    <3> QED BY <2>1, <3>2 DEF Quiet, At, HasDomain
  <2>5. (~Quiet /\ job.cmd = "attach" /\ job.pc # "pending" => Row.domain)'
    BY <2>1 DEF Knowing, Known, Quiet, At, Row
  <2> QED BY <2>1, <2>3, <2>4, <2>5 DEF Known, Knowing, At, Script, stored
<1>6. CASE Crash
  <2>1. job' = Idle /\ UNCHANGED <<rows, cloud, forgotten>>
    BY <1>0, <1>6, CrashDoes
  <2>2. NothingIsOrphaned'
    BY <2>1, SameIsKnown DEF Knowing, Known
  <2> QED BY <2>1, <2>2 DEF Known, Knowing, Quiet, At, Idle, stored
<1>7. CASE UNCHANGED vars
  BY <1>3, <1>7 DEF vars
<1> QED BY <1>1, <1>2, <1>4, <1>5, <1>6, <1>7, CommandsKnown DEF Next

\* Nothing is stored, made or under way at first.
LEMMA StartIsKnown ==
  ASSUME Init
  PROVE  Knowing
<1>1. TypeOK
  BY FaultsAreCounted DEF Init, TypeOK, Clouds, Scripts, NoScript, Parts
<1>2. Begun /\ OwnKind
  BY DEF Init, Begun, OwnKind, Quiet, At, Idle, OfWorkers, OfPages
<1>3. NothingIsOrphaned
  BY NamesAreNames DEF Init, NothingIsOrphaned, HasDomain, NoScript
<1> QED BY <1>1, <1>2, <1>3 DEF Knowing, Known, Init, Quiet, At, Idle

\* The first layer of the invariant.
LEMMA KnowingHolds == Spec => []Knowing
<1>1. Knowing /\ [Next]_vars => Knowing'
  BY TypeStep, BegunStep, OwnKindStep, KnownStep DEF Knowing
<1> QED BY <1>1, StartIsKnown, PTL DEF Spec

\* What this application has on Cloudflare is known here, whichever requests and saves fail
\* and wherever the application ends: a script or project that is there has its row, and a
\* domain that leads to it is in that row, but for what the user removed from this computer.
THEOREM NothingIsLost == Spec => []NothingIsOrphaned
<1>1. Knowing => NothingIsOrphaned
  BY DEF Knowing, Known
<1> QED BY <1>1, KnowingHolds, PTL
(***************************************************************************)
(* What the rows may offer.                                                *)
(***************************************************************************)
Telling == Knowing /\ Told

\* What a row offers stays there while its parts do, or a command has begun on them.
LEMMA StillOffered ==
  ASSUME NEW n \in Names, Offered(n), unfinished[n] \subseteq unfinished'[n],
         stored(n)' => /\ stored(n)
                       /\ rows'[n].ready => rows[n].ready
                       /\ rows'[n].env = rows[n].env \/ "script" \in unfinished'[n]
                       /\ ByDomain(rows'[n]) => ByDomain(rows[n]),
         stored(n)' => \/ "gone" \in unfinished'[n]
                       \/ /\ Runs(n) => Runs(n)'
                          /\ \/ cloud'.script[n].runs = cloud.script[n].runs
                             \/ "script" \in unfinished'[n],
         stored(n)' => (HasDomain(n) => HasDomain(n)' \/ "taken" \in unfinished'[n])
  PROVE  Offered(n)'
<1>1. ASSUME rows'[n].saved
      PROVE  /\ rows'[n].ready /\ "gone" \notin unfinished'[n] => Runs(n)'
             /\ rows'[n].ready /\ unfinished'[n] \intersect {"script", "gone"} = {} =>
                  cloud'.script[n].runs = rows'[n].env
             /\ ByDomain(rows'[n]) /\ "taken" \notin unfinished'[n] => HasDomain(n)'
  BY <1>1 DEF Offered, stored
<1> QED BY <1>1 DEF Offered, stored, ByDomain

\* What is neither changed in its row nor on Cloudflare is offered and told as before.
LEMMA SameIsTold ==
  ASSUME NEW n \in Names, Offered(n), Made_(n), rows'[n] = rows[n], unfinished'[n] = unfinished[n],
         cloud'.script[n] = cloud.script[n], HasDomain(n) => HasDomain(n)'
  PROVE  Offered(n)' /\ Made_(n)'
<1>1. stored(n)' => stored(n)
  BY DEF stored
<1>2. Runs(n) => Runs(n)'
  BY DEF Runs
<1>3. Offered(n)'
  BY <1>1, <1>2, StillOffered
<1> QED BY <1>3 DEF Made_

\* A question tells nothing new.
LEMMA LookTold ==
  ASSUME Telling, ~Quiet, NEW pcs, Looked(pcs), job.pc \notin {"made", "ready"},
         pcs \intersect {"made", "ready", "enable", "push"} = {},
         "attached" \in pcs => HasDomain(job.n),
         "claim" \in pcs => cloud.service \in {Nobody, job.n}
  PROVE  Told'
<1>1. \A n \in Names : Offered(n)' /\ Made_(n)'
  BY SameIsTold DEF Looked, Telling, Told, HasDomain
<1>2. CASE job' = Idle
  BY <1>1, <1>2 DEF Told, Quiet, At, Idle
<1>3. CASE Went(job.pc, job.row)
  <2>1. job'.pc = job.pc /\ job'.cmd = job.cmd /\ job'.n = job.n /\ job'.row = job.row /\ cloud' = cloud
    BY <1>3 DEF Went, Looked
  <2> QED BY <1>1, <2>1 DEF Telling, Told, At, Script, Row, HasDomain
<1>4. CASE \E pc \in pcs : Went(pc, job.row)
  <2>1. PICK pc \in pcs : Went(pc, job.row)
    BY <1>4
  <2>2. job'.pc = pc /\ job'.cmd = job.cmd /\ job'.n = job.n /\ job'.row = job.row /\ cloud' = cloud
    BY <2>1 DEF Went, Looked
  <2>3. pc \notin {"made", "ready", "enable", "push"}
    BY <2>1
  <2>4. (At("attached") => HasDomain(job.n))' /\ (At("claim") => cloud.service \in {Nobody, Other, job.n})'
    BY <2>1, <2>2 DEF At, HasDomain
  <2>5. (~Quiet /\ job.cmd = "deploy" => ~Row.ready)'
    BY <2>2 DEF Telling, Told, Row
  <2> QED BY <1>1, <2>2, <2>3, <2>4, <2>5 DEF Told, At
<1> QED BY <1>2, <1>3, <1>4 DEF Looked

\* A request about the domain changes no script.
LEMMA DomainTold ==
  ASSUME Telling, ~Quiet, NEW after, NEW pc, Asked(after, pc),
         job.pc \notin {"made", "ready", "enable", "push", "attached"},
         pc \notin {"made", "ready", "enable", "push", "claim"},
         after.script = cloud.script,
         \A m \in Names : HasDomain(m) => \/ DomainIn(after, m)
                                          \/ m = job.n /\ "taken" \in unfinished[m],
         At("claim") => after.service \in {Nobody, Other, job.n},
         pc = "attached" => DomainIn(after, job.n)
  PROVE  Told'
<1>0. job.n \in Names /\ rows' = rows /\ unfinished' = unfinished /\ cloud' \in {cloud, after}
  BY AtWork DEF Asked, Telling, Knowing
<1>1. ASSUME NEW m \in Names
      PROVE  Offered(m)' /\ Made_(m)'
  <2>1. Offered(m) /\ Made_(m)
    BY DEF Telling, Told
  <2>2. CASE HasDomain(m) => HasDomain(m)'
    BY <1>0, <2>1, <2>2, SameIsTold
  <2>3. CASE "taken" \in unfinished[m]
    <3>1. Runs(m) => Runs(m)'
      BY <1>0 DEF Runs
    <3>2. stored(m)' => stored(m)
      BY <1>0 DEF stored
    <3>3. Offered(m)'
      BY <1>0, <2>1, <2>3, <3>1, <3>2, StillOffered
    <3> QED BY <1>0, <2>1, <3>3 DEF Made_
  <2> QED BY <1>0, <2>2, <2>3 DEF DomainIn, HasDomain
<1>2. CASE job' = Idle
  BY <1>1, <1>2 DEF Told, Quiet, At, Idle
<1>3. CASE Went(job.pc, job.row)
  <2>1. job'.pc = job.pc /\ job'.cmd = job.cmd /\ job'.n = job.n /\ job'.row = job.row
    BY <1>3 DEF Went
  <2> QED BY <1>0, <1>1, <2>1 DEF Telling, Told, At, Row
<1>4. CASE cloud' = after /\ Went(pc, job.row)
  <2>1. job'.pc = pc /\ job'.cmd = job.cmd /\ job'.n = job.n /\ job'.row = job.row
    BY <1>4 DEF Went
  <2>2. (At("attached") => HasDomain(job.n))'
    BY <1>4, <2>1 DEF At, HasDomain, DomainIn
  <2> QED BY <1>1, <2>1, <2>2 DEF Telling, Told, At, Row
<1> QED BY <1>2, <1>3, <1>4 DEF Asked
\* How far a script has to be at a label of a deployment.
Done_(script, pc) ==
  /\ script.made /\ script.config = Row.env
  /\ job.n \in Workers \/ pc = "ready" => script.runs = Row.env
  /\ pc = "ready" => script.host

\* A request that replaces the script in hand: it still runs, or the deployment is going.
LEMMA ScriptTold ==
  ASSUME Telling, ~Quiet, NEW script \in Scripts, NEW pc, Asked(Set(job.n, script), pc),
         job.pc \notin {"made", "ready", "attached", "claim"},
         pc \notin {"enable", "push", "attached", "claim"},
         script.made => script.config \in Envs /\ (job.n \in Pages => script.host),
         stored(job.n) => \/ "gone" \in unfinished[job.n]
                          \/ /\ "script" \in unfinished[job.n]
                             /\ Runs(job.n) => script.runs # NoEnv /\ script.host,
         job.pc \in {"enable", "push"} => Done_(script, job.pc),
         pc \in {"made", "ready"} => Done_(script, pc)
  PROVE  Told'
<1> DEFINE after == Set(job.n, script)
<1>0. /\ job.n \in Names /\ cloud \in Clouds /\ rows' = rows /\ unfinished' = unfinished
      /\ cloud' \in {cloud, after}
  BY AtWork DEF Asked, Telling, Knowing, TypeOK
<1>1. /\ after.script[job.n] = script /\ \A m \in Names \ {job.n} : after.script[m] = cloud.script[m]
      /\ after.service = cloud.service /\ after.pages = cloud.pages
  BY <1>0, SetIs
<1> HIDE DEF after
<1>2. \A m \in Names : HasDomain(m) => HasDomain(m)'
  BY <1>0, <1>1 DEF HasDomain
<1>3. ASSUME NEW m \in Names
      PROVE  Offered(m)' /\ Made_(m)'
  <2>1. Offered(m) /\ Made_(m)
    BY DEF Telling, Told
  <2>2. CASE cloud'.script[m] = cloud.script[m]
    BY <1>0, <1>2, <2>1, <2>2, SameIsTold
  <2>3. CASE m = job.n /\ cloud' = after
    <3>1. Made_(m)'
      BY <1>1, <2>3 DEF Made_
    <3>2. stored(m)' => stored(m)
      BY <1>0 DEF stored
    <3>3. stored(m) => \/ "gone" \in unfinished'[m]
                       \/ /\ "script" \in unfinished'[m]
                          /\ Runs(m) => Runs(m)'
      BY <1>0, <1>1, <2>3 DEF Runs
    <3>4. Offered(m)'
      BY <1>0, <1>2, <2>1, <3>2, <3>3, StillOffered
    <3> QED BY <3>1, <3>4
  <2> QED BY <1>0, <1>1, <2>2, <2>3
<1>4. CASE job' = Idle
  BY <1>3, <1>4 DEF Told, Quiet, At, Idle
<1>5. CASE Went(job.pc, job.row)
  <2>1. job'.pc = job.pc /\ job'.cmd = job.cmd /\ job'.n = job.n /\ job'.row = job.row
    BY <1>5 DEF Went
  <2>2. (~Quiet /\ job.cmd = "deploy" => ~Row.ready)'
    BY <2>1 DEF Telling, Told, Row
  <2>3. job.pc \in {"enable", "push"} =>
          /\ cloud'.script[job.n].made /\ cloud'.script[job.n].config = Row.env
          /\ job.n \in Workers => cloud'.script[job.n].runs = Row.env
    BY <1>0, <1>1 DEF Telling, Told, Done_, At, Script
  <2> QED BY <1>3, <2>1, <2>2, <2>3 DEF Told, At, Script, Row
<1>6. CASE cloud' = after /\ Went(pc, job.row)
  <2>1. job'.pc = pc /\ job'.cmd = job.cmd /\ job'.n = job.n /\ job'.row = job.row
    BY <1>6 DEF Went
  <2>2. (~Quiet /\ job.cmd = "deploy" => ~Row.ready)'
    BY <2>1 DEF Telling, Told, Row
  <2>3. (job.pc \in {"made", "enable", "push", "ready"} =>
          /\ Script.made /\ Script.config = Row.env
          /\ job.n \in Workers \/ At("ready") => Script.runs = Row.env
          /\ At("ready") => Script.host)'
    BY <1>1, <1>6, <2>1 DEF Done_, At, Script, Row
  <2> QED BY <1>3, <2>1, <2>2, <2>3 DEF Told, At
<1> QED BY <1>4, <1>5, <1>6 DEF Asked, after

\* A save in the middle of a command offers no more than the row there is.
LEMMA KeptTold ==
  ASSUME Telling, ~Quiet, NEW row, NEW pcs, Kept(row, pcs), stored(job.n),
         job.cmd = "deploy" => ~row.ready,
         row.ready => rows[job.n].ready,
         row.env = rows[job.n].env \/ "script" \in unfinished[job.n],
         ByDomain(row) => ByDomain(rows[job.n]),
         pcs \intersect {"made", "ready", "attached", "claim"} = {},
         pcs \intersect {"enable", "push"} # {} =>
           At("made") /\ row.env = Row.env
  PROVE  Told'
<1>0. job.n \in Names /\ row.saved /\ cloud' = cloud /\ unfinished' = unfinished
  BY AtWork DEF Kept, Telling, Knowing, Rows
<1>1. CASE rows' = rows /\ job' = Idle
  <2>1. \A n \in Names : Offered(n)' /\ Made_(n)'
    BY <1>0, <1>1, SameIsTold DEF Telling, Told, HasDomain
  <2> QED BY <1>1, <2>1 DEF Told, Quiet, At, Idle
<1>2. CASE rows' = [rows EXCEPT ![job.n] = row] /\ \E pc \in pcs : Went(pc, row)
  <2>1. rows'[job.n] = row /\ \A m \in Names \ {job.n} : rows'[m] = rows[m]
    BY <1>0, <1>2 DEF Telling, Knowing, TypeOK
  <2>2. \A m \in Names : (Runs(m) => Runs(m)') /\ (HasDomain(m) => HasDomain(m)')
    BY <1>0 DEF Runs, HasDomain
  <2>3. ASSUME NEW m \in Names
        PROVE  Offered(m)' /\ Made_(m)'
    <3>1. Offered(m) /\ Made_(m)
      BY DEF Telling, Told
    <3>2. CASE m # job.n
      BY <1>0, <2>1, <2>2, <3>1, <3>2, SameIsTold
    <3>3. CASE m = job.n
      <4>1. Offered(m)'
        BY <1>0, <2>1, <2>2, <3>1, <3>3, StillOffered
      <4> QED BY <1>0, <3>1, <4>1 DEF Made_
    <3> QED BY <3>2, <3>3
  <2>4. PICK pc \in pcs : Went(pc, row)
    BY <1>2
  <2>5. job'.pc = pc /\ job'.cmd = job.cmd /\ job'.n = job.n /\ job'.row = row
    BY <2>4 DEF Went
  <2>6. pc \notin {"made", "ready", "attached", "claim"}
    BY <2>4
  <2>7. pc \in {"enable", "push"} => At("made") /\ row.env = Row.env
    BY <2>4
  <2>8. (job.pc \in {"made", "enable", "push", "ready"} =>
          /\ Script.made /\ Script.config = Row.env
          /\ job.n \in Workers \/ At("ready") => Script.runs = Row.env
          /\ At("ready") => Script.host)'
    BY <1>0, <2>5, <2>6, <2>7 DEF Telling, Told, At, Script, Row
  <2> QED BY <2>3, <2>5, <2>6, <2>8 DEF Told, At, Row
<1> QED BY <1>1, <1>2 DEF Kept

\* The last save of a command offers what is there by then.
LEMMA ClosedTold ==
  ASSUME Telling, ~Quiet, NEW row, NEW parts, Closed(row, parts),
         row.saved =>
           /\ row.ready /\ "gone" \notin unfinished[job.n] \ parts => Runs(job.n)
           /\ row.ready /\ (unfinished[job.n] \ parts) \intersect {"script", "gone"} = {} =>
                Script.runs = row.env
           /\ ByDomain(row) /\ "taken" \notin unfinished[job.n] \ parts => HasDomain(job.n)
  PROVE  Told'
<1>0. job.n \in Names /\ cloud' = cloud /\ job' = Idle
  BY AtWork DEF Closed, Telling, Knowing
<1>1. CASE rows' = rows /\ unfinished' = unfinished
  <2>1. \A n \in Names : Offered(n)' /\ Made_(n)'
    BY <1>0, <1>1, SameIsTold DEF Telling, Told, HasDomain
  <2> QED BY <1>0, <2>1 DEF Told, Quiet, At, Idle
<1>2. CASE /\ rows' = [rows EXCEPT ![job.n] = row]
           /\ unfinished' = [unfinished EXCEPT ![job.n] = @ \ parts]
  <2>1. /\ rows'[job.n] = row /\ \A m \in Names \ {job.n} : rows'[m] = rows[m]
        /\ unfinished'[job.n] = unfinished[job.n] \ parts
        /\ \A m \in Names \ {job.n} : unfinished'[m] = unfinished[m]
    BY <1>0, <1>2 DEF Telling, Knowing, TypeOK
  <2>2. ASSUME NEW m \in Names
        PROVE  Offered(m)' /\ Made_(m)'
    <3>1. Offered(m) /\ Made_(m)
      BY DEF Telling, Told
    <3>2. CASE m # job.n
      BY <1>0, <2>1, <3>1, <3>2, SameIsTold DEF HasDomain
    <3>3. CASE m = job.n
      BY <1>0, <2>1, <3>1, <3>3 DEF Offered, Made_, stored, Runs, HasDomain, Script
    <3> QED BY <3>2, <3>3
  <2> QED BY <1>0, <2>2 DEF Told, Quiet, At, Idle
<1> QED BY <1>1, <1>2 DEF Closed
\* A deployment counts as ready only once its script runs as its row says.
LEMMA DeployTold ==
  ASSUME Telling, DeploySteps
  PROVE  Told'
<1>0. /\ TypeOK /\ Begun /\ ~Quiet /\ job.n \in Names /\ cloud \in Clouds /\ NoEnv \notin Envs
      /\ job.n \in Pages <=> job.n \notin Workers
  BY StepsAreBusy, AtWork, OneKind, NamesAreNames DEF Telling, Knowing, TypeOK
<1>1. ASSUME NEW pc \in Deploying, At(pc)
      PROVE  /\ stored(job.n) /\ job.pc = pc /\ Row \in Rows /\ Script \in Scripts /\ Row.env \in Envs
             /\ job.cmd = "deploy" /\ Row.domain = rows[job.n].domain /\ ~Row.ready
             /\ Row.pending = rows[job.n].pending /\ "script" \in unfinished[job.n]
             /\ Script.made => Script.config \in Envs /\ (job.n \in Pages => Script.host)
  <2>1. job.cmd = "deploy" /\ Script \in Scripts /\ Row \in Rows
    BY <1>0, <1>1, Whose, InHand DEF At, Labels
  <2>2. Script.made => Script.config \in Envs /\ (job.n \in Pages => Script.host)
    BY <1>0 DEF Telling, Told, Made_, Script
  <2>3. Row.env \in Envs /\ ~Row.ready
    BY <1>0, <2>1 DEF Rows, Telling, Told
  <2> QED BY <1>0, <1>1, <2>1, <2>2, <2>3 DEF Begun, At
<1>2. Runs(job.n) <=> Script.runs # NoEnv /\ Script.host
  BY DEF Runs, Script
<1>3. CASE Subdomain
  <2>1. At("subdomain") /\ Looked({"upload", "register"})
    BY <1>0, <1>3, DeployDoes
  <2> QED BY <1>0, <2>1, LookTold DEF At
<1>4. CASE Register
  <2> DEFINE after == [cloud EXCEPT !.registered = TRUE]
  <2>1. At("register") /\ Asked(after, "upload")
    BY <1>0, <1>4, DeployDoes
  <2>2. /\ after.script = cloud.script /\ after.service = cloud.service /\ after.pages = cloud.pages
    BY <1>0 DEF Clouds
  <2>3. \A m \in Names : HasDomain(m) => DomainIn(after, m)
    BY <2>2 DEF DomainIn, HasDomain
  <2> HIDE DEF after
  <2> QED BY <1>0, <2>1, <2>2, <2>3, DomainTold DEF At
<1>5. CASE Upload
  <2>1. At("upload") /\ Asked(Set(job.n, Uploaded), "made")
    BY <1>0, <1>5, DeployDoes
  <2>2. job.n \notin Pages /\ stored(job.n) /\ "script" \in unfinished[job.n] /\ Row.env \in Envs
        /\ Script \in Scripts
    BY <1>1, <2>1 DEF Telling, Knowing, OwnKind, OfWorkers, At, Deploying
  <2>3. /\ Uploaded \in Scripts /\ Uploaded.made /\ Uploaded.config = Row.env /\ Uploaded.runs = Row.env
        /\ Uploaded.host = Script.host
    BY <2>2 DEF Uploaded, Scripts
  <2> QED BY <1>0, <1>2, <2>1, <2>2, <2>3, ScriptTold DEF At, Done_
<1>6. CASE Project
  <2>1. At("project") /\ (Looked({"patch"}) \/ Asked(Set(job.n, Begotten), "made"))
    BY <1>0, <1>6, DeployDoes
  <2>2. job.n \in Pages /\ stored(job.n) /\ "script" \in unfinished[job.n] /\ Row.env \in Envs
        /\ Script \in Scripts
    BY <1>1, <2>1 DEF Telling, Knowing, OwnKind, OfPages, At, Deploying
  <2>3. /\ Begotten \in Scripts /\ Begotten.made /\ Begotten.config = Row.env
        /\ Begotten.runs = Script.runs /\ Begotten.host
    BY <2>2 DEF Begotten, Scripts
  <2>4. CASE Looked({"patch"})
    BY <1>0, <2>1, <2>4, LookTold DEF At
  <2>5. CASE Asked(Set(job.n, Begotten), "made")
    BY <1>0, <1>2, <2>1, <2>2, <2>3, <2>5, ScriptTold DEF At, Done_
  <2> QED BY <2>1, <2>4, <2>5
<1>7. CASE Patch
  <2>1. At("patch") /\ (Looked({}) \/ (Script.made /\ Asked(Set(job.n, Patched), "made")))
    BY <1>0, <1>7, DeployDoes
  <2>2. job.n \in Pages /\ stored(job.n) /\ "script" \in unfinished[job.n] /\ Row.env \in Envs
        /\ Script \in Scripts /\ (Script.made => Script.host)
    BY <1>1, <2>1 DEF Telling, Knowing, OwnKind, OfPages, At, Deploying
  <2>3. /\ Patched \in Scripts /\ Patched.made = Script.made /\ Patched.config = Row.env
        /\ Patched.runs = Script.runs /\ Patched.host = Script.host
    BY <2>2 DEF Patched, Scripts
  <2>4. CASE Looked({})
    BY <1>0, <2>1, <2>4, LookTold DEF At
  <2>5. CASE Script.made /\ Asked(Set(job.n, Patched), "made")
    BY <1>0, <1>2, <2>1, <2>2, <2>3, <2>5, ScriptTold DEF At, Done_
  <2> QED BY <2>1, <2>4, <2>5
<1>8. CASE Made
  <2>1. /\ At("made")
        /\ Kept([Row EXCEPT !.created = TRUE], {IF job.n \in Workers THEN "enable" ELSE "push"})
    BY <1>0, <1>8, DeployDoes
  <2>2. /\ stored(job.n) /\ Row \in Rows /\ Row.domain = rows[job.n].domain /\ ~Row.ready
        /\ Row.pending = rows[job.n].pending /\ "script" \in unfinished[job.n]
    BY <1>1, <2>1 DEF Deploying
  <2> DEFINE row == [Row EXCEPT !.created = TRUE]
  <2>3. /\ ~row.ready /\ row.env = Row.env /\ (ByDomain(row) <=> ByDomain(rows[job.n]))
    BY <2>2 DEF Rows, ByDomain
  <2>4. {IF job.n \in Workers THEN "enable" ELSE "push"} \intersect {"made", "ready", "attached", "claim"} = {}
    OBVIOUS
  <2> HIDE DEF row
  <2> QED BY <1>0, <2>1, <2>2, <2>3, <2>4, KeptTold DEF row
<1>9. CASE Enable
  <2>1. At("enable") /\ Asked(Set(job.n, Enabled_), "ready")
    BY <1>0, <1>9, DeployDoes
  <2>2. job.n \in Workers /\ stored(job.n) /\ "script" \in unfinished[job.n] /\ Row.env \in Envs
        /\ Script \in Scripts
    BY <1>0, <1>1, <2>1 DEF Telling, Knowing, OwnKind, OfWorkers, At, Deploying
  <2>3. /\ Enabled_ \in Scripts /\ Enabled_.made = Script.made /\ Enabled_.config = Script.config
        /\ Enabled_.runs = Script.runs /\ Enabled_.host
    BY <2>2 DEF Enabled_, Scripts
  <2>4. Script.made /\ Script.config = Row.env /\ Script.runs = Row.env
    BY <2>1, <2>2 DEF Telling, Told, At
  <2> QED BY <1>0, <1>2, <2>1, <2>2, <2>3, <2>4, ScriptTold DEF At, Done_
<1>10. CASE Push
  <2>1. At("push") /\ Asked(Set(job.n, Pushed), "ready")
    BY <1>0, <1>10, DeployDoes
  <2>2. job.n \in Pages /\ stored(job.n) /\ "script" \in unfinished[job.n] /\ Row.env \in Envs
        /\ Script \in Scripts /\ (Script.made => Script.host)
    BY <1>0, <1>1, <2>1 DEF Telling, Knowing, OwnKind, OfPages, At, Deploying
  <2>3. /\ Pushed \in Scripts /\ Pushed.made = Script.made /\ Pushed.config = Script.config
        /\ Pushed.runs = Script.config /\ Pushed.host = Script.host
    BY <2>2 DEF Pushed, Scripts
  <2>4. Script.made /\ Script.config = Row.env
    BY <2>1, <2>2 DEF Telling, Told, At
  <2> QED BY <1>0, <1>2, <2>1, <2>2, <2>3, <2>4, ScriptTold DEF At, Done_
<1>11. CASE Ready
  <2>1. At("ready") /\ Closed([Row EXCEPT !.ready = TRUE], {"script", "gone"})
    BY <1>0, <1>11, DeployDoes
  <2>2. /\ stored(job.n) /\ Row \in Rows /\ Row.domain = rows[job.n].domain /\ Row.env \in Envs
        /\ Row.pending = rows[job.n].pending
    BY <1>1, <2>1 DEF Deploying
  <2> DEFINE row == [Row EXCEPT !.ready = TRUE]
  <2>3. row.env = Row.env /\ (ByDomain(row) <=> ByDomain(rows[job.n]))
    BY <2>2 DEF Rows, ByDomain
  <2>4. Script.made /\ Script.config = Row.env /\ Script.runs = Row.env /\ Script.host
    BY <2>1, <2>2 DEF Telling, Told, At
  <2>5. ByDomain(rows[job.n]) /\ "taken" \notin unfinished[job.n] => HasDomain(job.n)
    BY <1>0, <2>2 DEF Telling, Told, Offered
  <2> HIDE DEF row
  <2> QED BY <1>0, <1>2, <2>1, <2>2, <2>3, <2>4, <2>5, ClosedTold DEF row
<1> QED BY <1>3, <1>4, <1>5, <1>6, <1>7, <1>8, <1>9, <1>10, <1>11 DEF DeploySteps

\* A domain counts as attached only once it leads to the deployment.
LEMMA AttachTold ==
  ASSUME Telling, AttachSteps
  PROVE  Told'
<1>0. /\ TypeOK /\ Begun /\ ~Quiet /\ job.n \in Names /\ cloud \in Clouds
      /\ Nobody \notin Names /\ Other \notin Names
  BY StepsAreBusy, AtWork, NamesAreNames DEF Telling, Knowing, TypeOK
<1>1. ASSUME NEW pc \in Attaching, At(pc)
      PROVE  /\ stored(job.n) /\ job.pc = pc /\ Row \in Rows /\ job.cmd = "attach" /\ Row = rows[job.n]
  <2>1. job.cmd = "attach"
    BY <1>0, <1>1, Whose DEF At
  <2> QED BY <1>0, <1>1, <2>1 DEF Begun, At
<1>2. CASE Service
  BY <1>0, <1>2, AttachDoes, LookTold DEF At
<1>3. CASE Zones \/ Records
  BY <1>0, <1>3, AttachDoes, LookTold DEF At
<1>4. CASE Joined
  <2>1. At("domains") /\ (Looked({"join"}) \/ (cloud.pages = job.n /\ Looked({"attached"})))
    BY <1>0, <1>4, AttachDoes
  <2>2. job.n \in Pages
    BY <2>1 DEF Telling, Knowing, OwnKind, OfPages, At
  <2> QED BY <1>0, <2>1, <2>2, LookTold DEF At, HasDomain
<1>5. CASE Claim
  <2> DEFINE after == [cloud EXCEPT !.service = job.n]
  <2>1. At("claim") /\ Asked(after, "attached")
    BY <1>0, <1>5, AttachDoes
  <2>2. job.n \notin Pages /\ cloud.service \in {Nobody, Other, job.n}
    BY <2>1 DEF Telling, Knowing, OwnKind, OfWorkers, At, Told
  <2>3. after.script = cloud.script /\ after.service = job.n /\ after.pages = cloud.pages
    BY <1>0 DEF Clouds
  <2>4. \A m \in Names : HasDomain(m) => DomainIn(after, m)
    BY <1>0, <2>2, <2>3 DEF DomainIn, HasDomain
  <2>5. DomainIn(after, job.n)
    BY <2>2, <2>3 DEF DomainIn
  <2> HIDE DEF after
  <2> QED BY <1>0, <2>1, <2>3, <2>4, <2>5, DomainTold DEF At
<1>6. CASE Post
  <2> DEFINE after == [cloud EXCEPT !.record = job.n]
  <2>1. At("post") /\ (Looked({}) \/ Asked(after, "record"))
    BY <1>0, <1>6, AttachDoes
  <2>2. after.script = cloud.script /\ after.service = cloud.service /\ after.pages = cloud.pages
    BY <1>0 DEF Clouds
  <2>3. \A m \in Names : HasDomain(m) => DomainIn(after, m)
    BY <2>2 DEF DomainIn, HasDomain
  <2> HIDE DEF after
  <2>4. CASE Looked({})
    BY <1>0, <2>1, <2>4, LookTold DEF At
  <2>5. CASE Asked(after, "record")
    BY <1>0, <2>1, <2>2, <2>3, <2>5, DomainTold DEF At
  <2> QED BY <2>1, <2>4, <2>5
<1>7. CASE Join
  <2> DEFINE after == [cloud EXCEPT !.pages = job.n]
  <2>1. At("join") /\ (Looked({}) \/ (cloud.pages = Nobody /\ Asked(after, "attached")))
    BY <1>0, <1>7, AttachDoes
  <2>2. job.n \in Pages
    BY <2>1 DEF Telling, Knowing, OwnKind, OfPages, At
  <2>3. after.script = cloud.script /\ after.service = cloud.service /\ after.pages = job.n
    BY <1>0 DEF Clouds
  <2>4. DomainIn(after, job.n)
    BY <2>2, <2>3 DEF DomainIn
  <2>5. cloud.pages = Nobody => \A m \in Names : HasDomain(m) => DomainIn(after, m)
    BY <1>0, <2>3 DEF DomainIn, HasDomain
  <2> HIDE DEF after
  <2>6. CASE Looked({})
    BY <1>0, <2>1, <2>6, LookTold DEF At
  <2>7. CASE cloud.pages = Nobody /\ Asked(after, "attached")
    BY <1>0, <2>1, <2>3, <2>4, <2>5, <2>7, DomainTold DEF At
  <2> QED BY <2>1, <2>6, <2>7
<1>8. CASE Pending
  <2> DEFINE row == [Row EXCEPT !.domain = TRUE, !.pending = TRUE]
             pcs == {IF job.n \in Workers THEN "service" ELSE IF Row.zone THEN "records" ELSE "zones"}
  <2>1. At("pending") /\ Kept(row, pcs)
    BY <1>0, <1>8, AttachDoes
  <2>2. stored(job.n) /\ Row \in Rows /\ job.cmd = "attach" /\ Row = rows[job.n]
    BY <1>1, <2>1 DEF Attaching
  <2>3. row.ready = rows[job.n].ready /\ row.env = rows[job.n].env /\ ~ByDomain(row)
    BY <2>2 DEF Rows, ByDomain
  <2>4. pcs \intersect {"made", "ready", "attached", "claim", "enable", "push"} = {}
    OBVIOUS
  <2> HIDE DEF row, pcs
  <2> QED BY <1>0, <2>1, <2>2, <2>3, <2>4, KeptTold
<1>9. CASE Zone
  <2> DEFINE row == [Row EXCEPT !.zone = TRUE]
  <2>1. At("zone") /\ Kept(row, {"records"})
    BY <1>0, <1>9, AttachDoes
  <2>2. stored(job.n) /\ Row \in Rows /\ job.cmd = "attach" /\ Row = rows[job.n]
    BY <1>1, <2>1 DEF Attaching
  <2>3. row.ready = rows[job.n].ready /\ row.env = rows[job.n].env /\ (ByDomain(row) <=> ByDomain(rows[job.n]))
    BY <2>2 DEF Rows, ByDomain
  <2> HIDE DEF row
  <2> QED BY <1>0, <2>1, <2>2, <2>3, KeptTold
<1>10. CASE Recorded
  <2> DEFINE row == [Row EXCEPT !.record = TRUE]
  <2>1. At("record") /\ Kept(row, {"domains"})
    BY <1>0, <1>10, AttachDoes
  <2>2. stored(job.n) /\ Row \in Rows /\ job.cmd = "attach" /\ Row = rows[job.n]
    BY <1>1, <2>1 DEF Attaching
  <2>3. row.ready = rows[job.n].ready /\ row.env = rows[job.n].env /\ (ByDomain(row) <=> ByDomain(rows[job.n]))
    BY <2>2 DEF Rows, ByDomain
  <2> HIDE DEF row
  <2> QED BY <1>0, <2>1, <2>2, <2>3, KeptTold
<1>11. CASE Attached
  <2> DEFINE row == [Row EXCEPT !.pending = FALSE]
  <2>1. At("attached") /\ Closed(row, {"taken"})
    BY <1>0, <1>11, AttachDoes
  <2>2. stored(job.n) /\ Row \in Rows /\ Row = rows[job.n] /\ HasDomain(job.n)
    BY <1>1, <2>1 DEF Attaching, Telling, Told
  <2>3. row.ready = rows[job.n].ready /\ row.env = rows[job.n].env
    BY <2>2 DEF Rows
  <2>4. Offered(job.n)
    BY <1>0 DEF Telling, Told
  <2> HIDE DEF row
  <2> QED BY <1>0, <2>1, <2>2, <2>3, <2>4, ClosedTold DEF Offered, Script
<1> QED BY <1>2, <1>3, <1>4, <1>5, <1>6, <1>7, <1>8, <1>9, <1>10, <1>11 DEF AttachSteps
\* What is being taken down is marked before it goes.
LEMMA DetachTold ==
  ASSUME Telling, DetachSteps
  PROVE  Told'
<1>0. /\ TypeOK /\ Begun /\ ~Quiet /\ job.n \in Names /\ cloud \in Clouds /\ Nobody \notin Names
  BY StepsAreBusy, AtWork, NamesAreNames DEF Telling, Knowing, TypeOK
<1>1. ASSUME NEW pc \in Leaving, At(pc)
      PROVE  "taken" \in unfinished[job.n] /\ Row \in Rows /\ Row = rows[job.n]
  <2>1. job.cmd \in {"detach", "delete"}
    BY <1>0, <1>1, Whose DEF At
  <2> QED BY <1>0, <1>1, <2>1 DEF Begun, At
<1>2. CASE Leave
  <2> DEFINE after == [cloud EXCEPT !.pages = Without(@)]
  <2>1. At("leave") /\ (Asked(after, "check") \/ Asked(after, "detached"))
    BY <1>0, <1>2, LeaveDoes
  <2>2. after.script = cloud.script /\ after.service = cloud.service /\ after.pages = Without(cloud.pages)
    BY <1>0 DEF Clouds
  <2>3. \A m \in Names : HasDomain(m) => DomainIn(after, m) \/ (m = job.n /\ "taken" \in unfinished[m])
    BY <1>0, <1>1, <2>1, <2>2 DEF DomainIn, HasDomain, Without, Leaving
  <2> HIDE DEF after
  <2> QED BY <1>0, <2>1, <2>2, <2>3, DomainTold DEF At
<1>3. CASE Check
  BY <1>0, <1>3, LeaveDoes, LookTold DEF At
<1>4. CASE Unrecord
  <2> DEFINE after == [cloud EXCEPT !.record = Nobody]
  <2>1. At("unrecord") /\ Asked(after, "detached")
    BY <1>0, <1>4, LeaveDoes
  <2>2. after.script = cloud.script /\ after.service = cloud.service /\ after.pages = cloud.pages
    BY <1>0 DEF Clouds
  <2>3. \A m \in Names : HasDomain(m) => DomainIn(after, m)
    BY <2>2 DEF DomainIn, HasDomain
  <2> HIDE DEF after
  <2> QED BY <1>0, <2>1, <2>2, <2>3, DomainTold DEF At
<1>5. CASE Routes
  BY <1>0, <1>5, LeaveDoes, LookTold DEF At
<1>6. CASE Unroute
  <2> DEFINE after == [cloud EXCEPT !.service = Without(@)]
  <2>1. At("unroute") /\ Asked(after, "detached")
    BY <1>0, <1>6, LeaveDoes
  <2>2. after.script = cloud.script /\ after.pages = cloud.pages /\ after.service = Without(cloud.service)
    BY <1>0 DEF Clouds
  <2>3. \A m \in Names : HasDomain(m) => DomainIn(after, m) \/ (m = job.n /\ "taken" \in unfinished[m])
    BY <1>0, <1>1, <2>1, <2>2 DEF DomainIn, HasDomain, Without, Leaving
  <2> HIDE DEF after
  <2> QED BY <1>0, <2>1, <2>2, <2>3, DomainTold DEF At
<1>7. CASE Detached
  <2>1. At("detached") /\ (Closed(Freed, {"taken"}) \/ Looked({"remove"}))
    BY <1>0, <1>7, LeaveDoes
  <2>2. Row \in Rows /\ Row = rows[job.n]
    BY <1>1, <2>1 DEF Leaving
  <2>3. Freed.ready = rows[job.n].ready /\ Freed.env = rows[job.n].env /\ ~ByDomain(Freed)
        /\ rows[job.n].saved
    BY <2>2 DEF Freed, Rows, ByDomain
  <2>4. Offered(job.n)
    BY <1>0 DEF Telling, Told
  <2>5. CASE Closed(Freed, {"taken"})
    BY <1>0, <2>3, <2>4, <2>5, ClosedTold DEF Offered, Script, stored
  <2>6. CASE Looked({"remove"})
    BY <1>0, <2>1, <2>6, LookTold DEF At
  <2> QED BY <2>1, <2>5, <2>6
<1>8. CASE Remove
  <2>1. /\ At("remove")
        /\ \/ job.cmd = "delete" /\ Asked(Set(job.n, NoScript), "forget")
           \/ job.cmd = "account" /\ Asked(Set(job.n, NoScript), "done")
    BY <1>0, <1>8, RemoveDoes
  <2>2. NoScript \in Scripts /\ ~NoScript.made
    BY DEF NoScript, Scripts
  <2>3. stored(job.n) => "gone" \in unfinished[job.n]
    BY <1>0, <2>1 DEF Begun
  <2> QED BY <1>0, <2>1, <2>2, <2>3, ScriptTold DEF At
<1>9. CASE Forget
  <2>1. At("forget") /\ Closed(NoRow, Parts)
    BY <1>0, <1>9, RemoveDoes
  <2>2. ~NoRow.saved
    BY DEF NoRow
  <2> QED BY <1>0, <2>1, <2>2, ClosedTold
<1>10. CASE Done
  <2>1. job' = Idle /\ UNCHANGED <<rows, cloud, unfinished>>
    BY <1>0, <1>10, RemoveDoes
  <2>2. \A n \in Names : Offered(n)' /\ Made_(n)'
    BY <2>1, SameIsTold DEF Telling, Told, HasDomain
  <2> QED BY <2>1, <2>2 DEF Told, Quiet, At, Idle
<1> QED BY <1>2, <1>3, <1>4, <1>5, <1>6, <1>7, <1>8, <1>9, <1>10 DEF DetachSteps

\* A command that begins offers no more than there was.
LEMMA CommandsTold ==
  ASSUME Telling, NEW n \in Names
  PROVE  /\ \A env \in Envs : Create(n, env) \/ Update(n, env) => Told'
         /\ Attach(n) \/ Detach(n) \/ Delete(n) \/ AccountDelete(n) => Told'
<1>0. TypeOK
  BY DEF Telling, Knowing
<1>1. \A m \in Names : Offered(m) /\ Made_(m)
  BY DEF Telling, Told
<1>2. ASSUME NEW env \in Envs, Create(n, env)
      PROVE  Told'
  <2>1. /\ job'.cmd = "deploy" /\ job'.pc \in DeploysAt(n) /\ cloud' = cloud /\ job'.row = NewRow(env)
        /\ rows' = [rows EXCEPT ![n] = NewRow(env)]
        /\ unfinished' = [unfinished EXCEPT ![n] = @ \union {"script"}]
    BY <1>0, <1>2, CreateDoes
  <2>2. /\ rows'[n] = NewRow(env) /\ \A m \in Names \ {n} : rows'[m] = rows[m]
        /\ \A m \in Names \ {n} : unfinished'[m] = unfinished[m]
    BY <1>0, <2>1 DEF TypeOK
  <2>3. ~NewRow(env).ready /\ ~NewRow(env).domain
    BY DEF NewRow
  <2>4. ASSUME NEW m \in Names
        PROVE  Offered(m)' /\ Made_(m)'
    <3>1. CASE m # n
      BY <1>1, <2>1, <2>2, <3>1, SameIsTold DEF HasDomain
    <3>2. CASE m = n
      <4>1. Offered(m)'
        BY <2>2, <2>3, <3>2 DEF Offered, stored, ByDomain
      <4> QED BY <1>1, <2>1, <4>1 DEF Made_
    <3> QED BY <3>1, <3>2
  <2>5. job'.pc \notin {"made", "enable", "push", "ready", "attached", "claim"}
    BY <2>1 DEF DeploysAt
  <2> QED BY <2>1, <2>3, <2>4, <2>5 DEF Told, At, Row
<1>3. ASSUME UNCHANGED <<rows, cloud>>, \A m \in Names : unfinished[m] \subseteq unfinished'[m],
             job'.pc \notin {"made", "enable", "push", "ready", "attached", "claim"},
             job'.cmd = "deploy" => ~job'.row.ready
      PROVE  Told'
  <2>1. ASSUME NEW m \in Names
        PROVE  Offered(m)' /\ Made_(m)'
    <3>1. Offered(m)'
      BY <1>1, <1>3, StillOffered DEF Runs, HasDomain, stored
    <3> QED BY <1>1, <1>3, <3>1 DEF Made_
  <2> QED BY <1>3, <2>1 DEF Told, At, Row
<1>4. ASSUME NEW parts, unfinished' = [unfinished EXCEPT ![n] = @ \union parts] \/ unfinished' = unfinished
      PROVE  \A m \in Names : unfinished[m] \subseteq unfinished'[m]
  BY <1>0, <1>4 DEF TypeOK
<1>5. ASSUME NEW env \in Envs, Update(n, env)
      PROVE  Told'
  <2>1. job'.cmd = "deploy" /\ job'.pc \in DeploysAt(n) /\ UNCHANGED <<rows, cloud>> /\ ~job'.row.ready
        /\ unfinished' = [unfinished EXCEPT ![n] = @ \union {"script"}]
    BY <1>0, <1>5, UpdateDoes
  <2> QED BY <1>3, <1>4, <2>1 DEF DeploysAt
<1>6. ASSUME Attach(n) \/ Detach(n) \/ Delete(n) \/ AccountDelete(n)
      PROVE  Told'
  <2>1. job'.pc \in {"pending", "remove", DetachAt(n)} /\ UNCHANGED <<rows, cloud>> /\ job'.cmd # "deploy"
    BY <1>0, <1>6, AttachBegins, DetachBegins, DeleteBegins, AccountDeleteBegins
  <2>2. \A m \in Names : unfinished[m] \subseteq unfinished'[m]
    BY <1>0, <1>4, <1>6, AttachBegins, DetachBegins, DeleteBegins, AccountDeleteBegins
  <2> QED BY <1>3, <2>1, <2>2 DEF DetachAt
<1> QED BY <1>2, <1>5, <1>6

\* Every step of the system keeps what the rows offer.
LEMMA ToldStep ==
  ASSUME Telling, [Next]_vars
  PROVE  Told'
<1>0. TypeOK /\ \A m \in Names : Offered(m) /\ Made_(m)
  BY DEF Telling, Knowing, Told
<1>1. CASE Step
  BY <1>1, DeployTold, AttachTold, DetachTold DEF Step
<1>2. ASSUME NEW n \in Names, ForgetHere(n)
      PROVE  Told'
  <2>1. UNCHANGED <<cloud, job, unfinished>> /\ rows' = [rows EXCEPT ![n] = NoRow] /\ Quiet
    BY <1>0, <1>2, ForgetDoes
  <2>2. ~rows'[n].saved /\ \A m \in Names \ {n} : rows'[m] = rows[m]
    BY <1>0, <2>1 DEF TypeOK, NoRow
  <2>3. \A m \in Names \ {n} : Offered(m)' /\ Made_(m)'
    BY <1>0, <2>1, <2>2, SameIsTold DEF HasDomain
  <2>4. Offered(n)' /\ Made_(n)'
    BY <1>0, <2>1, <2>2 DEF Offered, Made_, stored
  <2> QED BY <2>1, <2>3, <2>4 DEF Told, Quiet, At
<1>3. ASSUME UNCHANGED <<rows, cloud, job, unfinished>>
      PROVE  Told'
  <2>1. \A m \in Names : Offered(m)' /\ Made_(m)'
    BY <1>0, <1>3, SameIsTold DEF HasDomain
  <2> QED BY <1>3, <2>1 DEF Told, Telling, Quiet, At, HasDomain, Script, Row
<1>4. CASE Connected \/ Stop \/ \E n \in Names : Connect(n)
  BY <1>0, <1>3, <1>4, CarrierDoes
<1>5. CASE Operator
  <2>1. /\ UNCHANGED <<rows, job, unfinished>> /\ cloud'.script = cloud.script
        /\ cloud'.pages = cloud.pages
        /\ cloud'.service = cloud.service \/ (cloud.service = Nobody /\ cloud'.service = Other)
    BY <1>0, <1>5, OperatorDoes
  <2>2. \A m \in Names : HasDomain(m) => HasDomain(m)'
    BY <2>1, NamesAreNames DEF HasDomain
  <2>3. \A m \in Names : Offered(m)' /\ Made_(m)'
    BY <1>0, <2>1, <2>2, SameIsTold
  <2>4. (At("attached") => HasDomain(job.n))'
    <3>1. At("attached") => job.n \in Names /\ HasDomain(job.n)
      BY <1>0, AtWork DEF Telling, Told, At, Quiet
    <3>2. At("attached") => HasDomain(job.n)'
      <4>1. job'.n = job.n
        BY <2>1
      <4> QED BY <2>2, <3>1, <4>1 DEF HasDomain
    <3> QED BY <2>1, <3>2 DEF At
  <2>5. (At("claim") => cloud.service \in {Nobody, Other, job.n})'
    BY <2>1 DEF At, Telling, Told
  <2>6. (~Quiet /\ job.cmd = "deploy" => ~Row.ready)'
    BY <2>1 DEF Quiet, At, Telling, Told, Row
  <2>7. (job.pc \in {"made", "enable", "push", "ready"} =>
          /\ Script.made /\ Script.config = Row.env
          /\ job.n \in Workers \/ At("ready") => Script.runs = Row.env
          /\ At("ready") => Script.host)'
    BY <2>1 DEF Telling, Told, At, Script, Row
  <2> QED BY <2>3, <2>4, <2>5, <2>6, <2>7 DEF Told
<1>6. CASE Crash
  <2>1. job' = Idle /\ UNCHANGED <<rows, cloud, unfinished>>
    BY <1>0, <1>6, CrashDoes
  <2>2. \A m \in Names : Offered(m)' /\ Made_(m)'
    BY <1>0, <2>1, SameIsTold DEF HasDomain
  <2> QED BY <2>1, <2>2 DEF Told, Quiet, At, Idle
<1>7. CASE UNCHANGED vars
  BY <1>3, <1>7 DEF vars
<1> QED BY <1>1, <1>2, <1>4, <1>5, <1>6, <1>7, CommandsTold DEF Next

\* Nothing is offered at first.
LEMMA StartIsTold ==
  ASSUME Init
  PROVE  Told
BY DEF Init, Told, Offered, Made_, stored, NoRow, NoScript, Quiet, At, Idle

\* Both layers of the invariant.
LEMMA TellingHolds == Spec => []Telling
<1>1. Telling /\ [Next]_vars => Told'
  BY ToldStep
<1>2. Init => Told
  BY StartIsTold
<1>3. Knowing /\ Told /\ [Next]_vars => Told'
  BY <1>1 DEF Telling
<1>4. Telling <=> Knowing /\ Told
  BY DEF Telling
<1> QED BY <1>2, <1>3, <1>4, KnowingHolds, PTL DEF Spec

\* What a saved row offers to connect through is there, whoever else edits the domain and
\* whenever the carrier is used: the script of a ready row runs and has its hostname, was told
\* what the row says, and the domain leads to it once its setup is complete; a command that
\* failed is the exception for the part it had begun.
THEOREM OffersAreThere == Spec => [](\A n \in Names : Offered(n))
<1>1. Telling => \A n \in Names : Offered(n)
  BY DEF Telling, Told
<1> QED BY <1>1, TellingHolds, PTL

(***************************************************************************)
(* Nothing in use is changed, when nobody connects during a command.       *)
(***************************************************************************)
\* A command begins on what is not in use, and the carrier takes only what is saved.
LEMMA UndisturbedStep ==
  ASSUME Courteous, Knowing, Undisturbed, [Next]_vars
  PROVE  Undisturbed'
<1>0. TypeOK /\ Begun
  BY DEF Knowing
<1>1. CASE Step
  <2>1. ~Quiet /\ job.n \in Names /\ using' = using
    BY <1>0, <1>1, StepsAreBusy, AtWork DEF Step
  <2>2. \A n \in Names : in_use(n)' <=> in_use(n)
    BY <2>1 DEF in_use
  <2>3. job' = Idle \/ (job'.n = job.n /\ job'.cmd = job.cmd)
    <3>1. /\ \A pcs : Looked(pcs) => job' = Idle \/ (job'.n = job.n /\ job'.cmd = job.cmd)
          /\ \A after, pc : Asked(after, pc) => job' = Idle \/ (job'.n = job.n /\ job'.cmd = job.cmd)
          /\ \A row, pcs : Kept(row, pcs) => job' = Idle \/ (job'.n = job.n /\ job'.cmd = job.cmd)
          /\ \A row, parts : Closed(row, parts) => job' = Idle
      BY DEF Looked, Asked, Kept, Closed, Went
    <3> QED BY <1>0, <1>1, <3>1, DeployDoes, AttachDoes, LeaveDoes, RemoveDoes
            DEF Step, DeploySteps, AttachSteps, DetachSteps
  <2>4. rows' = rows \/ (job.cmd # "account" /\ \E row : rows' = [rows EXCEPT ![job.n] = row])
    <3>1. /\ \A pcs : Looked(pcs) => rows' = rows
          /\ \A after, pc : Asked(after, pc) => rows' = rows
          /\ \A row, pcs : Kept(row, pcs) => rows' = rows \/ \E r \in Rows : rows' = [rows EXCEPT ![job.n] = r]
          /\ \A row, parts : Closed(row, parts) =>
               rows' = rows \/ \E r \in Rows \union {NoRow} : rows' = [rows EXCEPT ![job.n] = r]
      BY DEF Looked, Asked, Kept, Closed
    <3>2. job.cmd = "account" => Remove \/ Done
      <4>1. job.cmd = "account" => job.pc \in {"remove", "done"}
        BY <1>0, <2>1 DEF Begun
      <4>2. job.pc \in {"remove", "done"} => Remove \/ Done
        BY <1>0, <1>1, DeployDoes, AttachDoes, LeaveDoes, RemoveDoes
           DEF Step, DeploySteps, AttachSteps, DetachSteps, At
      <4> QED BY <4>1, <4>2
    <3>3. rows' = rows \/ \E r \in Rows \union {NoRow} : rows' = [rows EXCEPT ![job.n] = r]
      BY <1>0, <1>1, <3>1, DeployDoes, AttachDoes, LeaveDoes, RemoveDoes
         DEF Step, DeploySteps, AttachSteps, DetachSteps
    <3>4. Remove \/ Done => rows' = rows
      BY <1>0, <3>1, RemoveDoes
    <3> QED BY <3>2, <3>3, <3>4
  <2>5. \A n \in Names : in_use(n) => rows'[n] = rows[n]
    BY <1>0, <2>1, <2>4 DEF TypeOK, Undisturbed
  <2>6. \A n \in Names : in_use(n)' => stored(n)' /\ rows'[n] = using'.row
    BY <2>1, <2>2, <2>5 DEF Undisturbed, stored
  <2>7. (~Quiet /\ job.cmd # "account" => ~in_use(job.n))'
    BY <2>1, <2>3 DEF Undisturbed, Quiet, At, Idle, in_use
  <2> QED BY <2>6, <2>7 DEF Undisturbed
<1>2. ASSUME NEW n \in Names, NEW env \in Envs, Create(n, env)
      PROVE  Undisturbed'
  <2>1. ~stored(n) /\ rows' = [rows EXCEPT ![n] = NewRow(env)] /\ job'.n = n /\ using' = using
    BY <1>0, <1>2, CreateDoes
  <2>2. \A m \in Names \ {n} : rows'[m] = rows[m]
    BY <1>0, <2>1 DEF TypeOK
  <2> QED BY <2>1, <2>2 DEF Undisturbed, in_use, stored
<1>3. ASSUME NEW n \in Names, UNCHANGED <<rows, using>>, job'.n = n, job'.cmd = "account" \/ ~in_use(n)
      PROVE  Undisturbed'
  BY <1>3 DEF Undisturbed, in_use, stored
<1>4. ASSUME NEW n \in Names, NEW env \in Envs, Update(n, env)
      PROVE  Undisturbed'
  BY <1>0, <1>3, <1>4, UpdateDoes
<1>5. ASSUME NEW n \in Names, Attach(n) \/ Detach(n) \/ Delete(n) \/ AccountDelete(n)
      PROVE  Undisturbed'
  BY <1>0, <1>3, <1>5, AttachBegins, DetachBegins, DeleteBegins, AccountDeleteBegins
<1>6. ASSUME NEW n \in Names, ForgetHere(n)
      PROVE  Undisturbed'
  <2>1. ~in_use(n) /\ rows' = [rows EXCEPT ![n] = NoRow] /\ UNCHANGED <<job, using>> /\ Quiet
    BY <1>0, <1>6, ForgetDoes
  <2>2. \A m \in Names \ {n} : rows'[m] = rows[m]
    BY <1>0, <2>1 DEF TypeOK
  <2> QED BY <2>1, <2>2 DEF Undisturbed, in_use, stored, Quiet, At
<1>7. ASSUME NEW n \in Names, Connect(n)
      PROVE  Undisturbed'
  <2>1. /\ UNCHANGED <<rows, job>> /\ stored(n) /\ Quiet
        /\ using' = [state |-> "connecting", n |-> n, row |-> rows[n]]
    BY <1>0, <1>7, CarrierDoes
  <2> QED BY <2>1 DEF Undisturbed, in_use, stored, Quiet, At
<1>8. CASE Connected
  <2>1. UNCHANGED <<rows, job>> /\ in_use(using.n) /\ using'.n = using.n /\ using'.row = using.row
    BY <1>0, <1>8, CarrierDoes
  <2>2. \A n \in Names : in_use(n)' => in_use(n)
    BY <2>1 DEF in_use
  <2>3. ~Quiet => job.n \in Names
    BY <1>0, AtWork
  <2>4. (~Quiet /\ job.cmd # "account" => ~in_use(job.n))'
    <3>1. ~Quiet /\ job.cmd # "account" => ~in_use(job.n)
      BY DEF Undisturbed
    <3> QED BY <2>1, <2>3, <3>1 DEF in_use, Quiet, At
  <2> QED BY <2>1, <2>2, <2>4 DEF Undisturbed, stored
<1>9. ASSUME using' = NotUsed
      PROVE  Undisturbed'
  <2>1. \A n : ~in_use(n)'
    BY <1>9 DEF in_use, NotUsed
  <2>2. ~in_use(job.n)'
    BY <1>9 DEF in_use, NotUsed
  <2> QED BY <2>1, <2>2 DEF Undisturbed
<1>10. CASE Stop \/ Crash
  BY <1>0, <1>9, <1>10, CarrierDoes, CrashDoes
<1>11. ASSUME UNCHANGED <<rows, job, using>>
       PROVE  Undisturbed'
  BY <1>11 DEF Undisturbed, in_use, stored, Quiet, At
<1>12. CASE Operator \/ UNCHANGED vars
  BY <1>0, <1>11, <1>12, OperatorDoes DEF vars
<1> QED BY <1>1, <1>2, <1>4, <1>5, <1>6, <1>7, <1>8, <1>10, <1>12 DEF Next

\* What a row offers to connect through is there, and the deployment the carrier connects
\* through is not changed under it, when nobody connects while a command runs.
THEOREM RowsAreTrue == Courteous => (Spec => []ReadyIsTrue)
<1> SUFFICES ASSUME Courteous
             PROVE  Spec => []ReadyIsTrue
  OBVIOUS
<1>1. Init => Undisturbed
  BY DEF Init, Undisturbed, in_use, NotUsed, Quiet, At, Idle
<1>2. Knowing /\ Undisturbed /\ [Next]_vars => Undisturbed'
  BY UndisturbedStep
<1>3. Telling /\ Undisturbed => ReadyIsTrue
  <2> SUFFICES ASSUME Telling, Undisturbed, NEW n \in Names
               PROVE  /\ stored(n) /\ rows[n].ready =>
                           /\ "gone" \notin unfinished[n] => Runs(n)
                           /\ unfinished[n] \intersect {"script", "gone"} = {} =>
                                cloud.script[n].runs = rows[n].env
                           /\ ByDomain(rows[n]) /\ "taken" \notin unfinished[n] => HasDomain(n)
                      /\ in_use(n) => rows[n] = using.row
    BY DEF ReadyIsTrue
  <2>1. Offered(n)
    BY DEF Telling, Told
  <2> QED BY <2>1 DEF Offered, Undisturbed
<1> QED BY <1>1, <1>2, <1>3, KnowingHolds, TellingHolds, PTL DEF Spec
=============================================================================

# A TLA+ model of WhiteAesther

WhiteAesther is a Tauri desktop application that connects a machine to the open
internet: a Rust back end (`src/src-tauri/src`) starts the Aether engine, or
Psiphon, or Tor, or a Cloudflare Worker, or a chain of two, as child processes,
watches them, puts mihomo and a network door in front of them, points the operating
system's proxy at the result, and puts everything back afterwards; a React front end
shows a snapshot of what the back end is doing. This directory models the back end's
concurrent state in TLA+, checks it with TLC and proves what matters most with TLAPS.

In what follows `cs:N` is line N of `src/src-tauri/src/core_supervisor.rs`; other
files of `src/src-tauri/src` are named without their directory.

## 1. Inventory

| Component | State it keeps | Operations | What is hard | Module |
| --- | --- | --- | --- | --- |
| Supervisor, one engine (`core_supervisor.rs`) | generation, session, child slot, snapshot, proxy route, each under a mutex of its own | start, stop, set_system_proxy, launch, exit monitor, handle_exit / hold / give_up, log reader, route watch and rescan | every operation takes the mutexes one after the other, on threads of their own; only the generation tells a thread that it has been superseded | `Supervisor` |
| Supervisor, carriers and recovery (`core_supervisor.rs`) | the running hops, the chain, the recovery's round | start_carrier, start_hop, watch, carrier_died, schedule_carrier_recovery, change of exit | hops are started one behind the other and each may die; several watches may notice | `Carriers` |
| Carrier processes (`psiphon.rs`, `tor.rs`, `carrier.rs`) | slot, generation, snapshot; tor's files | start, stop, wait, notices, control port | a stop during a spawn; a port is not a tunnel; deadlines | `CarrierProcess` |
| System proxy (`system_proxy.rs`) | the platform's settings, the backup file | apply, revert, recover | a crash or a failed write between any two settings | `SystemProxy` |
| Routing engine (`chain.rs`) | mihomo's process, its address, its configuration | start, stop, and what follows | started by the log reader and by commands; waited for with a deadline; moves on every start | `Routing`, `RoutingRules` |
| Network sharing (`lan_share.rs`) | the open door: listener, target, settings | open, close, retarget, serve | the new door is opened before the old one is dropped; two protocols with one sign-in | `LanDoor` |
| Race (`race.rs`, `carrier_probe.rs`) | workers, reserve, stop flag | search, win, lose, cancel | several carriers answer, fail and are cancelled at once; the network changes | `Race` |
| Recipes and route memory (`recovery.rs`, `route_memory.rs`) | per-network entries on disk; the settings a winner replaced | recall, record, prune, plan, attempt | bounded, expiring; a winner must not become a setting | `Planning`, `RouteMemory` |
| Endpoint scanner (`scanner.rs`) | one reporting run in a slot, endpoint memory | scan, test, cancel | cancelled while it starts or ends; a run that hangs | `Scanner` |
| Log pump (`core_supervisor.rs`) | pending lines, dirty flag | push, drain | the flag is swapped before the snapshot is read | `Scanner` (flag only) |
| Worker setup (`worker.rs`, `worker_api.rs`) | rows on disk; scripts, domains and records at Cloudflare | create, update, attach, detach, delete, forget | a request is carried out and its answer lost; the application ends half way | `Deployments` |
| HTTP bridge, latency probe, MASQUE-in-MASQUE identity, elevation, TLS options, tor's bridges, Iran routes, shell | little or none | | I/O | see section 8 |
| Front end (`src/src`) | a copy of the snapshot, settings | commands, polling | does not serialise connect and disconnect | not modelled |

Components interact through calls (start and stop call the chain, the door and the
system proxy), through the shared `SupervisorInner`, through events the pump sends to
the window, and through processes: the exit monitor polls the child in the slot, the
readers read the children's output and move the snapshots.

What makes them correct: no process outlives the interest in it; a disconnect is
final; a claimed session is acted on by exactly one thread; retries and searches end;
the machine's proxy is where the session wants it, is never taken away by a failure
when the kill switch is on, and the way back to the owner's settings is never lost;
what is offered, remembered or shown has been verified.

## 2. How the modules fit together

```
Lifecycle <== refined by == Supervisor
                               | (an exit the automatic branch answers)
CarrierProcess ..(a slot)..> Carriers ..(a search is an answer)..> Race ---- RouteMemory
                               | (the tunnel comes and goes)         Planning --/
                          Routing = RoutingRules + LanDoor
SystemProxy                Scanner                Deployments
```

Each of `Supervisor`, `Carriers`, `CarrierProcess`, `Race`, `Routing`, `SystemProxy`,
`Scanner` and `Deployments` has an `MC` module with its small instance and a `Proofs`
module that EXTENDS it and holds its theorems; those of `Planning` are in `RaceProofs`,
because both rest on the same lemmas about the route memory.

A solid line is EXTENDS or INSTANCE; a dotted one is an abstraction made by hand: the
upper module takes for a step, or for a nondeterministic answer, what the other has in
detail. `Routing` composes the rules and the door with mihomo's process, because what
follows mihomo is what goes wrong. `Race` and `Planning` share the operators of
`RouteMemory`: the first interleaves threads with recipes as tokens, the second has the
real ladder of recipes with a search as one step. `Carriers` and `CarrierProcess` meet
at the slot of a hop, `Supervisor` and `SystemProxy` at apply and revert, which the lock
on the route makes one step for every other thread.

A step is what a thread does under one lock, or between two points where another thread
can be heard. Definitions keep the names of the code. A definition whose comment begins
with "Mutant" is a variant of a definition below it with one plausible bug; nothing uses
it, and putting it in the other's place makes TLC refute the property that guards against
that bug.

## 3. Modules

### Lifecycle
What the supervisor promises: `wanted` and one engine that is up or not. An engine is
launched only while a connection is asked for and only when none is up; an engine nobody
wants is ended (`WF_vars(Reap)`).

### Supervisor, MCSupervisor

| Variable | In the code |
| --- | --- |
| `generation`, `session`, `child`, `route` | the fields of `SupervisorInner` (`NoSession` is `None`, a child is its process's identity) |
| `proc` | whether the operating system still runs each process |
| `snapshot` | state, pid, blocking, whether the last error is a terminal ECH failure, and whose line made it connected |
| `mihomo`, `door` | `Chain` is running, `LanDoor` is open |
| `thr` | each thread: next step, the generation it was given, the process it has spawned and not yet put in the slot, what it has copied |
| `events`, `wanted` | the bound on commands; what the last command that took effect asked for |

`StartCheck` to `StartUnclaim` are start_core_blocking; `Spawn`, `ClaimSlot`, `Publish`
launch; `MonitorCheck`, `MonitorPoll` the monitor; `ExitReason` to `WaitOver` handle_exit
with decide_exit, hold and give_up; `ReadLine` to `ReadEof` the log reader; `StopBegin` to
`StopIdle` stop_inner; `Toggle*` set_system_proxy; `Watch*` and `Rescan*` the route watch.
A profile is its six decisions and a line one of five kinds; a delay is a step that may
come at any time; `Faults` says which system calls may fail. A profile with `auto_route`
that exits goes to the label `release`, where the recovery of another carrier begins: no
run uses one, and `Carriers` has what follows.

### Carriers, MCCarriers
A session of one or two hops (RunningChain holds no more). Slots (`hop`, `chain`,
`mihomo`, `proxy`) hold the generation they were filled for. A thread is a start, a repair
or a command:

| Actions | In the code |
| --- | --- |
| `Start`, `Begin`, `Take` | start_core_blocking: the guard, the new generation (cs:972), the claim on the session |
| `Launch`, `LaunchFails` | launch of an engine on its own, which looks at the generation under the slot's lock |
| `StartHop`, `HopUp`, `HopFails`, `Joined`, `Publish`, `EngineFails`, `StartFailed` | start_hop and start_carrier_blocking; a Psiphon or tor that does not come up empties its slot, an engine is left running (cs:3339, 3355) |
| `WatchEnds`, `HopDied`, `EngineDied`, `Teardown` | spawn_carrier_watch, carrier_died and the automatic branch of handle_exit, up to the compare-exchange |
| `Claim`, then `Drop`, then `ClearProxy` or `Tell` | the compare-exchange (cs:3087), `session = None` (3089), the proxy and the screen, each a step of its own |
| `RecoveryEnds`, `RoundFails` | schedule_carrier_recovery before an attempt |
| `Attempt`, then `Take` | is_current (cs:2951), then `session = Some` (2952) |
| `AttemptFailed`, then `Check`, then `Lose`, then `Tell` | the stops (cs:2963), is_current (2967), `session = None` (2968), the screen (2969) |
| `Stop`, `Stopped`; `Move`; `SetChain` | stop_inner; set_psiphon_region; set_chain |

Between any two of them anything else may happen. A search is an answer (`Race`); an
engine on its own is here only because its exit may hand the session over, so the profiles
of `Profiles` that have no other carrier are automatic and reconnect, and hold and give_up
after the last attempt are left to `Supervisor`.

### CarrierProcess, MCCarrierProcess
One slot, one generation and one snapshot; threads in start and stop; the program, which
binds, connects, loses its tunnel, gives up and exits when it likes. Psiphon says what it
does in notices that a reader checks (`ReadNotice`) and applies (`ApplyNotice`) in two
steps; tor leaves two files and is asked over its control port. `kind` chooses.

### SystemProxy, MCSystemProxy
The operating system's proxy is several values, written by each platform in its own order
(`Fields`). `settings` is what they hold, `own` what the machine's owner left in them,
`backup` the file: absent, torn, or what it holds. `ApplyBegin`, `Query`, `Save`, `Open`,
`ApplyField`, `Applied`; `ClearBegin` or `Launch`, `Load`, `RestoreField`, `Restored`,
`Remove`; `Crash` at every step. fs::write creates the file before it fills it, so its
failure, and a crash inside it, leave a torn backup. A restore on macOS ignores its errors.

### RoutingRules, LanDoor, Routing, MCRouting
`RoutingRules` is pure: which chains there are, what they carry, when mihomo is wanted, the
rules `render` writes (a rule is a test and a target, the first that passes decides).
`LanDoor` has the listeners (the old one stays until its accept thread has seen the flag)
and a client for each combination of protocol, sign-in and request. `Routing` has mihomo's processes, the file they read, the slot, and every path
that starts one: a connection, a reconnection, set_chain and set_full_tunnel, in the steps
of `Chain::start` (`Begin` to `Store`, `Failed`); then `Publish`, where proxy and door
follow. A process answers when it likes, dies when it likes, and may come up without its
device or its port.

### RouteMemory, Race, MCRace
`main` is the thread of search_blocking, `worker` one thread per carrier that tries lanes,
`channel` the reports, `flag` the stop flag, `running` whose each carrier's process is.
`Receive` takes the engine at once and keeps another carrier in reserve. `Verify` decides
whether the answer is still wanted, `Record` writes the memory. `carried`, `interrupted`
and `proven` are history.

### Planning, MCPlanning
`candidates` is the ladder of recovery.rs with its six fields, `recipes` what a memory
makes of it: each recipe once (`EachOnce`), the proven one and the one the last failure
calls for in front (`Lead`). `profile_for_attempt` is the recipe of a retry, `EngineWins`
winner and apply, `Policy` what a search starts from.

### Scanner, MCScanner
A job is a scan or a Quick Test: passes, offers, two confirmations each, and the reporting
run of the engine in `slot`. `pump`, `dirty` and `window` are the pump, which takes the
mark off before it reads the snapshot. A network that cannot be told is `""`. What a scan
has found is a set, and `Rankings` the orders in which it may be offered: between equals
the round trips decide, which are left out, so any of those orders may come. `Pass` asks
can_continue only while there is a pass left: a search that is cancelled, or whose network
goes, during its last pass ranks, returns and remembers what it has (scanner.rs:89 to 183,
322 to 353). `memory` has an entry for each network, with the number of the search that
wrote it, which is its age; what an earlier run of the program left has number 0, and an
entry that is too old to be read is one that is not there. `crossed` is history, of each
search: which gateways traffic crossed during it.

### Deployments, MCDeployments
`rows` is deployments.json, `cloud` the other party, `job` the command in hand as a
sequence of requests (`Ask`, `Look`) and saves (`Save`, `SaveLast`), `using` the carrier's
connection. A request may be lost on its way or on its way back, a busy edge is asked three
times, and `Crash` ends the application at any point. `unfinished` and `forgotten` are
history. A name is used again once nothing of it is left, here or there, which keeps the
states finite without a bound on commands. Commands run one at a time: nothing in
worker_api.rs makes them, but the front end starts none while another is awaited (`busy`
in Worker.tsx, line 144).

## 4. Runs

Two processors suffice for each in under five minutes. Deadlock is not checked anywhere:
the user stops issuing commands, and bounds run out.

| Run | What it shows | Bounds |
| --- | --- | --- |
| SupervisorSafety | `NoStrayEngine`, `StopSticks` with spawn, mihomo and the door failing | two processes, `MaxAttempts = 1`, three commands |
| SupervisorKillSwitch | `KillSwitchHolds`, `OneSupervisor`, `TypeOK` with apply, revert and kill failing, and rescans | two processes, two commands |
| SupervisorLive | `BlockingIsRetried`, `ExitIsAnswered`, `RetriesEnd`, `LifecycleSpec` | kill switch on, a connect and a disconnect |
| SystemProxySafety | `WayBack`, `BridgeIsServed` with a crash at every step | three platforms, three bridges, two owners' servers; commands unbounded |
| CarriersSafety | `OneAtWork`, `NothingIsLeft`, `KillSwitchHolds`, `DeathIsAnswered` | three profiles (a pair with the kill switch, Psiphon alone that does not reconnect, the engine alone), three threads, three commands, one death, two attempts |
| CarrierProcessSafety | `NoStrayProcess`, `ReadyMeansTunnel`, `StartReturns` | both kinds, a starter and a stopper, two processes, two calls, two unread notices |
| RaceSafety | `NothingMissed`, `NothingTriedIsLeft`, `RememberedIsProven`, `WinnerIsWanted`, `SearchEnds` | the engine with one recipe, a memory in which it leads on one network, one other carrier, two rounds, one search, one event, two networks, two ticks |
| PlanningSafety | `ProvenLeads`, `SettingsSurvive`, `EveryRecipeHasItsTurn`, `MemoryIsBounded` | four settings, all recipes, two networks with room for one, three ticks |
| RoutingSafety | `NoStrayEngine`, `EngineIsAsAsked`, `RulesAreSound`, `FollowsTheEngine`, `SignedIn` | three sessions (one without the proxy), three commands, two faults, three doors, one device |
| DeploymentsSafety | `NothingIsOrphaned`, `ReadyIsTrue`, `DomainIsWhole`, `DeleteSucceeds` | a Worker and a Pages project, one domain, two settings, one fault (or one end of the application) |
| ScannerSafety | `NothingIsLeft`, `FoundIsConfirmed`, `WindowIsCurrent`, `SearchEnds` | two gateways of which one is asked for, one recipe, one search and one move, memory for one network of two |
| DoorIsStranded | violates `DoorLeadsOut`, section 6 | a full tunnel and a door |

Why the bounds are enough. Two processes of the engine: an identity is used again once
nothing refers to it, and a third never arises, since one is in the slot and one in a
thread's hands at most; one retry reaches, passes and resets the budget; three commands
are connect, disconnect and connect again while a retry, a reader and a monitor of the
first connection still run. In `Carriers` the first of two hops may die while the second
is being started, and the third thread is a disconnect beside a repair and a start. Two
calls of a carrier are a start and the stop that overtakes it. One search with two rounds
has every order of win, reserve, failure and ceiling. Room for one network of two makes
every record evict. One candidate asked for where two can be found makes a scan leave one
out, which the run is to see; that of two offered the better comes first is the theorem's
(with two asked for and two gateways TLC agrees). Two faults in `Routing` are a start that
fails and a repair of it that fails. One fault in `Deployments` is the step that fails, and everything the user does
afterwards to recover is unbounded.

### Hypotheses

What the program can meet is more than what it is right for. Each module names what the
runs assume as a constant, never by changing an action; with the constant the other way
TLC finds the histories of section 6.

| Constant | What it says |
| --- | --- |
| `Patient` (Supervisor) | a connect waits for the disconnect to return, a disconnect for the connect to claim its session |
| `SlowRoutes = FALSE` (Supervisor) | no route goes bad; SupervisorKillSwitch has it TRUE |
| `Calm` (Carriers) | "stop", "user", "watch", "tunnel" and "prompt", see below |
| `Patient`, `Prompt` (CarrierProcess) | one start at a time, as the supervisor and the search make them; a notice that was read is applied before anything else moves |
| `Serial` (Routing) | one start of mihomo at a time |
| `Courteous` (Deployments, Scanner) | nobody connects, and no operator edits the zone, while a command or a search runs |
| `Survivable` (MCSystemProxy) | every call fails but a restore that macOS ignores and an apply that Windows leaves half done |

What the five parts of `Calm` say, and why the program usually keeps them:

* "stop": a disconnect is over before a later tunnel is up. A stop takes a few locks and
  kills, a tunnel takes seconds.
* "user": a connect waits for the last connect and disconnect to return, and a move is asked
  for when nothing is at work. A press of the button decides by the snapshot on
  screen and awaits its one call (toggleConnection in App.tsx); nothing stops a person who
  presses again while it is awaited.
* "watch": no watch looks while a move is going on. A watch looks once in some seconds.
* "tunnel": a Psiphon tunnel that a start has waited for is there when its address is read
  (psiphon.rs:426, :244).
* "prompt": a thread that has looked whether it is current makes its next statement before
  another thread looks. These are adjacent statements (cs:3087 and 3089, 2951 and 2952,
  2967 and 2968), and what the hypothesis excludes between them is a whole disconnect that
  returns, a click, and the check of a connect; a disconnect alone is not excluded. No lock
  and no second look makes it impossible.

`OneAtWork` needs "user" only, `KillSwitchHolds` none, `NothingIsLeft` all five: without
any one of "stop", "watch", "tunnel" or "prompt" TLC refutes it, and without "user"
`OneAtWork`. The histories are in section 6.

### Fairness

Weak fairness of each thread's own steps, because each is an operating-system thread that
nothing suspends, and a lock is held only for the length of a step. `Supervisor` has strong
fairness of a reader's end of file, because a reader with lines left in a closed pipe
alternates between reading and reaching its end; `CarrierProcess` has strong fairness of
its threads because `Prompt` disables everything else for a moment, again and again, while
a program prints, which in the program delays nobody. Deadlines pass (`Deadline`, the
ceiling of `Race`, the budget of `Scanner`). Nothing obliges the user, the network or a
child process to do anything. `RetriesEnd` and `DeleteSucceeds` state what they assume: an
engine that keeps ending without connecting, and a deletion that is asked for again and
again.

## 5. Proofs

TLAPS 1.4.5; every theorem is checked to its leaves. The proofs take from the code no more
than the named `ASSUME`s of the modules: what is a number is a number (processes, budgets,
shares, networks, bounds), a choice of settings is one the form can make (profiles,
sessions, routes, kinds), two sets of names do not meet, the engine is installed. TLC
evaluates each of them on the runs. Sets are of any size, sequences of any length, and
bounds any number. A hypothesis on the user or the timing is in the statement of its
theorem, and section 6 has the history that refutes the statement without it.

An invariant that TLC checks is seldom inductive. Each `Proofs` module begins with the
strengthening that is, in named parts; TLC has checked the parts on the instance of the
run before they were proved. Then come lemmas that say field by field what an action does
to the state ("...Does"), so that the actions need not be opened again; then, part by part
and action by action, that a step preserves the part.

### Supervisor (SupervisorProofs)

* `TypeCorrect`: `Spec => []TypeOK`, no hypotheses. The retry count is bounded because
  decide_exit compares before the count is stored.
* `SupervisorIsAlone`, `DisconnectIsFinal`: `[]OneSupervisor` and `[]StopSticks`, for
  `Patient` and `~SlowRoutes`. Neither formula is inductive; `Supervision` is. It says that
  whoever answers for the live generation is wanted and holds the current session, that
  the slot is empty while it is about to launch, what a connect may rely on between its
  check and its claim, and that a disconnect under way is heeded. Three lemmas carry the
  steps: `Calm` (a thread moves on within its duty), `Resign` (it lays it down) and `Bump`
  (a new generation orphans all).
* `EnginesAreHeld`: `[]NoStrayEngine`, if kills do not fail either. The second layer,
  `Hands`, says that a process named by a thread has been spawned by it, is named by no
  other, and has no monitor yet.
* `ImplementsLifecycle`: `Spec => L!SafeSpec`, where an engine is up while the slot is not
  empty. A launch maps to `Launch` because `Supervision` says that the generation is wanted
  and the slot empty.
* `KillSwitchIsKept`: `KillSwitchHolds` when every profile has the kill switch on, with no
  hypothesis on the user, the faults or the routes. The invariant `Armed` says that the
  profile a thread acts on comes from a session of a real generation, never from the empty
  profile of no session.
* `BlocksAreRetried`: `[]BlockingIsRetried` for `Patient`, `~SlowRoutes`, the kill switch
  on every profile and a user who does not take the proxy off; spawns, kills and the
  system's proxy calls may fail. The invariant is `Blocked`, on top of `Supervision` and
  `Armed`. A block that is shown may have been shown long ago, by a hold whose engine has
  since been retried and has ended again; `Blocked` follows it through all of that. It says
  that until a disconnect clears it some monitor of the live generation is at a label of
  the way from a hold to the next engine (`Retries`); that a monitor that has found traffic
  held still has its proxy (`RouteIsHeld`), which is what makes the verdict true when it is
  shown; that a shown block has no engine and no ECH failure (`BlockIsTrue`), so that no
  line of an older engine can turn the next exit into a final one; and that a session ended
  by an ECH failure had no block to leave behind (`EchIsFinal`). In a profile with
  `auto_route` the way ends at `release`, where this module does (section 3).

### Carriers (CarrierProcessProofs, CarriersProofs)

* `ProcessesAreHeld`: `[]NoStrayProcess` of one carrier, for `Patient`. `Alone` says that
  one start is under way at most; `Held` who holds a process at each label: the slot is
  empty from a start's own kill to its claim, and what the slot holds of an older
  generation a stop is about to kill.
* `ReadyHasTunnel`: `[]ReadyMeansTunnel`, for `Patient` and `Prompt`. For Psiphon,
  `Informed` says whose notices can still reach the snapshot of the live generation; for
  tor, `Controlled` says that the two files the start reads were written by its own
  process, since it removes those of earlier ones before it spawns.
* `HeldTrafficStays`: `KillSwitchHolds` of `Carriers`, with no hypothesis. Who repairs
  with the traffic held read the kill switch in the same step in which it learnt of the
  death, and `Known` says that who is at the clearing of the proxy does not hold it.
* `DeathIsMetOnce`: `[]OneAtWork`, if "user" is in `Calm`. `OneWorks` says that every
  generation has one thread that works for it: a takeover is a new generation, and a start
  makes its own.
* `NoHopIsLeft`: `[]NothingIsLeft`, for the whole of `Calm`, with every statement of the
  takeover and of an attempt a step of its own. `OneSession` is about who may write the
  session: one thread at a time stands between a look and its statement (`Looks`), and when
  the generation of a thread that is about to write has passed, nothing acts for the new
  one yet, no thread, no watch and no hop (`Fresh`), so that what it wipes or leaves there
  is nobody's. `Owned` is about hops: one of an older generation is awaited by a thread
  that will end it (`Awaited`), one of the live generation belongs to the session there is,
  and no thread that has none of it is about to take over.

### Search (RaceProofs)

* `SearchLeavesNothing`: `[]NothingTriedIsLeft`. `Phases` says which workers can be at work
  at each label of the thread that decides, and that a trial engine is only in the hands
  of the worker that probes it.
* `WinnerIsNotStale`: `WinnerIsWanted`, an action property. `Gens`: what has interrupted a
  search has left it with an older generation.
* `SearchMissesNothing`: `[]NothingMissed`. `Queued` says what may still come over the
  channel (of a group that is done, nothing), `Kept` that a lane that carried is in
  reserve, chosen or still to be heard of.
* `MemoryIsProven`: `[]RememberedIsProven` for behaviours that satisfy `[][NoReturn]_vars`:
  a machine that has left the network of a search does not come back before the search is
  over. Without it the theorem is false (section 6). `Judged` says that while the machine
  is on that network every lane that carried has done so there. That `Prune` and the two
  records only drop entries, or write the one of the network, is a lemma of its own.

### Recipes and route memory (RaceProofs)

Hypotheses of `Planning`: what is saved is a recipe, None is not one, and the attempts are
no fewer than the ladder can be long (12; MAX_ATTEMPTS is 12, counted from 0). Networks,
windows, the room in the file and the recipes that pass are any. `PlanInv` is inductive:

* `SettingsStay`: `[]SettingsSurvive`, inductive as it stands: the base is what was saved,
  or there is none and the settings in effect are.
* `EveryRecipeIsTried`: `[]EveryRecipeHasItsTurn`. `LadderIsShort` bounds the ladder;
  `EachOnceKeeps` and `Leading` say that removing repetitions and moving one to the front
  lose and add nothing, so a plan has what the ladder has whatever the memory says
  (`RecipesAreTheLadder`); `TurnsCoverAll` that a count modulo its length reaches every
  place.
* `MemoryStaysSmall`: `[]MemoryIsBounded`. In `PruneBounds` the number of newer entries
  is a place of its own for each entry that is kept, below MAX_NETWORKS; `Remembered` says
  that all but the entry being written is older than the clock, so nothing is newer than it.
* `ProvenStaysFirst`: `[]ProvenLeads`. `Recorded` follows a win through everything that may
  come between: its recipe is one of the ladder of its settings, and the entry of the
  network has it with no mark of a failure, or is gone. Its recipe being in the ladder is
  what makes the memory's word count, since `recipes` ignores one that is not.

No recursion is used: repetitions are removed by the places where something is first, put
in order by counting (`PlacesAreTaken`), so what `EachOnce` returns is proved from the
cardinality of finite sets.

### Routing and sharing (RoutingProofs)

* `RoutingTyped`: `[]TypeOK`, with what it says about addresses: those that are given out
  are the ones a door or the proxy can be led to.
* `NoEngineIsLost`: `[]NoStrayEngine`, for `Serial`. `InHands`: the slot is empty from a
  start's stop of the old engine to its own store.
* `HeldIsAsAsked`: `[]EngineIsAsAsked`, for `Serial`. `Built` says that the file on disk is
  the request of the start from its write on, that what came up from it runs that, and has
  its device before it is stored.
* `DoorAndProxyFollow`: `[]FollowsTheEngine`, for `Serial`. `Followed` says that what is
  about to be published is where the held engine listens, and that a connection publishes
  for the session there is. The property promises the proxy to a session that wants it:
  proving it for every session failed on the stale proxy of section 6.
* `NothingLeaks`: `[]RulesAreSound`, no hypotheses. `Configured` says that nothing is
  written and nothing runs that `Refused` refuses; the lemmas on the rules follow the
  order in which render writes them, with `MissesBoth` (a flow that misses two lists
  misses them in a row) and a lemma for each group of rules.
* `NobodyPassesUnsigned`: `[]SignedIn`, no hypotheses: a share keeps the sign-in it was
  opened with, and a client the share it came through.

### Scanner and deployments (ScannerProofs, DeploymentsProofs)

* `SearchesAreHeld`: `[]NothingIsLeft`. It needs `Single`: the supervisor's claim makes one
  job at a time, and what is in the slot is what that job waits for.
* `WindowFollows`: `[]WindowIsCurrent`, whose steps need nothing more: every change of the
  snapshot sets the mark, and the pump takes it off before it reads.
* `OffersAreConfirmed`: `[]FoundIsConfirmed`, about what is offered and what is remembered,
  for every way a search can end. `Numbered` says that a memory is of a search there was,
  and that a job at work is of the last one, so that the searches that follow change
  nothing of what an entry rests on. `Honesty` says of a job at each label that
  what it has counted of the gateway in hand is true (`Counted`), that it lists each
  gateway once and only with confirmations of its own (`Listed`), and that it offers the
  best of its list (`Offered`); and of a process that was asked to confirm a gateway and
  has said yes (`Reported`) that the gateway did carry.
* `NothingIsLost`: `[]NothingIsOrphaned`, no hypotheses. `Begun` says that the row a command
  works on is the saved one but for what the command itself changes, `OwnKind` that each
  service is asked about its own kind of deployment, `Known` which saves come before which
  requests.
* `OffersAreThere`: the part of `ReadyIsTrue` about rows (`Offered`), with an operator and a
  carrier at any time. `Told` says how far the other party is at each label.
* `RowsAreTrue`: `[]ReadyIsTrue`, for `Courteous`: the row in use is then the stored one.

### System proxy (SystemProxyProofs)

* `WayBackIsKept`: `[]WayBack`, unless a restore may fail on macOS, where the error is
  ignored and the backup removed. `Borrowed` says which label of an operation finds which
  file, and which fields are already restored.
* `BridgeIsKept`: `[]BridgeIsServed`, unless moreover an apply may fail half way on
  Windows, where the address just written is that of a bridge about to be dropped.
  `Pointed` says which bridge addresses the settings may hold at each label.

### Only model-checked

* Liveness (`ExitIsAnswered`, `RetriesEnd`, the fairness half of `LifecycleSpec`,
  `StartReturns`, `SearchEnds` twice, `DeathIsAnswered`, `DeleteSucceeds`): it needs
  ENABLED, which is out of the prover's reach.
* `DomainIsWhole`: TLC also finds it true with two Pages projects.

## 6. What the code does not keep

`DoorIsStranded` checks `DoorLeadsOut`, which lan_share.rs:14 promises ("whatever arrives
is forwarded to whichever listener is currently carrying traffic"), and TLC refutes it:
set_full_tunnel(false) stops an engine that only held the device up (cs:1612) and returns
without retargeting, so the door and the proxy keep pointing at a listener that is gone
while the tunnel itself carries.

The rest the modelling found are histories the hypotheses of section 4 exclude. They are
kept here, and the first four among the hazards, because a change of the code that removes
one lets its hypothesis be dropped.

| Where | What can happen |
| --- | --- |
| cs:1309 | a connect inside a disconnect passes its check while a retry is launching; its own launch overwrites the slot and the retried engine runs on with no handle |
| cs:2213 | an exit monitor suspended between its check and its poll takes the ended engine of a later connection and drops its exit as stale: nothing retries that connection |
| cs:2862 | record_log applies the proxy with the session it copied before mihomo's start, after a disconnect has cleared it |
| cs:2185 | a rescan bumps the generation after a disconnect and connects again |
| cs:2404, cs:2328 | a retry or a give-up clears the proxy without a second look at the generation: a newer session's proxy can be the one that goes |
| cs:2367, cs:2504 | an exit asks whether the proxy is applied, and its hold is decided and shown later: the user who takes the proxy off in between is told that traffic is blocked when it is not |
| cs:2694 | lines of an ended process, read late, make the next one read as connected |
| cs:972, cs:1113, cs:2963 | a superseded connect or recovery round takes down, or publishes over, what belongs to a newer session |
| cs:3087 | the thread that wins the compare-exchange clears the session at 3089: a disconnect, a connect and its claim in between, and the newer session is wiped, its hops run on and nobody is at work until the next disconnect (without "prompt"). The same of a failed attempt between 2967 and 2968, which also writes "error" over the newer screen at 2969 |
| cs:2951 | a disconnect between the look and the claim at 2952 leaves a session of a generation that is gone: its attempt fails, 2967 returns without clearing it, and every connect is refused until the next disconnect. `DeathIsAnswered` asks for a session of the live generation for this reason |
| cs:1304 | a launch of an engine on its own that was overtaken returns Ok, and leaves a session of its own behind if it claimed it after the disconnect |
| cs:3339, cs:3355 | an aether hop that times out or is superseded is not stopped by start_aether_hop; who called it does, but a move that fails does not, and the engine runs on in its slot until the next disconnect |
| cs:2207 | an engine on its own that a late stop_all_hops of another thread takes is missed by its monitor, which finds the slot empty |
| cs:1829 | a change of region tears the hops down while a watch looks, and clears the proxy with the kill switch on |
| cs:2382, cs:3474 | the automatic branch stops hops before its compare-exchange; the recorded chain is not cleared by a stop |
| system_proxy.rs:228, :91, :246 | macOS: a second service that refuses leaves the first pointed here with no route recorded; a backup created but not filled counts as one; errors of a restore are ignored |
| psiphon.rs:492, :309 | a notice of an older run is applied to the newer snapshot; the second of two overlapping starts overwrites the first's process |
| race.rs:513, :620 | the network is compared once a second: one that is left and come back to between two looks is not noticed, and what a lane carried on the other network is remembered of this one |
| cs:2862 | the proxy that a late apply left after a disconnect stays through a later session that does not want one, and points at an address nothing serves |
| race.rs:582 | a search's end stops the carrier of a session that began meanwhile |
| chain.rs:400 | two overlapping starts of mihomo: the second overwrites the first's handle |
| chain.rs:253, :463 | "dial nodes through the tunnel" turned off has no effect while there is a carrier: render dials through it (chain.rs:904 to 952) and every caller passes it (cs:1115, 1617, 1692, 2798). The advice about nodes believes the setting instead and calls a node over QUIC usable that the carriers cannot take, its remedy (chain.rs:692) recommends what changes nothing, and chain.rs:76 promises that it "can be turned off to reach the nodes directly". It is a disagreement of two functions of one request, so no run checks it |
| scanner.rs:89, :322 | a search whose network goes during its last pass remembers what it found under the network it began on, some of it confirmed on another |
| worker_api.rs:347, :668 | a DNS record whose answer was lost is left behind by every later detach; a connect during a command uses the row of before |
| cs:672 | a connect during a search: the end of the search writes "idle" over a session that is starting |
| mim_identity.rs:75, identity_backup.rs:158 | a failed attempt is not made again before a restart; is_idle is asked before the import, not during it (not modelled) |

## 7. Abstractions worth knowing

* What goes over a connection is an answer, true or not: probes, handshakes, HTTP.
* A wait is a step that may come at any time; a deadline is one too.
* The route memory, the endpoint memory and the Worker's rows are written to a file beside
  the real one and renamed, so a change is whole or absent; that a save may fail is
  modelled for the rows, where the code reports it, and for the endpoint memory, where it
  does not; it is left out for the route memory, where the code ignores it too and the next
  run knows less. The backup of the system proxy is
  written in place and may be torn.
* In `Carriers` a death is a slot that empties; in `Supervisor` a process that ends while
  its slot still holds it, because there the difference matters.
* Names, ports, YAML, wording of errors and the stream of log lines are left out.

## 8. Not modelled

* Bytes: the HTTP bridge's relay, the latency probe's timed request, DNS over HTTPS, TLS
  fingerprints. They keep no state; which bridge is served is in `SystemProxy`.
* Command lines and configurations of the engine, Psiphon and tor, beyond that they can be
  refused; tor's bridge download (`moat.rs`); the list of Iranian routes; elevation.
* mihomo's subscriptions, the selection of a node and its delay test: requests to mihomo
  that leave no state here; and the advice about which nodes can be used.
* MASQUE-in-MASQUE identity: the engine owns the files; the program keeps one flag and
  asks is_idle twice.
* The pump's pending log lines (their cap and their loss are by design), the tray, the
  window, and the front end, which is a view of the snapshot.
* Usage figures, the account list and the options' syntax of the Worker setup; the Quick
  Test's figures.
* The `Err` branch of try_wait in the exit monitor; the full tunnel in `Supervisor`
  (it is in `Routing`).

## 9. What is left to do

1. The automatic branch of handle_exit inside `Supervisor`, with `Carriers` as what it
   hands the session to.

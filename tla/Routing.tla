------------------------------ MODULE Routing -------------------------------
(***************************************************************************)
(* chain.rs and the commands that use it (core_supervisor.rs): mihomo as a *)
(* process with a configuration on disk, the slot that holds it, what      *)
(* follows it (the system proxy and the door of LanDoor), and what the     *)
(* user may change while connected.  RoutingRules has what the process is  *)
(* told.  The tunnel comes and goes as Supervisor and Carriers make it.    *)
(***************************************************************************)
EXTENDS RoutingRules, LanDoor

CONSTANTS
  Procs,        \* processes of mihomo that may ever be started
  Threads,      \* threads of commands and of the log reader
  Sessions,     \* sessions a connect may begin
  ChainChoices, \* [exit, through, sources]: settings of the second hop
  DoorChoices,  \* [port, login]
  MaxCommands,  \* bound: what the user and the tunnel do
  MaxFaults,    \* bound: processes that die or do not come up
  Serial        \* one start of the engine at a time

Tunnel == <<"tunnel">>
Mixed == <<"mixed">>
Spare(n) == <<"spare", n>>
Off == [on |-> FALSE]

\* What a profile asks of the engine, and of the proxy and the door beside it.
Sources == {x.sources : x \in Sessions \union ChainChoices}
DoorSettings == [port : Ports, login : Logins]
Session == [on : {TRUE}, hops : Chains, exit : BOOLEAN, through : BOOLEAN, sources : Sources,
            iran : BOOLEAN, tun : BOOLEAN, proxy : BOOLEAN, share : DoorSettings \union {Off}]

ASSUME ProcsAreNumbers == Procs \subseteq Nat \ {0}
ASSUME BoundsAreNumbers == MaxCommands \in Nat /\ MaxFaults \in Nat
ASSUME ChoicesAreSettings ==
  /\ Sessions \subseteq Session /\ DoorChoices \subseteq DoorSettings
  /\ ChainChoices \subseteq [exit : BOOLEAN, through : BOOLEAN, sources : Sources]
ASSUME AddressesAreThere ==
  {Tunnel, Mixed} \union {Spare(n) : n \in 0 .. MaxCommands} \subseteq Addresses

VARIABLES
  session,  \* what the session wants and what carries it
  engine,   \* the processes
  slot,     \* Chain::running: the process held, the request and the address it was for
  disk,     \* config.yaml
  route,    \* where the system proxy points
  shown,    \* whether the screen says that the door is open
  thread, commands, faults

routingVars == <<session, engine, slot, disk, route, shown, thread, commands, faults>>
vars == <<routingVars, doorVars>>

NoSlot == [proc |-> 0]
Nothing == [hops |-> << >>]
NoRoute == <<"none">>
Idle == [pc |-> "idle"]
UnbornProc == [state |-> "unborn"]

Init ==
  /\ DoorInit /\ session = Off /\ engine = [p \in Procs |-> UnbornProc] /\ slot = NoSlot
  /\ disk = Nothing /\ route = NoRoute /\ shown = FALSE
  /\ thread = [t \in Threads |-> Idle] /\ commands = 0 /\ faults = 0

At(t, label) == thread[t].pc = label
Goto(t, label) == thread' = [thread EXCEPT ![t].pc = label]
Leave(t) == thread' = [thread EXCEPT ![t] = Idle]
Request(t) == thread[t].request
Running == slot # NoSlot
Live(p) == engine[p].state \in {"loading", "up"}
Killed(p) == [engine EXCEPT ![p].state = "dead"]
hops == IF session.on THEN session.hops ELSE << >>
LoneAether(s) == s.on /\ s.hops = <<"aether">>

\* What answers at an address of this machine.
Answering ==
  (IF session.on THEN {Tunnel} ELSE {}) \union
  {engine[p].address : p \in {q \in Procs : engine[q].state = "up" /\ engine[q].bound}}

Faulty == faults < MaxFaults /\ faults' = faults + 1
Command(t) ==
  /\ commands < MaxCommands /\ commands' = commands + 1 /\ At(t, "idle")
  /\ Serial => \A u \in Threads : At(u, "idle")
  /\ \A u \in Threads : At(u, "idle") => t <= u

\* Chain::stop: the process in the slot is killed and waited for.
Stopped == /\ slot' = NoSlot
           /\ engine' = IF Running THEN Killed(slot.proc) ELSE engine

RequestOf(s, carriers) ==
  [hops |-> carriers, exit |-> s.exit, through |-> s.through, sources |-> s.sources,
   iran |-> s.iran, tun |-> s.tun]
Start(cmd, s, carriers) ==
  [pc |-> "begin", cmd |-> cmd, request |-> RequestOf(s, carriers), session |-> s,
   proc |-> 0, address |-> Tunnel]

(***************************************************************************)
(* Chain::start.                                                           *)
(***************************************************************************)
Begin(t) ==
  /\ At(t, "begin") /\ Stopped
  /\ Goto(t, IF Refused(Request(t)) THEN "failed" ELSE "write")
  /\ UNCHANGED <<session, disk, route, shown, commands, faults, doorVars>>

\* Ports are taken and given back, and the files are written.  A tunnel on its own has
\* the port of the profile, and so may a process that nobody holds.
Write(t) ==
  /\ At(t, "write")
  /\ disk' = Request(t)
  /\ thread' = [thread EXCEPT ![t].pc = "spawn", ![t].address =
       IF Request(t).hops = <<"aether">>
          \/ \E p \in Procs : Live(p) /\ engine[p].address = Mixed
       THEN Spare(commands) ELSE Mixed]
  /\ UNCHANGED <<session, engine, slot, route, shown, commands, faults, doorVars>>

Spawn(t) ==
  /\ At(t, "spawn")
  /\ \/ \E p \in Procs :
          /\ engine[p] = UnbornProc /\ (\A q \in Procs : engine[q] = UnbornProc => p <= q)
          /\ engine' = [engine EXCEPT ![p] = [state |-> "loading", address |-> thread[t].address]]
          /\ thread' = [thread EXCEPT ![t].pc = "ready", ![t].proc = p]
          /\ UNCHANGED faults
     \/ Faulty /\ Goto(t, "failed") /\ UNCHANGED engine
  /\ UNCHANGED <<session, slot, disk, route, shown, commands, doorVars>>

\* The process reads its configuration and answers; a device it cannot create, or a port
\* it cannot have, it does without.
Load(p) ==
  /\ engine[p].state = "loading"
  /\ \E device \in BOOLEAN :
       /\ device => disk.tun
       /\ IF disk.tun /\ ~device THEN Faulty ELSE UNCHANGED faults
       /\ engine' = [engine EXCEPT ![p] =
            [state |-> "up", address |-> @.address, config |-> disk, device |-> device,
             bound |-> \A q \in Procs : engine[q].state = "up" => engine[q].address # @.address]]
  /\ UNCHANGED <<session, slot, disk, route, shown, thread, commands, doorVars>>

\* It ends on its own, at any time; nobody watches it.
Dies(p) ==
  /\ Live(p) /\ Faulty /\ engine' = Killed(p)
  /\ UNCHANGED <<session, slot, disk, route, shown, thread, commands, doorVars>>

\* Mutant: an answer is enough, whatever was asked for.
ReadyAtOnce(t) ==
  /\ At(t, "ready") /\ engine[thread[t].proc].state = "up"
  /\ Goto(t, "store")
  /\ UNCHANGED <<session, engine, slot, disk, route, shown, commands, faults, doorVars>>

\* wait_until_ready, and then wait_until_tun_is_up.
Ready(t) ==
  /\ At(t, "ready") /\ engine[thread[t].proc].state = "up"
  /\ Goto(t, IF Request(t).tun THEN "device" ELSE "store")
  /\ UNCHANGED <<session, engine, slot, disk, route, shown, commands, faults, doorVars>>

DeviceUp(t) ==
  /\ At(t, "device") /\ engine[thread[t].proc].state = "up" /\ engine[thread[t].proc].device
  /\ Goto(t, "store")
  /\ UNCHANGED <<session, engine, slot, disk, route, shown, commands, faults, doorVars>>

\* Mutant: what is half started is left behind.
NotReadyLeaving(t) ==
  LET p == thread[t].proc IN
  /\ \/ At(t, "ready") /\ engine[p].state # "up"
     \/ At(t, "device") /\ (engine[p].state = "up" => ~engine[p].device)
  /\ Goto(t, "failed")
  /\ UNCHANGED <<session, engine, slot, disk, route, shown, commands, faults, doorVars>>

\* Either deadline passes: it is killed.
NotReady(t) ==
  LET p == thread[t].proc IN
  /\ \/ At(t, "ready") /\ engine[p].state # "up"
     \/ At(t, "device") /\ (engine[p].state = "up" => ~engine[p].device)
  /\ engine' = Killed(p) /\ Goto(t, "failed")
  /\ UNCHANGED <<session, slot, disk, route, shown, commands, faults, doorVars>>

Store(t) ==
  /\ At(t, "store")
  /\ slot' = [proc |-> thread[t].proc, request |-> Request(t), address |-> thread[t].address]
  /\ Goto(t, "publish")
  /\ UNCHANGED <<session, engine, disk, route, shown, commands, faults, doorVars>>

(***************************************************************************)
(* What the callers do with the address.                                   *)
(***************************************************************************)
\* The door follows, and is opened when sharing is on and it is closed.
DoorAt(address, s) ==
  IF Open THEN Retarget(address)
  ELSE IF s.share # Off /\ ~Taken(s.share.port)
       THEN OpenDoor(address, s.share.port, s.share.login)
       ELSE UNCHANGED doorVars

\* A connection that came up, whose intent was read before the engine was started.
PublishConnection(t) ==
  LET address == IF thread[t].proc # 0 THEN thread[t].address
                 ELSE IF Running THEN slot.address ELSE Tunnel IN
  /\ thread[t].cmd = "connect" /\ DoorAt(address, thread[t].session)
  /\ route' = IF thread[t].session.proxy THEN address ELSE route

\* A command, which reads the intent again.
PublishCommand(t) ==
  LET address == IF thread[t].proc # 0 THEN thread[t].address ELSE Tunnel IN
  /\ thread[t].cmd = "command" /\ Retarget(address)
  /\ route' = IF session.on /\ session.proxy THEN address ELSE route

\* Mutant: the proxy follows and the door does not.
PublishProxy(t) ==
  /\ At(t, "publish") /\ Leave(t) /\ shown' = Open
  /\ route' = IF session.on /\ session.proxy THEN thread[t].address ELSE route
  /\ UNCHANGED <<session, engine, slot, disk, commands, faults, doorVars>>

Publish(t) ==
  /\ At(t, "publish") /\ Leave(t)
  /\ PublishConnection(t) \/ PublishCommand(t)
  /\ shown' = (door' # NoShare)
  /\ UNCHANGED <<session, engine, slot, disk, commands, faults>>

\* A connection of the engine on its own falls back to its tunnel, a carrier's is over; a
\* command reports the error and leaves what pointed at the engine it has stopped.
Failed(t) ==
  /\ At(t, "failed")
  /\ IF thread[t].cmd = "connect" /\ LoneAether(thread[t].session)
     THEN thread' = [thread EXCEPT ![t].pc = "publish", ![t].proc = 0] /\ UNCHANGED session
     ELSE Leave(t) /\ session' = IF thread[t].cmd = "connect" THEN Off ELSE session
  /\ UNCHANGED <<engine, slot, disk, route, shown, commands, faults, doorVars>>

(***************************************************************************)
(* Connections and commands.                                               *)
(***************************************************************************)
Connect(t) ==
  /\ Command(t) /\ ~session.on
  /\ \E s \in Sessions :
       /\ session' = s
       /\ thread' = [thread EXCEPT ![t] = [Start("connect", s, s.hops) EXCEPT !.pc =
            IF engine_is_wanted(s.exit, s.tun, s.hops) /\ ~(LoneAether(s) /\ Running)
            THEN "begin" ELSE "publish"]]
  /\ UNCHANGED <<engine, slot, disk, route, shown, faults, doorVars>>

\* The engine on its own came up again: a routing engine that is running is kept.
Reconnect(t) ==
  /\ Command(t) /\ LoneAether(session)
  /\ thread' = [thread EXCEPT ![t] = [Start("connect", session, session.hops) EXCEPT !.pc =
       IF engine_is_wanted(session.exit, session.tun, session.hops) /\ ~Running
       THEN "begin" ELSE "publish"]]
  /\ UNCHANGED <<session, engine, slot, disk, route, shown, faults, doorVars>>

\* At any time, and not behind any command.
Disconnect ==
  /\ commands < MaxCommands /\ commands' = commands + 1
  /\ session.on /\ session' = Off /\ Stopped /\ CloseDoor /\ route' = NoRoute /\ shown' = FALSE
  /\ UNCHANGED <<disk, thread, faults>>

\* set_chain: without a carrier, nodes that are dialled directly may still carry.
SetChain(t) ==
  /\ Command(t)
  /\ \E c \in ChainChoices :
       LET base == IF session.on THEN session
                   ELSE [on |-> FALSE, iran |-> FALSE, tun |-> FALSE]
           s == [f \in DOMAIN base \union DOMAIN c |-> IF f \in DOMAIN c THEN c[f] ELSE base[f]]
       IN
       /\ session' = IF session.on THEN s ELSE Off
       /\ IF hops = << >> /\ (~c.exit \/ c.through)
          THEN Stopped /\ UNCHANGED thread
          ELSE IF engine_is_wanted(c.exit, s.tun, hops)
          THEN thread' = [thread EXCEPT ![t] = Start("command", s, hops)] /\ UNCHANGED <<slot, engine>>
          ELSE Stopped /\ thread' = [thread EXCEPT ![t] =
                 [Start("command", s, hops) EXCEPT !.pc = "publish"]]
  /\ UNCHANGED <<disk, route, shown, faults, doorVars>>

\* set_full_tunnel: an engine that only held the device up is stopped.
SetFullTunnel(t) ==
  /\ Command(t) /\ session.on
  /\ \E on \in BOOLEAN :
       LET s == [session EXCEPT !.tun = on] IN
       /\ session' = s
       /\ IF ~on /\ ~engine_is_wanted(s.exit, FALSE, hops)
          THEN Stopped /\ UNCHANGED thread
          ELSE thread' = [thread EXCEPT ![t] = Start("command", s, hops)] /\ UNCHANGED <<slot, engine>>
  /\ UNCHANGED <<disk, route, shown, faults, doorVars>>

\* set_lan_share: the door goes to what carries now.  A port that is taken is an error,
\* and the screen then says that nothing is shared.
SetLanShare(t) ==
  /\ Command(t)
  /\ \/ /\ session.on \/ Running
        /\ \E c \in DoorChoices :
             /\ session' = IF session.on THEN [session EXCEPT !.share = c] ELSE session
             /\ IF Taken(c.port) THEN shown' = FALSE /\ UNCHANGED doorVars
                ELSE shown' = TRUE /\ OpenDoor(IF Running THEN slot.address ELSE Tunnel, c.port, c.login)
     \/ /\ session' = IF session.on THEN [session EXCEPT !.share = Off] ELSE session
        /\ shown' = FALSE /\ CloseDoor
  /\ UNCHANGED <<engine, slot, disk, route, thread, faults>>

(***************************************************************************)
(* Specification.                                                          *)
(***************************************************************************)
Step(t) ==
  \/ Begin(t) \/ Write(t) \/ Spawn(t) \/ Ready(t) \/ DeviceUp(t) \/ NotReady(t)
  \/ Store(t) \/ Publish(t) \/ Failed(t)

DoorStep ==
  \/ \E s \in Shares : AcceptEnds(s) \/ \E c \in Clients : Accept(s, c)
  \/ \E c \in Clients : Serve(c, Answering) \/ Leaves(c)

Next ==
  \/ \E t \in Threads : Step(t) \/ Connect(t) \/ Reconnect(t) \/ SetChain(t)
                        \/ SetFullTunnel(t) \/ SetLanShare(t)
  \/ Disconnect
  \/ \E p \in Procs : Load(p) \/ Dies(p)
  \/ DoorStep /\ UNCHANGED routingVars

Spec == Init /\ [][Next]_vars

(***************************************************************************)
(* Properties.                                                             *)
(***************************************************************************)
Quiet == \A t \in Threads : At(t, "idle")
Held(p) == slot.proc = p \/ \E t \in Threads : ~At(t, "idle") /\ thread[t].proc = p

\* A process of mihomo that runs is in the slot or in the hands of the thread that
\* started it, and the slot is never overwritten over a running one.
NoStrayEngine == \A p \in Procs : Live(p) => Held(p)

\* What the slot holds runs what it was asked to, has the port that was promised and, for
\* a full tunnel, its device.
EngineIsAsAsked ==
  Running /\ engine[slot.proc].state = "up" =>
    LET e == engine[slot.proc] IN e.config = slot.request /\ e.bound /\ (slot.request.tun => e.device)

\* Whatever runs: a carrier's packets never come back to it through the device, what
\* leaves this machine does not leave in the clear, and a datagram that no hop could
\* carry is refused rather than swallowed.
RulesAreSound ==
  \A p \in Procs : engine[p].state = "up" =>
    LET c == engine[p].config
        rules == render(c)
    IN \A f \in Flows :
         /\ c.tun /\ f.process \in HopSet(c.hops) => Verdict(rules, f) = "direct"
         /\ f.process = "application" /\ f.to = "outside" =>
              /\ Verdict(rules, f) # "direct"
              /\ f.net = "udp" /\ c.hops # << >> /\ ~carries_udp(c.hops) => Verdict(rules, f) = "reject"

\* When nothing is being started, the door is where the engine listens, and so is the
\* proxy of a session that wants one.
FollowsTheEngine ==
  Quiet /\ Running => /\ Open => share[door].target = slot.address
                      /\ session.on /\ session.proxy => route = slot.address

\* Devices are sent where something carries.
DoorLeadsOut == Quiet /\ session.on /\ Open => share[door].target \in Answering
=============================================================================

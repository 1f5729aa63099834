---------------------------- MODULE RoutingProofs ----------------------------
(***************************************************************************)
(* Proofs about Routing and LanDoor, for any number of processes, shares,  *)
(* clients, commands and faults and for any settings.  InHands says where  *)
(* a process is between its spawn and the slot, Configured what it was     *)
(* told, Followed what points at it.                                       *)
(***************************************************************************)
EXTENDS Routing, TLAPS

Busy == {"begin", "write", "spawn", "ready", "device", "store", "publish", "failed"}
\* From its stop of the old engine to the slot, a start leaves the slot empty.
Empty == {"write", "spawn", "ready", "device", "store", "failed"}
\* The labels at which a start has a process that is not in the slot yet.
Carrying == {"ready", "device", "store"}

Requests == [hops : Chains \union {<< >>}, exit : BOOLEAN, through : BOOLEAN, sources : Sources,
             iran : BOOLEAN, tun : BOOLEAN]
\* What set_chain reads when there is no session.
Settings == [on : {FALSE}, iran : {FALSE}, tun : {FALSE}, exit : BOOLEAN, through : BOOLEAN,
             sources : Sources]
Starts == [pc : Busy, cmd : {"connect", "command"}, request : Requests,
           session : Session \union Settings, proc : Procs \union {0}, address : Addresses]
ProcStates == [state : {"unborn", "dead"}]
              \union [state : {"loading", "dead"}, address : Addresses]
              \union [state : {"up", "dead"}, address : Addresses,
                      config : Requests \union {Nothing}, device : BOOLEAN, bound : BOOLEAN]
ShareStates == {Unborn} \union [state : {"open", "stopping", "gone"}, port : Ports,
                                login : Logins, target : Addresses]
Reasons == {"no method", "wrong", "command", "address", "bad request", "sign in", "gateway"}
ClientStates == {Outside} \union [state : {"accepted"}, share : Shares, hello : Hello]
                \union [state : {"refused"}, why : Reasons]
                \union [state : {"carried"}, share : Shares, hello : Hello, by : Addresses]

\* A client that is in came through a share.
Inside == \A c \in Clients :
  client[c].state \in {"accepted", "carried"} =>
    client[c].share \in Shares /\ share[client[c].share] # Unborn

\* The type invariant: the door's part and the engine's.
DoorTypes ==
  /\ door \in Shares \union {NoShare}
  /\ share \in [Shares -> ShareStates] /\ client \in [Clients -> ClientStates]
  /\ door # NoShare => share[door].state = "open"
  /\ Inside
EngineTypes ==
  /\ session \in Session \union {Off} /\ commands \in 0 .. MaxCommands
  /\ engine \in [Procs -> ProcStates]
  /\ slot \in {NoSlot} \union [proc : Procs, request : Requests, address : Addresses]
  /\ disk \in Requests \union {Nothing}
  /\ route \in Addresses \union {NoRoute} /\ shown \in BOOLEAN
  /\ thread \in [Threads -> Starts \union {Idle}]
  /\ \A t \in Threads : thread[t].pc \in Carrying => thread[t].proc \in Procs
  /\ \A t \in Threads : ~At(t, "idle") /\ thread[t].cmd = "connect" => thread[t].session \in Session
TypeOK == DoorTypes /\ EngineTypes

\* One thread at a time starts the engine; the slot is empty while it does, and a process
\* that runs is in the slot or in that thread's hands.
InHands ==
  /\ \A t, u \in Threads : At(t, "idle") \/ At(u, "idle") \/ t = u
  /\ \A t \in Threads : thread[t].pc \in Empty => slot = NoSlot
  /\ \A p \in Procs : Live(p) =>
       slot.proc = p \/ \E t \in Threads : thread[t].pc \in Carrying /\ thread[t].proc = p

\* From the write on, what is on disk is what this start asks for; what came up from it
\* runs that, has its port, and has its device before it is stored; and the slot holds
\* nothing that has yet to come up.
Asked(p, request) ==
  engine[p].state = "up" => engine[p].config = request /\ engine[p].bound
Built ==
  /\ \A t \in Threads : thread[t].pc \in {"spawn", "ready"} => disk = Request(t)
  /\ \A t \in Threads : thread[t].pc \in Carrying =>
       LET p == thread[t].proc IN
       /\ engine[p].state = "loading" => At(t, "ready")
       /\ Asked(p, Request(t))
       /\ At(t, "store") /\ engine[p].state = "up" /\ Request(t).tun => engine[p].device
  /\ \A p \in Procs : slot.proc = p =>
       /\ engine[p].state # "loading" /\ Asked(p, slot.request)
       /\ engine[p].state = "up" /\ slot.request.tun => engine[p].device

\* What is about to be published is where the slot's engine listens, and a connection
\* publishes for the session there is.
Followed ==
  /\ FollowsTheEngine
  /\ \A t \in Threads : At(t, "publish") /\ Running =>
       /\ thread[t].proc # 0 => thread[t].address = slot.address
       /\ thread[t].proc = 0 => thread[t].cmd = "connect"
  /\ \A t \in Threads : ~At(t, "idle") /\ thread[t].cmd = "connect" /\ session.on =>
       thread[t].session.proxy = session.proxy

\* Nothing is written, and nothing runs, but a request that start does not refuse.
Sound(request) == request \in Requests /\ ~Refused(request)
Configured ==
  /\ disk = Nothing \/ Sound(disk)
  /\ \A t \in Threads : At(t, "write") => Sound(Request(t))
  /\ \A t \in Threads : At(t, "spawn") => Sound(disk)
  /\ \A p \in Procs : engine[p].state = "loading" => Sound(disk)
  /\ \A p \in Procs : engine[p].state = "up" => Sound(engine[p].config)

(***************************************************************************)
(* What the operators the actions are built from do to a typed state.      *)
(***************************************************************************)
\* Only an idle thread has the idle record, and any other is a start.
LEMMA ThreadKinds ==
  ASSUME TypeOK, NEW t \in Threads
  PROVE  (At(t, "idle") <=> thread[t] = Idle) /\ (~At(t, "idle") => thread[t] \in Starts)
BY DEF TypeOK, EngineTypes, At, Idle, Starts, Busy

\* A thread that goes to another label keeps the rest of its start.
LEMMA GoesTo ==
  ASSUME TypeOK, NEW t \in Threads, ~At(t, "idle"), NEW label \in Busy, Goto(t, label)
  PROVE  /\ thread' \in [Threads -> Starts \union {Idle}]
         /\ \A u \in Threads \ {t} : thread'[u] = thread[u]
         /\ thread'[t] \in Starts /\ thread'[t].pc = label
         /\ thread'[t].cmd = thread[t].cmd /\ thread'[t].request = thread[t].request
         /\ thread'[t].session = thread[t].session
         /\ thread'[t].proc = thread[t].proc /\ thread'[t].address = thread[t].address
<1>1. thread[t] \in Starts /\ thread \in [Threads -> Starts \union {Idle}]
  BY ThreadKinds DEF TypeOK, EngineTypes
<1>2. [thread[t] EXCEPT !.pc = label] \in Starts
  BY <1>1 DEF Starts
<1>3. thread' = [thread EXCEPT ![t] = [thread[t] EXCEPT !.pc = label]]
  BY DEF Goto
<1> QED BY <1>1, <1>2, <1>3 DEF Starts

\* A start is handed its process, or its address, as it goes on.
LEMMA TakesProc ==
  ASSUME TypeOK, NEW t \in Threads, ~At(t, "idle"), NEW label \in Busy,
         NEW p \in Procs \union {0}, thread' = [thread EXCEPT ![t].pc = label, ![t].proc = p]
  PROVE  /\ thread' \in [Threads -> Starts \union {Idle}]
         /\ \A u \in Threads \ {t} : thread'[u] = thread[u]
         /\ thread'[t] \in Starts /\ thread'[t].pc = label /\ thread'[t].proc = p
         /\ thread'[t].cmd = thread[t].cmd /\ thread'[t].request = thread[t].request
         /\ thread'[t].session = thread[t].session /\ thread'[t].address = thread[t].address
<1>1. thread[t] \in Starts /\ thread \in [Threads -> Starts \union {Idle}]
  BY ThreadKinds DEF TypeOK, EngineTypes
<1>2. [thread[t] EXCEPT !.pc = label, !.proc = p] \in Starts
  BY <1>1 DEF Starts
<1>3. thread' = [thread EXCEPT ![t] = [thread[t] EXCEPT !.pc = label, !.proc = p]]
  BY <1>1
<1> QED BY <1>1, <1>2, <1>3 DEF Starts

\* A thread that takes an address of a listener keeps the rest of what it has in hand.
LEMMA TakesAddress ==
  ASSUME TypeOK, NEW t \in Threads, ~At(t, "idle"), NEW label \in Busy,
         NEW a \in Addresses, thread' = [thread EXCEPT ![t].pc = label, ![t].address = a]
  PROVE  /\ thread' \in [Threads -> Starts \union {Idle}]
         /\ \A u \in Threads \ {t} : thread'[u] = thread[u]
         /\ thread'[t] \in Starts /\ thread'[t].pc = label /\ thread'[t].address = a
         /\ thread'[t].cmd = thread[t].cmd /\ thread'[t].request = thread[t].request
         /\ thread'[t].session = thread[t].session /\ thread'[t].proc = thread[t].proc
<1>1. thread[t] \in Starts /\ thread \in [Threads -> Starts \union {Idle}]
  BY ThreadKinds DEF TypeOK, EngineTypes
<1>2. [thread[t] EXCEPT !.pc = label, !.address = a] \in Starts
  BY <1>1 DEF Starts
<1>3. thread' = [thread EXCEPT ![t] = [thread[t] EXCEPT !.pc = label, !.address = a]]
  BY <1>1
<1> QED BY <1>1, <1>2, <1>3 DEF Starts

\* A process that is killed is dead, and the others stay what they are.
LEMMA Kills ==
  ASSUME TypeOK, NEW p \in Procs
  PROVE  /\ Killed(p) \in [Procs -> ProcStates]
         /\ Killed(p)[p].state = "dead"
         /\ \A q \in Procs \ {p} : Killed(p)[q] = engine[q]
<1>1. engine \in [Procs -> ProcStates]
  BY DEF TypeOK, EngineTypes
<1>2. [engine[p] EXCEPT !.state = "dead"] \in ProcStates
      /\ [engine[p] EXCEPT !.state = "dead"].state = "dead"
  <2>1. CASE engine[p] \in [state : {"unborn", "dead"}]
    BY <2>1 DEF ProcStates
  <2>2. CASE engine[p] \in [state : {"loading", "dead"}, address : Addresses]
    BY <2>2 DEF ProcStates
  <2>3. CASE engine[p] \in [state : {"up", "dead"}, address : Addresses,
                            config : Requests \union {Nothing}, device : BOOLEAN, bound : BOOLEAN]
    BY <2>3 DEF ProcStates
  <2> QED BY <1>1, <2>1, <2>2, <2>3 DEF ProcStates
<1>3. Killed(p) = [engine EXCEPT ![p] = [engine[p] EXCEPT !.state = "dead"]]
  BY DEF Killed
<1> QED BY <1>1, <1>2, <1>3

\* A stop empties the slot, and what was in it no longer runs.
LEMMA Stops ==
  ASSUME TypeOK, Stopped
  PROVE  /\ slot' = NoSlot /\ engine' \in [Procs -> ProcStates]
         /\ \A q \in Procs : IF slot.proc = q THEN engine'[q].state = "dead"
                              ELSE engine'[q] = engine[q]
<1>1. CASE Running
  <2>1. slot.proc \in Procs /\ engine' = Killed(slot.proc)
    BY <1>1 DEF Stopped, Running, TypeOK, EngineTypes
  <2> QED BY <2>1, Kills DEF Stopped
<1>2. CASE ~Running
  BY <1>2, ProcsAreNumbers DEF Stopped, Running, NoSlot, TypeOK, EngineTypes
<1> QED BY <1>1, <1>2

\* A request is made of what a session, or set_chain's choice, asks for.
LEMMA StartsAreTyped ==
  ASSUME NEW s \in Session \union Settings, NEW carriers \in Chains \union {<< >>},
         NEW cmd \in {"connect", "command"}, NEW label \in Busy
  PROVE  /\ Start(cmd, s, carriers) \in Starts
         /\ [Start(cmd, s, carriers) EXCEPT !.pc = label] \in Starts
         /\ [Start(cmd, s, carriers) EXCEPT !.pc = label]
              = [pc |-> label, cmd |-> cmd, request |-> RequestOf(s, carriers), session |-> s,
                 proc |-> 0, address |-> Tunnel]
<1>1. RequestOf(s, carriers) \in Requests
  <2>1. CASE s \in Session
    BY <2>1 DEF RequestOf, Requests, Session
  <2>2. CASE s \in Settings
    BY <2>2 DEF RequestOf, Requests, Settings
  <2> QED BY <2>1, <2>2
<1>2. Tunnel \in Addresses
  BY AddressesAreThere
<1> QED BY <1>1, <1>2 DEF Start, Starts, Busy

\* What a command starts is typed, and leaves the other threads alone.
LEMMA Starting ==
  ASSUME TypeOK, NEW t \in Threads, NEW x \in Starts, thread' = [thread EXCEPT ![t] = x]
  PROVE  /\ thread' \in [Threads -> Starts \union {Idle}] /\ thread'[t] = x
         /\ \A u \in Threads \ {t} : thread'[u] = thread[u]
BY DEF TypeOK, EngineTypes

(***************************************************************************)
(* The door.                                                               *)
(***************************************************************************)
\* A share that has been opened keeps its sign-in for good.
Keeps == \A s \in Shares : share[s] # Unborn =>
           share'[s] # Unborn /\ share'[s].login = share[s].login

\* A change of the state, or of the target, of one share is all that changes.
LEMMA ShareChanges ==
  ASSUME DoorTypes, NEW s \in Shares, share[s] # Unborn
  PROVE  /\ \A state \in {"open", "stopping", "gone"} :
              /\ [share[s] EXCEPT !.state = state] \in ShareStates \ {Unborn}
              /\ [share[s] EXCEPT !.state = state].state = state
              /\ [share[s] EXCEPT !.state = state].login = share[s].login
              /\ [share[s] EXCEPT !.state = state].target = share[s].target
         /\ \A target \in Addresses :
              /\ [share[s] EXCEPT !.target = target] \in ShareStates \ {Unborn}
              /\ [share[s] EXCEPT !.target = target].state = share[s].state
              /\ [share[s] EXCEPT !.target = target].login = share[s].login
              /\ [share[s] EXCEPT !.target = target].target = target
<1>1. share[s] \in [state : {"open", "stopping", "gone"}, port : Ports,
                    login : Logins, target : Addresses]
  BY DEF DoorTypes, ShareStates
<1>2. \A x \in [state : {"open", "stopping", "gone"}, port : Ports,
                login : Logins, target : Addresses] : x \in ShareStates \ {Unborn}
  BY DEF ShareStates, Unborn
<1> QED BY <1>1, <1>2

\* What is dropped is told to stop and keeps its sign-in.
LEMMA Drops ==
  ASSUME DoorTypes
  PROVE  /\ Dropped \in [Shares -> ShareStates]
         /\ \A s \in Shares : Dropped[s] = Unborn <=> share[s] = Unborn
         /\ \A s \in Shares : share[s] # Unborn => Dropped[s].login = share[s].login
<1> SUFFICES ASSUME NEW s \in Shares
             PROVE  /\ Dropped[s] \in ShareStates /\ (Dropped[s] = Unborn <=> share[s] = Unborn)
                    /\ share[s] # Unborn => Dropped[s].login = share[s].login
  BY DEF Dropped
<1>1. CASE s = door
  <2>1. share[s] # Unborn
    BY <1>1, SharesAreNumbers DEF DoorTypes, Unborn, NoShare
  <2> QED BY <1>1, <2>1, ShareChanges DEF Dropped
<1>2. CASE s # door
  BY <1>2 DEF Dropped, DoorTypes
<1> QED BY <1>1, <1>2

\* Clients that are in are so as long as shares stay what they are.
LEMMA InsideStays == ASSUME Inside, Keeps, UNCHANGED client PROVE Inside'
BY DEF Inside, Keeps

\* A door that opens leads to its target.
LEMMA Opens ==
  ASSUME DoorTypes, NEW target \in Addresses, NEW port \in Ports, NEW login \in Logins,
         OpenDoor(target, port, login)
  PROVE  DoorTypes' /\ Keeps /\ door' # NoShare /\ share'[door'].target = target
<1> DEFINE new == [state |-> "open", port |-> port, login |-> login, target |-> target]
<1>1. PICK s \in Shares : share[s] = Unborn /\ share' = [Dropped EXCEPT ![s] = new] /\ door' = s
  BY DEF OpenDoor
<1>2. new \in ShareStates /\ new.state = "open" /\ new.target = target
  BY DEF ShareStates
<1>3. share' \in [Shares -> ShareStates] /\ share'[s] = new /\ \A r \in Shares \ {s} : share'[r] = Dropped[r]
  BY <1>1, <1>2, Drops
<1>4. s # NoShare
  BY SharesAreNumbers DEF NoShare
<1>5. Keeps
  BY <1>1, <1>3, Drops DEF Keeps
<1>6. Inside' /\ UNCHANGED client
  BY <1>5, InsideStays DEF OpenDoor, DoorTypes
<1> QED BY <1>1, <1>2, <1>3, <1>4, <1>5, <1>6 DEF DoorTypes

\* A door that closes is gone.
LEMMA Closes ==
  ASSUME DoorTypes, CloseDoor
  PROVE  DoorTypes' /\ Keeps /\ door' = NoShare
<1>1. Keeps
  BY Drops DEF CloseDoor, Keeps
<1> QED BY <1>1, Drops, InsideStays DEF CloseDoor, DoorTypes

\* A door that is open follows.
LEMMA Retargets ==
  ASSUME DoorTypes, NEW target \in Addresses, Retarget(target)
  PROVE  DoorTypes' /\ Keeps /\ door' = door /\ (Open => share'[door].target = target)
<1>1. CASE Open
  <2>1. door \in Shares /\ share[door] # Unborn
    BY <1>1 DEF DoorTypes, Open, Unborn
  <2>2. share' = [share EXCEPT ![door] = [share[door] EXCEPT !.target = target]]
    BY <1>1 DEF Retarget, Retargeted
  <2>3. /\ share' \in [Shares -> ShareStates] /\ share'[door].state = "open"
        /\ share'[door].target = target /\ share'[door].login = share[door].login
        /\ share'[door] # Unborn /\ \A s \in Shares \ {door} : share'[s] = share[s]
    BY <1>1, <2>1, <2>2, ShareChanges DEF DoorTypes, Open
  <2>4. Keeps
    BY <2>3 DEF Keeps
  <2> QED BY <2>1, <2>3, <2>4, InsideStays DEF DoorTypes, Retarget
<1>2. CASE ~Open
  BY <1>2, InsideStays DEF Retarget, DoorTypes, Keeps
<1> QED BY <1>1, <1>2

\* Its own threads, and its clients, neither open it, nor close it, nor move it.
LEMMA DoorSteps ==
  ASSUME DoorTypes, DoorStep
  PROVE  DoorTypes' /\ Keeps /\ door' = door /\ (Open => share'[door].target = share[door].target)
<1>1. ASSUME NEW s \in Shares, AcceptEnds(s)
      PROVE  DoorTypes' /\ Keeps /\ door' = door /\ (Open => share'[door].target = share[door].target)
  <2>1. share[s] # Unborn /\ s # door
    BY <1>1, SharesAreNumbers DEF AcceptEnds, Unborn, DoorTypes, NoShare
  <2>2. share' = [share EXCEPT ![s] = [share[s] EXCEPT !.state = "gone"]]
    BY <1>1 DEF AcceptEnds
  <2>3. /\ share' \in [Shares -> ShareStates] /\ share'[s].login = share[s].login
        /\ share'[s] # Unborn /\ \A r \in Shares \ {s} : share'[r] = share[r]
    BY <2>1, <2>2, ShareChanges DEF DoorTypes
  <2>4. Keeps
    BY <2>3 DEF Keeps
  <2> QED BY <1>1, <2>1, <2>3, <2>4, InsideStays DEF DoorTypes, AcceptEnds, Open, NoShare
<1>2. ASSUME NEW s \in Shares, NEW c \in Clients, Accept(s, c)
      PROVE  DoorTypes' /\ Keeps /\ door' = door /\ (Open => share'[door].target = share[door].target)
  <2>1. PICK h \in Hello : client' = [client EXCEPT ![c] = [state |-> "accepted", share |-> s, hello |-> h]]
    BY <1>2 DEF Accept
  <2>2. [state |-> "accepted", share |-> s, hello |-> h] \in ClientStates
    BY DEF ClientStates
  <2>3. share[s] # Unborn
    BY <1>2 DEF Accept, Unborn
  <2>4. Inside'
    BY <1>2, <2>1, <2>3 DEF Accept, Inside, DoorTypes
  <2> QED BY <1>2, <2>1, <2>2, <2>4 DEF Accept, DoorTypes, Keeps
<1>3. ASSUME NEW c \in Clients, Serve(c, Answering)
      PROVE  DoorTypes' /\ Keeps /\ door' = door /\ (Open => share'[door].target = share[door].target)
  <2>1. client[c] \in [state : {"accepted"}, share : Shares, hello : Hello]
    BY <1>3 DEF Serve, DoorTypes, ClientStates, Outside
  <2>2. share[client[c].share].target \in Addresses
    BY <1>3, <2>1 DEF Serve, DoorTypes, Inside, ShareStates
  <2> DEFINE carried == [state |-> "carried", share |-> client[c].share,
                         hello |-> client[c].hello, by |-> share[client[c].share].target]
  <2>3. PICK x \in {carried} \union [state : {"refused"}, why : Reasons] :
          client' = [client EXCEPT ![c] = x]
    <3> DEFINE why == refused(client[c].hello, share[client[c].share].login)
    <3>1. why \in Reasons \union {"no"} /\ "gateway" \in Reasons
      BY DEF refused, Reasons
    <3> HIDE DEF why
    <3>2. client' = [client EXCEPT ![c] =
            IF why # "no" THEN [state |-> "refused", why |-> why]
            ELSE IF share[client[c].share].target \notin Answering
                 THEN [state |-> "refused", why |-> "gateway"]
            ELSE carried]
      BY <1>3 DEF Serve, why
    <3> QED BY <3>1, <3>2
  <2>4. x \in ClientStates /\ (x.state = "carried" => x.share = client[c].share)
        /\ x.state \in {"refused", "carried"}
    <3>1. carried \in ClientStates
      BY <2>1, <2>2 DEF ClientStates
    <3>2. carried.state = "carried" /\ carried.share = client[c].share
      OBVIOUS
    <3>3. \A y \in [state : {"refused"}, why : Reasons] : y \in ClientStates /\ y.state = "refused"
      BY DEF ClientStates
    <3> HIDE DEF carried
    <3> QED BY <2>3, <3>1, <3>2, <3>3
  <2>5. Inside'
    BY <1>3, <2>1, <2>3, <2>4 DEF Serve, Inside, DoorTypes
  <2> QED BY <1>3, <2>3, <2>4, <2>5 DEF Serve, DoorTypes, Keeps
<1>4. ASSUME NEW c \in Clients, Leaves(c)
      PROVE  DoorTypes' /\ Keeps /\ door' = door /\ (Open => share'[door].target = share[door].target)
  <2>1. Inside'
    BY <1>4 DEF Leaves, Inside, DoorTypes, Outside
  <2> QED BY <1>4, <2>1 DEF Leaves, DoorTypes, Keeps, ClientStates
<1> QED BY <1>1, <1>2, <1>3, <1>4 DEF DoorStep

(***************************************************************************)
(* Type correctness.                                                       *)
(***************************************************************************)
\* The initial state is well typed.
LEMMA InitTypes == Init => TypeOK
<1> SUFFICES ASSUME Init PROVE TypeOK
  OBVIOUS
<1>1. DoorTypes
  BY DEF Init, DoorInit, DoorTypes, NoShare, ShareStates, ClientStates, Inside, Outside
<1>2. engine \in [Procs -> ProcStates]
  BY DEF Init, UnbornProc, ProcStates
<1>3. /\ thread \in [Threads -> Starts \union {Idle}]
      /\ \A t \in Threads : thread[t].pc = "idle"
  BY DEF Init, Idle
<1>4. commands \in 0 .. MaxCommands
  BY BoundsAreNumbers DEF Init
<1> QED BY <1>1, <1>2, <1>3, <1>4 DEF Init, TypeOK, EngineTypes, At, Carrying

\* Nothing that stops, fails or is told to go on holds a process without a name.
LEMMA TypeGo ==
  ASSUME TypeOK, NEW t \in Threads, NEW label \in Busy, ~At(t, "idle"), Goto(t, label),
         label \in Carrying => thread[t].pc \in Carrying
  PROVE  /\ thread' \in [Threads -> Starts \union {Idle}]
         /\ \A u \in Threads : thread'[u].pc \in Carrying => thread'[u].proc \in Procs
         /\ \A u \in Threads : thread'[u].pc # "idle" /\ thread'[u].cmd = "connect" =>
              thread'[u].session \in Session
<1>1. thread' \in [Threads -> Starts \union {Idle}] /\ \A u \in Threads \ {t} : thread'[u] = thread[u]
  BY GoesTo
<1>2. /\ thread'[t].pc = label /\ thread'[t].cmd = thread[t].cmd
      /\ thread'[t].session = thread[t].session /\ thread'[t].proc = thread[t].proc
  BY GoesTo
<1> QED BY <1>1, <1>2 DEF TypeOK, EngineTypes, At

\* What Chain::start does keeps the types.
LEMMA TypeStart ==
  ASSUME TypeOK, NEW t \in Threads,
         Begin(t) \/ Ready(t) \/ DeviceUp(t) \/ NotReady(t) \/ Store(t) \/ Write(t) \/ Spawn(t)
  PROVE  TypeOK'
<1>0. DoorTypes'
  BY DEF TypeOK, DoorTypes, Inside, Begin, Ready, DeviceUp, NotReady, Store, Write, Spawn, doorVars
<1> SUFFICES EngineTypes'
  BY <1>0 DEF TypeOK
<1>1. CASE Begin(t)
  <2>1. PICK label \in {"failed", "write"} : Goto(t, label)
    BY <1>1 DEF Begin
  <2> QED BY <1>1, <2>1, TypeGo, Stops DEF Begin, At, Busy, Carrying, TypeOK, EngineTypes
<1>2. CASE Ready(t)
  <2>1. PICK label \in {"device", "store"} : Goto(t, label)
    BY <1>2 DEF Ready
  <2> QED BY <1>2, <2>1, TypeGo DEF Ready, At, Busy, Carrying, TypeOK, EngineTypes
<1>3. CASE DeviceUp(t)
  BY <1>3, TypeGo DEF DeviceUp, At, Busy, Carrying, TypeOK, EngineTypes
<1>4. CASE NotReady(t)
  <2>1. thread[t].proc \in Procs
    BY <1>4 DEF NotReady, At, Carrying, TypeOK, EngineTypes
  <2> QED BY <1>4, <2>1, TypeGo, Kills DEF NotReady, At, Busy, Carrying, TypeOK, EngineTypes
<1>5. CASE Store(t)
  <2>1. slot' \in [proc : Procs, request : Requests, address : Addresses]
    BY <1>5, ThreadKinds DEF Store, At, Carrying, TypeOK, EngineTypes, Starts, Request
  <2> QED BY <1>5, <2>1, TypeGo DEF Store, At, Busy, Carrying, TypeOK, EngineTypes
<1>6. CASE Write(t)
  <2>1. PICK a \in Addresses : thread' = [thread EXCEPT ![t].pc = "spawn", ![t].address = a]
    BY <1>6, AddressesAreThere DEF Write, TypeOK, EngineTypes
  <2>2. /\ thread' \in [Threads -> Starts \union {Idle}] /\ thread'[t].pc = "spawn"
        /\ thread'[t].cmd = thread[t].cmd /\ thread'[t].session = thread[t].session
        /\ \A u \in Threads \ {t} : thread'[u] = thread[u]
    BY <1>6, <2>1, TakesAddress DEF Write, At, Busy
  <2>3. disk' \in Requests
    BY <1>6, ThreadKinds DEF Write, At, Request, Starts
  <2> QED BY <1>6, <2>2, <2>3 DEF Write, At, Carrying, TypeOK, EngineTypes
<1>7. CASE Spawn(t)
  <2>1. CASE Goto(t, "failed") /\ UNCHANGED engine
    BY <1>7, <2>1, TypeGo DEF Spawn, At, Busy, Carrying, TypeOK, EngineTypes
  <2>2. ASSUME NEW p \in Procs,
               engine' = [engine EXCEPT ![p] = [state |-> "loading", address |-> thread[t].address]],
               thread' = [thread EXCEPT ![t].pc = "ready", ![t].proc = p]
        PROVE  EngineTypes'
    <3>1. [state |-> "loading", address |-> thread[t].address] \in ProcStates
      BY <1>7, ThreadKinds DEF Spawn, At, Starts, ProcStates
    <3>2. /\ thread' \in [Threads -> Starts \union {Idle}] /\ thread'[t].pc = "ready"
          /\ thread'[t].cmd = thread[t].cmd /\ thread'[t].session = thread[t].session
          /\ thread'[t].proc = p /\ \A u \in Threads \ {t} : thread'[u] = thread[u]
      BY <1>7, <2>2, TakesProc DEF Spawn, At, Busy
    <3> QED BY <1>7, <2>2, <3>1, <3>2 DEF Spawn, At, Carrying, TypeOK, EngineTypes
  <2> QED BY <1>7, <2>1, <2>2 DEF Spawn
<1> QED BY <1>1, <1>2, <1>3, <1>4, <1>5, <1>6, <1>7

\* A thread that is done is idle, and the others are as they were.
LEMMA Leaving ==
  ASSUME TypeOK, NEW t \in Threads, Leave(t)
  PROVE  /\ thread' \in [Threads -> Starts \union {Idle}]
         /\ thread'[t] = Idle /\ \A u \in Threads \ {t} : thread'[u] = thread[u]
         /\ \A u \in Threads : thread'[u].pc \in Carrying => thread'[u].proc \in Procs
         /\ \A u \in Threads : thread'[u].pc # "idle" /\ thread'[u].cmd = "connect" =>
              thread'[u].session \in Session
<1>1. /\ thread' \in [Threads -> Starts \union {Idle}]
      /\ thread'[t] = Idle /\ \A u \in Threads \ {t} : thread'[u] = thread[u]
  BY DEF Leave, TypeOK, EngineTypes
<1> QED BY <1>1 DEF Idle, Carrying, TypeOK, EngineTypes, At

\* What is published is an address: the one the engine of this start listens at, the one
\* that is held, or the tunnel.
LEMMA Publishes ==
  ASSUME TypeOK, NEW t \in Threads, Publish(t)
  PROVE  /\ thread[t] \in Starts /\ Leave(t) /\ UNCHANGED <<session, engine, slot, disk, commands>>
         /\ DoorTypes' /\ Keeps /\ route' \in Addresses \union {NoRoute} /\ shown' \in BOOLEAN
         /\ thread[t].cmd = "connect" =>
              LET address == IF thread[t].proc # 0 THEN thread[t].address
                             ELSE IF Running THEN slot.address ELSE Tunnel IN
              /\ door' # NoShare => share'[door'].target = address
              /\ thread[t].session.proxy => route' = address
         /\ thread[t].cmd # "connect" =>
              LET address == IF thread[t].proc # 0 THEN thread[t].address ELSE Tunnel IN
              /\ door' # NoShare => share'[door'].target = address
              /\ session.on /\ session.proxy => route' = address
<1>1. thread[t] \in Starts /\ thread[t].address \in Addresses
  BY ThreadKinds DEF Publish, At, Starts
<1>2. Tunnel \in Addresses /\ (Running => slot.address \in Addresses)
  BY AddressesAreThere DEF Running, TypeOK, EngineTypes
<1>3. DoorTypes /\ route \in Addresses \union {NoRoute}
  BY DEF TypeOK, EngineTypes
<1>4. UNCHANGED <<session, engine, slot, disk, commands>> /\ Leave(t) /\ shown' \in BOOLEAN
  BY DEF Publish
<1>5. CASE PublishConnection(t)
  <2> DEFINE address == IF thread[t].proc # 0 THEN thread[t].address
                        ELSE IF Running THEN slot.address ELSE Tunnel
  <2>1. thread[t].cmd = "connect" /\ address \in Addresses /\ DoorAt(address, thread[t].session)
        /\ route' = IF thread[t].session.proxy THEN address ELSE route
    BY <1>1, <1>2, <1>5 DEF PublishConnection
  <2>2. thread[t].session \in Session
    BY <2>1 DEF Publish, At, TypeOK, EngineTypes
  <2> HIDE DEF address
  <2>3. DoorTypes' /\ Keeps /\ (door' # NoShare => share'[door'].target = address)
    <3>1. CASE Open
      BY <1>3, <2>1, <3>1, Retargets DEF DoorAt, Open
    <3>2. CASE ~Open /\ thread[t].session.share # Off
                     /\ ~Taken(thread[t].session.share.port)
      <4>1. thread[t].session.share \in DoorSettings
        BY <2>2, <3>2 DEF Session
      <4> QED BY <1>3, <2>1, <3>2, <4>1, Opens DEF DoorAt, DoorSettings
    <3>3. CASE ~Open /\ UNCHANGED doorVars
      BY <1>3, <3>3 DEF doorVars, Open, DoorTypes, Inside, Keeps
    <3> QED BY <2>1, <3>1, <3>2, <3>3 DEF DoorAt
  <2> QED BY <1>1, <1>3, <1>4, <2>1, <2>3 DEF address
<1>6. CASE PublishCommand(t)
  <2> DEFINE address == IF thread[t].proc # 0 THEN thread[t].address ELSE Tunnel
  <2>1. thread[t].cmd = "command" /\ address \in Addresses /\ Retarget(address)
        /\ route' = IF session.on /\ session.proxy THEN address ELSE route
    BY <1>1, <1>2, <1>6 DEF PublishCommand
  <2> HIDE DEF address
  <2>2. DoorTypes' /\ Keeps /\ (door' # NoShare => share'[door'].target = address)
    BY <1>3, <2>1, Retargets DEF Open
  <2> QED BY <1>1, <1>3, <1>4, <2>1, <2>2 DEF address
<1> QED BY <1>5, <1>6 DEF Publish

\* What the callers do with the address, and with an engine that did not come up.
LEMMA TypeEnd ==
  ASSUME TypeOK, NEW t \in Threads, Publish(t) \/ Failed(t)
  PROVE  TypeOK'
<1>1. CASE Publish(t)
  BY <1>1, Publishes, Leaving DEF TypeOK, EngineTypes, At
<1>2. CASE Failed(t)
  <2>1. DoorTypes' /\ session' \in Session \union {Off}
    BY <1>2 DEF Failed, TypeOK, DoorTypes, Inside, doorVars, EngineTypes
  <2>2. CASE thread' = [thread EXCEPT ![t].pc = "publish", ![t].proc = 0]
    <3>1. /\ thread' \in [Threads -> Starts \union {Idle}] /\ thread'[t].pc = "publish"
          /\ thread'[t].cmd = thread[t].cmd /\ thread'[t].session = thread[t].session
          /\ \A u \in Threads \ {t} : thread'[u] = thread[u]
      BY <1>2, <2>2, TakesProc DEF Failed, At, Busy
    <3> QED BY <1>2, <2>1, <3>1 DEF Failed, At, Carrying, TypeOK, EngineTypes
  <2>3. CASE Leave(t)
    BY <1>2, <2>1, <2>3, Leaving DEF Failed, TypeOK, EngineTypes, At
  <2> QED BY <1>2, <2>2, <2>3 DEF Failed
<1> QED BY <1>1, <1>2

\* A choice of set_chain is merged into the session, or into no session.
LEMMA Merges ==
  ASSUME NEW c \in [exit : BOOLEAN, through : BOOLEAN, sources : Sources],
         NEW base \in Session \union {[on |-> FALSE, iran |-> FALSE, tun |-> FALSE]}
  PROVE  LET s == [f \in DOMAIN base \union DOMAIN c |-> IF f \in DOMAIN c THEN c[f] ELSE base[f]] IN
         /\ s.exit = c.exit /\ s.tun = base.tun
         /\ base \in Session => s \in Session /\ s.on = base.on /\ s.proxy = base.proxy
         /\ base \notin Session => s \in Settings
<1> DEFINE s == [f \in DOMAIN base \union DOMAIN c |-> IF f \in DOMAIN c THEN c[f] ELSE base[f]]
<1>1. DOMAIN c = {"exit", "through", "sources"}
  OBVIOUS
<1>2. CASE base \in Session
  <2>1. DOMAIN base = {"on", "hops", "exit", "through", "sources", "iran", "tun", "proxy", "share"}
    BY <1>2 DEF Session
  <2>2. s = [on |-> base.on, hops |-> base.hops, exit |-> c.exit, through |-> c.through,
             sources |-> c.sources, iran |-> base.iran, tun |-> base.tun, proxy |-> base.proxy,
             share |-> base.share]
    BY <1>1, <2>1
  <2> QED BY <1>2, <2>2 DEF Session
<1>3. CASE base \notin Session
  <2>1. base = [on |-> FALSE, iran |-> FALSE, tun |-> FALSE]
    BY <1>3
  <2>2. DOMAIN base = {"on", "iran", "tun"} /\ base.on = FALSE /\ base.iran = FALSE
        /\ base.tun = FALSE
    BY <2>1
  <2>3. s = [on |-> base.on, iran |-> base.iran, tun |-> base.tun, exit |-> c.exit,
             through |-> c.through, sources |-> c.sources]
    BY <1>1, <2>2
  <2> QED BY <1>3, <2>2, <2>3 DEF Settings
<1> QED BY <1>2, <1>3

\* What a command leaves: the engine stopped and nothing begun, or one start begun, with
\* the engine as it was or, when there is nothing to start, stopped.
Begun(t) ==
  /\ thread' \in [Threads -> Starts \union {Idle}]
  /\ \A u \in Threads : thread'[u].pc \in Carrying => thread'[u].proc \in Procs
  /\ \A u \in Threads : thread'[u].pc # "idle" /\ thread'[u].cmd = "connect" =>
       thread'[u].session \in Session
  /\ \A u \in Threads \ {t} : thread'[u] = thread[u]
  /\ \/ Stopped /\ UNCHANGED thread
     \/ /\ thread'[t].pc \in {"begin", "publish"} /\ thread'[t].proc = 0
        /\ thread'[t].cmd = "connect" => thread'[t].session = session'
        /\ \/ /\ UNCHANGED <<slot, engine>>
              /\ thread'[t].pc = "publish" => thread'[t].cmd = "connect"
           \/ Stopped /\ thread'[t].pc = "publish"

\* A session that is on is a session; what carries is its chain, or nothing.
LEMMA SessionsAreOn ==
  ASSUME TypeOK
  PROVE  /\ session.on => session \in Session /\ session.hops \in Chains
         /\ ~session.on => session = Off
<1>1. CASE session = Off
  BY <1>1 DEF Off
<1>2. CASE session \in Session
  <2>1. session.on = TRUE /\ session.hops \in Chains
    BY <1>2 DEF Session
  <2> QED BY <1>2, <2>1
<1> QED BY <1>1, <1>2 DEF TypeOK, EngineTypes

\* The hops of the session are a chain of carriers, or there are none.
LEMMA HopsAreTyped == ASSUME TypeOK PROVE hops \in Chains \union {<< >>}
BY SessionsAreOn DEF hops

\* A command begins on a thread that is idle, and touches neither the door nor the proxy.
LEMMA Commands ==
  ASSUME TypeOK, NEW t \in Threads,
         Connect(t) \/ Reconnect(t) \/ SetChain(t) \/ SetFullTunnel(t)
  PROVE  /\ Begun(t) /\ Command(t) /\ session' \in Session \union {Off}
         /\ UNCHANGED <<disk, route, shown, doorVars>>
<1>1. ASSUME NEW s \in Session \union Settings, NEW carriers \in Chains \union {<< >>},
             NEW cmd \in {"connect", "command"}, NEW label \in {"begin", "publish"}, Command(t),
             cmd = "connect" => s \in Session /\ s = session',
             thread' = [thread EXCEPT ![t] = [Start(cmd, s, carriers) EXCEPT !.pc = label]],
             \/ UNCHANGED <<slot, engine>> /\ (label = "publish" => cmd = "connect")
             \/ Stopped /\ label = "publish"
      PROVE  Begun(t)
  <2> DEFINE x == [Start(cmd, s, carriers) EXCEPT !.pc = label]
  <2>1. label \in Busy
    BY DEF Busy
  <2>2. x \in Starts /\ x = [pc |-> label, cmd |-> cmd, request |-> RequestOf(s, carriers),
                             session |-> s, proc |-> 0, address |-> Tunnel]
    BY <2>1, StartsAreTyped
  <2>3. thread' = [thread EXCEPT ![t] = x]
    BY <1>1
  <2> HIDE DEF x
  <2>4. x.pc = label /\ x.proc = 0 /\ x.cmd = cmd /\ x.session = s /\ label \notin Carrying
    BY <2>2 DEF Carrying
  <2>5. /\ thread' \in [Threads -> Starts \union {Idle}] /\ thread'[t] = x
        /\ \A u \in Threads \ {t} : thread'[u] = thread[u]
    BY <2>2, <2>3, Starting
  <2>6. /\ \A u \in Threads : thread'[u].pc \in Carrying => thread'[u].proc \in Procs
        /\ \A u \in Threads : thread'[u].pc # "idle" /\ thread'[u].cmd = "connect" =>
             thread'[u].session \in Session
    BY <1>1, <2>4, <2>5 DEF TypeOK, EngineTypes, At
  <2> QED BY <1>1, <2>4, <2>5, <2>6 DEF Begun
<1>2. ASSUME Stopped, UNCHANGED thread PROVE Begun(t)
  BY <1>2 DEF Begun, TypeOK, EngineTypes, At
<1>3. ASSUME NEW s, NEW carriers
      PROVE  [Start("command", s, carriers) EXCEPT !.pc = "begin"] = Start("command", s, carriers)
  BY DEF Start
<1>4. CASE Connect(t)
  <2>1. PICK s \in Sessions :
          /\ session' = s
          /\ thread' = [thread EXCEPT ![t] = [Start("connect", s, s.hops) EXCEPT !.pc =
               IF engine_is_wanted(s.exit, s.tun, s.hops) /\ ~(LoneAether(s) /\ Running)
               THEN "begin" ELSE "publish"]]
    BY <1>4 DEF Connect
  <2>2. s \in Session /\ s.hops \in Chains
    BY ChoicesAreSettings DEF Session
  <2>3. Command(t) /\ UNCHANGED <<slot, engine, disk, route, shown, doorVars>>
    BY <1>4 DEF Connect
  <2>4. PICK label \in {"begin", "publish"} :
          thread' = [thread EXCEPT ![t] = [Start("connect", s, s.hops) EXCEPT !.pc = label]]
    BY <2>1
  <2>5. Begun(t)
    BY <1>1, <2>1, <2>2, <2>3, <2>4
  <2> QED BY <2>1, <2>2, <2>3, <2>5
<1>5. CASE Reconnect(t)
  <2>1. session \in Session /\ session.hops \in Chains
    BY <1>5, SessionsAreOn DEF Reconnect, LoneAether
  <2>2. Command(t) /\ UNCHANGED <<session, slot, engine, disk, route, shown, doorVars>>
    BY <1>5 DEF Reconnect
  <2>3. PICK label \in {"begin", "publish"} :
          thread' = [thread EXCEPT ![t] = [Start("connect", session, session.hops) EXCEPT !.pc = label]]
    BY <1>5 DEF Reconnect
  <2>4. Begun(t)
    BY <1>1, <2>1, <2>2, <2>3
  <2> QED BY <2>1, <2>2, <2>4
<1>6. CASE SetChain(t)
  <2> DEFINE base == IF session.on THEN session ELSE [on |-> FALSE, iran |-> FALSE, tun |-> FALSE]
  <2> DEFINE merged(c) ==
        [f \in DOMAIN base \union DOMAIN c |-> IF f \in DOMAIN c THEN c[f] ELSE base[f]]
  <2>1. PICK c \in ChainChoices :
          /\ session' = IF session.on THEN merged(c) ELSE Off
          /\ IF hops = << >> /\ (~c.exit \/ c.through)
             THEN Stopped /\ UNCHANGED thread
             ELSE IF engine_is_wanted(c.exit, merged(c).tun, hops)
             THEN thread' = [thread EXCEPT ![t] = Start("command", merged(c), hops)]
                  /\ UNCHANGED <<slot, engine>>
             ELSE Stopped /\ thread' = [thread EXCEPT ![t] =
                    [Start("command", merged(c), hops) EXCEPT !.pc = "publish"]]
    BY <1>6 DEF SetChain
  <2>2. /\ base \in Session \union {[on |-> FALSE, iran |-> FALSE, tun |-> FALSE]}
        /\ session.on => base \in Session
    BY DEF TypeOK, EngineTypes, Off
  <2>3. merged(c) \in Session \union Settings /\ (session.on => merged(c) \in Session)
    BY <2>2, Merges, ChoicesAreSettings
  <2>4. Command(t) /\ UNCHANGED <<disk, route, shown, doorVars>>
    BY <1>6 DEF SetChain
  <2> HIDE DEF merged, base
  <2>5. CASE Stopped /\ UNCHANGED thread
    BY <1>2, <2>1, <2>3, <2>4, <2>5
  <2>6. CASE /\ thread' = [thread EXCEPT ![t] = Start("command", merged(c), hops)]
             /\ UNCHANGED <<slot, engine>>
    <3>1. thread' = [thread EXCEPT ![t] = [Start("command", merged(c), hops) EXCEPT !.pc = "begin"]]
      BY <1>3, <2>6
    <3>2. Begun(t)
      BY <1>1, <2>3, <2>4, <2>6, <3>1, HopsAreTyped
    <3> QED BY <2>1, <2>3, <2>4, <3>2
  <2>7. CASE Stopped /\ thread' = [thread EXCEPT ![t] =
                          [Start("command", merged(c), hops) EXCEPT !.pc = "publish"]]
    <3>1. Begun(t)
      BY <1>1, <2>3, <2>4, <2>7, HopsAreTyped
    <3> QED BY <2>1, <2>3, <2>4, <3>1
  <2> QED BY <2>1, <2>5, <2>6, <2>7
<1>7. CASE SetFullTunnel(t)
  <2>1. PICK on \in BOOLEAN :
          /\ session' = [session EXCEPT !.tun = on]
          /\ \/ Stopped /\ UNCHANGED thread
             \/ /\ thread' = [thread EXCEPT ![t] = Start("command", [session EXCEPT !.tun = on], hops)]
                /\ UNCHANGED <<slot, engine>>
    BY <1>7 DEF SetFullTunnel
  <2>2. session' \in Session
    BY <1>7, <2>1, SessionsAreOn DEF SetFullTunnel, Session
  <2>3. Command(t) /\ UNCHANGED <<disk, route, shown, doorVars>>
    BY <1>7 DEF SetFullTunnel
  <2>4. CASE Stopped /\ UNCHANGED thread
    BY <1>2, <2>2, <2>3, <2>4
  <2>5. CASE /\ thread' = [thread EXCEPT ![t] = Start("command", session', hops)]
             /\ UNCHANGED <<slot, engine>>
    <3>1. thread' = [thread EXCEPT ![t] = [Start("command", session', hops) EXCEPT !.pc = "begin"]]
      BY <1>3, <2>5
    <3>2. Begun(t)
      BY <1>1, <2>2, <2>3, <2>5, <3>1, HopsAreTyped
    <3> QED BY <2>2, <2>3, <3>2
  <2> QED BY <2>1, <2>4, <2>5
<1> QED BY <1>4, <1>5, <1>6, <1>7

\* set_lan_share: the door leads to what is held, or to the tunnel.
LEMMA SharesOpen ==
  ASSUME TypeOK, NEW t \in Threads, SetLanShare(t)
  PROVE  /\ DoorTypes' /\ Keeps /\ session' \in Session \union {Off} /\ shown' \in BOOLEAN
         /\ session'.on <=> session.on
         /\ session.on => session'.proxy = session.proxy
         /\ Command(t) /\ UNCHANGED <<engine, slot, disk, route, thread>>
         /\ Running /\ door' # NoShare =>
              share'[door'].target = slot.address \/ UNCHANGED doorVars
<1> DEFINE to == IF Running THEN slot.address ELSE Tunnel
<1>1. to \in Addresses
  BY AddressesAreThere DEF Running, TypeOK, EngineTypes
<1>2. ASSUME NEW c \in DoorSettings \union {Off},
             session' = IF session.on THEN [session EXCEPT !.share = c] ELSE session
      PROVE  /\ session' \in Session \union {Off} /\ (session'.on <=> session.on)
             /\ session.on => session'.proxy = session.proxy
  <2>1. CASE session.on
    <3>1. session \in Session
      BY <2>1, SessionsAreOn
    <3>2. session' = [session EXCEPT !.share = c]
      BY <1>2, <2>1
    <3> QED BY <2>1, <3>1, <3>2 DEF Session
  <2>2. CASE ~session.on
    BY <1>2, <2>2 DEF TypeOK, EngineTypes
  <2> QED BY <2>1, <2>2
<1>3. Command(t) /\ UNCHANGED <<engine, slot, disk, route, thread>>
  BY DEF SetLanShare
<1>4. ASSUME NEW c \in DoorChoices,
             session' = IF session.on THEN [session EXCEPT !.share = c] ELSE session,
             IF Taken(c.port) THEN shown' = FALSE /\ UNCHANGED doorVars
             ELSE shown' = TRUE /\ OpenDoor(to, c.port, c.login)
      PROVE  /\ DoorTypes' /\ Keeps /\ shown' \in BOOLEAN
             /\ session' \in Session \union {Off} /\ (session'.on <=> session.on)
             /\ session.on => session'.proxy = session.proxy
             /\ door' # NoShare => share'[door'].target = to \/ UNCHANGED doorVars
  <2>1. c \in DoorSettings /\ c.port \in Ports /\ c.login \in Logins
    BY ChoicesAreSettings DEF DoorSettings
  <2> HIDE DEF to
  <2>2. CASE UNCHANGED doorVars
    <3>1. DoorTypes' /\ Keeps
      BY <2>2 DEF TypeOK, DoorTypes, Inside, doorVars, Keeps
    <3> QED BY <1>2, <1>4, <2>1, <2>2, <3>1
  <2>3. CASE OpenDoor(to, c.port, c.login)
    <3>1. DoorTypes' /\ Keeps /\ share'[door'].target = to
      BY <1>1, <2>1, <2>3, Opens DEF TypeOK
    <3> QED BY <1>2, <1>4, <2>1, <2>3, <3>1
  <2> QED BY <1>4, <2>2, <2>3
<1>5. ASSUME session' = IF session.on THEN [session EXCEPT !.share = Off] ELSE session,
             shown' = FALSE, CloseDoor
      PROVE  /\ DoorTypes' /\ Keeps /\ shown' \in BOOLEAN /\ door' = NoShare
             /\ session' \in Session \union {Off} /\ (session'.on <=> session.on)
             /\ session.on => session'.proxy = session.proxy
  BY <1>2, <1>5, Closes DEF TypeOK
<1> QED BY <1>3, <1>4, <1>5 DEF SetLanShare

\* Commands keep the types.
LEMMA TypeCommand ==
  ASSUME TypeOK, NEW t \in Threads,
         Connect(t) \/ Reconnect(t) \/ SetChain(t) \/ SetFullTunnel(t) \/ SetLanShare(t)
  PROVE  TypeOK'
<1>1. ASSUME Command(t) PROVE commands' \in 0 .. MaxCommands
  BY <1>1, BoundsAreNumbers DEF Command, TypeOK, EngineTypes
<1>2. CASE SetLanShare(t)
  BY <1>1, <1>2, SharesOpen DEF TypeOK, EngineTypes, At
<1>3. CASE Connect(t) \/ Reconnect(t) \/ SetChain(t) \/ SetFullTunnel(t)
  <2>1. /\ Begun(t) /\ Command(t) /\ session' \in Session \union {Off}
        /\ UNCHANGED <<disk, route, shown, doorVars>>
    BY <1>3, Commands
  <2>2. DoorTypes'
    BY <2>1 DEF TypeOK, DoorTypes, Inside, doorVars
  <2>3. engine' \in [Procs -> ProcStates]
        /\ slot' \in {NoSlot} \union [proc : Procs, request : Requests, address : Addresses]
    BY <2>1, Stops DEF Begun, TypeOK, EngineTypes
  <2> QED BY <1>1, <2>1, <2>2, <2>3 DEF Begun, TypeOK, EngineTypes, At
<1> QED BY <1>2, <1>3

\* What mihomo reads and becomes, in one record.
Loaded(p, device) ==
  [state |-> "up", address |-> engine[p].address, config |-> disk, device |-> device,
   bound |-> \A q \in Procs : engine[q].state = "up" => engine[q].address # engine[p].address]

\* A process that comes up, or dies, is the only one that changes.
LEMMA ProcSteps ==
  ASSUME TypeOK, NEW p \in Procs
  PROVE  /\ Load(p) => \E device \in BOOLEAN :
              /\ engine[p].state = "loading" /\ (device => disk.tun)
              /\ engine' \in [Procs -> ProcStates] /\ engine'[p] = Loaded(p, device)
              /\ \A q \in Procs \ {p} : engine'[q] = engine[q]
         /\ Dies(p) => /\ engine' \in [Procs -> ProcStates] /\ engine'[p].state = "dead"
                       /\ \A q \in Procs \ {p} : engine'[q] = engine[q]
<1>1. ASSUME Load(p)
      PROVE  \E device \in BOOLEAN :
              /\ engine[p].state = "loading" /\ (device => disk.tun)
              /\ engine' \in [Procs -> ProcStates] /\ engine'[p] = Loaded(p, device)
              /\ \A q \in Procs \ {p} : engine'[q] = engine[q]
  <2>1. PICK device \in BOOLEAN :
          (device => disk.tun) /\ engine' = [engine EXCEPT ![p] = Loaded(p, device)]
    BY <1>1 DEF Load, Loaded
  <2>2. engine[p] \in [state : {"loading", "dead"}, address : Addresses]
    BY <1>1 DEF Load, TypeOK, EngineTypes, ProcStates
  <2>3. Loaded(p, device) \in ProcStates
    <3> DEFINE bound == \A q \in Procs : engine[q].state = "up" => engine[q].address # engine[p].address
    <3>1. bound \in BOOLEAN /\ disk \in Requests \union {Nothing} /\ engine[p].address \in Addresses
      BY <2>2 DEF TypeOK, EngineTypes
    <3> HIDE DEF bound
    <3>2. [state |-> "up", address |-> engine[p].address, config |-> disk, device |-> device,
           bound |-> bound] \in ProcStates
      BY <3>1 DEF ProcStates
    <3> QED BY <3>2 DEF Loaded, bound
  <2> QED BY <1>1, <2>1, <2>3 DEF Load, TypeOK, EngineTypes
<1>2. Dies(p) => /\ engine' \in [Procs -> ProcStates] /\ engine'[p].state = "dead"
                 /\ \A q \in Procs \ {p} : engine'[q] = engine[q]
  BY Kills DEF Dies
<1> QED BY <1>1, <1>2

\* Every step keeps the types.
LEMMA TypeStep == TypeOK /\ [Next]_vars => TypeOK'
<1> SUFFICES ASSUME TypeOK, [Next]_vars PROVE TypeOK'
  OBVIOUS
<1>1. ASSUME NEW t \in Threads, Step(t) PROVE TypeOK'
  BY <1>1, TypeStart, TypeEnd DEF Step
<1>2. ASSUME NEW t \in Threads,
             Connect(t) \/ Reconnect(t) \/ SetChain(t) \/ SetFullTunnel(t) \/ SetLanShare(t)
      PROVE  TypeOK'
  BY <1>2, TypeCommand
<1>3. CASE Disconnect
  <2>1. slot' = NoSlot /\ engine' \in [Procs -> ProcStates]
    BY <1>3, Stops DEF Disconnect
  <2>2. DoorTypes'
    BY <1>3, Closes DEF Disconnect, TypeOK
  <2>3. commands' \in 0 .. MaxCommands
    BY <1>3, BoundsAreNumbers DEF Disconnect, TypeOK, EngineTypes
  <2>4. session' = Off /\ route' = NoRoute /\ shown' = FALSE /\ UNCHANGED <<disk, thread>>
    BY <1>3 DEF Disconnect
  <2> QED BY <2>1, <2>2, <2>3, <2>4 DEF TypeOK, EngineTypes, At
<1>4. ASSUME NEW p \in Procs, Load(p) \/ Dies(p) PROVE TypeOK'
  <2>1. engine' \in [Procs -> ProcStates]
    BY <1>4, ProcSteps
  <2>2. UNCHANGED <<session, slot, disk, route, shown, thread, commands, doorVars>>
    BY <1>4 DEF Load, Dies
  <2> QED BY <2>1, <2>2 DEF TypeOK, DoorTypes, Inside, EngineTypes, doorVars, At
<1>5. CASE DoorStep /\ UNCHANGED routingVars
  BY <1>5, DoorSteps DEF TypeOK, EngineTypes, routingVars, At
<1>6. CASE UNCHANGED vars
  BY <1>6 DEF TypeOK, DoorTypes, Inside, EngineTypes, vars, routingVars, doorVars, At
<1> QED BY <1>1, <1>2, <1>3, <1>4, <1>5, <1>6 DEF Next

\* The state of the routing engine, its door and its threads stays within its types.
THEOREM RoutingTyped == Spec => []TypeOK
<1> QED BY InitTypes, TypeStep, PTL DEF Spec

(***************************************************************************)
(* No engine is lost.                                                      *)
(***************************************************************************)
\* A start under way has the thread to itself: nothing else is busy, and nothing may begin.
LEMMA AloneAtWork ==
  ASSUME TypeOK, InHands, NEW t \in Threads, ~At(t, "idle")
  PROVE  \A u \in Threads \ {t} : thread[u] = Idle
BY ThreadKinds DEF InHands

\* At a command nothing is being started.
LEMMA CommandsAlone ==
  ASSUME Serial, NEW t \in Threads, Command(t)
  PROVE  Quiet
BY DEF Command, Quiet

\* One thread moves on, and the engine stays as it is.
LEMMA HandsOver ==
  ASSUME TypeOK, InHands, NEW t \in Threads, ~At(t, "idle"),
         \A u \in Threads \ {t} : thread'[u] = thread[u], UNCHANGED <<slot, engine>>,
         thread'[t].pc \in Empty => slot = NoSlot,
         \A p \in Procs : Live(p) /\ thread[t].pc \in Carrying /\ thread[t].proc = p =>
           slot.proc = p \/ (thread'[t].pc \in Carrying /\ thread'[t].proc = p)
  PROVE  InHands'
<1>1. \A u, v \in Threads : thread'[u].pc = "idle" \/ thread'[v].pc = "idle" \/ u = v
  BY AloneAtWork DEF Idle
<1>2. \A u \in Threads : thread'[u].pc \in Empty => slot' = NoSlot
  BY DEF InHands
<1>3. ASSUME NEW p \in Procs, Live(p)
      PROVE  slot.proc = p \/ \E u \in Threads : thread'[u].pc \in Carrying /\ thread'[u].proc = p
  BY <1>3 DEF InHands
<1> QED BY <1>1, <1>2, <1>3 DEF InHands, At, Live

\* Chain::start hands its process over to the slot, which it has emptied, or kills it.
LEMMA HandsStart ==
  ASSUME TypeOK, InHands, NEW t \in Threads, Step(t)
  PROVE  InHands'
<1>0. ~At(t, "idle")
  BY DEF Step, Begin, Write, Spawn, Ready, DeviceUp, NotReady, Store, Publish, Failed, At
<1>1. CASE Begin(t)
  <2>1. PICK label \in {"failed", "write"} : Goto(t, label)
    BY <1>1 DEF Begin
  <2>2. /\ \A u \in Threads \ {t} : thread'[u] = thread[u] /\ thread'[u] = Idle
        /\ thread'[t].pc \notin Carrying
    BY <1>0, <2>1, GoesTo, AloneAtWork DEF Busy, Carrying
  <2>3. slot' = NoSlot /\ \A q \in Procs : IF slot.proc = q THEN engine'[q].state = "dead"
                                          ELSE engine'[q] = engine[q]
    BY <1>1, Stops DEF Begin
  <2> QED BY <1>1, <2>2, <2>3 DEF InHands, At, Live, Begin, Carrying, Idle
<1>2. CASE Write(t)
  <2>1. PICK a \in Addresses : thread' = [thread EXCEPT ![t].pc = "spawn", ![t].address = a]
    BY <1>2, AddressesAreThere DEF Write, TypeOK, EngineTypes
  <2>2. thread'[t].pc = "spawn" /\ \A u \in Threads \ {t} : thread'[u] = thread[u]
    BY <1>0, <2>1, TakesAddress DEF Busy
  <2> QED BY <1>0, <1>2, <2>2, HandsOver DEF Write, At, Carrying, Empty, InHands
<1>3. CASE Spawn(t)
  <2>1. CASE Goto(t, "failed") /\ UNCHANGED engine
    <3>1. thread'[t].pc = "failed" /\ \A u \in Threads \ {t} : thread'[u] = thread[u]
      BY <1>0, <2>1, GoesTo DEF Busy
    <3> QED BY <1>0, <1>3, <2>1, <3>1, HandsOver DEF Spawn, At, Carrying, Empty, InHands
  <2>2. ASSUME NEW p \in Procs, engine[p] = UnbornProc,
               engine' = [engine EXCEPT ![p] = [state |-> "loading", address |-> thread[t].address]],
               thread' = [thread EXCEPT ![t].pc = "ready", ![t].proc = p]
        PROVE  InHands'
    <3>1. /\ thread'[t].pc = "ready" /\ thread'[t].proc = p
          /\ \A u \in Threads \ {t} : thread'[u] = thread[u] /\ thread[u] = Idle
      BY <1>0, <2>2, TakesProc, AloneAtWork DEF Busy
    <3>2. \A q \in Procs \ {p} : engine'[q] = engine[q]
      BY <2>2 DEF TypeOK, EngineTypes
    <3>3. slot = NoSlot /\ UNCHANGED slot
      BY <1>3 DEF Spawn, At, Empty, InHands
    <3> QED BY <1>3, <3>1, <3>2, <3>3 DEF InHands, At, Live, Carrying, Idle, Spawn, Empty
  <2> QED BY <1>3, <2>1, <2>2 DEF Spawn
<1>4. CASE Ready(t)
  <2>1. PICK label \in {"device", "store"} : Goto(t, label)
    BY <1>4 DEF Ready
  <2>2. /\ thread'[t].pc = label /\ thread'[t].proc = thread[t].proc
        /\ \A u \in Threads \ {t} : thread'[u] = thread[u]
    BY <1>0, <2>1, GoesTo DEF Busy
  <2> QED BY <1>0, <1>4, <2>2, HandsOver DEF Ready, At, Carrying, Empty, InHands
<1>5. CASE DeviceUp(t)
  <2>1. /\ thread'[t].pc = "store" /\ thread'[t].proc = thread[t].proc
        /\ \A u \in Threads \ {t} : thread'[u] = thread[u]
    BY <1>0, <1>5, GoesTo DEF DeviceUp, Busy
  <2> QED BY <1>0, <1>5, <2>1, HandsOver DEF DeviceUp, At, Carrying, Empty, InHands
<1>6. CASE NotReady(t)
  <2>1. /\ thread'[t].pc = "failed"
        /\ \A u \in Threads \ {t} : thread'[u] = thread[u] /\ thread[u] = Idle
    BY <1>0, <1>6, GoesTo, AloneAtWork DEF NotReady, Busy
  <2>2. thread[t].proc \in Procs /\ slot = NoSlot /\ UNCHANGED slot
    BY <1>6 DEF NotReady, At, Carrying, Empty, TypeOK, EngineTypes, InHands
  <2>3. /\ engine'[thread[t].proc].state = "dead"
        /\ \A q \in Procs \ {thread[t].proc} : engine'[q] = engine[q]
    BY <1>6, <2>2, Kills DEF NotReady
  <2> QED BY <1>6, <2>1, <2>2, <2>3 DEF InHands, At, Live, Carrying, Idle
<1>7. CASE Store(t)
  <2>1. /\ thread'[t].pc = "publish"
        /\ \A u \in Threads \ {t} : thread'[u] = thread[u] /\ thread[u] = Idle
    BY <1>0, <1>7, GoesTo, AloneAtWork DEF Store, Busy
  <2>2. slot = NoSlot /\ slot'.proc = thread[t].proc /\ UNCHANGED engine
    BY <1>7 DEF Store, At, Empty, InHands
  <2>3. \A p \in Procs : slot.proc # p
    BY <2>2, ProcsAreNumbers DEF NoSlot
  <2> QED BY <2>1, <2>2, <2>3 DEF InHands, At, Live, Carrying, Empty, Idle
<1>8. CASE Publish(t)
  <2>1. thread'[t].pc = "idle" /\ \A u \in Threads \ {t} : thread'[u] = thread[u]
    BY <1>8, Leaving DEF Publish, Idle
  <2> QED BY <1>0, <1>8, <2>1, HandsOver DEF Publish, At, Carrying, Empty
<1>9. CASE Failed(t)
  <2>1. thread'[t].pc \in {"idle", "publish"} /\ \A u \in Threads \ {t} : thread'[u] = thread[u]
    <3>1. CASE Leave(t)
      BY <3>1, Leaving DEF Idle
    <3>2. CASE thread' = [thread EXCEPT ![t].pc = "publish", ![t].proc = 0]
      BY <1>0, <3>2, TakesProc DEF Busy
    <3> QED BY <1>9, <3>1, <3>2 DEF Failed
  <2> QED BY <1>0, <1>9, <2>1, HandsOver DEF Failed, At, Carrying, Empty
<1> QED BY <1>1, <1>2, <1>3, <1>4, <1>5, <1>6, <1>7, <1>8, <1>9 DEF Step

\* A command begins with nothing in hand, and what it stops is dead.
LEMMA HandsCommand ==
  ASSUME TypeOK, InHands, Serial, NEW t \in Threads,
         Connect(t) \/ Reconnect(t) \/ SetChain(t) \/ SetFullTunnel(t) \/ SetLanShare(t)
  PROVE  InHands'
<1>1. CASE SetLanShare(t)
  <2>1. UNCHANGED <<slot, engine, thread>>
    BY <1>1 DEF SetLanShare
  <2> QED BY <2>1 DEF InHands, At, Live
<1>2. CASE Connect(t) \/ Reconnect(t) \/ SetChain(t) \/ SetFullTunnel(t)
  <2>1. Begun(t) /\ Command(t)
    BY <1>2, Commands
  <2>2. /\ \A u \in Threads \ {t} : thread'[u].pc = "idle"
        /\ thread'[t].pc \in {"idle", "begin", "publish"}
    BY <2>1, CommandsAlone DEF Begun, Quiet, At
  <2>3. \A p \in Procs : Live(p) => slot.proc = p
    BY <2>1, CommandsAlone DEF InHands, Quiet, At, Carrying
  <2>4. \A p \in Procs : Live(p)' => slot'.proc = p
    <3>1. CASE UNCHANGED <<slot, engine>>
      BY <2>3, <3>1 DEF Live
    <3>2. CASE Stopped
      BY <2>3, <3>2, Stops DEF Live
    <3> QED BY <2>1, <3>1, <3>2 DEF Begun
  <2> QED BY <2>2, <2>4 DEF InHands, At, Empty
<1> QED BY <1>1, <1>2

\* Every step keeps who holds a process.
LEMMA HandsStep == Serial /\ TypeOK /\ InHands /\ [Next]_vars => InHands'
<1> SUFFICES ASSUME Serial, TypeOK, InHands, [Next]_vars PROVE InHands'
  OBVIOUS
<1>1. CASE Disconnect
  <2>1. UNCHANGED thread /\ Stopped
    BY <1>1 DEF Disconnect
  <2> QED BY <2>1, Stops DEF InHands, At, Live
<1>2. ASSUME NEW p \in Procs, Load(p) \/ Dies(p) PROVE InHands'
  <2>1. /\ UNCHANGED <<slot, thread>> /\ Live(p)
        /\ \A q \in Procs \ {p} : engine'[q] = engine[q]
    BY <1>2, ProcSteps DEF Load, Dies, Live
  <2> QED BY <2>1 DEF InHands, At, Live
<1>3. CASE (DoorStep /\ UNCHANGED routingVars) \/ UNCHANGED vars
  BY <1>3 DEF InHands, At, Live, routingVars, vars
<1> QED BY <1>1, <1>2, <1>3, HandsStart, HandsCommand DEF Next

\* A process of mihomo that runs is in the slot, or in the hands of the thread that started
\* it, however starts fail and whatever is disconnected under them, when one start at a time
\* is under way.
THEOREM NoEngineIsLost == Serial => (Spec => []NoStrayEngine)
<1> SUFFICES ASSUME Serial PROVE Spec => []NoStrayEngine
  OBVIOUS
<1>1. Init => InHands
  BY DEF Init, InHands, At, Idle, Empty, Live, UnbornProc, Carrying
<1>2. TypeOK /\ InHands /\ [Next]_vars => InHands'
  BY HandsStep
<1>3. InHands => NoStrayEngine
  BY DEF InHands, NoStrayEngine, Held, At, Carrying
<1> QED BY InitTypes, TypeStep, <1>1, <1>2, <1>3, PTL DEF Spec

(***************************************************************************)
(* What is held is what was asked for.                                     *)
(***************************************************************************)
\* One thread moves on, with its process, and the engine stays as it is.
LEMMA BuiltGoes ==
  ASSUME TypeOK, InHands, Built, NEW t \in Threads, ~At(t, "idle"),
         \A u \in Threads \ {t} : thread'[u] = thread[u], UNCHANGED <<slot, engine>>,
         thread'[t].pc \in {"spawn", "ready"} => disk' = thread'[t].request,
         thread'[t].pc \in Carrying =>
           /\ thread[t].pc \in Carrying
           /\ thread'[t].proc = thread[t].proc /\ thread'[t].request = thread[t].request
           /\ thread'[t].pc # "ready" => engine[thread[t].proc].state # "loading"
           /\ thread'[t].pc = "store" /\ thread[t].request.tun => engine[thread[t].proc].device
  PROVE  Built'
<1>1. \A u \in Threads \ {t} : thread'[u] = Idle
  BY AloneAtWork
<1>2. \A u \in Threads \ {t} : thread'[u].pc = "idle"
  BY <1>1 DEF Idle
<1>3. \A u \in Threads : thread'[u].pc \in {"spawn", "ready"} => disk' = thread'[u].request
  BY <1>2
<1>4. \A u \in Threads : thread'[u].pc \in Carrying =>
        /\ engine[thread'[u].proc].state = "loading" => thread'[u].pc = "ready"
        /\ Asked(thread'[u].proc, thread'[u].request)
        /\ thread'[u].pc = "store" /\ engine[thread'[u].proc].state = "up" /\ thread'[u].request.tun
             => engine[thread'[u].proc].device
  BY <1>2 DEF Built, Request, Carrying
<1>5. \A p \in Procs : \A q : Asked(p, q)' <=> Asked(p, q)
  BY DEF Asked
<1> QED BY <1>3, <1>4, <1>5 DEF Built, At, Request, Asked

\* Chain::start writes what it asks for, and stores what has come up.
LEMMA BuiltStart ==
  ASSUME TypeOK, InHands, Built, NEW t \in Threads, Step(t)
  PROVE  Built'
<1>0. ~At(t, "idle")
  BY DEF Step, Begin, Write, Spawn, Ready, DeviceUp, NotReady, Store, Publish, Failed, At
<1>1. CASE Begin(t)
  <2>1. PICK label \in {"failed", "write"} : Goto(t, label)
    BY <1>1 DEF Begin
  <2>2. \A u \in Threads : thread'[u].pc \notin Carrying \union {"spawn"}
    BY <1>0, <2>1, GoesTo, AloneAtWork DEF Busy, Carrying, Idle
  <2>3. slot' = NoSlot
    BY <1>1, Stops DEF Begin
  <2> QED BY <2>2, <2>3, ProcsAreNumbers DEF Built, Carrying, NoSlot
<1>2. CASE Write(t)
  <2>1. PICK a \in Addresses : thread' = [thread EXCEPT ![t].pc = "spawn", ![t].address = a]
    BY <1>2, AddressesAreThere DEF Write, TypeOK, EngineTypes
  <2>2. /\ thread'[t].pc = "spawn" /\ thread'[t].request = thread[t].request
        /\ \A u \in Threads \ {t} : thread'[u] = thread[u]
    BY <1>0, <2>1, TakesAddress DEF Busy
  <2> QED BY <1>0, <1>2, <2>2, BuiltGoes DEF Write, Carrying, Request
<1>3. CASE Spawn(t)
  <2>1. CASE Goto(t, "failed") /\ UNCHANGED engine
    <3>1. thread'[t].pc = "failed" /\ \A u \in Threads \ {t} : thread'[u] = thread[u]
      BY <1>0, <2>1, GoesTo DEF Busy
    <3> QED BY <1>0, <1>3, <2>1, <3>1, BuiltGoes DEF Spawn, Carrying
  <2>2. ASSUME NEW p \in Procs,
               engine' = [engine EXCEPT ![p] = [state |-> "loading", address |-> thread[t].address]],
               thread' = [thread EXCEPT ![t].pc = "ready", ![t].proc = p]
        PROVE  Built'
    <3>1. /\ thread'[t].pc = "ready" /\ thread'[t].proc = p
          /\ thread'[t].request = thread[t].request
          /\ \A u \in Threads \ {t} : thread'[u].pc = "idle"
      <4>1. /\ thread'[t].pc = "ready" /\ thread'[t].proc = p
            /\ thread'[t].request = thread[t].request
            /\ \A u \in Threads \ {t} : thread'[u] = thread[u]
        BY <1>0, <2>2, TakesProc DEF Busy
      <4> QED BY <1>0, <4>1, AloneAtWork DEF Idle
    <3>2. engine'[p].state = "loading"
      BY <2>2 DEF TypeOK, EngineTypes
    <3>3. slot' = NoSlot /\ disk' = thread[t].request
      BY <1>3 DEF Spawn, At, Empty, InHands, Built, Request
    <3>4. \A q \in Procs : slot'.proc # q
      BY <3>3, ProcsAreNumbers DEF NoSlot
    <3> QED BY <3>1, <3>2, <3>3, <3>4 DEF Built, At, Carrying, Request, Asked
  <2> QED BY <1>3, <2>1, <2>2 DEF Spawn
<1>4. CASE Ready(t)
  <2>1. PICK label \in {"device", "store"} :
          Goto(t, label) /\ (label = "store" => ~Request(t).tun)
    BY <1>4 DEF Ready
  <2>2. /\ thread'[t].pc = label /\ thread'[t].proc = thread[t].proc
        /\ thread'[t].request = thread[t].request
        /\ \A u \in Threads \ {t} : thread'[u] = thread[u]
    BY <1>0, <2>1, GoesTo DEF Busy
  <2> QED BY <1>0, <1>4, <2>1, <2>2, BuiltGoes DEF Ready, At, Carrying, Request
<1>5. CASE DeviceUp(t)
  <2>1. /\ thread'[t].pc = "store" /\ thread'[t].proc = thread[t].proc
        /\ thread'[t].request = thread[t].request
        /\ \A u \in Threads \ {t} : thread'[u] = thread[u]
    BY <1>0, <1>5, GoesTo DEF DeviceUp, Busy
  <2> QED BY <1>0, <1>5, <2>1, BuiltGoes DEF DeviceUp, At, Carrying
<1>6. CASE NotReady(t)
  <2>1. \A u \in Threads : thread'[u].pc \notin Carrying \union {"spawn"}
    BY <1>0, <1>6, GoesTo, AloneAtWork DEF NotReady, Busy, Idle, Carrying
  <2>2. slot' = NoSlot
    BY <1>6 DEF NotReady, At, Empty, InHands
  <2> QED BY <2>1, <2>2, ProcsAreNumbers DEF Built, Carrying, NoSlot
<1>7. CASE Store(t)
  <2>1. \A u \in Threads : thread'[u].pc \notin Carrying \union {"spawn"}
    BY <1>0, <1>7, GoesTo, AloneAtWork DEF Store, Busy, Idle, Carrying
  <2>2. slot'.proc = thread[t].proc /\ slot'.request = thread[t].request /\ UNCHANGED engine
    BY <1>7 DEF Store, Request
  <2>3. LET p == thread[t].proc IN
        /\ engine[p].state # "loading" /\ Asked(p, thread[t].request)
        /\ engine[p].state = "up" /\ thread[t].request.tun => engine[p].device
    BY <1>7 DEF Store, Built, At, Carrying, Request
  <2> QED BY <2>1, <2>2, <2>3 DEF Built, Carrying, Asked
<1>8. CASE Publish(t)
  <2>1. thread'[t].pc = "idle" /\ \A u \in Threads \ {t} : thread'[u] = thread[u]
    BY <1>8, Leaving DEF Publish, Idle
  <2> QED BY <1>0, <1>8, <2>1, BuiltGoes DEF Publish, Carrying
<1>9. CASE Failed(t)
  <2>1. thread'[t].pc \in {"idle", "publish"} /\ \A u \in Threads \ {t} : thread'[u] = thread[u]
    <3>1. CASE Leave(t)
      BY <3>1, Leaving DEF Idle
    <3>2. CASE thread' = [thread EXCEPT ![t].pc = "publish", ![t].proc = 0]
      BY <1>0, <3>2, TakesProc DEF Busy
    <3> QED BY <1>9, <3>1, <3>2 DEF Failed
  <2> QED BY <1>0, <1>9, <2>1, BuiltGoes DEF Failed, Carrying
<1> QED BY <1>1, <1>2, <1>3, <1>4, <1>5, <1>6, <1>7, <1>8, <1>9 DEF Step

\* A command leaves what is held as it is, or holds nothing.
LEMMA BuiltCommand ==
  ASSUME TypeOK, InHands, Built, Serial, NEW t \in Threads,
         Connect(t) \/ Reconnect(t) \/ SetChain(t) \/ SetFullTunnel(t) \/ SetLanShare(t)
  PROVE  Built'
<1>1. CASE SetLanShare(t)
  <2>1. UNCHANGED <<slot, engine, thread, disk>>
    BY <1>1 DEF SetLanShare
  <2> QED BY <2>1 DEF Built, At, Asked, Request
<1>2. CASE Connect(t) \/ Reconnect(t) \/ SetChain(t) \/ SetFullTunnel(t)
  <2>1. Begun(t) /\ Command(t) /\ UNCHANGED disk
    BY <1>2, Commands
  <2>2. \A u \in Threads : thread'[u].pc \in {"idle", "begin", "publish"}
    BY <2>1, CommandsAlone DEF Begun, Quiet, At
  <2>3. \A p \in Procs : slot'.proc = p => UNCHANGED <<slot, engine>>
    BY <2>1, Stops, ProcsAreNumbers DEF Begun, NoSlot
  <2> QED BY <2>2, <2>3 DEF Built, Asked, Carrying
<1> QED BY <1>1, <1>2

\* A process comes up from what its start has written, alone at its port.
LEMMA BuiltLoad ==
  ASSUME TypeOK, InHands, Built, NEW p \in Procs, Load(p)
  PROVE  Built'
<1>1. PICK device \in BOOLEAN :
        /\ engine[p].state = "loading" /\ engine'[p] = Loaded(p, device)
        /\ \A q \in Procs \ {p} : engine'[q] = engine[q]
  BY ProcSteps
<1>2. slot.proc # p
  BY <1>1 DEF Built
<1>3. PICK t \in Threads : thread[t].pc \in Carrying /\ thread[t].proc = p
  BY <1>1, <1>2 DEF InHands, Live
<1>4. At(t, "ready") /\ disk = Request(t) /\ slot = NoSlot
  BY <1>1, <1>3 DEF Built, At, InHands, Empty
<1>5. \A u \in Threads : thread[u].pc \in Carrying => u = t
  BY <1>3 DEF InHands, At, Carrying
<1>6. \A q \in Procs : engine[q].state = "up" => engine[q].address # engine[p].address
  <2> SUFFICES ASSUME NEW q \in Procs, engine[q].state = "up" PROVE FALSE
    OBVIOUS
  <2>1. slot.proc # q
    BY <1>4, ProcsAreNumbers DEF NoSlot
  <2>2. q = p
    BY <1>3, <1>5, <2>1 DEF InHands, Live
  <2> QED BY <1>1, <2>2
<1>7. engine'[p].state = "up" /\ engine'[p].config = disk /\ engine'[p].bound
  BY <1>1, <1>6 DEF Loaded
<1>8. UNCHANGED <<slot, disk, thread>>
  BY DEF Load
<1> QED BY <1>1, <1>2, <1>3, <1>4, <1>5, <1>7, <1>8 DEF Built, Asked, At, Request, Carrying

\* Every step keeps it.
LEMMA BuiltStep == Serial /\ TypeOK /\ InHands /\ Built /\ [Next]_vars => Built'
<1> SUFFICES ASSUME Serial, TypeOK, InHands, Built, [Next]_vars PROVE Built'
  OBVIOUS
<1>1. CASE Disconnect
  <2>1. UNCHANGED <<thread, disk>> /\ Stopped
    BY <1>1 DEF Disconnect
  <2>2. \A q \in Procs : engine'[q] = engine[q] \/ engine'[q].state = "dead"
    BY <2>1, Stops
  <2>3. \A q \in Procs : slot'.proc # q
    BY <2>1, Stops, ProcsAreNumbers DEF NoSlot
  <2>4. \A t \in Threads : thread[t].pc \in Carrying => thread[t].proc \in Procs
    BY DEF TypeOK, EngineTypes
  <2> QED BY <2>1, <2>2, <2>3, <2>4 DEF Built, At, Asked, Request
<1>2. ASSUME NEW p \in Procs, Dies(p) PROVE Built'
  <2>1. UNCHANGED <<slot, disk, thread>> /\ engine'[p].state = "dead"
        /\ \A q \in Procs \ {p} : engine'[q] = engine[q]
    BY <1>2, ProcSteps DEF Dies
  <2>2. \A t \in Threads : thread[t].pc \in Carrying => thread[t].proc \in Procs
    BY DEF TypeOK, EngineTypes
  <2> QED BY <2>1, <2>2 DEF Built, At, Asked, Request
<1>3. CASE (DoorStep /\ UNCHANGED routingVars) \/ UNCHANGED vars
  BY <1>3 DEF Built, At, Asked, Request, routingVars, vars
<1> QED BY <1>1, <1>2, <1>3, BuiltStart, BuiltCommand, BuiltLoad DEF Next

\* What the slot holds, when it answers, runs the request it is held for, at the port that
\* was promised and with the device of a full tunnel.
THEOREM HeldIsAsAsked == Serial => (Spec => []EngineIsAsAsked)
<1> SUFFICES ASSUME Serial PROVE Spec => []EngineIsAsAsked
  OBVIOUS
<1>1. Init => InHands /\ Built
  BY ProcsAreNumbers DEF Init, InHands, Built, At, Idle, Empty, Live, UnbornProc, Carrying, NoSlot
<1>2. TypeOK /\ InHands /\ Built /\ [Next]_vars => InHands' /\ Built'
  BY HandsStep, BuiltStep
<1>3. TypeOK /\ Built => EngineIsAsAsked
  BY DEF TypeOK, EngineTypes, Built, Asked, EngineIsAsAsked, Running
<1> QED BY InitTypes, TypeStep, <1>1, <1>2, <1>3, PTL DEF Spec

(***************************************************************************)
(* What points at the engine follows it.                                   *)
(***************************************************************************)
\* While a start is under way nothing is claimed of the door and the proxy.
LEMMA FollowedGoes ==
  ASSUME TypeOK, InHands, Followed, NEW t \in Threads, ~At(t, "idle"), UNCHANGED session,
         \A u \in Threads \ {t} : thread'[u] = thread[u],
         thread'[t].pc # "idle", thread'[t].cmd = thread[t].cmd,
         thread'[t].session = thread[t].session,
         thread'[t].pc = "publish" =>
           slot' = NoSlot \/ (thread'[t].proc # 0 /\ thread'[t].address = slot'.address)
  PROVE  Followed'
<1>1. \A u \in Threads \ {t} : thread'[u].pc = "idle"
  BY AloneAtWork DEF Idle
<1>2. FollowsTheEngine'
  BY DEF FollowsTheEngine, Quiet, At
<1>3. \A u \in Threads : thread'[u].pc = "publish" /\ slot' # NoSlot =>
        /\ thread'[u].proc # 0 => thread'[u].address = slot'.address
        /\ thread'[u].proc = 0 => thread'[u].cmd = "connect"
  BY <1>1
<1>4. \A u \in Threads : thread'[u].pc # "idle" /\ thread'[u].cmd = "connect" /\ session'.on =>
        thread'[u].session.proxy = session'.proxy
  BY <1>1 DEF Followed, At
<1> QED BY <1>2, <1>3, <1>4 DEF Followed, At, Running

\* When all is quiet again, only what is held counts.
LEMMA FollowedRests ==
  ASSUME \A u \in Threads : thread'[u].pc = "idle", FollowsTheEngine'
  PROVE  Followed'
BY DEF Followed, At

\* A start that ends has published where the engine listens, or the slot is empty.
LEMMA FollowedStart ==
  ASSUME TypeOK, InHands, Followed, NEW t \in Threads, Step(t)
  PROVE  Followed'
<1>0. ~At(t, "idle")
  BY DEF Step, Begin, Write, Spawn, Ready, DeviceUp, NotReady, Store, Publish, Failed, At
<1>1. CASE Begin(t) \/ Ready(t) \/ DeviceUp(t) \/ NotReady(t)
  <2>1. PICK label \in {"failed", "write", "device", "store"} : Goto(t, label)
    BY <1>1 DEF Begin, Ready, DeviceUp, NotReady
  <2>2. UNCHANGED session
    BY <1>1 DEF Begin, Ready, DeviceUp, NotReady
  <2>3. /\ thread'[t].pc \notin {"idle", "publish"} /\ thread'[t].cmd = thread[t].cmd
        /\ thread'[t].session = thread[t].session
        /\ \A u \in Threads \ {t} : thread'[u] = thread[u]
    BY <1>0, <2>1, GoesTo DEF Busy
  <2> QED BY <1>0, <2>2, <2>3, FollowedGoes
<1>2. CASE Write(t)
  <2>1. PICK a \in Addresses : thread' = [thread EXCEPT ![t].pc = "spawn", ![t].address = a]
    BY <1>2, AddressesAreThere DEF Write, TypeOK, EngineTypes
  <2>2. /\ thread'[t].pc = "spawn" /\ thread'[t].cmd = thread[t].cmd
        /\ thread'[t].session = thread[t].session
        /\ \A u \in Threads \ {t} : thread'[u] = thread[u]
    BY <1>0, <2>1, TakesAddress DEF Busy
  <2> QED BY <1>0, <1>2, <2>2, FollowedGoes DEF Write
<1>3. CASE Spawn(t)
  <2>1. /\ thread'[t].pc \in {"failed", "ready"} /\ thread'[t].cmd = thread[t].cmd
        /\ thread'[t].session = thread[t].session
        /\ \A u \in Threads \ {t} : thread'[u] = thread[u]
    <3>1. CASE Goto(t, "failed")
      BY <1>0, <3>1, GoesTo DEF Busy
    <3>2. ASSUME NEW p \in Procs, thread' = [thread EXCEPT ![t].pc = "ready", ![t].proc = p]
          PROVE  /\ thread'[t].pc \in {"failed", "ready"} /\ thread'[t].cmd = thread[t].cmd
                 /\ thread'[t].session = thread[t].session
                 /\ \A u \in Threads \ {t} : thread'[u] = thread[u]
      BY <1>0, <3>2, TakesProc DEF Busy
    <3> QED BY <1>3, <3>1, <3>2 DEF Spawn
  <2> QED BY <1>0, <1>3, <2>1, FollowedGoes DEF Spawn
<1>4. CASE Store(t)
  <2>1. /\ thread'[t].pc = "publish" /\ thread'[t].cmd = thread[t].cmd
        /\ thread'[t].session = thread[t].session /\ thread'[t].proc = thread[t].proc
        /\ thread'[t].address = thread[t].address
        /\ \A u \in Threads \ {t} : thread'[u] = thread[u]
    BY <1>0, <1>4, GoesTo DEF Store, Busy
  <2>2. thread[t].proc # 0 /\ slot'.address = thread[t].address /\ UNCHANGED session
    BY <1>4, ProcsAreNumbers DEF Store, At, Carrying, TypeOK, EngineTypes
  <2> QED BY <1>0, <2>1, <2>2, FollowedGoes
<1>5. CASE Publish(t)
  <2>1. \A u \in Threads : thread'[u].pc = "idle"
    <3>1. thread'[t] = Idle /\ \A u \in Threads \ {t} : thread'[u] = thread[u]
      BY <1>5, Leaving DEF Publish
    <3> QED BY <1>0, <3>1, AloneAtWork DEF Idle
  <2>2. UNCHANGED <<session, slot>> /\ At(t, "publish") /\ thread[t].cmd \in {"connect", "command"}
    BY <1>5, ThreadKinds DEF Publish, At, Starts
  <2>3. ASSUME Running, door' # NoShare PROVE share'[door'].target = slot.address
    BY <1>5, <2>2, <2>3, Publishes DEF Followed
  <2>4. ASSUME Running, session.on, session.proxy PROVE route' = slot.address
    <3>1. CASE thread[t].cmd = "connect"
      <4>1. thread[t].session.proxy
        BY <2>2, <2>4, <3>1 DEF Followed, At
      <4> QED BY <1>5, <2>2, <2>4, <3>1, <4>1, Publishes DEF Followed
    <3>2. CASE thread[t].cmd = "command"
      BY <1>5, <2>2, <2>4, <3>2, Publishes DEF Followed
    <3> QED BY <2>2, <3>1, <3>2
  <2>5. FollowsTheEngine'
    BY <2>2, <2>3, <2>4 DEF FollowsTheEngine, Running, Open
  <2> QED BY <2>1, <2>5, FollowedRests
<1>6. CASE Failed(t)
  <2>1. slot' = NoSlot
    BY <1>6 DEF Failed, At, InHands, Empty
  <2>2. CASE Leave(t)
    <3>1. thread'[t] = Idle /\ \A u \in Threads \ {t} : thread'[u] = thread[u]
      BY <2>2, Leaving
    <3>2. \A u \in Threads : thread'[u].pc = "idle"
      BY <1>0, <3>1, AloneAtWork DEF Idle
    <3> QED BY <2>1, <3>2, FollowedRests DEF FollowsTheEngine, Running
  <2>3. CASE thread' = [thread EXCEPT ![t].pc = "publish", ![t].proc = 0] /\ UNCHANGED session
    <3>1. /\ thread'[t].pc = "publish" /\ thread'[t].cmd = thread[t].cmd
          /\ thread'[t].session = thread[t].session
          /\ \A u \in Threads \ {t} : thread'[u] = thread[u]
      BY <1>0, <2>3, TakesProc DEF Busy
    <3> QED BY <1>0, <2>1, <2>3, <3>1, FollowedGoes
  <2> QED BY <1>6, <2>2, <2>3 DEF Failed
<1> QED BY <1>1, <1>2, <1>3, <1>4, <1>5, <1>6 DEF Step

\* A command that stops the engine leaves nothing to follow, and one that starts it
\* publishes in the end.
LEMMA FollowedCommand ==
  ASSUME TypeOK, Followed, Serial, NEW t \in Threads,
         Connect(t) \/ Reconnect(t) \/ SetChain(t) \/ SetFullTunnel(t) \/ SetLanShare(t)
  PROVE  Followed'
<1>1. CASE SetLanShare(t)
  <2>1. /\ Quiet /\ UNCHANGED <<slot, route, thread>>
        /\ session'.on <=> session.on
        /\ session.on => session'.proxy = session.proxy
        /\ Running /\ door' # NoShare =>
             share'[door'].target = slot.address \/ UNCHANGED doorVars
    BY <1>1, SharesOpen, CommandsAlone
  <2>2. \A u \in Threads : thread'[u].pc = "idle"
    BY <2>1 DEF Quiet, At
  <2>3. FollowsTheEngine
    BY DEF Followed
  <2>4. FollowsTheEngine'
    BY <2>1, <2>2, <2>3 DEF FollowsTheEngine, Running, Open, Quiet, At, doorVars
  <2> QED BY <2>2, <2>4, FollowedRests
<1>2. CASE Connect(t) \/ Reconnect(t) \/ SetChain(t) \/ SetFullTunnel(t)
  <2>1. Begun(t) /\ Quiet
    BY <1>2, Commands, CommandsAlone
  <2>2. CASE Stopped /\ UNCHANGED thread
    BY <2>1, <2>2, FollowedRests DEF Stopped, Quiet, At, FollowsTheEngine, Running
  <2>3. CASE thread'[t].pc \in {"begin", "publish"}
    <3>1. /\ thread'[t].proc = 0 /\ (thread'[t].cmd = "connect" => thread'[t].session = session')
          /\ thread'[t].pc = "publish" => thread'[t].cmd = "connect" \/ slot' = NoSlot
          /\ \A u \in Threads \ {t} : thread'[u].pc = "idle"
      BY <2>1, <2>3 DEF Begun, Stopped, Quiet, At
    <3> QED BY <2>3, <3>1 DEF Followed, FollowsTheEngine, Quiet, At, Running
  <2> QED BY <2>1, <2>2, <2>3 DEF Begun
<1> QED BY <1>1, <1>2

\* Every step keeps it.
LEMMA FollowedStep == Serial /\ TypeOK /\ InHands /\ Followed /\ [Next]_vars => Followed'
<1> SUFFICES ASSUME Serial, TypeOK, InHands, Followed, [Next]_vars PROVE Followed'
  OBVIOUS
<1>1. CASE Disconnect
  <2>1. slot' = NoSlot /\ session' = Off
    BY <1>1 DEF Disconnect, Stopped
  <2>2. ~session'.on
    BY <2>1 DEF Off
  <2> QED BY <2>1, <2>2 DEF Followed, FollowsTheEngine, Running
<1>2. ASSUME NEW p \in Procs, Load(p) \/ Dies(p) PROVE Followed'
  <2>1. UNCHANGED <<session, slot, route, thread, doorVars>>
    BY <1>2 DEF Load, Dies
  <2> QED BY <2>1 DEF Followed, FollowsTheEngine, Running, Open, Quiet, At, doorVars
<1>3. CASE DoorStep /\ UNCHANGED routingVars
  <2>1. UNCHANGED <<session, slot, route, thread>>
    BY <1>3 DEF routingVars
  <2>2. door' = door /\ (Open => share'[door].target = share[door].target)
    BY <1>3, DoorSteps DEF TypeOK
  <2> QED BY <2>1, <2>2 DEF Followed, FollowsTheEngine, Running, Open, Quiet, At
<1>4. CASE UNCHANGED vars
  BY <1>4 DEF Followed, FollowsTheEngine, Running, Open, Quiet, At, vars, routingVars, doorVars
<1> QED BY <1>1, <1>2, <1>3, <1>4, FollowedStart, FollowedCommand DEF Next

\* When nothing is being started, the door leads to where the held engine listens, and so
\* does the proxy of a session that wants one, however they were switched, shared, restarted
\* and disconnected before.
THEOREM DoorAndProxyFollow == Serial => (Spec => []FollowsTheEngine)
<1> SUFFICES ASSUME Serial PROVE Spec => []FollowsTheEngine
  OBVIOUS
<1>1. Init => InHands /\ Followed
  BY DEF Init, InHands, Followed, FollowsTheEngine, Running, At, Idle, Empty, Live, UnbornProc,
         Carrying, NoSlot
<1>2. TypeOK /\ InHands /\ Followed /\ [Next]_vars => InHands' /\ Followed'
  BY HandsStep, FollowedStep
<1>3. Followed => FollowsTheEngine
  BY DEF Followed
<1> QED BY InitTypes, TypeStep, <1>1, <1>2, <1>3, PTL DEF Spec

(***************************************************************************)
(* Nobody passes the door without its sign-in.                             *)
(***************************************************************************)
\* Only the door's own threads serve clients, and no step takes a sign-in off a share.
LEMMA SharesKeep ==
  ASSUME TypeOK, [Next]_vars
  PROVE  Keeps /\ (UNCHANGED client \/ DoorStep)
<1>0. ASSUME UNCHANGED doorVars PROVE Keeps /\ UNCHANGED client
  BY <1>0 DEF doorVars, Keeps
<1>1. ASSUME NEW t \in Threads, Publish(t) PROVE Keeps /\ UNCHANGED client
  <2>1. UNCHANGED client
    BY <1>1 DEF Publish, PublishConnection, PublishCommand, DoorAt, OpenDoor, Retarget, doorVars
  <2> QED BY <1>1, <2>1, Publishes
<1>2. ASSUME NEW t \in Threads, Step(t), ~Publish(t) PROVE Keeps /\ UNCHANGED client
  BY <1>0, <1>2 DEF Step, Begin, Write, Spawn, Ready, DeviceUp, NotReady, Store, Failed
<1>3. ASSUME NEW t \in Threads, Connect(t) \/ Reconnect(t) \/ SetChain(t) \/ SetFullTunnel(t)
      PROVE  Keeps /\ UNCHANGED client
  BY <1>0, <1>3, Commands
<1>4. ASSUME NEW t \in Threads, SetLanShare(t) PROVE Keeps /\ UNCHANGED client
  <2>1. UNCHANGED client
    BY <1>4 DEF SetLanShare, OpenDoor, CloseDoor, doorVars
  <2> QED BY <1>4, <2>1, SharesOpen
<1>5. CASE Disconnect
  BY <1>5, Closes DEF Disconnect, CloseDoor, TypeOK
<1>6. ASSUME NEW p \in Procs, Load(p) \/ Dies(p) PROVE Keeps /\ UNCHANGED client
  BY <1>0, <1>6 DEF Load, Dies
<1>7. CASE DoorStep
  BY <1>7, DoorSteps DEF TypeOK
<1>8. CASE UNCHANGED vars
  BY <1>0, <1>8 DEF vars
<1> QED BY <1>1, <1>2, <1>3, <1>4, <1>5, <1>6, <1>7, <1>8 DEF Next

\* A client is carried only when it has the sign-in of the share it came through.
LEMMA SignedStep == TypeOK /\ SignedIn /\ [Next]_vars => SignedIn'
<1> SUFFICES ASSUME TypeOK, SignedIn, [Next]_vars PROVE SignedIn'
  OBVIOUS
<1>1. Keeps /\ DoorTypes
  BY SharesKeep DEF TypeOK
<1>2. \A c \in Clients : client[c].state \in {"accepted", "carried"} =>
        /\ client[c].share \in Shares
        /\ share'[client[c].share].login = share[client[c].share].login
  BY <1>1 DEF DoorTypes, Inside, Keeps
<1>3. CASE UNCHANGED client
  BY <1>2, <1>3 DEF SignedIn
<1>4. ASSUME NEW s \in Shares, NEW c \in Clients, Accept(s, c) PROVE SignedIn'
  <2>1. client'[c].state = "accepted" /\ \A d \in Clients \ {c} : client'[d] = client[d]
    BY <1>1, <1>4 DEF Accept, DoorTypes
  <2> QED BY <1>2, <2>1 DEF SignedIn
<1>5. ASSUME NEW c \in Clients, Serve(c, Answering) PROVE SignedIn'
  <2> DEFINE login == share[client[c].share].login
  <2>1. \A d \in Clients \ {c} : client'[d] = client[d]
    BY <1>1, <1>5 DEF Serve, DoorTypes
  <2>2. refused(client[c].hello, login) = "no" => login \in {"", client[c].hello.login}
    BY DEF refused, signed_in
  <2>3. ASSUME client'[c].state = "carried"
        PROVE  /\ client'[c].share = client[c].share /\ client'[c].hello = client[c].hello
               /\ refused(client[c].hello, login) = "no"
    BY <1>1, <1>5, <2>3 DEF Serve, DoorTypes
  <2>4. client[c].state = "accepted"
    BY <1>5 DEF Serve
  <2>5. client'[c].state = "carried" =>
          share'[client'[c].share].login \in {"", client'[c].hello.login}
    BY <1>2, <2>2, <2>3, <2>4
  <2>6. \A d \in Clients \ {c} : client'[d].state = "carried" =>
          share'[client'[d].share].login \in {"", client'[d].hello.login}
    BY <1>2, <2>1 DEF SignedIn
  <2> QED BY <2>5, <2>6 DEF SignedIn
<1>6. ASSUME NEW c \in Clients, Leaves(c) PROVE SignedIn'
  <2>1. client'[c].state = "outside" /\ \A d \in Clients \ {c} : client'[d] = client[d]
    BY <1>1, <1>6 DEF Leaves, DoorTypes, Outside
  <2> QED BY <1>2, <2>1 DEF SignedIn
<1>7. ASSUME NEW s \in Shares, AcceptEnds(s) PROVE SignedIn'
  BY <1>3, <1>7 DEF AcceptEnds
<1> QED BY <1>3, <1>4, <1>5, <1>6, <1>7, SharesKeep DEF DoorStep

\* Whoever is carried through a share that wants a sign-in has given it, for any shares,
\* sign-ins and devices, and while the door is moved, replaced and closed.
THEOREM NobodyPassesUnsigned == Spec => []SignedIn
<1>1. Init => SignedIn
  <2>1. Init => \A c \in Clients : client[c].state = "outside"
    BY DEF Init, DoorInit, Outside
  <2> QED BY <2>1 DEF SignedIn
<1> QED BY InitTypes, TypeStep, SignedStep, <1>1, PTL DEF Spec

(***************************************************************************)
(* The rules: the first one that a flow passes decides.                    *)
(***************************************************************************)
Targets == Kinds \union {"direct", "reject", "exit"}
Tests == {<<"match">>, <<"net", "udp">>} \union {<<"to", x>> : x \in {"gateway", "local", "iran"}}
         \union {<<"process", k>> : k \in Kinds}
Rules == {Rule(test, target) : test \in Tests, target \in Targets}
Misses(rules, flow) == \A i \in 1 .. Len(rules) : ~Passes(flow, rules[i].test)

\* The verdict is that of the first rule that the flow passes.
LEMMA FirstDecides ==
  ASSUME NEW S, NEW rules \in Seq(S), NEW flow, NEW k \in 1 .. Len(rules),
         Passes(flow, rules[k].test),
         \A j \in 1 .. Len(rules) : Passes(flow, rules[j].test) => k <= j
  PROVE  Verdict(rules, flow) = rules[k].target
<1> DEFINE passing == {i \in DOMAIN rules : Passes(flow, rules[i].test)}
<1>1. DOMAIN rules = 1 .. Len(rules) /\ Len(rules) \in Nat
  OBVIOUS
<1>2. k \in passing /\ \A j \in passing : k <= j
  BY <1>1
<1>3. \A i \in passing : (\A j \in passing : i <= j) => i = k
  BY <1>1, <1>2
<1>4. (CHOOSE i \in passing : \A j \in passing : i <= j) = k
  BY <1>2, <1>3
<1> QED BY <1>4 DEF Verdict

\* A rule after rules that the flow misses decides, whatever comes next.
LEMMA RuleDecides ==
  ASSUME NEW before \in Seq(Rules), NEW after \in Seq(Rules), NEW r \in Rules, NEW flow,
         Misses(before, flow), Passes(flow, r.test)
  PROVE  /\ Verdict((before \o <<r>>) \o after, flow) = r.target
         /\ Verdict(before \o <<r>>, flow) = r.target
<1> DEFINE k == Len(before) + 1
<1> DEFINE short == before \o <<r>>
<1> DEFINE long == short \o after
<1>1. /\ short \in Seq(Rules) /\ Len(short) = k /\ short[k] = r
      /\ \A j \in 1 .. Len(before) : short[j] = before[j]
  OBVIOUS
<1>2. /\ long \in Seq(Rules) /\ Len(long) >= k /\ long[k] = r
      /\ \A j \in 1 .. Len(before) : long[j] = before[j]
  BY <1>1
<1>3. k \in Nat /\ Len(before) \in Nat /\ Len(long) \in Nat
  BY <1>2
<1> HIDE DEF short, long
<1>4. \A j \in 1 .. Len(short) : Passes(flow, short[j].test) => k <= j
  BY <1>1, <1>3 DEF Misses
<1>5. Verdict(short, flow) = short[k].target
  <2>1. k \in 1 .. Len(short) /\ Passes(flow, short[k].test)
    BY <1>1, <1>3
  <2> QED BY <1>1, <1>4, <2>1, FirstDecides
<1>6. \A j \in 1 .. Len(long) : Passes(flow, long[j].test) => k <= j
  BY <1>2, <1>3 DEF Misses
<1>7. Verdict(long, flow) = long[k].target
  <2>1. k \in 1 .. Len(long) /\ Passes(flow, long[k].test)
    BY <1>2, <1>3
  <2> QED BY <1>2, <1>6, <2>1, FirstDecides
<1> QED BY <1>1, <1>2, <1>5, <1>7 DEF short, long

\* What a flow misses in two lists it misses in both together.
LEMMA MissesBoth ==
  ASSUME NEW S, NEW a \in Seq(S), NEW b \in Seq(S), NEW flow, Misses(a, flow), Misses(b, flow)
  PROVE  a \o b \in Seq(S) /\ Misses(a \o b, flow)
<1>1. a \o b \in Seq(S) /\ Len(a \o b) = Len(a) + Len(b)
  OBVIOUS
<1>2. ASSUME NEW i \in 1 .. Len(a \o b) PROVE ~Passes(flow, (a \o b)[i].test)
  <2>1. CASE i \in 1 .. Len(a)
    BY <2>1 DEF Misses
  <2>2. CASE i \notin 1 .. Len(a)
    <3>1. i - Len(a) \in 1 .. Len(b) /\ (a \o b)[i] = b[i - Len(a)]
      BY <1>1, <2>2
    <3> QED BY <3>1 DEF Misses
  <2> QED BY <2>1, <2>2
<1> QED BY <1>1, <1>2 DEF Misses

\* A chain is one carrier, or two.
LEMMA ChainsAre ==
  ASSUME NEW h \in Chains
  PROVE  \/ \E k \in Kinds : h = <<k>>
         \/ \E k, l \in Kinds : h = <<k, l>>
BY DEF Chains

\* A chain that carriers make up has one hop or two, of the kinds there are.
LEMMA ChainParts ==
  ASSUME NEW h \in Chains
  PROVE  /\ Len(h) \in 1 .. 2 /\ h \in Seq(Kinds) /\ h # << >>
         /\ \A i \in 1 .. Len(h) : h[i] \in Kinds
         /\ HopSet(h) = {h[i] : i \in 1 .. Len(h)} /\ LastHop(h) \in Kinds
<1>1. ASSUME NEW k \in Kinds, h = <<k>>
      PROVE  Len(h) \in 1 .. 2 /\ h \in Seq(Kinds) /\ h # << >>
  BY <1>1
<1>2. ASSUME NEW k \in Kinds, NEW l \in Kinds, h = <<k, l>>
      PROVE  Len(h) \in 1 .. 2 /\ h \in Seq(Kinds) /\ h # << >>
  BY <1>2
<1>3. Len(h) \in 1 .. 2 /\ h \in Seq(Kinds) /\ h # << >>
  BY <1>1, <1>2, ChainsAre
<1>4. DOMAIN h = 1 .. Len(h) /\ \A i \in 1 .. Len(h) : h[i] \in Kinds
  BY <1>3
<1> QED BY <1>3, <1>4 DEF HopSet, LastHop

\* Each kind of rule is one, and passes what it is for.
LEMMA RulesPass ==
  /\ \A k \in Kinds : Rule(<<"process", k>>, "direct") \in Rules
  /\ \A x \in {"gateway", "local", "iran"} : Rule(<<"to", x>>, "direct") \in Rules
  /\ Rule(<<"net", "udp">>, "reject") \in Rules
  /\ \A y \in Targets : Rule(<<"match">>, y) \in Rules
  /\ \A f \in Flows :
       /\ \A k \in Kinds : Passes(f, <<"process", k>>) <=> f.process = k
       /\ \A x \in {"gateway", "local", "iran"} : Passes(f, <<"to", x>>) <=> f.to = x
       /\ Passes(f, <<"net", "udp">>) <=> f.net = "udp"
       /\ Passes(f, <<"match">>)
  /\ \A test, target : Rule(test, target).test = test /\ Rule(test, target).target = target
<1>1. /\ \A k \in Kinds : Rule(<<"process", k>>, "direct") \in Rules
      /\ \A x \in {"gateway", "local", "iran"} : Rule(<<"to", x>>, "direct") \in Rules
      /\ Rule(<<"net", "udp">>, "reject") \in Rules
      /\ \A y \in Targets : Rule(<<"match">>, y) \in Rules
  BY DEF Rules, Tests, Targets
<1>2. ASSUME NEW f \in Flows
      PROVE  /\ \A k \in Kinds : Passes(f, <<"process", k>>) <=> f.process = k
             /\ \A x \in {"gateway", "local", "iran"} : Passes(f, <<"to", x>>) <=> f.to = x
             /\ Passes(f, <<"net", "udp">>) <=> f.net = "udp"
             /\ Passes(f, <<"match">>)
  <2>1. \A k \in Kinds : Passes(f, <<"process", k>>) <=> f.process = k
    BY DEF Passes
  <2>2. \A x \in {"gateway", "local", "iran"} : Passes(f, <<"to", x>>) <=> f.to = x
    BY DEF Passes
  <2>3. Passes(f, <<"net", "udp">>) <=> f.net = "udp"
    BY DEF Passes
  <2>4. Passes(f, <<"match">>)
    BY DEF Passes
  <2> QED BY <2>1, <2>2, <2>3, <2>4
<1>3. \A test, target : Rule(test, target).test = test /\ Rule(test, target).target = target
  BY DEF Rule
<1> QED BY <1>1, <1>2, <1>3

\* The rules of the carriers' own packets: one for each hop, in order, and the gateway's.
LEMMA ProcessRules ==
  ASSUME NEW c \in Requests
  PROVE  /\ process_rules(c) \in Seq(Rules) /\ Len(process_rules(c)) >= Len(c.hops)
         /\ \A i \in 1 .. Len(c.hops) : process_rules(c)[i] = Rule(<<"process", c.hops[i]>>, "direct")
         /\ \A f \in Flows : f.process = "application" /\ f.to = "outside" =>
              Misses(process_rules(c), f)
<1> DEFINE own == [i \in 1 .. Len(c.hops) |-> Rule(<<"process", c.hops[i]>>, "direct")]
<1> DEFINE gateway == If(c.hops # << >> /\ c.hops[1] = "aether", <<Rule(<<"to", "gateway">>, "direct")>>)
<1>1. c.hops \in Seq(Kinds) /\ Len(c.hops) \in Nat /\ \A i \in 1 .. Len(c.hops) : c.hops[i] \in Kinds
  <2>1. c.hops \in Chains \union {<< >>}
    BY DEF Requests
  <2>2. CASE c.hops \in Chains
    BY <2>2, ChainParts
  <2>3. CASE c.hops = << >>
    BY <2>3
  <2> QED BY <2>1, <2>2, <2>3
<1>2. own \in Seq(Rules) /\ Len(own) = Len(c.hops)
  BY <1>1, RulesPass
<1>3. gateway \in Seq(Rules)
  BY RulesPass DEF If
<1>4. ASSUME NEW f \in Flows, f.process = "application", f.to = "outside"
      PROVE  Misses(own, f) /\ Misses(gateway, f)
  <2>1. Misses(own, f)
    <3>1. \A i \in 1 .. Len(c.hops) : own[i].test = <<"process", c.hops[i]>>
      BY RulesPass
    <3>2. "application" \notin Kinds
      BY DEF Kinds
    <3> HIDE DEF own
    <3> QED BY <1>1, <1>2, <1>4, <3>1, <3>2, RulesPass DEF Misses
  <2>2. Misses(gateway, f)
    BY <1>4, RulesPass DEF Misses, If
  <2> QED BY <2>1, <2>2
<1>5. process_rules(c) = own \o gateway
  BY DEF process_rules
<1> HIDE DEF gateway
<1>6. \A i \in 1 .. Len(c.hops) : own[i] = Rule(<<"process", c.hops[i]>>, "direct")
  OBVIOUS
<1> HIDE DEF own
<1>7. /\ own \o gateway \in Seq(Rules) /\ Len(own \o gateway) >= Len(own)
      /\ \A i \in 1 .. Len(own) : (own \o gateway)[i] = own[i]
  BY <1>1, <1>2, <1>3
<1> QED BY <1>2, <1>3, <1>4, <1>5, <1>6, <1>7, MissesBoth

\* The rest of the rules, and what a request that nobody refuses sends the last flow to.
Middle(c) == If(c.tun, process_rules(c)) \o local_rules \o If(c.iran, iran_rules)

\* No rule in the middle catches an application's own traffic to the outside.
LEMMA MiddleMisses ==
  ASSUME NEW c \in Requests, NEW f \in Flows, f.process = "application", f.to = "outside"
  PROVE  Middle(c) \in Seq(Rules) /\ Misses(Middle(c), f)
<1>1. If(c.tun, process_rules(c)) \in Seq(Rules) /\ Misses(If(c.tun, process_rules(c)), f)
  BY ProcessRules DEF If, Misses
<1>2. local_rules \in Seq(Rules) /\ Misses(local_rules, f)
  BY RulesPass DEF local_rules, Misses
<1>3. If(c.iran, iran_rules) \in Seq(Rules) /\ Misses(If(c.iran, iran_rules), f)
  BY RulesPass DEF iran_rules, If, Misses
<1> QED BY <1>1, <1>2, <1>3, MissesBoth DEF Middle

\* The catch-all of a sound request never sends anything out directly.
LEMMA CatchAllCarries ==
  ASSUME NEW c, Sound(c)
  PROVE  catch_all(c) \in Targets /\ catch_all(c) # "direct"
<1>1. c \in Requests /\ ~Refused(c)
  BY DEF Sound
<1>2. CASE c.exit
  BY <1>2 DEF catch_all, Targets
<1>3. CASE ~c.exit /\ c.hops # << >>
  <2>1. LastHop(c.hops) \in Kinds
    BY <1>1, <1>3, ChainParts DEF Requests
  <2> QED BY <1>3, <2>1 DEF catch_all, Targets, Kinds
<1>4. CASE ~c.exit /\ c.hops = << >>
  BY <1>1, <1>4 DEF Refused, engine_is_wanted
<1> QED BY <1>2, <1>3, <1>4

\* Where a soundly asked engine sends a flow: see RulesAreSound.
Sends(c) ==
  \A f \in Flows :
    /\ c.tun /\ f.process \in HopSet(c.hops) => Verdict(render(c), f) = "direct"
    /\ f.process = "application" /\ f.to = "outside" =>
         /\ Verdict(render(c), f) # "direct"
         /\ f.net = "udp" /\ c.hops # << >> /\ ~carries_udp(c.hops) =>
              Verdict(render(c), f) = "reject"

\* The rules of a request that start does not refuse neither loop nor leak.
LEMMA RulesHold ==
  ASSUME NEW c, Sound(c)
  PROVE  Sends(c)
<1> DEFINE blocked == c.hops # << >> /\ ~carries_udp(c.hops)
<1> DEFINE udp == If(blocked, udp_rules)
<1> DEFINE last == Rule(<<"match">>, catch_all(c))
<1>1. c \in Requests /\ catch_all(c) \in Targets /\ catch_all(c) # "direct"
  BY CatchAllCarries DEF Sound
<1>2. render(c) = (Middle(c) \o udp) \o <<last>>
  BY DEF render, Middle
<1>3. udp \in Seq(Rules) /\ last \in Rules /\ last.test = <<"match">> /\ last.target = catch_all(c)
  BY <1>1, RulesPass DEF If, udp_rules
<1>4. ASSUME NEW f \in Flows, c.tun, f.process \in HopSet(c.hops)
      PROVE  Verdict(render(c), f) = "direct"
  <2> DEFINE own == process_rules(c)
  <2>1. /\ own \in Seq(Rules) /\ Len(own) >= Len(c.hops)
        /\ \A i \in 1 .. Len(c.hops) : own[i] = Rule(<<"process", c.hops[i]>>, "direct")
    BY <1>1, ProcessRules
  <2>2. c.hops \in Chains
    BY <1>1, <1>4 DEF Requests, HopSet
  <2>3. /\ Len(c.hops) \in 1 .. 2 /\ \A i \in 1 .. Len(c.hops) : c.hops[i] \in Kinds
        /\ \E i \in 1 .. Len(c.hops) : c.hops[i] = f.process
    BY <1>4, <2>2, ChainParts
  <2>4. /\ render(c) \in Seq(Rules) /\ Len(render(c)) >= Len(own)
        /\ \A i \in 1 .. Len(own) : render(c)[i] = own[i]
    <3> DEFINE a == own \o local_rules
    <3> DEFINE b == a \o If(c.iran, iran_rules)
    <3> DEFINE d == b \o udp
    <3> DEFINE e == d \o <<last>>
    <3>1. local_rules \in Seq(Rules) /\ If(c.iran, iran_rules) \in Seq(Rules) /\ <<last>> \in Seq(Rules)
      BY <1>3, RulesPass DEF local_rules, iran_rules, If
    <3>2. \A x, y \in Seq(Rules) : /\ x \o y \in Seq(Rules) /\ Len(x \o y) >= Len(x)
                                   /\ \A i \in 1 .. Len(x) : (x \o y)[i] = x[i]
      OBVIOUS
    <3>3. render(c) = e
      BY <1>2, <1>4 DEF Middle, If
    <3>4. a \in Seq(Rules) /\ Len(a) >= Len(own) /\ \A i \in 1 .. Len(own) : a[i] = own[i]
      BY <2>1, <3>1, <3>2
    <3>5. b \in Seq(Rules) /\ Len(b) >= Len(a) /\ \A i \in 1 .. Len(a) : b[i] = a[i]
      BY <3>1, <3>2, <3>4
    <3>6. d \in Seq(Rules) /\ Len(d) >= Len(b) /\ \A i \in 1 .. Len(b) : d[i] = b[i]
      BY <1>3, <3>2, <3>5
    <3>7. e \in Seq(Rules) /\ Len(e) >= Len(d) /\ \A i \in 1 .. Len(d) : e[i] = d[i]
      BY <3>1, <3>2, <3>6
    <3> HIDE DEF a, b, d, e, own
    <3>8. Len(own) \in Nat /\ Len(a) \in Nat /\ Len(b) \in Nat /\ Len(d) \in Nat /\ Len(e) \in Nat
      BY <2>1, <3>4, <3>5, <3>6, <3>7
    <3>9. Len(e) >= Len(own) /\ Len(own) <= Len(a) /\ Len(a) <= Len(b) /\ Len(b) <= Len(d)
      BY <3>4, <3>5, <3>6, <3>7, <3>8
    <3>10. ASSUME NEW i \in 1 .. Len(own) PROVE e[i] = own[i]
      <4>1. i \in 1 .. Len(a) /\ i \in 1 .. Len(b) /\ i \in 1 .. Len(d)
        BY <3>8, <3>9
      <4> QED BY <4>1, <3>4, <3>5, <3>6, <3>7
    <3> QED BY <3>3, <3>7, <3>9, <3>10
  <2> HIDE DEF own
  <2>5. \A i \in 1 .. Len(c.hops) :
          /\ i \in 1 .. Len(render(c)) /\ render(c)[i].target = "direct"
          /\ Passes(f, render(c)[i].test) <=> f.process = c.hops[i]
    <3> SUFFICES ASSUME NEW i \in 1 .. Len(c.hops)
                 PROVE  /\ i \in 1 .. Len(render(c)) /\ render(c)[i].target = "direct"
                        /\ Passes(f, render(c)[i].test) <=> f.process = c.hops[i]
      OBVIOUS
    <3>1. Len(own) \in Nat /\ Len(render(c)) \in Nat
      BY <2>1, <2>4
    <3>2. i \in 1 .. Len(own) /\ i \in 1 .. Len(render(c)) /\ c.hops[i] \in Kinds
      BY <2>1, <2>3, <2>4, <3>1
    <3>3. render(c)[i] = Rule(<<"process", c.hops[i]>>, "direct")
      BY <2>1, <2>4, <3>2
    <3> QED BY <3>2, <3>3, RulesPass
  <2>6. PICK k \in 1 .. Len(c.hops) :
          f.process = c.hops[k] /\ \A j \in 1 .. Len(c.hops) : f.process = c.hops[j] => k <= j
    BY <2>3
  <2> HIDE DEF blocked, udp, last
  <2>7. render(c) \in Seq(Rules) /\ Len(render(c)) \in Nat /\ Len(c.hops) \in Nat /\ k \in Nat
    BY <2>3, <2>4
  <2>8. ASSUME NEW j \in 1 .. Len(render(c)), Passes(f, render(c)[j].test) PROVE k <= j
    <3>1. CASE j \in 1 .. Len(c.hops)
      BY <2>5, <2>6, <2>8, <3>1
    <3>2. CASE j \notin 1 .. Len(c.hops)
      BY <2>7, <3>2
    <3> QED BY <3>1, <3>2
  <2>9. /\ k \in 1 .. Len(render(c)) /\ Passes(f, render(c)[k].test)
        /\ render(c)[k].target = "direct"
    BY <2>5, <2>6
  <2>10. Verdict(render(c), f) = render(c)[k].target
    BY <2>7, <2>8, <2>9, FirstDecides
  <2> QED BY <2>9, <2>10
<1>5. ASSUME NEW f \in Flows, f.process = "application", f.to = "outside"
      PROVE  /\ Verdict(render(c), f) # "direct"
             /\ f.net = "udp" /\ blocked => Verdict(render(c), f) = "reject"
  <2>1. Middle(c) \in Seq(Rules) /\ Misses(Middle(c), f)
    BY <1>1, <1>5, MiddleMisses
  <2>2. CASE f.net = "udp" /\ blocked
    <3> DEFINE refuse == Rule(<<"net", "udp">>, "reject")
    <3>1. udp = <<refuse>> /\ <<last>> \in Seq(Rules)
      BY <1>3, <2>2 DEF If, udp_rules
    <3>2. refuse \in Rules /\ refuse.target = "reject" /\ Passes(f, refuse.test)
      BY <2>2, RulesPass
    <3> HIDE DEF refuse, udp, last
    <3>3. Verdict((Middle(c) \o <<refuse>>) \o <<last>>, f) = refuse.target
      BY <2>1, <3>1, <3>2, RuleDecides
    <3> QED BY <1>2, <3>1, <3>2, <3>3
  <2>3. CASE ~(f.net = "udp" /\ blocked)
    <3>1. Misses(udp, f)
      BY <2>3, RulesPass DEF If, udp_rules, Misses
    <3> HIDE DEF udp, last
    <3>2. Middle(c) \o udp \in Seq(Rules) /\ Misses(Middle(c) \o udp, f)
      BY <1>3, <2>1, <3>1, MissesBoth
    <3> DEFINE before == Middle(c) \o udp
    <3>3. /\ before \in Seq(Rules) /\ Misses(before, f) /\ Passes(f, last.test)
          /\ << >> \in Seq(Rules)
      BY <1>3, <3>2, RulesPass
    <3> HIDE DEF before
    <3>4. Verdict(before \o <<last>>, f) = last.target
      BY <1>3, <3>3, RuleDecides
    <3> QED BY <1>1, <1>2, <1>3, <2>3, <3>4 DEF before
  <2> QED BY <2>2, <2>3
<1> QED BY <1>4, <1>5 DEF Sends

(***************************************************************************)
(* Only such a request ever runs.                                          *)
(***************************************************************************)
\* A thread that moves on, with the engine and the disk as they are.
LEMMA ConfiguredGoes ==
  ASSUME TypeOK, Configured, NEW t \in Threads,
         \A u \in Threads \ {t} : thread'[u] = thread[u],
         thread'[t].pc = "write" => Sound(thread'[t].request),
         thread'[t].pc = "spawn" => Sound(disk'),
         disk' = disk \/ Sound(disk'),
         \A p \in Procs : engine'[p] = engine[p] \/ engine'[p].state = "dead"
                          \/ (engine'[p].state = "loading" /\ Sound(disk'))
  PROVE  Configured'
<1>2. \A u \in Threads : thread'[u].pc = "write" => Sound(thread'[u].request)
  BY DEF Configured, At, Request
<1>3. \A u \in Threads : thread'[u].pc = "spawn" => Sound(disk')
  BY DEF Configured, At
<1> QED BY <1>2, <1>3 DEF Configured, At, Request

\* A step of a start configures the engine by what it was asked for.
LEMMA ConfiguredStart ==
  ASSUME TypeOK, Configured, NEW t \in Threads, Step(t)
  PROVE  Configured'
<1>0. ~At(t, "idle")
  BY DEF Step, Begin, Write, Spawn, Ready, DeviceUp, NotReady, Store, Publish, Failed, At
<1>1. CASE Begin(t)
  <2>1. PICK label \in {"failed", "write"} :
          Goto(t, label) /\ (label = "write" => ~Refused(Request(t)))
    BY <1>1 DEF Begin
  <2>2. /\ thread'[t].pc = label /\ thread'[t].request = thread[t].request
        /\ \A u \in Threads \ {t} : thread'[u] = thread[u]
    BY <1>0, <2>1, GoesTo DEF Busy
  <2>3. thread[t].request \in Requests
    BY <1>0, ThreadKinds DEF Starts
  <2>4. \A p \in Procs : engine'[p] = engine[p] \/ engine'[p].state = "dead"
    BY <1>1, Stops DEF Begin
  <2>5. UNCHANGED disk
    BY <1>1 DEF Begin
  <2> QED BY <2>1, <2>2, <2>3, <2>4, <2>5, ConfiguredGoes DEF Sound, Request
<1>2. CASE Write(t)
  <2>1. PICK a \in Addresses : thread' = [thread EXCEPT ![t].pc = "spawn", ![t].address = a]
    BY <1>2, AddressesAreThere DEF Write, TypeOK, EngineTypes
  <2>2. thread'[t].pc = "spawn" /\ \A u \in Threads \ {t} : thread'[u] = thread[u]
    BY <1>0, <2>1, TakesAddress DEF Busy
  <2>3. Sound(disk') /\ UNCHANGED engine
    BY <1>2 DEF Write, Configured
  <2> QED BY <2>2, <2>3, ConfiguredGoes
<1>3. CASE Spawn(t)
  <2>1. CASE Goto(t, "failed") /\ UNCHANGED engine
    <3>1. thread'[t].pc = "failed" /\ \A u \in Threads \ {t} : thread'[u] = thread[u]
      BY <1>0, <2>1, GoesTo DEF Busy
    <3>2. UNCHANGED disk
      BY <1>3 DEF Spawn
    <3> QED BY <2>1, <3>1, <3>2, ConfiguredGoes
  <2>2. ASSUME NEW p \in Procs,
               engine' = [engine EXCEPT ![p] = [state |-> "loading", address |-> thread[t].address]],
               thread' = [thread EXCEPT ![t].pc = "ready", ![t].proc = p]
        PROVE  Configured'
    <3>1. thread'[t].pc = "ready" /\ \A u \in Threads \ {t} : thread'[u] = thread[u]
      BY <1>0, <2>2, TakesProc DEF Busy
    <3>2. UNCHANGED disk /\ Sound(disk)
      BY <1>3 DEF Spawn, Configured
    <3>3. \A q \in Procs : engine'[q] = engine[q] \/ engine'[q].state = "loading"
      BY <2>2 DEF TypeOK, EngineTypes
    <3> QED BY <3>1, <3>2, <3>3, ConfiguredGoes
  <2> QED BY <1>3, <2>1, <2>2 DEF Spawn
<1>4. CASE Ready(t) \/ DeviceUp(t) \/ NotReady(t) \/ Store(t)
  <2>1. PICK label \in {"device", "store", "failed", "publish"} : Goto(t, label)
    BY <1>4 DEF Ready, DeviceUp, NotReady, Store
  <2>2. thread'[t].pc = label /\ \A u \in Threads \ {t} : thread'[u] = thread[u]
    BY <1>0, <2>1, GoesTo DEF Busy
  <2>3. UNCHANGED disk /\ \A p \in Procs : engine'[p] = engine[p] \/ engine'[p].state = "dead"
    <3>1. CASE NotReady(t)
      <4>1. thread[t].proc \in Procs
        BY <3>1 DEF NotReady, At, Carrying, TypeOK, EngineTypes
      <4> QED BY <3>1, <4>1, Kills DEF NotReady
    <3>2. CASE Ready(t) \/ DeviceUp(t) \/ Store(t)
      BY <3>2 DEF Ready, DeviceUp, Store
    <3> QED BY <1>4, <3>1, <3>2
  <2> QED BY <2>2, <2>3, ConfiguredGoes
<1>5. CASE Publish(t) \/ Failed(t)
  <2>1. thread'[t].pc \in {"idle", "publish"} /\ \A u \in Threads \ {t} : thread'[u] = thread[u]
    <3>1. CASE Leave(t)
      BY <3>1, Leaving DEF Idle
    <3>2. CASE thread' = [thread EXCEPT ![t].pc = "publish", ![t].proc = 0]
      BY <1>0, <3>2, TakesProc DEF Busy
    <3> QED BY <1>5, <3>1, <3>2 DEF Failed, Publish
  <2>2. UNCHANGED <<disk, engine>>
    BY <1>5 DEF Publish, Failed
  <2> QED BY <2>1, <2>2, ConfiguredGoes
<1> QED BY <1>1, <1>2, <1>3, <1>4, <1>5 DEF Step

\* Every step keeps it: nothing is written that was refused, and what is loaded was written.
LEMMA ConfiguredStep == TypeOK /\ Configured /\ [Next]_vars => Configured'
<1> SUFFICES ASSUME TypeOK, Configured, [Next]_vars PROVE Configured'
  OBVIOUS
<1>1. ASSUME NEW t \in Threads,
             Connect(t) \/ Reconnect(t) \/ SetChain(t) \/ SetFullTunnel(t)
      PROVE  Configured'
  <2>1. Begun(t) /\ Command(t) /\ UNCHANGED disk
    BY <1>1, Commands
  <2>2. thread'[t].pc \in {"idle", "begin", "publish"} /\ \A u \in Threads \ {t} : thread'[u] = thread[u]
    BY <2>1 DEF Begun, Command, At
  <2>3. \A p \in Procs : engine'[p] = engine[p] \/ engine'[p].state = "dead"
    BY <2>1, Stops DEF Begun
  <2> QED BY <2>1, <2>2, <2>3, ConfiguredGoes
<1>2. ASSUME UNCHANGED <<disk, thread>>,
             \A p \in Procs : engine'[p] = engine[p] \/ engine'[p].state = "dead"
      PROVE  Configured'
  BY <1>2 DEF Configured, At, Request
<1>3. ASSUME NEW t \in Threads, SetLanShare(t) PROVE Configured'
  BY <1>2, <1>3 DEF SetLanShare
<1>4. CASE Disconnect
  BY <1>2, <1>4, Stops DEF Disconnect
<1>5. ASSUME NEW p \in Procs, Dies(p) PROVE Configured'
  <2>1. \A q \in Procs : engine'[q] = engine[q] \/ engine'[q].state = "dead"
    BY <1>5, ProcSteps
  <2> QED BY <1>2, <1>5, <2>1 DEF Dies
<1>6. ASSUME NEW p \in Procs, Load(p) PROVE Configured'
  <2>1. /\ engine[p].state = "loading" /\ engine'[p].state = "up" /\ engine'[p].config = disk
        /\ \A q \in Procs \ {p} : engine'[q] = engine[q]
    <3>1. PICK device \in BOOLEAN :
            /\ engine[p].state = "loading" /\ engine'[p] = Loaded(p, device)
            /\ \A q \in Procs \ {p} : engine'[q] = engine[q]
      BY <1>6, ProcSteps
    <3>2. Loaded(p, device).state = "up" /\ Loaded(p, device).config = disk
      BY DEF Loaded
    <3> QED BY <3>1, <3>2
  <2>2. UNCHANGED <<disk, thread>>
    BY <1>6 DEF Load
  <2> QED BY <2>1, <2>2 DEF Configured, At, Request
<1>7. CASE (DoorStep /\ UNCHANGED routingVars) \/ UNCHANGED vars
  BY <1>2, <1>7 DEF routingVars, vars
<1> QED BY <1>1, <1>3, <1>4, <1>5, <1>6, <1>7, ConfiguredStart DEF Next

\* Whatever engine runs, for any chain, node settings and device: a carrier's own packets
\* never come back to it through the device, what leaves this machine does not leave in the
\* clear, and a datagram that no hop could carry is refused.
THEOREM NothingLeaks == Spec => []RulesAreSound
<1>1. Init => Configured
  <2>1. Init => /\ \A t \in Threads : thread[t].pc = "idle"
                /\ \A p \in Procs : engine[p].state = "unborn"
    BY DEF Init, Idle, UnbornProc
  <2> QED BY <2>1 DEF Init, Configured, At
<1>2. Configured => RulesAreSound
  BY RulesHold DEF Configured, RulesAreSound, Sends
<1> QED BY InitTypes, TypeStep, ConfiguredStep, <1>1, <1>2, PTL DEF Spec

=============================================================================

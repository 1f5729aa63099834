----------------------------- MODULE SystemProxy -----------------------------
(***************************************************************************)
(* The operating system's proxy: system_proxy.rs with its three platforms, *)
(* and apply_proxy_route and clear_system_proxy of core_supervisor.rs,     *)
(* which call it holding the lock on the recorded route.                   *)
(*                                                                         *)
(* The machine's settings are several values written one after the other.  *)
(* Any write may fail and the application may be killed between any two    *)
(* steps; what remains is the settings, half written, and the backup file. *)
(***************************************************************************)
EXTENDS Integers, Sequences

CONSTANTS
  Platforms,   \* the builds considered
  Bridges,     \* addresses the local HTTP bridge may be given
  OwnServers,  \* servers the owner of the machine may have set
  Faults       \* pairs <<platform, call>>: the calls that may fail

ASSUME PlatformsAreKnown == Platforms \subseteq {"windows", "macos", "gnome"}
ASSUME NamesAreDistinct ==
  Bridges \intersect
    (OwnServers \union {"none", "tunnel", "chain", "on", "off", "own", "ours"}) = {}

\* The settings of each platform, in the order write, apply and restore set them.
\* The services of macOS are written one by one: address, then state.
Fields ==
  [windows |-> <<"on", "server", "bypass">>,
   macos   |-> <<"server", "on", "server", "on">>,
   gnome   |-> <<"server", "port", "on">>]

VARIABLES
  platform,  \* which build this is
  own,       \* the settings as their owner last left them
  settings,  \* the operating system's settings
  backup,    \* the backup file: <<>> if there is none, Torn, or settings
  up,        \* the application is running
  route,     \* SupervisorInner::proxy_route
  bridge,    \* SupervisorInner::bridge: the address being served, or "none"
  op         \* the apply or revert in progress

disk == <<own, settings, backup>>
vars == <<platform, disk, up, route, bridge, op>>

NoFile == <<>>
Torn == <<"torn">>

\* k is the field about to be written and next the bridge made for this apply.
Operation ==
  [pc : {"idle", "query", "save", "open", "apply", "load", "restore", "remove"},
   k : Nat, route : {"none", "tunnel", "chain"}, next : Bridges \union {"none"}]
Idle == [pc |-> "idle", k |-> 1, route |-> "none", next |-> "none"]

Keys == 1 .. Len(Fields[platform])
Fails(call) == <<platform, call>> \in Faults
Finish == op' = Idle
At(label) == op.pc = label
Goto(label) == op' = [op EXCEPT !.pc = label]

\* ProxyTargets: only Windows is pointed at the bridge, and only for the tunnel.
Target == IF platform = "windows" /\ op.route = "tunnel" THEN op.next ELSE op.route

\* What apply sets each field to.
Ours(k) ==
  CASE Fields[platform][k] = "on" -> "on"
    [] Fields[platform][k] = "server" -> Target
    [] OTHER -> "ours"

\* What the owner may have set: any server, on or off.
OwnSettings ==
  {[k \in Keys |->
      CASE Fields[platform][k] = "on" -> state
        [] Fields[platform][k] = "server" -> server
        [] OTHER -> "own"] : state \in {"on", "off"}, server \in OwnServers}

Init ==
  /\ platform \in Platforms
  /\ own \in OwnSettings /\ settings = own /\ backup = NoFile
  /\ up = FALSE /\ route = "none" /\ bridge = "none" /\ op = Idle

(***************************************************************************)
(* The owner, and the life of the application.                             *)
(***************************************************************************)
\* Only while nothing is borrowed: a change of borrowed settings is undone by
\* revert, and no property is about it.
OwnerEdits ==
  /\ backup = NoFile /\ settings = own /\ op = Idle
  /\ own' \in OwnSettings /\ settings' = own'
  /\ UNCHANGED <<platform, backup, up, route, bridge, op>>

\* run: recover, before anything else; it reverts if there is a backup.
Launch ==
  /\ ~up /\ up' = TRUE
  /\ IF backup = NoFile THEN UNCHANGED op ELSE Goto("load")
  /\ UNCHANGED <<platform, disk, route, bridge>>

\* A crash, a kill or the end of the session, at any step.
Crash ==
  /\ up /\ up' = FALSE
  /\ route' = "none" /\ bridge' = "none" /\ op' = Idle
  /\ UNCHANGED <<platform, disk>>

(***************************************************************************)
(* apply_proxy_route.                                                      *)
(***************************************************************************)
\* Mutant: the settings are captured anew by every apply.
ApplyBeginFresh(requested) ==
  /\ up /\ op = Idle /\ route # requested
  /\ \E next \in Bridges \union {"none"} :
       /\ next = "none" <=> requested = "chain"
       /\ next # "none" => next # bridge /\ \A k \in Keys : settings[k] # next
       /\ op' = [Idle EXCEPT !.pc = "query", !.route = requested, !.next = next]
  /\ UNCHANGED <<platform, disk, up, route, bridge>>

\* proxy_route_needs_update, then the replacement bridge, which every platform
\* starts for a tunnel; without one nothing changes.  Port 0 gives an address
\* nobody is using and nothing points at.  An existing backup is kept.
ApplyBegin(requested) ==
  /\ up /\ op = Idle /\ route # requested
  /\ \E next \in Bridges \union {"none"} :
       /\ next = "none" <=> requested = "chain"
       /\ next # "none" => next # bridge /\ \A k \in Keys : settings[k] # next
       /\ op' = [Idle EXCEPT !.pc = IF backup = NoFile THEN "query" ELSE "open",
                             !.route = requested, !.next = next]
  /\ UNCHANGED <<platform, disk, up, route, bridge>>

\* platform::read.
Query ==
  /\ At("query")
  /\ \/ Goto("save")
     \/ Fails("query") /\ Finish
  /\ UNCHANGED <<platform, disk, up, route, bridge>>

\* fs::write creates the file before it fills it: a failure leaves it torn.
Save ==
  /\ At("save")
  /\ \/ backup' = settings /\ Goto("open")
     \/ Fails("save") /\ backup' = Torn /\ Finish
  /\ UNCHANGED <<platform, own, settings, up, route, bridge>>

\* settings_key, list_services: nothing has been written yet.
Open ==
  /\ At("open")
  /\ \/ Goto("apply")
     \/ Fails("open") /\ Finish
  /\ UNCHANGED <<platform, disk, up, route, bridge>>

\* The fields are set in order; the first failure ends the apply, and the new
\* bridge is dropped with it.
ApplyField ==
  /\ At("apply") /\ op.k \in Keys
  /\ \/ /\ settings' = [settings EXCEPT ![op.k] = Ours(op.k)]
        /\ op' = [op EXCEPT !.k = op.k + 1]
     \/ Fails("apply") /\ Finish /\ UNCHANGED settings
  /\ UNCHANGED <<platform, own, backup, up, route, bridge>>

\* "Replace only after the OS points at targets": then the old bridge is dropped.
Applied ==
  /\ At("apply") /\ op.k \notin Keys
  /\ route' = op.route /\ bridge' = op.next
  /\ Finish
  /\ UNCHANGED <<platform, disk, up>>

(***************************************************************************)
(* revert, called by clear_system_proxy and by recover.                    *)
(***************************************************************************)
\* Mutant: the bridge is stopped first.
ClearBeginEager ==
  /\ up /\ op = Idle /\ route # "none"
  /\ Goto("load") /\ bridge' = "none"
  /\ UNCHANGED <<platform, disk, up, route>>

\* clear_system_proxy does nothing when no route is recorded.
ClearBegin ==
  /\ up /\ op = Idle /\ route # "none"
  /\ Goto("load")
  /\ UNCHANGED <<platform, disk, up, route, bridge>>

\* A file that cannot be read, or is torn, is an error: nothing is restored.
\* (There is one: no route is recorded before it, nor kept after its removal.)
Load ==
  /\ At("load")
  /\ \/ backup # Torn /\ Goto("restore")
     \/ (backup = Torn \/ Fails("load")) /\ Finish
  /\ UNCHANGED <<platform, disk, up, route, bridge>>

\* macOS ignores what it cannot restore and goes on; the others stop.
RestoreField ==
  /\ At("restore") /\ op.k \in Keys
  /\ \/ /\ settings' = [settings EXCEPT ![op.k] = backup[op.k]]
        /\ op' = [op EXCEPT !.k = op.k + 1]
     \/ /\ Fails("restore") /\ UNCHANGED settings
        /\ IF platform = "macos" THEN op' = [op EXCEPT !.k = op.k + 1] ELSE Finish
  /\ UNCHANGED <<platform, own, backup, up, route, bridge>>

Restored ==
  /\ At("restore") /\ op.k \notin Keys
  /\ Goto("remove")
  /\ UNCHANGED <<platform, disk, up, route, bridge>>

\* "Only after a successful restore", and the bridge and the route go last.
Remove ==
  /\ At("remove")
  /\ \/ backup' = NoFile /\ route' = "none" /\ bridge' = "none"
     \/ Fails("remove") /\ UNCHANGED <<backup, route, bridge>>
  /\ Finish
  /\ UNCHANGED <<platform, own, settings, up>>

Revert == Load \/ RestoreField \/ Restored \/ Remove
Apply == Query \/ Save \/ Open \/ ApplyField \/ Applied
Next ==
  \/ OwnerEdits \/ Launch \/ Crash \/ ClearBegin
  \/ \E requested \in {"tunnel", "chain"} : ApplyBegin(requested)
  \/ Apply \/ Revert

Spec == Init /\ [][Next]_vars

(***************************************************************************)
(* Properties.                                                             *)
(***************************************************************************)
Values == {"on", "off", "own", "ours", "tunnel", "chain"} \union OwnServers \union Bridges
Settings == [Keys -> Values]
TypeOK ==
  /\ platform \in Platforms
  /\ own \in OwnSettings /\ settings \in Settings
  /\ backup \in Settings \union {NoFile, Torn}
  /\ up \in BOOLEAN /\ route \in {"none", "tunnel", "chain"}
  /\ bridge \in Bridges \union {"none"} /\ op \in Operation

\* "The previous value is written to disk before anything changes": at every
\* step, so also after a crash there, the machine's settings are its owner's or
\* the backup on disk, unless its own writing failed, holds the owner's.
WayBack == backup # Torn => settings = own \/ backup = own

\* The state of the service whose server is field k.
SwitchOf(k) ==
  IF platform = "macos" THEN k + 1 ELSE CHOOSE s \in Keys : Fields[platform][s] = "on"
PointsAt(address) ==
  \E k \in Keys : Fields[platform][k] = "server" /\ settings[k] = address
                    /\ settings[SwitchOf(k)] = "on"

\* "leaving no window where the selected listener is absent": whenever the
\* recorded route has the machine pointed at a bridge, that bridge is served.
BridgeIsServed ==
  \A address \in Bridges :
    route # "none" /\ PointsAt(address) => address \in {bridge, op.next}
=============================================================================

-------------------------- MODULE SystemProxyProofs --------------------------
(***************************************************************************)
(* Proofs about SystemProxy.  WayBack needs to know which step of which    *)
(* operation finds which file: Borrowed says it.  BridgeIsServed needs to  *)
(* know which fields an apply has already set: Pointed says it.            *)
(***************************************************************************)
EXTENDS SystemProxy, TLAPS

\* What a field may be set to: Target is "none" before an apply begins.
Written == Values \union {"none"}

\* A backup that can be read is the owner's settings; without a backup the
\* settings are; and an operation that will write the settings has one.
Borrowed ==
  /\ platform \in Platforms
  /\ DOMAIN own = Keys /\ settings \in [Keys -> Written] /\ own \in [Keys -> Written]
  /\ op \in Operation /\ op.k >= 1 /\ (~up => op = Idle)
  /\ op.pc \notin {"apply", "restore", "remove"} => op.k = 1
  /\ backup \in {NoFile, Torn, own}
  /\ backup = NoFile => settings = own
  /\ op.pc \in {"query", "save"} => backup = NoFile
  /\ op.pc \in {"restore", "remove"} => backup = own
  /\ op.pc = "restore" => \A j \in Keys : j < op.k => settings[j] = own[j]
  /\ op.pc = "remove" => settings = own
  /\ op.pc \in {"load", "open", "apply"} \/ route # "none" => backup # NoFile

\* Settings are never the empty file.
LEMMA SettingsAreNotEmpty ==
  ASSUME platform \in Platforms, NEW s, DOMAIN s = Keys
  PROVE  s # NoFile
  BY PlatformsAreKnown DEF Keys, Fields, NoFile

\* There is a value for every field of every platform.
LEMMA OwnIsTyped ==
  ASSUME platform \in Platforms
  PROVE  OwnSettings \subseteq [Keys -> Written]
  BY DEF OwnSettings, Written, Values

\* The owner's settings and an idle application are where it starts.
LEMMA BorrowedInit == Init => Borrowed
<1> SUFFICES ASSUME Init PROVE Borrowed
  OBVIOUS
<1>1. own \in [Keys -> Written] /\ DOMAIN own = Keys
  BY OwnIsTyped DEF Init
<1> QED
  BY <1>1 DEF Init, Borrowed, Idle, Operation

\* Applying writes fields only once there is a backup, and never touches it.
LEMMA BorrowedApply ==
  ASSUME Borrowed, Apply
  PROVE  Borrowed'
<1> USE DEF Borrowed, disk, Keys, Operation
<1>1. CASE Query
  BY <1>1 DEF Query, At, Goto, Finish, Idle
<1>2. CASE Save
  <2>1. own # NoFile
    BY SettingsAreNotEmpty
  <2> QED
    BY <1>2, <2>1 DEF Save, At, Goto, Finish, Idle, NoFile, Torn
<1>3. CASE Open
  BY <1>3 DEF Open, At, Goto, Finish, Idle
<1>4. CASE ApplyField
  <2>1. Ours(op.k) \in Written
    BY DEF Ours, Target, Written, Values
  <2> QED
    BY <1>4, <2>1 DEF ApplyField, At, Finish, Idle
<1>5. CASE Applied
  BY <1>5 DEF Applied, At, Finish, Idle
<1> QED
  BY <1>1, <1>2, <1>3, <1>4, <1>5 DEF Apply

\* Restoring writes back the owner's fields one by one, and removes the backup
\* when all of them are: unless macOS skipped one.
LEMMA BorrowedRevert ==
  ASSUME <<"macos", "restore">> \notin Faults, Borrowed, Revert
  PROVE  Borrowed'
<1> USE DEF Borrowed, disk, Keys, Operation
<1>1. CASE Load
  BY <1>1 DEF Load, At, Goto, Finish, Idle
<1>2. CASE RestoreField
  <2>1. CASE settings' = [settings EXCEPT ![op.k] = own[op.k]]
             /\ op' = [op EXCEPT !.k = op.k + 1]
    <3>1. settings' \in [Keys -> Written]
      BY <1>2, <2>1 DEF RestoreField
    <3>2. \A j \in Keys : j < op.k + 1 => settings'[j] = own[j]
      BY <1>2, <2>1 DEF RestoreField, At
    <3>3. op.pc = "restore" /\ up
      BY <1>2 DEF RestoreField, At, Idle
    <3>4. op \in Operation /\ op.k + 1 \in Nat /\ op.k + 1 >= 1
      OBVIOUS
    <3>5. op' \in Operation
      BY <2>1, <3>4
    <3>6. op'.pc = "restore" /\ op'.k = op.k + 1
      BY <2>1, <3>3, <3>4
    <3> QED
      BY <1>2, <3>1, <3>2, <3>3, <3>4, <3>5, <3>6 DEF RestoreField
  <2>2. CASE UNCHANGED settings /\ Finish
    BY <1>2, <2>2 DEF RestoreField, At, Finish, Idle
  <2> QED
    BY <1>2, <2>1, <2>2 DEF RestoreField, At, Fails
<1>3. CASE Restored
  <2>1. \A j \in Keys : settings[j] = own[j]
    BY <1>3 DEF Restored, At, Fields
  <2>2. settings = own
    BY <2>1
  <2> QED
    BY <1>3, <2>2 DEF Restored, At, Goto, Idle
<1>4. CASE Remove
  BY <1>4 DEF Remove, At, Finish, Idle
<1> QED
  BY <1>1, <1>2, <1>3, <1>4 DEF Revert

\* Every step keeps it.
LEMMA BorrowedNext ==
  ASSUME <<"macos", "restore">> \notin Faults, Borrowed, [Next]_vars
  PROVE  Borrowed'
<1> USE DEF Borrowed, disk, Keys, Operation
<1>1. CASE OwnerEdits
  <2>1. own' \in [Keys -> Written] /\ DOMAIN own' = Keys
    BY <1>1, OwnIsTyped DEF OwnerEdits
  <2> QED
    BY <1>1, <2>1 DEF OwnerEdits, Idle
<1>2. CASE Launch
  BY <1>2 DEF Launch, Goto, Idle
<1>3. CASE Crash
  BY <1>3 DEF Crash, Idle
<1>4. CASE ClearBegin
  BY <1>4 DEF ClearBegin, Goto, Idle
<1>5. ASSUME NEW requested \in {"tunnel", "chain"}, ApplyBegin(requested)
      PROVE  Borrowed'
  BY <1>5 DEF ApplyBegin, Idle
<1>6. CASE UNCHANGED vars
  BY <1>6 DEF vars
<1> QED
  BY <1>1, <1>2, <1>3, <1>4, <1>5, <1>6, BorrowedApply, BorrowedRevert DEF Next

\* Whatever fails (but a restore that macOS would ignore) and wherever the
\* application is killed, a machine whose backup could be written finds its way
\* back: its settings are its owner's, or the backup on disk holds them.
THEOREM WayBackIsKept ==
  ASSUME <<"macos", "restore">> \notin Faults
  PROVE  Spec => []WayBack
<1>1. Borrowed => WayBack
  BY DEF Borrowed, WayBack
<1> QED
  BY <1>1, BorrowedInit, BorrowedNext, PTL DEF Spec

\* Which bridge addresses the settings may hold: on Windows the one being served
\* or the one being written, elsewhere none; the owner never had one.
Pointed ==
  /\ \A k \in Keys : own[k] \notin Bridges
  /\ platform # "windows" => \A k \in Keys : settings[k] \notin Bridges
  /\ ~up => route = "none"
  /\ op.pc \notin {"query", "save", "open", "apply"} => op.next = "none"
  /\ op.pc \in {"query", "save", "open"} =>
       \A k \in Keys : settings[k] \in Bridges => settings[k] # op.next
  /\ op.pc = "apply" =>
       \A j \in Keys : j < op.k /\ settings[j] \in Bridges => settings[j] = op.next
  /\ route # "none" =>
       \A k \in Keys : settings[k] \in Bridges => settings[k] \in {bridge, op.next}

\* The owner's settings name no bridge.
LEMMA OwnHasNoBridge ==
  ASSUME NEW s \in OwnSettings, NEW k \in Keys
  PROVE  s[k] \notin Bridges
BY NamesAreDistinct DEF OwnSettings

\* So it starts.
LEMMA PointedInit == Init => Pointed
BY OwnHasNoBridge DEF Init, Pointed, Idle

\* An apply writes its own bridge and no other.
LEMMA PointedApply ==
  ASSUME <<"windows", "apply">> \notin Faults, Borrowed, Pointed, Apply
  PROVE  Pointed'
<1> USE DEF Pointed, disk, Keys, Operation
<1>0. op \in Operation /\ op.k >= 1 /\ up /\ settings \in [Keys -> Written]
  BY DEF Borrowed, Apply, Query, Save, Open, ApplyField, Applied, At, Idle
<1>1. CASE Query
  BY <1>0, <1>1, NamesAreDistinct DEF Query, At, Goto, Finish, Idle
<1>2. CASE Save
  BY <1>0, <1>2, NamesAreDistinct DEF Save, At, Goto, Finish, Idle
<1>3. CASE Open
  BY <1>0, <1>3, NamesAreDistinct DEF Open, At, Goto, Finish, Idle, Borrowed
<1>4. CASE ApplyField
  <2>1. Ours(op.k) \in Bridges => Ours(op.k) = op.next /\ platform = "windows"
    BY <1>0, NamesAreDistinct DEF Ours, Target
  <2>2. CASE settings' = [settings EXCEPT ![op.k] = Ours(op.k)]
             /\ op' = [op EXCEPT !.k = op.k + 1]
    <3>1. op'.pc = op.pc /\ op'.next = op.next /\ op'.k = op.k + 1 /\ op.pc = "apply"
      BY <1>0, <1>4, <2>2 DEF ApplyField, At
    <3>2. \A j \in Keys : settings'[j] = IF j = op.k THEN Ours(op.k) ELSE settings[j]
      BY <1>0, <2>2
    <3>3. Keys' = Keys /\ own' = own /\ route' = route /\ bridge' = bridge
      BY <1>4 DEF ApplyField
    <3>4. platform' # "windows" => \A j \in Keys : settings'[j] \notin Bridges
      BY <1>4, <2>1, <3>2 DEF ApplyField
    <3>5. \A j \in Keys : j < op.k + 1 /\ settings'[j] \in Bridges =>
                            settings'[j] = op.next
      BY <1>0, <2>1, <3>1, <3>2
    <3>6. route # "none" => \A j \in Keys : settings'[j] \in Bridges =>
                                        settings'[j] \in {bridge, op.next}
      BY <2>1, <3>2
    <3> QED
      BY <1>0, <1>4, <3>1, <3>3, <3>4, <3>5, <3>6 DEF ApplyField
  <2>3. CASE platform # "windows" /\ UNCHANGED settings /\ Finish
    BY <1>4, <2>3 DEF ApplyField, Finish, Idle
  <2> QED
    BY <1>0, <1>4, <2>2, <2>3 DEF ApplyField, Fails
<1>5. CASE Applied
  <2>1. \A j \in Keys : j < op.k
    BY <1>0, <1>5 DEF Applied, Fields
  <2> QED
    BY <1>0, <1>5, <2>1 DEF Applied, At, Finish, Idle
<1> QED
  BY <1>1, <1>2, <1>3, <1>4, <1>5 DEF Apply

\* A revert writes what the owner had.
LEMMA PointedRevert ==
  ASSUME Borrowed, Pointed, Revert
  PROVE  Pointed'
<1> USE DEF Pointed, disk, Keys, Operation
<1>0. op \in Operation /\ op.next = "none" /\ settings \in [Keys -> Written]
  BY DEF Borrowed, Revert, Load, RestoreField, Restored, Remove, At
<1>1. CASE Load
  BY <1>0, <1>1 DEF Load, At, Goto, Finish, Idle
<1>2. CASE RestoreField
  <2>1. op'.pc \in {"restore", "idle"} /\ op'.next = "none"
    BY <1>0, <1>2 DEF RestoreField, At, Finish, Idle
  <2>2. \A j \in Keys : settings'[j] \in {settings[j], own[j]}
    BY <1>0, <1>2 DEF RestoreField, At, Borrowed
  <2> QED
    BY <1>0, <1>2, <2>1, <2>2 DEF RestoreField
<1>3. CASE Restored
  BY <1>0, <1>3 DEF Restored, At, Goto
<1>4. CASE Remove
  BY <1>0, <1>4 DEF Remove, At, Finish, Idle
<1> QED
  BY <1>1, <1>2, <1>3, <1>4 DEF Revert

\* Every step keeps it.
LEMMA PointedNext ==
  ASSUME <<"windows", "apply">> \notin Faults, Borrowed, Pointed, [Next]_vars
  PROVE  Pointed'
<1> USE DEF Pointed, disk, Keys, Operation
<1>0. op \in Operation
  BY DEF Borrowed
<1>1. CASE OwnerEdits
  BY <1>1, OwnHasNoBridge DEF OwnerEdits, Idle
<1>2. CASE Launch
  BY <1>0, <1>2 DEF Launch, Goto, Borrowed, Idle
<1>3. CASE Crash
  BY <1>3 DEF Crash, Idle
<1>4. CASE ClearBegin
  BY <1>0, <1>4 DEF ClearBegin, Goto, Idle
<1>5. ASSUME NEW requested \in {"tunnel", "chain"}, ApplyBegin(requested)
      PROVE  Pointed'
  <2>1. PICK next \in Bridges \union {"none"} :
          /\ next # "none" => next # bridge /\ \A k \in Keys : settings[k] # next
          /\ op' = [Idle EXCEPT !.pc = IF backup = NoFile THEN "query" ELSE "open",
                                !.route = requested, !.next = next]
    BY <1>5 DEF ApplyBegin
  <2>2. op'.pc \in {"query", "open"} /\ op'.next = next /\ op.next = "none"
    BY <1>5, <2>1 DEF ApplyBegin, Idle
  <2>3. \A k \in Keys : settings[k] \in Bridges => settings[k] # next
    BY <2>1, NamesAreDistinct
  <2> QED
    BY <1>5, <2>2, <2>3, NamesAreDistinct DEF ApplyBegin
<1>6. CASE UNCHANGED vars
  BY <1>6 DEF vars
<1> QED
  BY <1>1, <1>2, <1>3, <1>4, <1>5, <1>6, PointedApply, PointedRevert DEF Next

\* A failed or interrupted apply or revert never leaves the machine, while a route
\* is recorded, pointed at a bridge that has been dropped.
THEOREM BridgeIsKept ==
  ASSUME <<"macos", "restore">> \notin Faults, <<"windows", "apply">> \notin Faults
  PROVE  Spec => []BridgeIsServed
<1>1. Borrowed /\ Pointed => BridgeIsServed
  BY DEF Pointed, BridgeIsServed, PointsAt
<1> QED
  BY <1>1, BorrowedInit, BorrowedNext, PointedInit, PointedNext, PTL DEF Spec

=============================================================================

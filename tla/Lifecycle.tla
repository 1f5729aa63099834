------------------------------ MODULE Lifecycle ------------------------------
(***************************************************************************)
(* What the supervisor promises the person at the window, whatever threads *)
(* it takes: an engine is launched only while a connection is asked for,   *)
(* one at a time, and a disconnect is followed by its end.                 *)
(***************************************************************************)
VARIABLES
  wanted,  \* a connection is asked for
  engine   \* "up" while an engine holds the slot, else "none"

Init == wanted = FALSE /\ engine = "none"

Connect == wanted' = TRUE /\ UNCHANGED engine
Disconnect == wanted' = FALSE /\ UNCHANGED engine
Launch == wanted /\ engine = "none" /\ engine' = "up" /\ UNCHANGED wanted
End == engine = "up" /\ engine' = "none" /\ UNCHANGED wanted

Next == Connect \/ Disconnect \/ Launch \/ End
vars == <<wanted, engine>>

\* An engine nobody wants any more is ended.
Reap == ~wanted /\ End

SafeSpec == Init /\ [][Next]_vars
Spec == SafeSpec /\ WF_vars(Reap)
=============================================================================

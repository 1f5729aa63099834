-------------------------- MODULE MCCarrierProcess --------------------------
(***************************************************************************)
(* Small instances of CarrierProcess.                                      *)
(***************************************************************************)
EXTENDS CarrierProcess

CONSTANTS s1, s2, c1

Both == {"psiphon", "tor"}
OneStarter == {s1}
TwoStarters == {s1, s2}
OneStopper == {c1}
=============================================================================

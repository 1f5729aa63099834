-------------------------------- MODULE MCRace --------------------------------
(***************************************************************************)
(* A small instance of Race: two networks of which the memory has room for *)
(* one, the engine with one recipe, one other carrier.                     *)
(***************************************************************************)
EXTENDS Race

One == <<"plain">>
RemedyOf == [none |-> "plain"]
\* The engine got out on the first network; the memory has no room for another.
Before == {RecordWin(Empty, 1, [carrier |-> "aether", recipe |-> "plain", context |-> "c"], 1)}
OneEach == [psiphon |-> 1, tor |-> 1]
=============================================================================

----------------------------- MODULE MCPlanning -----------------------------
(***************************************************************************)
(* A small instance of Planning: settings that differ in every field the   *)
(* ladder looks at, two networks of which the memory has room for one.   *)
(***************************************************************************)
EXTENDS Planning

Usual == [protocol |-> "masque", transport |-> "h3", shape |-> "off", ech |-> "unset",
          family |-> "auto", scan |-> "balanced"]
Saved ==
  {Usual, [Usual EXCEPT !.transport = "h2", !.ech = "off", !.family = "v4"],
   [Usual EXCEPT !.shape = "records", !.ech = "auto", !.scan = "thorough"],
   [Usual EXCEPT !.protocol = "wireguard", !.family = "v6", !.scan = "turbo"]}
Through == {r \in Recipe : r.shape = "compact" \/ (r.ech = "auto" /\ r.transport = "h3")}
Changed == {Usual, [Usual EXCEPT !.shape = "records"]}
=============================================================================

----------------------------- MODULE MCRouting ------------------------------
(***************************************************************************)
(* Small instances of Routing.                                             *)
(***************************************************************************)
EXTENDS Routing

NoLogin == ""
Door == [port |-> 1080, login |-> NoLogin]
S(carriers, exit, tun, proxy, sharing) ==
  [on |-> TRUE, hops |-> carriers, exit |-> exit, through |-> TRUE, sources |-> {"one"},
   iran |-> TRUE, tun |-> tun, proxy |-> proxy, share |-> sharing]
SomeSessions == {S(<<"aether">>, TRUE, TRUE, TRUE, Door),
                 S(<<"psiphon", "aether">>, FALSE, TRUE, TRUE, Off),
                 S(<<"aether">>, FALSE, TRUE, FALSE, Off)}
\* A full tunnel with nothing behind it, shared.
TunnelOnly == {S(<<"aether">>, FALSE, TRUE, TRUE, Door)}
SomeChoices == {[exit |-> TRUE, through |-> FALSE, sources |-> {"two"}],
                [exit |-> FALSE, through |-> TRUE, sources |-> {}]}
SomeDoors == {Door, [port |-> 1081, login |-> "a"]}
AllAddresses == {Tunnel, Mixed} \union {Spare(n) : n \in 0 .. MaxCommands}
=============================================================================

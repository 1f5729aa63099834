---------------------------- MODULE RoutingRules ----------------------------
(***************************************************************************)
(* carrier.rs and the pure part of chain.rs: what the carriers are to the  *)
(* routing engine, the configuration it is given, and where a packet goes  *)
(* under it.                                                               *)
(*                                                                         *)
(* A running chain is a sequence of one or two carriers.  A request is     *)
(* what ChainRequest asks of one run; hops is << >> when nothing carries.  *)
(* A rule is a test and a target, and the first test that a flow passes    *)
(* decides.  Names, ports and YAML are left out.                           *)
(***************************************************************************)
EXTENDS Sequences, Integers

Kinds == {"aether", "psiphon", "tor", "worker"}

\* A carrier on its own, or two different ones of which none is a Worker.
refusal(first, second) == first = second \/ "worker" \in {first, second}
Chains == {<<k>> : k \in Kinds} \union
          {<<p[1], p[2]>> : p \in {q \in Kinds \X Kinds : ~refusal(q[1], q[2])}}

LastHop(hops) == hops[Len(hops)]
HopSet(hops) == {hops[i] : i \in DOMAIN hops}
carries_udp(hops) == HopSet(hops) \subseteq {"aether"}

needs_routing_engine(hops) == Len(hops) > 1 \/ LastHop(hops) # "aether"
engine_is_wanted(exit, tun, hops) == exit \/ tun \/ (hops # << >> /\ needs_routing_engine(hops))

\* What Chain::start refuses before it touches anything but the engine there is.
Refused(request) ==
  \/ request.exit /\ request.sources = {}
  \/ request.exit /\ request.through /\ request.hops = << >>
  \/ ~engine_is_wanted(request.exit, request.tun, request.hops)
  \/ request.tun /\ request.hops = << >>

(***************************************************************************)
(* render.                                                                 *)
(***************************************************************************)
\* The flows the rules tell apart: whose they are, where they go and how.
Flows == [process : Kinds \union {"application"},
          to : {"gateway", "local", "iran", "outside"}, net : {"tcp", "udp"}]

Rule(test, target) == [test |-> test, target |-> target]
Passes(flow, test) ==
  CASE test[1] = "process" -> flow.process = test[2]
    [] test[1] = "to" -> flow.to = test[2]
    [] test[1] = "net" -> flow.net = test[2]
    [] OTHER -> TRUE

If(condition, rules) == IF condition THEN rules ELSE << >>

\* The group of the nodes, the last hop, or the network itself.
catch_all(request) ==
  IF request.exit THEN "exit" ELSE IF request.hops # << >> THEN LastHop(request.hops) ELSE "direct"

\* Mutant: the hop the engine dials is let out, the others are not.
process_rules_of_last(request) ==
  If(request.hops # << >>, <<Rule(<<"process", LastHop(request.hops)>>, "direct")>>)

\* The carriers' own packets first: every hop's process, and the first hop's gateway.
process_rules(request) ==
  [i \in 1 .. Len(request.hops) |-> Rule(<<"process", request.hops[i]>>, "direct")]
  \o If(request.hops # << >> /\ request.hops[1] = "aether", <<Rule(<<"to", "gateway">>, "direct")>>)

local_rules == <<Rule(<<"to", "local">>, "direct")>>
iran_rules == <<Rule(<<"to", "iran">>, "direct")>>
udp_rules == <<Rule(<<"net", "udp">>, "reject")>>

render(request) ==
  If(request.tun, process_rules(request)) \o local_rules \o If(request.iran, iran_rules)
  \o If(request.hops # << >> /\ ~carries_udp(request.hops), udp_rules)
  \o <<Rule(<<"match">>, catch_all(request))>>

\* Where the engine sends a flow.
Verdict(rules, flow) ==
  LET passing == {i \in DOMAIN rules : Passes(flow, rules[i].test)}
  IN rules[CHOOSE i \in passing : \A j \in passing : i <= j].target
=============================================================================

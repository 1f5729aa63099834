----------------------------- MODULE RouteMemory -----------------------------
(***************************************************************************)
(* route_memory.rs: what got out last time, per network.                   *)
(*                                                                         *)
(* A memory is a partial function from networks to entries; this module    *)
(* holds the operations on it, Race keeps the file.                        *)
(***************************************************************************)
EXTENDS Integers, FiniteSets

CONSTANTS
  None,              \* nothing: no route, no recipe, no remedy
  Networks,          \* keys of networks; their order is that of the file
  Carriers,          \* "aether" is the engine
  Recipes,           \* engine recipes
  Remedies,          \* recipes a failure may call for
  Contexts,          \* hashes of the settings a recipe was proven with
  MaxNetworks,       \* MAX_NETWORKS
  ForgetAfter,       \* FORGET_AFTER, in ticks of the clock
  EngineRetryAfter   \* ENGINE_RETRY_AFTER, in ticks of the clock

ASSUME EngineIsInstalled == "aether" \in Carriers
ASSUME NetworksAreOrdered == Networks \subseteq Nat
ASSUME RoomForOne == MaxNetworks \in Nat \ {0}
ASSUME WindowsAreNumbers == ForgetAfter \in Nat \ {0} /\ EngineRetryAfter \in Nat

Never == -1

Route == [carrier : Carriers, recipe : Recipes \union {None}, context : Contexts]
NoRoute == [carrier |-> None, recipe |-> None, context |-> None]

Entry == [route : Route \union {NoRoute}, won : Nat, failed : Nat \union {Never},
          remedy : Remedies \union {None}, seen : Nat]
Blank == [route |-> NoRoute, won |-> 0, failed |-> Never, remedy |-> None, seen |-> 0]
Empty == [n \in {} |-> Blank]

IsEngine(route) == route.carrier = "aether"

\* now.saturating_sub(at): a clock set back makes nothing old.
Age(at, now) == IF now > at THEN now - at ELSE 0

EntryOf(memory, network) ==
  IF network \in DOMAIN memory THEN memory[network] ELSE Blank
Put(memory, network, entry) ==
  [n \in DOMAIN memory \union {network} |-> IF n = network THEN entry ELSE memory[n]]

\* Mutant: an entry outlives the window by one tick, and one more fits.
PruneLate(memory, now) ==
  LET fresh == {n \in DOMAIN memory : Age(memory[n].seen, now) <= ForgetAfter}
      Newer(a, b) == \/ memory[a].seen > memory[b].seen
                     \/ memory[a].seen = memory[b].seen /\ a > b
      kept == {n \in fresh : Cardinality({m \in fresh : Newer(m, n)}) <= MaxNetworks}
  IN  [n \in kept |-> memory[n]]

\* What has not been seen for ForgetAfter goes; of the rest the least recently
\* seen go first, and of those seen together the first key.
Prune(memory, now) ==
  LET fresh == {n \in DOMAIN memory : Age(memory[n].seen, now) < ForgetAfter}
      Newer(a, b) == \/ memory[a].seen > memory[b].seen
                     \/ memory[a].seen = memory[b].seen /\ a > b
      kept == {n \in fresh : Cardinality({m \in fresh : Newer(m, n)}) < MaxNetworks}
  IN  [n \in kept |-> memory[n]]

\* The route to lead with, and the remedy the last failure named.
Recall(memory, network, now) ==
  LET entry == EntryOf(memory, network)
      outOfLead == entry.failed # Never /\ Age(entry.failed, now) < EngineRetryAfter
      leads == IsEngine(entry.route) /\ Age(entry.won, now) < ForgetAfter /\ ~outOfLead
  IN  [route |-> IF leads THEN entry.route ELSE NoRoute, remedy |-> entry.remedy]

\* Mutant: a win of the engine leaves the mark of its last failure.
RecordWinKeepingMark(memory, network, route, now) ==
  LET old == EntryOf(memory, network)
      entry == [old EXCEPT !.route = route, !.won = now, !.seen = now]
  IN  Prune(Put(memory, network, entry), now)

RecordWin(memory, network, route, now) ==
  LET old == EntryOf(memory, network)
      clear == IF IsEngine(route) THEN [old EXCEPT !.failed = Never, !.remedy = None] ELSE old
      entry == [clear EXCEPT !.route = route, !.won = now, !.seen = now]
  IN  Prune(Put(memory, network, entry), now)

RecordEngineFailure(memory, network, hadLead, remedy, now) ==
  LET old == EntryOf(memory, network)
      entry == [old EXCEPT !.failed = IF hadLead THEN now ELSE @,
                           !.remedy = IF remedy # None THEN remedy ELSE @,
                           !.seen = now]
  IN  Prune(Put(memory, network, entry), now)
=============================================================================

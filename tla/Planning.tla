------------------------------ MODULE Planning ------------------------------
(***************************************************************************)
(* recovery.rs, race.rs and route_memory.rs: which recipes of the engine   *)
(* the next search and the next attempt try, in which order, given the     *)
(* user's settings, the winner applied last and the route memory.          *)
(*                                                                         *)
(* A search is one step here (Race has its threads): it wins with a recipe *)
(* of its plan or with another carrier, or it fails.                       *)
(***************************************************************************)
EXTENDS RouteMemory, SequencesExt

CONSTANTS
  Settings,      \* what a user may have saved: values of Recipe
  Later,         \* the settings a user may change to
  Passing,       \* the recipes that networks let through
  MaxAttempts,   \* MAX_ATTEMPTS
  MaxTicks       \* bound: ticks of the clock

\* EngineRecipe; "shape" is fragment_client_hello with hello_shape.
Recipe == [protocol : {"masque", "wireguard", "wom", "mim"}, transport : {"h2", "h3"},
           shape : {"off", "plain", "records", "compact"}, ech : {"unset", "off", "auto"},
           family : {"auto", "v4", "v6"}, scan : {"turbo", "balanced", "thorough"}]

ASSUME SettingsAreRecipes == Settings \subseteq Recipe /\ Later \subseteq Recipe
ASSUME NoneIsOther == None \notin Recipe \union {"ech", "fragment"}
\* The ladder has 12 places at most, and the attempts count from 0.
ASSUME AttemptsForAll == MaxAttempts \in Nat /\ MaxAttempts >= 11

VARIABLES
  profile,    \* the engine settings in effect
  base,       \* recovery_base: what they were before a winner was applied
  auto,       \* auto_route
  network, clock, routes,
  user, won   \* history: the settings saved last; the recipe that won last, per network

planVars == <<profile, base, auto, network, clock, routes, user, won>>

\* The settings a proof depends on.
ContextOf(p) == [p EXCEPT !.transport = "h2", !.scan = "turbo"]

\* The recipe asked for by the last error's wording.
Answers(r, named) ==
  \/ named = "ech" /\ r.ech = "auto"
  \/ named = "fragment" /\ r.shape # "off"

\* What is in place i goes to the front; place 0 is none.
Lead(seq, i) == (IF i = 0 THEN << >> ELSE <<seq[i]>>) \o RemoveAt(seq, i)

\* What is there already is not added again: the places where something is first, in
\* order.  (Taken as a subsequence, for TLC to hold a tuple.)
EachOnce(seq) ==
  LET firsts == {i \in DOMAIN seq : \A j \in 1 .. i - 1 : seq[j] # seq[i]}
      Nth(k) == CHOOSE i \in firsts : Cardinality({j \in firsts : j < i}) = k - 1
  IN  SubSeq([k \in 1 .. Cardinality(firsts) |-> seq[Nth(k)]], 1, Cardinality(firsts))

\* The ladder: what is configured, the quick framings, records, fragments, ECH,
\* compact, IPv6, WOM, the deep scan and MIM.  ECH off and IPv4 only are strict.
candidates(p) ==
  LET start == [p EXCEPT !.scan = IF @ = "thorough" THEN "balanced" ELSE @]
      h2 == [start EXCEPT !.protocol = "masque", !.transport = "h2", !.scan = "turbo",
                          !.shape = "off"]
      h3 == [h2 EXCEPT !.transport = "h3"]
      Unless(condition, seq) == IF condition THEN <<>> ELSE seq
  IN  Unless(p.protocol = "masque" /\ p.shape = "off" /\ p.ech # "auto",
             <<[start EXCEPT !.scan = "turbo"]>>)
      \o (IF p.transport = "h3" THEN <<h3, h2>> ELSE <<h2, h3>>)
      \o << [h2 EXCEPT !.shape = "records"], [h2 EXCEPT !.shape = "plain"] >>
      \o Unless(p.ech = "off", << [h2 EXCEPT !.ech = "auto"], [h3 EXCEPT !.ech = "auto"] >>)
      \o << [h2 EXCEPT !.shape = "compact"] >>
      \o Unless(p.family = "v4", << [h2 EXCEPT !.family = "v6"] >>)
      \o << [h2 EXCEPT !.protocol = "wom"], [h2 EXCEPT !.scan = "balanced"],
            [h2 EXCEPT !.protocol = "mim"] >>

\* The remembered recipe first, if it is one of them; before it the first that answers
\* the last failure.
recipes(p, remembered, named) ==
  LET ladder == EachOnce(candidates(p))
      led == Lead(ladder, SelectInSeq(ladder, LAMBDA r : r = remembered))
  IN  Lead(led, SelectInSeq(led, LAMBDA r : Answers(r, named)))

\* recovery_base.apply.
Policy(p) == IF base = None THEN p ELSE base

\* groups: the engine's lanes of a search on this network.
Plan ==
  LET p == Policy(profile)
      recalled == Recall(routes, network, clock)
      remembered == IF recalled.route # NoRoute /\ recalled.route.context = ContextOf(p)
                    THEN recalled.route.recipe ELSE None
  IN  recipes(p, remembered, recalled.remedy)

\* Mutant: attempts count from the settings in effect.
profile_for_attemptLast(n) ==
  LET ladder == recipes(profile, None, None) IN ladder[(n % Len(ladder)) + 1]

\* The engine settings of attempt n of a session.
profile_for_attempt(n) ==
  LET ladder == recipes(Policy(profile), IF base = None THEN None ELSE profile, None)
  IN  IF auto \/ profile.protocol = "masque" THEN ladder[(n % Len(ladder)) + 1] ELSE profile

PlanInit ==
  /\ user \in Settings /\ profile = user /\ base = None
  /\ auto \in BOOLEAN /\ network \in Networks /\ clock = 0 /\ routes = Empty
  /\ won = [n \in Networks |-> None]

\* Mutant: each winner is the base of the next search.
EngineWinsRebasing(r) ==
  /\ clock < MaxTicks /\ clock' = clock + 1
  /\ routes' = RecordWin(routes, network,
                         [carrier |-> "aether", recipe |-> r, context |-> ContextOf(Policy(profile))],
                         clock')
  /\ profile' = r /\ base' = profile
  /\ won' = [won EXCEPT ![network] = [recipe |-> r, user |-> user, at |-> clock']]
  /\ UNCHANGED <<auto, network, user>>

\* winner, RaceWinner::apply and route_of.
EngineWins(r) ==
  /\ clock < MaxTicks /\ clock' = clock + 1
  /\ routes' = RecordWin(routes, network,
                         [carrier |-> "aether", recipe |-> r, context |-> ContextOf(Policy(profile))],
                         clock')
  /\ profile' = r /\ base' = Policy(profile)
  /\ won' = [won EXCEPT ![network] = [recipe |-> r, user |-> user, at |-> clock']]
  /\ UNCHANGED <<auto, network, user>>

\* Another carrier wins, or nobody does; the engine had failed by then, or not.
EngineLoses(winner, named, engineDone) ==
  LET route == [carrier |-> winner, recipe |-> None, context |-> ContextOf(Policy(profile))]
      after == IF winner = None THEN routes ELSE RecordWin(routes, network, route, clock') IN
  /\ clock < MaxTicks /\ clock' = clock + 1
  /\ routes' = RecordEngineFailure(after, network, engineDone, named, clock')
  /\ won' = [won EXCEPT ![network] = None]
  /\ UNCHANGED <<profile, base, auto, network, user>>

\* A saved profile, with nothing applied: another one, or the same again.
Choose(s) ==
  /\ user' = s /\ profile' = s /\ base' = None
  /\ UNCHANGED <<auto, network, clock, routes, won>>

\* current_network: the machine is on another one.
ChangeNetwork(n) ==
  /\ n # network /\ network' = n
  /\ UNCHANGED <<profile, base, auto, clock, routes, user, won>>

PlanNext ==
  \/ \E r \in ToSet(Plan) \intersect Passing : EngineWins(r)
  \/ \E winner \in (Carriers \ {"aether"}) \union {None}, named \in Remedies \union {None},
        engineDone \in BOOLEAN : EngineLoses(winner, named, engineDone)
  \/ \E s \in Later \union {user} : Choose(s)
  \/ \E n \in Networks : ChangeNetwork(n)

PlanSpec == PlanInit /\ [][PlanNext]_planVars

(***************************************************************************)
(* Properties.                                                             *)
(***************************************************************************)

\* What got out last time on this network, with these settings, is tried first,
\* whatever has been applied, chosen and undone since.
ProvenLeads ==
  LET w == won[network] IN
  w # None /\ network \in DOMAIN routes /\ clock - w.at < ForgetAfter /\ w.user = user
    => Head(Plan) = w.recipe

\* A winner never becomes the user's own requirement: the search after any number
\* of winners starts from what was saved.
SettingsSurvive == Policy(profile) = user

\* Before a session gives up it has tried every recipe there is for its settings.
EveryRecipeHasItsTurn ==
  auto \/ profile.protocol = "masque" =>
    {profile_for_attempt(n) : n \in 0 .. MaxAttempts} = ToSet(recipes(user, None, None))

\* The file stays small, and a search does not push out what it has just recorded.
MemoryIsBounded ==
  /\ Cardinality(DOMAIN routes) <= MaxNetworks
  /\ \A n \in Networks :
       won[n] # None /\ won[n].at = clock => n \in DOMAIN routes

=============================================================================

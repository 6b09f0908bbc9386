------------------------------ MODULE MCSearch ------------------------------
(* Instance of Search: five pages of three domains and two sites, a text     *)
(* with a freshness and a platform, and one with the name of a domain in it. *)
(* A behaviour is about one of the two: searches of one text meet those of   *)
(* another only in what is stored.                                           *)
EXTENDS Search

CONSTANT c1

VARIABLE asked   \* the requests that are made, and the clicks' texts

MCPage     == 1..5
MCDomainOf == <<"a", "a", "b", "a", "c">>
MCSiteOf   == <<"s", "s", "s", "s", "c">>
MCLangOf   == <<"en", "es", "es", "en", "es">>
MCSchemaOf == <<"article", "none", "article", "article", "none">>
MCRecency  == <<-1, 0, -1, -1, 60>>

\* "news" looks for fresh pages and a platform, "shop" is the name of a domain
\* and, once page 5 is stored, a word of its own; "Shop" is the same typed with
\* a capital.
MCText     == {"news", "shop", "Shop"}
MCNorm     == [news |-> "news", shop |-> "shop", Shop |-> "shop"]
MCPlans    == [t \in MCText |-> 1..4]
MCFresh    == [news |-> TRUE, shop |-> FALSE, Shop |-> FALSE]
MCPlatform == [news |-> "s", shop |-> None, Shop |-> None]
MCNavigational == [news |-> TRUE, shop |-> FALSE, Shop |-> FALSE]
MCBrand    == [news |-> None, shop |-> "b", Shop |-> "b"]
MCMentions == [news |-> {1}, shop |-> {5}, Shop |-> {}]
MCNavPages == [news |-> {2}, shop |-> {1, 2, 3}, Shop |-> {1, 2, 3}]
\* The page of the domain that is named comes first.
MCNavScore == [t \in MCText |-> IF t = "news" THEN <<1800, 1700, 1600, 1500, 1550>>
                                ELSE <<1600, 1700, 1800, 1500, 1550>>]

\* Without the vocabulary the plans put another token first, which page 3 has
\* and page 4 has not.
Levels(t) == IF t = "news" THEN <<2, 4, 4, 4, 1>> ELSE <<1, 4, 4, 4, 4>>
MCLevel(t, m, p) ==
  IF m = Flat /\ p = 3 THEN 3 ELSE IF m = Flat /\ p = 4 THEN 5 ELSE Levels(t)[p]

\* The relaxed plan has more tokens to score; page 4 is all about them, and gets
\* a better score than in a stricter plan.
MCBm25(t, m, k, S, p) ==
  <<9, 8, 8, 5, 3>>[p] + (IF k = 4 /\ p \in {1, 4} THEN 4 ELSE 0) - Cardinality(S)

MCWorth(t, m, nav, p) ==
  <<300, 200, 100, 0, 50>>[p] + (IF nav /\ p = 3 THEN 400 ELSE 0) + IF m = Skewed THEN 10 * p ELSE 0

\* Domain "b" is the one named, page 5's begins with its name.
MCDomainBonus ==
  [t \in MCText |-> [named \in BOOLEAN |->
     IF t = "news" THEN <<30, 30, 0, 30, 0>> ELSE IF named THEN <<0, 0, 30, 0, 15>> ELSE <<0, 0, 0, 0, 0>>]]

R(t, l, d, s, o, n) == [text |-> t, lang |-> l, domain |-> d, schema |-> s, offset |-> o, limit |-> n]
News == {R("news", "es", None, None, 2, 2)}
Shop == {R("shop", None, None, "article", 0, 2), R("Shop", None, None, "article", 0, 2)}
MCRequest == News \cup Shop

MCInit == SearchInit /\ asked \in {News, Shop}
MCNext ==
  /\ SearchNext /\ UNCHANGED asked
  /\ \A c \in Client : req'[c] \in asked \cup {Idle}
  /\ \A t \in Text : clicks'[t] # clicks[t] => t \in {r.text : r \in asked}
MCSpec == MCInit /\ [][MCNext]_<<searchState, asked>> /\ SearchFairness
=============================================================================

------------------------------- MODULE Search -------------------------------
(* A search: the result cache, the lookups that complete the query, retrieval *)
(* by up to seven SQL statements that time out or fail one by one, ranking,  *)
(* and the clicks that come back (internal/storage/sqlite_search.go).        *)
(* Crawler and other clients write while a search is between two of its      *)
(* statements.  What a text matches and what a page is worth for it are      *)
(* constants, which know the statistics the query was built from.            *)
EXTENDS Integers, FiniteSets, SequencesExt

CONSTANTS
  Client,
  Page,                      \* page IDs, natural numbers
  DomainOf, SiteOf, LangOf, SchemaOf,   \* per page; the site is the registered domain
  Recency,                   \* per page: the bonus for its date, -1 without one in the last 180 days
  Text, Norm,                \* query texts and what normalizeSearchText makes of them
  Plans,                     \* per text: the plans that have an FTS query
  Level(_, _, _),            \* of a text, statistics and a page: the strictest plan that matches, 5: none
  Bm25(_, _, _, _, _),       \* of a text, statistics, a plan, the pages in the index and a page: -bm25
  Worth(_, _, _, _),         \* of a text, statistics, the intent and a page: the rest of its score
  DomainBonus,               \* per text, and whether a lookup named its domain: what a page's domain adds
  NavPages, NavScore,        \* per text: what the navigational statement matches, and its score of a page
  Fresh, Platform, Navigational, Brand,   \* per text
  Mentions,                  \* per text: the pages that have it as a word
  Request,                   \* the requests: [text, lang, domain, schema, offset, limit]
  SecondaryLang, LanguageBoost, SecondaryLanguageBoost,
  CandFloor, CandCeil, EarlyMax, NavBelow,   \* 300, 500, 100, 30
  Top, Middle,               \* positions with one and with two pages per domain: 3, 10
  Early,                     \* the pages that are stored from the beginning
  Clickable,                 \* the pages somebody may click
  Recrawled,                 \* the pages that are crawled again
  MaxClicks,                 \* bound: clicks on a page for a text
  None, Skewed, Flat

\* The statistics of the tokens of a text: those of a set of pages; Skewed, if
\* number of documents and vocabulary do not belong together; Flat without
\* vocabulary; None for a text without tokens.
Stats == (SUBSET Page) \cup {None, Skewed, Flat}

\* What newSearchQuery makes of a text: only the phrase may consist of stopwords,
\* and the name of a platform makes a query navigational, its freshness does not;
\* only other queries with tokens may turn out to name a domain.
QueryIntent(t) ==
  /\ Plans[t] \in {{1}, 1..4}
  /\ IF Platform[t] # None THEN Navigational[t] ELSE Fresh[t] => ~Navigational[t]
  /\ Navigational[t] \/ Plans[t] = {1} => Brand[t] = None

ASSUME SearchAssumption ==
  /\ Page \subseteq Nat /\ Early \subseteq Page /\ IsFiniteSet(Early) /\ Clickable \subseteq Page
  /\ Recency \in [Page -> Int]
  /\ Norm \in [Text -> Text] /\ NavPages \in [Text -> SUBSET Page] /\ NavScore \in [Text -> [Page -> Int]]
  /\ DomainBonus \in [Text -> [BOOLEAN -> [Page -> Nat]]]
  /\ Navigational \in [Text -> BOOLEAN] /\ \A t \in Text : QueryIntent(t)
  /\ \A r \in Request : r.text \in Text /\ r.offset \in Nat /\ r.limit \in Nat
  /\ CandFloor \in Nat \ {0} /\ CandCeil \in Nat /\ EarlyMax \in Nat /\ MaxClicks \in Nat
  /\ LanguageBoost \in Int /\ SecondaryLanguageBoost \in Nat /\ Top \in Nat

ASSUME ScoresAssumption ==
  \A t \in Text, m \in Stats, p \in Page :
    /\ Level(t, m, p) \in 1..5
    /\ \A nav \in BOOLEAN : Worth(t, m, nav, p) \in Int
    /\ \A k \in 1..4, S \in SUBSET Page : Bm25(t, m, k, S, p) \in Int

VARIABLES
  stored,     \* pages in content.db
  described,  \* those of them with a description
  clicks,     \* search_clicks, per query text and page
  cache,      \* per key: the cached answer
  words,      \* per text: what isKnownFTSWord has cached
  idf,        \* per text: what getSearchIDFMap has cached for its tokens
  pc, req, plan, pool, total,   \* per client: its search
  stats,      \* per client: the IDF map of its query
  intent,     \* per client: the query is navigational
  expired,    \* per client: the context of the search has ended
  out,        \* per client: its last answer
  before,     \* history: the pages stored when the search began
  hindered,   \* history: a statement of the search failed or timed out
  touched,    \* history: the search met a write, or something outdated in a cache
  tidy        \* history: keys with the answer of a search that was neither, and no write since

dataVars == <<stored, described, clicks>>
lookups == <<words, idf>>
query == <<req, stats, intent>>
progress == <<plan, pool, total>>
searchVars == <<pc, query, progress, expired, out, before, hindered, touched>>
searchState == <<dataVars, cache, lookups, searchVars, tidy>>

MinOf(a, b) == IF a < b THEN a ELSE b
MaxOf(a, b) == IF a > b THEN a ELSE b
Modes == {"phrase", "exact", "core", "relaxed", "recent", "nav"}
PlanMode == <<"phrase", "exact", "core", "relaxed">>
Candidates == [id : Page, mode : Modes, sqlScore : Int, snippet : BOOLEAN]
Stage == {"idle", "word", "domain", "docs", "idf", "plan", "count", "recent", "diverse", "nav",
          "rank", "done"}

\* The cache key holds the normalised text.
Key(r) == [r EXCEPT !.text = Norm[@]]
Keys == {Key(r) : r \in Request}

-----------------------------------------------------------------------------
(* Retrieval.                                                              *)

\* searchCandidateLimit and the threshold of the early exit.
CandidateLimit(r) == MaxOf(CandFloor, MinOf(CandCeil, r.offset + 8 * r.limit + 30))
EarlyExit(r) == MinOf(CandidateLimit(r) \div 2, EarlyMax)

\* ORDER BY key[p] DESC LIMIT n
Best(S, n, key) ==
  {p \in S : Cardinality({q \in S : key[q] > key[p] \/ (key[q] = key[p] /\ q < p)}) < n}

\* A row of the result; the clicks are looked up under the text as it was typed,
\* and the snippet is the description.
Candidate(t, p, mode, score) ==
  [id |-> p, mode |-> mode, sqlScore |-> score + 50 * clicks[t][p], snippet |-> p \in described]

\* What plan k matches, and its scores: a plan consists of the tokens the
\* statistics put first, so both depend on them.
Matching(t, m, k) == {p \in stored : Level(t, m, p) <= k}
PlanScore(t, m, k) == [p \in Page |-> Bm25(t, m, k, stored, p)]
BestPlan(t) == CHOOSE k \in Plans[t] : \A j \in Plans[t] : k <= j

\* searchFTSCandidates: the pages of the domain the text names, or turned out
\* to name, come first, then those of domains that begin with it.
FTSOrder(t, m, k, nav) ==
  [p \in Page |-> PlanScore(t, m, k)[p] + DomainBonus[t][nav /\ ~Navigational[t]][p]]

FTSPages(r, m, k, nav) ==
  Best(Matching(r.text, m, k), CandidateLimit(r), FTSOrder(r.text, m, k, nav))

SearchFTS(r, m, k, nav) ==
  {Candidate(r.text, p, PlanMode[k], PlanScore(r.text, m, k)[p]) : p \in FTSPages(r, m, k, nav)}

\* searchRecentFTSCandidates
SearchRecent(r, m) ==
  LET score == PlanScore(r.text, m, BestPlan(r.text))
      order == [p \in Page |-> score[p] + Recency[p]] IN
  {Candidate(r.text, p, "recent", score[p]) :
     p \in Best({q \in Matching(r.text, m, BestPlan(r.text)) : Recency[q] >= 0},
                MinOf(CandidateLimit(r), 300), order)}

\* searchFTSCandidatesExcludingDomain
SearchExcluding(r, m) ==
  LET k == BestPlan(r.text)
      score == PlanScore(r.text, m, k) IN
  {Candidate(r.text, p, PlanMode[k], score[p]) :
     p \in Best({q \in Matching(r.text, m, k) : SiteOf[q] # Platform[r.text]},
                MaxOf(30, MinOf(CandidateLimit(r) \div 3, 100)), score)}

\* searchNavigationalCandidates: no full-text match, and another scale of scores.
SearchNavigational(r) ==
  LET score == [p \in Page |-> NavScore[r.text][p] +
                  IF r.lang # None /\ LangOf[p] = r.lang THEN LanguageBoost \div 10 ELSE 0]
      order == [p \in Page |-> score[p] + 50 * clicks[r.text][p]] IN
  {Candidate(r.text, p, "nav", score[p]) :
     p \in Best(stored \cap NavPages[r.text], MinOf(CandidateLimit(r), 60), order)}

\* d takes the place of the copy c: a greater SQL score, or the only snippet.
Replaces(d, c) == d.sqlScore > c.sqlScore \/ (~c.snippet /\ d.snippet)

\* Mutant: the copies are not told from each other.
BugMerge(old, new) == old \cup new

\* mergeSearchCandidates: one copy of each page, which inherits a snippet.
Merge(old, new) ==
  {c \in old : \A d \in new : d.id = c.id => ~Replaces(d, c)}
  \cup {[d EXCEPT !.snippet = @ \/ \E c \in old : c.id = d.id /\ c.snippet] :
          d \in {e \in new : \A c \in old : c.id = e.id => Replaces(e, c)}}

Ids(P) == {c.id : c \in P}

-----------------------------------------------------------------------------
(* Ranking.                                                                *)

ModeBonus == [phrase |-> 180, exact |-> 140, core |-> 100, relaxed |-> 60, recent |-> 220, nav |-> 120]

\* scoreSearchCandidate, in hundredths: the SQL score counts 40 times, and once
\* more as a signal of the users, up to 500.
Rank(c, t, m, lang, nav) ==
  100 * (Worth(t, m, nav, c.id) + ModeBonus[c.mode]
         + IF lang = None THEN 0
           ELSE IF LangOf[c.id] = lang THEN LanguageBoost
           ELSE IF LangOf[c.id] = SecondaryLang THEN SecondaryLanguageBoost ELSE 0)
  + 4000 * c.sqlScore + MinOf(c.sqlScore, 500)

\* The sequence of the elements of S in the order lt, a set of pairs.
Sorted(S, lt) ==
  [i \in 1..Cardinality(S) |-> CHOOSE x \in S : Cardinality({y \in S : <<y, x>> \in lt}) = i - 1]

\* rerankSearchCandidates; the ID stands for homepage, time of crawl and URL.
Rerank(P, r, m, nav) ==
  LET rank(c) == Rank(c, r.text, m, r.lang, nav)
      ahead(c, d) == rank(c) > rank(d) \/ (rank(c) = rank(d) /\ c.id < d.id)
      ranked == Sorted(P, {cd \in P \X P : ahead(cd[1], cd[2])}) IN
  [i \in 1..Len(ranked) |-> ranked[i].id]

\* promoteLanguagePerDomain: of every site, the first page in the best language
\* goes before the site's first page.
PromoteLanguage(s, lang) ==
  LET Of(i)    == {j \in DOMAIN s : SiteOf[s[j]] = SiteOf[s[i]]}
      Score(i) == IF LangOf[s[i]] = lang THEN 2
                  ELSE IF SecondaryLang # None /\ LangOf[s[i]] = SecondaryLang THEN 1 ELSE 0
      IsBest(i) == /\ Score(i) > 0
                   /\ \A j \in Of(i) : Score(j) < Score(i) \/ (Score(j) = Score(i) /\ i <= j)
      First(i) == CHOOSE j \in Of(i) : \A k \in Of(i) : j <= k
      place(i) == IF IsBest(i) THEN 2 * First(i) - 1 ELSE 2 * i
      order    == Sorted(DOMAIN s, {ij \in (DOMAIN s) \X (DOMAIN s) : place(ij[1]) < place(ij[2])}) IN
  [i \in DOMAIN s |-> s[order[i]]]

\* maxPerDomainAtPosition, for a list of n results.
MaxPerDomain(n) == IF n < Top THEN 1 ELSE IF n < Middle THEN 2 ELSE 3

CountOf(s, d) == Cardinality({i \in DOMAIN s : DomainOf[s[i]] = d})

\* diversifyByDomain places a candidate if its domain has not had its share, or
\* defers it.
Place(acc, p) ==
  IF CountOf(acc.result, DomainOf[p]) < MaxPerDomain(Len(acc.result))
  THEN [acc EXCEPT !.result = Append(@, p)]
  ELSE [acc EXCEPT !.deferred = Append(@, p)]

\* One pass, over what the pass before has deferred.
Pass(last) ==
  LET after[i \in 0..Len(last.deferred)] ==
        IF i = 0 THEN [last EXCEPT !.deferred = <<>>] ELSE Place(after[i - 1], last.deferred[i]) IN
  after[Len(last.deferred)]

\* Mutant: what is deferred is given up after a pass.
BugPasses(s) == Pass([result |-> <<>>, deferred |-> s]).result

\* The passes, until one places nothing: there are no more of them than
\* results, and those after it change nothing.
Passes(s) ==
  LET after[n \in 0..Len(s)] ==
        IF n = 0 THEN [result |-> <<>>, deferred |-> s] ELSE Pass(after[n - 1]) IN
  after[Len(s)].result \o after[Len(s)].deferred

\* diversifyByDomain
Diversify(s) == IF Len(s) <= Top THEN s ELSE Passes(s)

\* The elements of s at the positions I.
Kept(s, I) ==
  LET at == Sorted(I, {ij \in I \X I : ij[1] < ij[2]}) IN
  [k \in 1..Cardinality(I) |-> s[at[k]]]

\* filterAndDiversifyCandidates
FilterAndDiversify(s, r) ==
  LET kept == Kept(s, {i \in DOMAIN s : /\ r.domain \in {None, DomainOf[s[i]]}
                                       /\ r.schema \in {None, SchemaOf[s[i]]}}) IN
  IF r.domain = None THEN Diversify(kept) ELSE kept

\* Phases 2 and 3 of SearchPages.
Ranked(P, r, m, nav) ==
  LET reranked == Rerank(P, r, m, nav) IN
  FilterAndDiversify(IF r.lang = None THEN reranked ELSE PromoteLanguage(reranked, r.lang), r)

\* The answer: a page of the list, and the total.
Answer(P, n, r, m, nav) ==
  LET s == Ranked(P, r, m, nav) IN
  [results |-> SubSeq(s, r.offset + 1, MinOf(r.offset + r.limit, Len(s))),
   total |-> IF r.domain # None \/ r.schema # None \/ n < Len(s) THEN Len(s) ELSE n]

-----------------------------------------------------------------------------
(* The search of a client.                                                 *)

\* The plans that have an FTS query are run in order.
NextPlan(t, k) == IF \E j \in Plans[t] : j > k
                  THEN CHOOSE j \in Plans[t] : j > k /\ \A i \in Plans[t] : i > k => j <= i
                  ELSE 5

\* The stages after the plans, of which a query takes those that concern it.
NextStage(t, nav, done) ==
  IF "recent" \notin done /\ Fresh[t] /\ Plans[t] # {} THEN "recent"
  ELSE IF "diverse" \notin done /\ Platform[t] # None /\ Plans[t] # {} THEN "diverse"
  ELSE IF "nav" \notin done /\ nav THEN "nav" ELSE "rank"

Idle == [text |-> None, lang |-> None, domain |-> None, schema |-> None, offset |-> 0, limit |-> 0]

SearchOK ==
  /\ stored \subseteq Page /\ described \subseteq Page /\ clicks \in [Text -> [Page -> 0..MaxClicks]]
  /\ words \in [Text -> {"none", "known", "unknown"}] /\ idf \in [Text -> Stats]
  /\ pc \in [Client -> Stage] /\ req \in [Client -> Request \cup {Idle}]
  /\ plan \in [Client -> 1..5] /\ total \in [Client -> Nat]
  /\ pool \in [Client -> SUBSET Candidates]
  /\ \A c \in Client : \A x, y \in pool[c] : x.id = y.id => x = y
  /\ stats \in [Client -> Stats] /\ intent \in [Client -> BOOLEAN] /\ expired \in [Client -> BOOLEAN]
  /\ before \in [Client -> SUBSET Page] /\ hindered \in [Client -> BOOLEAN]
  /\ touched \in [Client -> BOOLEAN] /\ tidy \subseteq Keys

SearchInit ==
  /\ stored = Early /\ described = {}
  /\ clicks = [t \in Text |-> [p \in Page |-> 0]]
  /\ cache = [k \in Keys |-> None]
  /\ words = [t \in Text |-> "none"] /\ idf = [t \in Text |-> None]
  /\ pc = [c \in Client |-> "idle"] /\ req = [c \in Client |-> Idle]
  /\ plan = [c \in Client |-> 1] /\ pool = [c \in Client |-> {}] /\ total = [c \in Client |-> 0]
  /\ stats = [c \in Client |-> None]
  /\ intent = [c \in Client |-> FALSE] /\ expired = [c \in Client |-> FALSE]
  /\ out = [c \in Client |-> None]
  /\ before = [c \in Client |-> {}] /\ hindered = [c \in Client |-> FALSE]
  /\ touched = [c \in Client |-> FALSE] /\ tidy = {}

Goto(c, l) == pc' = [pc EXCEPT ![c] = l]
Hinder(c, ok) == hindered' = [hindered EXCEPT ![c] = @ \/ ~ok]
Touch(c, wrong) == touched' = [touched EXCEPT ![c] = @ \/ wrong]

\* The cache has the answer.
Hit(c, r) ==
  /\ pc[c] = "idle" /\ cache[Key(r)] # None
  /\ Goto(c, "done") /\ req' = [req EXCEPT ![c] = r]
  /\ out' = [out EXCEPT ![c] = cache[Key(r)]]
  /\ UNCHANGED <<dataVars, cache, lookups, stats, intent, progress, expired, before, hindered, touched, tidy>>

\* enrichQueryWithDomainLookup is for the texts that may be the name of a domain;
\* statistics are for those with tokens.
MayNameDomain(t) == ~Navigational[t] /\ ~Fresh[t] /\ Brand[t] # None
HasTokens(t) == Plans[t] # {1}
Enriched(t) == IF HasTokens(t) THEN "docs" ELSE "plan"

\* A miss: the search begins.
Miss(c, r) ==
  /\ pc[c] = "idle" /\ cache[Key(r)] = None
  /\ Goto(c, IF MayNameDomain(r.text) THEN "word" ELSE Enriched(r.text))
  /\ req' = [req EXCEPT ![c] = r]
  /\ intent' = [intent EXCEPT ![c] = Navigational[r.text]]
  /\ before' = [before EXCEPT ![c] = stored]
  /\ UNCHANGED <<dataVars, cache, lookups, stats, progress, expired, out, hindered, touched, tidy>>

KnownWord(n) == stored \cap Mentions[n] # {}

\* isKnownFTSWord: an error is remembered as an unknown word.
AskWord(c, ok) ==
  LET n == Norm[req[c].text]
      known == IF words[n] # "none" THEN words[n] = "known" ELSE ok /\ KnownWord(n) IN
  /\ pc[c] = "word" /\ (expired[c] => ~ok)
  /\ words' = [words EXCEPT ![n] = IF known THEN "known" ELSE "unknown"]
  /\ Goto(c, IF known THEN Enriched(req[c].text) ELSE "domain")
  /\ Hinder(c, ok \/ words[n] # "none") /\ Touch(c, known # KnownWord(n))
  /\ UNCHANGED <<dataVars, cache, idf, query, progress, expired, out, before, tidy>>

\* The unknown word is looked for among the domains.
FindDomain(c, ok) ==
  LET t == req[c].text IN
  /\ pc[c] = "domain" /\ (expired[c] => ~ok)
  /\ intent' = [intent EXCEPT ![c] = ok /\ \E p \in stored : DomainOf[p] = Brand[t]]
  /\ Goto(c, Enriched(t)) /\ Hinder(c, ok)
  /\ UNCHANGED <<dataVars, cache, lookups, req, stats, progress, expired, out, before, touched, tidy>>

\* getSearchIDFMap: the number of documents is asked for first, and guessed if
\* that fails.
CountDocs(c, ok) ==
  /\ pc[c] = "docs" /\ (expired[c] => ~ok)
  /\ stats' = [stats EXCEPT ![c] = IF ok THEN stored ELSE Skewed]
  /\ Goto(c, "idf") /\ Hinder(c, ok)
  /\ UNCHANGED <<dataVars, cache, lookups, req, intent, progress, expired, out, before, touched, tidy>>

\* Then the vocabulary, for what is not in the cache.  What comes of both is
\* cached even if the number of documents was a guess.
LoadIDF(c, ok) ==
  LET n == Norm[req[c].text]
      read == IF stats[c] = stored THEN stored ELSE Skewed
      map == IF idf[n] # None THEN idf[n] ELSE IF ok THEN read ELSE Flat IN
  /\ pc[c] = "idf" /\ (expired[c] => ~ok)
  /\ stats' = [stats EXCEPT ![c] = map]
  /\ idf' = IF map = Flat THEN idf ELSE [idf EXCEPT ![n] = map]
  /\ Goto(c, "plan") /\ Hinder(c, ok \/ idf[n] # None) /\ Touch(c, map # stored)
  /\ UNCHANGED <<dataVars, cache, words, req, intent, progress, expired, out, before, tidy>>

\* The ten seconds of a search are over.
Timeout(c) ==
  /\ pc[c] \notin {"idle", "rank", "done"} /\ ~expired[c]
  /\ expired' = [expired EXCEPT ![c] = TRUE] /\ Hinder(c, FALSE)
  /\ UNCHANGED <<dataVars, cache, lookups, pc, query, progress, out, before, touched, tidy>>

Later(c, done) == Goto(c, NextStage(req[c].text, intent[c], done))

\* The loop over the plans is over, or left because the time is up.
PlansDone(c) ==
  /\ pc[c] = "plan" /\ (expired[c] \/ plan[c] = 5)
  /\ Later(c, {})
  /\ UNCHANGED <<dataVars, cache, lookups, query, progress, expired, out, before, hindered, touched, tidy>>

Running(c) == pc[c] = "plan" /\ ~expired[c] /\ plan[c] # 5

\* Mutant: a plan without rows ends the loop.
BugPlanRows(c) ==
  LET rows == SearchFTS(req[c], stats[c], plan[c], intent[c]) IN
  /\ Running(c)
  /\ pool' = [pool EXCEPT ![c] = Merge(@, rows)]
  /\ IF rows = {}
     THEN plan' = [plan EXCEPT ![c] = 5] /\ UNCHANGED <<pc, total>>
     ELSE Goto(c, "count") /\ total' = [total EXCEPT ![c] = Cardinality(rows)] /\ UNCHANGED plan
  /\ UNCHANGED <<dataVars, cache, lookups, query, expired, out, before, hindered, touched, tidy>>

\* A plan returns rows; if there are any, they are the count until it is known.
PlanRows(c) ==
  LET rows == SearchFTS(req[c], stats[c], plan[c], intent[c]) IN
  /\ Running(c)
  /\ pool' = [pool EXCEPT ![c] = Merge(@, rows)]
  /\ IF rows = {}
     THEN plan' = [plan EXCEPT ![c] = NextPlan(req[c].text, @)] /\ UNCHANGED <<pc, total>>
     ELSE Goto(c, "count") /\ total' = [total EXCEPT ![c] = Cardinality(rows)] /\ UNCHANGED plan
  /\ UNCHANGED <<dataVars, cache, lookups, query, expired, out, before, hindered, touched, tidy>>

\* Mutant: the early exit comes one candidate too late.
BugCountRows(c, ok) ==
  LET t == req[c].text IN
  /\ pc[c] = "count" /\ (expired[c] => ~ok) /\ Goto(c, "plan")
  /\ total' = [total EXCEPT ![c] = IF ok THEN Cardinality(Matching(t, stats[c], plan[c])) ELSE @]
  /\ plan' = [plan EXCEPT ![c] = IF Cardinality(pool[c]) > EarlyExit(req[c]) THEN 5 ELSE NextPlan(t, @)]
  /\ Hinder(c, ok)
  /\ UNCHANGED <<dataVars, cache, lookups, query, pool, expired, out, before, touched, tidy>>

\* The rows are counted, without their limit; the loop ends early with enough.
CountRows(c, ok) ==
  LET t == req[c].text IN
  /\ pc[c] = "count" /\ (expired[c] => ~ok) /\ Goto(c, "plan")
  /\ total' = [total EXCEPT ![c] = IF ok THEN Cardinality(Matching(t, stats[c], plan[c])) ELSE @]
  /\ plan' = [plan EXCEPT ![c] = IF Cardinality(pool[c]) >= EarlyExit(req[c]) THEN 5 ELSE NextPlan(t, @)]
  /\ Hinder(c, ok)
  /\ UNCHANGED <<dataVars, cache, lookups, query, pool, expired, out, before, touched, tidy>>

\* A plan takes longer than its own timeout: the next one is tried.
PlanTimeout(c) ==
  /\ Running(c)
  /\ plan' = [plan EXCEPT ![c] = NextPlan(req[c].text, @)]
  /\ Hinder(c, FALSE)
  /\ UNCHANGED <<dataVars, cache, lookups, pc, query, pool, total, expired, out, before, touched, tidy>>

\* Any other error of a plan ends the search.
PlanError(c) ==
  /\ Running(c)
  /\ Goto(c, "done") /\ Hinder(c, FALSE)
  /\ UNCHANGED <<dataVars, cache, lookups, query, progress, expired, out, before, touched, tidy>>

\* A statement whose errors are only logged.
Extra(c, ok, rows, done) ==
  /\ pool' = [pool EXCEPT ![c] = IF expired[c] \/ ~ok THEN @ ELSE Merge(@, rows)]
  /\ Hinder(c, ok) /\ Later(c, done)
  /\ UNCHANGED <<dataVars, cache, lookups, query, plan, total, expired, out, before, touched, tidy>>

RecentRows(c, ok) == pc[c] = "recent" /\ Extra(c, ok, SearchRecent(req[c], stats[c]), {"recent"})
DiverseRows(c, ok) ==
  pc[c] = "diverse" /\ Extra(c, ok, SearchExcluding(req[c], stats[c]), {"recent", "diverse"})
NavRows(c, ok) ==
  /\ pc[c] = "nav"
  /\ Extra(c, ok, IF Cardinality(pool[c]) < NavBelow THEN SearchNavigational(req[c]) ELSE {},
           {"recent", "diverse", "nav"})

\* The rest of SearchPages: an error if the time was up before any row was
\* found; an answer otherwise, cached (if the cache takes it) unless the page
\* is past the end of the list.
Finish(c, kept) ==
  LET r == req[c]
      answer == Answer(pool[c], total[c], r, stats[c], intent[c]) IN
  /\ pc[c] = "rank" /\ Goto(c, "done")
  /\ out' = [out EXCEPT ![c] = IF expired[c] /\ pool[c] = {} THEN None ELSE answer]
  /\ IF kept /\ r.offset < Len(Ranked(pool[c], r, stats[c], intent[c]))
     THEN /\ cache' = [cache EXCEPT ![Key(r)] = answer]
          /\ tidy' = IF hindered[c] \/ touched[c] THEN tidy \ {Key(r)} ELSE tidy \cup {Key(r)}
     ELSE UNCHANGED <<cache, tidy>>
  /\ UNCHANGED <<dataVars, lookups, query, progress, expired, before, hindered, touched>>

\* The handler has answered.
Leave(c) ==
  /\ pc[c] = "done" /\ Goto(c, "idle")
  /\ req' = [req EXCEPT ![c] = Idle] /\ out' = [out EXCEPT ![c] = None]
  /\ plan' = [plan EXCEPT ![c] = 1] /\ pool' = [pool EXCEPT ![c] = {}]
  /\ total' = [total EXCEPT ![c] = 0]
  /\ stats' = [stats EXCEPT ![c] = None] /\ intent' = [intent EXCEPT ![c] = FALSE]
  /\ expired' = [expired EXCEPT ![c] = FALSE] /\ before' = [before EXCEPT ![c] = {}]
  /\ hindered' = [hindered EXCEPT ![c] = FALSE] /\ touched' = [touched EXCEPT ![c] = FALSE]
  /\ UNCHANGED <<dataVars, cache, lookups, tidy>>

-----------------------------------------------------------------------------
(* Around the searches.                                                    *)

\* History of a write.
Written ==
  /\ tidy' = {} /\ touched' = [c \in Client |-> touched[c] \/ pc[c] \notin {"idle", "done"}]
  /\ UNCHANGED <<cache, lookups, pc, query, progress, expired, out, before, hindered>>

\* A page is written by the crawler or an ingest.
Store(p) ==
  /\ p \notin stored /\ stored' = stored \cup {p}
  /\ Written /\ UNCHANGED <<described, clicks>>

\* A page is written again; of its texts only the description changes, from
\* nothing or to nothing.
Rewrite(p) ==
  /\ p \in stored
  /\ described' = IF p \in described THEN described \ {p} ELSE described \cup {p}
  /\ Written /\ UNCHANGED <<stored, clicks>>

\* RecordClick: the click is stored under the normalised text.
RecordClick(t, p) ==
  /\ p \in stored /\ clicks[Norm[t]][p] < MaxClicks
  /\ clicks' = [clicks EXCEPT ![Norm[t]][p] = @ + 1]
  /\ Written /\ UNCHANGED <<stored, described>>

\* Entries of the caches live 5 minutes and 24 hours.
ExpireAnswer(k) ==
  /\ cache[k] # None /\ cache' = [cache EXCEPT ![k] = None]
  /\ tidy' = tidy \ {k}
  /\ UNCHANGED <<dataVars, lookups, searchVars>>

\* Mutant: an unknown word stays in the cache.
BugExpireWord(t) ==
  /\ words[t] = "known" /\ words' = [words EXCEPT ![t] = "none"]
  /\ UNCHANGED <<dataVars, cache, idf, searchVars, tidy>>

ExpireWord(t) ==
  /\ words[t] # "none" /\ words' = [words EXCEPT ![t] = "none"]
  /\ UNCHANGED <<dataVars, cache, idf, searchVars, tidy>>

ExpireIDF(t) ==
  /\ idf[t] # None /\ idf' = [idf EXCEPT ![t] = None]
  /\ UNCHANGED <<dataVars, cache, words, searchVars, tidy>>

Lookup(c, ok) == AskWord(c, ok) \/ FindDomain(c, ok) \/ CountDocs(c, ok) \/ LoadIDF(c, ok)

SearchStep(c) ==
  \/ PlansDone(c) \/ PlanRows(c) \/ PlanTimeout(c) \/ PlanError(c) \/ Leave(c)
  \/ \E ok \in BOOLEAN : \/ Lookup(c, ok) \/ CountRows(c, ok) \/ RecentRows(c, ok)
                         \/ DiverseRows(c, ok) \/ NavRows(c, ok) \/ Finish(c, ok)

SearchNext ==
  \/ \E c \in Client : SearchStep(c) \/ Timeout(c)
  \/ \E c \in Client, r \in Request : Hit(c, r) \/ Miss(c, r)
  \/ (\E p \in Page : Store(p)) \/ \E p \in Recrawled : Rewrite(p)
  \/ \E t \in Text, p \in Clickable : RecordClick(t, p)
  \/ (\E k \in Keys : ExpireAnswer(k)) \/ \E t \in Text : ExpireWord(t) \/ ExpireIDF(t)

\* What every step of a search does, and nothing else: it goes to another
\* stage or another plan.
GoesOn(c) ==
  /\ pc[c] # "idle"
  /\ \E l \in Stage : Goto(c, l)
  /\ \E k \in 1..5 : plan' = [plan EXCEPT ![c] = k]

\* Statements end (they have timeouts) and entries of the caches expire.
SearchFairness ==
  /\ \A c \in Client : WF_<<pc, plan>>(GoesOn(c))
  /\ \A k \in Keys : WF_searchState(ExpireAnswer(k))
  /\ \A t \in Text : WF_searchState(ExpireWord(t)) /\ WF_searchState(ExpireIDF(t))

SearchSpec == SearchInit /\ [][SearchNext]_searchState /\ SearchFairness

-----------------------------------------------------------------------------

Computed(c) == pc[c] = "done" /\ out[c] # None /\ plan[c] # 1

\* A search that no error or timeout has hindered finds every page that was
\* stored when it began and matches, or enough of them for the early exit, in
\* whatever order pages and clicks are written between its statements.
NoMatchMissed ==
  \A c \in Client : Computed(c) /\ ~hindered[c] =>
    LET t == req[c].text IN
    \/ \A p \in before[c] : (\E k \in Plans[t] : Level(t, stats[c], p) <= k) => p \in Ids(pool[c])
    \/ Cardinality(pool[c]) >= EarlyExit(req[c])

\* Promotion by language and the passes of diversifyByDomain move candidates
\* and never lose or repeat one; and the first results come from as many
\* domains as there can be, whatever ranks first.  No answer, computed or cached,
\* shows more results than its total.
RankingSound ==
  /\ \A c \in Client : out[c] # None => Len(out[c].results) <= out[c].total
  /\ \A c \in Client : Computed(c) /\ req[c].domain = None =>
       LET s == Ranked(pool[c], req[c], stats[c], intent[c])
           D == {DomainOf[s[i]] : i \in DOMAIN s}
           n == MinOf(Top, Cardinality(D)) IN
       /\ IsInjective(s)
       /\ ToSet(s) = {p \in Ids(pool[c]) : req[c].schema \in {None, SchemaOf[p]}}
       /\ Len(s) > Top => Cardinality({DomainOf[s[i]] : i \in 1..n}) = n

\* What a search returns if nothing is written, nothing fails and no cached
\* lookup is outdated.  Its intent: an unknown word that is the name of a domain
\* makes it navigational.
RefIntent(t) ==
  \/ Navigational[t]
  \/ /\ MayNameDomain(t) /\ ~KnownWord(Norm[t])
     /\ \E p \in stored : DomainOf[p] = Brand[t]

RefStats(t) == IF HasTokens(t) THEN stored ELSE None

RefPages(r, k) == FTSPages(r, RefStats(r.text), k, RefIntent(r.text))
RefScore(r, k) == PlanScore(r.text, RefStats(r.text), k)
RefMatching(r, k) == Matching(r.text, RefStats(r.text), k)

\* The plans with rows, up to the first one with enough matches.
RefRun(r) ==
  LET found == {k \in Plans[r.text] : RefMatching(r, k) # {}} IN
  {k \in found : \A j \in found : Cardinality(RefMatching(r, j)) >= EarlyExit(r) => k <= j}

\* Of the copies of page p in the plans K, that of plan k has the best score, or
\* is the strictest of several that have.
Leads(r, K, k, p) ==
  /\ p \in RefPages(r, k)
  /\ \A j \in K : p \in RefPages(r, j) =>
       \/ RefScore(r, j)[p] < RefScore(r, k)[p]
       \/ RefScore(r, j)[p] = RefScore(r, k)[p] /\ k <= j

\* The best copies of the pages of the plans K.
Leading(r, K, k) == {p \in stored : Leads(r, K, k, p)}
LeadingRows(r, K, k) ==
  {Candidate(r.text, p, PlanMode[k], RefScore(r, k)[p]) : p \in Leading(r, K, k)}
PlansPool(r, K) == UNION {LeadingRows(r, K, k) : k \in K}

RefPlans(r) == PlansPool(r, RefRun(r))

\* And the rows of the stages that concern the query.
RefRecent(r) ==
  IF Fresh[r.text] /\ Plans[r.text] # {} THEN Merge(RefPlans(r), SearchRecent(r, RefStats(r.text)))
  ELSE RefPlans(r)

RefDiverse(r) ==
  IF Platform[r.text] # None /\ Plans[r.text] # {}
  THEN Merge(RefRecent(r), SearchExcluding(r, RefStats(r.text))) ELSE RefRecent(r)

Reference(r) ==
  LET nav == RefIntent(r.text)
      pool0 == RefDiverse(r) IN
  [pool  |-> IF nav /\ Cardinality(pool0) < NavBelow THEN Merge(pool0, SearchNavigational(r)) ELSE pool0,
   total |-> IF RefRun(r) = {} THEN 0 ELSE Cardinality(RefMatching(r, Max(RefRun(r)))),
   nav   |-> nav]

IsReference(answer, k) ==
  \E r \in {q \in Request : Key(q) = k} : \E ref \in {Reference(r)} :
    answer = Answer(ref.pool, ref.total, r, RefStats(r.text), ref.nav)

\* The statements of a search add up to the reference, in which a page counts
\* with its best copy, if nothing is written and nothing fails between the first
\* and the last and no lookup comes from an outdated cache; and the cached answer
\* stays the reference until something is written (SearchPages).
AnswersExact == \A k \in tidy : IsReference(cache[k], k)

\* Nothing is written, and no statement fails or times out.
Quiet == UNCHANGED dataVars /\ \A c \in Client : hindered'[c] => hindered[c]

\* Whatever partial, outdated or wrongly classified answers were cached: once
\* all is quiet, the cache comes to hold answers of undisturbed searches only.
CacheConverges == <>[][Quiet]_searchState => <>[](\A k \in Keys : cache[k] # None => k \in tidy)
=============================================================================

SPECIFICATION MCSpec
CONSTANTS
  c1 = c1  None = None  Skewed = Skewed  Flat = Flat
  Client = {c1}
  Page <- MCPage
  DomainOf <- MCDomainOf  SiteOf <- MCSiteOf  LangOf <- MCLangOf  SchemaOf <- MCSchemaOf
  Recency <- MCRecency
  Text <- MCText  Norm <- MCNorm  Plans <- MCPlans
  Level <- MCLevel  Bm25 <- MCBm25  Worth <- MCWorth  DomainBonus <- MCDomainBonus
  NavPages <- MCNavPages  NavScore <- MCNavScore
  Fresh <- MCFresh  Platform <- MCPlatform  Navigational <- MCNavigational
  Brand <- MCBrand  Mentions <- MCMentions
  Request <- MCRequest
  SecondaryLang = "en"
  LanguageBoost = 100  SecondaryLanguageBoost = 50
  CandFloor = 4  CandCeil = 4  EarlyMax = 100  NavBelow = 5
  Top = 2  Middle = 4
  Early = {1, 2, 3, 4}
  Clickable = {4}
  Recrawled = {2}
  MaxClicks = 1
INVARIANTS SearchOK NoMatchMissed RankingSound AnswersExact
PROPERTIES CacheConverges
CHECK_DEADLOCK FALSE

CONSTANTS
  Lower <- LowerCase
  Params <- SortedParams
  Tracking = {"utm_id"}
  Urls <- AllUrls
  Bases <- SomeBases
  Worth <- Weights
  Lists <- SomeLists
  Sitemaps <- SomeSitemaps
  Options <- SomeOptions
  MaxPages = 2
  MaxDepth = 3
SPECIFICATION DiscoverySpec
INVARIANTS
  DiscoveryInv
  BestSourceWins
  PagesComeOnce
  TruncationKeepsTheBest
  NothingFoundIsLost
  RequestsAreBounded

CONSTANTS
  semantic_html = semantic_html
  json_ld = json_ld
  microdata = microdata
  home = home
  plans = plans
  Null = Null
  Strategies <- Order
  Weight <- Weights
  Findings <- SomeFindings
  ApiAnswers <- Answers
  Dicts <- Objects
  Field <- Fields
  Parts <- Members
  Documents = {home, plans}
  Parsers = {company, pricing}
  Pricing = pricing
  Placeholder = {"unknown"}
  CacheSize = 1
  MaxRuns = 2
  MaxItems = 5
SPECIFICATION ParsingSpec
INVARIANTS
  ParsingInv
  BestValueWins
  ForeignItemsAreKnown
  PricesArrive

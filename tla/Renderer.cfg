CONSTANTS
  Fetches = {f1, f2}
  Pricings = {p1}
  ServicePages = {s1, s2}
  MaxVisits = 1
  MaxCloses = 1
  MaxCrashes = 1
  None = None
SPECIFICATION Spec
INVARIANTS
  RendererInv
  BrowsersAreAccountedFor
  HtmlIsKnown

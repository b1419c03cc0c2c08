\* Handlers in turn; handlers that overlap; missed deletions, panics and restarts.
SPECIFICATION Spec
CONSTANTS
  web = web
  db = db
  c1 = c1
  c2 = c2
  NoEndPoint = NoEndPoint
INVARIANTS EndPointsInSync RulesInSync RulesConfined OneVersionEach

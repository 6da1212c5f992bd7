SPECIFICATION IngestionSpec
CONSTANTS
  k1 = k1
  k2 = k2
  c1 = c1
  c2 = c2
  t1 = t1
  t2 = t2
  e1 = e1
  e2 = e2
  p = p
  q = q
  none = none
  Null = none
  Clients = {x, y}
  Keys = {k1, k2}
  Correlations = {c1, c2}
  Tickets = {t1, t2}
  Events = {e1, e2}
  Texts = {p, q}
  Bundles <- AllBundles
INVARIANTS
  CommittedWhole
  ReceiptAlwaysFound
PROPERTIES
  ImplementsLedger
  CallsAnswered

SPECIFICATION DraftSpec
CONSTANTS
  Null = Null
  Drafts = {d1}
  OperatorIds = {a}
  Clients = {x, y}
INVARIANTS
  StatusMatchesDecision
  ReadsAgree
PROPERTIES
  ImplementsReview
  DecisionsAnswered

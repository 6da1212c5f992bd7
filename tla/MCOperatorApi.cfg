SPECIFICATION ApiSpec
CONSTANTS
  Requests = {r1, r2}
  Expiries = {1}
  MaxTime = 1
SYMMETRY Symmetry
INVARIANTS
  NothingBeyondRole
  AnswersTellEffects
  CountersTellEffects

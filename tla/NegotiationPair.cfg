\* Two negotiations, two requests in flight: expiry rides on the answers to the other one.
SPECIFICATION Spec
CONSTANTS
  Negotiations = {n1, n2}
  NoNegotiation = NoNegotiation
  Requests = {r1, r2}
  MAX_ROUNDS = 2
SYMMETRY Symmetry
INVARIANTS OneContract RoundsBelowMax
PROPERTIES SettledIsFinal OverdueOnlyExpires

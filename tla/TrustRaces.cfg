SPECIFICATION Spec
CONSTANTS
  a1 = a1
  b1 = b1
  c1 = c1
  Agents = {a1, b1, c1}
  Subjects = {a1}
  Disputes = {d}
  Requests = {r1, r2}
  NoRecord = NoRecord
  ReportedAgent <- MCReported
  Observations <- MCObservations
  MaxOutcomes = 2
SYMMETRY Symmetry
INVARIANTS TypeOK NothingInvented NothingForgotten

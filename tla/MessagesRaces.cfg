SPECIFICATION System
CONSTANTS
  a = a
  b = b
  m = m
  Sessions = {s1, s2}
  Agents = {a, b}
  Team = Team
  MessageIds = {m}
  NoId = NoId
  Envelopes <- MCEnvelopes
  MaxTasks = 2
  Appenders = {p1, p2}
  Readers = {r1, r2}
  Data = {x}
  NoChunk = NoChunk
  LastSequence = 2
SYMMETRY Symmetry
INVARIANTS RepeatsOnlyTogether SendsAccounted StreamInOrder

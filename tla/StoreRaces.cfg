SPECIFICATION Spec
CONSTANTS
  Requests = {q1, q2}
  Limit = 2
  Threshold = 2
  MaxCount = 4
  Calls = {c1, c2}
  Users = {"buyer", "other"}
  Amounts = {1}
  Tiers = {"free", "paid"}
  MaxReports = 3
  MaxListings = 3
  u1 = u1
  t1 = t1
  t2 = t2
  Sessions = {s1, s2}
  Readers = {r}
  Agent = u1
  Teams = {t1, t2}
  GrantLists <- MCGrantLists
  NoMemory = NoMemory
  MaxCommits = 2
  P = 7
  G = 2
  H = 5
  Hash <- MCHash
  ProofTasks = {task}
  Actors = {u1, other}
  Parties <- MCParties
  Provers = {p1, p2}
  NoProof = NoProof
SYMMETRY Symmetry
INVARIANTS LimitHolds WindowsEnd UsageExact WritesCount AnswersAgree
PROPERTIES ProofsStand

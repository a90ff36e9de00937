\* Two requests at a time create and settle two escrows, with keys and tasks
\* they share, while one of two listings after the other may go away.  Once
\* both are gone nothing is left to do, so deadlock is not checked.
SPECIFICATION Spec
CONSTANTS
  Escrows = {e1, e2}
  Listings = {l1, l2}
  Keys = {k1}
  NoKey = NoKey
  Tasks = {t1}
  NoTask = NoTask
  NoEscrow = NoEscrow
  Requests = {r1, r2}
SYMMETRY Symmetry
INVARIANTS OneEscrowPerTask ReleasedAfterSuccess OneAnswerPerKey EscrowsAreListed
PROPERTIES LedgerSpec
CHECK_DEADLOCK FALSE

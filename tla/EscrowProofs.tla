------------------------------ MODULE EscrowProofs ------------------------------
(***************************************************************************)
(* Proofs about Escrow, for any number of escrows, listings, keys, tasks   *)
(* and requests.  The main one is that it implements EscrowLedger.         *)
(***************************************************************************)
EXTENDS Escrow, TLAPS

Creating(r) == Holding(r) /\ req[r].op = "create"

(* Two escrows a unique key of the table tells apart.                      *)
Differ(u, v) ==
  /\ u.key = v.key => u.key = NoKey
  /\ u.task = v.task => u.task = NoTask

(***************************************************************************)
(* The inductive invariant.                                                *)
(***************************************************************************)

(* What a request checked still holds: its row is locked, or is its own.   *)
RowsHeld ==
  \A r \in Requests : Holding(r) =>
    /\ req[r].escrow \in Escrows
    /\ IF req[r].op = "create" THEN status[req[r].escrow] = "absent"
                               ELSE status[req[r].escrow] \in From(req[r].op)

Exclusive ==
  \A r, q \in Requests :
    r # q /\ Holding(r) /\ Holding(q) => req[r].escrow # req[q].escrow

(* A release on its way out has seen the task succeed.                     *)
ReleasesEarned ==
  \A r \in Requests :
    /\ req[r].stage = "checked" => req[r].op = "create"
    /\ req[r].stage = "locked" => req[r].op = "release" /\ terms[req[r].escrow].task \in Tasks
    /\ req[r].op = "release" /\ req[r].stage = "flushed" =>
         terms[req[r].escrow].task \in succeeded \cup {NoTask}

(* The history of the tasks is up to date.                                 *)
SuccessKept == \A t \in Tasks : task[t] = "success" => t \in succeeded

(* An insertion in flight keeps its listing.                               *)
ListingsKept == \A r \in Requests : Creating(r) => req[r].terms.listing \in listed

(* The unique keys, over committed rows and insertions in flight.          *)
AllDistinct ==
  /\ \A e, f \in Escrows :
       e # f /\ status[e] \in Live /\ status[f] \in Live => Differ(terms[e], terms[f])
  /\ \A e \in Escrows, r \in Requests :
       status[e] \in Live /\ Creating(r) => Differ(terms[e], req[r].terms)
  /\ \A r, q \in Requests :
       r # q /\ Creating(r) /\ Creating(q) => Differ(req[r].terms, req[q].terms)

AnswersTrue ==
  \A k \in Keys : \A e \in answers[k] :
    status[e] \in Live \cup {"gone"} /\ (status[e] \in Live => terms[e].key = k)

LockInv == TypeOK /\ RowsHeld /\ Exclusive

IInv ==
  /\ LockInv
  /\ ReleasesEarned /\ ReleasedAfterSuccess /\ SuccessKept
  /\ ListingsKept /\ EscrowsAreListed
  /\ AllDistinct /\ AnswersTrue

LEMMA NoTermsType == NoTerms \in Terms /\ NoTerms.key = NoKey /\ NoTerms.task = NoTask
  BY ConstantsAssumption DEF NoTerms, Terms

LEMMA IdleType == Idle \in Request
  BY NoTermsType DEF Idle, Request

LEMMA InitIInv == Init => IInv
<1>. SUFFICES ASSUME Init PROVE IInv
  OBVIOUS
<1>1. TypeOK
  BY NoTermsType, IdleType DEF Init, TypeOK, Live
<1>2. \A r \in Requests : req[r].stage = "idle" /\ req[r].op = "create"
  BY DEF Init, Idle
<1>3. RowsHeld /\ Exclusive /\ ListingsKept /\ ReleasesEarned
  BY <1>2 DEF RowsHeld, Exclusive, ListingsKept, ReleasesEarned, Creating, Holding
<1>4. ReleasedAfterSuccess /\ EscrowsAreListed /\ AllDistinct
  BY <1>2 DEF Init, ReleasedAfterSuccess, EscrowsAreListed, AllDistinct, Live, Creating, Holding
<1>5. AnswersTrue /\ SuccessKept
  BY DEF Init, AnswersTrue, SuccessKept
<1>. QED
  BY <1>1, <1>3, <1>4, <1>5 DEF IInv, LockInv

(***************************************************************************)
(* The steps of a request before its commit: they change only the request. *)
(***************************************************************************)

RequestStep(r) ==
  \/ \E t \in Terms : CheckCreation(r, t)
  \/ \E e \in Escrows : Insert(r, e) \/ \E op \in Changes : Lock(r, op, e)
  \/ ReadTask(r) \/ Abort(r)

(* The request such a step leaves: it holds nothing, or what it held, or a *)
(* row it has just inserted or locked.                                     *)
LEMMA RequestAfter ==
  ASSUME TypeOK, NEW r \in Requests, RequestStep(r)
  PROVE  /\ UNCHANGED <<status, terms, listed, task, succeeded, answers>>
         /\ req' \in [Requests -> Request]
         /\ \A q \in Requests \ {r} : req'[q] = req[q]
<1>0. req \in [Requests -> Request]
  BY DEF TypeOK
<1>1. ASSUME NEW t \in Terms, CheckCreation(r, t)
      PROVE  req' \in [Requests -> Request] /\ \A q \in Requests \ {r} : req'[q] = req[q]
  BY <1>0, <1>1, IdleType DEF CheckCreation, Request
<1>2. ASSUME NEW e \in Escrows, Insert(r, e)
      PROVE  req' \in [Requests -> Request] /\ \A q \in Requests \ {r} : req'[q] = req[q]
  BY <1>0, <1>2 DEF Insert, Request
<1>3. ASSUME NEW e \in Escrows, NEW op \in Changes, Lock(r, op, e)
      PROVE  req' \in [Requests -> Request] /\ \A q \in Requests \ {r} : req'[q] = req[q]
  BY <1>0, <1>3, IdleType DEF Lock, Request
<1>4. ASSUME ReadTask(r)
      PROVE  req' \in [Requests -> Request] /\ \A q \in Requests \ {r} : req'[q] = req[q]
  BY <1>0, <1>4 DEF ReadTask, Request
<1>5. ASSUME Abort(r)
      PROVE  req' \in [Requests -> Request] /\ \A q \in Requests \ {r} : req'[q] = req[q]
  BY <1>0, <1>5, IdleType DEF Abort
<1>6. /\ UNCHANGED <<status, terms, listed, task, succeeded, answers>>
  BY <1>0 DEF RequestStep, CheckCreation, Insert, Lock, ReadTask, Abort
<1>. QED
  BY <1>1, <1>2, <1>3, <1>4, <1>5, <1>6 DEF RequestStep

(* The four ways in which it can leave it.                                 *)
Released(r) == ~Holding(r)' /\ req'[r].op = "create"

Kept(r) ==
  /\ Holding(r) /\ Holding(r)'
  /\ req'[r].op = req[r].op /\ req'[r].escrow = req[r].escrow /\ req'[r].terms = req[r].terms

Inserted(r) ==
  /\ ~Holding(r) /\ Holding(r)'
  /\ req'[r].op = "create" /\ req'[r].terms = req[r].terms
  /\ req[r].terms.listing \in listed
  /\ Unique(r, req[r].terms)
  /\ req'[r].escrow \in Escrows
  /\ status[req'[r].escrow] = "absent"
  /\ \A q \in Requests : req[q].escrow # req'[r].escrow

Locked(r) ==
  /\ ~Holding(r) /\ Holding(r)'
  /\ req'[r].op \in Changes
  /\ req'[r].escrow \in Escrows
  /\ status[req'[r].escrow] \in From(req'[r].op)
  /\ Free(r, req'[r].escrow)

LEMMA RequestOutcomes ==
  ASSUME TypeOK, ReleasesEarned, NEW r \in Requests, RequestStep(r)
  PROVE  Released(r) \/ Kept(r) \/ Inserted(r) \/ Locked(r)
<1>0. req \in [Requests -> Request]
  BY DEF TypeOK
<1>1. ASSUME NEW t \in Terms, CheckCreation(r, t)
      PROVE  Released(r)
  <2>1. req'[r].stage = "checked" /\ req'[r].op = "create"
    BY <1>0, <1>1 DEF CheckCreation, Idle
  <2>. QED
    BY <2>1 DEF Released, Holding
<1>5. ASSUME Abort(r)
      PROVE  Released(r)
  <2>1. req'[r].stage = "idle" /\ req'[r].op = "create"
    BY <1>0, <1>5 DEF Abort, Idle
  <2>. QED
    BY <2>1 DEF Released, Holding
<1>2. ASSUME ReadTask(r)
      PROVE  Kept(r)
  BY <1>0, <1>2 DEF ReadTask, Kept, Holding, Request
<1>3. ASSUME NEW e \in Escrows, Insert(r, e)
      PROVE  Inserted(r)
  BY <1>0, <1>3 DEF Insert, Inserted, Holding, Request, ReleasesEarned
<1>4. ASSUME NEW e \in Escrows, NEW op \in Changes, Lock(r, op, e)
      PROVE  Locked(r)
  BY <1>0, <1>4 DEF Lock, Locked, Holding, Idle
<1>. QED
  BY <1>1, <1>2, <1>3, <1>4, <1>5 DEF RequestStep

LEMMA RequestLocks ==
  ASSUME LockInv, ReleasesEarned, NEW r \in Requests, RequestStep(r)
  PROVE  LockInv'
<1>1. /\ UNCHANGED <<status, terms, listed, task, succeeded, answers>>
      /\ req' \in [Requests -> Request]
      /\ \A q \in Requests \ {r} : req'[q] = req[q]
  BY RequestAfter DEF LockInv
<1>2. Released(r) \/ Kept(r) \/ Inserted(r) \/ Locked(r)
  BY RequestOutcomes DEF LockInv
<1>3. TypeOK'
  BY <1>1 DEF LockInv, TypeOK
<1>4. \A q \in Requests \ {r} : Holding(q)' <=> Holding(q)
  BY <1>1 DEF Holding
<1>5. RowsHeld'
  <2>. SUFFICES ASSUME NEW q \in Requests, Holding(q)'
                PROVE  /\ req'[q].escrow \in Escrows
                       /\ IF req'[q].op = "create" THEN status[req'[q].escrow] = "absent"
                          ELSE status[req'[q].escrow] \in From(req'[q].op)
    BY <1>1 DEF RowsHeld, From
  <2>1. CASE q # r
    BY <1>1, <1>4, <2>1 DEF LockInv, RowsHeld
  <2>2. CASE q = r
    BY <1>2, <2>2 DEF LockInv, RowsHeld, Released, Kept, Inserted, Locked, Changes
  <2>. QED
    BY <2>1, <2>2
<1>6. Exclusive'
  <2>1. ASSUME NEW q \in Requests, q # r, Holding(q)', Holding(r)'
        PROVE  req'[q].escrow # req'[r].escrow
    <3>1. Holding(q) /\ req'[q] = req[q]
      BY <1>1, <1>4, <2>1
    <3>2. CASE Kept(r)
      BY <2>1, <3>1, <3>2 DEF Kept, LockInv, Exclusive
    <3>3. CASE Inserted(r)
      BY <3>1, <3>3 DEF Inserted
    <3>4. CASE Locked(r)
      BY <2>1, <3>1, <3>4 DEF Locked, Free
    <3>. QED
      BY <1>2, <2>1, <3>2, <3>3, <3>4 DEF Released
  <2>2. ASSUME NEW q \in Requests, NEW p \in Requests, q # p, q # r, p # r,
               Holding(q)', Holding(p)'
        PROVE  req'[q].escrow # req'[p].escrow
    BY <1>1, <1>4, <2>2 DEF LockInv, Exclusive
  <2>. QED
    BY <2>1, <2>2 DEF Exclusive
<1>. QED
  BY <1>3, <1>5, <1>6 DEF LockInv

LEMMA RequestKeepsRest ==
  ASSUME IInv, NEW r \in Requests, RequestStep(r)
  PROVE  IInv'
<1>0. TypeOK /\ ReleasesEarned /\ LockInv
  BY DEF IInv, LockInv
<1>1. /\ UNCHANGED <<status, terms, listed, task, succeeded, answers>>
      /\ req' \in [Requests -> Request]
      /\ \A q \in Requests \ {r} : req'[q] = req[q]
  BY <1>0, RequestAfter
<1>2. Released(r) \/ Kept(r) \/ Inserted(r) \/ Locked(r)
  BY <1>0, RequestOutcomes
<1>3. LockInv'
  BY <1>0, RequestLocks
<1>4. ReleasesEarned'
  <2>. SUFFICES ASSUME NEW q \in Requests
                PROVE  /\ req'[q].stage = "checked" => req'[q].op = "create"
                       /\ req'[q].stage = "locked" =>
                            req'[q].op = "release" /\ terms[req'[q].escrow].task \in Tasks
                       /\ req'[q].op = "release" /\ req'[q].stage = "flushed" =>
                            terms[req'[q].escrow].task \in succeeded \cup {NoTask}
    BY <1>1 DEF ReleasesEarned
  <2>1. CASE q # r
    BY <1>0, <1>1, <2>1 DEF ReleasesEarned
  <2>2. CASE q = r
    <3>0. req \in [Requests -> Request] /\ terms \in [Escrows -> Terms]
      BY <1>0 DEF TypeOK
    <3>1. ASSUME NEW t \in Terms, CheckCreation(r, t)
          PROVE  req'[r].stage = "checked" /\ req'[r].op = "create"
      BY <3>0, <3>1 DEF CheckCreation, Idle
    <3>6. ASSUME Abort(r)
          PROVE  req'[r].stage = "idle" /\ req'[r].op = "create"
      BY <3>0, <3>6 DEF Abort, Idle
    <3>2. ASSUME NEW e \in Escrows, Insert(r, e)
          PROVE  req'[r].stage = "flushed" /\ req'[r].op = "create"
      BY <1>0, <3>0, <3>2 DEF Insert, Request, ReleasesEarned
    <3>3. ASSUME NEW e \in Escrows, NEW op \in Changes, Lock(r, op, e)
          PROVE  /\ req'[r].op = op /\ req'[r].escrow = e
                 /\ req'[r].stage = IF op = "release" /\ terms[e].task # NoTask
                                    THEN "locked" ELSE "flushed"
                 /\ terms[e].task \in Tasks \cup {NoTask}
      BY <3>0, <3>3 DEF Lock, Idle, Terms
    <3>4. ASSUME ReadTask(r)
          PROVE  /\ req'[r].stage = "flushed" /\ req'[r].escrow = req[r].escrow
                 /\ terms[req[r].escrow].task \in succeeded
      <4>1. /\ terms[req[r].escrow].task \in Tasks
            /\ task[terms[req[r].escrow].task] = "success"
        BY <1>0, <3>4 DEF ReadTask, ReleasesEarned, COMPLETED_TASK_STATUSES
      <4>. QED
        BY <3>0, <3>4, <4>1 DEF ReadTask, Request, IInv, SuccessKept
    <3>. QED
      BY <1>0, <2>2, <3>1, <3>2, <3>3, <3>4, <3>6 DEF RequestStep, ReleasesEarned
  <2>. QED
    BY <2>1, <2>2
<1>5. ListingsKept'
  BY <1>1, <1>2
  DEF IInv, ListingsKept, Creating, Released, Kept, Inserted, Locked, Holding, Changes
<1>6. AllDistinct'
  <2>0. \A q \in Requests \ {r} : Creating(q)' <=> Creating(q)
    BY <1>1 DEF Creating, Holding
  <2>1. ASSUME NEW u, Creating(r)',
               (\E e \in Escrows : status[e] \in Live /\ u = terms[e])
                 \/ (\E q \in Requests \ {r} : Creating(q) /\ u = req[q].terms)
        PROVE  Differ(u, req'[r].terms) /\ Differ(req'[r].terms, u)
    <3>1. CASE Kept(r)
      BY <2>1, <3>1 DEF IInv, AllDistinct, Kept, Creating, Differ
    <3>2. CASE Inserted(r)
      <4>1. u \in Rivals(r)
        BY <2>1 DEF Rivals, Creating
      <4>. QED
        BY <3>2, <4>1 DEF Inserted, Unique, Differ
    <3>. QED
      BY <1>2, <2>1, <3>1, <3>2 DEF Released, Locked, Creating, Changes
  <2>2. \A e \in Escrows, q \in Requests :
          status[e] \in Live /\ Creating(q)' => Differ(terms[e], req'[q].terms)
    BY <1>1, <2>0, <2>1 DEF IInv, AllDistinct
  <2>3. \A p, q \in Requests :
          p # q /\ Creating(p)' /\ Creating(q)' => Differ(req'[p].terms, req'[q].terms)
    BY <1>1, <2>0, <2>1 DEF IInv, AllDistinct
  <2>4. \A e, f \in Escrows :
          e # f /\ status[e] \in Live /\ status[f] \in Live => Differ(terms[e], terms[f])
    BY DEF IInv, AllDistinct
  <2>. QED
    BY <1>1, <2>2, <2>3, <2>4 DEF AllDistinct, Differ
<1>7. ReleasedAfterSuccess' /\ EscrowsAreListed' /\ AnswersTrue' /\ SuccessKept'
  BY <1>1 DEF IInv, ReleasedAfterSuccess, EscrowsAreListed, AnswersTrue, SuccessKept
<1>. QED
  BY <1>3, <1>4, <1>5, <1>6, <1>7 DEF IInv

(***************************************************************************)
(* The commit of a request.                                                *)
(***************************************************************************)

(* What it does, row by row: the row the request held, and the others.     *)
LEMMA CommitEffect ==
  ASSUME LockInv, NEW r \in Requests, Commit(r)
  PROVE  /\ Holding(r) /\ req[r].escrow \in Escrows
         /\ req' = [req EXCEPT ![r] = Idle] /\ ~Holding(r)' /\ ~Creating(r)'
         /\ \A q \in Requests \ {r} : req'[q] = req[q]
         /\ status'[req[r].escrow] = To(req[r].op) /\ To(req[r].op) \in Live
         /\ terms'[req[r].escrow] =
              IF req[r].op = "create" THEN req[r].terms ELSE terms[req[r].escrow]
         /\ \A e \in Escrows \ {req[r].escrow} :
              status'[e] = status[e] /\ terms'[e] = terms[e]
         /\ \A q \in Requests \ {r} : Holding(q) => req[q].escrow # req[r].escrow
         /\ TypeOK'
<1>0. /\ req \in [Requests -> Request] /\ terms \in [Escrows -> Terms]
      /\ status \in [Escrows -> Live \cup {"absent", "gone"}]
      /\ answers \in [Keys -> SUBSET Escrows]
  BY DEF LockInv, TypeOK
<1>1. req[r].stage = "flushed" /\ Holding(r)
  BY DEF Commit, Holding
<1>2. req[r].escrow \in Escrows
  BY <1>1 DEF LockInv, RowsHeld
<1>3. req[r].op \in Changes \cup {"create"} /\ req[r].terms \in Terms
  BY <1>0 DEF Request
<1>4. To(req[r].op) \in Live
  BY <1>3 DEF To, Live, Changes
<1>5. req' = [req EXCEPT ![r] = Idle] /\ req'[r] = Idle
  BY <1>0 DEF Commit
<1>6. ~Holding(r)' /\ ~Creating(r)'
  BY <1>5 DEF Holding, Creating, Idle
<1>7. \A q \in Requests \ {r} : req'[q] = req[q]
  BY <1>0, <1>5
<1>8. status' = [status EXCEPT ![req[r].escrow] = To(req[r].op)]
  BY DEF Commit
<1>9. terms' = IF req[r].op = "create"
               THEN [terms EXCEPT ![req[r].escrow] = req[r].terms] ELSE terms
  BY DEF Commit
<1>10. \A q \in Requests \ {r} : Holding(q) => req[q].escrow # req[r].escrow
  BY <1>1 DEF LockInv, Exclusive
<1>11. TypeOK'
  <2>1. req' \in [Requests -> Request]
    BY <1>0, <1>5, IdleType
  <2>2. status' \in [Escrows -> Live \cup {"absent", "gone"}]
    BY <1>0, <1>2, <1>4, <1>8
  <2>3. terms' \in [Escrows -> Terms]
    BY <1>0, <1>2, <1>3, <1>9
  <2>4. answers' \in [Keys -> SUBSET Escrows]
    <3>1. CASE req[r].op = "create"
      BY <1>0, <1>2, <3>1 DEF Commit
    <3>2. CASE req[r].op # "create"
      BY <1>0, <3>2 DEF Commit
    <3>. QED
      BY <3>1, <3>2
  <2>5. UNCHANGED <<listed, task, succeeded>>
    BY DEF Commit
  <2>. QED
    BY <2>1, <2>2, <2>3, <2>4, <2>5 DEF LockInv, TypeOK
<1>12. /\ status'[req[r].escrow] = To(req[r].op)
       /\ \A e \in Escrows \ {req[r].escrow} : status'[e] = status[e]
  BY <1>0, <1>2, <1>8
<1>13. /\ terms'[req[r].escrow] =
            IF req[r].op = "create" THEN req[r].terms ELSE terms[req[r].escrow]
       /\ \A e \in Escrows \ {req[r].escrow} : terms'[e] = terms[e]
  BY <1>0, <1>2, <1>9
<1>. QED
  BY <1>1, <1>2, <1>4, <1>5, <1>6, <1>7, <1>10, <1>11, <1>12, <1>13

LEMMA CommitLocks ==
  ASSUME LockInv, NEW r \in Requests, Commit(r)
  PROVE  LockInv'
<1>0. /\ \A q \in Requests \ {r} : Holding(q)' <=> Holding(q)
      /\ ~Holding(r)'
  BY CommitEffect DEF Holding
<1>1. RowsHeld'
  <2>. SUFFICES ASSUME NEW q \in Requests, Holding(q)'
                PROVE  /\ req'[q].escrow \in Escrows
                       /\ IF req'[q].op = "create" THEN status'[req'[q].escrow] = "absent"
                          ELSE status'[req'[q].escrow] \in From(req'[q].op)
    BY DEF RowsHeld, From
  <2>1. q # r /\ Holding(q)
    BY <1>0
  <2>2. req'[q] = req[q] /\ req[q].escrow # req[r].escrow /\ req[q].escrow \in Escrows
    BY <2>1, CommitEffect DEF LockInv, RowsHeld
  <2>3. status'[req[q].escrow] = status[req[q].escrow]
    BY <2>2, CommitEffect
  <2>. QED
    BY <2>1, <2>2, <2>3 DEF LockInv, RowsHeld
<1>2. Exclusive'
  <2>. SUFFICES ASSUME NEW p \in Requests, NEW q \in Requests, p # q, Holding(p)', Holding(q)'
                PROVE  req'[p].escrow # req'[q].escrow
    BY DEF Exclusive
  <2>1. p # r /\ q # r /\ Holding(p) /\ Holding(q)
    BY <1>0
  <2>. QED
    BY <2>1, CommitEffect DEF LockInv, Exclusive
<1>. QED
  BY <1>1, <1>2, CommitEffect DEF LockInv

LEMMA CommitKeepsRest ==
  ASSUME IInv, NEW r \in Requests, Commit(r)
  PROVE  IInv'
<1>0. LockInv /\ UNCHANGED <<listed, task, succeeded>>
  BY DEF IInv, Commit
<1> DEFINE x == req[r].escrow
<1>a. /\ Holding(r) /\ x \in Escrows
      /\ ~Holding(r)' /\ ~Creating(r)' /\ req'[r].stage = "idle" /\ req'[r].op = "create"
      /\ \A q \in Requests \ {r} : req'[q] = req[q]
      /\ status'[x] = To(req[r].op) /\ To(req[r].op) \in Live
      /\ terms'[x] = IF req[r].op = "create" THEN req[r].terms ELSE terms[x]
      /\ \A e \in Escrows \ {x} : status'[e] = status[e] /\ terms'[e] = terms[e]
      /\ \A q \in Requests \ {r} : Holding(q) => req[q].escrow # x
  <2>1. req'[r] = Idle
    BY <1>0, CommitEffect DEF LockInv, TypeOK
  <2>. QED
    BY <1>0, <2>1, CommitEffect DEF Idle
<1>b. req[r].op # "create" => status[x] \in Live
  BY <1>0, <1>a DEF LockInv, RowsHeld, From, Live
<1>c. req[r].op = "create" => status[x] = "absent" /\ Creating(r)
  BY <1>0, <1>a DEF LockInv, RowsHeld, Creating
<1>d. \A q \in Requests : Creating(q)' => q # r /\ Creating(q) /\ req'[q] = req[q]
  BY <1>a DEF Creating, Holding
<1> HIDE DEF x
<1>1. LockInv'
  BY <1>0, CommitLocks
<1>2. ReleasesEarned'
  <2>. SUFFICES ASSUME NEW q \in Requests
                PROVE  /\ req'[q].stage = "checked" => req'[q].op = "create"
                       /\ req'[q].stage = "locked" =>
                            req'[q].op = "release" /\ terms'[req'[q].escrow].task \in Tasks
                       /\ req'[q].op = "release" /\ req'[q].stage = "flushed" =>
                            terms'[req'[q].escrow].task \in succeeded \cup {NoTask}
    BY <1>0 DEF ReleasesEarned
  <2>1. CASE q = r
    BY <1>a, <2>1
  <2>2. CASE q # r /\ Holding(q)
    <3>1. terms'[req'[q].escrow] = terms[req[q].escrow]
      BY <1>0, <1>a, <2>2 DEF LockInv, RowsHeld
    <3>. QED
      BY <1>a, <2>2, <3>1 DEF IInv, ReleasesEarned
  <2>3. CASE q # r /\ ~Holding(q)
    BY <1>a, <2>3 DEF IInv, ReleasesEarned, Holding
  <2>. QED
    BY <2>1, <2>2, <2>3
<1>3. ReleasedAfterSuccess'
  <2>. SUFFICES ASSUME NEW e \in Escrows, status'[e] = "released", terms'[e].task # NoTask
                PROVE  terms'[e].task \in succeeded
    BY <1>0 DEF ReleasedAfterSuccess
  <2>1. CASE e = x
    <3>1. req[r].op = "release"
      <4>1. req[r].op \in Changes \cup {"create"}
        BY <1>0 DEF LockInv, TypeOK, Request
      <4>. QED
        BY <1>a, <2>1, <4>1 DEF To, Changes
    <3>2. req[r].stage = "flushed"
      BY DEF Commit
    <3>. QED
      BY <1>a, <2>1, <3>1, <3>2 DEF IInv, ReleasesEarned, x
  <2>2. CASE e # x
    BY <1>a, <2>2 DEF IInv, ReleasedAfterSuccess
  <2>. QED
    BY <2>1, <2>2
<1>4. SuccessKept' /\ ListingsKept'
  BY <1>0, <1>d DEF IInv, SuccessKept, ListingsKept
<1>5. EscrowsAreListed'
  <2>. SUFFICES ASSUME NEW e \in Escrows, status'[e] \in Live
                PROVE  terms'[e].listing \in listed
    BY <1>0 DEF EscrowsAreListed
  <2>. QED
    BY <1>a, <1>b, <1>c DEF IInv, EscrowsAreListed, ListingsKept
<1>6. AllDistinct'
  <2>1. ASSUME NEW e \in Escrows, status'[e] \in Live
        PROVE  \/ status[e] \in Live /\ terms'[e] = terms[e]
               \/ Creating(r) /\ terms'[e] = req[r].terms /\ e = x
    BY <1>a, <1>b, <1>c, <2>1
  <2>2. \A e \in Escrows, q \in Requests :
          status'[e] \in Live /\ Creating(q)' => Differ(terms'[e], req'[q].terms)
    <3>. SUFFICES ASSUME NEW e \in Escrows, NEW q \in Requests, status'[e] \in Live, Creating(q)'
                  PROVE  Differ(terms'[e], req'[q].terms)
      OBVIOUS
    <3>1. q # r /\ Creating(q) /\ req'[q] = req[q]
      BY <1>d
    <3>. QED
      BY <2>1, <3>1 DEF IInv, AllDistinct
  <2>3. \A p, q \in Requests :
          p # q /\ Creating(p)' /\ Creating(q)' => Differ(req'[p].terms, req'[q].terms)
    BY <1>d DEF IInv, AllDistinct
  <2>4. \A e, f \in Escrows :
          e # f /\ status'[e] \in Live /\ status'[f] \in Live => Differ(terms'[e], terms'[f])
    <3>. SUFFICES ASSUME NEW e \in Escrows, NEW f \in Escrows, e # f,
                         status'[e] \in Live, status'[f] \in Live
                  PROVE  Differ(terms'[e], terms'[f])
      OBVIOUS
    <3>1. CASE status[e] \in Live /\ terms'[e] = terms[e] /\ status[f] \in Live /\ terms'[f] = terms[f]
      BY <3>1 DEF IInv, AllDistinct
    <3>2. CASE Creating(r) /\ terms'[e] = req[r].terms /\ status[f] \in Live /\ terms'[f] = terms[f]
      BY <3>2 DEF IInv, AllDistinct, Differ
    <3>3. CASE Creating(r) /\ terms'[f] = req[r].terms /\ status[e] \in Live /\ terms'[e] = terms[e]
      BY <3>3 DEF IInv, AllDistinct, Differ
    <3>. QED
      BY <2>1, <3>1, <3>2, <3>3
  <2>. QED
    BY <2>2, <2>3, <2>4 DEF AllDistinct, Differ
<1>7. AnswersTrue'
  <2>. SUFFICES ASSUME NEW k \in Keys, NEW e \in answers'[k]
                PROVE  /\ status'[e] \in Live \cup {"gone"}
                       /\ status'[e] \in Live => terms'[e].key = k
    BY DEF AnswersTrue, Live
  <2>0. answers \in [Keys -> SUBSET Escrows]
    BY <1>0 DEF LockInv, TypeOK
  <2>1. e \in answers[k] \/ (req[r].op = "create" /\ e = x /\ k = req[r].terms.key)
    <3>1. CASE req[r].op = "create"
      BY <2>0, <3>1 DEF Commit, x
    <3>2. CASE req[r].op # "create"
      BY <2>0, <3>2 DEF Commit
    <3>. QED
      BY <3>1, <3>2
  <2>2. CASE e \in answers[k]
    <3>1. e \in Escrows /\ status[e] \in Live \cup {"gone"} /\ (status[e] \in Live => terms[e].key = k)
      BY <2>0, <2>2 DEF IInv, AnswersTrue
    <3>2. e = x => req[r].op # "create"
      BY <1>c, <3>1 DEF Live
    <3>. QED
      BY <1>a, <1>b, <3>1, <3>2
  <2>3. CASE req[r].op = "create" /\ e = x /\ k = req[r].terms.key
    BY <1>a, <2>3
  <2>. QED
    BY <2>1, <2>2, <2>3
<1>. QED
  BY <1>1, <1>2, <1>3, <1>4, <1>5, <1>6, <1>7 DEF IInv

(***************************************************************************)
(* The deletion of a listing, replayed creations, and the tasks.           *)
(***************************************************************************)

LEMMA DeletionKeeps ==
  ASSUME IInv, NEW l \in Listings, DeleteListing(l)
  PROVE  IInv'
<1>0. /\ status \in [Escrows -> Live \cup {"absent", "gone"}]
      /\ terms \in [Escrows -> Terms]
      /\ answers \in [Keys -> SUBSET Escrows]
  BY DEF IInv, LockInv, TypeOK
<1>1. /\ UNCHANGED <<task, succeeded, answers, req>>
      /\ listed' = listed \ {l}
      /\ \A e \in OfListing(l) : status'[e] = "gone"
      /\ \A e \in Escrows \ OfListing(l) : status'[e] = status[e] /\ terms'[e] = terms[e]
  BY DEF DeleteListing, OfListing
<1>2. \A r \in Requests : Holding(r) => req[r].escrow \in Escrows \ OfListing(l)
  BY DEF IInv, LockInv, RowsHeld, DeleteListing, Untouched, OfListing, Live
<1>3. \A r \in Requests : Creating(r) => req[r].terms.listing # l
  BY DEF DeleteListing, Untouched, Creating
<1>4. \A e \in Escrows : status'[e] \in Live =>
        status[e] \in Live /\ terms'[e] = terms[e] /\ status'[e] = status[e] /\ terms[e].listing # l
  BY <1>0, <1>1 DEF OfListing, Live
<1>5. TypeOK'
  <2>1. status' \in [Escrows -> Live \cup {"absent", "gone"}]
    BY <1>0 DEF DeleteListing
  <2>2. terms' \in [Escrows -> Terms]
    BY <1>0, NoTermsType DEF DeleteListing
  <2>. QED
    BY <1>1, <2>1, <2>2 DEF IInv, LockInv, TypeOK
<1>6. RowsHeld' /\ Exclusive'
  <2>1. \A r \in Requests : Holding(r)' <=> Holding(r)
    BY <1>1 DEF Holding
  <2>. QED
    BY <1>1, <1>2, <2>1 DEF IInv, LockInv, RowsHeld, Exclusive, From
<1>7. ReleasesEarned'
  <2>. SUFFICES ASSUME NEW r \in Requests
                PROVE  /\ req[r].stage = "checked" => req[r].op = "create"
                       /\ req[r].stage = "locked" =>
                            req[r].op = "release" /\ terms'[req[r].escrow].task \in Tasks
                       /\ req[r].op = "release" /\ req[r].stage = "flushed" =>
                            terms'[req[r].escrow].task \in succeeded \cup {NoTask}
    BY <1>1 DEF ReleasesEarned
  <2>1. CASE Holding(r)
    <3>1. terms'[req[r].escrow] = terms[req[r].escrow]
      BY <1>1, <1>2, <2>1
    <3>. QED
      BY <3>1 DEF IInv, ReleasesEarned
  <2>2. CASE ~Holding(r)
    BY <2>2 DEF IInv, ReleasesEarned, Holding
  <2>. QED
    BY <2>1, <2>2
<1>8. SuccessKept'
  BY <1>1 DEF IInv, SuccessKept
<1>9. ReleasedAfterSuccess'
  <2>. SUFFICES ASSUME NEW e \in Escrows, status'[e] = "released", terms'[e].task # NoTask
                PROVE  terms'[e].task \in succeeded
    BY <1>1 DEF ReleasedAfterSuccess
  <2>. QED
    BY <1>4 DEF IInv, ReleasedAfterSuccess, Live
<1>10. ListingsKept' /\ EscrowsAreListed'
  <2>1. \A r \in Requests : Creating(r)' <=> Creating(r)
    BY <1>1 DEF Creating, Holding
  <2>. QED
    BY <1>1, <1>3, <1>4, <2>1 DEF IInv, ListingsKept, EscrowsAreListed
<1>11. AllDistinct'
  <2>1. \A r \in Requests : (Creating(r)' <=> Creating(r)) /\ req'[r] = req[r]
    BY <1>1 DEF Creating, Holding
  <2>. QED
    BY <1>4, <2>1 DEF IInv, AllDistinct, Differ
<1>12. AnswersTrue'
  <2>. SUFFICES ASSUME NEW k \in Keys, NEW e \in answers[k]
                PROVE  /\ status'[e] \in Live \cup {"gone"}
                       /\ status'[e] \in Live => terms'[e].key = k
    BY <1>1 DEF AnswersTrue, Live
  <2>1. e \in Escrows
    BY <1>0
  <2>. QED
    BY <1>1, <1>4, <2>1 DEF IInv, AnswersTrue
<1>. QED
  BY <1>5, <1>6, <1>7, <1>8, <1>9, <1>10, <1>11, <1>12 DEF IInv, LockInv

LEMMA ReplayKeeps ==
  ASSUME IInv, NEW l \in Listings, NEW k \in Keys, AnswerExisting(l, k)
  PROVE  IInv'
<1>1. UNCHANGED <<status, terms, listed, task, succeeded, req>>
  BY DEF AnswerExisting
<1>0. answers \in [Keys -> SUBSET Escrows]
  BY DEF IInv, LockInv, TypeOK
<1>2. PICK e \in WithKey(k) : answers' = [answers EXCEPT ![k] = @ \cup {e}]
  BY DEF AnswerExisting
<1>3. TypeOK'
  BY <1>0, <1>1, <1>2 DEF IInv, LockInv, TypeOK, WithKey
<1>4. AnswersTrue'
  BY <1>0, <1>1, <1>2 DEF IInv, AnswersTrue, WithKey
<1>5. RowsHeld' /\ Exclusive' /\ ReleasesEarned' /\ ReleasedAfterSuccess' /\ SuccessKept'
  BY <1>1 DEF IInv, LockInv, RowsHeld, Exclusive, ReleasesEarned, ReleasedAfterSuccess,
              SuccessKept, Holding, From
<1>6. ListingsKept' /\ EscrowsAreListed' /\ AllDistinct'
  BY <1>1 DEF IInv, ListingsKept, EscrowsAreListed, AllDistinct, Creating, Holding
<1>. QED
  BY <1>3, <1>4, <1>5, <1>6 DEF IInv, LockInv

LEMMA TasksKeep ==
  ASSUME IInv, NEW t \in Tasks, TaskMoves(t)
  PROVE  IInv'
<1>1. UNCHANGED <<status, terms, listed, answers, req>>
  BY DEF TaskMoves
<1>0. task \in [Tasks -> {"open", "success", "failed"}] /\ succeeded \in SUBSET Tasks
  BY DEF IInv, LockInv, TypeOK
<1>2. PICK s \in {"open", "success", "failed"} :
        /\ task' = [task EXCEPT ![t] = s]
        /\ succeeded' = IF s = "success" THEN succeeded \cup {t} ELSE succeeded
  BY DEF TaskMoves
<1>3. TypeOK'
  BY <1>0, <1>1, <1>2 DEF IInv, LockInv, TypeOK
<1>4. SuccessKept' /\ succeeded \subseteq succeeded'
  BY <1>0, <1>2 DEF IInv, SuccessKept
<1>5. RowsHeld' /\ Exclusive'
  BY <1>1 DEF IInv, LockInv, RowsHeld, Exclusive, Holding, From
<1>6. ReleasesEarned' /\ ReleasedAfterSuccess'
  BY <1>1, <1>4 DEF IInv, ReleasesEarned, ReleasedAfterSuccess
<1>7. ListingsKept' /\ EscrowsAreListed' /\ AllDistinct' /\ AnswersTrue'
  BY <1>1 DEF IInv, ListingsKept, EscrowsAreListed, AllDistinct, AnswersTrue, Creating, Holding
<1>. QED
  BY <1>3, <1>4, <1>5, <1>6, <1>7 DEF IInv, LockInv

LEMMA StutterKeeps == IInv /\ UNCHANGED vars => IInv'
<1>. SUFFICES ASSUME IInv, UNCHANGED vars PROVE IInv'
  OBVIOUS
<1>1. UNCHANGED <<status, terms, listed, task, succeeded, answers, req>>
  BY DEF vars
<1>2. LockInv' /\ ReleasesEarned' /\ ReleasedAfterSuccess' /\ SuccessKept'
  BY <1>1 DEF IInv, LockInv, TypeOK, RowsHeld, Exclusive, ReleasesEarned,
              ReleasedAfterSuccess, SuccessKept, Holding, From
<1>3. ListingsKept' /\ EscrowsAreListed' /\ AllDistinct' /\ AnswersTrue'
  BY <1>1 DEF IInv, ListingsKept, EscrowsAreListed, AllDistinct, AnswersTrue, Creating, Holding
<1>. QED
  BY <1>2, <1>3 DEF IInv

LEMMA NextIInv == IInv /\ [Next]_vars => IInv'
<1>. SUFFICES ASSUME IInv, [Next]_vars PROVE IInv'
  OBVIOUS
<1>1. ASSUME NEW r \in Requests, RequestStep(r) PROVE IInv'
  BY <1>1, RequestKeepsRest
<1>2. ASSUME NEW r \in Requests, Commit(r) PROVE IInv'
  BY <1>2, CommitKeepsRest
<1>3. ASSUME NEW l \in Listings, DeleteListing(l) PROVE IInv'
  BY <1>3, DeletionKeeps
<1>4. ASSUME NEW l \in Listings, NEW k \in Keys, AnswerExisting(l, k) PROVE IInv'
  BY <1>4, ReplayKeeps
<1>5. ASSUME NEW t \in Tasks, TaskMoves(t) PROVE IInv'
  BY <1>5, TasksKeep
<1>6. CASE UNCHANGED vars
  BY <1>6, StutterKeeps
<1>. QED
  BY <1>1, <1>2, <1>3, <1>4, <1>5, <1>6 DEF Next, RequestStep

THEOREM Invariance == Spec => []IInv
  BY InitIInv, NextIInv, PTL DEF Spec

(***************************************************************************)
(* What follows from it.                                                   *)
(***************************************************************************)

LEMMA IInvImplies ==
  IInv => TypeOK /\ ReleasedAfterSuccess /\ EscrowsAreListed /\ OneEscrowPerTask /\ OneAnswerPerKey
<1>. SUFFICES ASSUME IInv
              PROVE  /\ TypeOK /\ ReleasedAfterSuccess /\ EscrowsAreListed
                     /\ OneEscrowPerTask /\ OneAnswerPerKey
  OBVIOUS
<1>1. OneEscrowPerTask
  BY DEF IInv, AllDistinct, Differ, OneEscrowPerTask
<1>2. OneAnswerPerKey
  <2>. SUFFICES ASSUME NEW k \in Keys, NEW e \in answers[k], NEW f \in answers[k],
                       status[e] \in Live, status[f] \in Live, e # f
                PROVE  FALSE
    BY DEF OneAnswerPerKey
  <2>1. e \in Escrows /\ f \in Escrows
    BY DEF IInv, LockInv, TypeOK
  <2>2. terms[e].key = k /\ terms[f].key = k
    BY DEF IInv, AnswersTrue
  <2>. QED
    BY <2>1, <2>2, ConstantsAssumption DEF IInv, AllDistinct, Differ
<1>. QED
  BY <1>1, <1>2 DEF IInv, LockInv

(* Every variable of the escrows keeps its type.                           *)
THEOREM TypeCorrect == Spec => []TypeOK
  BY Invariance, IInvImplies, PTL

(* The linked task of a released escrow has succeeded, although release    *)
(* reads it without a lock and commits later.                              *)
THEOREM ReleasesAreEarned == Spec => []ReleasedAfterSuccess
  BY Invariance, IInvImplies, PTL

(* No escrow outlives its listing, however creation and deletion overlap.  *)
THEOREM ListingsOutliveEscrows == Spec => []EscrowsAreListed
  BY Invariance, IInvImplies, PTL

(* A task backs at most one escrow.                                        *)
THEOREM TasksBackOneEscrow == Spec => []OneEscrowPerTask
  BY Invariance, IInvImplies, PTL

(* Creation is idempotent: check-then-insert is saved by the unique key.   *)
THEOREM CreationIsIdempotent == Spec => []OneAnswerPerKey
  BY Invariance, IInvImplies, PTL

(***************************************************************************)
(* Escrow implements EscrowLedger.                                         *)
(***************************************************************************)

LEMMA CommitMoves ==
  ASSUME IInv, NEW r \in Requests, Commit(r)
  PROVE  Ledger!Next
<1> DEFINE x == req[r].escrow
<1>0. /\ LockInv /\ Holding(r) /\ x \in Escrows
      /\ req[r].op \in Changes \cup {"create"}
  BY CommitEffect DEF IInv, LockInv, TypeOK, Request
<1>1. status' = [status EXCEPT ![x] = To(req[r].op)]
  BY DEF Commit
<1>2. IF req[r].op = "create" THEN status[x] = "absent" ELSE status[x] \in From(req[r].op)
  BY <1>0 DEF LockInv, RowsHeld
<1> HIDE DEF x
<1>3. CASE req[r].op = "create"
  BY <1>0, <1>1, <1>2, <1>3 DEF To, Ledger!Next, Ledger!Hold, Ledger!Move
<1>4. CASE req[r].op = "release"
  BY <1>0, <1>1, <1>2, <1>4 DEF To, From, Ledger!Next, Ledger!Release, Ledger!Move
<1>5. CASE req[r].op = "dispute"
  BY <1>0, <1>1, <1>2, <1>5 DEF To, From, Ledger!Next, Ledger!Dispute, Ledger!Move
<1>6. CASE req[r].op = "refund"
  BY <1>0, <1>1, <1>2, <1>6 DEF To, From, Ledger!Next, Ledger!Refund, Ledger!Move
<1>. QED
  BY <1>0, <1>3, <1>4, <1>5, <1>6 DEF Changes

LEMMA DeletionRemoves ==
  ASSUME NEW l \in Listings, DeleteListing(l)
  PROVE  Ledger!Next
<1>1. OfListing(l) \in SUBSET Escrows /\ \A e \in OfListing(l) : status[e] # "absent"
  BY DEF OfListing, Live
<1>2. status' = [e \in Escrows |-> IF e \in OfListing(l) THEN "gone" ELSE status[e]]
  BY DEF DeleteListing
<1>3. Ledger!Remove(OfListing(l))
  BY <1>1, <1>2 DEF Ledger!Remove
<1>. QED
  BY <1>1, <1>3 DEF Ledger!Next

LEMMA StepsMap == IInv /\ [Next]_vars => [Ledger!Next]_status
<1>. SUFFICES ASSUME IInv, [Next]_vars PROVE Ledger!Next \/ UNCHANGED status
  OBVIOUS
<1>0. TypeOK
  BY DEF IInv, LockInv
<1>1. ASSUME NEW r \in Requests, RequestStep(r) PROVE UNCHANGED status
  BY <1>0, <1>1, RequestAfter
<1>2. ASSUME NEW r \in Requests, Commit(r) PROVE Ledger!Next
  BY <1>2, CommitMoves
<1>3. ASSUME NEW l \in Listings, DeleteListing(l) PROVE Ledger!Next
  BY <1>3, DeletionRemoves
<1>4. ASSUME NEW l \in Listings, NEW k \in Keys, AnswerExisting(l, k) PROVE UNCHANGED status
  BY <1>4 DEF AnswerExisting
<1>5. ASSUME NEW t \in Tasks, TaskMoves(t) PROVE UNCHANGED status
  BY <1>5 DEF TaskMoves
<1>6. CASE UNCHANGED vars
  BY <1>6 DEF vars
<1>. QED
  BY <1>1, <1>2, <1>3, <1>4, <1>5, <1>6 DEF Next, RequestStep

(* The handlers, with their row locks and late commits, implement the      *)
(* ledger: each escrow is settled at most once, from a state that allows it. *)
THEOREM ImplementsLedger == Spec => LedgerSpec
<1>1. Init => Ledger!Init
  BY DEF Init, Ledger!Init
<1>. QED
  BY <1>1, StepsMap, Invariance, PTL DEF Spec, LedgerSpec, Ledger!Spec
================================================================================

--------------------------------- MODULE Escrow ---------------------------------
(***************************************************************************)
(* Marketplace escrows (services/marketplace/service.py) with concurrent   *)
(* requests.  Creation looks its idempotency key up and inserts: only the  *)
(* unique keys of the table stand between two creations that both found    *)
(* nothing.  Release, dispute and refund load the row FOR UPDATE, so that  *)
(* the row cannot change under them until they commit; the linked task is  *)
(* read without a lock.                                                    *)
(*                                                                         *)
(* Who may call what, the amount and the buyer are left out: a request     *)
(* refused for one of them changes nothing.  So are the events handlers    *)
(* publish before get_db commits: they are best effort, and unread.        *)
(***************************************************************************)
EXTENDS Naturals, FiniteSets

CONSTANTS
  Escrows,          \* identifiers escrows may get
  Listings,         \* listings of the marketplace
  Keys, NoKey,      \* idempotency keys, and their absence
  Tasks, NoTask,    \* tasks an escrow may be linked to, and no task
  NoEscrow,
  Requests          \* requests in flight at the same time

ASSUME ConstantsAssumption ==
  /\ NoKey \notin Keys
  /\ NoTask \notin Tasks
  /\ NoEscrow \notin Escrows
  /\ Listings # {}

VARIABLES
  status,     \* marketplace_escrows.status; "absent" before, "gone" after
  terms,      \* listing_id, idempotency_key and task_id of each escrow
  listed,     \* the listings that exist
  task,       \* tasks.status, as far as escrows tell statuses apart
  succeeded,  \* tasks whose status has been success
  answers,    \* escrows that creations with a key were answered with
  req         \* the requests in flight

vars == <<status, terms, listed, task, succeeded, answers, req>>

Live    == {"held", "disputed", "released", "refunded"}
Terms   == [listing : Listings, key : Keys \cup {NoKey}, task : Tasks \cup {NoTask}]
Changes == {"release", "dispute", "refund"}

(* A request: "checked", a creation that found no escrow with its key;     *)
(* "locked", a release that has the row and not yet read the task;         *)
(* "flushed", its INSERT or UPDATE is made and waits for the commit.       *)
Request == [stage  : {"idle", "checked", "locked", "flushed"},
            op     : Changes \cup {"create"},
            escrow : Escrows \cup {NoEscrow},
            terms  : Terms]

NoTerms == [listing |-> CHOOSE l \in Listings : TRUE, key |-> NoKey, task |-> NoTask]
Idle    == [stage |-> "idle", op |-> "create", escrow |-> NoEscrow, terms |-> NoTerms]

Init ==
  /\ status    = [e \in Escrows |-> "absent"]
  /\ terms     = [e \in Escrows |-> NoTerms]
  /\ listed    = Listings
  /\ task      = [t \in Tasks |-> "open"]
  /\ succeeded = {}
  /\ answers   = [k \in Keys |-> {}]
  /\ req       = [r \in Requests |-> Idle]

(* The requests that have written a row, or hold its lock.                 *)
Holding(r) == req[r].stage \in {"locked", "flushed"}

(* Mutant: the row is loaded without FOR UPDATE.                           *)
FreeAnyway(r, e) == TRUE

Free(r, e) == \A q \in Requests \ {r} : Holding(q) => req[q].escrow # e

--------------------------------------------------------------------------------
(***************************************************************************)
(* create_escrow.                                                          *)
(***************************************************************************)

WithKey(k) == {e \in Escrows : status[e] \in Live /\ terms[e].key = k}

(* A creation with a key that some escrow has is answered with that        *)
(* escrow, if it is for the same listing.  The linked task is not compared. *)
AnswerExisting(l, k) ==
  /\ l \in listed
  /\ k \in Keys
  /\ \E e \in WithKey(k) :
       /\ terms[e].listing = l
       /\ answers' = [answers EXCEPT ![k] = @ \cup {e}]
  /\ UNCHANGED <<status, terms, listed, task, succeeded, req>>

(* Otherwise it goes on to insert one.                                     *)
CheckCreation(r, t) ==
  /\ req[r] = Idle
  /\ t.listing \in listed
  /\ WithKey(t.key) = {} \/ t.key = NoKey
  /\ req' = [req EXCEPT ![r] = [Idle EXCEPT !.stage = "checked", !.terms = t]]
  /\ UNCHANGED <<status, terms, listed, task, succeeded, answers>>

(* The rows a unique key of the table compares a new row with: those that  *)
(* are committed, and those that wait to be (the INSERT then waits too).   *)
Rivals(r) ==
  {terms[e] : e \in {f \in Escrows : status[f] \in Live}} \cup
  {req[q].terms : q \in {p \in Requests \ {r} : req[p].op = "create" /\ Holding(p)}}

(* Mutants: idempotency_key, or task_id, is not unique.                    *)
UniqueTaskOnly(r, t) == t.task = NoTask \/ \A u \in Rivals(r) : u.task # t.task
UniqueKeyOnly(r, t)  == t.key = NoKey \/ \A u \in Rivals(r) : u.key # t.key

Unique(r, t) ==
  \A u \in Rivals(r) :
    /\ t.key # NoKey => u.key # t.key
    /\ t.task # NoTask => u.task # t.task

(* The flush of the INSERT, under a fresh identifier.  The foreign key     *)
(* needs the listing, and keeps it from being deleted until the commit.    *)
Insert(r, e) ==
  /\ req[r].stage = "checked"
  /\ req[r].terms.listing \in listed
  /\ Unique(r, req[r].terms)
  /\ status[e] = "absent"
  /\ \A q \in Requests : req[q].escrow # e
  /\ req' = [req EXCEPT ![r].stage = "flushed", ![r].escrow = e]
  /\ UNCHANGED <<status, terms, listed, task, succeeded, answers>>

--------------------------------------------------------------------------------
(***************************************************************************)
(* release_escrow, dispute_escrow, refund_escrow.                          *)
(***************************************************************************)

From(op) == IF op = "refund" THEN {"held", "disputed"} ELSE {"held"}

To(op) ==
  CASE op = "create"  -> "held"
    [] op = "release" -> "released"
    [] op = "dispute" -> "disputed"
    [] op = "refund"  -> "refunded"

(* The row is loaded FOR UPDATE: the request waits for whoever holds it,   *)
(* sees what that one committed, and checks it.  Only a release of an      *)
(* escrow with a linked task has more to read.                             *)
Lock(r, op, e) ==
  /\ req[r] = Idle
  /\ Free(r, e)
  /\ status[e] \in From(op)
  /\ req' = [req EXCEPT ![r] =
               [Idle EXCEPT !.op     = op,
                            !.escrow = e,
                            !.stage  = IF op = "release" /\ terms[e].task # NoTask
                                       THEN "locked" ELSE "flushed"]]
  /\ UNCHANGED <<status, terms, listed, task, succeeded, answers>>

(* Mutant: any outcome of the task will do.                                *)
COMPLETED_OR_FAILED == {"success", "failed"}

COMPLETED_TASK_STATUSES == {"success"}

(* The release reads the linked task, and goes on if it succeeded.         *)
ReadTask(r) ==
  /\ req[r].stage = "locked"
  /\ task[terms[req[r].escrow].task] \in COMPLETED_TASK_STATUSES
  /\ req' = [req EXCEPT ![r].stage = "flushed"]
  /\ UNCHANGED <<status, terms, listed, task, succeeded, answers>>

--------------------------------------------------------------------------------
(* get_db commits, and a creation is answered.                             *)
Commit(r) ==
  LET q == req[r] IN
  /\ q.stage = "flushed"
  /\ status' = [status EXCEPT ![q.escrow] = To(q.op)]
  /\ IF q.op = "create"
     THEN /\ terms' = [terms EXCEPT ![q.escrow] = q.terms]
          /\ answers' = [k \in Keys |-> IF k = q.terms.key
                                        THEN answers[k] \cup {q.escrow} ELSE answers[k]]
     ELSE UNCHANGED <<terms, answers>>
  /\ req' = [req EXCEPT ![r] = Idle]
  /\ UNCHANGED <<listed, task, succeeded>>

(* The request fails where it stands (a refusal, a violated unique key, a  *)
(* lost connection, the death of the replica) and is rolled back.          *)
Abort(r) ==
  /\ req[r] # Idle
  /\ req' = [req EXCEPT ![r] = Idle]
  /\ UNCHANGED <<status, terms, listed, task, succeeded, answers>>

(* delete_listing: the foreign key of the escrows cascades, after waiting  *)
(* for the requests that hold one of them or have inserted one.            *)
OfListing(l) == {e \in Escrows : status[e] \in Live /\ terms[e].listing = l}

(* Mutant: a row of the escrows refers to no row of the listings until it  *)
(* is committed.                                                           *)
UntouchedOnceCommitted(l) ==
  \A r \in Requests : Holding(r) /\ req[r].op # "create" => req[r].escrow \notin OfListing(l)

Untouched(l) ==
  \A r \in Requests : Holding(r) =>
    IF req[r].op = "create" THEN req[r].terms.listing # l
                            ELSE req[r].escrow \notin OfListing(l)

DeleteListing(l) ==
  /\ l \in listed
  /\ Untouched(l)
  /\ listed' = listed \ {l}
  /\ status' = [e \in Escrows |-> IF e \in OfListing(l) THEN "gone" ELSE status[e]]
  /\ terms' = [e \in Escrows |-> IF e \in OfListing(l) THEN NoTerms ELSE terms[e]]
  /\ UNCHANGED <<task, succeeded, answers, req>>

(* The tasks go on (see TaskLifecycle): even a success may be overwritten. *)
TaskMoves(t) ==
  /\ \E s \in {"open", "success", "failed"} \ {task[t]} :
       /\ task' = [task EXCEPT ![t] = s]
       /\ succeeded' = IF s = "success" THEN succeeded \cup {t} ELSE succeeded
  /\ UNCHANGED <<status, terms, listed, answers, req>>

Next ==
  \/ \E l \in Listings : DeleteListing(l) \/ \E k \in Keys : AnswerExisting(l, k)
  \/ \E t \in Tasks : TaskMoves(t)
  \/ \E r \in Requests :
       \/ \E t \in Terms : CheckCreation(r, t)
       \/ \E e \in Escrows : Insert(r, e) \/ \E op \in Changes : Lock(r, op, e)
       \/ ReadTask(r) \/ Commit(r) \/ Abort(r)

Spec == Init /\ [][Next]_vars

--------------------------------------------------------------------------------
(***************************************************************************)
(* Properties.                                                             *)
(***************************************************************************)

TypeOK ==
  /\ status    \in [Escrows -> Live \cup {"absent", "gone"}]
  /\ terms     \in [Escrows -> Terms]
  /\ listed    \in SUBSET Listings
  /\ task      \in [Tasks -> {"open", "success", "failed"}]
  /\ succeeded \in SUBSET Tasks
  /\ answers   \in [Keys -> SUBSET Escrows]
  /\ req       \in [Requests -> Request]

(* The row locks make the handlers implement the ledger: whatever releases, *)
(* disputes, refunds and deletions overlap, each escrow is settled at most *)
(* once, and only from the states the ledger allows.                       *)
Ledger == INSTANCE EscrowLedger WITH ledger <- status

LedgerSpec == Ledger!Spec

(* Creation is idempotent although it looks the key up and inserts in two  *)
(* steps: all creations with a key are answered with one escrow, as long   *)
(* as that one is in the ledger.                                           *)
OneAnswerPerKey ==
  \A k \in Keys : \A e, f \in answers[k] :
    status[e] \in Live /\ status[f] \in Live => e = f

(* A task backs at most one escrow at a time.                              *)
OneEscrowPerTask ==
  \A e, f \in Escrows :
    status[e] \in Live /\ status[f] \in Live /\ terms[e].task = terms[f].task
      => e = f \/ terms[e].task = NoTask

(* Funds held for a task are released only if the task has succeeded,      *)
(* although the task is read without a lock and its status may change      *)
(* again before the release commits.                                       *)
ReleasedAfterSuccess ==
  \A e \in Escrows :
    status[e] = "released" /\ terms[e].task # NoTask => terms[e].task \in succeeded

(* No escrow outlives its listing: a creation in flight and a deletion of  *)
(* its listing cannot both commit.                                         *)
EscrowsAreListed ==
  \A e \in Escrows : status[e] \in Live => terms[e].listing \in listed

--------------------------------------------------------------------------------
(***************************************************************************)
(* What the repository says and the code does not do.                      *)
(***************************************************************************)

(* DATA_MODEL.md:351: "`released` and `refunded` are terminal states."     *)
SettledIsTerminal ==
  [][\A e \in Escrows :
       status[e] \in {"released", "refunded"} => status'[e] = status[e]]_vars
================================================================================

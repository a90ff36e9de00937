------------------------------ MODULE Negotiation ------------------------------
(***************************************************************************)
(* Capability negotiation (services/negotiation/service.py): a proposal is *)
(* countered, accepted or declined by either participant, and an accepted  *)
(* one is snapshotted as a task contract.                                  *)
(*                                                                         *)
(* Every request to respond is one database session at READ COMMITTED.  It *)
(* first marks the negotiations whose time is over as expired (_expire_due *)
(* selects them, then its flush locks their rows), then loads the one it   *)
(* is about, checks its copy, and commits everything together.  The row is *)
(* loaded without a lock, so the checks are about a copy that may be stale *)
(* by the time of the commit; a status that equals the loaded one is not   *)
(* part of the UPDATE.                                                     *)
(***************************************************************************)
EXTENDS Naturals, FiniteSets

CONSTANTS
  Negotiations,   \* identifiers proposals may get
  NoNegotiation,  \* none of them
  Requests,       \* respond requests in flight at the same time
  MAX_ROUNDS      \* service.py: MAX_ROUNDS

ASSUME ConstantsAssumption ==
  /\ MAX_ROUNDS \in Nat \ {0}
  /\ NoNegotiation \notin Negotiations

VARIABLES
  status,       \* negotiations.status, "absent" before the proposal
  round_count,  \* negotiations.round_count
  response,     \* the decision stored in negotiations.response
  due,          \* the negotiations with expires_at < now
  contract,     \* task_contracts.status of its contract, "none" without one
  moves,        \* rows of negotiation_rounds, counted by decision
  req           \* the requests in flight

row  == <<status, round_count, response, due>>
vars == <<row, contract, moves, req>>

Decisions == {"countered", "accepted", "declined"}
Open      == {"proposed", "countered"}
Closed    == {"accepted", "declined", "expired"}

(* Mutant: a closed negotiation may still be declined.                     *)
DeclinableForEver ==
  [s \in Open \cup Closed |-> IF s \in Open THEN Decisions ELSE {"declined"}]

VALID_TRANSITIONS ==
  [s \in Open \cup Closed |-> IF s \in Open THEN Decisions ELSE {}]

(* A request and what its session holds: the negotiations it marks as      *)
(* expired, and its copy of the one it is about.  "selected": it has read  *)
(* which are due; "swept": it has written them, uncommitted; "decided": it *)
(* has loaded and checked its own.                                         *)
Request == [stage    : {"idle", "selected", "swept", "decided"},
            about    : Negotiations \cup {NoNegotiation},
            decision : Decisions,
            expires  : SUBSET Negotiations,
            was      : Open \cup Closed,
            rounds   : Nat]

Idle == [stage |-> "idle", about |-> NoNegotiation, decision |-> "declined",
         expires |-> {}, was |-> "expired", rounds |-> 0]

NoMoves == [d \in Decisions |-> 0]

Init ==
  /\ status      = [n \in Negotiations |-> "absent"]
  /\ round_count = [n \in Negotiations |-> 1]
  /\ response    = [n \in Negotiations |-> "none"]
  /\ due         = {}
  /\ contract    = [n \in Negotiations |-> "none"]
  /\ moves       = [n \in Negotiations |-> NoMoves]
  /\ req         = [r \in Requests |-> Idle]

(* create_proposal: the row and its first round.                           *)
Propose(n) ==
  /\ status[n] = "absent"
  /\ status' = [status EXCEPT ![n] = "proposed"]
  /\ UNCHANGED <<round_count, response, due, contract, moves, req>>

(* expires_at passes.                                                      *)
ComeDue(n) ==
  /\ status[n] # "absent"
  /\ n \notin due
  /\ due' = due \cup {n}
  /\ UNCHANGED <<status, round_count, response, contract, moves, req>>

(***************************************************************************)
(* respond, on behalf of a participant: either of them may take every      *)
(* decision.  Anybody else is refused once the row is loaded, which leaves *)
(* no trace (see Refuse).                                                  *)
(***************************************************************************)

(* _expire_due reads which open negotiations are due.  When none is, there *)
(* is nothing to flush.                                                    *)
SelectDue(r, n, decision) ==
  LET E == {m \in due : status[m] \in Open} IN
  /\ req[r] = Idle
  /\ status[n] # "absent"
  /\ req' = [req EXCEPT ![r] =
               [Idle EXCEPT !.stage    = IF E = {} THEN "swept" ELSE "selected",
                            !.about    = n,
                            !.decision = decision,
                            !.expires  = E]]
  /\ UNCHANGED <<row, contract, moves>>

(* The rows a session has flushed and not committed are locked.            *)
FreeFor(r, n) ==
  \A q \in Requests \ {r} :
    req[q].stage \in {"swept", "decided"} => n \notin req[q].expires

(* _expire_due's flush waits for the rows, whatever they say by then.      *)
Sweep(r) ==
  /\ req[r].stage = "selected"
  /\ \A m \in req[r].expires : FreeFor(r, m)
  /\ req' = [req EXCEPT ![r].stage = "swept"]
  /\ UNCHANGED <<row, contract, moves>>

(* The session sees its own uncommitted writes.                            *)
(* Mutant: it only sees what is committed.                                 *)
SeesCommitted(r) == status[req[r].about]

Sees(r) == IF req[r].about \in req[r].expires THEN "expired" ELSE status[req[r].about]

(* Mutant: one round too many.                                             *)
OneRoundMore(n) == round_count[n] <= MAX_ROUNDS

RoundsLeft(n) == round_count[n] + 1 <= MAX_ROUNDS

Admissible(r) ==
  /\ req[r].decision \in VALID_TRANSITIONS[Sees(r)]
  /\ req[r].decision = "countered" => RoundsLeft(req[r].about)

(* respond loads the negotiation and accepts the decision ...              *)
Decide(r) ==
  /\ req[r].stage = "swept"
  /\ Admissible(r)
  /\ req' = [req EXCEPT ![r].stage  = "decided",
                        ![r].was    = Sees(r),
                        ![r].rounds = round_count[req[r].about]]
  /\ UNCHANGED <<row, contract, moves>>

(* ... or raises: the session is rolled back, and with it the expiry of    *)
(* the negotiations it had marked.                                         *)
Refuse(r) ==
  /\ req[r].stage = "swept"
  /\ ~Admissible(r)
  /\ req' = [req EXCEPT ![r] = Idle]
  /\ UNCHANGED <<row, contract, moves>>

(* task_contracts.negotiation_id is unique.                                *)
(* Mutant: it is not.                                                      *)
AlwaysInsertable(n) == TRUE

ContractInsertable(n) == contract[n] = "none"

(* The status column after the commit of a decision on a copy that said    *)
(* was.                                                                    *)
Written(decision, was, now) == IF decision = was THEN now ELSE decision

(* The flush and the commit of a decision: the expired rows, the row it is *)
(* about, the contract of an acceptance and the round.  It waits for rows  *)
(* another session holds.                                                  *)
Commit(r) ==
  LET q == req[r]  n == q.about IN
  /\ q.stage = "decided"
  /\ FreeFor(r, n)
  /\ q.decision = "accepted" => ContractInsertable(n)
  /\ status' = [m \in Negotiations |->
                  IF m = n THEN Written(q.decision, q.was, status[m])
                  ELSE IF m \in q.expires THEN "expired" ELSE status[m]]
  /\ round_count' = IF q.decision = "countered"
                    THEN [round_count EXCEPT ![n] = q.rounds + 1] ELSE round_count
  /\ due' = IF q.decision = "countered" THEN due \ {n} ELSE due
  /\ response' = [response EXCEPT ![n] = q.decision]
  /\ contract' = IF q.decision = "accepted"
                 THEN [contract EXCEPT ![n] = "active"] ELSE contract
  /\ moves' = [moves EXCEPT ![n][q.decision] = @ + 1]
  /\ req' = [req EXCEPT ![r] = Idle]

(* The request fails where it stands: the insertion of a second contract,  *)
(* the end of a deadlock, a lost connection, the death of the replica.     *)
Abort(r) ==
  /\ req[r] # Idle
  /\ req' = [req EXCEPT ![r] = Idle]
  /\ UNCHANGED <<row, contract, moves>>

Next ==
  \/ \E n \in Negotiations : Propose(n) \/ ComeDue(n)
  \/ \E r \in Requests :
       \/ \E n \in Negotiations, d \in Decisions : SelectDue(r, n, d)
       \/ Sweep(r) \/ Decide(r) \/ Refuse(r) \/ Commit(r) \/ Abort(r)

Spec == Init /\ [][Next]_vars

--------------------------------------------------------------------------------
(***************************************************************************)
(* Properties.                                                             *)
(***************************************************************************)

TypeOK ==
  /\ status      \in [Negotiations -> Open \cup Closed \cup {"absent"}]
  /\ round_count \in [Negotiations -> Nat]
  /\ response    \in [Negotiations -> Decisions \cup {"none"}]
  /\ due         \in SUBSET Negotiations
  /\ contract    \in [Negotiations -> {"none", "active"}]
  /\ moves       \in [Negotiations -> [Decisions -> Nat]]
  /\ req         \in [Requests -> Request]

(* However many participants accept at the same time, a negotiation is     *)
(* accepted at most once: one round of its history says so exactly when it *)
(* has a contract, and an accepted status is always backed by it.          *)
OneContract ==
  \A n \in Negotiations :
    /\ moves[n]["accepted"] = IF contract[n] = "active" THEN 1 ELSE 0
    /\ status[n] = "accepted" => contract[n] = "active"

(* The round counter never exceeds MAX_ROUNDS, although it is incremented  *)
(* from copies that may be stale.                                          *)
RoundsBelowMax ==
  \A n \in Negotiations : round_count[n] <= MAX_ROUNDS

(* Nobody in flight holds a copy of n taken while it was open.             *)
Settled(n) ==
  /\ status[n] \in Closed
  /\ \A r \in Requests :
       /\ req[r].stage = "decided" => req[r].about # n
       /\ n \notin req[r].expires

(* A closed negotiation that no request in flight has seen open is final:  *)
(* its row, its contract and its rounds never change again.                *)
SettledIsFinal ==
  [][\A n \in Negotiations : Settled(n) =>
        /\ UNCHANGED <<status[n], round_count[n], response[n], contract[n], moves[n]>>
        /\ Settled(n)']_vars

(* Everybody in flight who answers n has found it due.                     *)
Overdue(n) ==
  /\ n \in due
  /\ status[n] \in Open
  /\ \A r \in Requests : req[r].about = n => n \in req[r].expires

(* A negotiation that is overdue can no longer be answered: it waits to be *)
(* expired, and since the request that answers it is rolled back, only the *)
(* successful answer to another negotiation does that.                     *)
OverdueOnlyExpires ==
  [][\A n \in Negotiations : Overdue(n) =>
        \/ UNCHANGED <<status[n], contract[n], moves[n]>>
        \/ /\ status'[n] = "expired"
           /\ UNCHANGED <<contract[n], moves[n]>>
           /\ \E m \in Negotiations \ {n} : moves'[m] # moves[m]]_vars

--------------------------------------------------------------------------------
(***************************************************************************)
(* What the repository says and the code does not do.                      *)
(***************************************************************************)

(* check_phase3.py:196: "Terminal status cannot re-transition".            *)
TerminalIsTerminal ==
  [][\A n \in Negotiations : status[n] \in Closed => status'[n] = status[n]]_vars
================================================================================

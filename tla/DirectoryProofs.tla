----------------------------- MODULE DirectoryProofs -----------------------------
(***************************************************************************)
(* Proofs about Directory, for any number of sessions, capabilities and    *)
(* peers: versions and keys of an agent come one after the other, because  *)
(* every session that reads them holds the lock of the agent's row.  And   *)
(* the index finds the row, unless one of the known causes has parted      *)
(* them.                                                                   *)
(***************************************************************************)
EXTENDS Directory, FiniteSetTheorems, TLAPS

(***************************************************************************)
(* The inductive invariant.                                                *)
(***************************************************************************)
Talking == {"removing", "delisting", "listing", "indexing"}
Busy    == {"loaded", "done"} \cup Talking
Ops     == Announced \cup {"deregister", "rotate", "status", "insert", "peer", "migrate"}

SessionType == {Idle} \cup Working \cup Scoring

(* The session has the lock of the row.                                    *)
Holding(s) == session[s].pc \notin {"idle", "loaded", "scoring"} /\ session[s].op # "deregister"

Exclusive == \A s, t \in Sessions : Holding(s) /\ Holding(t) => s = t

(* What a session will write is fit for the row as it is, or is not yet;   *)
(* and what it has read under the lock is still so.                        *)
Fit(s) == session[s].pc \in Busy =>
  /\ IF Inserts(s) THEN session[s].sets \in Row ELSE agent # NoAgent
  /\ session[s].op \in Announced /\ session[s].pc # "done" => session[s].copy \in Told
  /\ session[s].pc \in Talking => session[s].op \in Announced \cup {"deregister"}

Current(s) == session[s].pc \in Busy =>
  /\ Holding(s) /\ Inserts(s) => agent = NoAgent
  /\ session[s].revision = IF Holding(s) /\ session[s].op \in Announced
                           THEN Cardinality(revisions) + 1 ELSE 0
  /\ Holding(s) /\ session[s].op = "rotate" => session[s].old = keys.active

Consecutive == IsFiniteSet(revisions) /\ revisions = 1 .. Cardinality(revisions)

KeysFollow == OneActiveKey /\ (agent = NoAgent => keys.active = {})

IInv ==
  /\ TypeOK /\ Exclusive /\ Consecutive /\ KeysFollow
  /\ \A s \in Sessions : Fit(s) /\ Current(s)

(***************************************************************************)
(* Rows and changes.                                                       *)
(***************************************************************************)
LEMMA RowIsChange == Row \subseteq Change
  BY DEF Row, Change

LEMMA NothingType == Nothing \in Change
  BY DEF Nothing, Change

LEMMA ChangedType ==
  ASSUME NEW now \in Row, agent \in Row \cup {NoAgent}
  PROVE  Changed(now) \in Change /\ (agent = NoAgent => Changed(now) = now)
<1>. DEFINE Pick(c) == IF agent # NoAgent /\ agent[c] = now[c] THEN Kept ELSE now[c]
<1>1. Changed(now) = [status |-> Pick("status"), deleted |-> Pick("deleted"), caps |-> Pick("caps"),
                      federated |-> Pick("federated"), origin |-> Pick("origin")]
  BY DEF Changed, Row
<1>2. Changed(now) \in Change
  BY <1>1 DEF Row, Change
<1>3. ASSUME agent = NoAgent PROVE Changed(now) = now
  BY <1>1, <1>3 DEF Row
<1>. QED
  BY <1>2, <1>3

LEMMA WrittenType ==
  ASSUME TypeOK, NEW s \in Sessions, session[s].pc \in Busy, Fit(s)
  PROVE  Written(s) \in Row
<1>1. session[s] \in Working
  BY DEF TypeOK, Busy, Talking, Idle, Scoring
<1>2. session[s].sets \in Change /\ agent \in Row \cup {NoAgent}
  BY <1>1 DEF Working, TypeOK
<1>3. CASE agent = NoAgent
  BY <1>3 DEF Written, Fit
<1>4. CASE agent # NoAgent
  <2>. DEFINE sets == session[s].sets
  <2>1. agent \in Row
    BY <1>2, <1>4
  <2>2. Written(s) = [status |-> IF sets.status = Kept THEN agent.status ELSE sets.status,
                      deleted   |-> IF sets.deleted = Kept THEN agent.deleted ELSE sets.deleted,
                      caps      |-> IF sets.caps = Kept THEN agent.caps ELSE sets.caps,
                      federated |-> IF sets.federated = Kept THEN agent.federated ELSE sets.federated,
                      origin    |-> IF sets.origin = Kept THEN agent.origin ELSE sets.origin]
    BY <1>4 DEF Written
  <2>. HIDE DEF sets
  <2>. QED
    BY <1>2, <2>1, <2>2 DEF Row, Change, sets
<1>. QED
  BY <1>3, <1>4

LEMMA InitIInv == Init => IInv
<1>. SUFFICES ASSUME Init PROVE IInv
  OBVIOUS
<1>1. \A s \in Sessions : session[s] = Idle /\ session[s].pc = "idle"
  BY DEF Init, Idle
<1>2. TypeOK
  BY DEF Init, TypeOK, Keys
<1>3. Exclusive /\ \A s \in Sessions : Fit(s) /\ Current(s)
  BY <1>1 DEF Exclusive, Holding, Fit, Current, Busy, Talking
<1>4. IsFiniteSet({}) /\ Cardinality({}) = 0 /\ 1 .. 0 = {}
  BY FS_EmptySet
<1>5. Consecutive /\ KeysFollow
  BY <1>4 DEF Init, Consecutive, KeysFollow, OneActiveKey
<1>. QED
  BY <1>2, <1>3, <1>5 DEF IInv

(***************************************************************************)
(* Steps that leave the rows alone.                                        *)
(***************************************************************************)
LEMMA SameSession ==
  ASSUME NEW t, session'[t] = session[t]
  PROVE  (Holding(t)' <=> Holding(t)) /\ (Inserts(t)' <=> Inserts(t))
  BY DEF Holding, Inserts

(* Session s becomes x, and may get the lock if it is free.                *)
LEMMA SessionStep ==
  ASSUME IInv, NEW s \in Sessions, NEW x \in SessionType,
         session' = [session EXCEPT ![s] = x], UNCHANGED <<agent, revisions, keys>>,
         peers' \subseteq Peers, index' \subseteq Capabilities, listed' \subseteq Capabilities,
         disturbed' \in BOOLEAN,
         Fit(s)', Current(s)', Holding(s)' => Holding(s) \/ RowFree(s)
  PROVE  IInv'
<1>1. session \in [Sessions -> SessionType]
  BY DEF IInv, TypeOK, SessionType
<1>2. \A t \in Sessions \ {s} : session'[t] = session[t]
  BY <1>1
<1>3. \A t \in Sessions \ {s} : (Holding(t)' <=> Holding(t)) /\ (Inserts(t)' <=> Inserts(t))
  BY <1>2, SameSession
<1>4. TypeOK'
  BY <1>1 DEF IInv, TypeOK, SessionType
<1>5. Exclusive'
  <2>1. ASSUME NEW t \in Sessions \ {s}, Holding(s)', Holding(t)' PROVE FALSE
    BY <1>3, <2>1 DEF IInv, Exclusive, RowFree, Holding
  <2>. QED
    BY <1>3, <2>1 DEF IInv, Exclusive
<1>6. \A t \in Sessions \ {s} : Fit(t)' /\ Current(t)'
  BY <1>2, <1>3 DEF IInv, Fit, Current
<1>7. Consecutive' /\ KeysFollow'
  BY DEF IInv, Consecutive, KeysFollow, OneActiveKey
<1>. QED
  BY <1>4, <1>5, <1>6, <1>7 DEF IInv

LEMMA LeaveStep ==
  ASSUME IInv, NEW s \in Sessions, session' = [session EXCEPT ![s] = Idle],
         UNCHANGED <<agent, revisions, keys>>,
         peers' \subseteq Peers, index' \subseteq Capabilities, listed' \subseteq Capabilities,
         disturbed' \in BOOLEAN
  PROVE  IInv'
<1>1. session'[s] = Idle
  BY DEF IInv, TypeOK
<1>2. Fit(s)' /\ Current(s)' /\ ~Holding(s)'
  BY <1>1 DEF Fit, Current, Holding, Busy, Talking, Idle
<1>. QED
  BY <1>2, SessionStep DEF SessionType

LEMMA LoadStep ==
  ASSUME IInv, NEW s \in Sessions, NEW op \in Ops, NEW sets \in Change, NEW copy \in Told \cup {NoAgent},
         Load(s, op, sets, copy),
         IF op \in {"register", "insert"} THEN sets \in Row ELSE agent # NoAgent,
         op \in Announced => copy \in Told
  PROVE  IInv'
<1>. DEFINE x == [pc |-> "loaded", op |-> op, sets |-> sets, copy |-> copy,
                  revision |-> 0, old |-> {}, previous |-> {}]
<1>1. x \in SessionType
  BY DEF SessionType, Working, Ops
<1>2. session' = [session EXCEPT ![s] = x] /\ UNCHANGED <<peers, agent, revisions, keys, index, listed, disturbed>>
  BY DEF Load, Redis
<1>3. session'[s] = x
  BY <1>2 DEF IInv, TypeOK
<1>4. ~Holding(s)' /\ Fit(s)' /\ Current(s)'
  BY <1>2, <1>3 DEF Holding, Fit, Current, Inserts, Busy, Talking
<1>. QED
  BY <1>1, <1>2, <1>4, SessionStep DEF IInv, TypeOK

(***************************************************************************)
(* The requests.                                                           *)
(***************************************************************************)
Request(s) ==
  \/ \E caps \in SUBSET Capabilities : Register(s, caps) \/ UpdateAgent(s, caps)
  \/ SuspendAgent(s) \/ ReinstateAgent(s) \/ DeregisterAgent(s) \/ RotateKey(s)
  \/ SendHeartbeat(s) \/ MarkInactive(s)
  \/ \E p \in Peers : SyncRegistry(s, p)
  \/ \E target \in Peers \cup {Home} : MigrateAgent(s, target)

LEMMA RequestStep == ASSUME IInv, NEW s \in Sessions, Request(s) PROVE IInv'
<1>1. agent \in Row \cup {NoAgent} /\ (agent # NoAgent => agent \in Row)
  BY DEF IInv, TypeOK
<1>2. ASSUME NEW caps \in SUBSET Capabilities, Register(s, caps) PROVE IInv'
  <2>. DEFINE row == [status |-> "active", deleted |-> FALSE, caps |-> caps,
                      federated |-> FALSE, origin |-> Home]
  <2>1. row \in Row /\ Telling(row) \in Told
    BY DEF Row, Status, Telling, Told
  <2>2. Load(s, "register", row, Telling(row))
    BY <1>2 DEF Register
  <2>. HIDE DEF row
  <2>3. "register" \in Ops /\ row \in Change
    BY <2>1, RowIsChange DEF Ops, Announced
  <2>. QED
    BY <2>1, <2>2, <2>3, LoadStep
<1>3. ASSUME NEW caps \in SUBSET Capabilities, UpdateAgent(s, caps) PROVE IInv'
  <2>. DEFINE sets == [Nothing EXCEPT !.caps = IF agent.caps = caps THEN Kept ELSE caps]
              row  == [agent EXCEPT !.caps = caps]
  <2>1. agent # NoAgent /\ Load(s, "update", sets, Telling(row))
    BY <1>3 DEF UpdateAgent, Update, Known
  <2>2. sets \in Change
    BY DEF Nothing, Change
  <2>3. row \in Row /\ Telling(row) \in Told
    BY <1>1, <2>1 DEF Row, Telling, Told
  <2>4. "update" \in Ops
    BY DEF Ops, Announced
  <2>. HIDE DEF sets, row
  <2>. QED
    BY <2>1, <2>2, <2>3, <2>4, LoadStep
<1>4. ASSUME SuspendAgent(s) \/ ReinstateAgent(s) PROVE IInv'
  <2>1. PICK status \in {"suspended", "active"} : Update(s, "status", status)
    BY <1>4 DEF SuspendAgent, ReinstateAgent
  <2>. DEFINE sets == [Nothing EXCEPT !.status = IF agent.status = status THEN Kept ELSE status]
              row  == [agent EXCEPT !.status = status]
  <2>2. agent # NoAgent /\ Load(s, "update", sets, Telling(row))
    BY <2>1 DEF Update, Known
  <2>3. sets \in Change
    BY DEF Nothing, Change, Status
  <2>4. row \in Row /\ Telling(row) \in Told
    BY <1>1, <2>2 DEF Row, Telling, Told, Status
  <2>5. "update" \in Ops
    BY DEF Ops, Announced
  <2>. HIDE DEF sets, row
  <2>. QED
    BY <2>2, <2>3, <2>4, <2>5, LoadStep
<1>5. ASSUME NEW status \in Status, NEW deleted \in BOOLEAN \cup {Kept}, NEW op \in Ops \ (Announced \cup {"insert"}),
             agent # NoAgent,
             Load(s, op, [Nothing EXCEPT !.status = IF agent.status = status THEN Kept ELSE status,
                                         !.deleted = deleted], NoAgent)
      PROVE  IInv'
  <2>. DEFINE sets == [Nothing EXCEPT !.status = IF agent.status = status THEN Kept ELSE status, !.deleted = deleted]
  <2>1. sets \in Change
    BY DEF Nothing, Change
  <2>. HIDE DEF sets
  <2>2. Load(s, op, sets, NoAgent)
    BY <1>5 DEF sets
  <2>. QED
    BY <1>5, <2>1, <2>2, LoadStep DEF Announced
<1>6. ASSUME NEW op \in {"status", "rotate"}, NEW sets \in Change, agent # NoAgent, Load(s, op, sets, NoAgent)
      PROVE  IInv'
  <2>1. op \in Ops
    BY DEF Ops
  <2>. QED
    BY <1>6, <2>1, LoadStep DEF Announced
<1>7. DeregisterAgent(s) => IInv'
  <2>1. "deregistered" \in Status /\ "deregister" \in Ops \ (Announced \cup {"insert"})
    BY DEF Status, Ops, Announced
  <2>. QED
    BY <1>5, <2>1 DEF DeregisterAgent
<1>8. RotateKey(s) => IInv'
  BY <1>6, NothingType DEF RotateKey, Known
<1>9. ASSUME SendHeartbeat(s) \/ MarkInactive(s) PROVE IInv'
  <2>1. PICK status \in {"active", "inactive"} : Load(s, "status", [Nothing EXCEPT !.status = status], NoAgent)
    BY <1>9 DEF SendHeartbeat, MarkInactive
  <2>2. [Nothing EXCEPT !.status = status] \in Change /\ agent # NoAgent
    BY <1>9 DEF Nothing, Change, Status, SendHeartbeat, MarkInactive, Known
  <2>. QED
    BY <1>6, <2>1, <2>2
<1>10. ASSUME NEW op \in {"insert", "peer", "migrate"}, NEW now \in Row, (op = "insert" <=> agent = NoAgent),
              Load(s, op, Changed(now), NoAgent)
       PROVE  IInv'
  <2>1. Changed(now) \in Change /\ (agent = NoAgent => Changed(now) = now)
    BY <1>1, ChangedType
  <2>2. op \in Ops
    BY DEF Ops
  <2>. QED
    BY <1>10, <2>1, <2>2, LoadStep DEF Announced
<1>11. ASSUME NEW p \in Peers, SyncRegistry(s, p) PROVE IInv'
  <2>1. CASE RemoveFederatedAgent(s, p)
    <3>1. "deregistered" \in Status /\ "peer" \in Ops \ (Announced \cup {"insert"})
      BY DEF Status, Ops, Announced
    <3>. QED
      BY <1>5, <2>1, <3>1 DEF RemoveFederatedAgent
  <2>2. ASSUME NEW status \in PeerStatus, NEW caps \in SUBSET Capabilities, UpsertFederatedAgent(s, p, status, caps)
        PROVE  IInv'
    <3>. DEFINE row == [status |-> status, deleted |-> FALSE, caps |-> caps, federated |-> TRUE, origin |-> p]
    <3>1. row \in Row
      BY DirectoryAssumption DEF Row, Status
    <3>2. Load(s, IF agent = NoAgent THEN "insert" ELSE "peer", Changed(row), NoAgent)
      BY <2>2 DEF UpsertFederatedAgent
    <3>. HIDE DEF row
    <3>. QED
      BY <1>10, <3>1, <3>2
  <2>. QED
    BY <1>11, <2>1, <2>2 DEF SyncRegistry
<1>12. ASSUME NEW target \in Peers \cup {Home}, MigrateAgent(s, target) PROVE IInv'
  <2>. DEFINE row == [agent EXCEPT !.status = "active", !.origin = target, !.federated = (target # Home)]
  <2>1. agent # NoAgent /\ Load(s, "migrate", Changed(row), NoAgent)
    BY <1>12 DEF MigrateAgent, Known
  <2>2. row \in Row
    BY <1>1, <2>1 DEF Row, Status
  <2>. HIDE DEF row
  <2>. QED
    BY <1>10, <2>1, <2>2
<1>. QED
  BY <1>2, <1>3, <1>4, <1>7, <1>8, <1>9, <1>11, <1>12 DEF Request

(***************************************************************************)
(* The lock, Redis, and leaving.                                           *)
(***************************************************************************)
LEMMA LatestIsLast == ASSUME NEW n \in Nat, revisions = 1 .. n PROVE Latest = n
<1>1. CASE n = 0
  BY <1>1 DEF Latest
<1>2. CASE n # 0
  <2>1. n \in revisions /\ \A m \in revisions : m <= n
    BY <1>2
  <2>2. \A k \in revisions : (\A m \in revisions : m <= k) => k = n
    BY <2>1
  <2>. QED
    BY <2>1, <2>2 DEF Latest
<1>. QED
  BY <1>1, <1>2

LEMMA FlushStep == ASSUME IInv, NEW s \in Sessions, Flush(s) PROVE IInv'
<1>. DEFINE op == session[s].op
<1>1. /\ session \in [Sessions -> SessionType] /\ session[s] \in Working /\ session[s].pc = "loaded"
      /\ op # "deregister" /\ RowFree(s) /\ UNCHANGED <<peers, agent, revisions, keys, index, listed, disturbed>>
      /\ revisions \subseteq Nat /\ keys \in Keys /\ listed \subseteq Capabilities
      /\ Fit(s)
  BY DEF IInv, TypeOK, SessionType, Flush, Redis, Idle, Scoring
<1>2. CASE Inserts(s) /\ agent # NoAgent
  BY <1>1, <1>2, LeaveStep DEF Flush, IInv, TypeOK
<1>3. CASE ~(Inserts(s) /\ agent # NoAgent)
  <2>1. Latest + 1 = Cardinality(revisions) + 1 /\ Latest \in Nat
    <3>1. PICK n \in Nat : n = Cardinality(revisions) /\ revisions = 1 .. n
      BY FS_CardinalityType DEF IInv, Consecutive
    <3>. QED
      BY <3>1, LatestIsLast
  <2>. DEFINE pc       == IF op \in Announced THEN "removing" ELSE "done"
              revision == IF op \in Announced THEN Latest + 1 ELSE 0
              old      == IF op = "rotate" THEN keys.active ELSE {}
              previous == IF op \in Announced THEN listed ELSE {}
              x == [session[s] EXCEPT !.pc = pc, !.revision = revision, !.old = old, !.previous = previous]
  <2>2. pc \in {"removing", "done"} /\ revision \in Nat /\ old \in SUBSET Nat /\ previous \in SUBSET Capabilities
    BY <1>1, <2>1 DEF Keys
  <2>3. session' = [session EXCEPT ![s] = x]
    BY <1>1, <1>3 DEF Flush
  <2>4. x \in Working /\ x.pc = pc /\ x.revision = revision /\ x.old = old
        /\ x.op = op /\ x.sets = session[s].sets /\ x.copy = session[s].copy
    <3>. HIDE DEF pc, revision, old, previous
    <3>. QED
      BY <1>1, <2>2 DEF Working
  <2>5. session'[s] = x
    BY <1>1, <2>3
  <2>. HIDE DEF x
  <2>6. (Inserts(s)' <=> Inserts(s)) /\ Holding(s)'
    BY <1>1, <2>2, <2>4, <2>5 DEF Inserts, Holding
  <2>7. Fit(s)'
    BY <1>1, <2>4, <2>5, <2>6 DEF Fit, Busy, Talking
  <2>8. Current(s)'
    BY <1>1, <1>3, <2>1, <2>4, <2>5, <2>6 DEF Current
  <2>. QED
    BY <1>1, <2>3, <2>4, <2>7, <2>8, SessionStep DEF SessionType, IInv, TypeOK
<1>. QED
  BY <1>2, <1>3

(* A session goes on with its calls to Redis.                              *)
LEMMA TalkStep ==
  ASSUME IInv, NEW s \in Sessions,
         session[s].pc \in Talking \/ (session[s].pc = "loaded" /\ session[s].op = "deregister"),
         NEW pc \in Talking \cup {"done"}, NEW previous \in SUBSET Capabilities,
         NEW copy \in {session[s].copy, NoAgent}, pc # "done" => copy = session[s].copy,
         session' = [session EXCEPT ![s] = [session[s] EXCEPT !.pc = pc, !.previous = previous, !.copy = copy]],
         UNCHANGED <<peers, agent, revisions, keys>>,
         index' \subseteq Capabilities, listed' \subseteq Capabilities, disturbed' \in BOOLEAN
  PROVE  IInv'
<1>1. /\ session \in [Sessions -> SessionType] /\ session[s] \in Working /\ session[s].pc \in Busy
      /\ Fit(s) /\ Current(s)
  BY DEF IInv, TypeOK, SessionType, Talking, Busy, Idle, Scoring
<1>2. PICK x \in Working : /\ x = [session[s] EXCEPT !.pc = pc, !.previous = previous, !.copy = copy]
                           /\ x.pc = pc /\ x.copy = copy /\ x.op = session[s].op
                           /\ x.sets = session[s].sets /\ x.revision = session[s].revision
                           /\ x.old = session[s].old
  <2>. DEFINE y == [session[s] EXCEPT !.pc = pc, !.previous = previous, !.copy = copy]
  <2>1. /\ y \in Working /\ y.pc = pc /\ y.copy = copy /\ y.op = session[s].op
        /\ y.sets = session[s].sets /\ y.revision = session[s].revision /\ y.old = session[s].old
    BY <1>1 DEF Working, Talking
  <2>. QED
    BY <2>1
<1>3. session' = [session EXCEPT ![s] = x] /\ session'[s] = x
  BY <1>1, <1>2
<1>4. (Inserts(s)' <=> Inserts(s)) /\ (Holding(s)' <=> Holding(s))
  BY <1>2, <1>3 DEF Inserts, Holding, Talking
<1>5. Fit(s)'
  BY <1>1, <1>2, <1>3, <1>4 DEF Fit, Busy, Talking
<1>6. Current(s)'
  BY <1>1, <1>2, <1>3, <1>4 DEF Current
<1>. QED
  BY <1>2, <1>3, <1>4, <1>5, <1>6, SessionStep DEF SessionType, IInv, TypeOK

Talk(s) == Smembers(s) \/ Zrem(s) \/ Delete(s) \/ Sadd(s) \/ Zadd(s) \/ RedisFails(s)

LEMMA TalkSteps == ASSUME IInv, NEW s \in Sessions, Talk(s) PROVE IInv'
<1>1. /\ session \in [Sessions -> SessionType] /\ Fit(s)
      /\ index \subseteq Capabilities /\ listed \subseteq Capabilities /\ disturbed \in BOOLEAN
  BY DEF IInv, TypeOK, SessionType
<1>2. /\ session[s] \in Working
      /\ session[s].pc \in Talking \/ (session[s].pc = "loaded" /\ session[s].op = "deregister")
      /\ UNCHANGED <<peers, agent, revisions, keys>>
  <2>1. session[s].pc \in Talking \/ (session[s].pc = "loaded" /\ session[s].op = "deregister")
    BY DEF Talk, Smembers, Zrem, Delete, Sadd, Zadd, RedisFails, Talking
  <2>2. session[s] \in Working
    BY <1>1, <2>1 DEF SessionType, Talking, Idle, Scoring
  <2>3. UNCHANGED <<peers, agent, revisions, keys>>
    BY DEF Talk, Smembers, Zrem, Delete, Sadd, Zadd, RedisFails
  <2>. QED
    BY <2>1, <2>2, <2>3
<1>3. /\ session[s].copy \in Told \cup {NoAgent} /\ session[s].previous \in SUBSET Capabilities
      /\ session[s] = [session[s] EXCEPT !.copy = session[s].copy]
      /\ session[s] = [session[s] EXCEPT !.previous = session[s].previous]
  BY <1>2 DEF Working
<1>4. Names(s) \subseteq Capabilities
  <2>1. CASE session[s].op = "deregister"
    BY <2>1 DEF Names
  <2>2. CASE session[s].op # "deregister"
    <3>1. session[s].copy \in Told
      BY <1>1, <1>2, <2>2 DEF Fit, Busy, Talking
    <3>. QED
      BY <2>2, <3>1 DEF Names, Told
  <2>. QED
    BY <2>1, <2>2
<1>5. /\ index' \subseteq Capabilities /\ listed' \subseteq Capabilities /\ disturbed' \in BOOLEAN
  <2>1. CASE RedisFails(s)
    <3>1. UNCHANGED listed /\ disturbed' = TRUE
      BY <2>1 DEF RedisFails
    <3>2. index' \subseteq Capabilities
      BY <1>1, <1>4, <2>1 DEF RedisFails
    <3>. QED
      BY <1>1, <3>1, <3>2
  <2>2. CASE Smembers(s) \/ Zrem(s) \/ Delete(s) \/ Sadd(s)
    BY <1>1, <1>4, <2>2 DEF Smembers, Zrem, Delete, Sadd, Redis
  <2>3. CASE Zadd(s)
    BY <1>1, <1>4, <2>3 DEF Zadd
  <2>. QED
    BY <2>1, <2>2, <2>3 DEF Talk
<1>6. \E pc \in Talking \cup {"done"}, previous \in SUBSET Capabilities, copy \in {session[s].copy, NoAgent} :
        /\ pc # "done" => copy = session[s].copy
        /\ session' = [session EXCEPT ![s] = [session[s] EXCEPT !.pc = pc, !.previous = previous, !.copy = copy]]
  <2>. DEFINE Becomes(pc, previous, copy) ==
                session' = [session EXCEPT ![s] = [session[s] EXCEPT !.pc = pc, !.previous = previous, !.copy = copy]]
  <2>1. CASE Smembers(s)
    <3>1. Becomes("removing", listed, session[s].copy)
      BY <1>1, <1>2, <2>1 DEF Smembers, Working
    <3>. QED
      BY <1>1, <3>1 DEF Talking
  <2>2. CASE Zrem(s)
    <3>1. Becomes("delisting", session[s].previous, session[s].copy)
      BY <1>1, <1>2, <2>2 DEF Zrem, Working
    <3>. QED
      BY <1>3, <3>1 DEF Talking
  <2>3. CASE Delete(s)
    <3>1. PICK pc \in {"done", "listing"} : session' = [session EXCEPT ![s].pc = pc, ![s].previous = {}]
      BY <2>3 DEF Delete
    <3>2. Becomes(pc, {}, session[s].copy)
      BY <1>1, <1>2, <3>1 DEF Working
    <3>. QED
      BY <3>2 DEF Talking
  <2>4. CASE Sadd(s)
    <3>1. Becomes("indexing", session[s].previous, session[s].copy)
      BY <1>1, <1>2, <2>4 DEF Sadd, Working
    <3>. QED
      BY <1>3, <3>1 DEF Talking
  <2>5. CASE Zadd(s)
    <3>1. Becomes("done", session[s].previous, NoAgent)
      BY <1>1, <1>2, <2>5 DEF Zadd, Working
    <3>. QED
      BY <1>3, <3>1
  <2>6. CASE RedisFails(s)
    <3>1. Becomes("done", {}, NoAgent)
      BY <1>1, <1>2, <2>6 DEF RedisFails, Working
    <3>. QED
      BY <3>1
  <2>. QED
    BY <2>1, <2>2, <2>3, <2>4, <2>5, <2>6 DEF Talk
<1>. QED
  <2>1. PICK pc \in Talking \cup {"done"}, previous \in SUBSET Capabilities, copy \in {session[s].copy, NoAgent} :
          /\ pc # "done" => copy = session[s].copy
          /\ session' = [session EXCEPT ![s] = [session[s] EXCEPT !.pc = pc, !.previous = previous, !.copy = copy]]
    BY <1>6
  <2>. QED
    BY <1>2, <1>5, <2>1, TalkStep

LEMMA OtherSteps ==
  ASSUME IInv, NEW s \in Sessions, Abort(s) \/ LoadListed(s) \/ UpdateScore(s)
  PROVE  IInv'
<1>1. /\ session \in [Sessions -> SessionType] /\ peers \subseteq Peers
      /\ index \subseteq Capabilities /\ listed \subseteq Capabilities /\ disturbed \in BOOLEAN
  BY DEF IInv, TypeOK, SessionType
<1>2. CASE Abort(s)
  <2>1. disturbed' \in BOOLEAN
    BY <1>1, <1>2 DEF Abort
  <2>. QED
    BY <1>1, <1>2, <2>1, LeaveStep DEF Abort, Redis
<1>3. CASE LoadListed(s)
  <2>. DEFINE x == [pc |-> "scoring", previous |-> listed]
  <2>1. x \in SessionType /\ session' = [session EXCEPT ![s] = x]
    BY <1>1, <1>3 DEF LoadListed, SessionType, Scoring
  <2>2. session'[s] = x
    BY <1>1, <2>1
  <2>3. Fit(s)' /\ Current(s)' /\ ~Holding(s)'
    BY <2>2 DEF Fit, Current, Holding, Busy, Talking
  <2>. QED
    BY <1>1, <1>3, <2>1, <2>3, SessionStep DEF LoadListed, Redis
<1>4. CASE UpdateScore(s)
  <2>1. session[s].previous \subseteq Capabilities
    BY <1>1, <1>4 DEF UpdateScore, SessionType, Idle, Working, Scoring
  <2>2. index' \subseteq Capabilities
    BY <1>1, <1>4, <2>1 DEF UpdateScore
  <2>. QED
    BY <1>1, <1>4, <2>2, LeaveStep DEF UpdateScore
<1>. QED
  BY <1>2, <1>3, <1>4

(***************************************************************************)
(* The commit.                                                             *)
(***************************************************************************)
LEMMA CommitStep == ASSUME IInv, NEW s \in Sessions, Commit(s) PROVE IInv'
<1>. DEFINE op == session[s].op
            n  == Cardinality(revisions)
<1>1. /\ session \in [Sessions -> SessionType] /\ session[s] \in Working /\ session[s].pc = "done"
      /\ RowFree(s) /\ UNCHANGED <<peers, index, listed>> /\ session' = [session EXCEPT ![s] = Idle]
      /\ agent' = Written(s) /\ agent \in Row \cup {NoAgent} /\ revisions \subseteq Nat /\ keys \in Keys
      /\ disturbed \in BOOLEAN
      /\ Fit(s) /\ Current(s) /\ session[s].pc \in Busy
  BY DEF IInv, TypeOK, SessionType, Commit, Redis, Idle, Scoring, Busy
<1>2. agent' \in Row /\ agent' # NoAgent
  BY <1>1, WrittenType, NoAgentAssumption DEF IInv
<1>3. n \in Nat /\ IsFiniteSet(revisions) /\ revisions = 1 .. n
  BY FS_CardinalityType DEF IInv, Consecutive
<1>4. /\ session'[s] = Idle /\ ~Holding(s)' /\ Fit(s)' /\ Current(s)'
      /\ \A t \in Sessions \ {s} : session'[t] = session[t] /\ ~Holding(t)
  <2>1. session'[s] = Idle /\ \A t \in Sessions \ {s} : session'[t] = session[t]
    BY <1>1
  <2>2. \A t \in Sessions \ {s} : ~Holding(t)
    BY <1>1 DEF RowFree, Holding
  <2>3. ~Holding(s)' /\ Fit(s)' /\ Current(s)'
    BY <2>1 DEF Holding, Fit, Current, Busy, Talking, Idle
  <2>. QED
    BY <2>1, <2>2, <2>3
<1>5. \A t \in Sessions \ {s} : (Inserts(t)' <=> Inserts(t)) /\ (Holding(t)' <=> Holding(t))
  BY <1>4, SameSession
<1>6. Exclusive'
  BY <1>4, <1>5 DEF Exclusive
<1>7. ASSUME NEW t \in Sessions \ {s} PROVE Fit(t)' /\ Current(t)'
  <2>1. Fit(t) /\ Current(t) /\ ~Holding(t)
    BY <1>4, <1>7 DEF IInv
  <2>2. Fit(t)'
    BY <1>2, <1>4, <1>5, <2>1 DEF Fit
  <2>3. Current(t)'
    BY <1>4, <1>5, <2>1 DEF Current
  <2>. QED
    BY <2>2, <2>3
<1>9. /\ revisions' \subseteq Nat /\ Consecutive'
  <2>1. CASE session[s].revision = 0
    <3>1. revisions' = revisions
      BY <2>1 DEF Commit
    <3>. QED
      BY <1>1, <3>1 DEF IInv, Consecutive
  <2>2. CASE session[s].revision # 0
    <3>1. session[s].revision = n + 1
      BY <1>1, <2>2 DEF Current
    <3>2. revisions' = revisions \cup {n + 1}
      BY <2>2, <3>1 DEF Commit
    <3>. HIDE DEF n
    <3>3. revisions' = 1 .. n + 1
      BY <1>3, <3>2
    <3>4. IsFiniteSet(1 .. n + 1) /\ Cardinality(1 .. n + 1) = n + 1
      BY <1>3, FS_Interval
    <3>5. Consecutive'
      BY <3>3, <3>4 DEF Consecutive
    <3>. QED
      BY <1>3, <3>3, <3>5
  <2>. QED
    BY <2>1, <2>2
<1>10. keys' \in Keys /\ OneActiveKey'
  <2>1. CASE op \in {"register", "rotate"}
    <3>1. Holding(s)
      BY <1>1, <2>1 DEF Holding
    <3>2. keys.active \ session[s].old = {}
      <4>1. CASE op = "rotate"
        BY <1>1, <3>1, <4>1 DEF Current
      <4>2. CASE op = "register"
        BY <1>1, <3>1, <4>2 DEF Current, Inserts, IInv, KeysFollow
      <4>. QED
        BY <2>1, <4>1, <4>2
    <3>3. keys' = [issued |-> keys.issued + 1, active |-> {keys.issued + 1}]
      BY <2>1, <3>2 DEF Commit
    <3>4. keys.issued + 1 \in Nat
      BY <1>1 DEF Keys
    <3>5. Cardinality(keys'.active) = 1
      BY <3>3, FS_Singleton
    <3>. QED
      BY <3>3, <3>4, <3>5 DEF Keys, OneActiveKey
  <2>2. CASE op \notin {"register", "rotate"}
    <3>1. keys' = keys
      BY <2>2 DEF Commit
    <3>. QED
      BY <1>1, <3>1 DEF IInv, KeysFollow, OneActiveKey
  <2>. QED
    BY <2>1, <2>2
<1>11. disturbed' \in BOOLEAN
  BY <1>1 DEF Commit, Unannounced
<1>12. TypeOK'
  <2>1. session' \in [Sessions -> SessionType]
    BY <1>1 DEF SessionType
  <2>2. peers \subseteq Peers /\ index \subseteq Capabilities /\ listed \subseteq Capabilities
    BY DEF IInv, TypeOK
  <2>. QED
    BY <1>1, <1>2, <1>9, <1>10, <1>11, <2>1, <2>2 DEF TypeOK, SessionType
<1>. QED
  BY <1>2, <1>4, <1>6, <1>7, <1>9, <1>10, <1>12 DEF IInv, KeysFollow

LEMMA NextIInv == IInv /\ [Next]_vars => IInv'
<1>. SUFFICES ASSUME IInv, [Next]_vars PROVE IInv'
  OBVIOUS
<1>1. CASE UNCHANGED <<agent, revisions, keys, index, listed, session, disturbed>> /\ peers' \subseteq Peers
  <2>1. \A t : (Holding(t)' <=> Holding(t)) /\ (Inserts(t)' <=> Inserts(t))
    BY <1>1, SameSession
  <2>2. TypeOK' /\ Consecutive' /\ KeysFollow'
    BY <1>1 DEF IInv, TypeOK, Consecutive, KeysFollow, OneActiveKey
  <2>3. Exclusive' /\ \A t \in Sessions : Fit(t)' /\ Current(t)'
    BY <1>1, <2>1 DEF IInv, Exclusive, Fit, Current
  <2>. QED
    BY <2>2, <2>3 DEF IInv
<1>2. ASSUME NEW p \in Peers, CreatePeer(p) PROVE IInv'
  BY <1>1, <1>2 DEF CreatePeer, Redis, IInv, TypeOK
<1>3. CASE UNCHANGED vars
  BY <1>1, <1>3 DEF vars, IInv, TypeOK
<1>4. ASSUME NEW s \in Sessions,
             \/ Request(s) \/ Flush(s) \/ Commit(s) \/ Talk(s)
             \/ Abort(s) \/ LoadListed(s) \/ UpdateScore(s)
      PROVE  IInv'
  BY <1>4, RequestStep, FlushStep, CommitStep, TalkSteps, OtherSteps
<1>. QED
  BY <1>2, <1>3, <1>4 DEF Next, Request, Talk

(***************************************************************************)
(* The theorems.                                                           *)
(***************************************************************************)
(* The strengthened invariant holds in every state of the program.         *)
THEOREM Invariance == Spec => []IInv
  BY InitIInv, NextIInv, PTL DEF Spec

(* Rows, keys and index keep their types: no session writes a column it    *)
(* meant to keep.                                                          *)
THEOREM TypeCorrect == Spec => []TypeOK
<1>1. IInv => TypeOK
  BY DEF IInv
<1>. QED
  BY <1>1, Invariance, PTL

(* The number a session has read for its version is free until it commits, *)
(* and one API key is in force, however many sessions there are.           *)
THEOREM ChangesInTurn == Spec => []ChangesSerialise
<1>1. IInv => ChangesSerialise
  <2>. SUFFICES ASSUME IInv PROVE ChangesSerialise
    OBVIOUS
  <2>1. ASSUME NEW s \in Sessions, session[s].pc \notin {"idle", "scoring"}
        PROVE  session[s].revision \notin revisions
    <3>1. session[s].pc \in Busy
      BY <2>1 DEF IInv, TypeOK, Idle, Scoring, Working, Busy, Talking
    <3>2. PICK n \in Nat : n = Cardinality(revisions) /\ revisions = 1 .. n
      BY FS_CardinalityType DEF IInv, Consecutive
    <3>3. session[s].revision \in {0, n + 1}
      BY <3>1, <3>2 DEF IInv, Current
    <3>4. 0 \notin 1 .. n /\ n + 1 \notin 1 .. n
      OBVIOUS
    <3>. QED
      BY <3>2, <3>3, <3>4
  <2>. QED
    BY <2>1 DEF IInv, Consecutive, KeysFollow, ChangesSerialise, RevisionsFree
<1>. QED
  BY <1>1, Invariance, PTL

(***************************************************************************)
(* The index.  The row is found by the index, or something parted them, or *)
(* a session that has begun to write to Redis is still at work; and the    *)
(* row a synchronization is about to commit will be found by it.           *)
(***************************************************************************)
Found(row) ==
  row # NoAgent /\ ~row.deleted /\ row.status = "active" => row.caps \subseteq index

(* The session has begun to take the agent off the index.                  *)
Touching(s) ==
  /\ session[s].pc \in {"delisting", "listing", "indexing", "done"}
  /\ session[s].op \in Announced \cup {"deregister"}

Wiping(s) == Touching(s) /\ session[s].op = "deregister"

Explained == disturbed \/ (\E s \in Sessions : Touching(s)) \/ Found(agent)

Synchronized(s) ==
  session[s].pc = "done" /\ session[s].op \in Announced =>
    disturbed \/ (\E t \in Sessions : Wiping(t)) \/ Found(Written(s))

(* What the requests other than register and update write.                 *)
Sensible(s) == session[s].pc \in Busy =>
  /\ session[s].op = "deregister" => session[s].sets.deleted = TRUE
  /\ session[s].op = "rotate" => session[s].sets = Nothing
  /\ session[s].op = "status" => session[s].sets.status \in {"active", "inactive"}
  /\ session[s].op = "migrate" =>
       /\ session[s].sets.status \in {"active", Kept}
       /\ session[s].sets.deleted = Kept /\ session[s].sets.caps = Kept
  /\ session[s].pc \in {"listing", "indexing"} => session[s].op \in Announced

CauseInv == Explained /\ \A s \in Sessions : Synchronized(s) /\ Sensible(s)

LEMMA InitCause == Init => CauseInv
<1>. SUFFICES ASSUME Init PROVE CauseInv
  OBVIOUS
<1>1. \A s \in Sessions : session[s] = Idle /\ session[s].pc = "idle"
  BY DEF Init, Idle
<1>2. Found(agent)
  BY DEF Init, Found
<1>3. \A s \in Sessions : Synchronized(s) /\ Sensible(s)
  BY <1>1 DEF Synchronized, Sensible, Busy, Talking
<1>. QED
  BY <1>2, <1>3 DEF CauseInv, Explained

(***************************************************************************)
(* Steps that leave the row alone.                                         *)
(***************************************************************************)
LEMMA SameTouch ==
  ASSUME NEW t, session'[t] = session[t], agent' = agent
  PROVE  /\ (Touching(t)' <=> Touching(t)) /\ (Wiping(t)' <=> Wiping(t))
         /\ (Sensible(t)' <=> Sensible(t)) /\ Written(t)' = Written(t)
  BY DEF Touching, Wiping, Sensible, Written

(* Session s steps, and what it does to the index is explained: something  *)
(* failed; or it has the lock, and answers for the index; or it wipes the  *)
(* agent off the index; or it takes nothing away.                          *)
LEMMA CauseStep ==
  ASSUME IInv, CauseInv, NEW s \in Sessions,
         \A t \in Sessions \ {s} : session'[t] = session[t], agent' = agent,
         Sensible(s)', Synchronized(s)',
         \/ disturbed'
         \/ Holding(s) /\ Touching(s)'
         \/ disturbed' = disturbed /\ Wiping(s)'
         \/ /\ disturbed' = disturbed /\ index \subseteq index'
            /\ (Touching(s) => Touching(s)') /\ (Wiping(s) => Wiping(s)')
  PROVE  CauseInv'
<1>1. \A t \in Sessions \ {s} : /\ (Touching(t)' <=> Touching(t)) /\ (Wiping(t)' <=> Wiping(t))
                                /\ (Sensible(t)' <=> Sensible(t)) /\ Written(t)' = Written(t)
  BY SameTouch
<1>2. \A t \in Sessions \ {s} : Sensible(t)'
  BY <1>1 DEF CauseInv
<1>3. CASE disturbed'
  BY <1>2, <1>3 DEF CauseInv, Explained, Synchronized
<1>4. CASE Holding(s) /\ Touching(s)'
  <2>1. ASSUME NEW t \in Sessions \ {s} PROVE Synchronized(t)'
    <3>1. ~Holding(t)
      BY <1>4 DEF IInv, Exclusive
    <3>2. ~(session[t].pc = "done" /\ session[t].op \in Announced)
      BY <3>1 DEF Holding, Announced
    <3>. QED
      BY <3>2 DEF Synchronized
  <2>. QED
    BY <1>2, <1>4, <2>1 DEF CauseInv, Explained
<1>5. CASE disturbed' = disturbed /\ Wiping(s)'
  BY <1>2, <1>5 DEF CauseInv, Explained, Synchronized, Wiping
<1>6. CASE /\ disturbed' = disturbed /\ index \subseteq index'
           /\ (Touching(s) => Touching(s)') /\ (Wiping(s) => Wiping(s)')
  <2>1. \A row : Found(row) => Found(row)'
    BY <1>6 DEF Found
  <2>2. Explained'
    BY <1>1, <1>6, <2>1 DEF CauseInv, Explained, Found
  <2>3. (\E t \in Sessions : Wiping(t)) => (\E t \in Sessions : Wiping(t)')
    BY <1>1, <1>6
  <2>4. ASSUME NEW t \in Sessions \ {s} PROVE Synchronized(t)'
    <3>1. Synchronized(t) /\ session'[t] = session[t] /\ Written(t)' = Written(t)
      BY <1>1 DEF CauseInv
    <3>2. Found(Written(t)) => Found(Written(t))'
      BY <1>6, <3>1 DEF Found
    <3>. QED
      BY <1>6, <2>3, <3>1, <3>2 DEF Synchronized
  <2>. QED
    BY <1>2, <2>2, <2>4 DEF CauseInv
<1>. QED
  BY <1>3, <1>4, <1>5, <1>6

(* Nothing happens to the index, and the session is not yet at it.         *)
LEMMA QuietStep ==
  ASSUME IInv, CauseInv, NEW s \in Sessions, ~Touching(s),
         \A t \in Sessions \ {s} : session'[t] = session[t],
         UNCHANGED <<agent, disturbed>>, index \subseteq index',
         Sensible(s)', session'[s].pc # "done" \/ session'[s].op \notin Announced
  PROVE  CauseInv'
<1>1. Synchronized(s)'
  BY DEF Synchronized
<1>2. ~Wiping(s)
  BY DEF Wiping
<1>. QED
  BY <1>1, <1>2, CauseStep

LEMMA LoadCause ==
  ASSUME IInv, CauseInv, NEW s \in Sessions, NEW op, NEW sets, NEW copy, Load(s, op, sets, copy),
         op = "deregister" => sets.deleted = TRUE,
         op = "rotate" => sets = Nothing,
         op = "status" => sets.status \in {"active", "inactive"},
         op = "migrate" => /\ sets.status \in {"active", Kept}
                           /\ sets.deleted = Kept /\ sets.caps = Kept
  PROVE  CauseInv'
<1>. DEFINE x == [pc |-> "loaded", op |-> op, sets |-> sets, copy |-> copy,
                  revision |-> 0, old |-> {}, previous |-> {}]
<1>1. session' = [session EXCEPT ![s] = x] /\ UNCHANGED <<agent, index, disturbed>> /\ session[s].pc = "idle"
  BY DEF Load, Redis, Idle
<1>2. session'[s] = x /\ \A t \in Sessions \ {s} : session'[t] = session[t]
  BY <1>1 DEF IInv, TypeOK
<1>3. Sensible(s)' /\ session'[s].pc # "done"
  BY <1>2 DEF Sensible
<1>4. ~Touching(s)
  BY <1>1 DEF Touching
<1>. QED
  BY <1>1, <1>2, <1>3, <1>4, QuietStep

LEMMA RequestCause == ASSUME IInv, CauseInv, NEW s \in Sessions, Request(s) PROVE CauseInv'
<1>1. agent \in Row \cup {NoAgent} /\ (agent # NoAgent => agent \in Row)
  BY DEF IInv, TypeOK
<1>2. ASSUME NEW op \in {"register", "update", "insert", "peer"}, NEW sets, NEW copy, Load(s, op, sets, copy)
      PROVE  CauseInv'
  BY <1>2, LoadCause
<1>3. ASSUME NEW caps \in SUBSET Capabilities, Register(s, caps) \/ UpdateAgent(s, caps) PROVE CauseInv'
  BY <1>2, <1>3 DEF Register, UpdateAgent, Update
<1>4. ASSUME SuspendAgent(s) \/ ReinstateAgent(s) PROVE CauseInv'
  BY <1>2, <1>4 DEF SuspendAgent, ReinstateAgent, Update
<1>5. ASSUME DeregisterAgent(s) PROVE CauseInv'
  <2>. DEFINE sets == [Nothing EXCEPT !.status = IF agent.status = "deregistered" THEN Kept ELSE "deregistered",
                                      !.deleted = TRUE]
  <2>1. Load(s, "deregister", sets, NoAgent)
    BY <1>5 DEF DeregisterAgent
  <2>2. sets.deleted = TRUE
    BY DEF Nothing
  <2>. HIDE DEF sets
  <2>. QED
    BY <2>1, <2>2, LoadCause
<1>6. ASSUME RotateKey(s) PROVE CauseInv'
  BY <1>6, LoadCause DEF RotateKey
<1>7. ASSUME SendHeartbeat(s) \/ MarkInactive(s) PROVE CauseInv'
  <2>1. PICK status \in {"active", "inactive"} : Load(s, "status", [Nothing EXCEPT !.status = status], NoAgent)
    BY <1>7 DEF SendHeartbeat, MarkInactive
  <2>. DEFINE sets == [Nothing EXCEPT !.status = status]
  <2>2. sets.status = status
    BY DEF Nothing
  <2>. HIDE DEF sets
  <2>3. Load(s, "status", sets, NoAgent)
    BY <2>1 DEF sets
  <2>. QED
    BY <2>2, <2>3, LoadCause
<1>8. ASSUME NEW p \in Peers, SyncRegistry(s, p) PROVE CauseInv'
  <2>1. CASE RemoveFederatedAgent(s, p)
    BY <1>2, <2>1 DEF RemoveFederatedAgent
  <2>2. ASSUME NEW status \in PeerStatus, NEW caps \in SUBSET Capabilities, UpsertFederatedAgent(s, p, status, caps)
        PROVE  CauseInv'
    <3>1. PICK sets : Load(s, IF agent = NoAgent THEN "insert" ELSE "peer", sets, NoAgent)
      BY <2>2 DEF UpsertFederatedAgent
    <3>. QED
      BY <1>2, <3>1
  <2>. QED
    BY <1>8, <2>1, <2>2 DEF SyncRegistry
<1>9. ASSUME NEW target \in Peers \cup {Home}, MigrateAgent(s, target) PROVE CauseInv'
  <2>. DEFINE row  == [agent EXCEPT !.status = "active", !.origin = target, !.federated = (target # Home)]
              sets == Changed(row)
  <2>1. agent \in Row /\ agent # NoAgent /\ Load(s, "migrate", sets, NoAgent)
    BY <1>1, <1>9 DEF MigrateAgent, Known
  <2>2. /\ DOMAIN row = {"status", "deleted", "caps", "federated", "origin"}
        /\ row.status = "active" /\ row.deleted = agent.deleted /\ row.caps = agent.caps
    BY <2>1 DEF Row
  <2>. HIDE DEF row
  <2>3. sets.status \in {"active", Kept} /\ sets.deleted = Kept /\ sets.caps = Kept
    BY <2>1, <2>2 DEF Changed
  <2>. HIDE DEF sets
  <2>. QED
    BY <2>1, <2>3, LoadCause
<1>. QED
  BY <1>3, <1>4, <1>5, <1>6, <1>7, <1>8, <1>9 DEF Request

LEMMA FlushCause == ASSUME IInv, CauseInv, NEW s \in Sessions, Flush(s) PROVE CauseInv'
<1>1. /\ session \in [Sessions -> SessionType] /\ session[s] \in Working /\ session[s].pc = "loaded"
      /\ session[s].op # "deregister" /\ UNCHANGED <<agent, index, disturbed>> /\ Sensible(s)
  BY DEF IInv, TypeOK, SessionType, Flush, Redis, Idle, Scoring, CauseInv
<1>2. ~Touching(s) /\ \A t \in Sessions \ {s} : session'[t] = session[t]
  BY <1>1 DEF Touching, Flush
<1>3. CASE session' = [session EXCEPT ![s] = Idle]
  <2>1. session'[s] = Idle
    BY <1>1, <1>3
  <2>2. Sensible(s)' /\ session'[s].pc # "done"
    BY <2>1 DEF Sensible, Busy, Talking, Idle
  <2>. QED
    BY <1>1, <1>2, <2>2, QuietStep
<1>4. CASE ~(Inserts(s) /\ agent # NoAgent)
  <2>. DEFINE pc == IF session[s].op \in Announced THEN "removing" ELSE "done"
  <2>1. PICK revision, old, previous :
          session' = [session EXCEPT ![s].pc = pc, ![s].revision = revision, ![s].old = old, ![s].previous = previous]
    <3>. DEFINE new      == IF session[s].op \in Announced THEN Latest + 1 ELSE 0
                old      == IF session[s].op = "rotate" THEN keys.active ELSE {}
                previous == IF session[s].op \in Announced THEN listed ELSE {}
    <3>1. session' = [session EXCEPT ![s].pc = pc, ![s].revision = new, ![s].old = old, ![s].previous = previous]
      BY <1>4 DEF Flush
    <3>. HIDE DEF pc, new, old, previous
    <3>. QED
      BY <3>1
  <2>2. session'[s].pc = pc /\ session'[s].op = session[s].op /\ session'[s].sets = session[s].sets
    BY <1>1, <2>1 DEF Working
  <2>3. Sensible(s)'
    BY <1>1, <2>2 DEF Sensible, Busy
  <2>. QED
    BY <1>1, <1>2, <2>2, <2>3, QuietStep
<1>. QED
  BY <1>3, <1>4 DEF Flush

(***************************************************************************)
(* The calls to Redis.                                                     *)
(***************************************************************************)
LEMMA TalkCause == ASSUME IInv, CauseInv, NEW s \in Sessions, Talk(s) PROVE CauseInv'
<1>1. /\ session \in [Sessions -> SessionType] /\ session[s] \in Working /\ session[s].pc \in Busy
      /\ Fit(s) /\ Sensible(s) /\ agent' = agent
  <2>1. session[s].pc \in Busy
    BY DEF Talk, Smembers, Zrem, Delete, Sadd, Zadd, RedisFails, Talking, Busy
  <2>2. session \in [Sessions -> SessionType] /\ session[s] \in Working
    BY <2>1 DEF IInv, TypeOK, SessionType, Talking, Busy, Idle, Scoring
  <2>3. agent' = agent
    BY DEF Talk, Smembers, Zrem, Delete, Sadd, Zadd, RedisFails
  <2>. QED
    BY <2>1, <2>2, <2>3 DEF IInv, CauseInv
<1>2. /\ \A t \in Sessions \ {s} : session'[t] = session[t]
      /\ session'[s].op = session[s].op /\ session'[s].sets = session[s].sets
  BY <1>1 DEF Talk, Smembers, Zrem, Delete, Sadd, Zadd, RedisFails, Working
<1>3. session[s].op \in Announced \cup {"deregister"}
  BY <1>1 DEF Talk, Smembers, Zrem, Delete, Sadd, Zadd, RedisFails, Fit, Talking
<1>4. Holding(s) <=> session[s].op \in Announced /\ session[s].pc # "loaded"
  BY <1>1, <1>3 DEF Holding, Announced, Busy, Talking
<1>5. ASSUME session'[s].pc \notin {"listing", "indexing"} \/ session[s].op \in Announced
      PROVE  Sensible(s)'
  BY <1>1, <1>2, <1>5 DEF Sensible
<1>6. CASE Smembers(s)
  <2>1. session'[s].pc = "removing" /\ UNCHANGED <<index, disturbed>> /\ session[s].pc = "loaded"
    BY <1>1, <1>6 DEF Smembers, Redis, Working
  <2>2. ~Touching(s) /\ Sensible(s)'
    BY <1>5, <2>1 DEF Touching
  <2>. QED
    BY <1>1, <1>2, <2>1, <2>2, QuietStep
<1>7. CASE Zrem(s)
  <2>1. session'[s].pc = "delisting" /\ disturbed' = disturbed /\ session[s].pc = "removing"
    BY <1>1, <1>7 DEF Zrem, Working
  <2>2. Sensible(s)' /\ Synchronized(s)' /\ Touching(s)'
    BY <1>2, <1>3, <1>5, <2>1 DEF Synchronized, Touching
  <2>3. Holding(s) \/ Wiping(s)'
    BY <1>2, <1>3, <1>4, <2>1, <2>2 DEF Wiping
  <2>. QED
    BY <1>1, <1>2, <2>1, <2>2, <2>3, CauseStep
<1>8. CASE Delete(s)
  <2>1. /\ session'[s].pc = IF session[s].op = "deregister" THEN "done" ELSE "listing"
        /\ disturbed' = disturbed /\ session[s].pc = "delisting"
    BY <1>1, <1>8 DEF Delete, Working
  <2>2. Sensible(s)' /\ Synchronized(s)' /\ Touching(s)'
    BY <1>2, <1>3, <1>5, <2>1 DEF Synchronized, Touching, Announced
  <2>3. Holding(s) \/ Wiping(s)'
    BY <1>2, <1>3, <1>4, <2>1, <2>2 DEF Wiping
  <2>. QED
    BY <1>1, <1>2, <2>1, <2>2, <2>3, CauseStep
<1>9. CASE Sadd(s)
  <2>1. session'[s].pc = "indexing" /\ session[s].pc = "listing"
    BY <1>1, <1>9 DEF Sadd, Working
  <2>2. session[s].op \in Announced
    BY <1>1, <2>1 DEF Sensible
  <2>3. Sensible(s)' /\ Synchronized(s)' /\ Touching(s)' /\ Holding(s)
    BY <1>2, <1>4, <1>5, <2>1, <2>2 DEF Synchronized, Touching
  <2>. QED
    BY <1>1, <1>2, <2>3, CauseStep
<1>10. CASE Zadd(s)
  <2>1. session'[s].pc = "done" /\ session[s].pc = "indexing"
    BY <1>1, <1>10 DEF Zadd, Working
  <2>2. session[s].op \in Announced
    BY <1>1, <2>1 DEF Sensible
  <2>3. Sensible(s)' /\ Touching(s)' /\ Holding(s)
    BY <1>2, <1>4, <1>5, <2>1, <2>2 DEF Touching
  <2>4. Written(s)' = Written(s)
    BY <1>1, <1>2 DEF Written
  <2>5. ASSUME ~disturbed' PROVE Found(Written(s))'
    <3>1. Telling(Written(s)) = session[s].copy
      BY <1>10, <2>5 DEF Zadd
    <3>2. session[s].copy.status = Written(s).status /\ Names(s) = Written(s).caps
      BY <2>2, <3>1 DEF Telling, Names, Announced
    <3>3. Written(s).status = "active" => Written(s).caps \subseteq index'
      BY <1>10, <3>2 DEF Zadd, Listable
    <3>. QED
      BY <2>4, <3>3 DEF Found
  <2>6. Synchronized(s)'
    BY <2>5 DEF Synchronized
  <2>. QED
    BY <1>1, <1>2, <2>3, <2>6, CauseStep
<1>11. CASE RedisFails(s)
  <2>1. disturbed' = TRUE /\ session'[s].pc = "done"
    BY <1>1, <1>11 DEF RedisFails, Working
  <2>2. Sensible(s)' /\ Synchronized(s)'
    BY <1>5, <2>1 DEF Synchronized
  <2>. QED
    BY <1>1, <1>2, <2>1, <2>2, CauseStep
<1>. QED
  BY <1>6, <1>7, <1>8, <1>9, <1>10, <1>11 DEF Talk

LEMMA OtherCause ==
  ASSUME IInv, CauseInv, NEW s \in Sessions, Abort(s) \/ LoadListed(s) \/ UpdateScore(s)
  PROVE  CauseInv'
<1>1. /\ session \in [Sessions -> SessionType] /\ agent' = agent
      /\ \A t \in Sessions \ {s} : session'[t] = session[t]
  BY DEF IInv, TypeOK, SessionType, Abort, LoadListed, UpdateScore
<1>2. session'[s].pc \in {"idle", "scoring"}
  BY <1>1 DEF Abort, LoadListed, UpdateScore, Idle
<1>3. Sensible(s)' /\ Synchronized(s)'
  BY <1>2 DEF Sensible, Synchronized, Busy, Talking
<1>4. CASE Abort(s)
  <2>1. index' = index /\ (disturbed => disturbed')
    BY <1>4 DEF Abort, Redis
  <2>2. CASE disturbed'
    BY <1>1, <1>3, <2>2, CauseStep
  <2>3. CASE ~disturbed'
    <3>1. disturbed' = disturbed /\ disturbed \in BOOLEAN /\ ~Touching(s)
      BY <1>4, <2>3 DEF Abort, Touching, IInv, TypeOK
    <3>. QED
      BY <1>1, <1>2, <1>3, <2>1, <3>1, QuietStep
  <2>. QED
    BY <2>2, <2>3
<1>5. CASE LoadListed(s) \/ UpdateScore(s)
  <2>1. index \subseteq index' /\ disturbed' = disturbed /\ session[s].pc \in {"idle", "scoring"}
    BY <1>5 DEF LoadListed, UpdateScore, Redis, Idle
  <2>2. ~Touching(s)
    BY <2>1 DEF Touching
  <2>. QED
    BY <1>1, <1>2, <1>3, <2>1, <2>2, QuietStep
<1>. QED
  BY <1>4, <1>5

(***************************************************************************)
(* The commit.  A synchronization leaves a row the index will find; the    *)
(* others make the agent undiscoverable, keep what discovery asks, or are  *)
(* among the causes.                                                       *)
(***************************************************************************)
LEMMA CommitCause == ASSUME IInv, CauseInv, NEW s \in Sessions, Commit(s) PROVE CauseInv'
<1>. DEFINE op   == session[s].op
            sets == session[s].sets
<1>1. /\ session \in [Sessions -> SessionType] /\ session[s] \in Working /\ session[s].pc = "done"
      /\ session' = [session EXCEPT ![s] = Idle] /\ agent' = Written(s) /\ index' = index
      /\ Fit(s) /\ Sensible(s) /\ session[s].pc \in Busy /\ sets \in Change
      /\ agent \in Row \cup {NoAgent}
      /\ disturbed' = (disturbed \/ Unannounced(s))
  BY DEF IInv, TypeOK, SessionType, Commit, Redis, Idle, Scoring, Busy, CauseInv, Working
<1>2. session'[s] = Idle /\ \A t \in Sessions \ {s} : session'[t] = session[t]
  BY <1>1
<1>3. \A t \in Sessions \ {s} : ~Holding(t)
  BY DEF Commit, RowFree, Holding
<1>4. \A t \in Sessions : Sensible(t)' /\ Synchronized(t)'
  <2>1. Sensible(s)' /\ Synchronized(s)'
    BY <1>2 DEF Sensible, Synchronized, Busy, Talking, Idle
  <2>2. ASSUME NEW t \in Sessions \ {s} PROVE Sensible(t)' /\ Synchronized(t)'
    <3>1. Sensible(t)'
      BY <1>2 DEF CauseInv, Sensible
    <3>2. ~(session'[t].pc = "done" /\ session'[t].op \in Announced)
      BY <1>2, <1>3 DEF Holding, Announced
    <3>. QED
      BY <3>1, <3>2 DEF Synchronized
  <2>. QED
    BY <2>1, <2>2
<1>5. \A t \in Sessions \ {s} : Touching(t) => Touching(t)'
  BY <1>2 DEF Touching
<1>6. CASE disturbed \/ Unannounced(s)
  BY <1>1, <1>4, <1>6 DEF CauseInv, Explained
<1>7. CASE \E t \in Sessions \ {s} : Touching(t)
  BY <1>4, <1>5, <1>7 DEF CauseInv, Explained
<1>8. CASE ~disturbed /\ ~Unannounced(s) /\ ~\E t \in Sessions \ {s} : Touching(t)
  <2>. SUFFICES Found(Written(s))
    BY <1>1, <1>4 DEF CauseInv, Explained, Found
  <2>1. CASE op \in Announced
    <3>1. ~\E t \in Sessions : Wiping(t)
      BY <1>8, <2>1 DEF Wiping, Announced
    <3>. QED
      BY <1>1, <1>8, <2>1, <3>1 DEF CauseInv, Synchronized
  <2>2. CASE op \notin Announced
    <3>1. op \in {"deregister", "rotate", "status", "migrate"} /\ agent # NoAgent
      BY <1>1, <1>8, <2>2 DEF Unannounced, Fit, Inserts, Working
    <3>2. /\ Written(s).status  = IF sets.status = Kept THEN agent.status ELSE sets.status
          /\ Written(s).deleted = IF sets.deleted = Kept THEN agent.deleted ELSE sets.deleted
          /\ Written(s).caps    = IF sets.caps = Kept THEN agent.caps ELSE sets.caps
      BY <3>1 DEF Written
    <3>3. CASE op = "deregister"
      <4>1. Written(s).deleted = TRUE
        BY <1>1, <3>2, <3>3, KeptAssumption DEF Sensible
      <4>. QED
        BY <4>1 DEF Found
    <3>4. ASSUME op # "deregister" PROVE Found(agent)
      <4>1. ~Touching(s)
        BY <2>2, <3>4 DEF Touching
      <4>. QED
        BY <1>8, <4>1 DEF CauseInv, Explained
    <3>5. CASE op \in {"rotate", "migrate"}
      <4>1. sets.status = Kept /\ sets.deleted = Kept /\ sets.caps = Kept
        BY <1>1, <1>8, <3>5 DEF Sensible, Nothing, Unannounced
      <4>. QED
        BY <3>1, <3>2, <3>4, <3>5, <4>1 DEF Found
    <3>6. CASE op = "status"
      <4>1. sets.status = "inactive"
        BY <1>1, <1>8, <3>6 DEF Sensible, Unannounced
      <4>2. Written(s).status = "inactive"
        BY <3>2, <4>1, KeptAssumption DEF Status
      <4>. QED
        BY <4>2 DEF Found
    <3>. QED
      BY <3>1, <3>3, <3>5, <3>6
  <2>. QED
    BY <2>1, <2>2
<1>. QED
  BY <1>6, <1>7, <1>8

LEMMA NextCause == IInv /\ CauseInv /\ [Next]_vars => CauseInv'
<1>. SUFFICES ASSUME IInv, CauseInv, [Next]_vars PROVE CauseInv'
  OBVIOUS
<1>1. CASE UNCHANGED <<agent, index, session, disturbed>>
  <2>1. \A t : /\ (Touching(t)' <=> Touching(t)) /\ (Wiping(t)' <=> Wiping(t))
               /\ (Sensible(t)' <=> Sensible(t)) /\ Written(t)' = Written(t)
    BY <1>1, SameTouch
  <2>. QED
    BY <1>1, <2>1 DEF CauseInv, Explained, Synchronized, Found
<1>2. ASSUME NEW s \in Sessions,
             \/ Request(s) \/ Flush(s) \/ Commit(s) \/ Talk(s)
             \/ Abort(s) \/ LoadListed(s) \/ UpdateScore(s)
      PROVE  CauseInv'
  BY <1>2, RequestCause, FlushCause, CommitCause, TalkCause, OtherCause
<1>3. ASSUME NEW p \in Peers, CreatePeer(p) PROVE CauseInv'
  BY <1>1, <1>3 DEF CreatePeer, Redis
<1>4. CASE UNCHANGED vars
  BY <1>1, <1>4 DEF vars
<1>. QED
  BY <1>2, <1>3, <1>4 DEF Next, Request, Talk

(* Discovery hides an active agent only for one of the five causes: every  *)
(* other way of changing the row, however the sessions interleave between  *)
(* their calls to Redis, leaves it in the index.                           *)
THEOREM HiddenIsExplained == Spec => []HiddenHasCause
<1>1. CauseInv => HiddenHasCause
  <2>. SUFFICES ASSUME CauseInv, AtRest, NEW c \in Capabilities, Answers(c, FALSE), ~Answers(c, TRUE)
       PROVE  disturbed
    BY DEF HiddenHasCause
  <2>1. ~Found(agent)
    BY DEF Answers, Candidate, Known, Found
  <2>2. \A t \in Sessions : ~Touching(t)
    BY DEF AtRest, Touching, Idle
  <2>. QED
    BY <2>1, <2>2 DEF CauseInv, Explained
<1>2. Spec => []CauseInv
  <2>1. IInv /\ CauseInv /\ [Next]_vars => CauseInv'
    BY NextCause
  <2>. QED
    BY InitCause, Invariance, <2>1, PTL DEF Spec
<1>. QED
  BY <1>1, <1>2, PTL
===============================================================================

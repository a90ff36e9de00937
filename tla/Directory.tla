------------------------------- MODULE Directory -------------------------------
(***************************************************************************)
(* One agent in the directory: its row in agents with its versions and API *)
(* keys (services/registry), its entries in the Redis index of             *)
(* capabilities (core/capability_index.py) that discovery asks first, and  *)
(* everybody who writes them: the registry's routes, heartbeats and the    *)
(* inactivity sweep (services/messaging), peers and migrations             *)
(* (services/federation), and updates of trust scores.                     *)
(*                                                                         *)
(* Agents share no rows and no members of the index: one stands for all.   *)
(* Sessions work on their copy of the row.  A flush of a changed row takes *)
(* its lock until the session ends; Redis is written in between, command   *)
(* by command, and not rolled back.  Scores, names and endpoints are left  *)
(* out: an update changes them or the capabilities.                        *)
(***************************************************************************)
EXTENDS Integers, FiniteSets

CONSTANTS
  Sessions,
  Capabilities,
  Home, Peers,      \* registries: this one, and the federated ones
  PeerStatus,       \* what peers say of the agent's status
  NoAgent,          \* no row yet
  Kept,             \* a column an UPDATE does not write
  MaxRows           \* bound: versions and API keys of the agent

ASSUME DirectoryAssumption ==
  /\ Home \notin Peers /\ Kept \notin Peers \cup {Home}
  /\ PeerStatus \subseteq {"active", "inactive", "suspended", "deregistered"}
  /\ MaxRows \in Nat

VARIABLES
  peers,      \* federated_registries: those that may send records
  agent,      \* the committed row of the agent
  revisions,  \* agent_versions.revision
  keys,       \* api_keys: issued is the last one, active those in force
  index,      \* capabilities whose sorted set has the agent
  listed,     \* the agent's own set of capabilities in Redis
  session,
  disturbed   \* history: something may have parted the index from the row

vars == <<peers, agent, revisions, keys, index, listed, session, disturbed>>

Status == {"active", "inactive", "suspended", "deregistered"}

Row == [status : Status, deleted : BOOLEAN, caps : SUBSET Capabilities,
        federated : BOOLEAN, origin : Peers \cup {Home}]

(* No row and a column that is kept differ from every value of theirs.     *)
ASSUME NoAgentAssumption == NoAgent \notin Row
ASSUME KeptAssumption == Kept \notin Status /\ Kept # TRUE

Keys == [issued : Nat, active : SUBSET Nat]

(* Sessions.  sets: the columns the session changes, and their values; a   *)
(* column assigned the value it was loaded with is kept.  copy: what a     *)
(* session that has it in its hands will tell the index.  revision and     *)
(* old: the version to be added, the keys to be revoked.  previous: what   *)
(* Redis said the agent had.                                               *)
Change  == [status : Status \cup {Kept}, deleted : BOOLEAN \cup {Kept},
            caps : (SUBSET Capabilities) \cup {Kept},
            federated : BOOLEAN \cup {Kept}, origin : Peers \cup {Home, Kept}]
Nothing == [status |-> Kept, deleted |-> Kept, caps |-> Kept, federated |-> Kept, origin |-> Kept]

Told      == [status : Status, caps : SUBSET Capabilities]
Announced == {"register", "update"}          \* these call sync_agent
Working == [pc : {"loaded", "removing", "delisting", "listing", "indexing", "done"},
            op : Announced \cup {"deregister", "rotate", "status", "insert", "peer", "migrate"},
            sets : Change, copy : Told \cup {NoAgent},
            revision : Nat, old : SUBSET Nat, previous : SUBSET Capabilities]
Scoring == [pc : {"scoring"}, previous : SUBSET Capabilities]
Idle    == [pc |-> "idle"]

Init ==
  /\ peers     = {}
  /\ agent     = NoAgent
  /\ revisions = {}
  /\ keys      = [issued |-> 0, active |-> {}]
  /\ index     = {}
  /\ listed    = {}
  /\ session   = [s \in Sessions |-> Idle]
  /\ disturbed = FALSE

Redis == <<index, listed>>

--------------------------------------------------------------------------------
(***************************************************************************)
(* Loading the row, and what each request makes of it.                     *)
(***************************************************************************)
Changed(now) == [c \in DOMAIN now |-> IF agent # NoAgent /\ agent[c] = now[c] THEN Kept ELSE now[c]]

Telling(row) == [status |-> row.status, caps |-> row.caps]

Load(s, op, sets, copy) ==
  /\ session[s] = Idle
  /\ session' = [session EXCEPT ![s] = [pc |-> "loaded", op |-> op, sets |-> sets, copy |-> copy,
                                        revision |-> 0, old |-> {}, previous |-> {}]]
  /\ UNCHANGED <<peers, agent, revisions, keys, Redis, disturbed>>

Known   == agent # NoAgent /\ ~agent.deleted
Bounded == Cardinality(revisions) + keys.issued < MaxRows

Register(s, caps) ==
  LET row == [status |-> "active", deleted |-> FALSE, caps |-> caps,
              federated |-> FALSE, origin |-> Home]
  IN  agent = NoAgent /\ Load(s, "register", row, Telling(row))

(* update_agent, with capabilities or a status; or with neither, when the  *)
(* capabilities are those the agent has.                                   *)
Update(s, column, value) ==
  /\ Known /\ Bounded
  /\ LET sets == [Nothing EXCEPT ![column] = IF agent[column] = value THEN Kept ELSE value]
     IN  Load(s, "update", sets, Telling([agent EXCEPT ![column] = value]))

UpdateAgent(s, caps) == Update(s, "caps", caps)
SuspendAgent(s)      == Update(s, "status", "suspended")
ReinstateAgent(s)    == Update(s, "status", "active")

(* Also of an agent that is deleted: the time of the deletion is written.  *)
DeregisterAgent(s) ==
  /\ agent # NoAgent
  /\ Load(s, "deregister", [Nothing EXCEPT !.status = IF agent.status = "deregistered" THEN Kept ELSE "deregistered",
                                           !.deleted = TRUE], NoAgent)

RotateKey(s) ==
  /\ Known /\ Bounded
  /\ Load(s, "rotate", Nothing, NoAgent)

(* A heartbeat makes any agent active, a suspended one too; that of an     *)
(* active agent changes nothing the model has.                             *)
SendHeartbeat(s) ==
  /\ Known /\ agent.status # "active"
  /\ Load(s, "status", [Nothing EXCEPT !.status = "active"], NoAgent)

MarkInactive(s) ==
  /\ Known /\ agent.status = "active"
  /\ Load(s, "status", [Nothing EXCEPT !.status = "inactive"], NoAgent)

CreatePeer(p) ==
  /\ p \notin peers
  /\ peers' = peers \cup {p}
  /\ UNCHANGED <<agent, revisions, keys, Redis, session, disturbed>>

AuthenticatePeer(p) == p \in peers

(* A peer's record of the agent: refused if the row is local, else it      *)
(* replaces the row, whoever had it, revives it, and is put in no index.   *)
UpsertFederatedAgent(s, p, status, caps) ==
  LET row == [status |-> status, deleted |-> FALSE, caps |-> caps,
              federated |-> TRUE, origin |-> p]
  IN  /\ agent # NoAgent => agent.federated
      /\ Load(s, IF agent = NoAgent THEN "insert" ELSE "peer", Changed(row), NoAgent)

RemoveFederatedAgent(s, p) ==
  /\ agent # NoAgent /\ agent.federated /\ agent.origin = p
  /\ Load(s, "peer", [Nothing EXCEPT !.status = IF agent.status = "deregistered" THEN Kept ELSE "deregistered",
                                     !.deleted = TRUE], NoAgent)

(* Each agent of a peer's batch, or of its list of removals.               *)
SyncRegistry(s, p) ==
  /\ AuthenticatePeer(p)
  /\ \/ RemoveFederatedAgent(s, p)
     \/ \E status \in PeerStatus, caps \in SUBSET Capabilities :
          UpsertFederatedAgent(s, p, status, caps)

(* To any registry, a peer or not.                                         *)
MigrateAgent(s, target) ==
  /\ Known
  /\ Load(s, "migrate", Changed([agent EXCEPT !.status = "active", !.origin = target,
                                              !.federated = target # Home]), NoAgent)

--------------------------------------------------------------------------------
(***************************************************************************)
(* Flush and commit.                                                       *)
(***************************************************************************)
(* Mutant: the rows are not locked.                                        *)
Unlocked(s) == TRUE

RowFree(s) == \A t \in Sessions \ {s} :
  ~(session[t].pc \notin {"idle", "loaded", "scoring"} /\ session[t].op # "deregister")

Latest == IF revisions = {} THEN 0 ELSE CHOOSE n \in revisions : \A m \in revisions : m <= n

Inserts(s) == session[s].op \in {"register", "insert"}

Written(s) ==
  LET sets == session[s].sets
  IN  IF agent = NoAgent THEN sets
      ELSE [status    |-> IF sets.status = Kept THEN agent.status ELSE sets.status,
            deleted   |-> IF sets.deleted = Kept THEN agent.deleted ELSE sets.deleted,
            caps      |-> IF sets.caps = Kept THEN agent.caps ELSE sets.caps,
            federated |-> IF sets.federated = Kept THEN agent.federated ELSE sets.federated,
            origin    |-> IF sets.origin = Kept THEN agent.origin ELSE sets.origin]

(* The flush takes the lock of the row.  An insertion that comes second    *)
(* ends the session.  _record_version reads the last revision, rotate_key  *)
(* the keys in force, and sync_agent the agent's set (its first command),  *)
(* when the lock is held.                                                  *)
Flush(s) ==
  /\ session[s].pc = "loaded" /\ session[s].op # "deregister"
  /\ RowFree(s)
  /\ IF Inserts(s) /\ agent # NoAgent
     THEN session' = [session EXCEPT ![s] = Idle]
     ELSE session' = [session EXCEPT
            ![s].pc       = IF session[s].op \in Announced THEN "removing" ELSE "done",
            ![s].revision = IF session[s].op \in Announced THEN Latest + 1 ELSE 0,
            ![s].old      = IF session[s].op = "rotate" THEN keys.active ELSE {},
            ![s].previous = IF session[s].op \in Announced THEN listed ELSE {}]
  /\ UNCHANGED <<peers, agent, revisions, keys, Redis, disturbed>>

(* A commit that makes an agent discoverable without telling the index.    *)
Unannounced(s) ==
  \/ session[s].op \in {"insert", "peer"}
  \/ session[s].op \in {"status", "migrate"} /\ session[s].sets.status = "active"

Commit(s) ==
  /\ session[s].pc = "done"
  /\ RowFree(s)
  /\ agent' = Written(s)
  /\ revisions' = IF session[s].revision = 0 THEN revisions ELSE revisions \cup {session[s].revision}
  /\ keys' = IF session[s].op \in {"register", "rotate"}
             THEN [issued |-> keys.issued + 1, active |-> (keys.active \ session[s].old) \cup {keys.issued + 1}]
             ELSE keys
  /\ disturbed' = (disturbed \/ Unannounced(s))
  /\ session' = [session EXCEPT ![s] = Idle]
  /\ UNCHANGED <<peers, Redis>>

(* A session that has begun to write to Redis leaves there what it wrote.  *)
Abort(s) ==
  /\ session[s] # Idle
  /\ disturbed' = (disturbed \/ (session[s].pc \notin {"loaded", "removing", "scoring"}
                               /\ session[s].op \in Announced \cup {"deregister"}))
  /\ session' = [session EXCEPT ![s] = Idle]
  /\ UNCHANGED <<peers, agent, revisions, keys, Redis>>

--------------------------------------------------------------------------------
(***************************************************************************)
(* The index.  The calls of one loop are one step.                         *)
(***************************************************************************)
Names(s) == IF session[s].op = "deregister" THEN {} ELSE session[s].copy.caps

(* remove_agent asks for the agent's set, before any flush.                *)
Smembers(s) ==
  /\ session[s].pc = "loaded" /\ session[s].op = "deregister"
  /\ session' = [session EXCEPT ![s].pc = "removing", ![s].previous = listed]
  /\ UNCHANGED <<peers, agent, revisions, keys, Redis, disturbed>>

Zrem(s) ==
  /\ session[s].pc = "removing"
  /\ index' = index \ (session[s].previous \ Names(s))
  /\ session' = [session EXCEPT ![s].pc = "delisting"]
  /\ UNCHANGED <<peers, agent, revisions, keys, listed, disturbed>>

Delete(s) ==
  /\ session[s].pc = "delisting"
  /\ listed' = {}
  /\ session' = [session EXCEPT ![s].pc = IF session[s].op = "deregister" THEN "done" ELSE "listing",
                                   ![s].previous = {}]
  /\ UNCHANGED <<peers, agent, revisions, keys, index, disturbed>>

Sadd(s) ==
  /\ session[s].pc = "listing"
  /\ listed' = listed \cup Names(s)
  /\ session' = [session EXCEPT ![s].pc = "indexing"]
  /\ UNCHANGED <<peers, agent, revisions, keys, index, disturbed>>

(* Mutant: the session asks whether the committed row is active.           *)
IndexCommitted(s) == agent # NoAgent /\ agent.status = "active"

Listable(s) == session[s].copy.status = "active"

(* The end of sync_agent.  Index and row agree again, unless the session   *)
(* had loaded an older row.                                                *)
Zadd(s) ==
  /\ session[s].pc = "indexing"
  /\ index' = IF Listable(s) THEN index \cup Names(s) ELSE index \ Names(s)
  /\ disturbed' = (Telling(Written(s)) # session[s].copy)
  /\ session' = [session EXCEPT ![s].pc = "done", ![s].copy = NoAgent]
  /\ UNCHANGED <<peers, agent, revisions, keys, listed>>

(* Redis fails in the middle: the rest of the calls is not made, and the   *)
(* session goes on.                                                        *)
RedisFails(s) ==
  /\ \/ session[s].pc \in {"removing", "delisting", "listing", "indexing"}
     \/ session[s].pc = "loaded" /\ session[s].op = "deregister"
  /\ \/ session[s].pc = "removing" /\ \E some \in SUBSET (session[s].previous \ Names(s)) : index' = index \ some
     \/ session[s].pc = "indexing" /\ \E some \in SUBSET Names(s) :
          index' = IF Listable(s) THEN index \cup some ELSE index \ some
     \/ session[s].pc \notin {"removing", "indexing"} /\ index' = index
  /\ session' = [session EXCEPT ![s].pc = "done", ![s].previous = {}, ![s].copy = NoAgent]
  /\ disturbed' = TRUE
  /\ UNCHANGED <<peers, agent, revisions, keys, listed>>

(* update_agent_score, for a session of the trust service.                 *)
LoadListed(s) ==
  /\ session[s] = Idle
  /\ session' = [session EXCEPT ![s] = [pc |-> "scoring", previous |-> listed]]
  /\ UNCHANGED <<peers, agent, revisions, keys, Redis, disturbed>>

UpdateScore(s) ==
  /\ session[s].pc = "scoring"
  /\ index' = index \cup session[s].previous
  /\ session' = [session EXCEPT ![s] = Idle]
  /\ UNCHANGED <<peers, agent, revisions, keys, listed, disturbed>>

(* Discovery for one capability: the candidates of the index, or all       *)
(* agents if Redis does not answer, filtered by the database.              *)
Candidate(c, redis) == redis => c \in index

Answers(c, redis) ==
  Known /\ agent.status = "active" /\ c \in agent.caps /\ Candidate(c, redis)

Next == (\E p \in Peers : CreatePeer(p)) \/ \E s \in Sessions :
  \/ \E caps \in SUBSET Capabilities : Register(s, caps) \/ UpdateAgent(s, caps)
  \/ SuspendAgent(s) \/ ReinstateAgent(s) \/ DeregisterAgent(s) \/ RotateKey(s)
  \/ SendHeartbeat(s) \/ MarkInactive(s)
  \/ \E p \in Peers : SyncRegistry(s, p)
  \/ \E target \in Peers \cup {Home} : MigrateAgent(s, target)
  \/ Flush(s) \/ Commit(s) \/ Abort(s)
  \/ Smembers(s) \/ Zrem(s) \/ Delete(s) \/ Sadd(s) \/ Zadd(s) \/ RedisFails(s)
  \/ LoadListed(s) \/ UpdateScore(s)

Spec == Init /\ [][Next]_vars

--------------------------------------------------------------------------------
(***************************************************************************)
(* Properties.                                                             *)
(***************************************************************************)
TypeOK ==
  /\ peers \subseteq Peers
  /\ agent \in Row \cup {NoAgent}
  /\ revisions \subseteq Nat
  /\ keys \in Keys
  /\ index \subseteq Capabilities /\ listed \subseteq Capabilities
  /\ session \in [Sessions -> {Idle} \cup Working \cup Scoring]
  /\ disturbed \in BOOLEAN

RevisionsFree ==
  /\ revisions = 1 .. Cardinality(revisions)
  /\ \A s \in Sessions : session[s].pc \notin {"idle", "scoring"} => session[s].revision \notin revisions

OneActiveKey == Cardinality(keys.active) <= 1

(* Versions are numbered without a gap, and the number a session has read  *)
(* for its own is still free when it commits: max + 1 is safe because the  *)
(* row of the agent is locked before it is read, not because of a lock on  *)
(* the versions.  For the same reason, however rotations of an agent's key *)
(* interleave, one API key is in force: the second rotation sees the key   *)
(* the first one has issued.                                               *)
ChangesSerialise == RevisionsFree /\ OneActiveKey

AtRest == \A s \in Sessions : session[s] = Idle

(* An active agent that discovery does not find, when nothing is in        *)
(* progress, has one of five causes since its last clean synchronization:  *)
(* a call to Redis failed, a session that had written to Redis was rolled  *)
(* back, an update had loaded the row before another changed it, the row   *)
(* came from a peer, or a heartbeat or migration made the agent active.    *)
HiddenHasCause ==
  AtRest /\ (\E c \in Capabilities : Answers(c, FALSE) /\ ~Answers(c, TRUE)) => disturbed

(* An empty answer of the index means that no agent qualifies: what        *)
(* discovery relies on, and the code does not keep.                        *)
IndexIsComplete == AtRest => \A c \in Capabilities : Answers(c, FALSE) => Answers(c, TRUE)

(* "A local record is authoritative and must never be overwritten by a     *)
(* peer": the check is made on a copy, and a migration home may come after *)
(* it.                                                                     *)
LocalIsAuthoritative ==
  [][\A s \in Sessions : session[s].pc = "done" /\ session[s].op = "peer" /\ session'[s] = Idle
       /\ agent # NoAgent /\ ~agent.federated => agent' = agent]_vars
===============================================================================

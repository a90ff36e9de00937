------------------------------ MODULE SharedMemory ------------------------------
(***************************************************************************)
(* One key of an agent's shared memory (services/memory/service.py): its   *)
(* row, the grants of other agents and of teams, the sessions of the owner *)
(* that write it, and the requests of one other agent that read it, which  *)
(* joins and leaves teams meanwhile (services/team/service.py).            *)
(*                                                                         *)
(* A write and an update load the row and then look at the grants, a write *)
(* with the row locked; an update removes the grants it has found and adds *)
(* its own.  Whatever is committed in between is not looked at again, but  *)
(* an UPDATE that finds no row, or a grant that is there twice, ends the   *)
(* session.  A read asks in three statements.  Data are left out: reads    *)
(* return what the row had.                                                *)
(***************************************************************************)
EXTENDS Integers, FiniteSets

CONSTANTS
  Sessions,    \* sessions of the owner
  Readers,     \* requests of the agent
  Agent,       \* an agent that is not the owner
  Teams,
  GrantLists,  \* lists of grantees the owner's calls may carry
  NoMemory,    \* no row
  MaxCommits   \* bound: changes of the memory

Grantees == Teams \cup {Agent}

ASSUME MemoryAssumption ==
  /\ Agent \notin Teams /\ IsFiniteSet(Teams)
  /\ GrantLists \subseteq SUBSET Grantees
  /\ MaxCommits \in Nat

VARIABLES
  memory,   \* the row: id, version, expires_at
  grants,   \* memory_permissions: the commit that added the grantee, or 0
  created,  \* teams that exist
  joined,   \* those of them the agent is a member of
  session,
  reader,
  commits,  \* history: changes of the memory, which also tell rows apart
  writes,   \* history: writes and updates since the memory was created
  due,      \* history: the grants it would have if the commits were serial
  raced     \* history: a session has committed upon an older row

book   == <<commits, writes, due, raced>>
teams  == <<created, joined>>
memoryVars   == <<memory, grants, teams, session, reader, book>>

Expiry  == {"never", "later", "past"}
Memory  == [id : Nat, version : Nat, expires : Expiry]
Idle    == [pc |-> "idle"]
Working == [pc : {"loaded", "checked"}, op : {"write", "replace", "update", "delete"},
            row : Memory \cup {NoMemory}, at : Nat, asked : SUBSET Grantees,
            ttl : BOOLEAN, found : [Grantees -> Nat]]
Request == [pc : {"loaded", "ungranted", "data", "none", "error"}, expires : Expiry,
            held : SUBSET Grantees, ever : SUBSET Grantees]
NoGrants == [g \in Grantees |-> 0]

(* No row differs from every row.                                          *)
ASSUME NoMemoryAssumption == NoMemory \notin Memory

MemoryInit ==
  /\ memory = NoMemory /\ grants = NoGrants
  /\ created = {} /\ joined = {}
  /\ session = [s \in Sessions |-> Idle]
  /\ reader = [r \in Readers |-> Idle]
  /\ commits = 0 /\ writes = 0 /\ due = {} /\ raced = FALSE

(* The grants that give the agent access, and what the requests have seen  *)
(* of them from beginning to end: held all the time, or ever.              *)
Routes(g, j) == {x \in Grantees : g[x] # 0 /\ (x = Agent \/ x \in j)}
Direct(g)    == g[Agent] # 0

(* Mutant: the join with team_members is forgotten.                        *)
AnyTeam(g, j) == {t \in Teams : g[t] # 0}

ByTeam(g, j) == {t \in Teams : g[t] # 0 /\ t \in j}

Watched(g, j) == [r \in Readers |->
  IF reader[r].pc \in {"loaded", "ungranted"}
  THEN [reader[r] EXCEPT !.held = @ \cap Routes(g, j), !.ever = @ \cup Routes(g, j)]
  ELSE reader[r]]

--------------------------------------------------------------------------------
(***************************************************************************)
(* The owner.  A grant list of an update replaces the grants ("replace"),  *)
(* no list keeps them ("update"); one of a write is added.  A grant of a   *)
(* team that does not exist is refused by its foreign key.                 *)
(***************************************************************************)
Load(s, op, asked, ttl) ==
  /\ session[s] = Idle /\ commits < MaxCommits
  /\ session' = [session EXCEPT ![s] = [pc |-> "loaded", op |-> op, row |-> memory, at |-> commits,
                                        asked |-> asked, ttl |-> ttl, found |-> NoGrants]]
  /\ UNCHANGED <<memory, grants, teams, reader, book>>

WriteMemory(s) == \E asked \in GrantLists, ttl \in BOOLEAN :
  asked \cap Teams \subseteq created /\ Load(s, "write", asked, ttl)

UpdateMemory(s) == memory # NoMemory /\
  \/ Load(s, "update", {}, FALSE)
  \/ \E asked \in GrantLists : asked \cap Teams \subseteq created /\ Load(s, "replace", asked, FALSE)

DeleteMemory(s) == memory # NoMemory /\ Load(s, "delete", {}, FALSE)

(* Whether another session has the lock of the row.                        *)
Locked(s) == \E t \in Sessions \ {s} : session[t].pc = "checked" /\ session[t].op = "write"

(* The row a session has loaded is still the same row.                     *)
SameRow(s) == IF session[s].row = NoMemory \/ memory = NoMemory THEN session[s].row = memory
              ELSE session[s].row.id = memory.id

(* A write flushes its row, and asks which grants it need not add; an      *)
(* update deletes the grants there are.  Its flush takes the lock of the   *)
(* row as well: letting it go on without only adds behaviours.             *)
LookAtGrants(s) ==
  /\ session[s].pc = "loaded"
  /\ session[s].op = "write" => ~Locked(s)
  /\ session' = IF session[s].op = "write" /\ ~SameRow(s) THEN [session EXCEPT ![s] = Idle]
                ELSE [session EXCEPT ![s].pc = "checked", ![s].found = grants]
  /\ UNCHANGED <<memory, grants, teams, reader, book>>

(* Mutant: the version is not counted up by a write that finds the row.    *)
SameVersion(s) ==
  IF session[s].row = NoMemory
  THEN [id |-> commits + 1, version |-> 1, expires |-> IF session[s].ttl THEN "later" ELSE "never"]
  ELSE [memory EXCEPT !.expires = IF session[s].ttl THEN "later" ELSE @]

(* The row as written: the version counts on from the one loaded; without  *)
(* ttl_seconds an expiry remains what it was.                              *)
RowAfter(s) ==
  IF session[s].row = NoMemory
  THEN [id |-> commits + 1, version |-> 1, expires |-> IF session[s].ttl THEN "later" ELSE "never"]
  ELSE [memory EXCEPT !.version = session[s].row.version + 1,
                      !.expires = IF session[s].ttl THEN "later" ELSE @]

(* Grants of the rows an update has deleted are gone, others remain.       *)
Remaining(s) ==
  [g \in Grantees |-> IF session[s].op = "replace" /\ grants[g] = session[s].found[g] THEN 0 ELSE grants[g]]

Added(s) == IF session[s].op = "write" THEN {g \in session[s].asked : session[s].found[g] = 0}
            ELSE session[s].asked

DueAfter(s) ==
  CASE session[s].op = "delete"  -> {}
    [] session[s].op = "replace" -> session[s].asked
    [] OTHER -> session[s].asked \cup (IF session[s].row = NoMemory THEN {} ELSE due)

Commit(s) ==
  /\ session[s].pc = "checked" /\ ~Locked(s)
  /\ session' = [session EXCEPT ![s] = Idle]
  /\ IF ~SameRow(s) \/ (session[s].op # "delete" /\ \E g \in Added(s) : Remaining(s)[g] # 0)
     THEN UNCHANGED <<memory, grants, reader, book>>
     ELSE /\ memory' = IF session[s].op = "delete" THEN NoMemory ELSE RowAfter(s)
          /\ grants' = [g \in Grantees |-> IF session[s].op = "delete" THEN 0
                                           ELSE IF g \in Added(s) THEN commits + 1 ELSE Remaining(s)[g]]
          /\ reader' = Watched(grants', joined)
          /\ commits' = commits + 1
          /\ writes' = IF session[s].op = "delete" THEN 0 ELSE writes + 1
          /\ due' = DueAfter(s)
          /\ raced' = (raced \/ session[s].at # commits)
  /\ UNCHANGED teams

Abort(s) ==
  /\ session[s] # Idle
  /\ session' = [session EXCEPT ![s] = Idle]
  /\ UNCHANGED <<memory, grants, teams, reader, book>>

--------------------------------------------------------------------------------
(***************************************************************************)
(* Teams.  What two sessions of a team's owner would insert or delete at   *)
(* the same time is one row with one primary key; so each is one step.     *)
(***************************************************************************)
TeamsChange(c, j) ==
  /\ created' = c /\ joined' = j /\ reader' = Watched(grants, j)
  /\ UNCHANGED <<memory, grants, session, book>>

CreateTeam(t)   == t \notin created /\ \E with \in SUBSET {t} : TeamsChange(created \cup {t}, joined \cup with)
AddMember(t)    == t \in created \ joined /\ TeamsChange(created, joined \cup {t})
RemoveMember(t) == t \in joined /\ TeamsChange(created, joined \ {t})

--------------------------------------------------------------------------------
(***************************************************************************)
(* A read of the agent, and the time.                                      *)
(***************************************************************************)
ReadMemory(r) ==
  /\ reader[r] = Idle /\ memory # NoMemory
  /\ reader' = [reader EXCEPT ![r] = [pc |-> "loaded", expires |-> memory.expires,
                                      held |-> Routes(grants, joined), ever |-> Routes(grants, joined)]]
  /\ UNCHANGED <<memory, grants, teams, session, book>>

Answer(r) == IF reader[r].expires = "past" THEN "none" ELSE "data"

CheckGrant(r) ==
  /\ reader[r].pc = "loaded"
  /\ reader' = [reader EXCEPT ![r].pc = IF Direct(grants) THEN Answer(r) ELSE "ungranted"]
  /\ UNCHANGED <<memory, grants, teams, session, book>>

(* scalar_one_or_none: two teams are an error.                             *)
CheckTeams(r) ==
  LET ways == Cardinality(ByTeam(grants, joined))
  IN  /\ reader[r].pc = "ungranted"
      /\ reader' = [reader EXCEPT ![r].pc = IF ways = 0 THEN "none" ELSE IF ways = 1 THEN Answer(r) ELSE "error"]
      /\ UNCHANGED <<memory, grants, teams, session, book>>

Return(r) ==
  /\ reader[r].pc \in {"data", "none", "error"}
  /\ reader' = [reader EXCEPT ![r] = Idle]
  /\ UNCHANGED <<memory, grants, teams, session, book>>

Expire ==
  /\ memory # NoMemory /\ memory.expires = "later"
  /\ memory' = [memory EXCEPT !.expires = "past"]
  /\ reader' = [r \in Readers |-> IF reader[r].pc \in {"loaded", "ungranted"} /\ reader[r].expires = "later"
                                  THEN [reader[r] EXCEPT !.expires = "past"] ELSE reader[r]]
  /\ UNCHANGED <<grants, teams, session, book>>

MemoryNext ==
  \/ \E s \in Sessions : \/ WriteMemory(s) \/ UpdateMemory(s) \/ DeleteMemory(s)
                         \/ LookAtGrants(s) \/ Commit(s) \/ Abort(s)
  \/ \E t \in Teams : CreateTeam(t) \/ AddMember(t) \/ RemoveMember(t)
  \/ \E r \in Readers : ReadMemory(r) \/ CheckGrant(r) \/ CheckTeams(r) \/ Return(r)
  \/ Expire

MemorySpec == MemoryInit /\ [][MemoryNext]_memoryVars

--------------------------------------------------------------------------------
(***************************************************************************)
(* Properties.                                                             *)
(***************************************************************************)
MemoryTypeOK ==
  /\ memory \in Memory \cup {NoMemory}
  /\ grants \in [Grantees -> Nat]
  /\ created \subseteq Teams /\ joined \subseteq created
  /\ session \in [Sessions -> {Idle} \cup Working]
  /\ reader \in [Readers -> {Idle} \cup Request]
  /\ commits \in Nat /\ writes \in Nat /\ due \subseteq Grantees /\ raced \in BOOLEAN

(* The version counts the writes, and the grants are those of the last     *)
(* list that replaced them and of the writes since, as long as no session  *)
(* has committed upon a row another had changed after it was loaded; after *)
(* that the version may lag behind, and never runs ahead.                  *)
WritesCount ==
  /\ memory # NoMemory => memory.version <= writes
  /\ ~raced => /\ memory # NoMemory => memory.version = writes
               /\ {g \in Grantees : grants[g] # 0} = due

(* A read is answered according to rights the agent has had during it: the *)
(* data only if there was one, "not found" only if none lasted from its    *)
(* beginning to its end (or the memory has expired), and an error only     *)
(* through two teams.                                                      *)
AnswersAgree == \A r \in Readers :
  /\ reader[r].pc = "data"  => reader[r].ever # {}
  /\ reader[r].pc = "none"  => reader[r].held = {} \/ reader[r].expires = "past"
  /\ reader[r].pc = "error" => Cardinality(reader[r].ever \cap Teams) >= 2
===============================================================================

----------------------------- MODULE UsageMetering -----------------------------
(***************************************************************************)
(* The marketplace listing of one agent and the calls metered for it       *)
(* (services/marketplace/service.py: create_listing, delete_listing,       *)
(* set_access_tier, record_usage).                                         *)
(*                                                                         *)
(* A request reads, and later writes and commits: the write waits for the  *)
(* other writers of its row, so that a write and its commit are one step.  *)
(* Usage is an absolute number computed from what was read.  Deleting a    *)
(* listing deletes its usage (ON DELETE CASCADE).                          *)
(***************************************************************************)
EXTENDS Integers, FiniteSets, FiniteSetsExt

CONSTANTS
  Calls,      \* requests open at the same time
  Users,      \* agents whose calls are metered
  Amounts,    \* calls a report may add: the schema takes any integer
  Tiers,      \* VALID_ACCESS_TIERS
  MaxReports, \* bound: reports accepted
  MaxListings \* bound: ids of listings; an id no request remembers is given again

ASSUME UsageAssumption == /\ Amounts \subseteq Int /\ "free" \in Tiers /\ IsFiniteSet(Calls)
                          /\ {MaxReports, MaxListings} \subseteq Nat /\ MaxListings > Cardinality(Calls)

VARIABLES
  listing,   \* the listing of the agent: its id, 0 if it has none, and its tier
  usage,     \* the rows of marketplace_usage
  inserted,  \* rows inserted so far: their ids
  call,      \* the requests
  reported,  \* history: what was accepted for the present listing
  reports,   \* history: reports accepted
  overlapped      \* history: two reports of the user for this listing overlapped

usageVars == <<listing, usage, inserted, call, reported, reports, overlapped>>

NoCall == [op |-> "none"]
Row    == [id : Nat, user : Users, calls : Int]
Open   == [op : {"create"}] \cup [op : {"delete"}, listing : Nat]
          \cup [op : {"tier"}, listing : Nat, tier : Tiers]
          \cup [op : {"record"}, listing : Nat, user : Users, amount : Amounts,
              row : Nat, seen : Int]   \* the row found, 0 if none, and its number

UsageInit ==
  /\ listing = [id |-> 0, tier |-> "free"]
  /\ usage = {} /\ inserted = 0
  /\ call = [c \in Calls |-> NoCall]
  /\ reported = [u \in Users |-> 0] /\ reports = 0
  /\ overlapped = [u \in Users |-> FALSE]

OfUser(u) == {r \in usage : r.user = u}

Recording(c, u) == call[c].op = "record" /\ call[c].user = u /\ call[c].listing = listing.id

Remembered == {call[c].listing : c \in {d \in Calls : call[d].op \notin {"none", "create"}}}

Begin(c, request) ==
  /\ call[c] = NoCall
  /\ call' = [call EXCEPT ![c] = request]

End(c) == call' = [call EXCEPT ![c] = NoCall]

--------------------------------------------------------------------------------
(* The agent has no listing.                                               *)
CheckListing(c) ==
  /\ listing.id = 0
  /\ Begin(c, [op |-> "create"])
  /\ UNCHANGED <<listing, usage, inserted, reported, reports, overlapped>>

(* agent_id is unique: the second of two insertions fails.                 *)
CreateListing(c) ==
  /\ call[c].op = "create" /\ End(c)
  /\ \/ /\ listing.id = 0
        /\ listing' = [id |-> Min((1 .. MaxListings) \ Remembered), tier |-> "free"]
     \/ listing.id # 0 /\ UNCHANGED listing
  /\ UNCHANGED <<usage, inserted, reported, reports, overlapped>>

LookUpListing(c) ==
  /\ listing.id # 0
  /\ \/ Begin(c, [op |-> "delete", listing |-> listing.id])
     \/ \E t \in Tiers : Begin(c, [op |-> "tier", listing |-> listing.id, tier |-> t])
  /\ UNCHANGED <<listing, usage, inserted, reported, reports, overlapped>>

(* A listing already deleted is deleted again without an error.            *)
DeleteListing(c) ==
  /\ call[c].op = "delete" /\ End(c)
  /\ IF call[c].listing = listing.id
       THEN /\ listing' = [id |-> 0, tier |-> "free"] /\ usage' = {}
            /\ reported' = [u \in Users |-> 0] /\ overlapped' = [u \in Users |-> FALSE]
       ELSE UNCHANGED <<listing, usage, reported, overlapped>>
  /\ UNCHANGED <<inserted, reports>>

(* The update of a listing that was deleted meets no row and fails.        *)
SetAccessTier(c) ==
  /\ call[c].op = "tier" /\ End(c)
  /\ listing' = IF call[c].listing = listing.id THEN [listing EXCEPT !.tier = call[c].tier] ELSE listing
  /\ UNCHANGED <<usage, inserted, reported, reports, overlapped>>

(* scalar_one_or_none: with two rows the report is an error.               *)
Readable(u) == Cardinality(OfUser(u)) <= 1

ReadUsage(c) ==
  /\ listing.id # 0
  /\ \E u \in Users, n \in Amounts :
       /\ Readable(u)
       /\ \/ /\ OfUser(u) = {}
             /\ Begin(c, [op |-> "record", listing |-> listing.id, user |-> u, amount |-> n, row |-> 0, seen |-> 0])
          \/ \E r \in OfUser(u) :
               Begin(c, [op |-> "record", listing |-> listing.id, user |-> u, amount |-> n, row |-> r.id, seen |-> r.calls])
       /\ overlapped' = [overlapped EXCEPT ![u] = @ \/ \E d \in Calls : Recording(d, u)]
  /\ UNCHANGED <<listing, usage, inserted, reported, reports>>

(* Mutant: what the agent had used before is forgotten.                    *)
Restarted(seen, n) == n

Totalled(seen, n) == seen + n

(* The user's first row is inserted, or the row that was read is given its *)
(* new number.  Both fail once the listing is gone, and the row with it.   *)
WriteUsage(c) ==
  /\ call[c].op = "record" /\ End(c)
  /\ LET u == call[c].user IN
     IF call[c].listing # listing.id THEN UNCHANGED <<usage, inserted, reported, reports>>
     ELSE /\ reports < MaxReports /\ reports' = reports + 1
          /\ reported' = [reported EXCEPT ![u] = @ + call[c].amount]
          /\ IF call[c].row = 0
               THEN /\ usage' = usage \cup {[id |-> inserted + 1, user |-> u, calls |-> call[c].amount]}
                    /\ inserted' = inserted + 1
               ELSE /\ usage' = {IF r.id = call[c].row
                                   THEN [r EXCEPT !.calls = Totalled(call[c].seen, call[c].amount)]
                                   ELSE r : r \in usage}
                    /\ UNCHANGED inserted
  /\ UNCHANGED <<listing, overlapped>>

(* The connection is lost before the commit.                               *)
Drop(c) ==
  /\ call[c] # NoCall /\ End(c)
  /\ UNCHANGED <<listing, usage, inserted, reported, reports, overlapped>>

(* What get_metering answers for a user of the listing: a number per row.  *)
Metered(u) == {r.calls : r \in OfUser(u)}

UsageNext == \E c \in Calls :
  \/ CheckListing(c) \/ CreateListing(c) \/ LookUpListing(c) \/ DeleteListing(c) \/ SetAccessTier(c)
  \/ ReadUsage(c) \/ WriteUsage(c) \/ Drop(c)

UsageSpec == UsageInit /\ [][UsageNext]_usageVars

--------------------------------------------------------------------------------
UsageTypeOK ==
  /\ listing \in [id : 0 .. MaxListings, tier : Tiers] /\ {inserted, reports} \subseteq Nat
  /\ \A r \in usage : r \in Row /\ r.id <= inserted
  /\ call \in [Calls -> {NoCall} \cup Open]
  /\ reported \in [Users -> Int] /\ overlapped \in [Users -> BOOLEAN]

(* What get_metering answers for a listing is what was accepted for it,    *)
(* user by user, unless two reports of the user overlapped: creation and   *)
(* deletion of listings, failures and the reports of others never lose or  *)
(* add a call, and only such a race gives a user two rows.                 *)
UsageExact ==
  /\ listing.id = 0 => usage = {}
  /\ \A u \in Users : ~overlapped[u] =>
       /\ Readable(u)
       /\ IF OfUser(u) = {} THEN reported[u] = 0 ELSE Metered(u) = {reported[u]}
===============================================================================

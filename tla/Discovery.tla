-------------------------------- MODULE Discovery --------------------------------
(***************************************************************************)
(* Finding agents: a client walks through the pages of a search            *)
(* (services/discovery/service.py), or asks for one agent to send a task   *)
(* to (services/routing.py).  Both only read, statement by statement and   *)
(* each in its own snapshot, while agents come and go and their trust      *)
(* moves; so requests do not meet, and one at a time stands for all.       *)
(*                                                                         *)
(* What a request asks of the columns of an agent's row (its status,       *)
(* capabilities, region, tags, metadata, exclusions) is one set: the rows  *)
(* that meet it.  Redis answers with a set of its own, whose relation to   *)
(* the rows is the subject of Directory.  Teams are left out.              *)
(***************************************************************************)
EXTENDS Integers, SequencesExt

CONSTANTS
  Agents, Nobody,
  Scores,           \* of trust records
  Neutral,          \* what an agent without a record is taken to have: 0.5
  CreatedAt, Name,  \* of an agent; neither is unique
  Limit,            \* of a page, and of the candidates of a route
  MaxChanges        \* bound: changes of the directory during a request

NoRecord == 0       \* sorts below every score: NULLS LAST in descending order
NoMinimum == 0

ASSUME DiscoveryAssumption ==
  /\ Nobody \notin Agents
  /\ Scores \subseteq Nat \ {NoRecord} /\ Neutral \in Nat \ {NoRecord}
  /\ CreatedAt \in [Agents -> Nat] /\ Name \in [Agents -> Nat]
  /\ Limit \in Nat \ {0} /\ MaxChanges \in Nat

VARIABLES
  qualified,  \* the rows that meet the filters on the columns of agents
  indexed,    \* the agents Redis answers with
  score,      \* trust_records.trust_score
  request,
  seen,       \* the client: the agents on the pages it has got, in order
  began,      \* history: qualified and indexed when the request began
  changes, moved, split, sources  \* history: see below

directory == <<qualified, indexed, score>>
history   == <<changes, moved, split, sources>>
discoveryVars == <<directory, request, seen, began, history>>

Trust == Scores \cup {Neutral}

NoRequest == [pc |-> "idle"]
Search == [pc : {"asking", "counting", "paging", "reading", "answered", "done"},
           sort : {"trust_score", "registered_at"}, min : Scores \cup {NoMinimum},
           offset : Nat, candidates : SUBSET Agents, total : Nat,
           page : Seq(Agents), shown : Seq(Trust)]
Route  == [pc : {"selecting", "routed"}, from : SUBSET Agents, trust : [Agents -> Trust],
           candidates : Seq(Agents), preferred : Agents \cup {Nobody},
           selected : Agents \cup {Nobody}]

DiscoveryInit ==
  /\ qualified \in SUBSET Agents
  /\ indexed \in SUBSET Agents
  /\ score \in [Agents -> Scores \cup {NoRecord}]
  /\ request = NoRequest
  /\ seen = <<>>
  /\ began = [qualified |-> {}, indexed |-> {}]
  /\ changes = 0 /\ moved = FALSE /\ split = FALSE /\ sources = {}

Waiting == request.pc \in {"idle", "done", "routed"}

Begin(first) ==
  /\ Waiting
  /\ request' = first
  /\ seen' = <<>>
  /\ began' = [qualified |-> qualified, indexed |-> indexed]
  /\ changes' = 0 /\ moved' = FALSE /\ split' = FALSE /\ sources' = {}
  /\ UNCHANGED directory

Continue == UNCHANGED <<directory, began, changes, moved, split>>

--------------------------------------------------------------------------------
(***************************************************************************)
(* A search: the index, the count, the page, and the trust of each agent   *)
(* on it.                                                                  *)
(***************************************************************************)
StartSearch(sort, min) ==
  Begin([pc |-> "asking", sort |-> sort, min |-> min, offset |-> 0, candidates |-> {},
         total |-> 0, page |-> <<>>, shown |-> <<>>])

(* No candidates are asked for without a capability, and none are had when *)
(* Redis does not answer: then the database decides alone.                 *)
CandidateIds(answered) ==
  /\ request.pc = "asking"
  /\ request' = [request EXCEPT !.pc = "counting",
                                !.candidates = IF answered THEN indexed ELSE Agents]
  /\ sources' = sources \cup {answered}
  /\ Continue /\ UNCHANGED seen

(* The join with trust_records leaves out the agents that have none.       *)
Trusted(a) == request.min # NoMinimum => score[a] # NoRecord /\ score[a] >= request.min

Hits == {a \in qualified \cap request.candidates : Trusted(a)}

(* Mutant: the count leaves the trust filter out.                          *)
CountedUnfiltered == qualified \cap request.candidates

Counted == Hits

Count ==
  /\ request.pc = "counting"
  /\ request' = [request EXCEPT !.pc = "paging", !.total = Cardinality(Counted)]
  /\ Continue /\ UNCHANGED <<seen, sources>>

(* Descending; the ascending order is its mirror image, and latency and    *)
(* cost are sorted like trust.  Ties are in any order, and not in the same *)
(* one for each offset.                                                    *)
Key(a) == IF request.sort = "trust_score" THEN score[a] ELSE CreatedAt[a]

Sorted == {<<a, b>> \in Agents \X Agents : Key(a) > Key(b)}

Orders(S, before) ==
  {o \in SetToSeqs(S) : \A i, j \in DOMAIN o : i < j => <<o[j], o[i]>> \notin before}

Cut(o, offset) == SubSeq(o, offset + 1, Min({offset + Limit, Len(o)}))

Page ==
  /\ request.pc = "paging"
  /\ \E o \in Orders(Hits, Sorted) :
       request' = [request EXCEPT !.pc = "reading", !.page = Cut(o, request.offset)]
  /\ Continue /\ UNCHANGED <<seen, sources>>

(* coalesce, and the default of the answer.  A score of 0 is not reached:  *)
(* the age of an agent always counts for something.                        *)
(* Mutant: no default.                                                     *)
TrustOfRecord(a) == score[a]

TrustOf(a) == IF score[a] = NoRecord THEN Neutral ELSE score[a]

ReadTrust ==
  /\ request.pc = "reading" /\ Len(request.shown) < Len(request.page)
  /\ request' = [request EXCEPT !.shown = Append(@, TrustOf(request.page[Len(request.shown) + 1]))]
  /\ Continue /\ UNCHANGED <<seen, sources>>

Answer ==
  /\ request.pc = "reading" /\ Len(request.shown) = Len(request.page)
  /\ request' = [request EXCEPT !.pc = "answered"]
  /\ seen' = seen \o request.page
  /\ Continue /\ UNCHANGED sources

(* The client asks for the next page as long as there is one.              *)
NextPage ==
  /\ request.pc = "answered"
  /\ request' = IF request.offset + Limit < request.total
                THEN [request EXCEPT !.pc = "asking", !.offset = @ + Limit, !.candidates = {},
                                     !.total = 0, !.page = <<>>, !.shown = <<>>]
                ELSE [request EXCEPT !.pc = "done"]
  /\ Continue /\ UNCHANGED <<seen, sources>>

--------------------------------------------------------------------------------
(***************************************************************************)
(* A route: all agents that qualify and their trust in one statement, the  *)
(* best of them, and the choice of an external model, which is awaited.    *)
(***************************************************************************)
(* All have every capability that is required, so their match is the same. *)
Better == {<<a, b>> \in Agents \X Agents :
              \/ TrustOf(a) > TrustOf(b)
              \/ TrustOf(a) = TrustOf(b) /\ Name[a] < Name[b]}

(* Mutant: the limit is that of the query.                                 *)
CutThenSorted ==
  UNION {Orders(Range(Cut(o, 0)), Better) : o \in SetToSeqs(qualified)}

SortedThenCut == {Cut(o, 0) : o \in Orders(qualified, Better)}

RouteTask ==
  \E ranked \in SortedThenCut :
    Begin([pc |-> "selecting", from |-> qualified, trust |-> [a \in Agents |-> TrustOf(a)],
           candidates |-> ranked, preferred |-> Nobody, selected |-> Nobody])

(* The model may name anybody; only a candidate is heard.  No answer, an   *)
(* HTTP error, and no model at all come to the same.                       *)
Preferred(named) == IF named \in Range(request.candidates) THEN named ELSE Nobody

SelectBestCandidate(preferred) ==
  IF preferred # Nobody THEN preferred
  ELSE IF request.candidates = <<>> THEN Nobody ELSE Head(request.candidates)

LLMSelect(named) ==
  /\ request.pc = "selecting"
  /\ request' = [request EXCEPT !.pc = "routed", !.preferred = Preferred(named),
                                !.selected = SelectBestCandidate(Preferred(named))]
  /\ Continue /\ UNCHANGED <<seen, sources>>

(* Answers without a choice, or with one that is no object, raise errors   *)
(* nothing catches (IndexError, AttributeError): the request fails.        *)
LLMFails ==
  /\ request.pc = "selecting" /\ request.candidates # <<>>
  /\ request' = NoRequest
  /\ Continue /\ UNCHANGED <<seen, sources>>

--------------------------------------------------------------------------------
(***************************************************************************)
(* Meanwhile.  moved: an agent has left, or its trust has changed.  split: *)
(* one has joined between the count and the page of one search.  sources:  *)
(* whether Redis answered, of all searches of the walk.                    *)
(***************************************************************************)
Meanwhile ==
  /\ ~Waiting
  /\ changes < MaxChanges /\ changes' = changes + 1
  /\ UNCHANGED <<request, seen, began, sources>>

Joins(a) ==
  /\ Meanwhile
  /\ a \notin qualified /\ qualified' = qualified \cup {a}
  /\ split' = (split \/ request.pc = "paging")
  /\ UNCHANGED <<indexed, score, moved>>

IndexGains(a) ==
  /\ Meanwhile
  /\ a \notin indexed /\ indexed' = indexed \cup {a}
  /\ UNCHANGED <<qualified, score, moved, split>>

Moves(a) ==
  /\ Meanwhile
  /\ \/ a \in qualified /\ qualified' = qualified \ {a} /\ UNCHANGED <<indexed, score>>
     \/ a \in indexed /\ indexed' = indexed \ {a} /\ UNCHANGED <<qualified, score>>
     \/ /\ \E v \in Scores \ {score[a]} : score' = [score EXCEPT ![a] = v]
        /\ UNCHANGED <<qualified, indexed>>
  /\ moved' = TRUE /\ UNCHANGED split

DiscoveryNext ==
  \/ \E sort \in {"trust_score", "registered_at"}, min \in Scores \cup {NoMinimum} : StartSearch(sort, min)
  \/ \E answered \in BOOLEAN : CandidateIds(answered)
  \/ Count \/ Page \/ ReadTrust \/ Answer \/ NextPage
  \/ RouteTask \/ \E named \in Agents \cup {Nobody} : LLMSelect(named)
  \/ LLMFails
  \/ \E a \in Agents : Joins(a) \/ IndexGains(a) \/ Moves(a)

DiscoverySpec == DiscoveryInit /\ [][DiscoveryNext]_discoveryVars

--------------------------------------------------------------------------------
(***************************************************************************)
(* Properties.                                                             *)
(***************************************************************************)
DiscoveryTypeOK ==
  /\ qualified \subseteq Agents /\ indexed \subseteq Agents
  /\ score \in [Agents -> Scores \cup {NoRecord}]
  /\ request \in {NoRequest} \cup Search \cup Route
  /\ seen \in Seq(Agents)
  /\ began \in [qualified : SUBSET Agents, indexed : SUBSET Agents]
  /\ changes \in 0 .. MaxChanges /\ moved \in BOOLEAN /\ split \in BOOLEAN
  /\ sources \subseteq BOOLEAN

(* A walk that has come to its end, all its pages from one source.         *)
Walked == request.pc = "done" /\ Cardinality(sources) = 1

Throughout == {a \in began.qualified \cap request.candidates :
                 Trusted(a) /\ (sources = {TRUE} => a \in began.indexed)}

(* No other agent may stand before or behind it in the order.              *)
Placed(a) == \A b \in Hits \ {a} : Key(b) # Key(a)

Listed(a) == Cardinality({i \in DOMAIN seen : seen[i] = a})

Quiet == ~moved /\ began = [qualified |-> qualified, indexed |-> indexed]

(* A client that asks for one page after another until total is reached    *)
(* misses an agent that qualified all the time for one of four reasons     *)
(* only: somebody left or changed rank, somebody joined between the count  *)
(* and the page of one search, Redis answered some of the searches and not *)
(* others, or the agent ties with another.  That new agents push others to *)
(* the next page repeats some but loses none; and if nothing changes, each *)
(* agent without a tie is listed once, and as many as total says.          *)
GapsHaveCause ==
  /\ Walked /\ ~moved /\ ~split => \A a \in Throughout : Placed(a) => Listed(a) > 0
  /\ Walked /\ Quiet => /\ Len(seen) = request.total
                        /\ \A a \in Agents : Placed(a) => Listed(a) = IF a \in Hits THEN 1 ELSE 0

(* Whatever the model answers, and whenever, the agent a task is routed to *)
(* qualified when the rows were read; none that did has more trust than    *)
(* the one chosen without the model, or stands before it by name; and      *)
(* somebody is chosen if anybody qualified.                                *)
RoutesToTheQualified ==
  request.pc = "routed" =>
    /\ IF request.from = {} THEN request.selected = Nobody ELSE request.selected \in request.from
    /\ request.preferred = Nobody => \A a \in request.from :
         \/ request.trust[a] < request.trust[request.selected]
         \/ request.trust[a] = request.trust[request.selected] /\ Name[request.selected] <= Name[a]

(* "Results can be sorted by trust_score": if no trust changes meanwhile,  *)
(* the page is in the order of the trust it shows.  An agent without a     *)
(* record is shown with the neutral score, and sorted behind all others.   *)
SortedByShownTrust ==
  request.pc = "answered" /\ request.sort = "trust_score" /\ ~moved =>
    \A i, j \in DOMAIN request.shown : i < j => request.shown[i] >= request.shown[j]

(* "Results are paginated": the pages of a directory at rest do not repeat *)
(* an agent.                                                               *)
PagesAreDisjoint ==
  Walked /\ Quiet => \A a \in Agents : Listed(a) <= 1
===============================================================================

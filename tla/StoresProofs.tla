------------------------------ MODULE StoresProofs ------------------------------
(***************************************************************************)
(* Proofs about the four stores of MCStores, for any number of requests,   *)
(* limits, sessions, users, teams and agents: windows end and keep their   *)
(* limit, what is metered is what was accepted, versions count the writes, *)
(* reads are answered by rights the reader has had, and in every group of  *)
(* the kind GroupAssumption describes a proof that is created verifies.    *)
(***************************************************************************)
EXTENDS MCStores, FiniteSetTheorems, TLAPS

--------------------------------------------------------------------------------
(***************************************************************************)
(* Induction over the natural numbers, for sets.                           *)
(***************************************************************************)
(* A set of natural numbers has a least element.                           *)
LEMMA Least ==
  ASSUME NEW T, T \subseteq Nat, T # {}
  PROVE  \E x \in T : \A y \in T : x <= y
<1>. DEFINE R == {ss \in Nat \X Nat : ss[1] < ss[2]}
<1>1. IsWellFoundedOn(R, Nat)
  BY NatLessThanWellFounded DEF OpToRel
<1>2. \A x, y \in Nat : <<y, x>> \in R <=> y < x
  OBVIOUS
<1>. HIDE DEF R
<1>3. PICK x \in T : \A y \in T : ~ (<<y, x>> \in R)
  BY <1>1, WFMin
<1>4. \A y \in T : ~ (y < x)
  BY <1>2, <1>3
<1>. QED  BY <1>3, <1>4

(* A set that has 0 and is closed under successor has every number.        *)
LEMMA Induct ==
  ASSUME NEW T, 0 \in T, \A n \in Nat : n \in T => n + 1 \in T
  PROVE  Nat \subseteq T
<1>1. SUFFICES ASSUME Nat \ T # {} PROVE FALSE
  OBVIOUS
<1>2. PICK m \in Nat \ T : \A y \in Nat \ T : m <= y
  BY <1>1, Least
<1>3. m # 0 /\ m - 1 \in Nat /\ m - 1 \in T
  BY <1>2
<1>. QED  BY <1>2, <1>3

--------------------------------------------------------------------------------
(***************************************************************************)
(* RateLimit: the inductive invariant.                                     *)
(***************************************************************************)

(* Requests that may yet be let through under a number of this window.     *)
Pending == {q \in Requests : /\ request[q].pc \in {"expiring", "counted"}
                             /\ request[q].present /\ request[q].number <= Limit}

LimitsBounded == \A q \in Requests : request[q].pc # "idle" => request[q].limit <= Limit

NumbersSpent == /\ admitted + Cardinality(Pending) <= count["requests"]
                /\ admitted + Cardinality(Pending) <= Limit

RateInv == RateTypeOK /\ WindowsEnd /\ LimitsBounded /\ NumbersSpent

Typed == {NoRequest} \cup Serving

LEMMA PendingFinite ==
  ASSUME NEW R \in SUBSET Requests
  PROVE  IsFiniteSet(R) /\ Cardinality(R) \in Nat
  BY LimitAssumption, FS_Subset, FS_CardinalityType

LEMMA LowerType == Lower(Limit) \in Nat /\ Lower(Limit) <= Limit
  BY LimitAssumption DEF Lower

LEMMA RateInitInv == RateInit => RateInv
<1>. SUFFICES ASSUME RateInit PROVE RateInv
  OBVIOUS
<1>1. RateTypeOK
  BY DEF RateInit, RateTypeOK
<1>4. WindowsEnd
  BY DEF RateInit, WindowsEnd
<1>5. LimitsBounded
  BY DEF RateInit, LimitsBounded, NoRequest
<1>2. Pending = {}
  BY DEF RateInit, Pending, NoRequest
<1>3. NumbersSpent
  BY <1>2, FS_EmptySet, LimitAssumption DEF RateInit, NumbersSpent, Windows
<1>. QED
  BY <1>1, <1>3, <1>4, <1>5 DEF RateInv

(***************************************************************************)
(* One request moves on.                                                   *)
(***************************************************************************)

(* Request q becomes x, not pending any more: a number is not spent twice. *)
LEMMA PendingShrinks ==
  ASSUME RateInv, NEW q \in Requests, NEW x \in Typed, request' = [request EXCEPT ![q] = x],
         x.pc \in {"expiring", "counted"} /\ x.present /\ x.number <= Limit => q \in Pending
  PROVE  Pending' \subseteq Pending /\ Cardinality(Pending') <= Cardinality(Pending)
<1>1. request'[q] = x /\ \A p \in Requests \ {q} : request'[p] = request[p]
  BY DEF RateInv, RateTypeOK
<1>2. Pending' \subseteq Pending
  BY <1>1 DEF Pending
<1>. QED
  BY <1>2, PendingFinite, FS_Subset DEF Pending

(* The invariant of types and limits.                                      *)
LEMMA MovesTyped ==
  ASSUME RateInv, NEW q \in Requests, NEW x \in Typed, request' = [request EXCEPT ![q] = x],
         x.pc # "idle" => x.limit <= Limit
  PROVE  LimitsBounded' /\ request' \in [Requests -> {NoRequest} \cup Serving]
<1>1. request'[q] = x /\ \A p \in Requests \ {q} : request'[p] = request[p]
  BY DEF RateInv, RateTypeOK
<1>2. request' \in [Requests -> {NoRequest} \cup Serving]
  BY DEF RateInv, RateTypeOK, Typed
<1>3. LimitsBounded'
  BY <1>1 DEF RateInv, LimitsBounded
<1>. QED
  BY <1>2, <1>3

(* A window keeps its way to end, if whoever leaves without setting the    *)
(* time to live marks it.                                                  *)
LEMMA StillEnds ==
  ASSUME RateInv, NEW q \in Requests, NEW x \in Typed, request' = [request EXCEPT ![q] = x],
         \A w \in Windows :
           /\ count'[w] > 0 /\ count[w] = 0 => q \in Setting(w)' \/ orphaned'[w]
           /\ count'[w] > 0 /\ expires[w] => expires'[w]
           /\ count'[w] > 0 /\ orphaned[w] => orphaned'[w]
           /\ count'[w] > 0 /\ q \in Setting(w) /\ q \notin Setting(w)' => expires'[w] \/ orphaned'[w],
         count' \in [Windows -> Nat]
  PROVE  WindowsEnd'
<1>1. \A p \in Requests \ {q} : request'[p] = request[p]
  BY DEF RateInv, RateTypeOK
<1>2. \A w \in Windows : Setting(w) \subseteq Setting(w)' \cup {q}
  BY <1>1 DEF Setting
<1>3. SUFFICES ASSUME NEW w \in Windows, count'[w] > 0
               PROVE  expires'[w] \/ Setting(w)' # {} \/ orphaned'[w]
  BY DEF WindowsEnd
<1>4. count[w] \in Nat /\ count'[w] \in Nat
  BY DEF RateInv, RateTypeOK
<1>5. CASE count[w] = 0
  BY <1>3, <1>5
<1>6. CASE count[w] > 0
  <2>1. expires[w] \/ Setting(w) # {} \/ orphaned[w]
    BY <1>6 DEF RateInv, WindowsEnd
  <2>. QED
    BY <1>2, <1>3, <2>1
<1>. QED
  BY <1>4, <1>5, <1>6

(* A step of request q that admits nobody and gives it no number to use.   *)
LEMMA Moves ==
  ASSUME RateInv, NEW q \in Requests, NEW x \in Typed, request' = [request EXCEPT ![q] = x],
         x.pc # "idle" => x.limit <= Limit,
         x.pc \in {"expiring", "counted"} /\ x.present /\ x.number <= Limit => q \in Pending,
         \A w \in Windows :
           /\ count'[w] > 0 /\ count[w] = 0 => q \in Setting(w)' \/ orphaned'[w]
           /\ count'[w] > 0 /\ expires[w] => expires'[w]
           /\ count'[w] > 0 /\ orphaned[w] => orphaned'[w]
           /\ count'[w] > 0 /\ q \in Setting(w) /\ q \notin Setting(w)' => expires'[w] \/ orphaned'[w],
         count' \in [Windows -> Nat], count["requests"] <= count'["requests"],
         expires' \in [Windows -> BOOLEAN], orphaned' \in [Windows -> BOOLEAN],
         flagged' \in BOOLEAN, admitted' = admitted
  PROVE  RateInv'
<1>1. WindowsEnd'
  BY StillEnds
<1>2. RateTypeOK' /\ LimitsBounded'
  BY MovesTyped DEF RateInv, RateTypeOK
<1>3. Cardinality(Pending') <= Cardinality(Pending)
  BY PendingShrinks
<1>4. NumbersSpent'
  <2>1. Cardinality(Pending) \in Nat /\ Cardinality(Pending') \in Nat
    BY PendingFinite DEF Pending
  <2>2. /\ count["requests"] \in Nat /\ count'["requests"] \in Nat
        /\ admitted \in Nat /\ Limit \in Nat
    BY LimitAssumption DEF RateInv, RateTypeOK, Windows
  <2>. QED
    BY <1>3, <2>1, <2>2 DEF RateInv, NumbersSpent
<1>. QED
  BY <1>1, <1>2, <1>4 DEF RateInv

(* One that has nothing to do with the counters.                           *)
LEMMA PlainMove ==
  ASSUME RateInv, NEW q \in Requests, NEW x \in Typed, request' = [request EXCEPT ![q] = x],
         x.pc # "idle" => x.limit <= Limit,
         x.pc \notin {"expiring", "counted"}, request[q].pc \notin {"expiring", "timing"},
         flagged' \in BOOLEAN, UNCHANGED <<count, expires, admitted, orphaned>>
  PROVE  RateInv'
<1>1. \A w \in Windows : q \notin Setting(w)
  BY DEF Setting
<1>2. /\ count' \in [Windows -> Nat] /\ expires' \in [Windows -> BOOLEAN]
      /\ orphaned' \in [Windows -> BOOLEAN] /\ count["requests"] <= count'["requests"]
  BY DEF RateInv, RateTypeOK, Windows
<1>3. \A w \in Windows :
        /\ count'[w] > 0 /\ count[w] = 0 => q \in Setting(w)' \/ orphaned'[w]
        /\ count'[w] > 0 /\ expires[w] => expires'[w]
        /\ count'[w] > 0 /\ orphaned[w] => orphaned'[w]
        /\ count'[w] > 0 /\ q \in Setting(w) /\ q \notin Setting(w)' => expires'[w] \/ orphaned'[w]
  BY <1>1
<1>. QED
  BY <1>2, <1>3, Moves

Plain(q) ==
  Arrive(q) \/ ReadFlag(q) \/ Exceeded(q) \/ FlagClient(q) \/ Refuse(q) \/ Respond(q) \/ LetThrough(q)

LEMMA PlainStep == ASSUME RateInv, NEW q \in Requests, Plain(q) PROVE RateInv'
<1>. DEFINE s == request[q]
<1>1. /\ request \in [Requests -> Typed] /\ flagged \in BOOLEAN
      /\ s \in Typed /\ (s.pc # "idle" => s \in Serving /\ s.limit <= Limit)
  BY DEF RateInv, RateTypeOK, LimitsBounded, Typed, NoRequest
<1>2. /\ UNCHANGED <<count, expires, admitted, orphaned>> /\ flagged' \in BOOLEAN
      /\ s.pc \notin {"expiring", "timing"}
  <2>1. UNCHANGED <<count, expires, admitted, orphaned>>
    BY DEF Plain, Arrive, ReadFlag, Exceeded, FlagClient, Refuse, Respond, LetThrough
  <2>2. flagged' \in BOOLEAN
    <3>1. CASE FlagClient(q)
      BY <3>1 DEF FlagClient
    <3>2. CASE ~FlagClient(q)
      BY <1>1, <3>2 DEF Plain, Arrive, ReadFlag, Exceeded, Refuse, Respond, LetThrough
    <3>. QED
      BY <3>1, <3>2
  <2>3. s.pc \notin {"expiring", "timing"}
    BY DEF Plain, Arrive, ReadFlag, Exceeded, FlagClient, Refuse, Respond, LetThrough, NoRequest
  <2>. QED
    BY <2>1, <2>2, <2>3
<1>3. Limit \in Nat /\ NoRequest \in Typed /\ NoRequest.pc = "idle"
  BY LimitAssumption DEF Typed, NoRequest
<1>4. \A pc \in {"flooding", "refusing", "failed", "handling"} : s.pc # "idle" =>
        /\ [s EXCEPT !.pc = pc] \in Typed /\ [s EXCEPT !.pc = pc].pc = pc
        /\ [s EXCEPT !.pc = pc].limit = s.limit
  BY <1>1 DEF Typed, Serving
<1>5. CASE Arrive(q)
  <2>. DEFINE x == [pc |-> "arrived", limit |-> Limit, number |-> 0, guarded |-> TRUE, present |-> FALSE]
  <2>1. x \in Typed
    BY <1>3 DEF Typed, Serving
  <2>2. request' = [request EXCEPT ![q] = x]
    BY <1>5 DEF Arrive
  <2>3. x.pc = "arrived" /\ x.limit <= Limit
    BY <1>3
  <2>. HIDE DEF x
  <2>. QED
    BY <1>2, <2>1, <2>2, <2>3, PlainMove
<1>6. CASE ReadFlag(q)
  <2>1. PICK limit \in {Limit, IF flagged THEN Lower(Limit) ELSE Limit} :
          request' = [request EXCEPT ![q].pc = "limited", ![q].limit = limit]
    BY <1>6 DEF ReadFlag
  <2>. DEFINE x == [s EXCEPT !.pc = "limited", !.limit = limit]
  <2>2. limit \in Nat /\ limit <= Limit
    BY <1>3, LowerType
  <2>3. x \in Typed /\ x.pc = "limited" /\ x.limit = limit
    BY <1>1, <1>6, <2>2 DEF Typed, Serving, ReadFlag
  <2>4. request' = [request EXCEPT ![q] = x]
    BY <1>1, <2>1
  <2>. QED
    BY <1>2, <2>2, <2>3, <2>4, PlainMove
<1>7. CASE request' = [request EXCEPT ![q] = NoRequest]
  BY <1>2, <1>3, <1>7, PlainMove
<1>8. CASE s.pc # "idle" /\ \E pc \in {"flooding", "refusing", "failed"} : request' = Goto(q, pc)
  <2>1. PICK pc \in {"flooding", "refusing", "failed"} : request' = Goto(q, pc)
    BY <1>8
  <2>2. request' = [request EXCEPT ![q] = [s EXCEPT !.pc = pc]]
    BY <1>1, <2>1 DEF Goto
  <2>. QED
    BY <1>1, <1>2, <1>4, <1>8, <2>2, PlainMove
<1>9. CASE LetThrough(q)
  <2>. DEFINE x == [s EXCEPT !.pc = "handling", !.guarded = FALSE]
  <2>1. x \in Typed /\ x.pc = "handling" /\ x.limit = s.limit
    BY <1>1, <1>9 DEF Typed, Serving, LetThrough
  <2>2. request' = [request EXCEPT ![q] = x]
    BY <1>1, <1>9 DEF LetThrough
  <2>. QED
    BY <1>1, <1>2, <1>9, <2>1, <2>2, PlainMove DEF LetThrough
<1>10. Exceeded(q) => s.pc # "idle" /\ request' = Goto(q, "flooding")
  BY DEF Exceeded
<1>11. FlagClient(q) => s.pc # "idle" /\ request' = Goto(q, "refusing")
  BY DEF FlagClient
<1>12. Refuse(q) => request' = [request EXCEPT ![q] = NoRequest]
  BY DEF Refuse
<1>13. Respond(q) => s.pc # "idle" /\ (request' = Goto(q, "failed") \/ request' = [request EXCEPT ![q] = NoRequest])
  BY DEF Respond
<1>. QED
  BY <1>5, <1>6, <1>7, <1>8, <1>9, <1>10, <1>11, <1>12, <1>13 DEF Plain

(***************************************************************************)
(* The steps that count.                                                   *)
(***************************************************************************)
LEMMA SetExpiryStep ==
  ASSUME RateInv, NEW q \in Requests, SetTTL(q) \/ ExpireFlood(q)
  PROVE  RateInv'
<1>1. PICK w \in Windows, from \in {"expiring", "timing"}, next \in {"counted", "flagging"} :
        /\ SetExpiry(q, w, from, next)
        /\ IF w = "requests" THEN from = "expiring" /\ next = "counted" ELSE from = "timing" /\ next = "flagging"
  BY DEF SetTTL, ExpireFlood, Windows
<1>. DEFINE s == request[q]
            x == [s EXCEPT !.pc = next]
<1>2. /\ request \in [Requests -> Typed] /\ count \in [Windows -> Nat]
      /\ orphaned \in [Windows -> BOOLEAN] /\ expires \in [Windows -> BOOLEAN]
      /\ flagged \in BOOLEAN /\ s \in Serving /\ s.limit <= Limit /\ s.pc = from
  BY <1>1 DEF RateInv, RateTypeOK, LimitsBounded, Typed, SetExpiry, NoRequest
<1>3. /\ x \in Typed /\ x.pc = next /\ x.limit = s.limit /\ x.number = s.number /\ x.present = s.present
  BY <1>2 DEF Typed, Serving
<1>4. /\ request' = [request EXCEPT ![q] = x] /\ UNCHANGED <<count, flagged, admitted, orphaned>>
      /\ expires' = [expires EXCEPT ![w] = count[w] > 0]
  BY <1>1, <1>2 DEF SetExpiry, Goto
<1>5. x.pc \in {"expiring", "counted"} /\ x.present /\ x.number <= Limit => q \in Pending
  BY <1>1, <1>2, <1>3 DEF Pending
<1>6. count'[w] > 0 => expires'[w]
  BY <1>2, <1>4
<1>7. /\ q \in Setting(w)
      /\ \A v \in Windows \ {w} : q \notin Setting(v) /\ expires'[v] = expires[v]
  BY <1>1, <1>2, <1>4 DEF Setting, Windows
<1>8. \A v \in Windows :
        /\ count'[v] > 0 /\ count[v] = 0 => q \in Setting(v)' \/ orphaned'[v]
        /\ count'[v] > 0 /\ expires[v] => expires'[v]
        /\ count'[v] > 0 /\ orphaned[v] => orphaned'[v]
        /\ count'[v] > 0 /\ q \in Setting(v) /\ q \notin Setting(v)' => expires'[v] \/ orphaned'[v]
  BY <1>2, <1>4, <1>6, <1>7
<1>9. count["requests"] <= count'["requests"] /\ expires' \in [Windows -> BOOLEAN]
  BY <1>2, <1>4 DEF Windows
<1>. QED
  BY <1>2, <1>3, <1>4, <1>5, <1>8, <1>9, Moves

(* A flood is counted: the number goes to the anomaly flag.                *)
LEMMA CountedType ==
  ASSUME RateInv, NEW w \in Windows
  PROVE  /\ Incremented(w) \in [Windows -> Nat]
         /\ \A v \in Windows : count[v] <= Incremented(w)[v] /\ (v # w => Incremented(w)[v] = count[v])
         /\ Incremented(w)[w] = (IF count[w] < MaxCount THEN count[w] + 1 ELSE count[w])
<1>1. count \in [Windows -> Nat] /\ MaxCount \in Nat
  BY LimitAssumption DEF RateInv, RateTypeOK
<1>2. \A v \in Windows : count[v] \in Nat
  BY <1>1
<1>. QED
  BY <1>1, <1>2 DEF Incremented

LEMMA FloodStep == ASSUME RateInv, NEW q \in Requests, ObserveFlood(q) PROVE RateInv'
<1>. DEFINE s  == request[q]
            pc == IF count["floods"] = 0 THEN "timing" ELSE "flagging"
<1>1. /\ request \in [Requests -> Typed] /\ count \in [Windows -> Nat]
      /\ orphaned \in [Windows -> BOOLEAN] /\ expires \in [Windows -> BOOLEAN]
      /\ flagged \in BOOLEAN /\ s \in Serving /\ s.limit <= Limit /\ s.pc = "flooding"
  BY DEF RateInv, RateTypeOK, LimitsBounded, Typed, ObserveFlood, Increment, NoRequest
<1>2. PICK n \in Nat : n = count'["floods"]
  BY CountedType DEF ObserveFlood, Increment, Windows
<1>. DEFINE x == [s EXCEPT !.pc = pc, !.number = n, !.present = TRUE]
<1>3. x \in Typed /\ x.pc = pc /\ x.limit = s.limit
  BY <1>1 DEF Typed, Serving
<1>4. /\ request' = [request EXCEPT ![q] = x] /\ count' = Incremented("floods")
      /\ UNCHANGED <<expires, flagged, admitted, orphaned>>
  BY <1>1, <1>2 DEF ObserveFlood, Increment
<1>5. request'[q] = x
  BY <1>1, <1>4
<1>6. \A v \in Windows :
        /\ count'[v] > 0 /\ count[v] = 0 => q \in Setting(v)' \/ orphaned'[v]
        /\ q \notin Setting(v)
  <2>1. ASSUME NEW v \in Windows, count'[v] > 0, count[v] = 0 PROVE q \in Setting(v)'
    <3>1. v = "floods"
      BY <1>1, <1>4, <2>1, CountedType DEF Windows
    <3>2. x.pc = "timing"
      BY <1>3, <2>1, <3>1
    <3>. QED
      BY <1>5, <3>1, <3>2 DEF Setting
  <2>2. \A v \in Windows : q \notin Setting(v)
    BY <1>1 DEF Setting
  <2>. QED
    BY <2>1, <2>2
<1>7. count' \in [Windows -> Nat] /\ count["requests"] <= count'["requests"]
  BY <1>4, CountedType DEF Windows
<1>. HIDE DEF x
<1>8. x.pc \notin {"expiring", "counted"}
  BY <1>3
<1>. QED
  BY <1>1, <1>3, <1>4, <1>6, <1>7, <1>8, Moves

(* A request is lost, or goes on although Redis failed.                    *)
LEMMA FailureStep ==
  ASSUME RateInv, NEW q \in Requests, RedisFails(q) \/ Lose(q)
  PROVE  RateInv'
<1>. DEFINE s == request[q]
<1>1. /\ request \in [Requests -> Typed] /\ count \in [Windows -> Nat]
      /\ orphaned \in [Windows -> BOOLEAN] /\ expires \in [Windows -> BOOLEAN]
      /\ flagged \in BOOLEAN /\ s \in Serving /\ s.limit <= Limit
  BY DEF RateInv, RateTypeOK, LimitsBounded, Typed, RedisFails, Lose, NoRequest, Serving
<1>2. PICK x \in Typed : /\ request' = [request EXCEPT ![q] = x] /\ x.pc \notin {"expiring", "counted", "timing"}
                         /\ x.pc # "idle" => x.limit = s.limit
  <2>1. CASE Lose(q)
    <3>1. NoRequest \in Typed /\ NoRequest.pc = "idle"
      BY DEF Typed, NoRequest
    <3>2. request' = [request EXCEPT ![q] = NoRequest]
      BY <2>1 DEF Lose
    <3>. QED
      BY <3>1, <3>2
  <2>2. CASE RedisFails(q)
    <3>1. PICK pc \in {"failed", "refusing"} : request' = Goto(q, pc)
      BY <2>2 DEF RedisFails
    <3>. DEFINE x == [s EXCEPT !.pc = pc]
    <3>2. x \in Typed /\ x.pc = pc /\ x.limit = s.limit
      BY <1>1 DEF Typed, Serving
    <3>3. request' = [request EXCEPT ![q] = x]
      BY <1>1, <3>1 DEF Goto
    <3>. QED
      BY <3>2, <3>3
  <2>. QED
    BY <2>1, <2>2
<1>3. UNCHANGED <<count, expires, flagged, admitted>> /\ orphaned' = Orphans(q)
  BY DEF Lose, RedisFails
<1>4. \A w \in Windows : /\ orphaned[w] => orphaned'[w]
                         /\ q \in Setting(w) => orphaned'[w]
                         /\ orphaned'[w] \in BOOLEAN
  BY <1>1, <1>3 DEF Orphans, Setting
<1>5. orphaned' \in [Windows -> BOOLEAN]
  BY <1>1, <1>3 DEF Orphans
<1>6. count["requests"] <= count'["requests"]
  BY <1>1, <1>3 DEF Windows
<1>7. \A v \in Windows :
        /\ count'[v] > 0 /\ count[v] = 0 => q \in Setting(v)' \/ orphaned'[v]
        /\ count'[v] > 0 /\ expires[v] => expires'[v]
        /\ count'[v] > 0 /\ orphaned[v] => orphaned'[v]
        /\ count'[v] > 0 /\ q \in Setting(v) /\ q \notin Setting(v)' => expires'[v] \/ orphaned'[v]
  BY <1>1, <1>3, <1>4
<1>8. /\ count' \in [Windows -> Nat] /\ expires' \in [Windows -> BOOLEAN]
      /\ admitted' = admitted /\ request' = [request EXCEPT ![q] = x]
  BY <1>1, <1>2, <1>3
<1>9. flagged' \in BOOLEAN
  BY <1>1, <1>3
<1>10. x.pc # "idle" => x.limit <= Limit
  BY <1>1, <1>2
<1>11. x.pc \in {"expiring", "counted"} /\ x.present /\ x.number <= Limit => q \in Pending
  BY <1>2
<1>. QED
  BY <1>5, <1>6, <1>7, <1>8, <1>9, <1>10, <1>11, Moves

LEMMA AnswerLostStep ==
  ASSUME RateInv, NEW q \in Requests,
         AnswerLost(q, "requests", "limited", "failed") \/ AnswerLost(q, "floods", "flooding", "refusing")
  PROVE  RateInv'
<1>1. PICK w \in Windows, from \in {"limited", "flooding"}, next \in {"failed", "refusing"} :
        AnswerLost(q, w, from, next)
  BY DEF Windows
<1>. DEFINE s == request[q]
            x == [s EXCEPT !.pc = next]
<1>2. /\ request \in [Requests -> Typed] /\ count \in [Windows -> Nat]
      /\ orphaned \in [Windows -> BOOLEAN] /\ expires \in [Windows -> BOOLEAN]
      /\ flagged \in BOOLEAN /\ s \in Serving /\ s.limit <= Limit /\ s.pc = from
  BY <1>1 DEF RateInv, RateTypeOK, LimitsBounded, Typed, AnswerLost, NoRequest
<1>3. x \in Typed /\ x.pc = next /\ x.limit = s.limit
  BY <1>2 DEF Typed, Serving
<1>4. /\ request' = [request EXCEPT ![q] = x] /\ count' = Incremented(w)
      /\ UNCHANGED <<expires, flagged, admitted>>
      /\ orphaned' = [orphaned EXCEPT ![w] = @ \/ count[w] = 0]
  BY <1>1, <1>2 DEF AnswerLost, Goto
<1>5. \A v \in Windows : /\ orphaned[v] => orphaned'[v]
                         /\ count'[v] > 0 /\ count[v] = 0 => orphaned'[v]
                         /\ q \notin Setting(v)
  <2>1. ASSUME NEW v \in Windows, count'[v] > 0, count[v] = 0 PROVE orphaned'[v]
    <3>1. v = w
      BY <1>4, <2>1, CountedType
    <3>. QED
      BY <1>2, <1>4, <2>1, <3>1
  <2>2. \A v \in Windows : q \notin Setting(v) /\ (orphaned[v] => orphaned'[v])
    BY <1>2, <1>4 DEF Setting
  <2>. QED
    BY <2>1, <2>2
<1>6. /\ count' \in [Windows -> Nat] /\ count["requests"] <= count'["requests"]
      /\ orphaned' \in [Windows -> BOOLEAN]
  BY <1>2, <1>4, CountedType DEF Windows
<1>. QED
  BY <1>2, <1>3, <1>4, <1>5, <1>6, Moves

(* A number is given out: if it is one of those allowed, one more request  *)
(* is pending, and the counter pays for it.                                *)
LEMMA NumberStep == ASSUME RateInv, NEW q \in Requests, Incr(q) PROVE RateInv'
<1>. DEFINE s  == request[q]
            pc == IF count["requests"] = 0 THEN "expiring" ELSE "counted"
<1>1. /\ request \in [Requests -> Typed] /\ count \in [Windows -> Nat]
      /\ orphaned \in [Windows -> BOOLEAN] /\ expires \in [Windows -> BOOLEAN]
      /\ flagged \in BOOLEAN /\ s \in Serving /\ s.limit <= Limit /\ s.pc = "limited" /\ admitted \in Nat
  BY DEF RateInv, RateTypeOK, LimitsBounded, Typed, Incr, Increment, NoRequest
<1>2. PICK n \in Nat : n = count'["requests"]
  BY CountedType DEF Incr, Increment, Windows
<1>3. PICK x \in Typed : x = [s EXCEPT !.pc = pc, !.number = n, !.present = TRUE]
  BY <1>1 DEF Typed, Serving
<1>4. x.pc = pc /\ x.limit = s.limit /\ x.number = n /\ x.present
  BY <1>1, <1>3 DEF Serving
<1>5. /\ request' = [request EXCEPT ![q] = x] /\ count' = Incremented("requests")
      /\ UNCHANGED <<expires, flagged, admitted, orphaned>>
  BY <1>1, <1>2, <1>3 DEF Incr, Increment
<1>6. request'[q] = x /\ \A p \in Requests \ {q} : request'[p] = request[p]
  BY <1>1, <1>5
<1>7. count' \in [Windows -> Nat]
  BY <1>5, CountedType DEF Windows
<1>8. WindowsEnd'
  <2>1. ASSUME NEW v \in Windows, count'[v] > 0, count[v] = 0 PROVE q \in Setting(v)'
    <3>1. v = "requests"
      BY <1>1, <1>5, <2>1, CountedType DEF Windows
    <3>2. x.pc = "expiring"
      BY <1>4, <2>1, <3>1
    <3>. QED
      BY <1>6, <3>1, <3>2 DEF Setting
  <2>2. \A v \in Windows : q \notin Setting(v)
    BY <1>1 DEF Setting
  <2>. QED
    BY <1>5, <1>7, <2>1, <2>2, StillEnds
<1>9. RateTypeOK' /\ LimitsBounded'
  BY <1>1, <1>4, <1>5, <1>7, MovesTyped DEF RateTypeOK
<1>10. NumbersSpent'
  <2>1. /\ Limit \in Nat /\ MaxCount \in Nat /\ MaxCount > Limit + 1
        /\ count["requests"] \in Nat
        /\ n = IF count["requests"] < MaxCount THEN count["requests"] + 1 ELSE count["requests"]
    BY <1>1, <1>2, <1>5, CountedType, LimitAssumption DEF Windows
  <2>2. IsFiniteSet(Pending) /\ Cardinality(Pending) \in Nat
    BY PendingFinite DEF Pending
  <2>3. q \notin Pending
    BY <1>1 DEF Pending
  <2>4. CASE n <= Limit
    <3>1. Pending' = Pending \cup {q}
      BY <1>4, <1>6, <2>4 DEF Pending
    <3>2. Cardinality(Pending') = Cardinality(Pending) + 1
      BY <2>2, <2>3, <3>1, FS_AddElement
    <3>3. n = count["requests"] + 1
      BY <2>1, <2>4
    <3>. QED
      BY <1>1, <1>2, <1>5, <2>1, <2>2, <2>4, <3>2, <3>3 DEF RateInv, NumbersSpent
  <2>5. CASE n > Limit
    <3>1. Pending' = Pending
      BY <1>4, <1>6, <2>1, <2>3, <2>5 DEF Pending
    <3>. QED
      BY <1>1, <1>2, <1>5, <2>1, <2>2, <3>1 DEF RateInv, NumbersSpent
  <2>. QED
    BY <2>1, <2>4, <2>5
<1>. QED
  BY <1>8, <1>9, <1>10 DEF RateInv

(* A pending request is let through; one of an older window does not count. *)
LEMMA AdmitStep == ASSUME RateInv, NEW q \in Requests, Admit(q) PROVE RateInv'
<1>. DEFINE s == request[q]
<1>1. /\ request \in [Requests -> Typed] /\ count \in [Windows -> Nat] /\ admitted \in Nat
      /\ orphaned \in [Windows -> BOOLEAN] /\ expires \in [Windows -> BOOLEAN] /\ flagged \in BOOLEAN
      /\ s \in Serving /\ s.limit <= Limit /\ s.pc = "counted"
  BY DEF RateInv, RateTypeOK, LimitsBounded, Typed, Admit, NoRequest
<1>2. PICK x \in Typed : x = [s EXCEPT !.pc = "handling"]
  BY <1>1 DEF Typed, Serving
<1>3. x.pc = "handling" /\ x.limit = s.limit
  BY <1>1, <1>2 DEF Serving
<1>4. /\ request' = [request EXCEPT ![q] = x] /\ UNCHANGED <<count, expires, flagged, orphaned>>
      /\ admitted' = IF s.present THEN admitted + 1 ELSE admitted
      /\ ~(s.number > s.limit)
  BY <1>1, <1>2 DEF Admit, Exceeds
<1>5. request'[q] = x /\ \A p \in Requests \ {q} : request'[p] = request[p]
  BY <1>1, <1>4
<1>6. WindowsEnd'
  <2>1. \A v \in Windows : q \notin Setting(v)
    BY <1>1 DEF Setting
  <2>2. \A v \in Windows :
          /\ count'[v] > 0 /\ count[v] = 0 => q \in Setting(v)' \/ orphaned'[v]
          /\ count'[v] > 0 /\ expires[v] => expires'[v]
          /\ count'[v] > 0 /\ orphaned[v] => orphaned'[v]
          /\ count'[v] > 0 /\ q \in Setting(v) /\ q \notin Setting(v)' => expires'[v] \/ orphaned'[v]
    BY <1>1, <1>4, <2>1
  <2>3. count' \in [Windows -> Nat]
    BY <1>1, <1>4
  <2>. QED
    BY <1>4, <2>2, <2>3, StillEnds
<1>7. RateTypeOK' /\ LimitsBounded'
  <2>1. admitted' \in Nat
    BY <1>1, <1>4
  <2>2. request' \in [Requests -> {NoRequest} \cup Serving] /\ LimitsBounded'
    BY <1>1, <1>3, <1>4, MovesTyped
  <2>. QED
    BY <1>1, <1>4, <2>1, <2>2 DEF RateTypeOK
<1>8. NumbersSpent'
  <2>1. IsFiniteSet(Pending) /\ Cardinality(Pending) \in Nat
    BY PendingFinite DEF Pending
  <2>2. Limit \in Nat /\ s.number \in Nat /\ s.limit \in Nat /\ count["requests"] \in Nat
    BY <1>1, LimitAssumption DEF Serving, Windows
  <2>3. Pending' = Pending \ {q}
    BY <1>3, <1>5 DEF Pending
  <2>4. CASE s.present
    <3>1. q \in Pending
      BY <1>1, <1>4, <2>2, <2>4 DEF Pending
    <3>2. Cardinality(Pending') = Cardinality(Pending) - 1
      BY <2>1, <2>3, <3>1, FS_RemoveElement
    <3>. QED
      BY <1>1, <1>4, <2>1, <2>2, <2>4, <3>2 DEF RateInv, NumbersSpent
  <2>5. CASE ~s.present
    <3>1. Pending' = Pending
      BY <2>3, <2>5 DEF Pending
    <3>. QED
      BY <1>4, <2>5, <3>1 DEF RateInv, NumbersSpent
  <2>. QED
    BY <1>1, <2>4, <2>5
<1>. QED
  BY <1>6, <1>7, <1>8 DEF RateInv

(* A window ends: what is pending is not of the new one.                   *)
LEMMA WindowEndsStep == ASSUME RateInv, NEW w \in Windows, WindowEnds(w) PROVE RateInv'
<1>1. /\ request \in [Requests -> Typed] /\ count \in [Windows -> Nat] /\ admitted \in Nat
      /\ orphaned \in [Windows -> BOOLEAN] /\ expires \in [Windows -> BOOLEAN] /\ flagged \in BOOLEAN
  BY DEF RateInv, RateTypeOK, Typed
<1>2. \A q \in Requests :
        /\ request'[q] \in Typed /\ request'[q].pc = request[q].pc
        /\ request[q].pc # "idle" => request'[q].limit = request[q].limit
        /\ w = "requests" /\ request[q].pc # "idle" => ~request'[q].present
        /\ w # "requests" => request'[q] = request[q]
  <2>. TAKE q \in Requests
  <2>1. CASE request[q] = NoRequest
    BY <1>1, <2>1 DEF WindowEnds, NoRequest, Typed
  <2>2. CASE request[q] # NoRequest /\ w = "requests"
    <3>1. request[q] \in Serving
      BY <1>1, <2>2 DEF Typed
    <3>2. request'[q] = [request[q] EXCEPT !.present = FALSE]
      BY <2>2 DEF WindowEnds
    <3>. QED
      BY <2>2, <3>1, <3>2 DEF Serving, Typed
  <2>3. CASE w # "requests"
    BY <1>1, <2>3 DEF WindowEnds
  <2>. QED
    BY <2>1, <2>2, <2>3
<1>3. RateTypeOK'
  <2>1. request' \in [Requests -> Typed]
    <3>1. w = "requests" => request' = [q \in Requests |-> request'[q]]
      BY DEF WindowEnds
    <3>2. w # "requests" => request' = request
      BY DEF WindowEnds
    <3>. QED
      BY <1>1, <1>2, <3>1, <3>2
  <2>2. /\ count' \in [Windows -> Nat] /\ expires' \in [Windows -> BOOLEAN] /\ admitted' \in Nat
        /\ orphaned' \in [Windows -> BOOLEAN] /\ flagged' \in BOOLEAN
    BY <1>1 DEF WindowEnds
  <2>. QED
    BY <2>1, <2>2 DEF RateTypeOK, Typed
<1>4. WindowsEnd'
  <2>1. \A v \in Windows : Setting(v)' = Setting(v)
    BY <1>2 DEF Setting
  <2>2. \A v \in Windows \ {w} : count'[v] = count[v] /\ expires'[v] = expires[v] /\ orphaned'[v] = orphaned[v]
    BY <1>1 DEF WindowEnds
  <2>3. count'[w] = 0
    BY <1>1 DEF WindowEnds
  <2>. QED
    BY <2>1, <2>2, <2>3 DEF RateInv, WindowsEnd
<1>5. LimitsBounded'
  BY <1>2 DEF RateInv, LimitsBounded
<1>6. NumbersSpent'
  <2>1. CASE w = "requests"
    <3>1. Pending' = {}
      BY <1>2, <2>1 DEF Pending
    <3>2. admitted' = 0 /\ count'["requests"] = 0 /\ Limit \in Nat
      BY <1>1, <2>1, LimitAssumption DEF WindowEnds
    <3>. QED
      BY <3>1, <3>2, FS_EmptySet DEF NumbersSpent
  <2>2. CASE w # "requests"
    <3>1. Pending' = Pending
      BY <1>2, <2>2 DEF Pending
    <3>2. admitted' = admitted /\ count'["requests"] = count["requests"]
      BY <1>1, <2>2 DEF WindowEnds, Windows
    <3>. QED
      BY <3>1, <3>2 DEF RateInv, NumbersSpent
  <2>. QED
    BY <2>1, <2>2
<1>. QED
  BY <1>3, <1>4, <1>5, <1>6 DEF RateInv

LEMMA RateNextInv == RateInv /\ [RateNext]_rateVars => RateInv'
<1>. SUFFICES ASSUME RateInv, [RateNext]_rateVars PROVE RateInv'
  OBVIOUS
<1>1. CASE UNCHANGED <<count, expires, request, admitted, orphaned>> /\ flagged' \in BOOLEAN
  <2>1. Pending' = Pending /\ \A w \in Windows : Setting(w)' = Setting(w)
    BY <1>1 DEF Pending, Setting
  <2>. QED
    BY <1>1, <2>1 DEF RateInv, RateTypeOK, WindowsEnd, LimitsBounded, NumbersSpent
<1>2. FlagEnds \/ UNCHANGED rateVars =>
        UNCHANGED <<count, expires, request, admitted, orphaned>> /\ flagged' \in BOOLEAN
  BY DEF FlagEnds, rateVars, RateInv, RateTypeOK
<1>3. ASSUME NEW q \in Requests,
             \/ Plain(q) \/ Incr(q) \/ SetTTL(q) \/ Admit(q) \/ ObserveFlood(q) \/ ExpireFlood(q)
             \/ AnswerLost(q, "requests", "limited", "failed") \/ AnswerLost(q, "floods", "flooding", "refusing")
             \/ RedisFails(q) \/ Lose(q)
      PROVE  RateInv'
  BY <1>3, PlainStep, NumberStep, SetExpiryStep, AdmitStep, FloodStep, AnswerLostStep, FailureStep
<1>4. ASSUME NEW w \in Windows, WindowEnds(w) PROVE RateInv'
  BY <1>4, WindowEndsStep
<1>. QED
  BY <1>1, <1>2, <1>3, <1>4 DEF RateNext, Plain

(***************************************************************************)
(* The theorems.                                                           *)
(***************************************************************************)
(* The strengthened invariant holds in every state of the program.         *)
THEOREM RateInvariance == RateSpec => []RateInv
  BY RateInitInv, RateNextInv, PTL DEF RateSpec

(* Counters stay numbers and requests stay where the middleware puts them, *)
(* however many replicas run it.                                           *)
THEOREM RateTypeCorrect == RateSpec => []RateTypeOK
<1>1. RateInv => RateTypeOK
  BY DEF RateInv
<1>. QED
  BY <1>1, RateInvariance, PTL

(* Whatever is lost or fails, of the requests numbered in one window no    *)
(* more than the limit are let through.                                    *)
THEOREM NeverOverLimit == RateSpec => []LimitHolds
<1>1. RateInv => LimitHolds
  <2>. SUFFICES ASSUME RateInv PROVE LimitHolds
    OBVIOUS
  <2>1. admitted \in Nat /\ Limit \in Nat /\ Cardinality(Pending) \in Nat
    BY PendingFinite, LimitAssumption DEF RateInv, RateTypeOK, Pending
  <2>. QED
    BY <2>1 DEF RateInv, NumbersSpent, LimitHolds
<1>. QED
  BY <1>1, RateInvariance, PTL

(* A client is refused for ever only if a replica or Redis failed between  *)
(* INCR and EXPIRE.                                                        *)
THEOREM WindowsAlwaysEnd == RateSpec => []WindowsEnd
<1>1. RateInv => WindowsEnd
  BY DEF RateInv
<1>. QED
  BY <1>1, RateInvariance, PTL

--------------------------------------------------------------------------------
(***************************************************************************)
(* UsageMetering: the inductive invariant.  A report of a user who has no  *)
(* overlapping ones is alone, and has read what is still there; and a call *)
(* that outlives its listing never meets another listing of that id.       *)
(***************************************************************************)
RowsDistinct ==
  /\ \A r \in usage : r.id # 0
  /\ \A r1, r2 \in usage : r1.id = r2.id => r1 = r2

NothingUsed == usage = {} /\ \A u \in Users : reported[u] = 0 /\ ~overlapped[u]

Recalls(c) ==
  /\ call[c].op \notin {"none", "create"} => call[c].listing # 0
  /\ call[c].op = "record" => /\ call[c].row <= inserted
                              /\ \A r \in usage : r.id = call[c].row => r.user = call[c].user

Counted(u) == IF OfUser(u) = {} THEN reported[u] = 0
              ELSE \E r \in OfUser(u) : OfUser(u) = {r} /\ r.calls = reported[u]

ReadLast(c, u) == IF OfUser(u) = {} THEN call[c].row = 0 /\ call[c].seen = 0
                  ELSE \A r \in OfUser(u) : call[c].row = r.id /\ call[c].seen = r.calls

Alone(u) ==
  /\ Counted(u)
  /\ \A c, d \in Calls : Recording(c, u) /\ Recording(d, u) => c = d
  /\ \A c \in Calls : Recording(c, u) => ReadLast(c, u)

UsageInv ==
  /\ UsageTypeOK /\ RowsDistinct
  /\ listing.id = 0 => NothingUsed
  /\ \A c \in Calls : Recalls(c)
  /\ \A u \in Users : ~overlapped[u] => Alone(u)

LEMMA UsageInitInv == UsageInit => UsageInv
<1>. SUFFICES ASSUME UsageInit PROVE UsageInv
  OBVIOUS
<1>1. UsageTypeOK
  BY UsageAssumption DEF UsageInit, UsageTypeOK
<1>2. RowsDistinct /\ NothingUsed
  BY DEF UsageInit, RowsDistinct, NothingUsed
<1>3. \A c \in Calls : Recalls(c)
  BY DEF UsageInit, Recalls, NoCall
<1>4. \A u \in Users : Alone(u)
  BY DEF UsageInit, Alone, Counted, OfUser, Recording, NoCall
<1>. QED
  BY <1>1, <1>2, <1>3, <1>4 DEF UsageInv

(* The kinds of calls.                                                     *)
LEMMA RecordType ==
  ASSUME UsageTypeOK, NEW c \in Calls, call[c].op = "record"
  PROVE  /\ call[c].listing \in Nat /\ call[c].user \in Users /\ call[c].amount \in Int
         /\ call[c].row \in Nat /\ call[c].seen \in Int
<1>1. call[c] \in [op : {"record"}, listing : Nat, user : Users, amount : Amounts, row : Nat, seen : Int]
  BY DEF UsageTypeOK, Open, NoCall
<1>. QED
  BY <1>1, UsageAssumption

(***************************************************************************)
(* Steps that do not touch the usage.                                      *)
(***************************************************************************)
LEMMA SameCall ==
  ASSUME NEW c, call'[c] = call[c], listing'.id = listing.id, UNCHANGED <<usage, inserted>>
  PROVE  /\ Recalls(c)' <=> Recalls(c)
         /\ \A u : (Recording(c, u)' <=> Recording(c, u)) /\ (ReadLast(c, u)' <=> ReadLast(c, u))
  BY DEF Recalls, Recording, ReadLast, OfUser

(* Call c becomes x, which is not a report.                                *)
LEMMA CallStep ==
  ASSUME UsageInv, NEW c \in Calls, NEW x \in {NoCall} \cup Open, call' = [call EXCEPT ![c] = x],
         x.op # "record", x.op \notin {"none", "create"} => x.listing # 0,
         listing' \in [id : 0 .. MaxListings, tier : Tiers], listing'.id = listing.id,
         UNCHANGED <<usage, inserted, reported, overlapped>>, reports' \in Nat
  PROVE  UsageInv'
<1>1. call'[c] = x /\ \A d \in Calls \ {c} : call'[d] = call[d]
  BY DEF UsageInv, UsageTypeOK
<1>2. UsageTypeOK' /\ RowsDistinct' /\ (listing'.id = 0 => NothingUsed')
  BY DEF UsageInv, UsageTypeOK, RowsDistinct, NothingUsed
<1>3. \A d \in Calls \ {c} : /\ Recalls(d)' <=> Recalls(d)
        /\ \A u : (Recording(d, u)' <=> Recording(d, u)) /\ (ReadLast(d, u)' <=> ReadLast(d, u))
  BY <1>1, SameCall
<1>4. Recalls(c)' /\ \A u : ~Recording(c, u)'
  BY <1>1 DEF Recalls, Recording
<1>5. \A u \in Users : ~overlapped'[u] => Alone(u)'
  BY <1>3, <1>4 DEF UsageInv, Alone, Counted, OfUser
<1>. QED
  BY <1>2, <1>3, <1>4, <1>5 DEF UsageInv

LEMMA NoCallType == NoCall \in {NoCall} \cup Open /\ NoCall.op = "none"
  BY DEF NoCall

LEMMA QuietCalls ==
  ASSUME UsageInv, NEW c \in Calls, CheckListing(c) \/ LookUpListing(c) \/ SetAccessTier(c) \/ Drop(c)
  PROVE  UsageInv'
<1>1. listing \in [id : 0 .. MaxListings, tier : Tiers] /\ listing.id \in Nat /\ reports \in Nat
      /\ call[c] \in {NoCall} \cup Open
  BY UsageAssumption DEF UsageInv, UsageTypeOK
<1>2. CASE CheckListing(c)
  <2>1. [op |-> "create"] \in {NoCall} \cup Open
    BY DEF Open
  <2>. QED
    BY <1>1, <1>2, <2>1, CallStep DEF CheckListing, Begin
<1>3. CASE LookUpListing(c)
  <2>1. PICK x \in {[op |-> "delete", listing |-> listing.id]}
                   \cup {[op |-> "tier", listing |-> listing.id, tier |-> t] : t \in Tiers} :
          call' = [call EXCEPT ![c] = x]
    BY <1>3 DEF LookUpListing, Begin
  <2>2. x \in Open /\ x.op # "record" /\ x.listing # 0
    BY <1>1, <1>3, <2>1 DEF Open, LookUpListing
  <2>. QED
    BY <1>1, <1>3, <2>1, <2>2, CallStep DEF LookUpListing
<1>4. CASE SetAccessTier(c)
  <2>1. call[c].tier \in Tiers
    BY <1>1, <1>4 DEF SetAccessTier, Open, NoCall
  <2>2. listing' \in [id : 0 .. MaxListings, tier : Tiers] /\ listing'.id = listing.id
    BY <1>1, <1>4, <2>1 DEF SetAccessTier
  <2>. QED
    BY <1>1, <1>4, <2>2, NoCallType, CallStep DEF SetAccessTier, End
<1>5. CASE Drop(c)
  BY <1>1, <1>5, NoCallType, CallStep DEF Drop, End
<1>. QED
  BY <1>2, <1>3, <1>4, <1>5

(***************************************************************************)
(* Listings.                                                               *)
(***************************************************************************)
(* There is always an id that no call remembers.                           *)
LEMMA FreshListing ==
  ASSUME UsageTypeOK
  PROVE  Min((1 .. MaxListings) \ Remembered) \in (1 .. MaxListings) \ Remembered
<1>. DEFINE Those == {d \in Calls : call[d].op \notin {"none", "create"}}
            Free  == (1 .. MaxListings) \ Remembered
<1>1. /\ IsFiniteSet(Those) /\ IsFiniteSet(Calls) /\ Cardinality(Those) <= Cardinality(Calls)
      /\ Cardinality(Those) \in Nat /\ Cardinality(Calls) \in Nat /\ MaxListings \in Nat
      /\ Cardinality(Calls) < MaxListings
  BY UsageAssumption, FS_Subset, FS_CardinalityType
<1>2. Remembered = {call[c].listing : c \in Those}
  BY DEF Remembered
<1>3. IsFiniteSet(Remembered) /\ Cardinality(Remembered) <= Cardinality(Those) /\ Cardinality(Remembered) \in Nat
  <2>. DEFINE f == [c \in Those |-> call[c].listing]
  <2>1. f \in Surjection(Those, Remembered)
    BY <1>2 DEF Surjection
  <2>. HIDE DEF f, Those
  <2>. QED
    BY <1>1, <2>1, FS_Surjection, FS_CardinalityType
<1>4. IsFiniteSet(1 .. MaxListings) /\ Cardinality(1 .. MaxListings) = MaxListings
  BY <1>1, FS_Interval
<1>5. Free # {}
  <2>1. ASSUME Free = {} PROVE FALSE
    <3>1. 1 .. MaxListings \subseteq Remembered
      BY <2>1
    <3>2. Cardinality(1 .. MaxListings) <= Cardinality(Remembered)
      BY <1>3, <3>1, FS_Subset
    <3>. HIDE DEF Those
    <3>. QED
      BY <1>1, <1>3, <1>4, <3>2
  <2>. QED
    BY <2>1
<1>6. PICK x \in Free : \A y \in Free : x <= y
  <2>1. Free \subseteq Nat
    OBVIOUS
  <2>. HIDE DEF Free
  <2>. QED
    BY <1>5, <2>1, Least
<1>7. Min(Free) \in Free
  <2>. HIDE DEF Free
  <2>. QED
    BY <1>6 DEF Min
<1>. QED
  BY <1>7

(* The listing begins or ends: nothing is used, and no report is of it.    *)
LEMMA ListingStep ==
  ASSUME UsageInv, NEW c \in Calls, call' = [call EXCEPT ![c] = NoCall],
         listing' \in [id : 0 .. MaxListings, tier : Tiers], listing'.id \notin Remembered,
         inserted' = inserted, reports' = reports, reported' \in [Users -> Int], overlapped' \in [Users -> BOOLEAN],
         NothingUsed'
  PROVE  UsageInv'
<1>1. call'[c] = NoCall /\ \A d \in Calls \ {c} : call'[d] = call[d]
  BY DEF UsageInv, UsageTypeOK
<1>2. UsageTypeOK' /\ RowsDistinct'
  BY DEF UsageInv, UsageTypeOK, RowsDistinct, NothingUsed
<1>3. \A d \in Calls : Recalls(d)'
  BY <1>1 DEF UsageInv, Recalls, NothingUsed, NoCall
<1>4. \A d \in Calls, u \in Users : ~Recording(d, u)'
  BY <1>1 DEF Recording, Remembered, NoCall
<1>5. \A u \in Users : Alone(u)'
  BY <1>4 DEF Alone, Counted, OfUser, NothingUsed
<1>. QED
  BY <1>2, <1>3, <1>5 DEF UsageInv

LEMMA CreateListingStep == ASSUME UsageInv, NEW c \in Calls, CreateListing(c) PROVE UsageInv'
<1>1. call' = [call EXCEPT ![c] = NoCall] /\ UNCHANGED <<usage, inserted, reported, reports, overlapped>>
  BY DEF CreateListing, End
<1>2. CASE listing.id # 0
  BY <1>1, <1>2, NoCallType, CallStep DEF CreateListing, UsageInv, UsageTypeOK
<1>3. CASE listing.id = 0
  <2>1. listing' = [id |-> Min((1 .. MaxListings) \ Remembered), tier |-> "free"]
    BY <1>3 DEF CreateListing
  <2>2. Min((1 .. MaxListings) \ Remembered) \in (1 .. MaxListings) \ Remembered
    BY FreshListing DEF UsageInv
  <2>. DEFINE n == Min((1 .. MaxListings) \ Remembered)
  <2>. HIDE DEF n
  <2>3. listing' \in [id : 0 .. MaxListings, tier : Tiers] /\ listing'.id \notin Remembered
    BY <2>1, <2>2, UsageAssumption DEF n
  <2>4. NothingUsed'
    BY <1>1, <1>3 DEF UsageInv, NothingUsed
  <2>. QED
    BY <1>1, <2>3, <2>4, ListingStep DEF UsageInv, UsageTypeOK
<1>. QED
  BY <1>2, <1>3

LEMMA DeleteListingStep == ASSUME UsageInv, NEW c \in Calls, DeleteListing(c) PROVE UsageInv'
<1>1. call' = [call EXCEPT ![c] = NoCall] /\ UNCHANGED <<inserted, reports>>
  BY DEF DeleteListing, End
<1>2. CASE call[c].listing # listing.id
  BY <1>1, <1>2, NoCallType, CallStep DEF DeleteListing, UsageInv, UsageTypeOK
<1>3. CASE call[c].listing = listing.id
  <2>1. /\ listing' = [id |-> 0, tier |-> "free"] /\ usage' = {}
        /\ reported' = [u \in Users |-> 0] /\ overlapped' = [u \in Users |-> FALSE]
    BY <1>3 DEF DeleteListing
  <2>2. 0 \notin Remembered
    BY DEF Remembered, UsageInv, Recalls
  <2>3. listing' \in [id : 0 .. MaxListings, tier : Tiers] /\ listing'.id = 0
    BY <2>1, UsageAssumption
  <2>4. NothingUsed' /\ reported' \in [Users -> Int] /\ overlapped' \in [Users -> BOOLEAN]
    BY <2>1 DEF NothingUsed
  <2>5. listing'.id \notin Remembered
    BY <2>2, <2>3
  <2>. QED
    BY <1>1, <2>3, <2>4, <2>5, ListingStep
<1>. QED
  BY <1>2, <1>3

(***************************************************************************)
(* Reports.                                                                *)
(***************************************************************************)
LEMMA ReadUsageStep == ASSUME UsageInv, NEW c \in Calls, ReadUsage(c) PROVE UsageInv'
<1>1. PICK u \in Users, n \in Amounts, row \in Int, seen \in Int :
        /\ \/ OfUser(u) = {} /\ row = 0 /\ seen = 0
           \/ \E r \in OfUser(u) : row = r.id /\ seen = r.calls
        /\ call' = [call EXCEPT ![c] = [op |-> "record", listing |-> listing.id, user |-> u, amount |-> n,
                                        row |-> row, seen |-> seen]]
        /\ overlapped' = [overlapped EXCEPT ![u] = @ \/ \E d \in Calls : Recording(d, u)]
  <2>. DEFINE Asks(u, n, row, seen) ==
                call' = [call EXCEPT ![c] = [op |-> "record", listing |-> listing.id, user |-> u, amount |-> n,
                                             row |-> row, seen |-> seen]]
  <2>1. PICK u \in Users, n \in Amounts :
          /\ \/ OfUser(u) = {} /\ Asks(u, n, 0, 0)
             \/ \E r \in OfUser(u) : Asks(u, n, r.id, r.calls)
          /\ overlapped' = [overlapped EXCEPT ![u] = @ \/ \E d \in Calls : Recording(d, u)]
    BY DEF ReadUsage, Begin
  <2>. HIDE DEF Asks
  <2>0. \A r \in OfUser(u) : r.id \in Int /\ r.calls \in Int
    BY DEF UsageInv, UsageTypeOK, OfUser, Row
  <2>2. PICK row \in Int, seen \in Int :
          /\ \/ OfUser(u) = {} /\ row = 0 /\ seen = 0
             \/ \E r \in OfUser(u) : row = r.id /\ seen = r.calls
          /\ Asks(u, n, row, seen)
    BY <2>0, <2>1
  <2>3. call' = [call EXCEPT ![c] = [op |-> "record", listing |-> listing.id, user |-> u, amount |-> n,
                                     row |-> row, seen |-> seen]]
    BY <2>2 DEF Asks
  <2>. HIDE DEF Asks
  <2>. QED
    BY <2>1, <2>2, <2>3
<1>2. /\ listing.id # 0 /\ call[c] = NoCall /\ UNCHANGED <<listing, usage, inserted, reported, reports>>
  BY DEF ReadUsage, Begin
<1>3. /\ inserted \in Nat /\ listing.id \in Nat
      /\ \A r \in usage : r.id \in Nat /\ r.calls \in Int /\ r.id <= inserted /\ r.id # 0
  BY UsageAssumption DEF UsageInv, UsageTypeOK, Row, RowsDistinct
<1>4. /\ row \in Nat /\ seen \in Int /\ row <= inserted
      /\ \A r \in usage : r.id = row => r.user = u
  BY <1>1, <1>3 DEF OfUser, UsageInv, RowsDistinct
<1>. DEFINE x == [op |-> "record", listing |-> listing.id, user |-> u, amount |-> n, row |-> row, seen |-> seen]
<1>5. x \in Open /\ /\ x.op = "record" /\ x.listing = listing.id /\ x.user = u /\ x.row = row /\ x.seen = seen
  BY <1>3, <1>4 DEF Open
<1>6. call' = [call EXCEPT ![c] = x]
  BY <1>1
<1>. HIDE DEF x
<1>7. call'[c] = x /\ \A d \in Calls \ {c} : call'[d] = call[d]
  BY <1>6 DEF UsageInv, UsageTypeOK
<1>8. \A d \in Calls \ {c} : /\ Recalls(d)' <=> Recalls(d)
        /\ \A v : (Recording(d, v)' <=> Recording(d, v)) /\ (ReadLast(d, v)' <=> ReadLast(d, v))
  BY <1>2, <1>7, SameCall
<1>9. overlapped' \in [Users -> BOOLEAN]
  BY <1>1 DEF UsageInv, UsageTypeOK
<1>10. UsageTypeOK'
  BY <1>2, <1>5, <1>6, <1>9 DEF UsageInv, UsageTypeOK
<1>11. \A d \in Calls : Recalls(d)'
  <2>1. Recalls(c)'
    BY <1>2, <1>4, <1>5, <1>7 DEF Recalls
  <2>. QED
    BY <1>8, <2>1 DEF UsageInv
<1>12. ASSUME NEW v \in Users, ~overlapped'[v] PROVE Alone(v)'
  <2>1. ~overlapped[v] /\ Alone(v)
    BY <1>1, <1>12 DEF UsageInv, UsageTypeOK
  <2>2. Counted(v)' /\ OfUser(v)' = OfUser(v)
    BY <1>2, <2>1 DEF Alone, Counted, OfUser
  <2>3. CASE v # u
    <3>1. ~Recording(c, v)'
      BY <1>5, <1>7, <2>3 DEF Recording
    <3>. QED
      BY <1>8, <2>1, <2>2, <3>1 DEF Alone
  <2>4. CASE v = u
    <3>1. \A d \in Calls : ~Recording(d, u)
      BY <1>1, <1>12, <2>4 DEF UsageInv, UsageTypeOK
    <3>2. \A d \in Calls \ {c} : ~Recording(d, u)'
      BY <1>8, <3>1
    <3>3. ReadLast(c, u)'
      BY <1>1, <1>5, <1>7, <2>1, <2>2, <2>4 DEF ReadLast, Alone, Counted
    <3>. QED
      BY <2>2, <2>4, <3>2, <3>3 DEF Alone
  <2>. QED
    BY <2>3, <2>4
<1>13. RowsDistinct' /\ listing'.id # 0
  BY <1>2 DEF UsageInv, RowsDistinct
<1>. QED
  BY <1>10, <1>11, <1>12, <1>13 DEF UsageInv

(* What a report writes: the rows of the others stay as they were, and the *)
(* ids of all.                                                             *)
LEMMA WriteUsageStep == ASSUME UsageInv, NEW c \in Calls, WriteUsage(c) PROVE UsageInv'
<1>0. PICK u, m : u = call[c].user /\ m = call[c].amount
  OBVIOUS
<1>1. /\ call[c].op = "record" /\ call' = [call EXCEPT ![c] = NoCall] /\ UNCHANGED <<listing, overlapped>>
      /\ listing \in [id : 0 .. MaxListings, tier : Tiers] /\ reports \in Nat
  BY DEF WriteUsage, End, UsageInv, UsageTypeOK
<1>2. CASE call[c].listing # listing.id
  BY <1>1, <1>2, NoCallType, CallStep DEF WriteUsage
<1>3. CASE call[c].listing = listing.id
  <2>1. /\ reports' = reports + 1 /\ reported' = [reported EXCEPT ![u] = @ + m]
        /\ inserted \in Nat /\ reported \in [Users -> Int]
        /\ \A r \in usage : r \in Row /\ r.id <= inserted /\ r.id \in Nat /\ r.id # 0
        /\ \A r1, r2 \in usage : r1.id = r2.id => r1 = r2
    BY <1>0, <1>3 DEF WriteUsage, UsageInv, UsageTypeOK, RowsDistinct, Row
  <2>2. u \in Users /\ m \in Int /\ call[c].row \in Nat /\ call[c].seen \in Int
        /\ Recording(c, u) /\ Recalls(c) /\ listing.id # 0
    BY <1>0, <1>1, <1>3, RecordType DEF UsageInv, Recording, Recalls
  <2>3. ~overlapped[u] => Alone(u) /\ ReadLast(c, u)
    BY <2>2 DEF UsageInv, Alone
  <2>4. call'[c] = NoCall /\ \A d \in Calls \ {c} : call'[d] = call[d]
    BY <1>1 DEF UsageInv, UsageTypeOK
  <2>5. /\ inserted <= inserted' /\ inserted' \in Nat
        /\ \A r \in usage' : r \in Row /\ r.id <= inserted' /\ r.id # 0
        /\ \A r1, r2 \in usage' : r1.id = r2.id => r1 = r2
        /\ \A r \in usage' : r.id <= inserted => \E r0 \in usage : r0.id = r.id /\ r0.user = r.user
        /\ \A v \in Users \ {u} : OfUser(v)' = OfUser(v)
        /\ ~overlapped[u] => \E r \in OfUser(u)' : OfUser(u)' = {r} /\ r.calls = reported[u] + m
    <3>1. CASE call[c].row = 0
      <4>. DEFINE r == [id |-> inserted + 1, user |-> u, calls |-> m]
      <4>1. usage' = usage \cup {r} /\ inserted' = inserted + 1
        BY <1>0, <1>3, <3>1 DEF WriteUsage
      <4>2. r \in Row /\ r.id = inserted + 1 /\ r.user = u /\ r.calls = m /\ inserted + 1 \in Nat
        BY <2>1, <2>2 DEF Row
      <4>. HIDE DEF r
      <4>3. /\ \A q \in usage' : q \in Row /\ q.id <= inserted' /\ q.id # 0
            /\ \A r1, r2 \in usage' : r1.id = r2.id => r1 = r2
            /\ \A q \in usage' : q.id <= inserted => \E r0 \in usage : r0.id = q.id /\ r0.user = q.user
        BY <2>1, <4>1, <4>2
      <4>4. \A v \in Users \ {u} : OfUser(v)' = OfUser(v)
        BY <4>1, <4>2 DEF OfUser
      <4>5. ASSUME ~overlapped[u] PROVE OfUser(u)' = {r} /\ r.calls = reported[u] + m
        <5>1. OfUser(u) = {} /\ reported[u] = 0
          BY <2>1, <2>3, <3>1, <4>5 DEF ReadLast, Alone, Counted, OfUser
        <5>2. OfUser(u)' = {r}
          BY <4>1, <4>2, <5>1 DEF OfUser
        <5>. QED
          BY <2>2, <4>2, <5>1, <5>2
      <4>. QED
        BY <2>1, <4>1, <4>2, <4>3, <4>4, <4>5
    <3>2. CASE call[c].row # 0
      <4>. DEFINE New(r) == IF r.id = call[c].row THEN [r EXCEPT !.calls = Totalled(call[c].seen, m)] ELSE r
      <4>1. usage' = {New(r) : r \in usage} /\ inserted' = inserted
        BY <1>0, <1>3, <3>2 DEF WriteUsage
      <4>2. \A r \in usage : /\ New(r) \in Row /\ New(r).id = r.id /\ New(r).user = r.user
                             /\ r.user # u => New(r) = r
                             /\ r.id = call[c].row => New(r).calls = call[c].seen + m
        <5>1. TAKE r \in usage
        <5>2. r \in Row /\ (r.id = call[c].row => r.user = u) /\ call[c].seen + m \in Int
          BY <1>0, <1>1, <2>1, <2>2 DEF Recalls
        <5>. QED
          BY <5>2 DEF Row, Totalled
      <4>. HIDE DEF New
      <4>3. /\ \A q \in usage' : q \in Row /\ q.id <= inserted' /\ q.id # 0
            /\ \A r1, r2 \in usage' : r1.id = r2.id => r1 = r2
            /\ \A q \in usage' : q.id <= inserted => \E r0 \in usage : r0.id = q.id /\ r0.user = q.user
        BY <2>1, <4>1, <4>2
      <4>4. \A v \in Users \ {u} : OfUser(v)' = OfUser(v)
        BY <4>1, <4>2 DEF OfUser
      <4>5. ASSUME ~overlapped[u] PROVE \E r \in OfUser(u)' : OfUser(u)' = {r} /\ r.calls = reported[u] + m
        <5>1. PICK r \in OfUser(u) : OfUser(u) = {r} /\ r.calls = reported[u] /\ r.id = call[c].row /\ r.calls = call[c].seen
          BY <2>3, <3>2, <4>5 DEF ReadLast, Alone, Counted
        <5>2. OfUser(u)' = {New(r)}
          BY <4>1, <4>2, <5>1 DEF OfUser
        <5>3. New(r).calls = reported[u] + m
          BY <4>2, <5>1 DEF OfUser
        <5>. QED
          BY <5>2, <5>3
      <4>. QED
        BY <2>1, <4>1, <4>3, <4>4, <4>5
    <3>. QED
      BY <3>1, <3>2
  <2>6. UsageTypeOK' /\ RowsDistinct'
    <3>1. call' \in [Calls -> {NoCall} \cup Open]
      BY <1>1 DEF UsageInv, UsageTypeOK
    <3>2. reported' \in [Users -> Int] /\ reports' \in Nat
      BY <1>1, <2>1, <2>2
    <3>. QED
      BY <1>1, <2>5, <3>1, <3>2 DEF UsageInv, UsageTypeOK, RowsDistinct
  <2>7. ASSUME NEW d \in Calls PROVE Recalls(d)'
    <3>1. CASE d = c
      BY <2>4, <3>1 DEF Recalls, NoCall
    <3>2. CASE d # c
      <4>1. call'[d] = call[d] /\ Recalls(d)
        BY <2>4, <3>2 DEF UsageInv
      <4>2. ASSUME call[d].op = "record" PROVE Recalls(d)'
        <5>1. call[d].row \in Nat /\ call[d].row <= inserted /\ call[d].row <= inserted'
          BY <2>1, <2>5, <4>1, <4>2, RecordType DEF UsageInv, Recalls
        <5>2. \A r \in usage' : r.id = call[d].row => r.user = call[d].user
          BY <2>5, <4>1, <4>2, <5>1 DEF Recalls
        <5>. QED
          BY <4>1, <5>1, <5>2 DEF Recalls
      <4>. QED
        BY <4>1, <4>2 DEF Recalls
    <3>. QED
      BY <3>1, <3>2
  <2>8. \A d \in Calls, v \in Users : Recording(d, v)' => d # c /\ Recording(d, v)
    BY <1>1, <2>4 DEF Recording, NoCall
  <2>9. ASSUME NEW v \in Users, ~overlapped[v] PROVE Alone(v)'
    <3>1. Alone(v)
      BY <2>9 DEF UsageInv
    <3>2. CASE v = u
      <4>1. \A d \in Calls : ~Recording(d, v)'
        BY <2>2, <2>8, <3>1, <3>2 DEF Alone
      <4>2. Counted(v)'
        BY <2>1, <2>2, <2>5, <2>9, <3>2 DEF Counted
      <4>. QED
        BY <4>1, <4>2 DEF Alone
    <3>3. CASE v # u
      <4>1. OfUser(v)' = OfUser(v) /\ reported'[v] = reported[v]
        BY <2>1, <2>5, <3>3
      <4>2. Counted(v)'
        BY <3>1, <4>1 DEF Alone, Counted
      <4>3. ASSUME NEW d \in Calls, Recording(d, v)' PROVE ReadLast(d, v)'
        <5>1. Recording(d, v) /\ call'[d] = call[d]
          BY <2>4, <2>8, <4>3
        <5>. QED
          BY <3>1, <4>1, <5>1 DEF Alone, ReadLast
      <4>. QED
        BY <2>8, <3>1, <4>2, <4>3 DEF Alone
    <3>. QED
      BY <3>2, <3>3
  <2>. QED
    BY <1>1, <2>2, <2>6, <2>7, <2>9 DEF UsageInv
<1>. QED
  BY <1>2, <1>3

LEMMA UsageNextInv == UsageInv /\ [UsageNext]_usageVars => UsageInv'
<1>. SUFFICES ASSUME UsageInv, [UsageNext]_usageVars PROVE UsageInv'
  OBVIOUS
<1>1. CASE UNCHANGED usageVars
  <2>1. \A d \in Calls : /\ Recalls(d)' <=> Recalls(d)
          /\ \A u : (Recording(d, u)' <=> Recording(d, u)) /\ (ReadLast(d, u)' <=> ReadLast(d, u))
    BY <1>1, SameCall DEF usageVars
  <2>2. UsageTypeOK' /\ RowsDistinct' /\ (listing'.id = 0 => NothingUsed')
    BY <1>1 DEF usageVars, UsageInv, UsageTypeOK, RowsDistinct, NothingUsed
  <2>3. \A u \in Users : ~overlapped'[u] => Alone(u)'
    BY <1>1, <2>1 DEF usageVars, UsageInv, Alone, Counted, OfUser
  <2>. QED
    BY <2>1, <2>2, <2>3 DEF UsageInv
<1>2. ASSUME NEW c \in Calls,
             \/ CheckListing(c) \/ CreateListing(c) \/ LookUpListing(c) \/ DeleteListing(c) \/ SetAccessTier(c)
             \/ ReadUsage(c) \/ WriteUsage(c) \/ Drop(c)
      PROVE  UsageInv'
  BY <1>2, QuietCalls, CreateListingStep, DeleteListingStep, ReadUsageStep, WriteUsageStep
<1>. QED
  BY <1>1, <1>2 DEF UsageNext

THEOREM UsageInvariance == UsageSpec => []UsageInv
  BY UsageInitInv, UsageNextInv, PTL DEF UsageSpec

(* What is metered is what was accepted, for every listing and every user  *)
(* whose reports have not overlapped, however calls of others, failures    *)
(* and deletions come in between.                                          *)
THEOREM MeteringIsExact == UsageSpec => []UsageExact
<1>1. UsageInv => UsageExact
  <2>. SUFFICES ASSUME UsageInv PROVE UsageExact
    OBVIOUS
  <2>1. ASSUME NEW u \in Users, ~overlapped[u]
        PROVE  /\ Readable(u)
               /\ IF OfUser(u) = {} THEN reported[u] = 0 ELSE Metered(u) = {reported[u]}
    <3>1. Counted(u)
      BY <2>1 DEF UsageInv, Alone
    <3>2. CASE OfUser(u) = {}
      BY <3>1, <3>2, FS_EmptySet DEF Counted, Readable
    <3>3. CASE OfUser(u) # {}
      <4>1. PICK r \in OfUser(u) : OfUser(u) = {r} /\ r.calls = reported[u]
        BY <3>1, <3>3 DEF Counted
      <4>2. Cardinality(OfUser(u)) = 1
        BY <4>1, FS_Singleton
      <4>. QED
        BY <3>3, <4>1, <4>2 DEF Readable, Metered
    <3>. QED
      BY <3>2, <3>3
  <2>. QED
    BY <2>1 DEF UsageExact, UsageInv, NothingUsed
<1>. QED
  BY <1>1, UsageInvariance, PTL

--------------------------------------------------------------------------------
(***************************************************************************)
(* SharedMemory: the inductive invariant.  What a session has loaded is    *)
(* still so if nothing has been committed since; a row that was replaced   *)
(* by another of the key is told apart by its id; and a read has watched   *)
(* the agent's rights come and go.                                         *)
(***************************************************************************)
Serial == ~raced =>
  /\ memory # NoMemory => memory.version = writes
  /\ {g \in Grantees : grants[g] # 0} = due

Counts ==
  /\ memory # NoMemory => memory.id <= commits /\ memory.version <= writes
  /\ memory = NoMemory => writes = 0 /\ grants = NoGrants

Recent(s) == session[s].at = commits =>
  /\ session[s].row = NoMemory <=> memory = NoMemory
  /\ session[s].row # NoMemory => session[s].row.version = memory.version
  /\ session[s].pc = "checked" => session[s].found = grants

Sound(s) == session[s].pc # "idle" =>
  /\ session[s].at <= commits
  /\ session[s].op = "update" => session[s].asked = {}
  /\ session[s].op # "write" => session[s].row # NoMemory
  /\ session[s].row # NoMemory => /\ session[s].row.id <= commits
                                  /\ memory # NoMemory /\ session[s].row.id = memory.id
                                       => session[s].row.version <= writes
  /\ Recent(s)

Watching(r) ==
  /\ reader[r].pc \in {"loaded", "ungranted"} =>
       reader[r].held \subseteq Routes(grants, joined) /\ Routes(grants, joined) \subseteq reader[r].ever
  /\ reader[r].pc = "ungranted" => Agent \notin reader[r].held
  /\ reader[r].pc = "data"  => reader[r].ever # {}
  /\ reader[r].pc = "none"  => reader[r].held = {} \/ reader[r].expires = "past"
  /\ reader[r].pc = "error" => Cardinality(reader[r].ever \cap Teams) >= 2

MemoryInv ==
  /\ MemoryTypeOK /\ Serial /\ Counts
  /\ \A s \in Sessions : Sound(s)
  /\ \A r \in Readers : Watching(r)

LEMMA MemoryInitInv == MemoryInit => MemoryInv
<1>. SUFFICES ASSUME MemoryInit PROVE MemoryInv
  OBVIOUS
<1>1. MemoryTypeOK
  BY DEF MemoryInit, MemoryTypeOK, NoGrants, teams
<1>2. Serial /\ Counts
  BY DEF MemoryInit, Serial, Counts, NoGrants
<1>3. \A s \in Sessions : Sound(s)
  BY DEF MemoryInit, Sound, Idle
<1>4. \A r \in Readers : Watching(r)
  BY DEF MemoryInit, Watching, Idle
<1>. QED
  BY <1>1, <1>2, <1>3, <1>4 DEF MemoryInv

(***************************************************************************)
(* Steps of one session that change no row.                                *)
(***************************************************************************)
LEMMA SessionMoves ==
  ASSUME MemoryInv, NEW s \in Sessions, NEW x \in {Idle} \cup Working, session' = [session EXCEPT ![s] = x],
         UNCHANGED <<memory, grants, teams, reader, book>>, Sound(s)'
  PROVE  MemoryInv'
<1>1. UNCHANGED <<memory, grants, created, joined, reader, commits, writes, due, raced>>
  BY DEF teams, book
<1>2. \A t \in Sessions \ {s} : session'[t] = session[t]
  BY DEF MemoryInv, MemoryTypeOK
<1>3. MemoryTypeOK'
  BY <1>1 DEF MemoryInv, MemoryTypeOK
<1>4. Serial' /\ Counts'
  BY <1>1 DEF MemoryInv, Serial, Counts
<1>5. \A t \in Sessions \ {s} : Sound(t)'
  BY <1>1, <1>2 DEF MemoryInv, Sound, Recent
<1>6. \A r \in Readers : Watching(r)'
  BY <1>1 DEF MemoryInv, Watching, Routes
<1>. QED
  BY <1>3, <1>4, <1>5, <1>6 DEF MemoryInv

LEMMA LeaveMemory ==
  ASSUME MemoryInv, NEW s \in Sessions, session' = [session EXCEPT ![s] = Idle],
         UNCHANGED <<memory, grants, teams, reader, book>>
  PROVE  MemoryInv'
<1>1. session'[s] = Idle
  BY DEF MemoryInv, MemoryTypeOK
<1>2. Sound(s)'
  BY <1>1 DEF Sound, Idle
<1>. QED
  BY <1>2, SessionMoves

LEMMA LoadMemory ==
  ASSUME MemoryInv, NEW s \in Sessions, NEW op \in {"write", "replace", "update", "delete"},
         NEW asked \in SUBSET Grantees, NEW ttl \in BOOLEAN, Load(s, op, asked, ttl),
         op = "update" => asked = {}, op # "write" => memory # NoMemory
  PROVE  MemoryInv'
<1>. DEFINE x == [pc |-> "loaded", op |-> op, row |-> memory, at |-> commits,
                  asked |-> asked, ttl |-> ttl, found |-> NoGrants]
<1>1. x \in Working
  BY DEF MemoryInv, MemoryTypeOK, Working, NoGrants
<1>2. session' = [session EXCEPT ![s] = x] /\ UNCHANGED <<memory, grants, teams, reader, book>>
  BY DEF Load
<1>3. session'[s] = x
  BY <1>2 DEF MemoryInv, MemoryTypeOK
<1>4. memory \in Memory \cup {NoMemory} /\ commits \in Nat /\ UNCHANGED <<memory, commits, writes>>
  BY <1>2 DEF MemoryInv, MemoryTypeOK, book
<1>5. Sound(s)'
  BY <1>3, <1>4 DEF Sound, Recent, MemoryInv, Counts
<1>. QED
  BY <1>1, <1>2, <1>5, SessionMoves

LEMMA OwnerStep ==
  ASSUME MemoryInv, NEW s \in Sessions,
         WriteMemory(s) \/ UpdateMemory(s) \/ DeleteMemory(s) \/ LookAtGrants(s) \/ Abort(s)
  PROVE  MemoryInv'
<1>1. CASE WriteMemory(s)
  BY <1>1, LoadMemory, MemoryAssumption DEF WriteMemory
<1>2. CASE UpdateMemory(s)
  BY <1>2, LoadMemory, MemoryAssumption DEF UpdateMemory
<1>3. CASE DeleteMemory(s)
  BY <1>3, LoadMemory DEF DeleteMemory
<1>4. CASE LookAtGrants(s)
  <2>1. CASE session' = [session EXCEPT ![s] = Idle]
    BY <1>4, <2>1, LeaveMemory DEF LookAtGrants
  <2>2. CASE session' = [session EXCEPT ![s].pc = "checked", ![s].found = grants]
    <3>1. session[s] \in Working /\ session[s].pc = "loaded" /\ Sound(s) /\ grants \in [Grantees -> Nat]
      BY <1>4 DEF LookAtGrants, MemoryInv, MemoryTypeOK, Idle
    <3>. DEFINE x == [session[s] EXCEPT !.pc = "checked", !.found = grants]
    <3>2. /\ x \in Working /\ x.pc = "checked" /\ x.found = grants /\ x.op = session[s].op
          /\ x.row = session[s].row /\ x.at = session[s].at /\ x.asked = session[s].asked
      BY <3>1 DEF Working
    <3>3. session' = [session EXCEPT ![s] = x]
      BY <2>2, <3>1 DEF MemoryInv, MemoryTypeOK
    <3>. HIDE DEF x
    <3>4. session'[s] = x
      BY <3>3 DEF MemoryInv, MemoryTypeOK
    <3>5. UNCHANGED <<memory, grants, teams, reader, book>>
      BY <1>4 DEF LookAtGrants
    <3>6. Sound(s)'
      BY <3>1, <3>2, <3>4, <3>5 DEF Sound, Recent, book
    <3>. QED
      BY <3>2, <3>3, <3>5, <3>6, SessionMoves
  <2>. QED
    BY <1>4, <2>1, <2>2 DEF LookAtGrants
<1>5. CASE Abort(s)
  BY <1>5, LeaveMemory DEF Abort
<1>. QED
  BY <1>1, <1>2, <1>3, <1>4, <1>5

(***************************************************************************)
(* Readers.                                                                *)
(***************************************************************************)
(* Whoever changes the rights has the readers watch.                       *)
LEMMA WatchedStep ==
  ASSUME MemoryTypeOK, \A r \in Readers : Watching(r), reader' = Watched(grants', joined')
  PROVE  reader' \in [Readers -> {Idle} \cup Request] /\ \A r \in Readers : Watching(r)'
<1>1. SUFFICES ASSUME NEW r \in Readers PROVE reader'[r] \in {Idle} \cup Request /\ Watching(r)'
  BY DEF Watched
<1>. DEFINE j == joined'
            g == grants'
<1>2. Routes(g, j) \subseteq Grantees
  BY DEF Routes
<1>3. CASE reader[r].pc \in {"loaded", "ungranted"}
  <2>. DEFINE x == [reader[r] EXCEPT !.held = @ \cap Routes(g, j), !.ever = @ \cup Routes(g, j)]
  <2>1. reader[r] \in Request
    BY <1>3 DEF MemoryTypeOK, Idle
  <2>2. /\ x \in Request /\ x.pc = reader[r].pc
        /\ x.held = reader[r].held \cap Routes(g, j) /\ x.ever = reader[r].ever \cup Routes(g, j)
    <3>. HIDE DEF g, j
    <3>. QED
      BY <1>2, <2>1 DEF Request
  <2>3. reader'[r] = x
    BY <1>3 DEF Watched
  <2>. HIDE DEF x
  <2>4. Watching(r)'
    BY <1>3, <2>2, <2>3 DEF Watching
  <2>. QED
    BY <2>2, <2>3, <2>4
<1>4. CASE reader[r].pc \notin {"loaded", "ungranted"}
  <2>1. reader'[r] = reader[r]
    BY <1>4 DEF Watched
  <2>2. Watching(r)'
    BY <1>4, <2>1 DEF Watching
  <2>. QED
    BY <2>1, <2>2 DEF MemoryTypeOK
<1>. QED
  BY <1>3, <1>4

LEMMA TeamsStep ==
  ASSUME MemoryInv, NEW t \in Teams, CreateTeam(t) \/ AddMember(t) \/ RemoveMember(t)
  PROVE  MemoryInv'
<1>1. PICK c, j : TeamsChange(c, j) /\ c \subseteq Teams /\ j \subseteq c
  <2>1. created \subseteq Teams /\ joined \subseteq created
    BY DEF MemoryInv, MemoryTypeOK
  <2>2. CASE CreateTeam(t)
    <3>1. PICK with \in SUBSET {t} : TeamsChange(created \cup {t}, joined \cup with)
      BY <2>2 DEF CreateTeam
    <3>2. created \cup {t} \subseteq Teams /\ joined \cup with \subseteq created \cup {t}
      BY <2>1
    <3>. QED
      BY <3>1, <3>2
  <2>3. CASE AddMember(t)
    <3>1. joined \cup {t} \subseteq created /\ TeamsChange(created, joined \cup {t})
      BY <2>1, <2>3 DEF AddMember
    <3>. QED
      BY <2>1, <3>1
  <2>4. CASE RemoveMember(t)
    <3>1. joined \ {t} \subseteq created /\ TeamsChange(created, joined \ {t})
      BY <2>1, <2>4 DEF RemoveMember
    <3>. QED
      BY <2>1, <3>1
  <2>. QED
    BY <2>2, <2>3, <2>4
<1>2. UNCHANGED <<memory, grants, session, commits, writes, due, raced>> /\ reader' = Watched(grants', joined')
      /\ created' = c /\ joined' = j
  BY <1>1 DEF TeamsChange, book
<1>3. reader' \in [Readers -> {Idle} \cup Request] /\ \A r \in Readers : Watching(r)'
  BY <1>2, WatchedStep DEF MemoryInv
<1>4. MemoryTypeOK'
  BY <1>1, <1>2, <1>3 DEF MemoryInv, MemoryTypeOK
<1>5. Serial' /\ Counts'
  BY <1>2 DEF MemoryInv, Serial, Counts
<1>6. \A s \in Sessions : Sound(s)'
  BY <1>2 DEF MemoryInv, Sound, Recent
<1>. QED
  BY <1>3, <1>4, <1>5, <1>6 DEF MemoryInv

(* A step of a reader alone.                                               *)
LEMMA ReaderMoves ==
  ASSUME MemoryInv, NEW r \in Readers, NEW x \in {Idle} \cup Request, reader' = [reader EXCEPT ![r] = x],
         UNCHANGED <<memory, grants, teams, session, book>>, Watching(r)'
  PROVE  MemoryInv'
<1>1. UNCHANGED <<memory, grants, created, joined, session, commits, writes, due, raced>>
  BY DEF teams, book
<1>2. \A q \in Readers \ {r} : reader'[q] = reader[q]
  BY DEF MemoryInv, MemoryTypeOK
<1>3. MemoryTypeOK'
  BY <1>1 DEF MemoryInv, MemoryTypeOK
<1>4. Serial' /\ Counts'
  BY <1>1 DEF MemoryInv, Serial, Counts
<1>5. \A s \in Sessions : Sound(s)'
  BY <1>1 DEF MemoryInv, Sound, Recent
<1>6. \A q \in Readers \ {r} : Watching(q)'
  BY <1>1, <1>2 DEF MemoryInv, Watching, Routes
<1>. QED
  BY <1>3, <1>4, <1>5, <1>6 DEF MemoryInv

LEMMA ReaderStep ==
  ASSUME MemoryInv, NEW r \in Readers, ReadMemory(r) \/ CheckGrant(r) \/ CheckTeams(r) \/ Return(r)
  PROVE  MemoryInv'
<1>1. /\ reader \in [Readers -> {Idle} \cup Request] /\ Watching(r)
      /\ memory \in Memory \cup {NoMemory} /\ grants \in [Grantees -> Nat] /\ joined \subseteq Teams
  BY DEF MemoryInv, MemoryTypeOK
<1>2. UNCHANGED <<memory, grants, teams, session, book>> /\ UNCHANGED <<grants, joined>>
  BY DEF ReadMemory, CheckGrant, CheckTeams, Return, teams
<1>. DEFINE now == Routes(grants, joined)
<1>3. CASE ReadMemory(r)
  <2>. DEFINE x == [pc |-> "loaded", expires |-> memory.expires, held |-> now, ever |-> now]
  <2>1. reader' = [reader EXCEPT ![r] = x] /\ x \in Request
    BY <1>1, <1>3 DEF ReadMemory, Request, Routes, Memory
  <2>2. reader'[r] = x
    BY <1>1, <2>1
  <2>3. Watching(r)'
    BY <1>2, <2>2 DEF Watching
  <2>. QED
    BY <1>2, <2>1, <2>3, ReaderMoves
<1>4. CASE Return(r)
  <2>1. reader'[r] = Idle /\ reader' = [reader EXCEPT ![r] = Idle]
    BY <1>1, <1>4 DEF Return
  <2>2. Watching(r)'
    BY <2>1 DEF Watching, Idle
  <2>. QED
    BY <1>2, <2>1, <2>2, ReaderMoves
<1>5. ASSUME NEW pc \in {"data", "none", "error", "ungranted"}, reader' = [reader EXCEPT ![r].pc = pc],
             reader[r].pc \in {"loaded", "ungranted"},
             pc = "ungranted" => Agent \notin now,
             pc = "data" => now # {},
             pc = "none" => reader[r].held = {} \/ reader[r].expires = "past",
             pc = "error" => \A E \in SUBSET Grantees : now \subseteq E => Cardinality(E \cap Teams) >= 2
      PROVE  MemoryInv'
  <2>. DEFINE x == [reader[r] EXCEPT !.pc = pc]
  <2>1. reader[r] \in Request
    BY <1>1, <1>5 DEF Idle
  <2>2. /\ x \in Request /\ x.pc = pc /\ x.expires = reader[r].expires
        /\ x.held = reader[r].held /\ x.ever = reader[r].ever /\ x.ever \in SUBSET Grantees
    BY <2>1 DEF Request
  <2>3. reader' = [reader EXCEPT ![r] = x] /\ reader'[r] = x
    BY <1>1, <1>5
  <2>. HIDE DEF x
  <2>4. Watching(r)'
    BY <1>1, <1>2, <1>5, <2>2, <2>3 DEF Watching
  <2>. QED
    BY <1>2, <2>2, <2>3, <2>4, ReaderMoves
<1>6. CASE CheckGrant(r)
  <2>1. Direct(grants) <=> Agent \in now
    BY DEF Direct, Routes, Grantees
  <2>2. reader[r].pc = "loaded"
    BY <1>6 DEF CheckGrant
  <2>3. CASE Direct(grants)
    <3>1. reader' = [reader EXCEPT ![r].pc = Answer(r)]
      BY <1>6, <2>3 DEF CheckGrant
    <3>. QED
      BY <1>5, <2>1, <2>2, <2>3, <3>1 DEF Answer
  <2>4. CASE ~Direct(grants)
    <3>1. reader' = [reader EXCEPT ![r].pc = "ungranted"]
      BY <1>6, <2>4 DEF CheckGrant
    <3>. QED
      BY <1>5, <2>1, <2>2, <2>4, <3>1
  <2>. QED
    BY <2>3, <2>4
<1>7. CASE CheckTeams(r)
  <2>. DEFINE ways == Cardinality(ByTeam(grants, joined))
  <2>1. ByTeam(grants, joined) = now \cap Teams
    BY MemoryAssumption DEF ByTeam, Routes, Grantees
  <2>2. IsFiniteSet(ByTeam(grants, joined)) /\ ways \in Nat
    BY MemoryAssumption, FS_Subset, FS_CardinalityType DEF ByTeam
  <2>3. reader[r].pc = "ungranted" /\ reader[r].held \subseteq now /\ Agent \notin reader[r].held
    BY <1>1, <1>7 DEF CheckTeams, Watching
  <2>4. CASE ways = 0
    <3>1. ByTeam(grants, joined) = {}
      BY <2>2, <2>4, FS_EmptySet
    <3>2. reader[r].held = {}
      BY <2>1, <2>3, <3>1 DEF Routes, Grantees
    <3>3. reader' = [reader EXCEPT ![r].pc = "none"]
      BY <1>7, <2>4 DEF CheckTeams
    <3>. QED
      BY <1>5, <2>3, <3>2, <3>3
  <2>5. CASE ways = 1
    <3>1. now # {}
      BY <2>1, <2>5, FS_EmptySet
    <3>2. reader' = [reader EXCEPT ![r].pc = Answer(r)]
      BY <1>7, <2>5 DEF CheckTeams
    <3>. QED
      BY <1>5, <2>3, <3>1, <3>2 DEF Answer
  <2>6. CASE ways # 0 /\ ways # 1
    <3>1. ASSUME NEW E \in SUBSET Grantees, now \subseteq E PROVE Cardinality(E \cap Teams) >= 2
      <4>1. ByTeam(grants, joined) \subseteq E \cap Teams
        BY <2>1, <3>1
      <4>2. IsFiniteSet(E \cap Teams)
        BY MemoryAssumption, FS_Subset
      <4>3. Cardinality(E \cap Teams) >= ways /\ Cardinality(E \cap Teams) \in Nat
        BY <4>1, <4>2, FS_Subset, FS_CardinalityType
      <4>. HIDE DEF ways
      <4>. QED
        BY <2>2, <2>6, <4>3
    <3>2. reader' = [reader EXCEPT ![r].pc = "error"]
      BY <1>7, <2>6 DEF CheckTeams
    <3>. QED
      BY <1>5, <2>3, <3>1, <3>2
  <2>. QED
    BY <2>4, <2>5, <2>6
<1>. QED
  BY <1>3, <1>4, <1>6, <1>7

LEMMA ExpireStep == ASSUME MemoryInv, Expire PROVE MemoryInv'
<1>1. /\ memory # NoMemory /\ memory \in Memory /\ memory' = [memory EXCEPT !.expires = "past"]
      /\ UNCHANGED <<grants, created, joined, session, commits, writes, due, raced>>
  BY DEF Expire, MemoryInv, MemoryTypeOK, teams, book
<1>2. memory' \in Memory /\ memory'.id = memory.id /\ memory'.version = memory.version /\ memory' # NoMemory
  BY <1>1, NoMemoryAssumption DEF Memory, Expiry
<1>3. ASSUME NEW r \in Readers PROVE reader'[r] \in {Idle} \cup Request /\ Watching(r)'
  <2>1. CASE reader[r].pc \in {"loaded", "ungranted"} /\ reader[r].expires = "later"
    <3>1. reader[r] \in Request
      BY <2>1 DEF MemoryInv, MemoryTypeOK, Idle
    <3>2. reader'[r] = [reader[r] EXCEPT !.expires = "past"]
      BY <2>1 DEF Expire
    <3>3. reader'[r] \in Request /\ reader'[r].pc = reader[r].pc
          /\ reader'[r].held = reader[r].held /\ reader'[r].ever = reader[r].ever
      BY <3>1, <3>2 DEF Request, Expiry
    <3>. QED
      BY <1>1, <2>1, <3>3 DEF MemoryInv, Watching
  <2>2. CASE ~(reader[r].pc \in {"loaded", "ungranted"} /\ reader[r].expires = "later")
    <3>1. reader'[r] = reader[r]
      BY <2>2 DEF Expire
    <3>. QED
      BY <1>1, <3>1 DEF MemoryInv, MemoryTypeOK, Watching
  <2>. QED
    BY <2>1, <2>2
<1>4. MemoryTypeOK'
  <2>1. reader' \in [Readers -> {Idle} \cup Request]
    BY <1>3 DEF Expire
  <2>. QED
    BY <1>1, <1>2, <2>1 DEF MemoryInv, MemoryTypeOK
<1>5. Serial' /\ Counts'
  BY <1>1, <1>2 DEF MemoryInv, Serial, Counts
<1>6. \A s \in Sessions : Sound(s)'
  BY <1>1, <1>2 DEF MemoryInv, Sound, Recent
<1>. QED
  BY <1>3, <1>4, <1>5, <1>6 DEF MemoryInv

(***************************************************************************)
(* The commit of a session.                                                *)
(***************************************************************************)
(* What a session leaves of the grants, if nothing was committed since it  *)
(* loaded the row.                                                         *)
LEMMA GrantsDue ==
  ASSUME MemoryInv, NEW s \in Sessions, session[s].pc = "checked", ~raced, session[s].at = commits,
         grants' = [g \in Grantees |-> IF session[s].op = "delete" THEN 0
                                       ELSE IF g \in Added(s) THEN commits + 1 ELSE Remaining(s)[g]]
  PROVE  {g \in Grantees : grants'[g] # 0} = DueAfter(s)
<1>. DEFINE op    == session[s].op
            asked == session[s].asked
<1>1. /\ session[s] \in Working /\ commits \in Nat /\ grants \in [Grantees -> Nat]
      /\ session[s].found = grants /\ (session[s].row = NoMemory <=> memory = NoMemory)
      /\ op = "update" => asked = {} /\ session[s].row # NoMemory
  BY DEF MemoryInv, MemoryTypeOK, Idle, Sound, Recent
<1>2. op \in {"write", "replace", "update", "delete"} /\ asked \subseteq Grantees
  BY <1>1 DEF Working
<1>3. {g \in Grantees : grants[g] # 0} = due /\ (memory = NoMemory => grants = NoGrants)
  BY DEF MemoryInv, Serial, Counts
<1>4. CASE op = "delete"
  BY <1>4 DEF DueAfter
<1>5. CASE op = "replace"
  <2>1. \A g \in Grantees : grants'[g] # 0 <=> g \in asked
    BY <1>1, <1>5 DEF Added, Remaining
  <2>. QED
    BY <1>2, <1>5, <2>1 DEF DueAfter
<1>6. CASE op = "update"
  <2>1. \A g \in Grantees : grants'[g] = grants[g]
    BY <1>1, <1>6 DEF Added, Remaining
  <2>. QED
    BY <1>1, <1>3, <1>6, <2>1 DEF DueAfter
<1>7. CASE op = "write"
  <2>1. \A g \in Grantees : grants'[g] # 0 <=> g \in asked \/ grants[g] # 0
    BY <1>1, <1>7 DEF Added, Remaining
  <2>2. memory = NoMemory => \A g \in Grantees : grants[g] = 0
    BY <1>3 DEF NoGrants
  <2>3. DueAfter(s) = asked \cup (IF memory = NoMemory THEN {} ELSE due)
    BY <1>1, <1>7 DEF DueAfter
  <2>. HIDE DEF asked
  <2>. QED
    BY <1>2, <1>3, <2>1, <2>2, <2>3
<1>. QED
  BY <1>2, <1>4, <1>5, <1>6, <1>7

(* The row a session writes.                                               *)
LEMMA RowWritten ==
  ASSUME MemoryInv, NEW s \in Sessions, session[s].pc = "checked", SameRow(s), session[s].op # "delete"
  PROVE  /\ RowAfter(s) \in Memory /\ RowAfter(s) # NoMemory
         /\ memory = NoMemory => RowAfter(s).id = commits + 1 /\ RowAfter(s).version = 1
         /\ memory # NoMemory => RowAfter(s).id = memory.id /\ RowAfter(s).version <= writes + 1
         /\ memory # NoMemory /\ session[s].at = commits => RowAfter(s).version = memory.version + 1
         /\ RowAfter(s).id \in Nat /\ RowAfter(s).version \in Nat
<1>1. /\ session[s] \in Working /\ Sound(s) /\ commits \in Nat /\ writes \in Nat
      /\ memory \in Memory \cup {NoMemory}
  BY DEF MemoryInv, MemoryTypeOK, Idle
<1>2. session[s].row \in Memory \cup {NoMemory} /\ session[s].ttl \in BOOLEAN
  BY <1>1 DEF Working
<1>3. CASE session[s].row = NoMemory
  <2>1. memory = NoMemory
    BY <1>3 DEF SameRow
  <2>2. RowAfter(s) = [id |-> commits + 1, version |-> 1, expires |-> IF session[s].ttl THEN "later" ELSE "never"]
    BY <1>3 DEF RowAfter
  <2>3. /\ RowAfter(s) \in Memory /\ RowAfter(s).id = commits + 1 /\ RowAfter(s).version = 1
    BY <1>1, <2>2 DEF Memory, Expiry
  <2>. QED
    BY <1>1, <2>1, <2>3, NoMemoryAssumption
<1>4. CASE session[s].row # NoMemory
  <2>1. memory # NoMemory /\ memory \in Memory /\ session[s].row \in Memory /\ session[s].row.id = memory.id
    BY <1>1, <1>2, <1>4 DEF SameRow
  <2>. DEFINE n == session[s].row.version + 1
              e == IF session[s].ttl THEN "later" ELSE memory.expires
  <2>2. RowAfter(s) = [memory EXCEPT !.version = n, !.expires = e] /\ n \in Nat /\ e \in Expiry
    BY <1>4, <2>1 DEF RowAfter, Memory, Expiry
  <2>. HIDE DEF n, e
  <2>3. /\ RowAfter(s) \in Memory /\ RowAfter(s).id = memory.id
        /\ RowAfter(s).version = n
    BY <2>1, <2>2 DEF Memory
  <2>4. session[s].row.version <= writes /\ session[s].row.version \in Nat /\ memory.id \in Nat
    BY <1>1, <1>4, <2>1 DEF Sound, Memory
  <2>5. session[s].at = commits => session[s].row.version = memory.version
    BY <1>1, <1>4 DEF Sound, Recent
  <2>. QED
    BY <1>1, <2>1, <2>3, <2>4, <2>5, NoMemoryAssumption DEF n
<1>. QED
  BY <1>3, <1>4

LEMMA CommitMemory == ASSUME MemoryInv, NEW s \in Sessions, Commit(s) PROVE MemoryInv'
<1>. DEFINE Refused == ~SameRow(s) \/ (session[s].op # "delete" /\ \E g \in Added(s) : Remaining(s)[g] # 0)
<1>1. /\ session[s].pc = "checked" /\ session' = [session EXCEPT ![s] = Idle]
      /\ UNCHANGED <<created, joined>> /\ session[s] \in Working /\ Sound(s)
  BY DEF Commit, teams, MemoryInv, MemoryTypeOK, Idle
<1>2. CASE Refused
  <2>1. UNCHANGED <<memory, grants, teams, reader, book>>
    BY <1>2 DEF Commit
  <2>. QED
    BY <1>1, <2>1, LeaveMemory
<1>3. CASE ~Refused
  <2>1. /\ memory' = IF session[s].op = "delete" THEN NoMemory ELSE RowAfter(s)
        /\ grants' = [g \in Grantees |-> IF session[s].op = "delete" THEN 0
                                         ELSE IF g \in Added(s) THEN commits + 1 ELSE Remaining(s)[g]]
        /\ reader' = Watched(grants', joined)
        /\ commits' = commits + 1
        /\ writes' = IF session[s].op = "delete" THEN 0 ELSE writes + 1
        /\ due' = DueAfter(s)
        /\ raced' = (raced \/ session[s].at # commits)
    BY <1>3 DEF Commit
  <2>2. /\ commits \in Nat /\ writes \in Nat /\ grants \in [Grantees -> Nat] /\ raced \in BOOLEAN
        /\ due \subseteq Grantees /\ session \in [Sessions -> {Idle} \cup Working] /\ Counts /\ Serial
        /\ memory \in Memory \cup {NoMemory} /\ created \subseteq Teams /\ joined \subseteq created
    BY DEF MemoryInv, MemoryTypeOK
  <2>3. SameRow(s)
    BY <1>3
  <2>. HIDE DEF Refused
  <2>4. session[s].op # "delete" =>
          /\ memory' \in Memory /\ memory' # NoMemory /\ memory'.id \in Nat /\ memory'.version \in Nat
          /\ memory = NoMemory => memory'.id = commits + 1 /\ memory'.version = 1
          /\ memory # NoMemory => memory'.id = memory.id /\ memory'.version <= writes + 1
          /\ memory # NoMemory /\ session[s].at = commits => memory'.version = memory.version + 1
    BY <1>1, <2>1, <2>3, RowWritten
  <2>5. reader' \in [Readers -> {Idle} \cup Request] /\ \A r \in Readers : Watching(r)'
    <3>1. reader' = Watched(grants', joined')
      BY <1>1, <2>1
    <3>. QED
      BY <3>1, WatchedStep DEF MemoryInv
  <2>6. grants' \in [Grantees -> Nat]
    BY <2>1, <2>2 DEF Remaining
  <2>7. due' \subseteq Grantees
    BY <1>1, <2>1, <2>2 DEF DueAfter, Working
  <2>8. MemoryTypeOK'
    <3>1. memory' \in Memory \cup {NoMemory} /\ commits' \in Nat /\ writes' \in Nat
      BY <2>1, <2>2, <2>4
    <3>2. session' \in [Sessions -> {Idle} \cup Working]
      BY <1>1, <2>2
    <3>. QED
      BY <1>1, <2>1, <2>2, <2>5, <2>6, <2>7, <3>1, <3>2 DEF MemoryTypeOK
  <2>9. Serial'
    <3>1. SUFFICES ASSUME ~raced, session[s].at = commits
                   PROVE  /\ memory' # NoMemory => memory'.version = writes'
                          /\ {g \in Grantees : grants'[g] # 0} = due'
      BY <2>1 DEF Serial
    <3>2. memory' # NoMemory => memory'.version = writes'
      <4>1. memory # NoMemory => memory.version = writes
        BY <2>2, <3>1 DEF Serial
      <4>2. memory = NoMemory => writes = 0
        BY <2>2 DEF Counts
      <4>. QED
        BY <2>1, <2>2, <2>4, <3>1, <4>1, <4>2
    <3>. QED
      BY <1>1, <2>1, <3>1, <3>2, GrantsDue
  <2>10. Counts'
    <3>1. CASE session[s].op = "delete"
      <4>1. grants' = [g \in Grantees |-> 0] /\ memory' = NoMemory /\ writes' = 0
        BY <2>1, <3>1
      <4>. QED
        BY <4>1 DEF Counts, NoGrants
    <3>2. CASE session[s].op # "delete"
      <4>1. memory = NoMemory => writes = 0
        BY <2>2 DEF Counts
      <4>2. memory # NoMemory => memory.id <= commits /\ memory.id \in Nat
        BY <2>2 DEF Counts, Memory
      <4>. QED
        BY <2>1, <2>2, <2>4, <3>2, <4>1, <4>2 DEF Counts
    <3>. QED
      BY <3>1, <3>2
  <2>11. ASSUME NEW t \in Sessions PROVE Sound(t)'
    <3>1. CASE t = s
      BY <1>1, <2>2, <3>1 DEF Sound, Idle
    <3>2. CASE t # s
      <4>1. session'[t] = session[t] /\ Sound(t)
        BY <1>1, <2>2, <3>2 DEF MemoryInv
      <4>2. SUFFICES ASSUME session[t].pc # "idle" PROVE Sound(t)'
        BY <4>1 DEF Sound
      <4>3. session[t] \in Working /\ session[t].at \in Nat /\ session[t].row \in Memory \cup {NoMemory}
        BY <2>2, <4>2 DEF Idle, Working
      <4>4. session[t].at <= commits' /\ session[t].at # commits'
        BY <2>1, <2>2, <4>1, <4>2, <4>3 DEF Sound
      <4>5. ASSUME session[t].row # NoMemory
            PROVE  /\ session[t].row.id <= commits'
                   /\ memory' # NoMemory /\ session[t].row.id = memory'.id => session[t].row.version <= writes'
        <5>1. session[t].row.id \in Nat /\ session[t].row.version \in Nat /\ session[t].row.id <= commits
          BY <4>1, <4>2, <4>3, <4>5 DEF Memory, Sound
        <5>2. ASSUME memory' # NoMemory, session[t].row.id = memory'.id PROVE session[t].row.version <= writes'
          <6>1. session[s].op # "delete" /\ writes' = writes + 1
            BY <2>1, <5>2
          <6>2. memory # NoMemory /\ memory'.id = memory.id
            BY <2>2, <2>4, <5>1, <5>2, <6>1
          <6>3. session[t].row.version <= writes
            BY <4>1, <4>2, <4>5, <5>2, <6>2 DEF Sound
          <6>. QED
            BY <2>2, <5>1, <6>1, <6>3
        <5>. QED
          BY <2>1, <2>2, <5>1, <5>2
      <4>. QED
        BY <4>1, <4>2, <4>4, <4>5 DEF Sound, Recent
    <3>. QED
      BY <3>1, <3>2
  <2>. QED
    BY <2>5, <2>8, <2>9, <2>10, <2>11 DEF MemoryInv
<1>. QED
  BY <1>2, <1>3

LEMMA MemoryNextInv == MemoryInv /\ [MemoryNext]_memoryVars => MemoryInv'
<1>. SUFFICES ASSUME MemoryInv, [MemoryNext]_memoryVars PROVE MemoryInv'
  OBVIOUS
<1>1. CASE UNCHANGED memoryVars
  <2>1. UNCHANGED <<memory, grants, created, joined, session, reader, commits, writes, due, raced>>
    BY <1>1 DEF memoryVars, teams, book
  <2>2. MemoryTypeOK' /\ Serial' /\ Counts'
    BY <2>1 DEF MemoryInv, MemoryTypeOK, Serial, Counts
  <2>3. \A s \in Sessions : Sound(s)'
    BY <2>1 DEF MemoryInv, Sound, Recent
  <2>4. \A r \in Readers : Watching(r)'
    BY <2>1 DEF MemoryInv, Watching, Routes
  <2>. QED
    BY <2>2, <2>3, <2>4 DEF MemoryInv
<1>. QED
  BY <1>1, OwnerStep, CommitMemory, TeamsStep, ReaderStep, ExpireStep DEF MemoryNext

THEOREM MemoryInvariance == MemorySpec => []MemoryInv
  BY MemoryInitInv, MemoryNextInv, PTL DEF MemorySpec

(* Versions count the writes and grants are those asked for, unless a      *)
(* session has committed upon a row that was no longer the one it loaded.  *)
THEOREM VersionsCount == MemorySpec => []WritesCount
<1>1. MemoryInv => WritesCount
  BY DEF MemoryInv, Serial, Counts, WritesCount
<1>. QED
  BY <1>1, MemoryInvariance, PTL

(* A read of three statements gives data only by a right the agent had     *)
(* while it went on, and none only if no right lasted, whatever the owner, *)
(* the teams and the clock do in between.                                  *)
THEOREM ReadsAreJustified == MemorySpec => []AnswersAgree
<1>1. MemoryInv => AnswersAgree
  BY DEF MemoryInv, Watching, AnswersAgree
<1>. QED
  BY <1>1, MemoryInvariance, PTL

--------------------------------------------------------------------------------
(***************************************************************************)
(* PrivacyProofs: arithmetic modulo a number.                              *)
(***************************************************************************)
LEMMA DivMod ==
  ASSUME NEW x \in Int, NEW m \in Nat, m > 0
  PROVE  \E q \in Int : x = q * m + (x % m) /\ x % m \in 0 .. m - 1
<1>1. x = (x \div m) * m + (x % m)
  OBVIOUS
<1>2. x % m \in 0 .. m - 1 /\ x \div m \in Int
  OBVIOUS
<1>. QED
  BY <1>1, <1>2

LEMMA ModUnique ==
  ASSUME NEW x \in Int, NEW m \in Nat, m > 0, NEW k \in Int, NEW y \in 0 .. m - 1, x = k * m + y
  PROVE  x % m = y
<1>1. PICK q \in Int : x = q * m + (x % m) /\ x % m \in 0 .. m - 1
  BY DivMod
<1>2. (q - k) * m = y - (x % m)
  BY <1>1
<1>3. q - k = 0
  <2>1. CASE q - k >= 1
    <3>1. (q - k) * m >= m
      BY <2>1
    <3>. QED
      BY <1>1, <1>2, <3>1
  <2>2. CASE q - k <= -1
    <3>1. (q - k) * m <= -m
      BY <2>2
    <3>. QED
      BY <1>1, <1>2, <3>1
  <2>. QED
    BY <1>1, <2>1, <2>2
<1>. QED
  BY <1>1, <1>2, <1>3

LEMMA ModShift ==
  ASSUME NEW x \in Int, NEW m \in Nat, m > 0, NEW k \in Int
  PROVE  (k * m + x) % m = x % m
<1>1. PICK q \in Int, y \in 0 .. m - 1 : x = q * m + y /\ x % m = y
  BY DivMod
<1>2. k * m + x = (k + q) * m + y /\ k * m + x \in Int /\ k + q \in Int
  BY <1>1
<1>. QED
  BY <1>1, <1>2, ModUnique

LEMMA ModSmall ==
  ASSUME NEW m \in Nat, m > 0, NEW y \in 0 .. m - 1
  PROVE  y % m = y
<1>1. y = 0 * m + y
  OBVIOUS
<1>. QED
  BY <1>1, ModUnique

(* A factor may be reduced first.                                          *)
LEMMA ModLeft ==
  ASSUME NEW x \in Int, NEW y \in Int, NEW m \in Nat, m > 0
  PROVE  ((x % m) * y) % m = (x * y) % m
<1>1. PICK q \in Int, r \in Int : x = q * m + r /\ x % m = r
  BY DivMod
<1>2. x * y = (q * y) * m + r * y
  BY <1>1
<1>3. ((q * y) * m + r * y) % m = (r * y) % m
  <2>. DEFINE k == q * y
              z == r * y
  <2>1. k \in Int /\ z \in Int
    OBVIOUS
  <2>. HIDE DEF k, z
  <2>2. (k * m + z) % m = z % m
    BY <2>1, ModShift
  <2>. QED
    BY <2>2 DEF k, z
<1>. QED
  BY <1>1, <1>2, <1>3

(* The product modulo P.                                                   *)
Times(x, y) == (x * y) % P

LEMMA GroupSize == P \in Nat /\ P > 2 /\ Q \in Nat /\ Q > 1 /\ P > 0
<1>1. P \in Nat /\ Q > 1
  BY GroupAssumption
<1>2. Q \in Int /\ Q = (P - 1) \div 2
  BY <1>1 DEF Q
<1>. QED
  BY <1>1, <1>2

LEMMA TimesType == ASSUME NEW x \in Int, NEW y \in Int PROVE Times(x, y) \in 0 .. P - 1
<1>1. x * y \in Int
  OBVIOUS
<1>. QED
  BY <1>1, GroupSize, DivMod DEF Times

LEMMA TimesComm == ASSUME NEW x \in Int, NEW y \in Int PROVE Times(x, y) = Times(y, x)
<1>1. x * y = y * x
  OBVIOUS
<1>. QED
  BY <1>1 DEF Times

LEMMA TimesAssoc ==
  ASSUME NEW x \in Int, NEW y \in Int, NEW z \in Int
  PROVE  Times(Times(x, y), z) = Times(x, Times(y, z))
<1>1. ((x * y) % P) * z \in Int /\ x * y \in Int /\ y * z \in Int /\ (y * z) % P \in Int
  BY GroupSize, DivMod
<1>2. (((x * y) % P) * z) % P = ((x * y) * z) % P
  BY <1>1, GroupSize, ModLeft
<1>3. (((y * z) % P) * x) % P = ((y * z) * x) % P
  BY <1>1, GroupSize, ModLeft
<1>4. (x * y) * z = (y * z) * x /\ x * ((y * z) % P) = ((y * z) % P) * x
  BY <1>1
<1>. QED
  BY <1>2, <1>3, <1>4 DEF Times

LEMMA TimesOne == ASSUME NEW x \in 0 .. P - 1 PROVE Times(1, x) = x /\ Times(x, 1) = x
<1>1. 1 * x = x /\ x * 1 = x
  OBVIOUS
<1>. QED
  BY <1>1, GroupSize, ModSmall DEF Times

(* (wx)(yz) = (wy)(xz)                                                     *)
LEMMA TimesSwap ==
  ASSUME NEW w \in Int, NEW x \in Int, NEW y \in Int, NEW z \in Int
  PROVE  Times(Times(w, x), Times(y, z)) = Times(Times(w, y), Times(x, z))
<1>1. \A a, b \in Int : Times(a, b) \in Int
  BY TimesType, GroupSize
<1>2. Times(Times(w, x), Times(y, z)) = Times(w, Times(x, Times(y, z)))
  BY <1>1, TimesAssoc
<1>3. Times(x, Times(y, z)) = Times(Times(x, y), z)
  BY TimesAssoc
<1>4. Times(Times(x, y), z) = Times(Times(y, x), z)
  BY TimesComm
<1>5. Times(Times(y, x), z) = Times(y, Times(x, z))
  BY TimesAssoc
<1>6. Times(w, Times(y, Times(x, z))) = Times(Times(w, y), Times(x, z))
  BY <1>1, TimesAssoc
<1>. QED
  BY <1>2, <1>3, <1>4, <1>5, <1>6

(***************************************************************************)
(* Powers.                                                                 *)
(***************************************************************************)
(* f is the powers of b up to the m-th.                                    *)
PowersOf(b, f, m) == f = [n \in 0 .. m |-> IF n = 0 THEN 1 ELSE Times(b, f[n - 1])]

LEMMA PowersExist == ASSUME NEW b, NEW e \in Nat PROVE \E f : PowersOf(b, f, e)
<1>. DEFINE T == {m \in Nat : \E f : PowersOf(b, f, m)}
<1>1. 0 \in T
  <2>. DEFINE f == [n \in 0 .. 0 |-> 1]
  <2>1. PowersOf(b, f, 0)
    BY DEF PowersOf
  <2>. QED
    BY <2>1
<1>2. ASSUME NEW m \in Nat, m \in T PROVE m + 1 \in T
  <2>1. PICK f : PowersOf(b, f, m)
    BY <1>2
  <2>. DEFINE g == [n \in 0 .. m + 1 |-> IF n <= m THEN f[n] ELSE Times(b, f[m])]
  <2>2. \A n \in 0 .. m : g[n] = f[n] /\ f[n] = IF n = 0 THEN 1 ELSE Times(b, f[n - 1])
    BY <2>1 DEF PowersOf
  <2>3. \A n \in 0 .. m + 1 : g[n] = IF n = 0 THEN 1 ELSE Times(b, g[n - 1])
    <3>1. TAKE n \in 0 .. m + 1
    <3>2. CASE n = 0
      <4>1. 0 \in 0 .. m
        OBVIOUS
      <4>. HIDE DEF g
      <4>. QED
        BY <2>2, <3>2, <4>1
    <3>3. CASE n \in 1 .. m
      <4>1. n \in 0 .. m /\ n - 1 \in 0 .. m /\ n # 0
        BY <3>3
      <4>. HIDE DEF g
      <4>. QED
        BY <2>2, <4>1
    <3>4. CASE n = m + 1
      <4>1. g[m + 1] = Times(b, f[m]) /\ m + 1 # 0 /\ g[m] = f[m] /\ (m + 1) - 1 = m
        OBVIOUS
      <4>. HIDE DEF g
      <4>. QED
        BY <4>1, <3>4
    <3>. QED
      BY <3>2, <3>3, <3>4
  <2>4. g = [n \in 0 .. m + 1 |-> g[n]]
    OBVIOUS
  <2>. HIDE DEF g
  <2>5. PowersOf(b, g, m + 1)
    BY <2>3, <2>4 DEF PowersOf
  <2>. QED
    BY <2>5
<1>. HIDE DEF T
<1>3. e \in T
  BY <1>1, <1>2, Induct
<1>. QED
  BY <1>3 DEF T

(* Two lists of powers agree as far as both go.                            *)
LEMMA PowersAgree ==
  ASSUME NEW b, NEW k \in Nat, NEW m \in Nat, NEW f, NEW g, PowersOf(b, f, k), PowersOf(b, g, m),
         NEW e \in Nat, e <= k, e <= m
  PROVE  f[e] = g[e]
<1>. DEFINE T == {n \in Nat : n <= k /\ n <= m => f[n] = g[n]}
<1>1. /\ \A n \in 0 .. k : f[n] = IF n = 0 THEN 1 ELSE Times(b, f[n - 1])
      /\ \A n \in 0 .. m : g[n] = IF n = 0 THEN 1 ELSE Times(b, g[n - 1])
  BY DEF PowersOf
<1>2. 0 \in T
  BY <1>1
<1>3. ASSUME NEW n \in Nat, n \in T PROVE n + 1 \in T
  <2>1. SUFFICES ASSUME n + 1 <= k, n + 1 <= m PROVE f[n + 1] = g[n + 1]
    OBVIOUS
  <2>2. n + 1 \in 0 .. k /\ n + 1 \in 0 .. m /\ n + 1 # 0 /\ (n + 1) - 1 = n /\ f[n] = g[n]
    BY <1>3, <2>1
  <2>. QED
    BY <1>1, <2>2
<1>. HIDE DEF T
<1>4. e \in T
  BY <1>2, <1>3, Induct
<1>. QED
  BY <1>4 DEF T

LEMMA PowerIs ==
  ASSUME NEW b, NEW e \in Nat
  PROVE  \E f : PowersOf(b, f, e) /\ Power(b, e) = f[e]
<1>1. Power(b, e) = (CHOOSE f : PowersOf(b, f, e))[e]
  BY DEF Power, PowersOf, Times
<1>. QED
  BY <1>1, PowersExist

LEMMA PowerZero == ASSUME NEW b PROVE Power(b, 0) = 1
<1>1. PICK f : PowersOf(b, f, 0) /\ Power(b, 0) = f[0]
  BY PowerIs
<1>. QED
  BY <1>1 DEF PowersOf

LEMMA PowerNext ==
  ASSUME NEW b, NEW e \in Nat
  PROVE  Power(b, e + 1) = Times(b, Power(b, e))
<1>1. PICK f : PowersOf(b, f, e) /\ Power(b, e) = f[e]
  BY PowerIs
<1>2. e + 1 \in Nat /\ (e + 1) - 1 = e /\ e + 1 # 0 /\ e <= e + 1 /\ e + 1 \in 0 .. e + 1
  OBVIOUS
<1>3. PICK g : PowersOf(b, g, e + 1) /\ Power(b, e + 1) = g[e + 1]
  BY <1>2, PowerIs
<1>4. g[e + 1] = Times(b, g[e])
  BY <1>2, <1>3 DEF PowersOf
<1>5. f[e] = g[e]
  BY <1>1, <1>2, <1>3, PowersAgree
<1>. QED
  BY <1>1, <1>3, <1>4, <1>5

LEMMA PowerType == ASSUME NEW b \in Int, NEW e \in Nat PROVE Power(b, e) \in 0 .. P - 1
<1>. DEFINE T == {n \in Nat : Power(b, n) \in 0 .. P - 1}
<1>1. 0 \in T
  BY PowerZero, GroupSize
<1>2. ASSUME NEW n \in Nat, n \in T PROVE n + 1 \in T
  <2>1. Power(b, n) \in Int
    BY <1>2, GroupSize
  <2>. QED
    BY <1>2, <2>1, PowerNext, TimesType
<1>. HIDE DEF T
<1>3. e \in T
  BY <1>1, <1>2, Induct
<1>. QED
  BY <1>3 DEF T

LEMMA PowerInt == ASSUME NEW b \in Int, NEW e \in Nat PROVE Power(b, e) \in Int
  BY PowerType, GroupSize

LEMMA PowerSum ==
  ASSUME NEW b \in Int, NEW m \in Nat, NEW e \in Nat
  PROVE  Power(b, e + m) = Times(Power(b, e), Power(b, m))
<1>. DEFINE T == {n \in Nat : Power(b, n + m) = Times(Power(b, n), Power(b, m))}
<1>1. 0 \in T
  BY PowerZero, PowerType, TimesOne
<1>2. ASSUME NEW n \in Nat, n \in T PROVE n + 1 \in T
  <2>1. n + m \in Nat /\ (n + 1) + m = (n + m) + 1
    OBVIOUS
  <2>2. Power(b, (n + m) + 1) = Times(b, Power(b, n + m))
    BY <2>1, PowerNext
  <2>3. Power(b, n + m) = Times(Power(b, n), Power(b, m))
    BY <1>2
  <2>4. Times(b, Times(Power(b, n), Power(b, m))) = Times(Times(b, Power(b, n)), Power(b, m))
    BY PowerInt, TimesAssoc
  <2>5. Times(b, Power(b, n)) = Power(b, n + 1)
    BY PowerNext
  <2>. QED
    BY <2>1, <2>2, <2>3, <2>4, <2>5
<1>. HIDE DEF T
<1>3. e \in T
  BY <1>1, <1>2, Induct
<1>. QED
  BY <1>3 DEF T

LEMMA PowerPower ==
  ASSUME NEW b \in Int, NEW m \in Nat, NEW e \in Nat
  PROVE  Power(b, e * m) = Power(Power(b, m), e)
<1>. DEFINE T == {n \in Nat : Power(b, n * m) = Power(Power(b, m), n)}
<1>1. 0 \in T
  BY PowerZero
<1>2. ASSUME NEW n \in Nat, n \in T PROVE n + 1 \in T
  <2>1. n * m \in Nat /\ (n + 1) * m = m + n * m
    OBVIOUS
  <2>2. Power(b, m + n * m) = Times(Power(b, m), Power(b, n * m))
    BY <2>1, PowerSum
  <2>3. Power(Power(b, m), n + 1) = Times(Power(b, m), Power(Power(b, m), n))
    BY PowerNext
  <2>. QED
    BY <1>2, <2>1, <2>2, <2>3
<1>. HIDE DEF T
<1>3. e \in T
  BY <1>1, <1>2, Induct
<1>. QED
  BY <1>3 DEF T

LEMMA PowerTimes ==
  ASSUME NEW a \in Int, NEW b \in Int, NEW e \in Nat
  PROVE  Power(Times(a, b), e) = Times(Power(a, e), Power(b, e))
<1>. DEFINE T == {n \in Nat : Power(Times(a, b), n) = Times(Power(a, n), Power(b, n))}
<1>1. 0 \in T
  <2>1. 1 \in 0 .. P - 1
    BY GroupSize
  <2>2. Times(1, 1) = 1
    BY <2>1, TimesOne
  <2>. QED
    BY <2>2, PowerZero
<1>2. ASSUME NEW n \in Nat, n \in T PROVE n + 1 \in T
  <2>1. Power(Times(a, b), n + 1) = Times(Times(a, b), Times(Power(a, n), Power(b, n)))
    BY <1>2, PowerNext
  <2>2. Times(Times(a, b), Times(Power(a, n), Power(b, n))) = Times(Times(a, Power(a, n)), Times(b, Power(b, n)))
    BY PowerInt, TimesSwap
  <2>3. Times(a, Power(a, n)) = Power(a, n + 1) /\ Times(b, Power(b, n)) = Power(b, n + 1)
    BY PowerNext
  <2>. QED
    BY <2>1, <2>2, <2>3
<1>. HIDE DEF T
<1>3. e \in T
  BY <1>1, <1>2, Induct
<1>. QED
  BY <1>3 DEF T

LEMMA PowerOfOne == ASSUME NEW e \in Nat PROVE Power(1, e) = 1
<1>. DEFINE T == {n \in Nat : Power(1, n) = 1}
<1>1. 1 \in 0 .. P - 1 /\ 0 \in T
  BY PowerZero, GroupSize
<1>2. ASSUME NEW n \in Nat, n \in T PROVE n + 1 \in T
  BY <1>1, <1>2, PowerNext, TimesOne
<1>. HIDE DEF T
<1>3. e \in T
  BY <1>1, <1>2, Induct
<1>. QED
  BY <1>3 DEF T

(* Exponents of the generator count modulo its order.                      *)
LEMMA PowerReduced == ASSUME NEW e \in Nat PROVE Power(G, e % Q) = Power(G, e)
<1>1. PICK k \in Int, r \in 0 .. Q - 1 : e = k * Q + r /\ e % Q = r
  BY GroupSize, DivMod
<1>2. k \in Nat
  <2>1. CASE k <= -1
    <3>1. k * Q <= -Q
      BY <2>1, GroupSize
    <3>. QED
      BY <1>1, <3>1, GroupSize
  <2>. QED
    BY <2>1
<1>3. G \in Int
  BY GroupAssumption, GroupSize DEF Element
<1>4. k * Q \in Nat /\ r \in Nat
  BY <1>1, <1>2, GroupSize
<1>5. Power(G, k * Q) = 1
  <2>1. Power(G, Q) = 1
    BY GroupAssumption
  <2>2. Power(G, k * Q) = Power(Power(G, Q), k)
    BY <1>2, <1>3, GroupSize, PowerPower
  <2>. QED
    BY <1>2, <2>1, <2>2, PowerOfOne
<1>6. Power(G, k * Q + r) = Times(1, Power(G, r))
  BY <1>3, <1>4, <1>5, PowerSum
<1>7. Power(G, r) \in 0 .. P - 1
  BY <1>3, <1>4, PowerType
<1>. QED
  BY <1>1, <1>6, <1>7, TimesOne

(***************************************************************************)
(* The group.                                                              *)
(***************************************************************************)
LEMMA ElementIs == Element \subseteq 0 .. P - 1 /\ Element \subseteq Int /\ 1 \in Element /\ G \in Element /\ H \in Element
  BY GroupAssumption, GroupSize DEF Element

LEMMA InverseIs ==
  ASSUME NEW b \in Element
  PROVE  InverseOf(b) \in Element /\ Times(b, InverseOf(b)) = 1
<1>1. \E x \in Element : (b * x) % P = 1
  BY GroupAssumption
<1>. QED
  BY <1>1 DEF InverseOf, Times

LEMMA TimesElement == ASSUME NEW a \in Element, NEW b \in Element PROVE Times(a, b) \in Element
<1>1. a \in Int /\ b \in Int /\ b \in 0 .. P - 1 /\ b # 0
  BY ElementIs DEF Element
<1>2. Times(a, b) \in 0 .. P - 1
  BY <1>1, TimesType
<1>3. ASSUME Times(a, b) = 0 PROVE FALSE
  <2>. DEFINE x == InverseOf(a)
  <2>1. x \in Int /\ Times(a, x) = 1
    BY InverseIs, ElementIs
  <2>. HIDE DEF x
  <2>2. Times(x, Times(a, b)) = Times(Times(x, a), b)
    BY <1>1, <2>1, TimesAssoc
  <2>3. Times(x, a) = 1
    BY <1>1, <2>1, TimesComm
  <2>4. Times(x, 0) = 0
    <3>1. x * 0 = 0 /\ 0 \in 0 .. P - 1
      BY <2>1, GroupSize
    <3>. QED
      BY <3>1, GroupSize, ModSmall DEF Times
  <2>. QED
    BY <1>1, <1>3, <2>2, <2>3, <2>4, TimesOne
<1>. QED
  BY <1>2, <1>3, GroupSize DEF Element

LEMMA PowerElement == ASSUME NEW b \in Element, NEW e \in Nat PROVE Power(b, e) \in Element
<1>. DEFINE T == {n \in Nat : Power(b, n) \in Element}
<1>1. 0 \in T
  BY PowerZero, ElementIs
<1>2. ASSUME NEW n \in Nat, n \in T PROVE n + 1 \in T
  BY <1>2, PowerNext, TimesElement
<1>. HIDE DEF T
<1>3. e \in T
  BY <1>1, <1>2, Induct
<1>. QED
  BY <1>3 DEF T

LEMMA InversePowerIs ==
  ASSUME NEW b \in Element, NEW e \in Nat
  PROVE  InversePower(b, e) \in Element /\ Times(Power(b, e), InversePower(b, e)) = 1
<1>. DEFINE x == InverseOf(b)
<1>1. x \in Element /\ Times(b, x) = 1 /\ b \in Int /\ x \in Int
  BY InverseIs, ElementIs
<1>2. InversePower(b, e) = Power(x, e)
  BY DEF InversePower
<1>. HIDE DEF x
<1>3. Times(Power(b, e), Power(x, e)) = Power(Times(b, x), e)
  BY <1>1, PowerTimes
<1>. QED
  BY <1>1, <1>2, <1>3, PowerElement, PowerOfOne

(***************************************************************************)
(* A proof that is made verifies.                                          *)
(***************************************************************************)
LEMMA ExponentIs == Exponent \subseteq Nat /\ \A e \in Exponent : e % Q = e
<1>1. Exponent = 0 .. Q - 1
  BY DEF Exponent
<1>. QED
  BY <1>1, GroupSize, ModSmall

(* What the hash leaves to the true branch adds up to the hash.            *)
LEMMA ChallengeAddsUp ==
  ASSUME NEW h \in Exponent, NEW c \in Exponent
  PROVE  /\ TrueChallenge(h, c) \in Exponent
         /\ (TrueChallenge(h, c) + c) % Q = h
<1>1. h \in 0 .. Q - 1 /\ c \in 0 .. Q - 1
  BY DEF Exponent
<1>2. PICK k \in Int, r \in 0 .. Q - 1 : h - c = k * Q + r /\ (h - c) % Q = r
  <2>. DEFINE x == h - c
  <2>1. x \in Int
    BY <1>1, GroupSize
  <2>. HIDE DEF x
  <2>2. \E k \in Int, r \in 0 .. Q - 1 : x = k * Q + r /\ x % Q = r
    BY <2>1, GroupSize, DivMod
  <2>. QED
    BY <2>2 DEF x
<1>3. r + c = (-k) * Q + h /\ r + c \in Int /\ -k \in Int
  BY <1>1, <1>2, GroupSize
<1>4. (r + c) % Q = h
  BY <1>1, <1>3, GroupSize, ModUnique
<1>. QED
  BY <1>2, <1>4 DEF TrueChallenge, Exponent

(* A proof of the task that everybody will accept.                         *)
Convincing(p, t) == p \in Proof /\ p.task = t /\ Verifies(p)

LEMMA ProofVerifies ==
  ASSUME NEW t \in ProofTasks, NEW outcome \in {0, 1}, NEW r \in Exponent,
         NEW cFalse \in Exponent, NEW sFalse \in Exponent, NEW k \in Exponent
  PROVE  Convincing(NewProof(t, outcome, r, cFalse, sFalse, k), t)
<1>. DEFINE other      == 1 - outcome
            commitment == Times(Power(G, r), Power(H, outcome))
            value      == BranchValue(commitment, other)
            aFalse     == Times(Power(G, sFalse), InversePower(value, cFalse))
            aTrue      == Power(G, k)
            a          == [b \in {0, 1} |-> IF b = outcome THEN aTrue ELSE aFalse]
            hash       == Hash(t, commitment, a[0], a[1])
            cTrue      == TrueChallenge(hash, cFalse)
            c          == [b \in {0, 1} |-> IF b = outcome THEN cTrue ELSE cFalse]
            s          == [b \in {0, 1} |-> IF b = outcome THEN k + cTrue * r ELSE sFalse]
            new        == [task |-> t, commitment |-> commitment, a |-> a, c |-> c, s |-> s]
<1>1. NewProof(t, outcome, r, cFalse, sFalse, k) = new
  BY DEF NewProof, Times
<1>2. /\ outcome \in Nat /\ other \in {0, 1} /\ other \in Nat /\ other # outcome
      /\ {outcome, other} = {0, 1}
      /\ r \in Nat /\ cFalse \in Nat /\ sFalse \in Nat /\ k \in Nat
  BY ExponentIs
<1>. HIDE DEF other
<1>3. commitment \in Element
  BY <1>2, PowerElement, ElementIs, TimesElement
<1>. HIDE DEF commitment
<1>4. /\ \A b \in {0, 1} : BranchValue(commitment, b) = Times(commitment, InversePower(H, b))
      /\ \A b \in {0, 1} : BranchValue(commitment, b) \in Element
  <2>1. ASSUME NEW b \in {0, 1} PROVE BranchValue(commitment, b) = Times(commitment, InversePower(H, b))
    BY DEF BranchValue, Times
  <2>2. ASSUME NEW b \in {0, 1} PROVE InversePower(H, b) \in Element
    BY InversePowerIs, ElementIs
  <2>. QED
    BY <1>3, <2>1, <2>2, TimesElement
<1>5. value \in Element
  BY <1>2, <1>4
<1>6. BranchValue(commitment, outcome) = Power(G, r)
  <2>. DEFINE g == Power(G, r)
              h == Power(H, outcome)
              i == InversePower(H, outcome)
  <2>1. g \in Int /\ h \in Int /\ i \in Int /\ g \in 0 .. P - 1 /\ Times(h, i) = 1
    BY <1>2, PowerElement, InversePowerIs, ElementIs
  <2>2. BranchValue(commitment, outcome) = Times(Times(g, h), i)
    BY <1>4 DEF commitment
  <2>. HIDE DEF g, h, i
  <2>3. Times(Times(g, h), i) = Times(g, 1)
    BY <2>1, TimesAssoc
  <2>4. BranchValue(commitment, outcome) = g
    BY <2>1, <2>2, <2>3, TimesOne
  <2>. QED
    BY <2>4 DEF g
<1>. HIDE DEF value
<1>7. aTrue \in Element /\ aFalse \in Element
  BY <1>2, <1>5, PowerElement, InversePowerIs, ElementIs, TimesElement
<1>8. aTrue = Power(G, k) /\ aFalse = Times(Power(G, sFalse), InversePower(value, cFalse))
  OBVIOUS
<1>. HIDE DEF aTrue, aFalse
<1>9. a \in [{0, 1} -> Element] /\ a[outcome] = aTrue /\ a[other] = aFalse
  BY <1>2, <1>7
<1>10. hash \in Exponent
  BY <1>3, <1>9, GroupAssumption
<1>. HIDE DEF a, hash
<1>11. cTrue \in Exponent /\ (cTrue + cFalse) % Q = hash /\ cTrue \in Nat
  BY <1>10, ChallengeAddsUp, ExponentIs
<1>. HIDE DEF cTrue
<1>12. c \in [{0, 1} -> Exponent] /\ c[outcome] = cTrue /\ c[other] = cFalse
  BY <1>2, <1>11
<1>. HIDE DEF c
<1>13. k + cTrue * r \in Nat /\ cTrue * r \in Nat
  BY <1>2, <1>11
<1>14. s \in [{0, 1} -> Nat] /\ s[outcome] = k + cTrue * r /\ s[other] = sFalse
  BY <1>2, <1>13
<1>. HIDE DEF s
<1>15. new \in Proof /\ new.task = t
  BY <1>3, <1>9, <1>12, <1>14 DEF Proof
<1>16. (c[0] + c[1]) % Q = hash
  <2>1. c[0] + c[1] = cTrue + cFalse
    <3>1. cFalse \in Int /\ cTrue \in Int
      BY <1>2, <1>11
    <3>2. CASE outcome = 0 /\ other = 1
      BY <1>12, <3>2
    <3>3. CASE outcome = 1 /\ other = 0
      BY <1>12, <3>1, <3>3
    <3>. QED
      BY <1>2, <3>2, <3>3
  <2>. QED
    BY <1>11, <2>1
<1>17. Power(G, s[outcome] % Q) = Times(a[outcome], Power(BranchValue(commitment, outcome), c[outcome]))
  <2>1. Power(G, s[outcome] % Q) = Power(G, k + cTrue * r)
    BY <1>13, <1>14, PowerReduced
  <2>2. Power(G, k + cTrue * r) = Times(Power(G, k), Power(G, cTrue * r))
    BY <1>2, <1>13, ElementIs, PowerSum
  <2>3. Power(G, cTrue * r) = Power(Power(G, r), cTrue)
    BY <1>2, <1>11, ElementIs, PowerPower
  <2>. QED
    BY <1>6, <1>8, <1>9, <1>12, <2>1, <2>2, <2>3
<1>18. Power(G, s[other] % Q) = Times(a[other], Power(BranchValue(commitment, other), c[other]))
  <2>. DEFINE g == Power(G, sFalse)
              p == Power(value, cFalse)
              i == InversePower(value, cFalse)
  <2>1. /\ g \in Int /\ p \in Int /\ i \in Int /\ g \in 0 .. P - 1 /\ Times(p, i) = 1
    BY <1>2, <1>5, PowerElement, InversePowerIs, ElementIs
  <2>2. Power(G, s[other] % Q) = g
    BY <1>14, ExponentIs
  <2>3. Times(a[other], Power(BranchValue(commitment, other), c[other])) = Times(Times(g, i), p)
    BY <1>8, <1>9, <1>12 DEF value
  <2>. HIDE DEF g, p, i
  <2>4. Times(Times(g, i), p) = Times(g, Times(i, p))
    BY <2>1, TimesAssoc
  <2>5. Times(i, p) = 1
    BY <2>1, TimesComm
  <2>6. Times(g, 1) = g
    BY <2>1, TimesOne
  <2>. QED
    BY <2>2, <2>3, <2>4, <2>5, <2>6
<1>19. Verifies(new)
  <2>1. /\ new.c = c /\ new.s = s /\ new.a = a /\ new.task = t /\ new.commitment = commitment
    OBVIOUS
  <2>2. hash = Hash(t, commitment, a[0], a[1])
    BY DEF hash
  <2>3. ASSUME NEW b \in {0, 1}
        PROVE  Power(G, s[b] % Q) = (a[b] * Power(BranchValue(commitment, b), c[b])) % P
    <3>1. CASE b = outcome
      BY <1>17, <3>1 DEF Times
    <3>2. CASE b = other
      BY <1>18, <3>2 DEF Times
    <3>. QED
      BY <1>2, <3>1, <3>2
  <2>. HIDE DEF new
  <2>. QED
    BY <1>16, <2>1, <2>2, <2>3 DEF Verifies
<1>. QED
  BY <1>1, <1>15, <1>19 DEF Convincing

(***************************************************************************)
(* The table of proofs.                                                    *)
(***************************************************************************)
LEMMA ProofInitInv == ProofInit => ProofTypeOK
  BY DEF ProofInit, ProofTypeOK

LEMMA InsertStep ==
  ASSUME ProofTypeOK, NEW s \in Provers, NEW outcome \in {0, 1}, NEW r \in Exponent,
         NEW cFalse \in Exponent, NEW sFalse \in Exponent, NEW k \in Exponent,
         Insert(s, outcome, r, cFalse, sFalse, k)
  PROVE  /\ ProofTypeOK'
         /\ \A t \in ProofTasks : proofs'[t] # proofs[t] =>
              proofs[t] = NoProof /\ proofs'[t].task = t /\ Verifies(proofs'[t])
<1>1. PICK u \in ProofTasks : u = proving[s] /\ proofs[u] = NoProof
  BY DEF Insert, ProofTypeOK
<1>. DEFINE new == NewProof(u, outcome, r, cFalse, sFalse, k)
<1>2. Convincing(new, u)
  BY ProofVerifies
<1>3. proofs' = [proofs EXCEPT ![u] = new] /\ proving' = [proving EXCEPT ![s] = NoProof]
  BY <1>1 DEF Insert
<1>. HIDE DEF new
<1>4. ProofTypeOK'
  BY <1>1, <1>2, <1>3 DEF ProofTypeOK, Convincing
<1>5. \A t \in ProofTasks : proofs'[t] = IF t = u THEN new ELSE proofs[t]
  BY <1>1, <1>3 DEF ProofTypeOK
<1>. QED
  BY <1>1, <1>2, <1>4, <1>5 DEF Convincing

LEMMA ProofNextInv == ProofTypeOK /\ [ProofNext]_proofVars => ProofTypeOK'
<1>. SUFFICES ASSUME ProofTypeOK, [ProofNext]_proofVars PROVE ProofTypeOK'
  OBVIOUS
<1>1. CASE UNCHANGED proofVars
  BY <1>1 DEF proofVars, ProofTypeOK
<1>2. ASSUME NEW s \in Provers, NEW t \in ProofTasks, NEW actor \in Actors, FindNone(s, t, actor) PROVE ProofTypeOK'
  BY <1>2 DEF FindNone, ProofTypeOK
<1>3. ASSUME NEW s \in Provers, Rollback(s) PROVE ProofTypeOK'
  BY <1>3 DEF Rollback, ProofTypeOK
<1>4. ASSUME NEW s \in Provers, NEW t \in ProofTasks, Recall(s, t) PROVE ProofTypeOK'
  BY <1>1, <1>4 DEF Recall
<1>. QED
  BY <1>1, <1>2, <1>3, <1>4, InsertStep DEF ProofNext

THEOREM ProofTypeCorrect == ProofSpec => []ProofTypeOK
  BY ProofInitInv, ProofNextInv, PTL DEF ProofSpec

(* In every such group, for every outcome, nonce and random exponents, a   *)
(* proof that is created verifies, and the one that was stored first stays *)
(* in spite of the sessions that had found none either.                    *)
THEOREM ProofsVerifyAndStay == ProofSpec => ProofsStand
<1>. DEFINE A == \A t \in ProofTasks : proofs'[t] # proofs[t] =>
                   proofs[t] = NoProof /\ proofs'[t].task = t /\ Verifies(proofs'[t])
<1>1. ProofTypeOK /\ [ProofNext]_proofVars => [A]_proofVars
  <2>. SUFFICES ASSUME ProofTypeOK, ProofNext PROVE A \/ UNCHANGED proofVars
    OBVIOUS
  <2>1. ASSUME NEW s \in Provers,
               \/ \E t \in ProofTasks, actor \in Actors : FindNone(s, t, actor)
               \/ \E t \in ProofTasks : Recall(s, t)
               \/ Rollback(s)
        PROVE  proofs' = proofs
    BY <2>1 DEF FindNone, Recall, Rollback, proofVars
  <2>2. ASSUME NEW s \in Provers, NEW outcome \in {0, 1}, NEW r \in Exponent,
               NEW cFalse \in Exponent, NEW sFalse \in Exponent, NEW k \in Exponent,
               Insert(s, outcome, r, cFalse, sFalse, k)
        PROVE  A
    BY <2>2, InsertStep
  <2>. QED
    BY <2>1, <2>2 DEF ProofNext
<1>. QED
  BY <1>1, ProofTypeCorrect, PTL DEF ProofSpec, ProofsStand

--------------------------------------------------------------------------------
(***************************************************************************)
(* The four of them together.                                              *)
(***************************************************************************)
StoresInv == RateInv /\ UsageInv /\ MemoryInv /\ ProofTypeOK

THEOREM StoresInvariance == Spec => []StoresInv
<1>. DEFINE vars == <<rateVars, usageVars, memoryVars, proofVars>>
<1>1. Init => StoresInv
  BY RateInitInv, UsageInitInv, MemoryInitInv, ProofInitInv DEF Init, StoresInv
<1>2. StoresInv /\ [Next]_vars => StoresInv'
  <2>. SUFFICES ASSUME StoresInv, [Next]_vars PROVE StoresInv'
    OBVIOUS
  <2>1. [RateNext]_rateVars /\ [UsageNext]_usageVars /\ [MemoryNext]_memoryVars /\ [ProofNext]_proofVars
    BY DEF Next
  <2>. QED
    BY <2>1, RateNextInv, UsageNextInv, MemoryNextInv, ProofNextInv DEF StoresInv
<1>. QED
  BY <1>1, <1>2, PTL DEF Spec

(* Every variable of the four stores keeps its type.                       *)
THEOREM StoresTypeCorrect == Spec => []StoresTypeOK
<1>1. StoresInv => StoresTypeOK
  BY DEF StoresInv, RateInv, UsageInv, MemoryInv, StoresTypeOK
<1>. QED
  BY <1>1, StoresInvariance, PTL
===============================================================================

------------------------------- MODULE RateLimit -------------------------------
(***************************************************************************)
(* The window in which Redis counts one client's requests to one path      *)
(* (core/rate_limit.py, RateLimitMiddleware), the window of its floods     *)
(* and its anomaly flag (core/anomaly.py), shared by the replicas.         *)
(*                                                                         *)
(* Every Redis command is a step.  A counter is made by INCR and gets its  *)
(* time to live from a second command; a replica may be lost in between,   *)
(* and so may Redis for a moment.  The handler runs inside the block that  *)
(* guards Redis.                                                           *)
(***************************************************************************)
EXTENDS Integers, FiniteSets

CONSTANTS
  Requests,     \* requests in flight at the same time
  Limit,        \* RATE_LIMIT_MAP: the limit of the path
  Threshold,    \* observe_anomaly: floods before the client is flagged
  MaxCount      \* bound: a window is counted up to here, beyond every limit

ASSUME LimitAssumption == /\ {Limit, Threshold, MaxCount} \subseteq Nat
                          /\ Threshold > 0 /\ Limit > 0 /\ MaxCount > Limit + 1 /\ MaxCount >= Threshold
                          /\ IsFiniteSet(Requests)

Windows == {"requests", "floods"}

VARIABLES
  count,     \* the counter of each window, 0 if it has no key
  expires,   \* the key of the window has a time to live
  flagged,   \* the client has an anomaly flag
  request,
  admitted,  \* history: requests the present window numbered and let through
  orphaned   \* history: the window's creator was lost before EXPIRE

rateVars == <<count, expires, flagged, request, admitted, orphaned>>

NoRequest == [pc |-> "idle"]
Serving   == [pc : {"arrived", "limited", "expiring", "counted", "flooding", "timing", "flagging",
                    "refusing", "handling", "failed"},
              limit : Nat, number : Nat, guarded : BOOLEAN,
              present : BOOLEAN]   \* its number is of the present window

RateInit ==
  /\ count = [w \in Windows |-> 0]
  /\ expires = [w \in Windows |-> FALSE]
  /\ flagged = FALSE
  /\ request = [q \in Requests |-> NoRequest]
  /\ admitted = 0
  /\ orphaned = [w \in Windows |-> FALSE]

Goto(q, pc) == [request EXCEPT ![q].pc = pc]

Lower(n) == IF n \div 4 > 1 THEN n \div 4 ELSE 1

(* Mutant: the request after the last one allowed is let through.          *)
ExceedsLate(number, limit) == number > limit + 1

Exceeds(number, limit) == number > limit

--------------------------------------------------------------------------------
Arrive(q) ==
  /\ request[q] = NoRequest
  /\ request' = [request EXCEPT ![q] = [pc |-> "arrived", limit |-> Limit, number |-> 0,
                                         guarded |-> TRUE, present |-> FALSE]]
  /\ UNCHANGED <<count, expires, flagged, admitted, orphaned>>

(* A flagged client has a quarter of the limit; if Redis does not answer,  *)
(* the whole.                                                              *)
ReadFlag(q) ==
  /\ request[q].pc = "arrived"
  /\ \E limit \in {Limit, IF flagged THEN Lower(Limit) ELSE Limit} :
       request' = [request EXCEPT ![q].pc = "limited", ![q].limit = limit]
  /\ UNCHANGED <<count, expires, flagged, admitted, orphaned>>

Incremented(w) == [count EXCEPT ![w] = IF @ < MaxCount THEN @ + 1 ELSE @]

(* INCR: whoever is first has to set the time to live.                     *)
Increment(q, w, from, first, next) ==
  /\ request[q].pc = from
  /\ count' = Incremented(w)
  /\ request' = [request EXCEPT ![q].pc = IF count[w] = 0 THEN first ELSE next,
                                ![q].number = count'[w], ![q].present = TRUE]
  /\ UNCHANGED <<expires, flagged, admitted, orphaned>>

Incr(q) == Increment(q, "requests", "limited", "expiring", "counted")

(* Mutant: the first request goes on without setting the time to live.     *)
ExpireSkipped(q, w, from, next) ==
  /\ request[q].pc = from /\ request' = Goto(q, next)
  /\ UNCHANGED <<count, expires, flagged, admitted, orphaned>>

SetExpiry(q, w, from, next) ==
  /\ request[q].pc = from
  /\ expires' = [expires EXCEPT ![w] = count[w] > 0]
  /\ request' = Goto(q, next)
  /\ UNCHANGED <<count, flagged, admitted, orphaned>>

SetTTL(q) == SetExpiry(q, "requests", "expiring", "counted")

Admit(q) ==
  /\ request[q].pc = "counted" /\ ~Exceeds(request[q].number, request[q].limit)
  /\ request' = [request EXCEPT ![q].pc = "handling"]
  /\ admitted' = IF request[q].present THEN admitted + 1 ELSE admitted
  /\ UNCHANGED <<count, expires, flagged, orphaned>>

Exceeded(q) ==
  /\ request[q].pc = "counted" /\ Exceeds(request[q].number, request[q].limit)
  /\ request' = Goto(q, "flooding")
  /\ UNCHANGED <<count, expires, flagged, admitted, orphaned>>

(* observe_anomaly("flood"): its own failures do not reach the middleware. *)
ObserveFlood(q) == Increment(q, "floods", "flooding", "timing", "flagging")

ExpireFlood(q) == SetExpiry(q, "floods", "timing", "flagging")

FlagClient(q) ==
  /\ request[q].pc = "flagging"
  /\ flagged' = (flagged \/ request[q].number >= Threshold)
  /\ request' = Goto(q, "refusing")
  /\ UNCHANGED <<count, expires, admitted, orphaned>>

(* The time to live is read for the headers of the refusal.                *)
Refuse(q) ==
  /\ request[q].pc = "refusing"
  /\ request' = [request EXCEPT ![q] = NoRequest]
  /\ UNCHANGED <<count, expires, flagged, admitted, orphaned>>

(* The handler answers; or it raises: inside the guard it is called again, *)
(* outside it the exception reaches the client.                            *)
Respond(q) ==
  /\ request[q].pc = "handling"
  /\ \/ request' = [request EXCEPT ![q] = NoRequest]
     \/ request' = IF request[q].guarded THEN Goto(q, "failed") ELSE [request EXCEPT ![q] = NoRequest]
  /\ UNCHANGED <<count, expires, flagged, admitted, orphaned>>

(* The except block: whatever failed, the request is let through.          *)
LetThrough(q) ==
  /\ request[q].pc = "failed"
  /\ request' = [request EXCEPT ![q].pc = "handling", ![q].guarded = FALSE]
  /\ UNCHANGED <<count, expires, flagged, admitted, orphaned>>

(* A window whose creator goes on without having set the time to live.     *)
Orphans(q) == [w \in Windows |-> orphaned[w] \/ request[q].pc = (IF w = "requests" THEN "expiring" ELSE "timing")]

(* Redis does not answer: the middleware lets the request through, even    *)
(* one it was about to refuse; observe_anomaly only logs it.               *)
RedisFails(q) ==
  /\ request[q].pc \in {"limited", "expiring", "flooding", "timing", "flagging", "refusing"}
  /\ request' = Goto(q, IF request[q].pc \in {"limited", "expiring", "refusing"} THEN "failed" ELSE "refusing")
  /\ orphaned' = Orphans(q)
  /\ UNCHANGED <<count, expires, flagged, admitted>>

(* INCR is done and its answer lost: whoever was first does not know.      *)
AnswerLost(q, w, from, next) ==
  /\ request[q].pc = from
  /\ count' = Incremented(w)
  /\ request' = Goto(q, next)
  /\ orphaned' = [orphaned EXCEPT ![w] = @ \/ count[w] = 0]
  /\ UNCHANGED <<expires, flagged, admitted>>

(* The replica that serves the request dies, or the client goes away.      *)
Lose(q) ==
  /\ request[q] # NoRequest
  /\ request' = [request EXCEPT ![q] = NoRequest]
  /\ orphaned' = Orphans(q)
  /\ UNCHANGED <<count, expires, flagged, admitted>>

WindowEnds(w) ==
  /\ expires[w]
  /\ count' = [count EXCEPT ![w] = 0] /\ expires' = [expires EXCEPT ![w] = FALSE]
  /\ admitted' = IF w = "requests" THEN 0 ELSE admitted
  /\ orphaned' = [orphaned EXCEPT ![w] = FALSE]
  /\ request' = IF w = "requests" THEN [q \in Requests |-> IF request[q] = NoRequest THEN NoRequest
                                                          ELSE [request[q] EXCEPT !.present = FALSE]]
                ELSE request
  /\ UNCHANGED flagged

FlagEnds ==
  /\ flagged /\ flagged' = FALSE
  /\ UNCHANGED <<count, expires, request, admitted, orphaned>>

RateNext ==
  \/ \E q \in Requests :
       \/ Arrive(q) \/ ReadFlag(q) \/ Incr(q) \/ SetTTL(q) \/ Admit(q) \/ Exceeded(q)
       \/ ObserveFlood(q) \/ ExpireFlood(q) \/ FlagClient(q) \/ Refuse(q)
       \/ AnswerLost(q, "requests", "limited", "failed") \/ AnswerLost(q, "floods", "flooding", "refusing")
       \/ Respond(q) \/ LetThrough(q) \/ RedisFails(q) \/ Lose(q)
  \/ \E w \in Windows : WindowEnds(w)
  \/ FlagEnds

RateSpec == RateInit /\ [][RateNext]_rateVars

--------------------------------------------------------------------------------
RateTypeOK ==
  /\ count \in [Windows -> Nat] /\ expires \in [Windows -> BOOLEAN]
  /\ flagged \in BOOLEAN
  /\ request \in [Requests -> {NoRequest} \cup Serving]
  /\ admitted \in Nat /\ orphaned \in [Windows -> BOOLEAN]

Setting(w) == {q \in Requests : request[q].pc = (IF w = "requests" THEN "expiring" ELSE "timing")}

(* A window that has begun will end: its key has a time to live, or a      *)
(* request is about to set it, or the one that should have was lost or met *)
(* a failure of Redis in that moment.  Otherwise a client would be refused *)
(* for ever.                                                               *)
WindowsEnd == \A w \in Windows :
  count[w] > 0 => expires[w] \/ Setting(w) # {} \/ orphaned[w]

(* Of the requests Redis numbered in one window, no more are let through   *)
(* than the limit of the path, whatever replicas count and whenever the    *)
(* client is flagged meanwhile.  (Requests let through because Redis did   *)
(* not answer are not counted.)                                            *)
LimitHolds == admitted <= Limit
===============================================================================

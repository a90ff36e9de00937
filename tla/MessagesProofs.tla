----------------------------- MODULE MessagesProofs -----------------------------
(***************************************************************************)
(* Proofs about MessageIntake, for any number of sessions, envelopes and   *)
(* agents: the books of every envelope agree, and its repetitions become   *)
(* tasks only together.  Then about TaskStream, for any number of          *)
(* appenders and readers and streams of any length: every reader sees the  *)
(* stream in order.                                                        *)
(***************************************************************************)
EXTENDS TaskStream, FiniteSetTheorems, TLAPS

(***************************************************************************)
(* The intake: its inductive invariant.                                    *)
(***************************************************************************)
Uncommitted(e) == Sending(e) \ Sent(e)
Owing(e, a)    == {s \in Sent(e) : a \in session[s].left}

(* A session about to commit has recipients: the one that was addressed,   *)
(* or some members of the team.                                            *)
Addressed(s) == session[s].pc = "committing" =>
  /\ session[s].left # {}
  /\ session[s].envelope.to # Team => session[s].left = {session[s].envelope.to}

OnePerId == \A e, f \in Envelopes : e.to # Team /\ f.to # Team /\ e.id = f.id /\ e.id # NoId =>
  /\ tasks[e][e.to] <= 1
  /\ tasks[e][e.to] > 0 /\ tasks[f][f.to] > 0 => e = f

Together(e) == e.to # Team /\ e.id = NoId =>
  tasks[e][e.to] + Cardinality(Uncommitted(e)) <= Cardinality(Sessions)

Booked(e) == e.to # Team => tasks[e][e.to] = audited[e] + lost[e] + Cardinality(Sent(e))

Called(e, a) ==
  /\ tasks[e][a] <= audited[e] + lost[e] + Cardinality(Sent(e))
  /\ posted[e][a] + Cardinality(Owing(e, a)) <= tasks[e][a]

IntakeInv ==
  /\ TypeOK /\ OnePerId
  /\ \A s \in Sessions : Addressed(s)
  /\ \A e \in Envelopes : Together(e) /\ Booked(e) /\ \A a \in Agents : Called(e, a)

LEMMA Implied == IntakeInv => RepeatsOnlyTogether /\ SendsAccounted
<1>. SUFFICES ASSUME IntakeInv PROVE RepeatsOnlyTogether /\ SendsAccounted
  OBVIOUS
<1>1. RepeatsOnlyTogether
  BY DEF IntakeInv, RepeatsOnlyTogether, OnePerId, Together, Uncommitted
<1>2. SendsAccounted
  BY DEF IntakeInv, SendsAccounted, Booked, Called, Owing
<1>. QED
  BY <1>1, <1>2

SessionType == {Idle} \cup Working

(***************************************************************************)
(* Counting sessions when one of them moves.                               *)
(***************************************************************************)
LEMMA CountStep ==
  ASSUME NEW S \in SUBSET Sessions, NEW T \in SUBSET Sessions, NEW s \in Sessions,
         S \ {s} = T \ {s}
  PROVE  /\ Cardinality(S) \in Nat /\ Cardinality(T) \in Nat
         /\ Cardinality(T) = Cardinality(S) + (IF s \in T THEN 1 ELSE 0) - (IF s \in S THEN 1 ELSE 0)
<1>1. IsFiniteSet(S) /\ IsFiniteSet(T) /\ Cardinality(S) \in Nat /\ Cardinality(T) \in Nat
  BY IntakeAssumption, FS_Subset, FS_CardinalityType
<1>2. /\ Cardinality(S \ {s}) = IF s \in S THEN Cardinality(S) - 1 ELSE Cardinality(S)
      /\ Cardinality(T \ {s}) = IF s \in T THEN Cardinality(T) - 1 ELSE Cardinality(T)
  BY <1>1, FS_RemoveElement
<1>0. Cardinality(S \ {s}) = Cardinality(T \ {s})
  BY Zenon
<1>3. CASE s \in S /\ s \in T
  BY <1>1, <1>2, <1>0, <1>3
<1>4. CASE s \in S /\ s \notin T
  BY <1>1, <1>2, <1>0, <1>4
<1>5. CASE s \notin S /\ s \in T
  BY <1>1, <1>2, <1>0, <1>5
<1>6. CASE s \notin S /\ s \notin T
  BY <1>1, <1>2, <1>0, <1>6
<1>. QED
  BY <1>3, <1>4, <1>5, <1>6

InSending(y, e)  == y # Idle /\ y.envelope = e
InSent(y, e)     == InSending(y, e) /\ y.pc \in {"posting", "publishing", "ending"}
InOwing(y, e, a) == InSent(y, e) /\ a \in y.left

OneIfSent(y, e)     == IF InSent(y, e) THEN 1 ELSE 0
OneIfOpen(y, e)     == IF InSending(y, e) /\ ~InSent(y, e) THEN 1 ELSE 0
OneIfOwing(y, e, a) == IF InOwing(y, e, a) THEN 1 ELSE 0

LEMMA Members ==
  ASSUME NEW e, NEW a
  PROVE  /\ Sent(e) = {s \in Sessions : InSent(session[s], e)}
         /\ Uncommitted(e) = {s \in Sessions : InSending(session[s], e) /\ ~InSent(session[s], e)}
         /\ Owing(e, a) = {s \in Sessions : InOwing(session[s], e, a)}
  BY DEF Sent, Sending, Committed, Uncommitted, Owing, InSent, InSending, InOwing

LEMMA MembersNext ==
  ASSUME NEW e, NEW a
  PROVE  /\ Sent(e)' = {s \in Sessions : InSent(session'[s], e)}
         /\ Uncommitted(e)' = {s \in Sessions : InSending(session'[s], e) /\ ~InSent(session'[s], e)}
         /\ Owing(e, a)' = {s \in Sessions : InOwing(session'[s], e, a)}
  BY DEF Sent, Sending, Committed, Uncommitted, Owing, InSent, InSending, InOwing

LEMMA Counts ==
  ASSUME NEW s \in Sessions, NEW x, NEW e, NEW a,
         session'[s] = x, \A t \in Sessions \ {s} : session'[t] = session[t]
  PROVE    /\ Cardinality(Sent(e)) \in Nat /\ Cardinality(Sent(e)') \in Nat
           /\ Cardinality(Uncommitted(e)) \in Nat /\ Cardinality(Uncommitted(e)') \in Nat
           /\ Cardinality(Owing(e, a)) \in Nat /\ Cardinality(Owing(e, a)') \in Nat
           /\ Cardinality(Sent(e)') = Cardinality(Sent(e)) + OneIfSent(x, e) - OneIfSent(session[s], e)
           /\ Cardinality(Uncommitted(e)') =
                Cardinality(Uncommitted(e)) + OneIfOpen(x, e)
                  - OneIfOpen(session[s], e)
           /\ Cardinality(Owing(e, a)') =
                Cardinality(Owing(e, a)) + OneIfOwing(x, e, a) - OneIfOwing(session[s], e, a)
<1>1. session'[s] = x /\ \A t \in Sessions \ {s} : session'[t] = session[t]
  OBVIOUS
<1>2. PICK S, T : S = Sent(e) /\ T = Sent(e)'
  OBVIOUS
<1>3. /\ S \in SUBSET Sessions /\ T \in SUBSET Sessions /\ S \ {s} = T \ {s}
      /\ s \in S <=> InSent(session[s], e)
      /\ s \in T <=> InSent(x, e)
  BY <1>1, <1>2, Members, MembersNext
<1>4. /\ Cardinality(S) \in Nat /\ Cardinality(T) \in Nat
      /\ Cardinality(T) = Cardinality(S) + OneIfSent(x, e) - OneIfSent(session[s], e)
  BY <1>3, CountStep DEF OneIfSent
<1>5. PICK U, V : U = Uncommitted(e) /\ V = Uncommitted(e)'
  OBVIOUS
<1>6. /\ U \in SUBSET Sessions /\ V \in SUBSET Sessions /\ U \ {s} = V \ {s}
      /\ s \in U <=> InSending(session[s], e) /\ ~InSent(session[s], e)
      /\ s \in V <=> InSending(x, e) /\ ~InSent(x, e)
  <2>1. U = {t \in Sessions : InSending(session[t], e) /\ ~InSent(session[t], e)}
    BY <1>5, Members
  <2>2. V = {t \in Sessions : InSending(session'[t], e) /\ ~InSent(session'[t], e)}
    BY <1>5, MembersNext
  <2>. QED
    BY <1>1, <2>1, <2>2
<1>7. /\ Cardinality(U) \in Nat /\ Cardinality(V) \in Nat
      /\ Cardinality(V) = Cardinality(U) + OneIfOpen(x, e)
                            - OneIfOpen(session[s], e)
  BY <1>6, CountStep DEF OneIfOpen
<1>8. PICK O, P : O = Owing(e, a) /\ P = Owing(e, a)'
  OBVIOUS
<1>9. /\ O \in SUBSET Sessions /\ P \in SUBSET Sessions /\ O \ {s} = P \ {s}
      /\ s \in O <=> InOwing(session[s], e, a)
      /\ s \in P <=> InOwing(x, e, a)
  BY <1>1, <1>8, Members, MembersNext
<1>10. /\ Cardinality(O) \in Nat /\ Cardinality(P) \in Nat
       /\ Cardinality(P) = Cardinality(O) + OneIfOwing(x, e, a) - OneIfOwing(session[s], e, a)
  BY <1>9, CountStep DEF OneIfOwing
<1>. QED
  BY <1>2, <1>4, <1>5, <1>7, <1>8, <1>10

(***************************************************************************)
(* One session moves, and only its envelope's books with it.               *)
(***************************************************************************)
LEMMA OneMoves ==
  ASSUME IntakeInv, TypeOK', OnePerId', NEW s \in Sessions, NEW x \in SessionType,
         session' = [session EXCEPT ![s] = x], NEW e \in Envelopes,
         session[s] # Idle => session[s].envelope = e, x # Idle => x.envelope = e,
         x.pc = "committing" => x.left # {} /\ (e.to # Team => x.left = {e.to}),
         \A f \in Envelopes \ {e} : /\ tasks'[f] = tasks[f] /\ posted'[f] = posted[f]
                                    /\ audited'[f] = audited[f] /\ lost'[f] = lost[f],
         Together(e)', Booked(e)', \A a \in Agents : Called(e, a)'
  PROVE  IntakeInv'
<1>1. session'[s] = x /\ \A t \in Sessions \ {s} : session'[t] = session[t]
  BY DEF IntakeInv, TypeOK
<1>2. \A t \in Sessions : Addressed(t)'
  <2>1. x.pc = "committing" => x # Idle
    BY DEF Idle
  <2>. QED
    BY <1>1, <2>1 DEF IntakeInv, Addressed
<1>3. ASSUME NEW f \in Envelopes \ {e}
      PROVE  Together(f)' /\ Booked(f)' /\ \A a \in Agents : Called(f, a)'
  <2>1. ~InSending(session[s], f) /\ ~InSending(x, f)
    BY DEF InSending
  <2>2. /\ Cardinality(Sent(f)') = Cardinality(Sent(f))
        /\ Cardinality(Uncommitted(f)') = Cardinality(Uncommitted(f))
        /\ \A a : Cardinality(Owing(f, a)') = Cardinality(Owing(f, a))
    <3>1. /\ OneIfSent(x, f) = 0 /\ OneIfOpen(x, f) = 0
          /\ OneIfSent(session[s], f) = 0 /\ OneIfOpen(session[s], f) = 0
      BY <2>1 DEF OneIfSent, OneIfOpen, InSent
    <3>2. ASSUME NEW a PROVE OneIfOwing(x, f, a) = 0 /\ OneIfOwing(session[s], f, a) = 0
      BY <2>1 DEF OneIfOwing, InOwing, InSent
    <3>. QED
      BY <1>1, <3>1, <3>2, Counts
  <2>. QED
    BY <2>2 DEF IntakeInv, Together, Booked, Called
<1>. QED
  BY <1>2, <1>3 DEF IntakeInv

(* Numbers of one envelope's books.                                        *)
LEMMA Numbers ==
  ASSUME IntakeInv, NEW e \in Envelopes
  PROVE  /\ e.to \in Agents \cup {Team} /\ \A a \in Agents : tasks[e][a] \in Nat /\ posted[e][a] \in Nat
         /\ inbox[e] \in Nat /\ audited[e] \in Nat /\ lost[e] \in Nat
         /\ Together(e) /\ Booked(e) /\ \A a \in Agents : Called(e, a)
  BY IntakeAssumption DEF IntakeInv, TypeOK

(* A session goes on, or gives up before its commit: no book changes.      *)
LEMMA Goes ==
  ASSUME IntakeInv, TypeOK', NEW s \in Sessions, NEW x \in SessionType,
         session' = [session EXCEPT ![s] = x], NEW e \in Envelopes,
         session[s] # Idle => session[s].envelope = e, x # Idle => x.envelope = e,
         x.pc = "committing" => x.left # {} /\ (e.to # Team => x.left = {e.to}),
         InSent(x, e) <=> InSent(session[s], e),
         InSent(x, e) => x.left = session[s].left,
         InSending(x, e) => InSending(session[s], e),
         UNCHANGED <<tasks, posted, audited, lost>>
  PROVE  IntakeInv'
<1>1. \A a : /\ Cardinality(Sent(e)) \in Nat /\ Cardinality(Uncommitted(e)) \in Nat
             /\ Cardinality(Uncommitted(e)') \in Nat
             /\ Cardinality(Sent(e)') = Cardinality(Sent(e))
             /\ Cardinality(Uncommitted(e)') <= Cardinality(Uncommitted(e))
             /\ Cardinality(Owing(e, a)') = Cardinality(Owing(e, a))
  <2>. TAKE a
  <2>1. InOwing(x, e, a) <=> InOwing(session[s], e, a)
    BY DEF InOwing
  <2>2. session'[s] = x /\ \A t \in Sessions \ {s} : session'[t] = session[t]
    BY DEF IntakeInv, TypeOK
  <2>3. /\ Cardinality(Sent(e)) \in Nat /\ Cardinality(Uncommitted(e)) \in Nat
        /\ Cardinality(Uncommitted(e)') \in Nat /\ Cardinality(Owing(e, a)) \in Nat
        /\ Cardinality(Sent(e)') = Cardinality(Sent(e)) + OneIfSent(x, e) - OneIfSent(session[s], e)
        /\ Cardinality(Uncommitted(e)') = Cardinality(Uncommitted(e)) + OneIfOpen(x, e)
                                            - OneIfOpen(session[s], e)
        /\ Cardinality(Owing(e, a)') = Cardinality(Owing(e, a)) + OneIfOwing(x, e, a) - OneIfOwing(session[s], e, a)
    BY <2>2, Counts
  <2>4. Cardinality(Sent(e)') = Cardinality(Sent(e))
    BY <2>3 DEF OneIfSent
  <2>5. Cardinality(Owing(e, a)') = Cardinality(Owing(e, a))
    BY <2>1, <2>3 DEF OneIfOwing
  <2>6. Cardinality(Uncommitted(e)') <= Cardinality(Uncommitted(e))
    BY <2>3 DEF OneIfOpen
  <2>. QED
    BY <2>3, <2>4, <2>5, <2>6
<1>2. Together(e)'
  <2>1. e.to # Team => e.to \in Agents /\ tasks[e][e.to] \in Nat
    BY Numbers
  <2>2. Cardinality(Sessions) \in Nat
    BY IntakeAssumption, FS_CardinalityType
  <2>. QED
    BY <1>1, <2>1, <2>2, Numbers DEF Together
<1>3. Booked(e)'
  BY <1>1, Numbers DEF Booked
<1>4. \A a \in Agents : Called(e, a)'
  BY <1>1, Numbers DEF Called
<1>5. OnePerId'
  BY DEF OnePerId, IntakeInv
<1>. QED
  BY <1>2, <1>3, <1>4, <1>5, OneMoves

(***************************************************************************)
(* The order of a session.                                                 *)
(***************************************************************************)
LEMMA OrderIs == ASSUME NEW e
                 PROVE  /\ After(e, "received") = "committing"
                        /\ After(e, "committing") = IF e.to = Team THEN "publishing" ELSE "posting"
                        /\ After(e, "posting") = IF e.to = Team THEN "ending" ELSE "publishing"
                        /\ After(e, "publishing") = IF e.to = Team THEN "posting" ELSE "ending"
<1>. DEFINE o == Order(e)
            place(pc) == CHOOSE i \in 1 .. 4 : o[i] = pc
<1>1. CASE e.to = Team
  <2>1. o[1] = "received" /\ o[2] = "committing" /\ o[3] = "publishing" /\ o[4] = "posting" /\ o[5] = "ending"
    BY <1>1 DEF Order
  <2>. HIDE DEF o
  <2>2. place("received") = 1 /\ place("committing") = 2 /\ place("publishing") = 3 /\ place("posting") = 4
    <3>1. \A i \in 1 .. 4 : i = 1 \/ i = 2 \/ i = 3 \/ i = 4
      OBVIOUS
    <3>. QED
      BY <2>1, <3>1
  <2>. QED
    BY <1>1, <2>1, <2>2 DEF After, o
<1>2. CASE e.to # Team
  <2>1. o[1] = "received" /\ o[2] = "committing" /\ o[3] = "posting" /\ o[4] = "publishing" /\ o[5] = "ending"
    BY <1>2 DEF Order
  <2>. HIDE DEF o
  <2>2. place("received") = 1 /\ place("committing") = 2 /\ place("posting") = 3 /\ place("publishing") = 4
    <3>1. \A i \in 1 .. 4 : i = 1 \/ i = 2 \/ i = 3 \/ i = 4
      OBVIOUS
    <3>. QED
      BY <2>1, <3>1
  <2>. QED
    BY <1>2, <2>1, <2>2 DEF After, o
<1>. QED
  BY <1>1, <1>2

(***************************************************************************)
(* The steps of a session.                                                 *)
(***************************************************************************)
LEMMA AtWork ==
  ASSUME IntakeInv, NEW s \in Sessions, session[s] # Idle
  PROVE  /\ session[s] \in Working /\ session[s].envelope \in Envelopes
         /\ session[s].left \subseteq Agents /\ session[s].pc \in Stage
  BY DEF IntakeInv, TypeOK, Working

LEMMA Typing ==
  ASSUME IntakeInv, NEW s \in Sessions, NEW x \in SessionType, session' = [session EXCEPT ![s] = x]
  PROVE  /\ session' \in [Sessions -> SessionType]
         /\ session'[s] = x /\ \A t \in Sessions \ {s} : session'[t] = session[t]
  BY DEF IntakeInv, TypeOK, SessionType

LEMMA SendStep == ASSUME IntakeInv, NEW s \in Sessions, NEW e \in Envelopes, Send(s, e) PROVE IntakeInv'
<1>. DEFINE x == [pc |-> "received", envelope |-> e, left |-> {}]
<1>1. x \in SessionType /\ x # Idle
  BY DEF SessionType, Working, Stage, Idle
<1>2. session' = [session EXCEPT ![s] = x] /\ UNCHANGED <<reachable, tasks, posted, inbox, audited, lost>>
      /\ session[s] = Idle /\ ~Repeated(e)
  BY DEF Send
<1>3. TypeOK' /\ OnePerId'
  BY <1>1, <1>2, Typing DEF IntakeInv, TypeOK, OnePerId, SessionType
<1>4. ~InSent(session[s], e) /\ ~InSent(x, e)
  BY <1>2 DEF InSent, InSending
<1>. HIDE DEF x
<1>5. OneIfSent(x, e) = 0 /\ OneIfSent(session[s], e) = 0
  BY <1>4 DEF OneIfSent
<1>6. ASSUME NEW a PROVE OneIfOwing(x, e, a) = 0 /\ OneIfOwing(session[s], e, a) = 0
  BY <1>4 DEF OneIfOwing, InOwing
<1>7. ASSUME NEW a
      PROVE  /\ Cardinality(Sent(e)') = Cardinality(Sent(e)) /\ Cardinality(Owing(e, a)') = Cardinality(Owing(e, a))
             /\ Cardinality(Sent(e)) \in Nat /\ Cardinality(Owing(e, a)) \in Nat
  <2>1. session'[s] = x /\ \A t \in Sessions \ {s} : session'[t] = session[t]
    BY <1>1, <1>2, Typing
  <2>. QED
    BY <1>5, <1>6, <2>1, Counts
<1>8. Booked(e)' /\ \A a \in Agents : Called(e, a)'
  BY <1>2, <1>7, Numbers DEF Booked, Called
<1>9. Together(e)'
  <2>. SUFFICES ASSUME e.to # Team, e.id = NoId
                PROVE  tasks[e][e.to] + Cardinality(Uncommitted(e)') <= Cardinality(Sessions)
    BY <1>2 DEF Together
  <2>1. e.to \in Agents /\ tasks[e][e.to] \in Nat /\ ~(tasks[e][e.to] > 0)
    BY <1>2, Numbers DEF Repeated
  <2>2. Uncommitted(e)' \subseteq Sessions
    BY DEF Uncommitted, Sending
  <2>3. PICK U : U = Uncommitted(e)'
    OBVIOUS
  <2>4. Cardinality(U) <= Cardinality(Sessions) /\ Cardinality(U) \in Nat
    BY <2>2, <2>3, IntakeAssumption, FS_Subset, FS_CardinalityType
  <2>. QED
    BY <2>1, <2>3, <2>4
<1>10. x.envelope = e /\ x.pc # "committing"
  BY DEF x
<1>. QED
  BY <1>1, <1>2, <1>3, <1>8, <1>9, <1>10, OneMoves

LEMMA ResolveStep == ASSUME IntakeInv, NEW s \in Sessions, Resolve(s) PROVE IntakeInv'
<1>1. /\ session[s] # Idle /\ session[s].pc = "received" /\ session[s].envelope \in Envelopes
      /\ UNCHANGED <<reachable, tasks, posted, inbox, audited, lost>>
  <2>1. session[s] # Idle
    BY DEF Resolve, Idle
  <2>. QED
    BY <2>1, AtWork DEF Resolve
<1>2. PICK e \in Envelopes : e = session[s].envelope
  BY <1>1
<1>3. PICK left : left = Recipients(e)
  OBVIOUS
<1>4. left \subseteq Agents /\ (e.to # Team => left \subseteq {e.to})
  BY <1>3 DEF Recipients, IntakeInv, TypeOK
<1>5. PICK x \in SessionType :
        /\ session' = [session EXCEPT ![s] = x]
        /\ x # Idle => x.envelope = e /\ x.pc = "committing" /\ x.left = left /\ left # {}
        /\ ~InSent(x, e)
  <2>1. CASE left = {}
    BY <1>2, <1>3, <2>1 DEF Resolve, SessionType, InSent, InSending
  <2>2. CASE left # {}
    <3>. DEFINE y == [session[s] EXCEPT !.pc = "committing", !.left = left]
    <3>1. y \in Working /\ y.envelope = e /\ y.pc = "committing" /\ y.left = left
      BY <1>1, <1>4, <1>2, AtWork DEF Working, Stage
    <3>2. session' = [session EXCEPT ![s] = y]
      BY <1>1, <1>2, <1>3, <2>2, OrderIs DEF Resolve, Proceed, IntakeInv, TypeOK
    <3>3. ~InSent(y, e)
      BY <3>1 DEF InSent
    <3>. QED
      BY <2>2, <3>1, <3>2, <3>3 DEF SessionType
  <2>. QED
    BY <2>1, <2>2
<1>6. TypeOK'
  BY <1>1, <1>5, Typing DEF IntakeInv, TypeOK, SessionType
<1>7. ~InSent(session[s], e) /\ InSending(session[s], e)
  BY <1>1, <1>2 DEF InSent, InSending
<1>8. x.pc = "committing" => x.left # {} /\ (e.to # Team => x.left = {e.to})
  <2>1. x.pc = "committing" => x # Idle
    BY DEF Idle
  <2>2. left # {} /\ e.to # Team => left = {e.to}
    BY <1>4
  <2>. QED
    BY <1>5, <2>1, <2>2
<1>9. UNCHANGED <<tasks, posted, audited, lost>> /\ session[s].envelope = e /\ (x # Idle => x.envelope = e)
  BY <1>1, <1>5, <1>2
<1>. QED
  BY <1>5, <1>6, <1>7, <1>8, <1>9, Goes

LEMMA CommitStep == ASSUME IntakeInv, NEW s \in Sessions, Commit(s) PROVE IntakeInv'
<1>1. /\ session[s] # Idle /\ session[s].pc = "committing" /\ session[s] \in Working
      /\ session[s].envelope \in Envelopes /\ session[s].left \subseteq Agents /\ Addressed(s)
      /\ UNCHANGED <<reachable, posted, inbox, audited, lost>>
  <2>1. session[s] # Idle
    BY DEF Commit, Idle
  <2>. QED
    BY <2>1, AtWork DEF Commit, IntakeInv
<1>2. PICK e \in Envelopes : e = session[s].envelope
  BY <1>1
<1>3. PICK left : left = session[s].left
  OBVIOUS
<1>4. left \subseteq Agents /\ left # {} /\ (e.to # Team => left = {e.to})
  BY <1>1, <1>2, <1>3 DEF Addressed
<1>5. ~InSent(session[s], e) /\ InSending(session[s], e)
  BY <1>1, <1>2 DEF InSent, InSending
<1>6. CASE e.to # Team /\ e.id # NoId /\ IdTaken(e.id)
  <2>1. session' = [session EXCEPT ![s] = Idle] /\ UNCHANGED tasks
    BY <1>2, <1>6 DEF Commit
  <2>2. ~InSent(Idle, e) /\ Idle \in SessionType /\ Idle.pc # "committing"
    BY DEF InSent, InSending, SessionType, Idle
  <2>3. TypeOK'
    BY <1>1, <2>1, <2>2, Typing DEF IntakeInv, TypeOK, SessionType
  <2>4. ~InSending(Idle, e)
    BY DEF InSending
  <2>. QED
    BY <1>1, <1>2, <1>5, <2>1, <2>2, <2>3, <2>4, Goes
<1>7. CASE ~(e.to # Team /\ e.id # NoId /\ IdTaken(e.id))
  <2>1. PICK pc \in {"posting", "publishing"} : pc = After(e, "committing")
    BY OrderIs
  <2>2. PICK x \in Working : /\ session' = [session EXCEPT ![s] = x]
                             /\ x.pc = pc /\ x.envelope = e /\ x.left = left
    <3>. DEFINE y == [session[s] EXCEPT !.pc = pc]
    <3>1. y \in Working /\ y.pc = pc /\ y.envelope = e /\ y.left = left
      BY <1>1, <1>2, <1>3 DEF Working, Stage
    <3>2. session' = [session EXCEPT ![s].pc = pc]
      BY <1>1, <1>2, <1>7, <2>1 DEF Commit, Proceed
    <3>3. session' = [session EXCEPT ![s] = y]
      BY <3>2 DEF IntakeInv, TypeOK
    <3>. QED
      BY <3>1, <3>3
  <2>3. tasks' = [tasks EXCEPT ![e] = [a \in Agents |-> IF a \in left THEN tasks[e][a] + 1 ELSE tasks[e][a]]]
    <3>1. tasks' = [tasks EXCEPT ![e] = [a \in Agents |-> IF a \in session[s].left THEN @[a] + 1 ELSE @[a]]]
      BY <1>1, <1>2, <1>7 DEF Commit
    <3>. QED
      BY <1>3, <3>1
  <2>4. /\ tasks' \in [Envelopes -> [Agents -> Nat]]
        /\ \A f \in Envelopes \ {e} : tasks'[f] = tasks[f]
        /\ \A a \in Agents : tasks'[e][a] = IF a \in left THEN tasks[e][a] + 1 ELSE tasks[e][a]
    BY <2>3 DEF IntakeInv, TypeOK
  <2>5. x \in SessionType /\ x # Idle /\ InSent(x, e) /\ InSending(x, e) /\ x.pc # "committing"
    <3>1. x # Idle
      BY <2>1, <2>2 DEF Idle
    <3>. QED
      BY <2>1, <2>2, <3>1 DEF InSent, InSending, SessionType
  <2>6. TypeOK'
    BY <1>1, <2>2, <2>4, <2>5, Typing DEF IntakeInv, TypeOK, SessionType
  <2>7. /\ OneIfSent(x, e) = 1 /\ OneIfSent(session[s], e) = 0
        /\ OneIfOpen(x, e) = 0 /\ OneIfOpen(session[s], e) = 1
    BY <1>5, <2>5 DEF OneIfSent, OneIfOpen
  <2>8. ASSUME NEW a
        PROVE  OneIfOwing(x, e, a) = (IF a \in left THEN 1 ELSE 0) /\ OneIfOwing(session[s], e, a) = 0
    BY <1>5, <2>2, <2>5 DEF OneIfOwing, InOwing
  <2>9. ASSUME NEW a
        PROVE  /\ Cardinality(Sent(e)') = Cardinality(Sent(e)) + 1
               /\ Cardinality(Uncommitted(e)') = Cardinality(Uncommitted(e)) - 1
               /\ Cardinality(Owing(e, a)') = Cardinality(Owing(e, a)) + (IF a \in left THEN 1 ELSE 0)
               /\ Cardinality(Sent(e)) \in Nat /\ Cardinality(Owing(e, a)) \in Nat
               /\ Cardinality(Uncommitted(e)) \in Nat
    <3>1. session'[s] = x /\ \A t \in Sessions \ {s} : session'[t] = session[t]
      BY <2>2, <2>5, Typing
    <3>. QED
      BY <2>7, <2>8, <3>1, Counts
  <2>10. Booked(e)'
    <3>. SUFFICES ASSUME e.to # Team
                  PROVE  tasks'[e][e.to] = audited[e] + lost[e] + Cardinality(Sent(e)')
      BY <1>1 DEF Booked
    <3>1. e.to \in Agents /\ e.to \in left
      BY <1>4, Numbers
    <3>2. Cardinality(Sent(e)') = Cardinality(Sent(e)) + 1 /\ Cardinality(Sent(e)) \in Nat
      BY <2>9
    <3>3. tasks'[e][e.to] = tasks[e][e.to] + 1
      BY <2>4, <3>1
    <3>4. /\ tasks[e][e.to] = audited[e] + lost[e] + Cardinality(Sent(e))
          /\ audited[e] \in Nat /\ lost[e] \in Nat
      BY Numbers DEF Booked
    <3>. QED
      BY <3>2, <3>3, <3>4
  <2>11. ASSUME NEW a \in Agents PROVE Called(e, a)'
    BY <1>1, <2>4, <2>9, Numbers DEF Called
  <2>12. Together(e)'
    <3>. SUFFICES ASSUME e.to # Team, e.id = NoId
                  PROVE  tasks'[e][e.to] + Cardinality(Uncommitted(e)') <= Cardinality(Sessions)
      BY DEF Together
    <3>1. e.to \in Agents /\ e.to \in left /\ Cardinality(Sessions) \in Nat
      BY <1>4, Numbers, IntakeAssumption, FS_CardinalityType
    <3>. QED
      BY <2>4, <2>9, <3>1, Numbers DEF Together
  <2>13. OnePerId'
    <3>1. ASSUME e.to # Team, e.id # NoId, NEW f \in Envelopes, f.to # Team, f.id = e.id
          PROVE  tasks[f][f.to] = 0
      <4>1. f.to \in Agents /\ tasks[f][f.to] \in Nat
        BY <3>1, Numbers
      <4>. QED
        BY <1>7, <3>1, <4>1 DEF IdTaken
    <3>2. ASSUME NEW f \in Envelopes, f.to # Team, f.id # NoId PROVE tasks'[f][f.to] <= 1
      <4>1. CASE f = e
        BY <1>7, <2>4, <3>1, <3>2, <4>1, Numbers
      <4>2. CASE f # e
        BY <2>4, <3>2, <4>2 DEF IntakeInv, OnePerId
      <4>. QED
        BY <4>1, <4>2
    <3>3. ASSUME NEW f \in Envelopes, NEW g \in Envelopes, f.to # Team, g.to # Team, f.id = g.id, f.id # NoId,
                 tasks'[f][f.to] > 0, tasks'[g][g.to] > 0
          PROVE  f = g
      <4>1. CASE f # e /\ g # e
        BY <2>4, <3>3, <4>1 DEF IntakeInv, OnePerId
      <4>2. CASE f = e
        BY <2>4, <3>1, <3>3, <4>2
      <4>3. CASE g = e
        BY <2>4, <3>1, <3>3, <4>3
      <4>. QED
        BY <4>1, <4>2, <4>3
    <3>. QED
      BY <3>2, <3>3 DEF OnePerId
  <2>. QED
    BY <1>1, <1>2, <2>2, <2>4, <2>5, <2>6, <2>10, <2>11, <2>12, <2>13, OneMoves
<1>. QED
  BY <1>6, <1>7

LEMMA PostStep ==
  ASSUME IntakeInv, NEW s \in Sessions, NEW b \in Agents, Post(s, b)
  PROVE  IntakeInv'
<1>1. /\ session[s] # Idle /\ session[s].pc = "posting" /\ session[s] \in Working
      /\ session[s].envelope \in Envelopes /\ b \in session[s].left
      /\ UNCHANGED <<reachable, tasks, inbox, audited, lost>>
  <2>1. session[s] # Idle
    BY DEF Post, Idle
  <2>. QED
    BY <2>1, AtWork DEF Post
<1>2. PICK e \in Envelopes : e = session[s].envelope
  BY <1>1
<1>3. PICK x \in Working : /\ session' = [session EXCEPT ![s] = x]
                           /\ x.pc \in {"posting", "publishing", "ending"} /\ x.envelope = e
                           /\ x.left = session[s].left \ {b}
  <2>1. PICK pc \in {"publishing", "ending"} : pc = After(e, "posting")
    BY OrderIs
  <2>2. CASE session[s].left = {b}
    <3>. DEFINE y == [session[s] EXCEPT !.pc = pc, !.left = {}]
    <3>1. y \in Working /\ y.pc = pc /\ y.envelope = e /\ y.left = {}
      BY <1>1, <1>2 DEF Working, Stage
    <3>2. session' = [session EXCEPT ![s] = y]
      BY <1>1, <1>2, <2>1, <2>2 DEF Post, Proceed, IntakeInv, TypeOK
    <3>. QED
      BY <2>2, <3>1, <3>2
  <2>3. CASE session[s].left # {b}
    <3>. DEFINE y == [session[s] EXCEPT !.left = session[s].left \ {b}]
    <3>1. y \in Working /\ y.pc = "posting" /\ y.envelope = e /\ y.left = session[s].left \ {b}
      BY <1>1, <1>2 DEF Working
    <3>2. session' = [session EXCEPT ![s] = y]
      BY <2>3 DEF Post, IntakeInv, TypeOK
    <3>. QED
      BY <3>1, <3>2
  <2>. QED
    BY <2>2, <2>3
<1>4. /\ posted' \in [Envelopes -> [Agents -> Nat]]
      /\ \A f \in Envelopes \ {e} : posted'[f] = posted[f]
      /\ \A a \in Agents : posted'[e][a] = IF a = b THEN posted[e][a] + 1 ELSE posted[e][a]
  BY <1>2 DEF Post, IntakeInv, TypeOK
<1>5. /\ x \in SessionType /\ x # Idle /\ x.pc # "committing"
      /\ InSent(x, e) /\ InSending(x, e) /\ InSent(session[s], e)
  <2>1. x # Idle
    BY <1>3 DEF Idle
  <2>. QED
    BY <1>1, <1>2, <1>3, <2>1 DEF InSent, InSending, SessionType
<1>6. TypeOK' /\ OnePerId'
  BY <1>1, <1>3, <1>4, <1>5, Typing DEF IntakeInv, TypeOK, SessionType, OnePerId
<1>7. /\ OneIfSent(x, e) = 1 /\ OneIfSent(session[s], e) = 1
      /\ OneIfOpen(x, e) = 0 /\ OneIfOpen(session[s], e) = 0
  BY <1>5 DEF OneIfSent, OneIfOpen
<1>8. ASSUME NEW a
      PROVE  /\ OneIfOwing(x, e, a) = IF a \in session[s].left \ {b} THEN 1 ELSE 0
             /\ OneIfOwing(session[s], e, a) = IF a \in session[s].left THEN 1 ELSE 0
  BY <1>3, <1>5 DEF OneIfOwing, InOwing
<1>9. session'[s] = x /\ \A t \in Sessions \ {s} : session'[t] = session[t]
  BY <1>3, <1>5, Typing
<1>10. ASSUME NEW a
       PROVE  /\ Cardinality(Sent(e)') = Cardinality(Sent(e)) /\ Cardinality(Sent(e)) \in Nat
              /\ Cardinality(Uncommitted(e)') = Cardinality(Uncommitted(e))
              /\ Cardinality(Owing(e, a)) \in Nat
              /\ Cardinality(Owing(e, a)') = IF a = b THEN Cardinality(Owing(e, a)) - 1
                                                      ELSE Cardinality(Owing(e, a))
  BY <1>1, <1>7, <1>8, <1>9, Counts
<1>11. Together(e)' /\ Booked(e)'
  <2>1. /\ Cardinality(Sent(e)') = Cardinality(Sent(e))
        /\ Cardinality(Uncommitted(e)') = Cardinality(Uncommitted(e))
    BY <1>10
  <2>. QED
    BY <1>1, <2>1, Numbers DEF Together, Booked
<1>12. ASSUME NEW a \in Agents PROVE Called(e, a)'
  BY <1>1, <1>4, <1>10, Numbers DEF Called
<1>. QED
  BY <1>1, <1>2, <1>3, <1>4, <1>5, <1>6, <1>11, <1>12, OneMoves

LEMMA PublishStep == ASSUME IntakeInv, NEW s \in Sessions, Publish(s) PROVE IntakeInv'
<1>1. /\ session[s] # Idle /\ session[s].pc = "publishing" /\ session[s] \in Working
      /\ session[s].envelope \in Envelopes
      /\ UNCHANGED <<reachable, tasks, posted, audited, lost>>
  <2>1. session[s] # Idle
    BY DEF Publish, Idle
  <2>. QED
    BY <2>1, AtWork DEF Publish
<1>2. PICK e \in Envelopes : e = session[s].envelope
  BY <1>1
<1>3. PICK pc \in {"posting", "ending"} : pc = After(e, "publishing")
  BY OrderIs
<1>4. PICK x \in Working : /\ session' = [session EXCEPT ![s] = x]
                           /\ x.pc = pc /\ x.envelope = e /\ x.left = session[s].left
  <2>. DEFINE y == [session[s] EXCEPT !.pc = pc]
  <2>1. y \in Working /\ y.pc = pc /\ y.envelope = e /\ y.left = session[s].left
    BY <1>1, <1>2 DEF Working, Stage
  <2>2. session' = [session EXCEPT ![s] = y]
    BY <1>1, <1>2, <1>3 DEF Publish, Proceed, IntakeInv, TypeOK
  <2>. QED
    BY <2>1, <2>2
<1>5. /\ x \in SessionType /\ x # Idle /\ x.pc # "committing"
      /\ InSent(x, e) /\ InSent(session[s], e) /\ InSending(session[s], e)
  <2>1. x # Idle
    BY <1>3, <1>4 DEF Idle
  <2>. QED
    BY <1>1, <1>2, <1>3, <1>4, <2>1 DEF InSent, InSending, SessionType
<1>6. inbox' \in [Envelopes -> Nat]
  <2>1. inbox \in [Envelopes -> Nat] /\ inbox[e] + 1 \in Nat
    BY DEF IntakeInv, TypeOK
  <2>2. inbox' = inbox \/ inbox' = [inbox EXCEPT ![e] = @ + 1]
    BY <1>2 DEF Publish
  <2>. QED
    BY <2>1, <2>2
<1>7. TypeOK'
  BY <1>1, <1>4, <1>5, <1>6, Typing DEF IntakeInv, TypeOK, SessionType
<1>. QED
  BY <1>1, <1>2, <1>4, <1>5, <1>7, Goes

(* The session ends, or is lost, after its commit: a send is booked as     *)
(* audited or lost instead of sent.                                        *)
LEMMA Leaves ==
  ASSUME IntakeInv, NEW s \in Sessions, session[s] # Idle, Committed(s),
         session' = [session EXCEPT ![s] = Idle],
         UNCHANGED <<reachable, tasks, posted, inbox>>,
         \/ audited' = [audited EXCEPT ![session[s].envelope] = @ + 1] /\ UNCHANGED lost
         \/ lost' = [lost EXCEPT ![session[s].envelope] = @ + 1] /\ UNCHANGED audited
  PROVE  IntakeInv'
<1>1. PICK e \in Envelopes : e = session[s].envelope
  BY AtWork
<1>2. Idle \in SessionType /\ Idle.pc # "committing" /\ ~InSending(Idle, e) /\ ~InSent(Idle, e)
  BY DEF SessionType, Idle, InSending, InSent
<1>3. InSent(session[s], e) /\ InSending(session[s], e)
  BY <1>1 DEF InSent, InSending, Committed
<1>4. /\ {audited', lost'} \subseteq [Envelopes -> Nat]
      /\ audited'[e] + lost'[e] = audited[e] + lost[e] + 1
      /\ \A f \in Envelopes \ {e} : audited'[f] = audited[f] /\ lost'[f] = lost[f]
  <2>1. {audited, lost} \subseteq [Envelopes -> Nat]
    BY DEF IntakeInv, TypeOK
  <2>2. CASE audited' = [audited EXCEPT ![e] = @ + 1] /\ UNCHANGED lost
    BY <2>1, <2>2
  <2>3. CASE lost' = [lost EXCEPT ![e] = @ + 1] /\ UNCHANGED audited
    BY <2>1, <2>3
  <2>. QED
    BY <1>1, <2>2, <2>3
<1>5. TypeOK' /\ OnePerId'
  BY <1>2, <1>4, Typing DEF IntakeInv, TypeOK, SessionType, OnePerId
<1>6. /\ OneIfSent(Idle, e) = 0 /\ OneIfSent(session[s], e) = 1
      /\ OneIfOpen(Idle, e) = 0 /\ OneIfOpen(session[s], e) = 0
  BY <1>2, <1>3 DEF OneIfSent, OneIfOpen
<1>7. ASSUME NEW a PROVE OneIfOwing(Idle, e, a) = 0 /\ OneIfOwing(session[s], e, a) \in {0, 1}
  BY <1>2 DEF OneIfOwing, InOwing
<1>8. session'[s] = Idle /\ \A t \in Sessions \ {s} : session'[t] = session[t]
  BY <1>2, Typing
<1>9. ASSUME NEW a
      PROVE  /\ Cardinality(Sent(e)') = Cardinality(Sent(e)) - 1
             /\ Cardinality(Sent(e)) \in Nat /\ Cardinality(Sent(e)') \in Nat
             /\ Cardinality(Uncommitted(e)') = Cardinality(Uncommitted(e))
             /\ Cardinality(Owing(e, a)) \in Nat /\ Cardinality(Owing(e, a)') \in Nat
             /\ Cardinality(Owing(e, a)') <= Cardinality(Owing(e, a))
  BY <1>6, <1>7, <1>8, Counts
<1>10. /\ Cardinality(Sent(e)') = Cardinality(Sent(e)) - 1
       /\ Cardinality(Sent(e)) \in Nat /\ Cardinality(Sent(e)') \in Nat
       /\ Cardinality(Uncommitted(e)') = Cardinality(Uncommitted(e))
  BY <1>9
<1>11. Together(e)'
  BY <1>10, Numbers DEF Together
<1>12. audited'[e] \in Nat /\ lost'[e] \in Nat
  BY <1>4
<1>13. Booked(e)'
  <2>. SUFFICES ASSUME e.to # Team
                PROVE  tasks[e][e.to] = audited'[e] + lost'[e] + Cardinality(Sent(e)')
    BY DEF Booked
  <2>1. /\ tasks[e][e.to] = audited[e] + lost[e] + Cardinality(Sent(e))
        /\ audited[e] \in Nat /\ lost[e] \in Nat
    BY Numbers DEF Booked
  <2>. QED
    BY <1>4, <1>10, <1>12, <2>1
<1>14. ASSUME NEW a \in Agents PROVE Called(e, a)'
  <2>1. /\ tasks[e][a] <= audited[e] + lost[e] + Cardinality(Sent(e))
        /\ posted[e][a] + Cardinality(Owing(e, a)) <= tasks[e][a]
        /\ audited[e] \in Nat /\ lost[e] \in Nat /\ tasks[e][a] \in Nat /\ posted[e][a] \in Nat
    BY Numbers DEF Called
  <2>2. tasks[e][a] <= audited'[e] + lost'[e] + Cardinality(Sent(e)')
    BY <1>4, <1>10, <1>12, <2>1
  <2>3. posted[e][a] + Cardinality(Owing(e, a)') <= tasks[e][a]
    BY <1>9, <2>1
  <2>. QED
    BY <2>2, <2>3 DEF Called
<1>. QED
  BY <1>1, <1>2, <1>4, <1>5, <1>11, <1>13, <1>14, OneMoves

LEMMA EndStep == ASSUME IntakeInv, NEW s \in Sessions, End(s) PROVE IntakeInv'
<1>1. session[s] # Idle /\ Committed(s)
  BY DEF End, Idle, Committed
<1>. QED
  BY <1>1, Leaves DEF End

LEMMA LoseStep == ASSUME IntakeInv, NEW s \in Sessions, Lose(s) PROVE IntakeInv'
<1>1. session[s] # Idle /\ session' = [session EXCEPT ![s] = Idle]
      /\ UNCHANGED <<reachable, tasks, posted, inbox, audited>>
  BY DEF Lose
<1>2. CASE Committed(s)
  <2>1. lost' = [lost EXCEPT ![session[s].envelope] = @ + 1]
    BY <1>2 DEF Lose
  <2>. QED
    BY <1>1, <1>2, <2>1, Leaves
<1>3. CASE ~Committed(s)
  <2>1. PICK e \in Envelopes : e = session[s].envelope
    BY <1>1, AtWork
  <2>2. Idle \in SessionType /\ Idle.pc # "committing" /\ ~InSending(Idle, e) /\ ~InSent(Idle, e)
    BY DEF SessionType, Idle, InSending, InSent
  <2>3. UNCHANGED lost
    BY <1>3 DEF Lose
  <2>4. TypeOK'
    BY <1>1, <2>2, <2>3, Typing DEF IntakeInv, TypeOK, SessionType
  <2>5. ~InSent(session[s], e)
    BY <1>3 DEF InSent, Committed
  <2>. QED
    BY <1>1, <2>1, <2>2, <2>3, <2>4, <2>5, Goes
<1>. QED
  BY <1>2, <1>3

(***************************************************************************)
(* The listener and the agents.                                            *)
(***************************************************************************)
LEMMA NothingMatches == \A e \in Envelopes : ~Matches(Subject(e))
<1>. SUFFICES ASSUME NEW e \in Envelopes PROVE ~Matches(Subject(e))
  OBVIOUS
<1>1. Filter[3] = "+" /\ Len(Filter) = 4
  BY DEF Filter
<1>2. Subject(e)[3] # "+"
  <2>1. CASE e.to = Team
    BY <2>1 DEF Subject
  <2>2. CASE e.to # Team
    BY <2>2, IntakeAssumption DEF Subject
  <2>. QED
    BY <2>1, <2>2
<1>. QED
  BY <1>1, <1>2 DEF Matches

LEMMA OtherSteps ==
  ASSUME IntakeInv, Listen \/ (\E a \in Agents : AgentChanges(a)) \/ UNCHANGED vars
  PROVE  IntakeInv'
<1>1. UNCHANGED <<tasks, session, posted, inbox, audited, lost>> /\ reachable' \subseteq Agents
  <2>1. CASE Listen
    <3>1. {e \in Envelopes : inbox[e] > 0 /\ Matches(Subject(e))} = {}
      BY NothingMatches
    <3>2. /\ posted' = [e \in Envelopes |-> [a \in Agents |-> posted[e][a]]]
          /\ inbox' = [e \in Envelopes |-> inbox[e]]
      BY <2>1, <3>1 DEF Listen
    <3>. QED
      BY <2>1, <3>2 DEF Listen, IntakeInv, TypeOK
  <2>2. CASE \E a \in Agents : AgentChanges(a)
    BY <2>2 DEF AgentChanges, IntakeInv, TypeOK
  <2>3. CASE UNCHANGED vars
    BY <2>3 DEF vars, IntakeInv, TypeOK
  <2>. QED
    BY <2>1, <2>2, <2>3
<1>2. TypeOK'
  BY <1>1 DEF IntakeInv, TypeOK
<1>3. \A e \in Envelopes : Sent(e)' = Sent(e) /\ Uncommitted(e)' = Uncommitted(e)
                         /\ \A a \in Agents : Owing(e, a)' = Owing(e, a)
  BY <1>1 DEF Sent, Sending, Committed, Uncommitted, Owing
<1>. QED
  BY <1>1, <1>2, <1>3 DEF IntakeInv, OnePerId, Addressed, Together, Booked, Called

LEMMA InitIntake == Init => IntakeInv
<1>. SUFFICES ASSUME Init PROVE IntakeInv
  OBVIOUS
<1>1. TypeOK
  BY DEF Init, TypeOK
<1>2. OnePerId
  BY IntakeAssumption DEF Init, OnePerId
<1>3. \A s \in Sessions : Addressed(s)
  BY DEF Init, Addressed, Idle
<1>4. ASSUME NEW e \in Envelopes PROVE Together(e) /\ Booked(e) /\ \A a \in Agents : Called(e, a)
  <2>1. Sent(e) = {} /\ Uncommitted(e) = {} /\ \A a : Owing(e, a) = {}
    BY DEF Init, Sent, Sending, Uncommitted, Owing
  <2>2. Cardinality(Sessions) \in Nat
    BY IntakeAssumption, FS_CardinalityType
  <2>3. Together(e) /\ Booked(e)
    BY <2>1, <2>2, IntakeAssumption, FS_EmptySet DEF Init, Together, Booked
  <2>4. \A a \in Agents : Called(e, a)
    BY <2>1, FS_EmptySet DEF Init, Called
  <2>. QED
    BY <2>3, <2>4
<1>. QED
  BY <1>1, <1>2, <1>3, <1>4 DEF IntakeInv

LEMMA NextIntake == IntakeInv /\ [Next]_vars => IntakeInv'
<1>. SUFFICES ASSUME IntakeInv, [Next]_vars PROVE IntakeInv'
  OBVIOUS
<1>1. ASSUME NEW s \in Sessions, NEW e \in Envelopes, Send(s, e) PROVE IntakeInv'
  BY <1>1, SendStep
<1>2. ASSUME NEW s \in Sessions, Resolve(s) \/ Commit(s) \/ Publish(s) \/ End(s) \/ Lose(s)
      PROVE  IntakeInv'
  BY <1>2, ResolveStep, CommitStep, PublishStep, EndStep, LoseStep
<1>3. ASSUME NEW s \in Sessions, NEW a \in Agents, Post(s, a) PROVE IntakeInv'
  BY <1>3, PostStep
<1>4. CASE Listen \/ (\E a \in Agents : AgentChanges(a)) \/ UNCHANGED vars
  BY <1>4, OtherSteps
<1>. QED
  BY <1>1, <1>2, <1>3, <1>4 DEF Next

(***************************************************************************)
(* The stream: its inductive invariant.                                    *)
(***************************************************************************)

(* A chunk on its way into the table has a predecessor there.              *)
AppendsFollow == \A p \in Appenders :
  append[p] # NoAppend /\ append[p].sequence > 0 => chunks[append[p].sequence - 1] # NoChunk

StreamInv == StreamTypeOK /\ AppendsFollow /\ StreamInOrder

(* What StreamInOrder says of one reader.                                  *)
InOrder(r) ==
  /\ Len(sent[r]) <= LastSequence + 1
  /\ \A k \in 1 .. Len(sent[r]) :
       /\ sent[r][k] = chunks[k - 1] /\ chunks[k - 1] # NoChunk
       /\ sent[r][k].final <=> (reading[r] = "ended" /\ k = Len(sent[r]))
  /\ reading[r] = "ended" => sent[r] # <<>>

GapFree == \A n \in Sequences \ {0} : chunks[n] # NoChunk => chunks[n - 1] # NoChunk

LEMMA InParts == StreamInOrder <=> GapFree /\ \A r \in Readers : InOrder(r)
  BY DEF StreamInOrder, GapFree, InOrder

LEMMA InPartsNext == StreamInOrder' <=> GapFree' /\ \A r \in Readers : InOrder(r)'
  BY DEF StreamInOrder, GapFree, InOrder

LEMMA InitStream == StreamInit => StreamInv
<1>. SUFFICES ASSUME StreamInit PROVE StreamInv
  OBVIOUS
<1>1. StreamTypeOK
  BY DEF StreamInit, StreamTypeOK, TaskStatus
<1>2. AppendsFollow
  BY DEF StreamInit, AppendsFollow
<1>3. GapFree
  BY StreamAssumption DEF StreamInit, GapFree, Sequences
<1>4. \A r \in Readers : InOrder(r)
  BY StreamAssumption DEF StreamInit, InOrder
<1>. QED
  BY <1>1, <1>2, <1>3, <1>4, InParts DEF StreamInv

(***************************************************************************)
(* The steps.                                                              *)
(***************************************************************************)
LEMMA LoadStep ==
  ASSUME StreamInv, NEW p \in Appenders, NEW n \in Sequences, NEW c \in Chunk, LoadAppend(p, n, c)
  PROVE  StreamInv'
<1>1. UNCHANGED <<status, chunks, sent, reading>>
  BY DEF LoadAppend
<1>2. PICK a \in Appending : a = [pc |-> "loaded", sequence |-> n, chunk |-> c, was |-> status]
  BY DEF StreamInv, StreamTypeOK, Appending
<1>3. append' = [append EXCEPT ![p] = a] /\ append \in [Appenders -> {NoAppend} \cup Appending]
  BY <1>2 DEF LoadAppend, StreamInv, StreamTypeOK
<1>4. StreamTypeOK'
  BY <1>1, <1>3 DEF StreamInv, StreamTypeOK
<1>5. AppendsFollow'
  BY <1>1, <1>2, <1>3 DEF LoadAppend, StreamInv, AppendsFollow
<1>. QED
  BY <1>1, <1>4, <1>5 DEF StreamInv, StreamInOrder

(* A chunk gets into a free place that has a predecessor; what readers     *)
(* have seen is not touched.                                               *)
LEMMA AppendStep == ASSUME StreamInv, NEW p \in Appenders, CommitAppend(p) PROVE StreamInv'
<1>. DEFINE n == append[p].sequence
            c == append[p].chunk
<1>1. /\ append \in [Appenders -> {NoAppend} \cup Appending] /\ append[p] \in Appending
      /\ chunks \in [Sequences -> Chunk \cup {NoChunk}] /\ status \in TaskStatus
  BY DEF StreamInv, StreamTypeOK, CommitAppend
<1>2. n \in Sequences /\ c \in Chunk /\ c # NoChunk
  BY <1>1, NoChunkAssumption DEF Appending
<1>3. append' = [append EXCEPT ![p] = NoAppend] /\ UNCHANGED <<sent, reading>>
  BY DEF CommitAppend
<1>4. /\ \A m \in Sequences : chunks[m] # NoChunk => chunks'[m] = chunks[m]
      /\ \A m \in Sequences : chunks'[m] # NoChunk => chunks[m] # NoChunk \/ m = n
      /\ chunks' \in [Sequences -> Chunk \cup {NoChunk}] /\ status' \in TaskStatus
  <2>1. CASE Free(n)
    <3>1. chunks' = [chunks EXCEPT ![n] = c] /\ status' \in TaskStatus /\ chunks[n] = NoChunk
      BY <1>1, <2>1 DEF CommitAppend, Free, TaskStatus
    <3>. HIDE DEF n, c
    <3>. QED
      BY <1>1, <1>2, <3>1
  <2>2. CASE ~Free(n)
    BY <1>1, <2>2 DEF CommitAppend
  <2>. QED
    BY <2>1, <2>2
<1>. HIDE DEF n, c
<1>5. StreamTypeOK'
  BY <1>1, <1>3, <1>4 DEF StreamInv, StreamTypeOK
<1>6. n > 0 => chunks[n - 1] # NoChunk
  BY <1>1 DEF n, StreamInv, AppendsFollow, CommitAppend
<1>7. AppendsFollow'
  <2>. SUFFICES ASSUME NEW q \in Appenders, append'[q] # NoAppend, append'[q].sequence > 0
                PROVE  chunks'[append'[q].sequence - 1] # NoChunk
    BY DEF AppendsFollow
  <2>1. append'[q] = append[q] /\ append[q] \in Appending
    BY <1>1, <1>3
  <2>2. append[q].sequence - 1 \in Sequences
    BY <2>1, StreamAssumption DEF Appending, Sequences
  <2>. QED
    BY <1>4, <2>1, <2>2 DEF StreamInv, AppendsFollow
<1>8. GapFree'
  <2>. SUFFICES ASSUME NEW m \in Sequences \ {0}, chunks'[m] # NoChunk
                PROVE  chunks'[m - 1] # NoChunk
    BY DEF GapFree
  <2>1. m - 1 \in Sequences /\ m > 0
    BY StreamAssumption DEF Sequences
  <2>2. chunks[m - 1] # NoChunk
    BY <1>4, <1>6, <2>1 DEF StreamInv, StreamInOrder
  <2>. QED
    BY <1>4, <2>1, <2>2
<1>9. ASSUME NEW r \in Readers PROVE InOrder(r)'
  <2>1. InOrder(r) /\ Len(sent[r]) \in Nat
    BY InParts DEF StreamInv, StreamTypeOK
  <2>2. \A k \in 1 .. Len(sent[r]) : k - 1 \in Sequences
    BY <2>1, StreamAssumption DEF InOrder, Sequences
  <2>. QED
    BY <1>3, <1>4, <2>1, <2>2 DEF InOrder
<1>. QED
  BY <1>5, <1>7, <1>8, <1>9, InPartsNext DEF StreamInv

(* A poll takes up where the last one ended.                               *)
LEMMA PollStep == ASSUME StreamInv, NEW r \in Readers, Poll(r) PROVE StreamInv'
<1>. DEFINE old == Len(sent[r])
<1>1. /\ reading[r] = "open" /\ sent \in [Readers -> Seq(Chunk)] /\ sent[r] \in Seq(Chunk) /\ old \in Nat
      /\ reading \in [Readers -> {"open", "ended", "left"}]
      /\ chunks \in [Sequences -> Chunk \cup {NoChunk}] /\ UNCHANGED <<status, chunks, append>>
      /\ InOrder(r)
  BY InParts DEF StreamInv, StreamTypeOK, Poll
<1>2. PICK last \in Ready(r) :
        /\ sent' = [sent EXCEPT ![r] = @ \o [k \in 1 .. last + 1 - Len(@) |-> chunks[Len(@) + k - 1]]]
        /\ reading' = IF chunks[last].final THEN [reading EXCEPT ![r] = "ended"] ELSE reading
  BY DEF Poll
<1>3. /\ last \in old .. LastSequence /\ last \in Nat
      /\ \A i \in old .. last : i \in Sequences /\ chunks[i] # NoChunk /\ (i < last => ~chunks[i].final)
  BY <1>1, StreamAssumption DEF Ready, Sequences
<1>. DEFINE more == [k \in 1 .. last + 1 - old |-> chunks[old + k - 1]]
            new  == sent[r] \o more
<1>4. more \in Seq(Chunk) /\ Len(more) = last + 1 - old
  <2>1. \A k \in 1 .. last + 1 - old : chunks[old + k - 1] \in Chunk
    BY <1>1, <1>3
  <2>2. last + 1 - old \in Nat
    BY <1>1, <1>3
  <2>. QED
    BY <2>1, <2>2
<1>5. /\ new \in Seq(Chunk) /\ Len(new) = last + 1
      /\ \A k \in 1 .. old : new[k] = sent[r][k]
      /\ \A k \in old + 1 .. last + 1 : new[k] = chunks[k - 1]
  <2>1. new \in Seq(Chunk) /\ Len(new) = last + 1
    BY <1>1, <1>3, <1>4
  <2>2. \A k \in 1 .. old : new[k] = sent[r][k]
    BY <1>1, <1>4
  <2>3. ASSUME NEW k \in old + 1 .. last + 1 PROVE new[k] = chunks[k - 1]
    <3>1. new[k] = more[k - old]
      BY <1>1, <1>3, <1>4
    <3>2. k - old \in 1 .. last + 1 - old /\ old + (k - old) - 1 = k - 1
      BY <1>1, <1>3
    <3>. QED
      BY <3>1, <3>2
  <2>. QED
    BY <2>1, <2>2, <2>3
<1>6. sent' = [sent EXCEPT ![r] = new] /\ sent'[r] = new
  BY <1>1, <1>2
<1>. HIDE DEF new, more
<1>7. reading'[r] = IF chunks[last].final THEN "ended" ELSE "open"
  BY <1>1, <1>2
<1>8. \A q \in Readers \ {r} : sent'[q] = sent[q] /\ reading'[q] = reading[q]
  BY <1>1, <1>2, <1>6
<1>9. StreamTypeOK'
  <2>1. sent' \in [Readers -> Seq(Chunk)] /\ reading' \in [Readers -> {"open", "ended", "left"}]
    BY <1>1, <1>2, <1>5, <1>6
  <2>. QED
    BY <1>1, <2>1 DEF StreamInv, StreamTypeOK
<1>10. InOrder(r)'
  <2>1. Len(sent'[r]) = last + 1 /\ Len(sent'[r]) <= LastSequence + 1 /\ sent'[r] # <<>>
    BY <1>3, <1>5, <1>6, StreamAssumption
  <2>2. ASSUME NEW k \in 1 .. old
        PROVE  /\ sent'[r][k] = chunks'[k - 1] /\ chunks'[k - 1] # NoChunk
               /\ ~sent'[r][k].final /\ k # last + 1
    BY <1>1, <1>3, <1>5, <1>6 DEF InOrder
  <2>3. ASSUME NEW k \in old + 1 .. last + 1
        PROVE  /\ sent'[r][k] = chunks'[k - 1] /\ chunks'[k - 1] # NoChunk
               /\ sent'[r][k].final <=> (reading'[r] = "ended" /\ k = last + 1)
    <3>1. k - 1 \in old .. last /\ sent'[r][k] = chunks[k - 1]
      BY <1>1, <1>3, <1>5, <1>6
    <3>2. CASE k = last + 1
      BY <1>1, <1>3, <1>7, <3>1, <3>2
    <3>3. CASE k # last + 1
      BY <1>1, <1>3, <3>1, <3>3
    <3>. QED
      BY <3>2, <3>3
  <2>4. \A k \in 1 .. last + 1 : k \in 1 .. old \/ k \in old + 1 .. last + 1
    BY <1>1, <1>3
  <2>. QED
    BY <2>1, <2>2, <2>3, <2>4 DEF InOrder
<1>11. \A q \in Readers \ {r} : InOrder(q)'
  BY <1>1, <1>8, InParts DEF StreamInv, InOrder
<1>12. GapFree' /\ AppendsFollow'
  BY <1>1 DEF StreamInv, StreamInOrder, GapFree, AppendsFollow
<1>. QED
  BY <1>9, <1>10, <1>11, <1>12, InPartsNext DEF StreamInv

LEMMA StreamOthers ==
  ASSUME StreamInv, \/ \E p \in Appenders : DropAppend(p)
                    \/ \E r \in Readers : Leave(r)
                    \/ TaskChanges \/ UNCHANGED streamVars
  PROVE  StreamInv'
<1>1. UNCHANGED <<chunks, sent>>
  BY DEF DropAppend, Leave, TaskChanges, streamVars
<1>2. StreamTypeOK'
  <2>1. status' \in TaskStatus
    BY DEF StreamInv, StreamTypeOK, DropAppend, Leave, TaskChanges, streamVars, TaskStatus
  <2>2. append' \in [Appenders -> {NoAppend} \cup Appending]
    BY DEF StreamInv, StreamTypeOK, DropAppend, Leave, TaskChanges, streamVars
  <2>3. reading' \in [Readers -> {"open", "ended", "left"}]
    BY DEF StreamInv, StreamTypeOK, DropAppend, Leave, TaskChanges, streamVars
  <2>. QED
    BY <1>1, <2>1, <2>2, <2>3 DEF StreamInv, StreamTypeOK
<1>3. \A p \in Appenders : append'[p] = append[p] \/ append'[p] = NoAppend
  BY DEF StreamInv, StreamTypeOK, DropAppend, Leave, TaskChanges, streamVars
<1>4. AppendsFollow'
  BY <1>1, <1>3 DEF StreamInv, AppendsFollow
<1>5. \A r \in Readers : reading'[r] = reading[r] \/ (reading[r] = "open" /\ reading'[r] = "left")
  BY DEF StreamInv, StreamTypeOK, DropAppend, Leave, TaskChanges, streamVars
<1>6. \A r \in Readers : InOrder(r)'
  BY <1>1, <1>5, InParts DEF StreamInv, InOrder
<1>7. GapFree'
  BY <1>1, InParts DEF StreamInv, GapFree
<1>. QED
  BY <1>2, <1>4, <1>6, <1>7, InPartsNext DEF StreamInv

LEMMA NextStream == StreamInv /\ [StreamNext]_streamVars => StreamInv'
<1>. SUFFICES ASSUME StreamInv, [StreamNext]_streamVars PROVE StreamInv'
  OBVIOUS
<1>1. ASSUME NEW p \in Appenders, NEW n \in Sequences, NEW c \in Chunk, LoadAppend(p, n, c) PROVE StreamInv'
  BY <1>1, LoadStep
<1>2. ASSUME NEW p \in Appenders, CommitAppend(p) PROVE StreamInv'
  BY <1>2, AppendStep
<1>3. ASSUME NEW r \in Readers, Poll(r) PROVE StreamInv'
  BY <1>3, PollStep
<1>4. CASE (\E p \in Appenders : DropAppend(p)) \/ (\E r \in Readers : Leave(r)) \/ TaskChanges \/ UNCHANGED streamVars
  BY <1>4, StreamOthers
<1>. QED
  BY <1>1, <1>2, <1>3, <1>4 DEF StreamNext

(***************************************************************************)
(* The theorems.                                                           *)
(***************************************************************************)
(* The strengthened invariant holds in every state of the intake.          *)
THEOREM IntakeInvariance == Spec => []IntakeInv
  BY InitIntake, NextIntake, PTL DEF Spec

(* Whatever is lost, and however sends and repetitions interleave, a task  *)
(* has its send, a send its task, and a call its task.                     *)
THEOREM BooksAgree == Spec => []SendsAccounted
  BY IntakeInvariance, Implied, PTL

(* One task for an id; of an envelope without id only those of the sends   *)
(* that were under way together.                                           *)
THEOREM RepeatsAreBounded == Spec => []RepeatsOnlyTogether
  BY IntakeInvariance, Implied, PTL

(* The stream has no gap, and readers yield prefixes of it that end with   *)
(* the final chunk: for the stream on its own ...                          *)
THEOREM ReadersInOrder == StreamSpec => []StreamInOrder
<1>1. StreamInv => StreamInOrder
  BY DEF StreamInv
<1>. QED
  BY <1>1, InitStream, NextStream, PTL DEF StreamSpec

(* ... and next to the intake that makes its task.                         *)
THEOREM SystemInOrder == System => []StreamInOrder
<1>1. SystemInit => StreamInv
  BY InitStream DEF SystemInit
<1>2. StreamInv /\ [SystemNext]_<<vars, streamVars>> => StreamInv'
  BY NextStream DEF SystemNext
<1>3. StreamInv => StreamInOrder
  BY DEF StreamInv
<1>. QED
  BY <1>1, <1>2, <1>3, PTL DEF System

(* In the two together the books of the intake agree as well.              *)
THEOREM SystemKeepsBooks == System => [](SendsAccounted /\ RepeatsOnlyTogether)
<1>1. SystemInit => IntakeInv
  BY InitIntake DEF SystemInit
<1>2. IntakeInv /\ [SystemNext]_<<vars, streamVars>> => IntakeInv'
  <2>1. IntakeInv /\ UNCHANGED vars => IntakeInv'
    BY NextIntake
  <2>. QED
    BY <2>1, NextIntake DEF SystemNext
<1>. QED
  BY <1>1, <1>2, Implied, PTL DEF System
===============================================================================

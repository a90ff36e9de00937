----------------------------- MODULE PrivacyProofs -----------------------------
(***************************************************************************)
(* Proofs of a task's outcome (core/privacy_proofs.py) and where they are  *)
(* kept (services/privacy.py, api/v1/privacy.py): a commitment to zero or  *)
(* one, with a Schnorr proof that it is one of the two.  A participant     *)
(* creates it, once per task; anybody may have it verified, at any time.   *)
(*                                                                         *)
(* The group is a parameter; in the code P has 1024 bits, 2 generates the  *)
(* squares and 5 is not a square.  A nonce is the exponent it hashes to.   *)
(***************************************************************************)
EXTENDS Integers

CONSTANTS
  P, G, H,       \* _P, _G and _H
  Hash(_, _, _, _), \* SHA-256 of a task, a commitment and two announcements, modulo Q
  ProofTasks, Actors,
  Parties,       \* the sender and the recipient of each task
  Provers,       \* the sessions that may be open at the same time
  NoProof

Q        == (P - 1) \div 2
Exponent == 0 .. Q - 1
Element  == 1 .. P - 1

(* pow(b, e, P), for an exponent that is not negative.                     *)
Power(b, e) == LET f[n \in 0 .. e] == IF n = 0 THEN 1 ELSE (b * f[n - 1]) % P IN f[e]

(* pow(b, -e, P)                                                           *)
InverseOf(b)         == CHOOSE x \in Element : (b * x) % P = 1
InversePower(b, e) == Power(InverseOf(b), e)

ASSUME GroupAssumption ==
  /\ P \in Nat /\ Q > 1 /\ {G, H} \subseteq Element
  /\ \A b \in Element : \E x \in Element : (b * x) % P = 1
  /\ Power(G, Q) = 1
  /\ \A t \in ProofTasks, c, x, y \in Element : Hash(t, c, x, y) \in Exponent

VARIABLES
  proofs,  \* task_privacy_proofs
  proving  \* the task each session has found without a proof

proofVars == <<proofs, proving>>

Proof == [task : ProofTasks, commitment : Element,
          a : [{0, 1} -> Element],   \* a0 and a1
          c : [{0, 1} -> Exponent],  \* c0 and c1
          s : [{0, 1} -> Nat]]       \* s0 and s1, of which the true one is not reduced

ProofInit ==
  /\ proofs = [t \in ProofTasks |-> NoProof]
  /\ proving = [p \in Provers |-> NoProof]

--------------------------------------------------------------------------------
(* The commitment over H to the outcome of branch b, which is a power of G *)
(* in the true branch.                                                     *)
BranchValue(commitment, b) == (commitment * InversePower(H, b)) % P

(* Mutant: the false branch is not taken off the challenge.                *)
WholeChallenge(challenge, cFalse) == challenge

(* What the hash leaves to the true branch of the challenge.               *)
TrueChallenge(challenge, cFalse) == (challenge - cFalse) % Q

(* create_binary_outcome_proof, of outcome, from the exponent of the nonce *)
(* and three random ones, two of which make up the false branch.           *)
NewProof(t, outcome, r, cFalse, sFalse, k) ==
  LET commitment == (Power(G, r) * Power(H, outcome)) % P
      aFalse     == (Power(G, sFalse) * InversePower(BranchValue(commitment, 1 - outcome), cFalse)) % P
      aTrue      == Power(G, k)
      Branches(true, false) == [b \in {0, 1} |-> IF b = outcome THEN true ELSE false]
      a          == Branches(aTrue, aFalse)
      cTrue      == TrueChallenge(Hash(t, commitment, a[0], a[1]), cFalse)
  IN  [task |-> t, commitment |-> commitment, a |-> a,
       c |-> Branches(cTrue, cFalse), s |-> Branches(k + cTrue * r, sFalse)]

(* verify_binary_outcome_proof                                             *)
Verifies(p) ==
  /\ (p.c[0] + p.c[1]) % Q = Hash(p.task, p.commitment, p.a[0], p.a[1])
  /\ \A b \in {0, 1} :
       Power(G, p.s[b] % Q) = (p.a[b] * Power(BranchValue(p.commitment, b), p.c[b])) % P

--------------------------------------------------------------------------------
(* create looks for a proof of the task, and inserts its own later.        *)
FindNone(s, t, actor) ==
  /\ proving[s] = NoProof
  /\ actor \in Parties[t]
  /\ proofs[t] = NoProof
  /\ proving' = [proving EXCEPT ![s] = t]
  /\ UNCHANGED proofs

(* The answer to create once there is a proof, and to verify.              *)
Recall(s, t) ==
  /\ proving[s] = NoProof
  /\ proofs[t] # NoProof
  /\ UNCHANGED proofVars

Insert(s, outcome, r, cFalse, sFalse, k) ==
  /\ proving[s] # NoProof
  /\ proofs[proving[s]] = NoProof
  /\ proofs' = [proofs EXCEPT ![proving[s]] = NewProof(proving[s], outcome, r, cFalse, sFalse, k)]
  /\ proving' = [proving EXCEPT ![s] = NoProof]

(* The insertion fails on the unique key, or the session does before it.   *)
Rollback(s) ==
  /\ proving[s] # NoProof
  /\ proving' = [proving EXCEPT ![s] = NoProof]
  /\ UNCHANGED proofs

ProofNext == \E s \in Provers :
  \/ \E t \in ProofTasks, actor \in Actors : FindNone(s, t, actor)
  \/ \E t \in ProofTasks : Recall(s, t)
  \/ \E outcome \in {0, 1}, r, cFalse, sFalse, k \in Exponent :
       Insert(s, outcome, r, cFalse, sFalse, k)
  \/ Rollback(s)

ProofSpec == ProofInit /\ [][ProofNext]_proofVars

--------------------------------------------------------------------------------
ProofTypeOK ==
  /\ proofs \in [ProofTasks -> Proof \cup {NoProof}]
  /\ proving \in [Provers -> ProofTasks \cup {NoProof}]

(* Whatever the outcome, the nonce and the random exponents, a proof that  *)
(* is stored is one of its task and verifies; and who has been given it    *)
(* can rely on it: it is never replaced by one of another outcome,         *)
(* although sessions look for a proof first and insert theirs later.       *)
ProofsStand == [][\A t \in ProofTasks : proofs'[t] # proofs[t] =>
  proofs[t] = NoProof /\ proofs'[t].task = t /\ Verifies(proofs'[t])]_proofVars
================================================================================

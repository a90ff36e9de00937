------------------------------ MODULE EscrowLedger ------------------------------
(***************************************************************************)
(* What the marketplace's escrow ledger promises (models/marketplace.py,   *)
(* docs/DATA_MODEL.md, "marketplace_escrows"): an escrow is held, may be   *)
(* disputed once, and is settled at most once.  Escrows only leave the     *)
(* ledger together with the listing they were made for.                    *)
(***************************************************************************)
EXTENDS Naturals

CONSTANT Escrows  \* identifiers escrows may get

VARIABLE ledger   \* what the ledger says of each of them

State == {"absent", "held", "disputed", "released", "refunded", "gone"}

Init == ledger = [e \in Escrows |-> "absent"]

Move(e, from, to) ==
  /\ ledger[e] \in from
  /\ ledger' = [ledger EXCEPT ![e] = to]

Hold(e)    == Move(e, {"absent"}, "held")
Release(e) == Move(e, {"held"}, "released")
Dispute(e) == Move(e, {"held"}, "disputed")
Refund(e)  == Move(e, {"held", "disputed"}, "refunded")

(* The escrows of a withdrawn listing leave the ledger, whatever they say. *)
Remove(E) ==
  /\ \A e \in E : ledger[e] # "absent"
  /\ ledger' = [e \in Escrows |-> IF e \in E THEN "gone" ELSE ledger[e]]

Next ==
  \/ \E e \in Escrows : Hold(e) \/ Release(e) \/ Dispute(e) \/ Refund(e)
  \/ \E E \in SUBSET Escrows : Remove(E)

Spec == Init /\ [][Next]_ledger
================================================================================

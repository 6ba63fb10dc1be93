-------------------------- MODULE ApprovedPayments --------------------------
(***************************************************************************)
(* What the whole system promises the person who approves payments: money  *)
(* moves only on an approval, for exactly what was approved, at most once  *)
(* per approval and UTC day; and nobody is told that an approval was paid   *)
(* before money moved on it.                                               *)
(***************************************************************************)
CONSTANTS Approvals, Payments, Days, NotApproved

VARIABLES
  approved,   \* per approval: the payment it is for, or NotApproved
  transfers,  \* the money that moved: approval, payment and day
  receipts    \* the approvals some caller was told were paid
vars == <<approved, transfers, receipts>>

Init ==
  /\ approved = [n \in Approvals |-> NotApproved]
  /\ transfers = {}
  /\ receipts = {}

Approve(n, p) ==
  /\ approved[n] = NotApproved
  /\ approved' = [approved EXCEPT ![n] = p]
  /\ UNCHANGED <<transfers, receipts>>

Transfer(n, d) ==
  /\ approved[n] # NotApproved
  /\ \A t \in transfers : t.approval = n => t.day # d
  /\ transfers' = transfers \cup {[approval |-> n, payment |-> approved[n], day |-> d]}
  /\ UNCHANGED <<approved, receipts>>

Receipt(n) ==
  /\ \E t \in transfers : t.approval = n
  /\ receipts' = receipts \cup {n}
  /\ UNCHANGED <<approved, transfers>>

Next ==
  \E n \in Approvals :
    \/ \E p \in Payments : Approve(n, p)
    \/ \E d \in Days : Transfer(n, d)
    \/ Receipt(n)

Spec == Init /\ [][Next]_vars
=============================================================================

----------------------------- MODULE DailyBudget -----------------------------
(***************************************************************************)
(* What the enclave contract promises about a day's money, free of how it   *)
(* is kept (README.md:42 "The daily ledger is cumulative and lives in the   *)
(* enclave.  Split payments still sum"): each UTC day has a total that only *)
(* grows, by at least one unit at a time and never past the cap; one        *)
(* receipt is issued exactly when a total grows; and a day whose total is   *)
(* no longer known is closed for good.                                     *)
(***************************************************************************)
EXTENDS Integers

CONSTANTS Days, Payers, Cap, Closed

VARIABLES
  total,    \* per day, the money paid out, or Closed
  receipts  \* who holds a receipt
vars == <<total, receipts>>

Init == total = [d \in Days |-> 0] /\ receipts = {}

Pay(d, p, amount) ==
  /\ total[d] # Closed
  /\ total[d] + amount <= Cap
  /\ p \notin receipts
  /\ total' = [total EXCEPT ![d] = @ + amount]
  /\ receipts' = receipts \cup {p}

Close(d) ==
  /\ total' = [total EXCEPT ![d] = Closed]
  /\ UNCHANGED receipts

Next ==
  \E d \in Days : Close(d) \/ \E p \in Payers, amount \in 1 .. Cap : Pay(d, p, amount)

Spec == Init /\ [][Next]_vars
=============================================================================

---------------------------- MODULE MCVendorGuard ----------------------------
(***************************************************************************)
(* A small instance of the whole system: one process, two attempts, one     *)
(* or two approvals, a day and the next.                                    *)
(***************************************************************************)
EXTENDS VendorGuard, TLC

CONSTANTS v1

\* One payment of 2 fits a day, a second one does not.
MCDefaultPolicy == [single |-> 3, daily |-> 3, memoOver |-> 3,
                    allowed |-> {"USD"}, blocked |-> {}]

ActiveVendor == [currency |-> "USD", country |-> "ID", active |-> TRUE]
MCVendorRecords == {ActiveVendor}

Approved == [vendor |-> v1, amount |-> 2, currency |-> "USD", memo |-> "none"]
MCIntents == {Approved, [Approved EXCEPT !.amount = 1, !.memo = "text"]}

\* What is approved and then asked for again, on the same day or the next.
MCOneIntent == {Approved}

\* Bounds on the states looked at.  The token is for the larger payment, and one call
\* at least asks for it; one call at most is tried twice; no line of the log is torn.
\* Of three things one at most comes up: a call for another payment, a registry that
\* is not set up or is written, a midnight, which falls once a payout has begun.
OtherIntent == intent \notin [Attempts -> {Approved}]
RegistryMoves == registry \notin [VendorIds -> VendorRecords]
Bounded ==
  /\ \A n \in Nonces : minted[n] # NoToken => minted[n].intent = Approved
  /\ \E a \in Attempts : intent[a] = Approved
  /\ Cardinality(retried) <= 1 /\ ~torn
  /\ OtherIntent => ~RegistryMoves
  /\ day > 0 => ~OtherIntent /\ ~RegistryMoves /\ \E i \in Tries : stage[i] # "idle" /\ at[i] = 0

Symmetry == Permutations(Attempts) \cup Permutations(Procs) \cup Permutations(Nonces)
=============================================================================

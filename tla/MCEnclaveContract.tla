-------------------------- MODULE MCEnclaveContract --------------------------
(***************************************************************************)
(* Small instances of EnclaveContract.  The compiled-in caps are scaled     *)
(* down (single 3, daily 4, a memo from 3 on); the amounts are one that     *)
(* fits twice, the single cap, and one over it.                             *)
(***************************************************************************)
EXTENDS EnclaveContract, TLC

CONSTANTS i1, i2, i3, v1

MCDefaultPolicy == [single |-> 3, daily |-> 4, memoOver |-> 3,
                    allowed |-> {"USD"}, blocked |-> {}]

ActiveVendor == [currency |-> "USD", country |-> "ID", active |-> TRUE]
MCVendorRecords == {ActiveVendor}

\* A tenant tightens the daily cap, and tries to raise the others.
MCOverrideRecords ==
  {[NoOverrides EXCEPT !.daily = 3, !.single = 9, !.allowed = {"USD", "GBP"}]}

Request(amount, currency, memo, ref) ==
  [vendor |-> v1, amount |-> amount, currency |-> currency, memo |-> memo, ref |-> ref]

\* Two that are paid, and one each that the caps, the allow-list, the rule for ids
\* and the bound on references are for.
Good == {Request(2, "USD", "none", "r1"), Request(3, "USD", "text", "r2")}
MCRequests ==
  Good \cup {Request(4, "USD", "text", "r1"), Request(0, "USD", "none", "r1"),
            Request(2, "GBP", "none", "r1"), Request(2, "USD", "none", BadRef),
            [Request(2, "USD", "none", "r1") EXCEPT !.vendor = UnsafeId]}

\* Bound on the states looked at: at most one payout is asked for what will not do,
\* and then before midnight only.
OneBadInput ==
  LET bad == {i \in Invs : req[i] \notin Good}
  IN  bad = {} \/ (Cardinality(bad) = 1 /\ day = 0)

Symmetry == Permutations(Invs)
=============================================================================

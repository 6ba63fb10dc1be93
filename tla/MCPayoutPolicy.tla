--------------------------- MODULE MCPayoutPolicy ---------------------------
(***************************************************************************)
(* A small instance of PolicyDay: overrides, vendors and payments on both   *)
(* sides of every limit, and a ledger that grows past the daily cap.         *)
(***************************************************************************)
EXTENDS PolicyDay

MCCurrencies == {"USD", "EUR", "GBP"}
MCCountries  == {"ID", "US"}
MCDefaultPolicy == [single |-> 10, daily |-> 20, memoOver |-> 4,
                    allowed |-> {"USD", "EUR"}, blocked |-> {}]

\* On both sides of every default, and the list fields with and without a
\* currency the build does not sanction.
MCOverrides ==
  [single   : {5, 10, 12, Unset},
   daily    : {9, 30, Unset},
   memoOver : {2, 6, Unset},
   allowed  : {{}, {"USD", "GBP"}, Unset},
   blocked  : {{"ID"}, Unset}]

MCVendors == {NoVendor} \cup [currency : {"USD", "GBP"}, country : {"ID"}, active : BOOLEAN]

MCIntents == [amount   : {0, 1, 4, 9, 10, 11, U64Max},
              currency : {"USD", "GBP"},
              memo     : {"none", "text"}]

\* Sums that reach the daily cap exactly, pass it, and run into the end of the type.
MCCounted == {8, 12, U64Max}
=============================================================================

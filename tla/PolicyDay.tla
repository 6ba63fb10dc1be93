------------------------------ MODULE PolicyDay ------------------------------
(***************************************************************************)
(* A payout request judged by the policy engine while the day's ledger      *)
(* grows under it: the tenant's override, the vendor and the request stay,    *)
(* and other payouts are counted in between.  Every state is one evaluation  *)
(* (contract/src/api.rs, check_payout and payout).  A sum is added to the     *)
(* counter as add_daily_spent does, which checks no limit of its own: up to   *)
(* the end of the counter's type.                                            *)
(***************************************************************************)
EXTENDS PayoutPolicy

CONSTANTS
  OverrideChoices,  \* overrides the tenant may have written
  VendorChoices,    \* vendor records, and NoVendor
  IntentChoices,    \* payments that may be asked for
  Counted,          \* amounts counted in between
  LedgerBound       \* nothing more is counted once the counter has passed this

AllIntents == [amount : U64, currency : Currencies, memo : Memos]

\* The name of a limit is no currency code.
ASSUME DayAssumption ==
  /\ OverrideChoices \subseteq Overrides
  /\ VendorChoices \subseteq Vendors \cup {NoVendor}
  /\ IntentChoices \subseteq AllIntents
  /\ Counted \subseteq U64
  /\ LedgerBound \in U64
  /\ Currencies \cap {"single", "daily", "memoOver"} = {}

VARIABLES
  ov,      \* the tenant's override
  vendor,  \* the record of the vendor to be paid
  intent,  \* the payment asked for
  spent    \* the day's ledger

vars == <<ov, vendor, intent, spent>>

Init ==
  /\ ov \in OverrideChoices
  /\ vendor \in VendorChoices
  /\ intent \in IntentChoices
  /\ spent = 0

\* Another payout is counted; the counter saturates.
Spend ==
  /\ spent <= LedgerBound
  /\ \E n \in Counted : spent' = Saturate(spent + n)
  /\ UNCHANGED <<ov, vendor, intent>>

Spec == Init /\ [][Spend]_vars
-----------------------------------------------------------------------------
\* The policy in force, and what it decides.
Effective == TightenedWith(DefaultPolicy, ov)
Verdict == Decision(Evaluate(Effective, vendor, intent, spent))

\* Every state is a call the engine can receive, and tightening yields a policy.
TypeOK ==
  /\ ov \in Overrides
  /\ vendor \in Vendors \cup {NoVendor}
  /\ intent \in AllIntents
  /\ spent \in U64
  /\ Effective \in Policies

\* Whatever the tenant's override holds, no payout is judged more leniently
\* than under the compiled-in policy: tightened_with may turn an allow into a
\* review or a deny and never the reverse, and no hard-deny reason disappears.
TighteningNeverLoosens ==
  JudgedAsStrictly(Effective, DefaultPolicy, vendor, intent, spent)

\* An override entry is never dropped silently: each numeric limit is either
\* in force or noted as ignored, and so is each listed currency; a listed
\* country is always in force.
OverrideInForceOrNoted ==
  /\ \A f \in {"single", "daily", "memoOver"} :
       ov[f] # Unset => (Effective[f] = ov[f]) # (f \in Ignored(DefaultPolicy, ov))
  /\ ov.allowed # Unset =>
       /\ Effective.allowed \subseteq ov.allowed
       /\ ov.allowed \ Effective.allowed = Ignored(DefaultPolicy, ov) \cap Currencies
  /\ ov.blocked # Unset => ov.blocked \subseteq Effective.blocked

\* A payout that is not denied really fits: the true, unbounded sum of the
\* ledger and the amount is within the effective daily cap.  The code compares
\* a saturated sum, and no value of the ledger or of the amount may slip past it.
NotDeniedFitsCaps ==
  Verdict # "deny" =>
    /\ intent.amount \in 1 .. DefaultPolicy.single
    /\ intent.amount <= Effective.single
    /\ spent + intent.amount <= Effective.daily

\* As the day's ledger grows, the same intent is never judged more leniently:
\* a split payment cannot talk its way back from review or deny.
StricterAsLedgerGrows ==
  [][Strictness(Verdict') >= Strictness(Verdict)]_vars
=============================================================================

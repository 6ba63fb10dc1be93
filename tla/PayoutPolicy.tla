---------------------------- MODULE PayoutPolicy ----------------------------
(***************************************************************************)
(* The payout policy engine of the enclave contract                        *)
(* (contract/src/policy.rs): the limits a payout is judged by, the tenant's *)
(* overrides that may only tighten them, and the decision.                 *)
(* An operator commented "Variant" is a wrong version of the operator after *)
(* it, kept to show that the properties notice the difference.             *)
(*                                                                         *)
(* Amounts are unsigned integers in minor units, at most U64Max, and the   *)
(* two saturating operations of the code saturate there.  The code compares *)
(* currencies and countries up to ASCII case: here a currency or a country *)
(* stands for its whole case class.  A memo is only told apart by whether  *)
(* it is absent, blank once trimmed, or has text.                          *)
(***************************************************************************)
EXTENDS Integers, FiniteSets

CONSTANTS
  U64Max,         \* the largest u64
  Currencies,     \* currency codes, sanctioned by the build or not
  Countries,      \* country codes
  DefaultPolicy,  \* the compiled-in limits
  NoVendor,       \* "this vendor id is not registered"
  Unset           \* "the override leaves this field alone"

U64 == 0 .. U64Max

Policies == [single   : U64,                \* max_single_payout
             daily    : U64,                \* max_daily_total
             memoOver : U64,                \* require_memo_over
             allowed  : SUBSET Currencies,  \* allowed_currencies
             blocked  : SUBSET Countries]   \* blocked_countries

\* The build's daily cap (1,000,000) is far below the largest u64.
ASSUME PolicyAssumption ==
  /\ U64Max \in Nat
  /\ DefaultPolicy \in Policies
  /\ DefaultPolicy.daily < U64Max

Overrides == [single   : U64 \cup {Unset},
              daily    : U64 \cup {Unset},
              memoOver : U64 \cup {Unset},
              allowed  : (SUBSET Currencies) \cup {Unset},
              blocked  : (SUBSET Countries) \cup {Unset}]

Vendors == [currency : Currencies, country : Countries, active : BOOLEAN]

Memos == {"none", "blank", "text"}

\* Variants: sums wrap around, or overflow.
SaturateWraps(n) == n % (U64Max + 1)
SaturateNot(n) == n

Saturate(n) == IF n > U64Max THEN U64Max ELSE n

-----------------------------------------------------------------------------
(* Evaluation: every rule is applied, the codes of all that fire are        *)
(* collected.                                                               *)

VendorReasons(p, v, currency) ==
  IF v = NoVendor
  THEN {"vendor_unknown"}
  ELSE {c \in {"vendor_inactive", "vendor_country_blocked", "currency_mismatch"} :
          \/ c = "vendor_inactive"        /\ ~v.active
          \/ c = "vendor_country_blocked" /\ v.country \in p.blocked
          \/ c = "currency_mismatch"      /\ v.currency # currency}

\* "Near" is at least nine tenths of the cap; both sides saturate.
Near(amount, cap) ==
  /\ amount <= cap
  /\ Saturate(amount * 100) >= Saturate(cap * 90)

AmountReasons(p, amount, currency, memo, spent) ==
  LET projected == Saturate(spent + amount) IN
  {c \in {"currency_not_allowed", "amount_zero", "amount_exceeds_single_cap",
          "daily_cap_exceeded", "memo_required", "near_single_cap", "near_daily_cap"} :
     \/ c = "currency_not_allowed"      /\ currency \notin p.allowed
     \/ c = "amount_zero"               /\ amount = 0
     \/ c = "amount_exceeds_single_cap" /\ amount > p.single
     \/ c = "daily_cap_exceeded"        /\ projected > p.daily
     \/ c = "memo_required"             /\ amount >= p.memoOver /\ memo # "text"
     \/ c = "near_single_cap"           /\ Near(amount, p.single)
     \/ c = "near_daily_cap"            /\ Near(projected, p.daily)}

Evaluate(p, v, intent, spent) ==
  VendorReasons(p, v, intent.currency)
    \cup AmountReasons(p, intent.amount, intent.currency, intent.memo, spent)

\* Variant: exceeding the daily cap is only advisory.
DenyCodesDailyAdvisory ==
  {"vendor_unknown", "vendor_inactive", "vendor_country_blocked",
   "currency_mismatch", "currency_not_allowed", "amount_zero",
   "amount_exceeds_single_cap", "memo_required"}

DenyCodes ==
  {"vendor_unknown", "vendor_inactive", "vendor_country_blocked",
   "currency_mismatch", "currency_not_allowed", "amount_zero",
   "amount_exceeds_single_cap", "daily_cap_exceeded", "memo_required"}

ReviewCodes == {"near_single_cap", "near_daily_cap"}

Decision(reasons) ==
  IF reasons \cap DenyCodes # {} THEN "deny"
  ELSE IF reasons \cap ReviewCodes # {} THEN "review"
  ELSE "allow"

-----------------------------------------------------------------------------
(* Tenant overrides: caps and the memo threshold can only be lowered, the   *)
(* currency list only narrowed, the country list only extended.             *)

\* Variant: an override that is set replaces the limit.
LoweredReplaces(limit, v) == IF v # Unset THEN v ELSE limit

Lowered(limit, v) == IF v # Unset /\ v < limit THEN v ELSE limit

TightenedWith(p, ov) ==
  [single   |-> Lowered(p.single, ov.single),
   daily    |-> Lowered(p.daily, ov.daily),
   memoOver |-> Lowered(p.memoOver, ov.memoOver),
   allowed  |-> IF ov.allowed # Unset THEN p.allowed \cap ov.allowed ELSE p.allowed,
   blocked  |-> IF ov.blocked # Unset THEN p.blocked \cup ov.blocked ELSE p.blocked]

\* Variant: only a cap's own note is written, currencies are dropped silently.
IgnoredCapsOnly(p, ov) == {f \in {"single", "daily", "memoOver"} : ov[f] # Unset /\ ov[f] > p[f]}

\* The override entries that were refused, each reported by a note.
Ignored(p, ov) ==
  {f \in {"single", "daily", "memoOver"} : ov[f] # Unset /\ ov[f] > p[f]}
    \cup (IF ov.allowed # Unset THEN ov.allowed \ p.allowed ELSE {})

-----------------------------------------------------------------------------
(* Ordering of decisions, for stating what "stricter" means.                *)

Strictness(decision) ==
  CASE decision = "allow" -> 0 [] decision = "review" -> 1 [] decision = "deny" -> 2

\* A payout is judged by p at least as strictly as by q, and for every reason
\* q denies it.
JudgedAsStrictly(p, q, v, intent, spent) ==
  LET byP == Evaluate(p, v, intent, spent)
      byQ == Evaluate(q, v, intent, spent)
  IN  /\ Strictness(Decision(byP)) >= Strictness(Decision(byQ))
      /\ byQ \cap DenyCodes \subseteq byP
=============================================================================

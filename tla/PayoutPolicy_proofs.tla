------------------------- MODULE PayoutPolicy_proofs -------------------------
(***************************************************************************)
(* Proofs about the policy engine, for every policy, override, vendor,      *)
(* intent and ledger value.                                                *)
(***************************************************************************)
EXTENDS PayoutPolicy, TLAPS

\* Lowering a limit gives a limit of the same type, no higher than before
\* (policy.rs:413-442).
LEMMA LoweredIsLower ==
  ASSUME NEW limit \in U64, NEW v \in U64 \cup {Unset}
  PROVE  Lowered(limit, v) \in U64 /\ Lowered(limit, v) <= limit
<1>. U64Max \in Nat
  BY PolicyAssumption
<1>. QED
  BY DEF Lowered, U64

\* Saturation never leaves the type, preserves order and is exact below the
\* largest u64.
LEMMA SaturateBounds ==
  ASSUME NEW m \in Nat, NEW n \in Nat, m <= n
  PROVE  /\ Saturate(m) \in U64
         /\ Saturate(m) <= Saturate(n)
         /\ Saturate(m) < U64Max => Saturate(m) = m
BY PolicyAssumption DEF Saturate, U64

\* policy p is at least as strict as policy q in every field.
AtLeastAsStrict(p, q) ==
  /\ p.single <= q.single
  /\ p.daily <= q.daily
  /\ p.memoOver <= q.memoOver
  /\ p.allowed \subseteq q.allowed
  /\ q.blocked \subseteq p.blocked

\* tightened_with yields a policy that is at least as strict in every field,
\* whatever the override holds (the invariant policy.rs:396-397 states).
THEOREM TightenedIsStricter ==
  ASSUME NEW p \in Policies, NEW ov \in Overrides
  PROVE  /\ TightenedWith(p, ov) \in Policies
         /\ AtLeastAsStrict(TightenedWith(p, ov), p)
<1>. DEFINE t == TightenedWith(p, ov)
<1>1. /\ p.single \in U64 /\ p.daily \in U64 /\ p.memoOver \in U64
      /\ p.allowed \subseteq Currencies /\ p.blocked \subseteq Countries
  BY DEF Policies
<1>2. /\ ov.single \in U64 \cup {Unset} /\ ov.daily \in U64 \cup {Unset}
      /\ ov.memoOver \in U64 \cup {Unset}
      /\ ov.allowed # Unset => ov.allowed \subseteq Currencies
      /\ ov.blocked # Unset => ov.blocked \subseteq Countries
  BY DEF Overrides
<1>3. t.single \in U64 /\ t.single <= p.single
  BY <1>1, <1>2, LoweredIsLower DEF TightenedWith
<1>4. t.daily \in U64 /\ t.daily <= p.daily
  BY <1>1, <1>2, LoweredIsLower DEF TightenedWith
<1>5. t.memoOver \in U64 /\ t.memoOver <= p.memoOver
  BY <1>1, <1>2, LoweredIsLower DEF TightenedWith
<1>6. t.allowed \subseteq Currencies /\ t.allowed \subseteq p.allowed
  BY <1>1 DEF TightenedWith
<1>7. t.blocked \subseteq Countries /\ p.blocked \subseteq t.blocked
  BY <1>1, <1>2 DEF TightenedWith
<1>8. t = [single |-> t.single, daily |-> t.daily, memoOver |-> t.memoOver,
           allowed |-> t.allowed, blocked |-> t.blocked]
  BY DEF TightenedWith
<1>9. t \in Policies
  <2>. HIDE DEF t
  <2>. QED
    BY <1>3, <1>4, <1>5, <1>6, <1>7, <1>8 DEF Policies
<1>. QED
  BY <1>3, <1>4, <1>5, <1>6, <1>7, <1>9 DEF AtLeastAsStrict

\* A stricter policy keeps every hard-deny reason of the laxer one.
LEMMA StricterKeepsDenials ==
  ASSUME NEW p \in Policies, NEW q \in Policies, AtLeastAsStrict(p, q),
         NEW v, NEW amount \in Nat, NEW currency, NEW memo, NEW spent \in Nat
  PROVE  /\ VendorReasons(q, v, currency) \subseteq VendorReasons(p, v, currency)
         /\ AmountReasons(q, amount, currency, memo, spent) \cap DenyCodes
              \subseteq AmountReasons(p, amount, currency, memo, spent)
<1>1. VendorReasons(q, v, currency) \subseteq VendorReasons(p, v, currency)
  BY DEF VendorReasons, AtLeastAsStrict
<1>2. ASSUME NEW c \in AmountReasons(q, amount, currency, memo, spent) \cap DenyCodes
      PROVE  c \in AmountReasons(p, amount, currency, memo, spent)
  <2>. DEFINE projected == Saturate(spent + amount)
  <2>1. projected \in U64
    BY SaturateBounds
  <2>2. /\ p.single \in Nat /\ p.daily \in Nat /\ p.memoOver \in Nat
        /\ q.single \in Nat /\ q.daily \in Nat /\ q.memoOver \in Nat
        /\ projected \in Nat
    BY <2>1, PolicyAssumption DEF Policies, U64
  <2>3. c \notin ReviewCodes
    BY DEF ReviewCodes, DenyCodes
  <2>. HIDE DEF projected
  <2>4. \/ c = "currency_not_allowed"      /\ currency \notin q.allowed
        \/ c = "amount_zero"               /\ amount = 0
        \/ c = "amount_exceeds_single_cap" /\ amount > q.single
        \/ c = "daily_cap_exceeded"        /\ projected > q.daily
        \/ c = "memo_required"             /\ amount >= q.memoOver /\ memo # "text"
    BY <2>3 DEF AmountReasons, projected, ReviewCodes
  <2>5. \/ c = "currency_not_allowed"      /\ currency \notin p.allowed
        \/ c = "amount_zero"               /\ amount = 0
        \/ c = "amount_exceeds_single_cap" /\ amount > p.single
        \/ c = "daily_cap_exceeded"        /\ projected > p.daily
        \/ c = "memo_required"             /\ amount >= p.memoOver /\ memo # "text"
    BY <2>2, <2>4 DEF AtLeastAsStrict
  <2>. QED
    BY <2>5 DEF AmountReasons, projected
<1>. QED
  BY <1>1, <1>2

\* Under a lower cap an amount that was near the old one is near or over it.
LEMMA NearSurvivesLowering ==
  ASSUME NEW amount \in Nat, NEW low \in Nat, NEW cap \in Nat, low <= cap, Near(amount, cap)
  PROVE  amount > low \/ Near(amount, low)
<1>1. low * 90 \in Nat /\ cap * 90 \in Nat /\ low * 90 <= cap * 90 /\ amount * 100 \in Nat
  OBVIOUS
<1>2. Saturate(low * 90) <= Saturate(cap * 90)
  BY <1>1, SaturateBounds
<1>3. Saturate(low * 90) \in Nat /\ Saturate(cap * 90) \in Nat /\ Saturate(amount * 100) \in Nat
  BY <1>1, PolicyAssumption DEF Saturate
<1>4. Saturate(amount * 100) >= Saturate(low * 90)
  BY <1>2, <1>3 DEF Near
<1>. QED
  BY <1>4 DEF Near

\* A stricter policy keeps every review signal of the laxer one, or denies.
LEMMA StricterKeepsReviews ==
  ASSUME NEW p \in Policies, NEW q \in Policies, AtLeastAsStrict(p, q),
         NEW amount \in Nat, NEW currency, NEW memo, NEW spent \in Nat,
         AmountReasons(q, amount, currency, memo, spent) \cap ReviewCodes # {}
  PROVE  AmountReasons(p, amount, currency, memo, spent)
           \cap (ReviewCodes \cup DenyCodes) # {}
<1>. DEFINE projected == Saturate(spent + amount)
            reasons == AmountReasons(p, amount, currency, memo, spent)
<1>1. /\ projected \in Nat
      /\ p.single \in Nat /\ p.daily \in Nat /\ q.single \in Nat /\ q.daily \in Nat
      /\ p.single <= q.single /\ p.daily <= q.daily
  BY SaturateBounds, PolicyAssumption DEF Policies, U64, AtLeastAsStrict
<1>2. Near(amount, q.single) \/ Near(projected, q.daily)
  BY DEF AmountReasons, ReviewCodes
<1>3. CASE Near(amount, q.single)
  <2>1. amount > p.single \/ Near(amount, p.single)
    BY <1>1, <1>3, NearSurvivesLowering
  <2>2. "amount_exceeds_single_cap" \in reasons \/ "near_single_cap" \in reasons
    BY <2>1 DEF AmountReasons
  <2>. QED
    BY <2>2 DEF ReviewCodes, DenyCodes
<1>4. CASE Near(projected, q.daily)
  <2>. HIDE DEF projected
  <2>1. projected > p.daily \/ Near(projected, p.daily)
    BY <1>1, <1>4, NearSurvivesLowering
  <2>2. "daily_cap_exceeded" \in reasons \/ "near_daily_cap" \in reasons
    BY <2>1 DEF AmountReasons, projected
  <2>. QED
    BY <2>2 DEF ReviewCodes, DenyCodes
<1>. QED
  BY <1>2, <1>3, <1>4

\* A stricter policy never judges a payout more leniently.
THEOREM StricterJudgesAsStrictly ==
  ASSUME NEW p \in Policies, NEW q \in Policies, AtLeastAsStrict(p, q),
         NEW v, NEW intent, intent.amount \in Nat, NEW spent \in Nat
  PROVE  JudgedAsStrictly(p, q, v, intent, spent)
<1>. DEFINE byP == Evaluate(p, v, intent, spent)
            byQ == Evaluate(q, v, intent, spent)
            amountP == AmountReasons(p, intent.amount, intent.currency, intent.memo, spent)
            amountQ == AmountReasons(q, intent.amount, intent.currency, intent.memo, spent)
            vendorP == VendorReasons(p, v, intent.currency)
            vendorQ == VendorReasons(q, v, intent.currency)
<1>1. byP = vendorP \cup amountP /\ byQ = vendorQ \cup amountQ
  BY DEF Evaluate
<1>2. byQ \cap DenyCodes \subseteq byP
  <2>1. vendorQ \subseteq vendorP /\ amountQ \cap DenyCodes \subseteq amountP
    BY StricterKeepsDenials
  <2>. QED
    BY <1>1, <2>1
<1>3. amountQ \cap ReviewCodes # {} => amountP \cap (ReviewCodes \cup DenyCodes) # {}
  BY StricterKeepsReviews
<1>4. vendorQ \cap ReviewCodes = {}
  BY DEF VendorReasons, ReviewCodes
<1>5. Decision(byP) \in {"allow", "review", "deny"} /\ Decision(byQ) \in {"allow", "review", "deny"}
  BY DEF Decision
<1>6. Decision(byQ) = "deny" => Decision(byP) = "deny"
  BY <1>2 DEF Decision
<1>7. Decision(byQ) = "review" => Decision(byP) # "allow"
  <2>. HIDE DEF byP, byQ, amountP, amountQ, vendorP, vendorQ
  <2>. SUFFICES ASSUME Decision(byQ) = "review" PROVE Decision(byP) # "allow"
    OBVIOUS
  <2>1. byQ \cap ReviewCodes # {}
    BY DEF Decision
  <2>2. byP \cap (ReviewCodes \cup DenyCodes) # {}
    BY <1>1, <1>3, <1>4, <2>1
  <2>. QED
    BY <2>2 DEF Decision
<1>8. Strictness(Decision(byP)) >= Strictness(Decision(byQ))
  <2>. HIDE DEF byP, byQ
  <2>. QED
    BY <1>5, <1>6, <1>7 DEF Strictness
<1>. QED
  BY <1>2, <1>8 DEF JudgedAsStrictly

\* The tenant's override, whatever it holds, never lets through a payout that
\* the compiled-in policy denies, nor lifts a review off one.
THEOREM OverrideNeverLoosens ==
  ASSUME NEW ov \in Overrides, NEW v, NEW intent, intent.amount \in Nat, NEW spent \in Nat
  PROVE  JudgedAsStrictly(TightenedWith(DefaultPolicy, ov), DefaultPolicy, v, intent, spent)
BY PolicyAssumption, TightenedIsStricter, StricterJudgesAsStrictly

\* Near a cap, a larger amount is near it or over it.
LEMMA NearSurvivesGrowth ==
  ASSUME NEW low \in Nat, NEW amount \in Nat, NEW cap \in Nat, low <= amount, Near(low, cap)
  PROVE  amount > cap \/ Near(amount, cap)
<1>1. low * 100 \in Nat /\ amount * 100 \in Nat /\ low * 100 <= amount * 100 /\ cap * 90 \in Nat
  OBVIOUS
<1>2. Saturate(low * 100) <= Saturate(amount * 100)
  BY <1>1, SaturateBounds
<1>3. Saturate(low * 100) \in Nat /\ Saturate(cap * 90) \in Nat /\ Saturate(amount * 100) \in Nat
  BY <1>1, PolicyAssumption DEF Saturate
<1>4. Saturate(amount * 100) >= Saturate(cap * 90)
  BY <1>2, <1>3 DEF Near
<1>. QED
  BY <1>4 DEF Near

\* A larger ledger keeps every reason for a denial, and every review signal or
\* denies: no sum that saturates falls back below a cap.
THEOREM LargerLedgerJudgesAsStrictly ==
  ASSUME NEW p \in Policies, NEW v, NEW intent, intent.amount \in Nat,
         NEW before \in Nat, NEW after \in Nat, before <= after
  PROVE  Strictness(Decision(Evaluate(p, v, intent, after)))
           >= Strictness(Decision(Evaluate(p, v, intent, before)))
<1>. DEFINE new == Evaluate(p, v, intent, after)
            old == Evaluate(p, v, intent, before)
            amountNew == AmountReasons(p, intent.amount, intent.currency, intent.memo, after)
            amountOld == AmountReasons(p, intent.amount, intent.currency, intent.memo, before)
            byVendor == VendorReasons(p, v, intent.currency)
            projectedNew == Saturate(after + intent.amount)
            projectedOld == Saturate(before + intent.amount)
<1>1. new = byVendor \cup amountNew /\ old = byVendor \cup amountOld
  BY DEF Evaluate
<1>2. /\ projectedNew \in Nat /\ projectedOld \in Nat /\ projectedOld <= projectedNew
      /\ p.daily \in Nat
  <2>1. before + intent.amount \in Nat /\ after + intent.amount \in Nat
        /\ before + intent.amount <= after + intent.amount
    OBVIOUS
  <2>. QED
    BY <2>1, SaturateBounds, PolicyAssumption DEF Policies, U64
<1>3. ASSUME NEW c \in amountOld, c # "near_daily_cap" PROVE c \in amountNew
  <2>1. projectedOld > p.daily => projectedNew > p.daily
    BY <1>2
  <2>. HIDE DEF projectedNew, projectedOld
  <2>. QED
    BY <1>3, <2>1 DEF AmountReasons, projectedNew, projectedOld
<1>4. "near_daily_cap" \in amountOld =>
        "near_daily_cap" \in amountNew \/ "daily_cap_exceeded" \in amountNew
  <2>1. Near(projectedOld, p.daily) => projectedNew > p.daily \/ Near(projectedNew, p.daily)
    BY <1>2, NearSurvivesGrowth
  <2>. HIDE DEF projectedNew, projectedOld
  <2>. QED
    BY <2>1 DEF AmountReasons, projectedNew, projectedOld
<1>. HIDE DEF new, old, amountNew, amountOld, byVendor
<1>5. old \cap DenyCodes \subseteq new
  BY <1>1, <1>3 DEF DenyCodes
<1>6. old \cap ReviewCodes # {} => new \cap (ReviewCodes \cup DenyCodes) # {}
  <2>1. CASE "near_daily_cap" \in old
    <3>1. "near_daily_cap" \in amountOld
      BY <1>1, <2>1 DEF byVendor, VendorReasons
    <3>2. "near_daily_cap" \in new \/ "daily_cap_exceeded" \in new
      BY <1>1, <1>4, <3>1
    <3>. QED
      BY <3>2 DEF ReviewCodes, DenyCodes
  <2>2. CASE "near_single_cap" \in old
    <3>1. "near_single_cap" \in new
      BY <1>1, <1>3, <2>2
    <3>. QED
      BY <3>1 DEF ReviewCodes
  <2>. QED
    BY <2>1, <2>2 DEF ReviewCodes
<1>7. Decision(new) \in {"allow", "review", "deny"} /\ Decision(old) \in {"allow", "review", "deny"}
  BY DEF Decision
<1>8. Decision(old) = "deny" => Decision(new) = "deny"
  BY <1>5 DEF Decision
<1>9. Decision(old) = "review" => Decision(new) # "allow"
  BY <1>6 DEF Decision
<1>10. Strictness(Decision(new)) >= Strictness(Decision(old))
  BY <1>7, <1>8, <1>9 DEF Strictness
<1>. QED
  BY <1>10 DEF new, old

\* A payout that is not denied fits the caps exactly: no sum that saturates
\* can pass for a small one, because the cap is below the largest u64.
THEOREM NotDeniedFits ==
  ASSUME NEW p \in Policies, p.daily < U64Max, NEW v, NEW intent, intent.amount \in Nat,
         NEW spent \in Nat, Decision(Evaluate(p, v, intent, spent)) # "deny"
  PROVE  /\ v # NoVendor
         /\ intent.currency \in p.allowed
         /\ intent.amount \in 1 .. p.single
         /\ spent + intent.amount <= p.daily
<1>. DEFINE reasons == Evaluate(p, v, intent, spent)
            projected == Saturate(spent + intent.amount)
<1>1. reasons \cap DenyCodes = {}
  BY DEF Decision
<1>2. /\ "vendor_unknown" \notin reasons /\ "currency_not_allowed" \notin reasons
      /\ "amount_zero" \notin reasons /\ "amount_exceeds_single_cap" \notin reasons
      /\ "daily_cap_exceeded" \notin reasons
  BY <1>1 DEF DenyCodes
<1>3. v # NoVendor
  BY <1>2 DEF Evaluate, VendorReasons
<1>4. /\ intent.currency \in p.allowed /\ intent.amount # 0
      /\ ~(intent.amount > p.single) /\ ~(projected > p.daily)
  <2>. HIDE DEF projected
  <2>. QED
    BY <1>2 DEF Evaluate, AmountReasons, projected
<1>5. p.single \in Nat /\ p.daily \in Nat /\ projected \in Nat
  BY SaturateBounds, PolicyAssumption DEF Policies, U64
<1>6. projected = spent + intent.amount
  BY <1>4, <1>5, SaturateBounds, PolicyAssumption
<1>. QED
  BY <1>3, <1>4, <1>5, <1>6
=============================================================================

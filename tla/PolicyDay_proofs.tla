--------------------------- MODULE PolicyDay_proofs ---------------------------
(***************************************************************************)
(* The properties of PolicyDay for every policy, every override, vendor and *)
(* payment, and every way the ledger may grow.                              *)
(***************************************************************************)
EXTENDS PolicyDay, PayoutPolicy_proofs

LEMMA EffectiveTypes ==
  ASSUME ov \in Overrides
  PROVE  Effective \in Policies /\ AtLeastAsStrict(Effective, DefaultPolicy)
BY PolicyAssumption, TightenedIsStricter DEF Effective

LEMMA Amounts == \A n \in U64 : n \in Nat
BY PolicyAssumption DEF U64

\* The invariant: every state is a call the engine can receive (api.rs:215-225).
THEOREM DayTypes == Spec => []TypeOK
<1>1. Init => TypeOK
  <2>. SUFFICES ASSUME Init PROVE TypeOK
    OBVIOUS
  <2>1. ov \in Overrides /\ vendor \in Vendors \cup {NoVendor} /\ intent \in AllIntents /\ spent \in U64
    BY DayAssumption, PolicyAssumption DEF Init, U64
  <2>. QED
    BY <2>1, EffectiveTypes DEF TypeOK
<1>2. TypeOK /\ [Spend]_vars => TypeOK'
  <2>. SUFFICES ASSUME TypeOK, [Spend]_vars PROVE TypeOK'
    OBVIOUS
  <2>1. ov' = ov /\ vendor' = vendor /\ intent' = intent /\ Effective' = Effective
    BY DEF Spend, vars, Effective
  <2>2. spent' \in U64
    <3>1. CASE Spend
      <4>1. PICK n \in Counted : spent' = Saturate(spent + n)
        BY <3>1 DEF Spend
      <4>2. spent + n \in Nat
        BY Amounts, DayAssumption DEF TypeOK
      <4>. QED
        BY <4>1, <4>2, SaturateBounds
    <3>. QED
      BY <3>1 DEF vars, TypeOK
  <2>. QED
    BY <2>1, <2>2 DEF TypeOK
<1>. QED
  BY <1>1, <1>2, PTL DEF Spec

\* An override that only may tighten does only tighten (policy.rs:396-480).
THEOREM Tightening == Spec => []TighteningNeverLoosens
<1>1. TypeOK => TighteningNeverLoosens
  <2>. SUFFICES ASSUME TypeOK PROVE TighteningNeverLoosens
    OBVIOUS
  <2>1. ov \in Overrides /\ intent.amount \in Nat /\ spent \in Nat
    BY Amounts DEF TypeOK, AllIntents
  <2>. QED
    BY <2>1, OverrideNeverLoosens DEF TighteningNeverLoosens, Effective
<1>. QED
  BY <1>1, DayTypes, PTL

\* What the tenant wrote is in force or noted as ignored (policy.rs:409-465).
THEOREM OverrideHeeded == Spec => []OverrideInForceOrNoted
<1>1. TypeOK => OverrideInForceOrNoted
  <2>. DEFINE Limits == {"single", "daily", "memoOver"}
  <2>. SUFFICES ASSUME TypeOK PROVE OverrideInForceOrNoted
    OBVIOUS
  <2>0. ov \in Overrides /\ DefaultPolicy \in Policies
    BY PolicyAssumption DEF TypeOK
  <2>1. ASSUME NEW f \in Limits, ov[f] # Unset
        PROVE  (Effective[f] = ov[f]) # (f \in Ignored(DefaultPolicy, ov))
    <3>1. /\ ov[f] \in Nat /\ DefaultPolicy[f] \in Nat
          /\ Effective[f] = Lowered(DefaultPolicy[f], ov[f])
      BY <2>0, <2>1, Amounts DEF Overrides, Policies, Effective, TightenedWith
    <3>2. Effective[f] = ov[f] <=> ov[f] <= DefaultPolicy[f]
      BY <2>1, <3>1 DEF Lowered
    <3>3. ov.allowed # Unset => f \notin ov.allowed
      BY <2>0, <2>1, DayAssumption DEF Overrides
    <3>4. f \in Ignored(DefaultPolicy, ov) <=> ov[f] > DefaultPolicy[f]
      BY <2>1, <3>3 DEF Ignored
    <3>. QED
      BY <3>1, <3>2, <3>4
  <2>2. ASSUME ov.allowed # Unset
        PROVE  /\ Effective.allowed \subseteq ov.allowed
               /\ ov.allowed \ Effective.allowed = Ignored(DefaultPolicy, ov) \cap Currencies
    <3>1. ov.allowed \subseteq Currencies /\ Effective.allowed = DefaultPolicy.allowed \cap ov.allowed
      BY <2>0, <2>2 DEF Overrides, Effective, TightenedWith
    <3>2. Ignored(DefaultPolicy, ov) \cap Currencies = ov.allowed \ DefaultPolicy.allowed
      BY <2>2, <3>1, DayAssumption DEF Ignored
    <3>. QED
      BY <3>1, <3>2
  <2>3. ov.blocked # Unset => ov.blocked \subseteq Effective.blocked
    BY DEF Effective, TightenedWith
  <2>. QED
    BY <2>1, <2>2, <2>3 DEF OverrideInForceOrNoted
<1>. QED
  BY <1>1, DayTypes, PTL

\* What is not denied fits the caps by the true sum (policy.rs:183-271).
THEOREM FitsCaps == Spec => []NotDeniedFitsCaps
<1>1. TypeOK => NotDeniedFitsCaps
  <2>. SUFFICES ASSUME TypeOK, Verdict # "deny"
                PROVE  /\ intent.amount \in 1 .. DefaultPolicy.single
                       /\ intent.amount <= Effective.single
                       /\ spent + intent.amount <= Effective.daily
    BY DEF NotDeniedFitsCaps
  <2>1. /\ Effective \in Policies /\ Effective.single <= DefaultPolicy.single
        /\ Effective.daily <= DefaultPolicy.daily
    BY EffectiveTypes DEF TypeOK, AtLeastAsStrict
  <2>2. /\ Effective.single \in Nat /\ Effective.daily \in Nat /\ DefaultPolicy.single \in Nat
        /\ DefaultPolicy.daily \in Nat /\ Effective.daily < U64Max
    BY <2>1, PolicyAssumption, Amounts DEF Policies
  <2>3. intent.amount \in Nat /\ spent \in Nat
    BY Amounts DEF TypeOK, AllIntents
  <2>4. intent.amount \in 1 .. Effective.single /\ spent + intent.amount <= Effective.daily
    BY <2>1, <2>2, <2>3, NotDeniedFits DEF Verdict
  <2>. QED
    BY <2>1, <2>2, <2>3, <2>4
<1>. QED
  BY <1>1, DayTypes, PTL

\* Payouts counted in between never make the verdict milder (policy.rs:217-271).
THEOREM NeverMilder == Spec => StricterAsLedgerGrows
<1>1. TypeOK /\ [Spend]_vars => [Strictness(Verdict') >= Strictness(Verdict)]_vars
  <2>. SUFFICES ASSUME TypeOK, Spend PROVE Strictness(Verdict') >= Strictness(Verdict)
    OBVIOUS
  <2>0. PICK n \in Counted : spent' = Saturate(spent + n)
    BY DEF Spend
  <2>1. /\ intent.amount \in Nat /\ spent \in Nat /\ spent' \in Nat /\ spent <= spent'
        /\ Effective \in Policies
    <3>1. intent.amount \in Nat /\ spent \in U64 /\ n \in Nat /\ Effective \in Policies
      BY Amounts, DayAssumption DEF TypeOK, AllIntents
    <3>2. spent \in Nat /\ spent <= U64Max /\ U64Max \in Nat
      BY <3>1, PolicyAssumption DEF U64
    <3>. QED
      BY <2>0, <3>1, <3>2 DEF Saturate
  <2>2. Verdict' = Decision(Evaluate(Effective, vendor, intent, spent'))
    BY DEF Verdict, Spend, Effective
  <2>. QED
    BY <2>1, <2>2, LargerLedgerJudgesAsStrictly DEF Verdict
<1>. QED
  BY <1>1, DayTypes, PTL DEF Spec, StricterAsLedgerGrows
=============================================================================

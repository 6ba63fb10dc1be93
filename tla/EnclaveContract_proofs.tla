------------------------ MODULE EnclaveContract_proofs ------------------------
(***************************************************************************)
(* Proofs about the payout function, for any number of invocations, days,   *)
(* vendors and requests and for every policy, override and record.          *)
(***************************************************************************)
EXTENDS EnclaveContract, PayoutPolicy_proofs, Arithmetic_proofs

\* A payout on its way fits the caps over the counter it was judged by, and what
\* has not ended has no answer.
Judged ==
  \A i \in Invs :
    /\ InFlight(i) =>
         /\ req[i].amount \in 1 .. DefaultPolicy.single
         /\ seen[i] + req[i].amount <= DefaultPolicy.daily
    /\ phase[i] # "done" => result[i] = "none"

\* The inductive invariant: the cap holds because a payout is counted on top of
\* the very counter it was judged by.
IInv == TypeOK /\ DailyCapHolds /\ Judged

LEMMA RequestTypes ==
  ASSUME NEW r \in Requests
  PROVE  /\ r.vendor \in VendorIds \cup {UnsafeId}
         /\ r.amount \in U64
         /\ r.currency \in Currencies \cup {BadCurrency}
         /\ r.memo \in Memos \cup {"toolong"}
         /\ r.ref \in Refs \cup {BadRef}
BY ContractAssumption DEF AllRequests

LEMMA DefaultTypes ==
  /\ U64Max \in Nat
  /\ DefaultPolicy.single \in Nat
  /\ DefaultPolicy.daily \in Nat
  /\ DefaultPolicy.daily < U64Max
BY PolicyAssumption DEF Policies, U64

\* A payout that is judged and not denied fits the compiled-in caps over the
\* counter it was judged by, whatever the overrides in force.
LEMMA JudgedFits ==
  ASSUME TypeOK, NEW i \in Invs, CanJudge(i), Verdict(req[i], at[i]) # "deny"
  PROVE  /\ spend[at[i]] \in Nat
         /\ req[i].amount \in 1 .. DefaultPolicy.single
         /\ spend[at[i]] + req[i].amount <= DefaultPolicy.daily
<1>. DEFINE p == TightenedWith(DefaultPolicy, overrides)
            amount == req[i].amount
<1>1. overrides \in Overrides /\ spend[at[i]] \in U64 /\ amount \in U64
  BY RequestTypes DEF TypeOK, CanJudge, Readable, ReadDailySpent
<1>2. p \in Policies /\ AtLeastAsStrict(p, DefaultPolicy)
  BY <1>1, TightenedIsStricter, PolicyAssumption
<1>3. /\ p.single \in Nat /\ p.daily \in Nat
      /\ p.single <= DefaultPolicy.single /\ p.daily <= DefaultPolicy.daily
  BY <1>2, DefaultTypes DEF AtLeastAsStrict, Policies, U64
<1>4. spend[at[i]] \in Nat /\ amount \in Nat /\ p.daily < U64Max
  BY <1>1, <1>3, DefaultTypes DEF U64
<1>5. amount \in 1 .. p.single /\ spend[at[i]] + amount <= p.daily
  <2>1. Decision(Evaluate(p, registry[req[i].vendor], req[i], spend[at[i]])) # "deny"
    BY DEF Verdict, ReadDailySpent
  <2>. HIDE DEF p
  <2>. QED
    BY <1>2, <1>4, <2>1, NotDeniedFits
<1>. QED
  BY <1>3, <1>4, <1>5, DefaultTypes

LEMMA InitIInv == Init => IInv
<1>. SUFFICES ASSUME Init PROVE IInv
  OBVIOUS
<1>1. TypeOK
  BY ContractAssumption, PolicyAssumption
     DEF Init, TypeOK, NoOverrides, Overrides, U64, Days, Phases, Results
<1>2. DailyCapHolds
  BY DefaultTypes DEF Init, DailyCapHolds
<1>3. Judged
  BY DEF Init, Judged, InFlight
<1>. QED
  BY <1>1, <1>2, <1>3 DEF IInv

LEMMA KeyType ==
  ASSUME TypeOK, NEW i \in Invs
  PROVE  Key(i) \in [vendor : VendorIds \cup {UnsafeId}, amount : U64,
                     currency : Currencies \cup {BadCurrency}, ref : Refs \cup {BadRef},
                     day : Days]
BY RequestTypes DEF TypeOK, Key

LEMMA TypeStep == TypeOK /\ [Next]_vars => TypeOK'
<1>. SUFFICES ASSUME TypeOK, [Next]_vars PROVE TypeOK'
  OBVIOUS
<1>. USE DEF TypeOK, Phases, Results
<1>1. ASSUME NEW i \in Invs, Call(i) PROVE TypeOK'
  BY <1>1 DEF Call, mapVars
<1>2. ASSUME NEW i \in Invs, Reject(i) \/ ReadFails(i) PROVE TypeOK'
  BY <1>2 DEF Reject, ReadFails, Finish, mapVars
<1>3. ASSUME NEW i \in Invs, Refuse(i) PROVE TypeOK'
  BY <1>3 DEF Refuse, Finish, mapVars
<1>4. ASSUME NEW i \in Invs, Admit(i) PROVE TypeOK'
  BY <1>4 DEF Admit, CanJudge, Readable, ReadDailySpent, mapVars
<1>5. ASSUME NEW i \in Invs, PostAccepted(i) PROVE TypeOK'
  BY <1>5, KeyType DEF PostAccepted, mapVars
<1>6. ASSUME NEW i \in Invs, PostRefused(i) \/ PostFails(i) PROVE TypeOK'
  BY <1>6, KeyType DEF PostRefused, PostFails, Finish, mapVars
<1>7. ASSUME NEW i \in Invs, Count(i) PROVE TypeOK'
  <2>1. spend[at[i]] \in Nat /\ req[i].amount \in Nat
    BY <1>7, RequestTypes, PolicyAssumption DEF Count, ReadDailySpent, U64
  <2>2. Saturate(spend[at[i]] + req[i].amount) \in U64
    BY <2>1, SaturateBounds
  <2>. QED
    BY <1>7, <2>2 DEF Count, ReadDailySpent, Finish, mapVars
<1>8. ASSUME NEW i \in Invs, CountFails(i) PROVE TypeOK'
  BY <1>8 DEF CountFails, Finish, mapVars
<1>9. ASSUME NEW v \in VendorIds, WriteVendor(v) PROVE TypeOK'
  BY <1>9, ContractAssumption DEF WriteVendor, invVars
<1>10. CASE WriteOverrides
  BY <1>10, ContractAssumption DEF WriteOverrides, invVars
<1>11. CASE SeedApiKey
  BY <1>11 DEF SeedApiKey, invVars
<1>12. ASSUME NEW d \in Days, DamageCounter(d) PROVE TypeOK'
  BY <1>12 DEF DamageCounter, mapVars, invVars
<1>13. CASE Midnight
  BY <1>13, ContractAssumption DEF Midnight, mapVars, invVars, Days
<1>14. CASE UNCHANGED vars
  BY <1>14 DEF vars
<1>. QED
  BY <1>1, <1>2, <1>3, <1>4, <1>5, <1>6, <1>7, <1>8, <1>9, <1>10, <1>11, <1>12, <1>13, <1>14
     DEF Next, Step, Environment

\* What a Count does to the counters: exactly the amount is added, within the
\* cap, since the counter is still the one the payout was judged by.
LEMMA CountGrows ==
  ASSUME IInv, NEW i \in Invs, Count(i)
  PROVE  /\ req[i].amount \in 1 .. DefaultPolicy.single
         /\ spend[at[i]] \in Nat /\ spend[at[i]] # Damaged
         /\ spend' = [spend EXCEPT ![at[i]] = @ + req[i].amount]
         /\ spend[at[i]] + req[i].amount <= DefaultPolicy.daily
<1>1. InFlight(i) /\ spend[at[i]] = seen[i] /\ seen[i] \in U64
  BY DEF IInv, TypeOK, Count, ReadDailySpent, InFlight
<1>2. /\ req[i].amount \in 1 .. DefaultPolicy.single
      /\ spend[at[i]] + req[i].amount <= DefaultPolicy.daily
  BY <1>1 DEF IInv, Judged
<1>3. spend[at[i]] \in Nat /\ spend[at[i]] # Damaged
  BY <1>1, DefaultTypes, ContractAssumption DEF U64
<1>4. Saturate(spend[at[i]] + req[i].amount) = spend[at[i]] + req[i].amount
  BY <1>2, <1>3, DefaultTypes DEF Saturate
<1>5. spend' = [spend EXCEPT ![at[i]] = Saturate(spend[at[i]] + req[i].amount)]
  BY DEF Count, ReadDailySpent
<1>6. spend' = [spend EXCEPT ![at[i]] = spend[at[i]] + req[i].amount]
  BY <1>4, <1>5
<1>. QED
  BY <1>2, <1>3, <1>6

\* A counter only ever changes by a Count or by losing its number.
LEMMA CounterChanges ==
  ASSUME [Next]_vars
  PROVE  \/ UNCHANGED spend
         \/ \E d \in Days : DamageCounter(d)
         \/ \E i \in Invs : Count(i)
BY DEF Next, Step, Environment, vars, mapVars, invVars, Call, Reject, ReadFails, Refuse, Admit,
       PostAccepted, PostRefused, PostFails, CountFails, WriteVendor, WriteOverrides,
       SeedApiKey, Midnight

LEMMA CapStep == IInv /\ [Next]_vars => DailyCapHolds'
<1>. SUFFICES ASSUME IInv, [Next]_vars PROVE DailyCapHolds'
  OBVIOUS
<1>1. CASE UNCHANGED spend
  BY <1>1 DEF IInv, DailyCapHolds
<1>2. ASSUME NEW d \in Days, DamageCounter(d) PROVE DailyCapHolds'
  BY <1>2 DEF IInv, TypeOK, DailyCapHolds, DamageCounter
<1>3. ASSUME NEW i \in Invs, Count(i) PROVE DailyCapHolds'
  BY <1>3, CountGrows DEF IInv, TypeOK, DailyCapHolds
<1>. QED
  BY <1>1, <1>2, <1>3, CounterChanges

\* A step that sends no invocation on its way keeps every judgement.
LEMMA JudgedKept ==
  ASSUME IInv, UNCHANGED req,
         \A i \in Invs : InFlight(i)' => InFlight(i) /\ seen'[i] = seen[i],
         \A i \in Invs : phase'[i] # "done" => result'[i] = "none"
  PROVE  Judged'
BY DEF IInv, Judged, InFlight

LEMMA JudgedStep == IInv /\ [Next]_vars => Judged'
<1>. SUFFICES ASSUME IInv, [Next]_vars PROVE Judged'
  OBVIOUS
<1>. USE DEF InFlight
<1>t. /\ phase \in [Invs -> Phases] /\ result \in [Invs -> Results]
      /\ seen \in [Invs -> U64] /\ req \in [Invs -> Requests]
  BY DEF IInv, TypeOK
<1>r. \A i \in Invs : phase[i] # "done" => result[i] = "none"
  BY DEF IInv, Judged
<1>1. ASSUME NEW i \in Invs, Call(i) PROVE Judged'
  BY <1>1, <1>t, <1>r, JudgedKept DEF Call
<1>2. ASSUME NEW i \in Invs, Reject(i) \/ ReadFails(i) PROVE Judged'
  BY <1>2, <1>t, <1>r, JudgedKept DEF Reject, ReadFails, Finish
<1>3. ASSUME NEW i \in Invs, Refuse(i) PROVE Judged'
  BY <1>3, <1>t, <1>r, JudgedKept DEF Refuse, Finish
<1>4. ASSUME NEW i \in Invs, Admit(i) PROVE Judged'
  <2>1. /\ req[i].amount \in 1 .. DefaultPolicy.single
        /\ spend[at[i]] + req[i].amount <= DefaultPolicy.daily
    BY <1>4, JudgedFits DEF Admit, IInv
  <2>2. /\ phase' = [phase EXCEPT ![i] = "egress"] /\ phase[i] = "called"
        /\ seen' = [seen EXCEPT ![i] = spend[at[i]]] /\ UNCHANGED <<req, result>>
    BY <1>4 DEF Admit, ReadDailySpent
  <2>3. seen'[i] = spend[at[i]] /\ \A j \in Invs \ {i} : phase'[j] = phase[j] /\ seen'[j] = seen[j]
    BY <2>2, <1>t
  <2>. QED
    BY <2>1, <2>2, <2>3, <1>t, <1>r DEF IInv, Judged
<1>5. ASSUME NEW i \in Invs, PostAccepted(i) PROVE Judged'
  BY <1>5, <1>t, <1>r, JudgedKept DEF PostAccepted
<1>6. ASSUME NEW i \in Invs, PostRefused(i) \/ PostFails(i) PROVE Judged'
  BY <1>6, <1>t, <1>r, JudgedKept DEF PostRefused, PostFails, Finish
<1>7. ASSUME NEW i \in Invs, Count(i) \/ CountFails(i) PROVE Judged'
  BY <1>7, <1>t, <1>r, JudgedKept DEF Count, CountFails, Finish
<1>8. ASSUME UNCHANGED invVars PROVE Judged'
  BY <1>8, <1>r, JudgedKept DEF invVars
<1>9. CASE UNCHANGED vars \/ Environment
  BY <1>8, <1>9 DEF vars, invVars, Environment, WriteOverrides, SeedApiKey, Midnight,
                    WriteVendor, DamageCounter
<1>. QED
  BY <1>1, <1>2, <1>3, <1>4, <1>5, <1>6, <1>7, <1>9 DEF Next, Step

\* The invariant holds throughout.
THEOREM Invariance == Spec => []IInv
<1>1. IInv /\ [Next]_vars => IInv'
  BY TypeStep, CapStep, JudgedStep DEF IInv
<1>. QED
  BY InitIInv, <1>1, PTL DEF Spec

\* The state keeps its types.
THEOREM TypeCorrect == Spec => []TypeOK
<1>1. IInv => TypeOK
  BY DEF IInv
<1>. QED
  BY Invariance, <1>1, PTL

\* No day's counter passes the compiled-in cap: for any number of payouts at
\* once, any requests, and any writes of the tenant between their steps.
THEOREM DailyCap == Spec => []DailyCapHolds
<1>1. IInv => DailyCapHolds
  BY DEF IInv
<1>. QED
  BY Invariance, <1>1, PTL

\* Money moves only under the key of a payout that is on its way.
LEMMA BankChanges ==
  ASSUME [Next]_vars
  PROVE  \/ bank' = bank
         \/ \E i \in Invs : InFlight(i) /\ bank' = bank \cup {Key(i)}
BY DEF Next, Step, Environment, vars, mapVars, invVars, Call, Reject, ReadFails, Refuse, Admit,
       PostAccepted, PostRefused, PostFails, Count, CountFails, WriteVendor, WriteOverrides,
       SeedApiKey, DamageCounter, Midnight, InFlight

\* Only Admit sends a payout on its way.
LEMMA InFlightChanges ==
  ASSUME TypeOK, [Next]_vars, NEW i \in Invs, InFlight(i)'
  PROVE  req' = req /\ at'[i] = at[i] /\ (InFlight(i) \/ Admit(i))
BY DEF Next, Step, Environment, vars, mapVars, invVars, Call, Reject, ReadFails, Refuse, Admit,
       PostAccepted, PostRefused, PostFails, Count, CountFails, WriteVendor, WriteOverrides,
       SeedApiKey, DamageCounter, Midnight, InFlight, Finish, TypeOK

\* Once a day's counter is damaged and its last payout has ended, no payout is
\* admitted for that day again and the vendor moves no more money on it.
THEOREM DamagedCounterStops == Spec => DamagedCounterStopsDay
<1>. DEFINE Moved(d) == {k \in bank : k.day = d}
            Stops == \A d \in Days :
              spend[d] = Damaged /\ NoneInFlight(d) =>
                /\ spend'[d] = Damaged /\ NoneInFlight(d)'
                /\ {k \in bank' : k.day = d} = {k \in bank : k.day = d}
<1>1. IInv /\ [Next]_vars => [Stops]_vars
  <2>. SUFFICES ASSUME IInv, [Next]_vars, NEW d \in Days, spend[d] = Damaged, NoneInFlight(d)
                PROVE  spend'[d] = Damaged /\ NoneInFlight(d)' /\ Moved(d)' = Moved(d)
    OBVIOUS
  <2>1. TypeOK
    BY DEF IInv
  <2>2. spend'[d] = Damaged
    <3>1. ASSUME NEW c \in Days, DamageCounter(c) PROVE spend'[d] = Damaged
      BY <2>1, <3>1 DEF DamageCounter, TypeOK
    <3>2. ASSUME NEW i \in Invs, Count(i) PROVE spend'[d] = Damaged
      BY <2>1, <3>2, CountGrows DEF TypeOK
    <3>. QED
      BY <3>1, <3>2, CounterChanges
  <2>3. ASSUME NEW j \in Invs, InFlight(j)' PROVE at'[j] # d
    <3>1. CASE InFlight(j)
      BY <2>1, <2>3, <3>1, InFlightChanges DEF NoneInFlight
    <3>2. CASE Admit(j)
      BY <2>1, <3>2 DEF Admit, CanJudge, Readable, ReadDailySpent, TypeOK
    <3>. QED
      BY <2>1, <2>3, <3>1, <3>2, InFlightChanges
  <2>4. ASSUME NEW i \in Invs, InFlight(i), bank' = bank \cup {Key(i)}
        PROVE  Moved(d)' = Moved(d)
    <3>1. Key(i).day # d
      BY <2>4 DEF Key, NoneInFlight
    <3>. QED
      BY <2>4, <3>1
  <2>5. Moved(d)' = Moved(d)
    BY <2>4, BankChanges
  <2>. QED
    BY <2>2, <2>3, <2>5 DEF NoneInFlight
<1>. QED
  BY <1>1, Invariance, PTL DEF Spec, DamagedCounterStopsDay

\* Receipts are issued by Count alone.
LEMMA ReceiptChanges ==
  ASSUME IInv, [Next]_vars, \A i \in Invs : ~Count(i)
  PROVE  {i \in Invs : result[i] = "paid"}' = {i \in Invs : result[i] = "paid"}
<1>1. result \in [Invs -> Results] /\ \A i \in Invs : phase[i] # "done" => result[i] = "none"
  BY DEF IInv, TypeOK, Judged
<1>2. ASSUME NEW i \in Invs, phase[i] # "done",
             NEW res \in Results, res # "paid", result' = [result EXCEPT ![i] = res]
      PROVE  \A k \in Invs : result'[k] = "paid" <=> result[k] = "paid"
  BY <1>1, <1>2
<1>3. ASSUME NEW i \in Invs, Reject(i) \/ ReadFails(i) \/ PostFails(i) \/ CountFails(i)
      PROVE  \A k \in Invs : result'[k] = "paid" <=> result[k] = "paid"
  BY <1>2, <1>3 DEF Reject, ReadFails, PostFails, CountFails, Finish, Results
<1>4. ASSUME NEW i \in Invs, Refuse(i)
      PROVE  \A k \in Invs : result'[k] = "paid" <=> result[k] = "paid"
  BY <1>2, <1>4 DEF Refuse, Finish, Results
<1>5. ASSUME NEW i \in Invs, PostRefused(i)
      PROVE  \A k \in Invs : result'[k] = "paid" <=> result[k] = "paid"
  BY <1>2, <1>5 DEF PostRefused, Finish, Results
<1>6. ASSUME UNCHANGED result
      PROVE  \A k \in Invs : result'[k] = "paid" <=> result[k] = "paid"
  BY <1>6
<1>7. \A k \in Invs : result'[k] = "paid" <=> result[k] = "paid"
  BY <1>3, <1>4, <1>5, <1>6
     DEF Next, Step, Environment, vars, invVars, Call, Admit, PostAccepted,
         WriteVendor, WriteOverrides, SeedApiKey, DamageCounter, Midnight
<1>. QED
  BY <1>7

\* The payout function implements the abstract daily budget.
THEOREM Refinement == Spec => ImplementsDailyBudget
<1>1. Init => Budget!Init
  BY DEF Init, Budget!Init
<1>2. IInv /\ [Next]_vars => [Budget!Next]_Budget!vars
  <2>. SUFFICES ASSUME IInv, [Next]_vars PROVE [Budget!Next]_Budget!vars
    OBVIOUS
  <2>1. ASSUME NEW i \in Invs, Count(i) PROVE Budget!Next
    <3>1. /\ phase[i] = "accepted" /\ result[i] = "none" /\ at[i] \in Days
          /\ spend[at[i]] # Damaged
          /\ result' = [result EXCEPT ![i] = "paid"] /\ result \in [Invs -> Results]
      BY <2>1, CountGrows DEF IInv, TypeOK, Judged, Count, Finish
    <3>2. /\ req[i].amount \in 1 .. DefaultPolicy.daily
          /\ spend[at[i]] + req[i].amount <= DefaultPolicy.daily
          /\ spend' = [spend EXCEPT ![at[i]] = @ + req[i].amount]
      BY <2>1, CountGrows, DefaultTypes
    <3>3. /\ i \notin {k \in Invs : result[k] = "paid"}
          /\ {k \in Invs : result[k] = "paid"}' = {k \in Invs : result[k] = "paid"} \cup {i}
      BY <3>1
    <3>. QED
      BY <3>1, <3>2, <3>3 DEF Budget!Next, Budget!Pay
  <2>2. CASE \A i \in Invs : ~Count(i)
    <3>1. UNCHANGED {i \in Invs : result[i] = "paid"}
      BY <2>2, ReceiptChanges
    <3>2. CASE UNCHANGED spend
      BY <3>1, <3>2 DEF Budget!vars
    <3>3. ASSUME NEW d \in Days, DamageCounter(d) PROVE Budget!Next
      BY <3>1, <3>3 DEF Budget!Next, Budget!Close, DamageCounter
    <3>. QED
      BY <2>2, <3>2, <3>3, CounterChanges
  <2>. QED
    BY <2>1, <2>2
<1>. QED
  BY <1>1, <1>2, Invariance, PTL DEF Spec, ImplementsDailyBudget, Budget!Spec

(* What the vendor moves is within the compiled-in limits: a payout on its  *)
(* way was judged by a policy at least as strict, and neither its request   *)
(* nor the compiled-in policy changes after that; nor is a vendor, once it is *)
(* in the registry, ever out of it again.                                   *)

WithinDefaults(r) ==
  /\ r.vendor \in VendorIds /\ registry[r.vendor] # NoVendor
  /\ r.amount \in 1 .. DefaultPolicy.single
  /\ r.currency \in DefaultPolicy.allowed
  /\ r.ref \in Refs

TransferInv ==
  /\ \A i \in Invs : InFlight(i) => WithinDefaults(req[i])
  /\ \A k \in bank : WithinDefaults(k)

LEMMA WithinDefaultsStays ==
  ASSUME TypeOK, [Next]_vars, NEW r, WithinDefaults(r)
  PROVE  WithinDefaults(r)'
<1>1. ASSUME NEW v \in VendorIds, WriteVendor(v) PROVE registry'[r.vendor] # NoVendor
  BY <1>1, ContractAssumption DEF WriteVendor, TypeOK, WithinDefaults
<1>2. registry' = registry \/ \E v \in VendorIds : WriteVendor(v)
  BY DEF Next, Step, Environment, vars, mapVars, Call, Reject, ReadFails, Refuse, Admit,
         PostAccepted, PostRefused, PostFails, Count, CountFails, WriteOverrides, SeedApiKey,
         DamageCounter, Midnight
<1>. QED
  BY <1>1, <1>2 DEF WithinDefaults

LEMMA AdmittedWithinDefaults ==
  ASSUME TypeOK, NEW i \in Invs, Admit(i)
  PROVE  WithinDefaults(req[i])
<1>. DEFINE p == TightenedWith(DefaultPolicy, overrides)
<1>1. /\ req[i].vendor \in VendorIds /\ overrides \in Overrides
      /\ spend[at[i]] \in Nat /\ req[i].amount \in Nat
      /\ req[i].amount \in 1 .. DefaultPolicy.single
  BY JudgedFits, RequestTypes, DefaultTypes DEF Admit, CanJudge, Readable, ReadDailySpent, TypeOK, U64
<1>2. p \in Policies /\ p.allowed \subseteq DefaultPolicy.allowed /\ p.daily < U64Max
  <2>1. p \in Policies /\ AtLeastAsStrict(p, DefaultPolicy)
    BY <1>1, TightenedIsStricter, PolicyAssumption
  <2>. QED
    BY <2>1, DefaultTypes DEF AtLeastAsStrict, Policies, U64
<1>3. Decision(Evaluate(p, registry[req[i].vendor], req[i], spend[at[i]])) # "deny"
  BY DEF Admit, Verdict, ReadDailySpent
<1>4. req[i].currency \in p.allowed /\ registry[req[i].vendor] # NoVendor
  <2>. HIDE DEF p
  <2>. QED
    BY <1>1, <1>2, <1>3, NotDeniedFits
<1>5. req[i].ref \in Refs
  BY RequestTypes DEF Admit, CanJudge, WellFormed, TypeOK
<1>. QED
  BY <1>1, <1>2, <1>4, <1>5 DEF WithinDefaults

\* However lax the overrides a tenant writes, and whenever, the vendor only
\* moves sums the compiled-in policy allows.
THEOREM TransferLimits == Spec => []TransfersWithinDefaults
<1>1. Init => TransferInv
  BY DEF Init, TransferInv, InFlight
<1>2. IInv /\ TransferInv /\ [Next]_vars => TransferInv'
  <2>. SUFFICES ASSUME IInv, TransferInv, [Next]_vars PROVE TransferInv'
    OBVIOUS
  <2>1. TypeOK
    BY DEF IInv
  <2>2. ASSUME NEW i \in Invs, InFlight(i)' PROVE WithinDefaults(req[i])'
    <3>1. WithinDefaults(req[i]) /\ req' = req
      BY <2>1, <2>2, InFlightChanges, AdmittedWithinDefaults DEF TransferInv
    <3>. QED
      BY <2>1, <3>1, WithinDefaultsStays DEF WithinDefaults
  <2>3. ASSUME NEW k \in bank' PROVE WithinDefaults(k)
    <3>1. CASE k \in bank
      BY <3>1 DEF TransferInv
    <3>2. ASSUME NEW i \in Invs, InFlight(i), k = Key(i) PROVE WithinDefaults(k)
      <4>1. WithinDefaults(req[i])
        BY <3>2 DEF TransferInv
      <4>. QED
        BY <3>2, <4>1 DEF WithinDefaults, Key
    <3>. QED
      BY <2>3, <3>1, <3>2, BankChanges
  <2>4. \A k \in bank' : WithinDefaults(k)'
    BY <2>1, <2>3, WithinDefaultsStays
  <2>. QED
    BY <2>2, <2>4 DEF TransferInv
<1>3. TransferInv => TransfersWithinDefaults
  BY DEF TransferInv, TransfersWithinDefaults, WithinDefaults
<1>. QED
  BY <1>1, <1>2, <1>3, Invariance, PTL DEF Spec

-----------------------------------------------------------------------------
(* The counters as sums of what was paid.                                   *)

PaidOn(d) == [i \in Invs |-> IF result[i] = "paid" /\ at[i] = d THEN req[i].amount ELSE 0]

LEMMA Amounts ==
  ASSUME TypeOK, NEW i \in Invs
  PROVE  req[i].amount \in Nat
BY RequestTypes, ContractAssumption DEF TypeOK, U64

\* A payout that has its answer keeps it, and the day it was judged on.
LEMMA AnswersStay ==
  ASSUME IInv, [Next]_vars, NEW i \in Invs, result[i] # "none"
  PROVE  result'[i] = result[i] /\ at'[i] = at[i]
<1>1. phase[i] = "done"
  BY DEF IInv, Judged
<1>. QED
  BY <1>1
     DEF IInv, TypeOK, Next, Step, Environment, vars, mapVars, invVars, Call, Reject, ReadFails,
         Refuse, Admit, PostAccepted, PostRefused, PostFails, Count, CountFails, Finish,
         WriteVendor, WriteOverrides, SeedApiKey, DamageCounter, Midnight

LEMMA RequestsStay ==
  ASSUME [Next]_vars
  PROVE  req' = req
BY DEF Next, Step, Environment, vars, mapVars, invVars, Call, Reject, ReadFails, Refuse, Admit,
       PostAccepted, PostRefused, PostFails, Count, CountFails, WriteVendor, WriteOverrides,
       SeedApiKey, DamageCounter, Midnight

LEMMA LedgerStep == IInv /\ LedgerMatchesReceipts /\ [Next]_vars => LedgerMatchesReceipts'
<1>. SUFFICES ASSUME IInv, LedgerMatchesReceipts, [Next]_vars, NEW d \in Days, spend'[d] # Damaged
              PROVE  spend'[d] = SumFunctionOnSet(PaidOn(d)', Invs)
  BY DEF LedgerMatchesReceipts, SumFunction, PaidOn
<1>0. TypeOK /\ IsFiniteSet(Invs) /\ req' = req
  BY ContractAssumption, RequestsStay DEF IInv
<1>1. \A i \in Invs : PaidOn(d)[i] \in Nat /\ PaidOn(d)'[i] \in Nat
  BY <1>0, Amounts DEF PaidOn
<1>2. spend[d] # Damaged => spend[d] = SumFunctionOnSet(PaidOn(d), Invs)
  BY DEF LedgerMatchesReceipts, SumFunction, PaidOn
<1>3. ASSUME NEW i \in Invs, Count(i) PROVE spend'[d] = SumFunctionOnSet(PaidOn(d)', Invs)
  <2>1. /\ spend' = [spend EXCEPT ![at[i]] = @ + req[i].amount]
        /\ spend[at[i]] \in Nat
    BY <1>3, CountGrows
  <2>2. /\ result[i] = "none" /\ result' = [result EXCEPT ![i] = "paid"] /\ at' = at
    BY <1>3 DEF Count, Finish, IInv, Judged
  <2>3. \A k \in Invs \ {i} : PaidOn(d)'[k] = PaidOn(d)[k]
    BY <1>0, <2>2 DEF PaidOn, TypeOK
  <2>4. SumFunctionOnSet(PaidOn(d)', Invs) + PaidOn(d)[i] = SumFunctionOnSet(PaidOn(d), Invs) + PaidOn(d)'[i]
    BY <1>0, <1>1, <2>3, SumWithOneChanged
  <2>5. PaidOn(d)[i] = 0 /\ PaidOn(d)'[i] = IF at[i] = d THEN req[i].amount ELSE 0
    BY <1>0, <2>2 DEF PaidOn, TypeOK
  <2>6. /\ SumFunctionOnSet(PaidOn(d), Invs) \in Nat /\ SumFunctionOnSet(PaidOn(d)', Invs) \in Nat
        /\ req[i].amount \in Nat
    BY <1>0, <1>1, SumIsNat, Amounts
  <2>7. CASE at[i] = d
    <3>1. spend[d] # Damaged /\ spend[d] \in Nat /\ spend'[d] = spend[d] + req[i].amount
      BY <1>0, <1>3, <2>1, <2>7, CountGrows DEF TypeOK
    <3>2. SumFunctionOnSet(PaidOn(d)', Invs) = SumFunctionOnSet(PaidOn(d), Invs) + req[i].amount
      BY <2>4, <2>5, <2>6, <2>7
    <3>. QED
      BY <1>2, <3>1, <3>2
  <2>8. CASE at[i] # d
    BY <1>0, <1>2, <2>1, <2>4, <2>5, <2>6, <2>8 DEF TypeOK
  <2>. QED
    BY <2>7, <2>8
<1>4. CASE \A i \in Invs : ~Count(i)
  <2>1. spend'[d] = spend[d]
    BY <1>0, <1>4, CounterChanges DEF DamageCounter, TypeOK
  <2>2. \A k \in Invs : result'[k] = "paid" <=> result[k] = "paid"
    BY <1>4, ReceiptChanges
  <2>3. \A k \in Invs : PaidOn(d)'[k] = PaidOn(d)[k]
    BY <1>0, <2>2, AnswersStay DEF PaidOn
  <2>4. SumFunctionOnSet(PaidOn(d)', Invs) = SumFunctionOnSet(PaidOn(d), Invs)
    BY <1>0, <1>1, <2>3, SumIsSame
  <2>. QED
    BY <1>2, <2>1, <2>4
<1>. QED
  BY <1>3, <1>4

\* A day's counter is the sum of what was answered "paid" on it, whatever runs
\* at once and whatever the tenant writes (store.rs:112-127, api.rs:316-345).
THEOREM Ledger == Spec => []LedgerMatchesReceipts
<1>1. Init => LedgerMatchesReceipts
  <2>. SUFFICES ASSUME Init, NEW d \in Days PROVE spend[d] = SumFunctionOnSet(PaidOn(d), Invs)
    BY DEF LedgerMatchesReceipts, SumFunction, PaidOn
  <2>1. \A i \in Invs : PaidOn(d)[i] = 0
    BY DEF Init, PaidOn
  <2>. QED
    BY <2>1, SumOfZeros, ContractAssumption DEF Init
<1>. QED
  BY <1>1, LedgerStep, Invariance, PTL DEF Spec

-----------------------------------------------------------------------------
(* What the vendor moved, and what is said of it.                           *)

\* A payout that may have moved money, for all its answer says.
MayHaveMoved(i) == InFlight(i) \/ result[i] \in {"upstream_error", "error"}

\* Until it is counted, a payout on its way stays one that may have moved money,
\* on the day it was judged.
LEMMA MayHaveMovedStays ==
  ASSUME IInv, [Next]_vars, NEW i \in Invs, MayHaveMoved(i), ~ Count(i)
  PROVE  MayHaveMoved(i)' /\ at'[i] = at[i]
<1>1. CASE result[i] # "none"
  BY <1>1, AnswersStay DEF MayHaveMoved, IInv, Judged, InFlight
<1>2. CASE InFlight(i)
  BY <1>2
     DEF MayHaveMoved, InFlight, IInv, TypeOK, Next, Step, Environment, vars, mapVars, invVars,
         Call, Reject, ReadFails, Refuse, Admit, PostAccepted, PostRefused, PostFails, Count,
         CountFails, Finish, WriteVendor, WriteOverrides, SeedApiKey, DamageCounter, Midnight
<1>. QED
  BY <1>1, <1>2 DEF MayHaveMoved

\* What has a key keeps it.
LEMMA KeyKept ==
  ASSUME [Next]_vars, NEW i \in Invs, at'[i] = at[i]
  PROVE  Key(i)' = Key(i)
BY RequestsStay DEF Key

\* A payout whose state or answer owns up to a transfer.
OwnsUp(i) == phase[i] = "accepted" \/ result[i] \in {"paid", "upstream_error", "error"}

ReportedInv ==
  /\ \A k \in bank : \E i \in Invs : k = Key(i) /\ OwnsUp(i)
  /\ \A i \in Invs : phase[i] = "accepted" \/ result[i] = "paid" => Key(i) \in bank

LEMMA OwnsUpStays ==
  ASSUME IInv, [Next]_vars, NEW i \in Invs, OwnsUp(i)
  PROVE  OwnsUp(i)' /\ at'[i] = at[i]
<1>1. CASE result[i] # "none"
  BY <1>1, AnswersStay DEF OwnsUp, IInv, Judged
<1>2. CASE phase[i] = "accepted"
  BY <1>2
     DEF OwnsUp, IInv, TypeOK, Next, Step, Environment, vars, mapVars, invVars,
         Call, Reject, ReadFails, Refuse, Admit, PostAccepted, PostRefused, PostFails, Count,
         CountFails, Finish, WriteVendor, WriteOverrides, SeedApiKey, DamageCounter, Midnight
<1>. QED
  BY <1>1, <1>2 DEF OwnsUp

\* Money moves with a post, and the post says so.
LEMMA PostsOwnUp ==
  ASSUME IInv, [Next]_vars, NEW k \in bank', k \notin bank
  PROVE  \E i \in Invs : k = Key(i) /\ OwnsUp(i)' /\ at'[i] = at[i]
<1>1. ASSUME NEW i \in Invs, PostAccepted(i) \/ PostRefused(i) \/ PostFails(i)
      PROVE  k = Key(i) /\ OwnsUp(i)' /\ at'[i] = at[i]
  BY <1>1 DEF PostAccepted, PostRefused, PostFails, Finish, OwnsUp, IInv, TypeOK
<1>. QED
  BY <1>1
     DEF Next, Step, Environment, vars, mapVars, invVars, Call, Reject, ReadFails, Refuse, Admit,
         Count, CountFails, WriteVendor, WriteOverrides, SeedApiKey, DamageCounter, Midnight

\* A payout is accepted, or paid, by a post that moved the money.
LEMMA AcceptedIsMoved ==
  ASSUME IInv, [Next]_vars, NEW i \in Invs, phase'[i] = "accepted" \/ result'[i] = "paid"
  PROVE  \/ phase[i] = "accepted" \/ result[i] = "paid"
         \/ at'[i] = at[i] /\ Key(i) \in bank'
<1>1. result[i] # "none" => phase[i] = "done"
  BY DEF IInv, Judged
<1>. QED
  BY <1>1
     DEF IInv, TypeOK, Next, Step, Environment, vars, mapVars, invVars,
         Call, Reject, ReadFails, Refuse, Admit, PostAccepted, PostRefused, PostFails, Count,
         CountFails, Finish, WriteVendor, WriteOverrides, SeedApiKey, DamageCounter, Midnight

\* All money that moved belongs to a payout whose answer admits it, and "paid"
\* is only answered for money that moved (api.rs:285-345).
THEOREM Reporting == Spec => []TransfersAreReported
<1>1. Init => ReportedInv
  BY DEF Init, ReportedInv
<1>2. IInv /\ ReportedInv /\ [Next]_vars => ReportedInv'
  <2>. SUFFICES ASSUME IInv, ReportedInv, [Next]_vars PROVE ReportedInv'
    OBVIOUS
  <2>1. bank \subseteq bank'
    BY BankChanges
  <2>2. ASSUME NEW k \in bank' PROVE \E i \in Invs : k = Key(i)' /\ OwnsUp(i)'
    <3>1. CASE k \in bank
      <4>1. PICK i \in Invs : k = Key(i) /\ OwnsUp(i)
        BY <3>1 DEF ReportedInv
      <4>2. OwnsUp(i)' /\ Key(i)' = Key(i)
        BY <4>1, OwnsUpStays, KeyKept
      <4>. QED
        BY <4>1, <4>2
    <3>2. CASE k \notin bank
      <4>1. PICK i \in Invs : k = Key(i) /\ OwnsUp(i)' /\ at'[i] = at[i]
        BY <3>2, PostsOwnUp
      <4>2. Key(i)' = Key(i)
        BY <4>1, KeyKept
      <4>. QED
        BY <4>1, <4>2
    <3>. QED
      BY <3>1, <3>2
  <2>3. ASSUME NEW i \in Invs, phase'[i] = "accepted" \/ result'[i] = "paid"
        PROVE  Key(i)' \in bank'
    <3>1. CASE phase[i] = "accepted" \/ result[i] = "paid"
      <4>1. Key(i) \in bank' /\ at'[i] = at[i]
        BY <2>1, <3>1, OwnsUpStays DEF ReportedInv, OwnsUp
      <4>. QED
        BY <4>1, KeyKept
    <3>2. CASE at'[i] = at[i] /\ Key(i) \in bank'
      BY <3>2, KeyKept
    <3>. QED
      BY <2>3, <3>1, <3>2, AcceptedIsMoved
  <2>. QED
    BY <2>2, <2>3 DEF ReportedInv
<1>3. ReportedInv => TransfersAreReported
  BY DEF ReportedInv, TransfersAreReported, OwnsUp
<1>. QED
  BY <1>1, <1>2, <1>3, Invariance, PTL DEF Spec

(* The money and the counters.  The sums compare once the payouts that are    *)
(* counted as unclear are those whose key the vendor knows: a post then moves *)
(* both sides at once.                                                        *)

MovedOn(d) == [k \in bank |-> IF k.day = d THEN k.amount ELSE 0]
Covering(d) ==
  [i \in Invs |-> IF at[i] = d /\ Key(i) \in bank /\ MayHaveMoved(i) THEN req[i].amount ELSE 0]
Unclear(d) ==
  [i \in Invs |-> IF at[i] = d /\ MayHaveMoved(i) THEN req[i].amount ELSE 0]

MoneyCovered ==
  /\ IsFiniteSet(bank)
  /\ \A d \in Days : spend[d] # Damaged =>
       SumFunctionOnSet(MovedOn(d), bank) <= spend[d] + SumFunctionOnSet(Covering(d), Invs)

\* All the weights are amounts.
LEMMA Weights ==
  ASSUME TypeOK, NEW d \in Days
  PROVE  /\ \A k \in bank : MovedOn(d)[k] \in Nat
         /\ \A i \in Invs : Covering(d)[i] \in Nat /\ Unclear(d)[i] \in Nat
                            /\ Covering(d)[i] <= Unclear(d)[i]
<1>1. \A k \in bank : k.amount \in Nat
  BY DefaultTypes DEF TypeOK, U64
<1>2. \A i \in Invs : req[i].amount \in Nat
  BY Amounts
<1>. QED
  BY <1>1, <1>2 DEF MovedOn, Covering, Unclear

\* A payout that is not counted by this step covers what it covered.
LEMMA CoverStays ==
  ASSUME IInv, [Next]_vars, NEW d \in Days, NEW i \in Invs, ~ Count(i)
  PROVE  Covering(d)[i] <= Covering(d)'[i]
<1>1. bank \subseteq bank' /\ req' = req /\ TypeOK
  BY BankChanges, RequestsStay DEF IInv
<1>2. req[i].amount \in Nat
  BY <1>1, Amounts
<1>3. CASE at[i] = d /\ Key(i) \in bank /\ MayHaveMoved(i)
  <2>1. MayHaveMoved(i)' /\ at'[i] = d /\ Key(i)' = Key(i)
    BY <1>3, MayHaveMovedStays, KeyKept
  <2>. QED
    BY <1>1, <1>2, <1>3, <2>1 DEF Covering
<1>4. CASE ~ (at[i] = d /\ Key(i) \in bank /\ MayHaveMoved(i))
  BY <1>1, <1>2, <1>4 DEF Covering
<1>. QED
  BY <1>3, <1>4

\* Money moves with a post, and a post counts nothing.
LEMMA PostOrCount ==
  ASSUME [Next]_vars, bank' # bank
  PROVE  spend' = spend /\ \A i \in Invs : ~ Count(i)
BY DEF Next, Step, Environment, vars, mapVars, invVars, Call, Reject, ReadFails, Refuse, Admit,
       PostAccepted, PostRefused, PostFails, Count, CountFails, WriteVendor, WriteOverrides,
       SeedApiKey, DamageCounter, Midnight

LEMMA CoveredStep == IInv /\ MoneyCovered /\ [Next]_vars => MoneyCovered'
<1>. SUFFICES ASSUME IInv, MoneyCovered, [Next]_vars PROVE MoneyCovered'
  OBVIOUS
<1>0. TypeOK /\ TypeOK' /\ IsFiniteSet(Invs) /\ IsFiniteSet(bank)
  BY TypeStep, ContractAssumption DEF IInv, MoneyCovered
<1>1. IsFiniteSet(bank')
  BY <1>0, BankChanges, FS_AddElement
<1>. SUFFICES ASSUME NEW d \in Days, spend'[d] # Damaged
              PROVE  SumFunctionOnSet(MovedOn(d)', bank') <= spend'[d] + SumFunctionOnSet(Covering(d)', Invs)
  BY <1>1 DEF MoneyCovered
<1>. DEFINE moved == SumFunctionOnSet(MovedOn(d), bank)
            movedNext == SumFunctionOnSet(MovedOn(d)', bank')
            cover == SumFunctionOnSet(Covering(d), Invs)
            coverNext == SumFunctionOnSet(Covering(d)', Invs)
<1>2. /\ \A k \in bank : MovedOn(d)[k] \in Nat
      /\ \A k \in bank' : MovedOn(d)'[k] \in Nat
      /\ \A i \in Invs : Covering(d)[i] \in Nat /\ Covering(d)'[i] \in Nat
  <2>1. \A k \in bank' : k.amount \in Nat
    BY <1>0, DefaultTypes DEF TypeOK, U64
  <2>2. \A i \in Invs : req'[i].amount \in Nat
    BY <1>0, RequestsStay, Amounts
  <2>. QED
    BY <1>0, <2>1, <2>2, Weights DEF MovedOn, Covering
<1>3. moved \in Nat /\ movedNext \in Nat /\ cover \in Nat /\ coverNext \in Nat
  BY <1>0, <1>1, <1>2, SumIsNat
<1>4. spend[d] # Damaged => spend[d] \in Nat /\ moved <= spend[d] + cover
  BY DefaultTypes DEF MoneyCovered, IInv, TypeOK, U64
<1>5. ASSUME bank' = bank PROVE movedNext = moved
  BY <1>5 DEF MovedOn
\* A payout is counted: it covers no more, the counter does.
<1>6. ASSUME NEW i \in Invs, Count(i) PROVE movedNext <= spend'[d] + coverNext
  <2>1. bank' = bank /\ at' = at
    BY <1>6 DEF Count
  <2>2. /\ spend' = [spend EXCEPT ![at[i]] = @ + req[i].amount]
        /\ spend[at[i]] \in Nat /\ spend[at[i]] # Damaged
        /\ req[i].amount \in Nat
    BY <1>0, <1>6, CountGrows, Amounts DEF Count, ReadDailySpent
  <2>. DEFINE others == [Covering(d) EXCEPT ![i] = 0]
  <2>3. /\ \A j \in Invs : others[j] \in Nat
        /\ \A j \in Invs \ {i} : others[j] = Covering(d)[j]
        /\ others[i] = 0
    BY <1>2 DEF Covering
  <2>4. SumFunctionOnSet(others, Invs) + Covering(d)[i] = cover + others[i]
    <3>. HIDE DEF others
    <3>. QED
      BY <1>0, <1>2, <2>3, SumWithOneChanged
  <2>5. SumFunctionOnSet(others, Invs) <= coverNext
    <3>1. \A j \in Invs \ {i} : ~ Count(j)
      BY <1>0, <1>6 DEF Count, Finish, TypeOK
    <3>2. \A j \in Invs : others[j] <= Covering(d)'[j]
      BY <1>2, <2>3, <3>1, CoverStays
    <3>. HIDE DEF others
    <3>. QED
      BY <1>0, <1>2, <2>3, <3>2, SumIsMonotonic
  <2>6. SumFunctionOnSet(others, Invs) \in Nat
    <3>. HIDE DEF others
    <3>. QED
      BY <1>0, <2>3, SumIsNat
  <2>7. Covering(d)[i] = 0 \/ (at[i] = d /\ Covering(d)[i] = req[i].amount)
    BY DEF Covering
  <2>8. spend[d] # Damaged /\ spend[d] \in Nat /\ spend[d] + Covering(d)[i] <= spend'[d] /\ spend'[d] \in Nat
    BY <1>0, <1>4, <2>2, <2>7 DEF TypeOK
  <2>. HIDE DEF others, moved, movedNext, cover, coverNext
  <2>. QED
    BY <1>2, <1>3, <1>4, <1>5, <2>1, <2>3, <2>4, <2>5, <2>6, <2>8
\* Money moves: the payout it belongs to covers it from now on.
<1>7. ASSUME bank' # bank PROVE movedNext <= spend'[d] + coverNext
  <2>0. spend' = spend /\ \A j \in Invs : ~ Count(j)
    BY <1>7, PostOrCount
  <2>1. PICK i \in Invs : InFlight(i) /\ bank' = bank \cup {Key(i)}
    BY <1>7, BankChanges
  <2>2. Key(i) \notin bank
    BY <1>7, <2>1
  <2>3. MayHaveMoved(i)' /\ at'[i] = at[i] /\ Key(i)' = Key(i) /\ req' = req
    BY <2>0, <2>1, MayHaveMovedStays, KeyKept, RequestsStay DEF MayHaveMoved
  <2>4. Covering(d)[i] = 0 /\ Covering(d)'[i] = MovedOn(d)'[Key(i)]
    BY <2>1, <2>2, <2>3 DEF Covering, MovedOn, Key
  <2>5. movedNext = MovedOn(d)'[Key(i)] + moved
    <3>1. \A k \in bank : MovedOn(d)'[k] = MovedOn(d)[k]
      BY <2>1 DEF MovedOn
    <3>2. SumFunctionOnSet(MovedOn(d)', bank) = moved
      BY <1>0, <1>2, <3>1, SumIsSame
    <3>. QED
      BY <1>0, <1>2, <2>1, <2>2, <3>2, SumWithOneMore
  <2>. DEFINE grown == [Covering(d) EXCEPT ![i] = Covering(d)'[i]]
  <2>6. /\ \A j \in Invs : grown[j] \in Nat /\ grown[j] <= Covering(d)'[j]
        /\ \A j \in Invs \ {i} : grown[j] = Covering(d)[j]
        /\ grown[i] = Covering(d)'[i]
    BY <1>2, <2>0, CoverStays DEF Covering
  <2>. HIDE DEF grown
  <2>7. SumFunctionOnSet(grown, Invs) + Covering(d)[i] = cover + grown[i]
    BY <1>0, <1>2, <2>6, SumWithOneChanged
  <2>8. SumFunctionOnSet(grown, Invs) <= coverNext /\ SumFunctionOnSet(grown, Invs) \in Nat
    BY <1>0, <1>2, <2>6, SumIsMonotonic, SumIsNat
  <2>. HIDE DEF moved, movedNext, cover, coverNext
  <2>. QED
    BY <1>2, <1>3, <1>4, <2>0, <2>1, <2>4, <2>5, <2>6, <2>7, <2>8
\* Neither: what is covered stays covered.
<1>8. ASSUME bank' = bank, \A i \in Invs : ~ Count(i) PROVE movedNext <= spend'[d] + coverNext
  <2>1. cover <= coverNext
    BY <1>0, <1>2, <1>8, CoverStays, SumIsMonotonic
  <2>2. spend'[d] = spend[d]
    BY <1>0, <1>8, CounterChanges DEF DamageCounter, TypeOK
  <2>. HIDE DEF moved, movedNext, cover, coverNext
  <2>. QED
    BY <1>3, <1>4, <1>5, <1>8, <2>1, <2>2
<1>. QED
  BY <1>6, <1>7, <1>8

\* On a day with a readable counter the vendor moved no more than the counter
\* says and the payouts whose answer leaves it open (docs/THREAT-MODEL.md:92-97).
THEOREM MoneyAccountedFor == Spec => []UncountedMoneyIsUnclear
<1>1. Init => MoneyCovered
  <2>. SUFFICES ASSUME Init PROVE MoneyCovered
    OBVIOUS
  <2>1. IsFiniteSet(bank)
    BY FS_EmptySet DEF Init
  <2>2. ASSUME NEW d \in Days
        PROVE  SumFunctionOnSet(MovedOn(d), bank) <= spend[d] + SumFunctionOnSet(Covering(d), Invs)
    <3>1. SumFunctionOnSet(MovedOn(d), bank) = 0
      BY SumOfNone DEF Init
    <3>2. \A i \in Invs : Covering(d)[i] = 0
      BY DEF Init, Covering
    <3>3. SumFunctionOnSet(Covering(d), Invs) = 0
      BY <3>2, SumOfZeros, ContractAssumption
    <3>. QED
      BY <3>1, <3>3 DEF Init
  <2>. QED
    BY <2>1, <2>2 DEF MoneyCovered
<1>2. IInv /\ MoneyCovered => UncountedMoneyIsUnclear
  <2>. SUFFICES ASSUME IInv, MoneyCovered, NEW d \in Days, spend[d] # Damaged
                PROVE  SumFunctionOnSet(MovedOn(d), bank) <= spend[d] + SumFunctionOnSet(Unclear(d), Invs)
    BY DEF UncountedMoneyIsUnclear, SumFunction, MovedOn, Unclear, MayHaveMoved
  <2>0. IsFiniteSet(Invs) /\ IsFiniteSet(bank) /\ TypeOK
    BY ContractAssumption DEF IInv, MoneyCovered
  <2>1. SumFunctionOnSet(Covering(d), Invs) <= SumFunctionOnSet(Unclear(d), Invs)
    BY <2>0, Weights, SumIsMonotonic
  <2>2. /\ SumFunctionOnSet(Covering(d), Invs) \in Nat /\ SumFunctionOnSet(Unclear(d), Invs) \in Nat
        /\ SumFunctionOnSet(MovedOn(d), bank) \in Nat
    BY <2>0, Weights, SumIsNat
  <2>3. spend[d] \in Nat
    BY <2>0, DefaultTypes DEF TypeOK, U64
  <2>. QED
    BY <2>1, <2>2, <2>3 DEF MoneyCovered
<1>. QED
  BY <1>1, <1>2, CoveredStep, Invariance, PTL DEF Spec
-----------------------------------------------------------------------------
(* The dates the counters are named by.                                     *)

LEMMA DateBefore ==
  ASSUME NEW d \in Int
  PROVE  CivilFromDays(d) = DayAfter(CivilFromDays(d - 1))
<1>. DEFINE z == d - 1
<1>1. z \in Int /\ z + 1 = d
  BY SMT
<1>. HIDE DEF z
<1>2. CivilFromDays(z + 1) = DayAfter(CivilFromDays(z))
  BY <1>1, DatesFollow
<1>. QED
  BY <1>1, <1>2 DEF z

\* Each day's counter has the calendar's date for a name, so that a new day brings
\* a new counter (dates.rs:3-6); for all days, DatesDiffer says that no two have
\* the same.
THEOREM Calendar == Spec => []CountersFollowCalendar
<1>1. TypeOK => CountersFollowCalendar
  <2>. SUFFICES ASSUME TypeOK PROVE CountersFollowCalendar
    OBVIOUS
  <2>1. \A d \in 1 .. day : CivilFromDays(d) = DayAfter(CivilFromDays(d - 1))
    <3>. SUFFICES ASSUME NEW d \in 1 .. day PROVE CivilFromDays(d) = DayAfter(CivilFromDays(d - 1))
      OBVIOUS
    <3>1. d \in Int
      BY SMT DEF TypeOK, Days
    <3>. QED
      BY <3>1, DateBefore
  <2>2. OffCalendar = {}
    <3>1. Cycle \in Int
      BY SMT DEF Cycle
    <3>2. \A z \in 0 .. Cycle - 1 : z \in Int
      BY SMT, <3>1
    <3>. QED
      BY <3>2, DatesFollow DEF OffCalendar
  <2>3. CivilFromDays(0) = Epoch
    BY SMT DEF CivilFromDays, Epoch, YearOfEra, Cycle
  <2>4. CivilFromDays(Cycle) = [Epoch EXCEPT !.year = 2370]
    BY SMT DEF CivilFromDays, Epoch, YearOfEra, Cycle
  <2>. QED
    BY <2>1, <2>2, <2>3, <2>4 DEF CountersFollowCalendar
<1>. QED
  BY <1>1, TypeCorrect, PTL
=============================================================================

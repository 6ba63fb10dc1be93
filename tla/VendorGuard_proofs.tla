-------------------------- MODULE VendorGuard_proofs --------------------------
(***************************************************************************)
(* Proofs about the whole system, for any number of processes, calls,        *)
(* approvals and days, any policy and any records of the tenant.  The gate's *)
(* own invariant holds of it by PaymentGate_proofs, since every step of the   *)
(* system is a step of the gate or leaves the gate alone.                     *)
(***************************************************************************)
EXTENDS VendorGuard, TLAPS

GP == INSTANCE PaymentGate_proofs

LEMMA Assumed == GP!GateAssumption
BY SystemAssumption DEF Gate!GateAssumption

-----------------------------------------------------------------------------
(* The gate within the system.                                              *)

\* The actions that VendorGuard takes from the gate are those the proofs about
\* the gate are about.
LEMMA SameMint ==
  ASSUME NEW n, NEW i, NEW ttl, NEW ahead, Gate!Mint(n, i, ttl, ahead)
  PROVE  GP!Mint(n, i, ttl, ahead)
BY DEF Gate!Mint, GP!Mint, Gate!callVars, GP!callVars

LEMMA SameStart ==
  ASSUME NEW p, NEW a, NEW t, Gate!Start(p, a, t)
  PROVE  GP!Start(p, a, t)
BY DEF Gate!Start, GP!Start, Gate!Active, GP!Active, Gate!MintedTokens, GP!MintedTokens

LEMMA SameLocal ==
  ASSUME NEW a, Gate!Local(a)
  PROVE  GP!Local(a)
<1>. USE DEF Gate!callVars, GP!callVars, Gate!ToLog, GP!ToLog
<1>1. Gate!LogCheck(a) => GP!LogCheck(a)
  BY DEF Gate!LogCheck, GP!LogCheck, Gate!Blocked, GP!Blocked
<1>2. Gate!Approve(a) => GP!Approve(a)
  BY DEF Gate!Approve, GP!Approve, Gate!Valid, GP!Valid, Gate!LogUnreadable, GP!LogUnreadable,
         Gate!KnownSpent, GP!KnownSpent, Gate!LoggedPaid, GP!LoggedPaid,
         Gate!MintedTokens, GP!MintedTokens
<1>3. Gate!RejectApproval(a) => GP!RejectApproval(a)
  BY DEF Gate!RejectApproval, GP!RejectApproval, Gate!Valid, GP!Valid, Gate!LogUnreadable,
         GP!LogUnreadable, Gate!KnownSpent, GP!KnownSpent, Gate!LoggedPaid, GP!LoggedPaid,
         Gate!MintedTokens, GP!MintedTokens
<1>4. Gate!Finish(a) => GP!Finish(a)
  BY DEF Gate!Finish, GP!Finish, Gate!OutcomeOf, GP!OutcomeOf
<1>5. Gate!AppendFails(a) => GP!AppendFails(a)
  BY DEF Gate!AppendFails, GP!AppendFails
<1>. QED
  BY <1>1, <1>2, <1>3, <1>4, <1>5 DEF Gate!Local, GP!Local

LEMMA SameCrash ==
  ASSUME NEW p, Gate!Crash(p)
  PROVE  GP!Crash(p)
BY DEF Gate!Crash, GP!Crash, Gate!Active, GP!Active, Gate!callVars, GP!callVars

LEMMA SameAnswers ==
  ASSUME NEW a
  PROVE  /\ \A d : Gate!CheckAnswered(a, d) => GP!CheckAnswered(a, d)
         /\ Gate!CheckFailed(a) => GP!CheckFailed(a)
         /\ \A s : Gate!PayoutAnswered(a, s) => GP!PayoutAnswered(a, s)
         /\ Gate!PayoutFailed(a) => GP!PayoutFailed(a)
<1>. USE DEF Gate!callVars, GP!callVars, Gate!ToLog, GP!ToLog
<1>1. \A d : Gate!CheckAnswered(a, d) => GP!CheckAnswered(a, d)
  BY DEF Gate!CheckAnswered, GP!CheckAnswered
<1>2. Gate!CheckFailed(a) => GP!CheckFailed(a)
  BY DEF Gate!CheckFailed, GP!CheckFailed
<1>3. \A s : Gate!PayoutAnswered(a, s) => GP!PayoutAnswered(a, s)
  BY DEF Gate!PayoutAnswered, GP!PayoutAnswered, Gate!KnownSpent, GP!KnownSpent,
         Gate!LoggedPaid, GP!LoggedPaid
<1>4. Gate!PayoutFailed(a) => GP!PayoutFailed(a)
  BY DEF Gate!PayoutFailed, GP!PayoutFailed
<1>. QED
  BY <1>1, <1>2, <1>3, <1>4

\* A verdict of the contract is one of the decisions the gate knows.
LEMMA VerdictIsDecision ==
  ASSUME NEW r, NEW d
  PROVE  Contract!Verdict(r, d) \in GP!Decisions \ {"none"}
BY DEF Contract!Verdict, Contract!Decision, GP!Decisions

\* A step of the system is a step of the gate, or none.
LEMMA GateSteps == [Next]_vars => [GP!Next]_GP!vars
<1>. SUFFICES ASSUME Next PROVE GP!Next \/ UNCHANGED GP!vars
  BY DEF vars, gateVars, GP!vars
<1>1. CASE GateAlone
  BY <1>1, SameMint, SameStart, SameLocal, SameCrash
     DEF GateAlone, GP!Next, Gate!MintedTokens, GP!MintedTokens
<1>2. CASE ContractAlone
  BY <1>2 DEF ContractAlone, gateVars, GP!vars
<1>3. ASSUME NEW a \in Attempts, Check(a) PROVE GP!Next
  BY <1>3, SameAnswers, VerdictIsDecision DEF Check, GP!Next, GP!Answered
<1>4. ASSUME NEW i \in Tries, Deliver(i) PROVE UNCHANGED GP!vars
  BY <1>4 DEF Deliver, gateVars, GP!vars
<1>7. ASSUME NEW a \in Attempts, Retry(a) PROVE UNCHANGED GP!vars
  BY <1>7 DEF Retry, gateVars, GP!vars
<1>5. ASSUME NEW a \in Attempts, Answer(a) PROVE GP!Next
  BY <1>5, SameAnswers DEF Answer, GP!Next, GP!Answered
<1>6. ASSUME NEW a \in Attempts, NoAnswer(a) PROVE GP!Next
  BY <1>6, SameAnswers DEF NoAnswer, GP!Next, GP!Answered
<1>. QED
  BY <1>1, <1>2, <1>3, <1>4, <1>5, <1>6, <1>7 DEF Next

\* The system's processes are a gate as PaymentGate describes it.
THEOREM GateWithin == Spec => GP!Spec
<1>1. Init => GP!Init
  BY DEF Init, Gate!Init, GP!Init
<1>. QED
  BY <1>1, GateSteps, PTL DEF Spec, GP!Spec

-----------------------------------------------------------------------------
(* The inductive invariant of the system: what its parts know of each other. *)

\* Each side's own bookkeeping keeps its types.
TriesTypes ==
  /\ stage \in [Tries -> Contract!Phases]
  /\ result \in [Tries -> Contract!Results]
  /\ at \in [Tries -> 0 .. LastDay]
  /\ day \in 0 .. LastDay

\* What runs was invoked, and has its result when it ended only; only a call that
\* was sent is tried again.
TriesInOrder ==
  /\ \A i \in Tries : stage[i] # "idle" => i \in Invoked
  /\ \A i \in Tries : stage[i] # "done" => result[i] = "none"
  /\ retried \subseteq sent

\* k is the transfer of a minted token's payment, on some day.
Approved(k) ==
  LET i == minted[k.ref].intent IN
  /\ k.ref \in Nonces /\ minted[k.ref] # NoToken /\ k.day \in 0 .. LastDay
  /\ k = [vendor |-> i.vendor, amount |-> i.amount, currency |-> i.currency,
          ref |-> k.ref, day |-> k.day]

\* Money moves for approvals, and has moved where the contract says so.
MoneyApproved ==
  /\ \A n \in Nonces : minted[n] # NoToken => minted[n].nonce = n
  /\ \A i \in Tries : stage[i] = "accepted" \/ result[i] = "paid" => Contract!Key(i) \in bank
  /\ \A k \in bank : Approved(k)

\* What a sent attempt's caller is told, and what is logged of it, is what the
\* last invocation made for it answered.
Final == {"paid", "upstream_error", "refused"}
ToldWhatHappened ==
  /\ \A a \in sent : phase[a] = "logging" /\ event[a] \in Final => result[Current(a)] = event[a]
  /\ \A e \in log : e.attempt \in sent /\ e.event \in Final => result[Current(e.attempt)] = e.event
  /\ \A a \in sent : outcome[a] \in Final => phase[a] = "done" /\ result[Current(a)] = outcome[a]

SysInv == TriesTypes /\ TriesInOrder /\ MoneyApproved /\ ToldWhatHappened

LEMMA InitSysInv == Init => SysInv
<1>. SUFFICES ASSUME Init PROVE SysInv
  OBVIOUS
<1>. USE DEF Init, Gate!Init, Contract!Init
<1>1. TriesTypes
  BY SystemAssumption DEF TriesTypes, Contract!Phases, Contract!Results
<1>2. TriesInOrder
  BY DEF TriesInOrder, Tries
<1>3. MoneyApproved
  BY DEF MoneyApproved
<1>4. ToldWhatHappened
  BY DEF ToldWhatHappened
<1>. QED
  BY <1>1, <1>2, <1>3, <1>4 DEF SysInv

-----------------------------------------------------------------------------
(* What a step of the system does to the invocations.                       *)

Called(i) ==
  /\ UNCHANGED <<gateVars, retried, result, day, bank>>
  /\ stage[i] = "idle" /\ i \in Invoked
  /\ stage' = [stage EXCEPT ![i] = "called"]
  /\ at' = [at EXCEPT ![i] = day]

\* An invocation on its way reaches stage s with result r.
Moved(i, s, r) ==
  /\ UNCHANGED <<gateVars, retried, at, day>>
  /\ stage[i] \notin {"idle", "done"}
  /\ stage' = [stage EXCEPT ![i] = s] /\ s \in {"egress", "accepted", "done"}
  /\ result' = [result EXCEPT ![i] = r] /\ r \in Contract!Results /\ (s # "done" => r = "none")
  /\ bank' = bank \/ (stage[i] = "egress" /\ bank' = bank \cup {Contract!Key(i)})
  /\ s = "accepted" => stage[i] = "egress" /\ Contract!Key(i) \in bank'
  /\ r = "paid" => stage[i] = "accepted"

\* An invocation that was made belongs to a sent attempt.
LEMMA InvokedIsSent ==
  ASSUME TriesInOrder, NEW i \in Tries, i \in Invoked
  PROVE  i[1] \in sent
BY DEF TriesInOrder, Invoked

LEMMA ContractStep ==
  ASSUME TriesTypes, TriesInOrder, UNCHANGED <<gateVars, retried>>, NEW i \in Tries,
         Contract!Step(i) \/ Contract!ReadFails(i)
  PROVE  \E s, r : Moved(i, s, r)
<1>. USE DEF Contract!Finish, Contract!Results, TriesTypes
<1>t. /\ result = [result EXCEPT ![i] = result[i]]
      /\ stage[i] # "done" => result[i] = "none"
  BY DEF TriesInOrder
<1>1. CASE Contract!Reject(i) \/ Contract!ReadFails(i)
  <2>1. Moved(i, "done", "error")
    BY <1>1, <1>t DEF Contract!Reject, Contract!ReadFails, Moved
  <2>. QED
    BY <2>1
<1>2. CASE Contract!Refuse(i)
  <2>1. Moved(i, "done", "refused")
    BY <1>2, <1>t DEF Contract!Refuse, Moved
  <2>. QED
    BY <2>1
<1>3. CASE Contract!Admit(i)
  <2>1. Moved(i, "egress", "none")
    BY <1>3, <1>t DEF Contract!Admit, Moved
  <2>. QED
    BY <2>1
<1>4. CASE Contract!PostAccepted(i)
  <2>1. Moved(i, "accepted", "none")
    BY <1>4, <1>t DEF Contract!PostAccepted, Moved
  <2>. QED
    BY <2>1
<1>5. CASE Contract!PostRefused(i)
  <2>1. Moved(i, "done", "upstream_error")
    BY <1>5, <1>t DEF Contract!PostRefused, Moved
  <2>. QED
    BY <2>1
<1>6. CASE Contract!PostFails(i)
  <2>1. Moved(i, "done", "error")
    BY <1>6, <1>t DEF Contract!PostFails, Moved
  <2>. QED
    BY <2>1
<1>7. CASE Contract!Count(i)
  <2>1. Moved(i, "done", "paid")
    BY <1>7, <1>t DEF Contract!Count, Moved
  <2>. QED
    BY <2>1
<1>8. CASE Contract!CountFails(i)
  <2>1. Moved(i, "done", "error")
    BY <1>8, <1>t DEF Contract!CountFails, Moved
  <2>. QED
    BY <2>1
<1>. QED
  BY <1>1, <1>2, <1>3, <1>4, <1>5, <1>6, <1>7, <1>8 DEF Contract!Step

\* A step moves one invocation on, or the calendar, or makes a second try, or
\* leaves all of it alone.
LEMMA InvocationSteps ==
  ASSUME TriesTypes, TriesInOrder, [Next]_vars
  PROVE  \/ UNCHANGED <<retried, stage, result, at, day, bank>>
         \/ UNCHANGED <<gateVars, retried, stage, result, at, bank>> /\ day' \in 0 .. LastDay
         \/ \E a \in Attempts : Retry(a)
         \/ \E i \in Tries : Called(i)
         \/ \E i \in Tries : \E s, r : Moved(i, s, r)
<1>1. CASE GateAlone \/ UNCHANGED vars
  BY <1>1 DEF GateAlone, enclaveVars, vars
<1>2. ASSUME NEW i \in Tries, UNCHANGED <<gateVars, retried>>,
             Contract!Step(i) \/ Contract!ReadFails(i)
      PROVE  \E s, r : Moved(i, s, r)
  BY <1>2, ContractStep
<1>3. ASSUME NEW v \in VendorIds, Contract!WriteVendor(v)
      PROVE  UNCHANGED <<stage, result, at, day, bank>>
  BY <1>3 DEF Contract!WriteVendor, Contract!invVars
<1>4. ASSUME UNCHANGED <<gateVars, retried>>, Contract!Midnight
      PROVE  UNCHANGED <<gateVars, retried, stage, result, at, bank>> /\ day' \in 0 .. LastDay
  BY <1>4, SystemAssumption DEF Contract!Midnight, Contract!invVars, TriesTypes
<1>5. ASSUME NEW a \in Attempts, Check(a) \/ Answer(a) \/ NoAnswer(a)
      PROVE  UNCHANGED <<retried, stage, result, at, day, bank>>
  BY <1>5 DEF Check, Answer, NoAnswer, enclaveVars
<1>6. ASSUME NEW i \in Tries, Deliver(i) PROVE Called(i)
  BY <1>6 DEF Deliver, Called, Contract!Call
<1>. QED
  BY <1>1, <1>2, <1>3, <1>4, <1>5, <1>6 DEF Next, ContractAlone

-----------------------------------------------------------------------------
(* The invariant is kept.                                                   *)

LEMMA TypesStep == TriesTypes /\ TriesInOrder /\ [Next]_vars => TriesTypes'
<1>. SUFFICES ASSUME TriesTypes, TriesInOrder, [Next]_vars PROVE TriesTypes'
  OBVIOUS
<1>. USE DEF TriesTypes
<1>1. ASSUME NEW i \in Tries, Called(i) PROVE TriesTypes'
  BY <1>1 DEF Called, Contract!Phases
<1>2. ASSUME NEW i \in Tries, NEW s, NEW r, Moved(i, s, r) PROVE TriesTypes'
  BY <1>2 DEF Moved, Contract!Phases
<1>3. ASSUME NEW a \in Attempts, Retry(a) PROVE TriesTypes'
  BY <1>3 DEF Retry, enclaveVars
<1>. QED
  BY InvocationSteps, <1>1, <1>2, <1>3

\* What the gate's invariant says of a sent attempt, as the proofs below use it.
LEMMA SentStays ==
  ASSUME GP!IInv, [Next]_vars, NEW a \in sent
  PROVE  /\ a \in Attempts /\ a \in sent'
         /\ token'[a] = token[a] /\ intent'[a] = intent[a]
<1>1. [GP!Next]_GP!vars
  BY GateSteps
<1>2. a \in Attempts
  BY DEF GP!IInv, GP!TypeOK
<1>3. intent' = intent
  BY <1>1, GP!Actions, Assumed
     DEF GP!callVars, GP!vars, GP!Mint, GP!Start, GP!CheckAnswered, GP!CheckFailed,
         GP!PayoutAnswered, GP!PayoutFailed, GP!LogCheck, GP!Approve, GP!RejectApproval,
         GP!Finish, GP!AppendFails, GP!Crash, GP!Tick
<1>. QED
  BY <1>1, <1>2, <1>3, GP!DoneIsDone, GP!NothingTakenBack, Assumed

LEMMA OrderStep == GP!IInv /\ SysInv /\ [Next]_vars => TriesInOrder'
<1>. SUFFICES ASSUME GP!IInv, SysInv, [Next]_vars PROVE TriesInOrder'
  OBVIOUS
<1>0. TriesTypes /\ TriesInOrder /\ sent \subseteq sent'
  BY SentStays DEF SysInv
<1>. USE DEF Invoked
<1>1. CASE UNCHANGED <<retried, stage, result>>
  BY <1>0, <1>1 DEF TriesInOrder
<1>2. ASSUME NEW i \in Tries, Called(i) PROVE TriesInOrder'
  BY <1>0, <1>2 DEF Called, TriesInOrder, TriesTypes, gateVars
<1>3. ASSUME NEW i \in Tries, NEW s, NEW r, Moved(i, s, r) PROVE TriesInOrder'
  BY <1>0, <1>3 DEF Moved, TriesInOrder, TriesTypes, gateVars
<1>4. ASSUME NEW a \in Attempts, Retry(a) PROVE TriesInOrder'
  <2>1. a \in sent
    BY <1>4 DEF Retry, GP!IInv, GP!Standing, GP!Stands
  <2>. QED
    BY <1>0, <1>4, <2>1 DEF Retry, TriesInOrder, gateVars, enclaveVars
<1>. QED
  BY <1>0, <1>1, <1>2, <1>3, <1>4, InvocationSteps

\* The key of a sent attempt's invocation is that of the payment approved by
\* the token it was sent with.
LEMMA KeyOfSent ==
  ASSUME GP!IInv, MoneyApproved, NEW i \in Tries, i[1] \in sent
  PROVE  LET n == token[i[1]].nonce
             p == minted[n].intent
         IN  /\ n \in Nonces /\ minted[n] # NoToken
             /\ Contract!Key(i) = [vendor |-> p.vendor, amount |-> p.amount,
                                   currency |-> p.currency, ref |-> n, day |-> at[i]]
<1>. DEFINE a == i[1]
<1>1. /\ token[a] \in GP!MintedTokens /\ token[a] \in GP!Tokens
      /\ token[a].intent = intent[a]
  BY GP!MintedTypes, Assumed DEF GP!IInv, GP!OnlyApprovedIsSent
<1>2. PICK n \in Nonces : token[a] = minted[n] /\ minted[n] # NoToken
  BY <1>1 DEF GP!MintedTokens
<1>3. token[a].nonce = n
  BY <1>2 DEF MoneyApproved
<1>4. token[a] \notin {NoToken, BadToken}
  BY <1>1, SystemAssumption DEF GP!Tokens, Gate!Tokens
<1>5. requests[i] = RequestOf(intent[a], token[a])
  BY DEF requests
<1>. QED
  BY <1>1, <1>2, <1>3, <1>4, <1>5 DEF Contract!Key, RequestOf

\* An approval is never changed or taken back.
LEMMA MintedStays ==
  ASSUME GP!IInv, MoneyApproved, [Next]_vars, NEW n \in Nonces
  PROVE  /\ minted[n] # NoToken => minted'[n] = minted[n]
         /\ minted'[n] # NoToken => minted'[n].nonce = n
<1>1. minted \in [Nonces -> GP!Tokens \cup {NoToken}]
  BY DEF GP!IInv, GP!TypeOK
<1>2. ASSUME NEW m \in Nonces, NEW i, NEW ttl, NEW ahead, GP!Mint(m, i, ttl, ahead)
      PROVE  /\ minted[n] # NoToken => minted'[n] = minted[n]
             /\ minted'[n] # NoToken => minted'[n].nonce = n
  BY <1>1, <1>2 DEF GP!Mint, MoneyApproved
<1>3. CASE minted' = minted
  BY <1>3 DEF MoneyApproved
<1>. QED
  BY GateSteps, GP!Actions, Assumed, <1>2, <1>3
     DEF GP!callVars, GP!vars, GP!Start, GP!CheckAnswered, GP!CheckFailed,
         GP!PayoutAnswered, GP!PayoutFailed, GP!LogCheck, GP!Approve, GP!RejectApproval,
         GP!Finish, GP!AppendFails, GP!Crash, GP!Tick

\* Nor is the payment of an invocation that was sent.
LEMMA KeyStays ==
  ASSUME GP!IInv, [Next]_vars, NEW i \in Tries, i[1] \in sent, at'[i] = at[i]
  PROVE  Contract!Key(i)' = Contract!Key(i)
<1>1. requests'[i] = requests[i]
  BY SentStays DEF requests, RequestOf
<1>. QED
  BY <1>1 DEF Contract!Key

LEMMA MoneyStep == GP!IInv /\ SysInv /\ [Next]_vars => MoneyApproved'
<1>. SUFFICES ASSUME GP!IInv, SysInv, [Next]_vars PROVE MoneyApproved'
  OBVIOUS
<1>0. TriesTypes /\ TriesInOrder /\ MoneyApproved
  BY DEF SysInv
<1>1. \A n \in Nonces : minted'[n] # NoToken => minted'[n].nonce = n
  BY <1>0, MintedStays
<1>2. ASSUME NEW k \in bank PROVE Approved(k)'
  <2>1. Approved(k)
    BY <1>0 DEF MoneyApproved
  <2>2. minted'[k.ref] = minted[k.ref]
    BY <1>0, <2>1, MintedStays DEF Approved
  <2>. QED
    BY <2>1, <2>2 DEF Approved
<1>3. ASSUME UNCHANGED <<stage, result, bank>>, \A i \in Tries : stage[i] # "idle" => at'[i] = at[i]
      PROVE  MoneyApproved'
  <2>1. ASSUME NEW i \in Tries, stage[i] = "accepted" \/ result[i] = "paid"
        PROVE  Contract!Key(i)' \in bank
    <3>1. stage[i] # "idle" /\ i[1] \in sent
      BY <1>0, <2>1, InvokedIsSent DEF TriesInOrder
    <3>. QED
      BY <1>0, <1>3, <2>1, <3>1, KeyStays DEF MoneyApproved
  <2>. QED
    BY <1>1, <1>2, <1>3, <2>1 DEF MoneyApproved
<1>4. ASSUME NEW i \in Tries, Called(i) PROVE MoneyApproved'
  <2>1. ASSUME NEW j \in Tries, stage'[j] = "accepted" \/ result'[j] = "paid"
        PROVE  Contract!Key(j)' \in bank'
    <3>1. stage[j] = "accepted" \/ result[j] = "paid"
      BY <1>0, <1>4, <2>1 DEF Called, TriesTypes
    <3>2. j[1] \in sent
      BY <1>0, <3>1, InvokedIsSent DEF TriesInOrder
    <3>3. at'[j] = at[j] /\ bank' = bank
      BY <1>0, <1>4, <3>1 DEF Called, TriesTypes, TriesInOrder
    <3>. QED
      BY <1>0, <3>1, <3>2, <3>3, KeyStays DEF MoneyApproved
  <2>2. bank' = bank
    BY <1>4 DEF Called
  <2>. QED
    BY <1>1, <1>2, <2>1, <2>2 DEF MoneyApproved
<1>5. ASSUME NEW i \in Tries, NEW s, NEW r, Moved(i, s, r) PROVE MoneyApproved'
  <2>0. i[1] \in sent /\ bank \subseteq bank' /\ at' = at
    BY <1>0, <1>5, InvokedIsSent DEF Moved, TriesInOrder
  <2>1. ASSUME NEW j \in Tries, stage'[j] = "accepted" \/ result'[j] = "paid"
        PROVE  Contract!Key(j)' \in bank'
    <3>1. CASE j = i
      <4>1. Contract!Key(i) \in bank'
        BY <1>0, <1>5, <2>1, <3>1 DEF Moved, TriesTypes, MoneyApproved
      <4>. QED
        BY <2>0, <3>1, <4>1, KeyStays
    <3>2. CASE j # i
      <4>1. stage[j] = "accepted" \/ result[j] = "paid"
        BY <1>0, <1>5, <2>1, <3>2 DEF Moved, TriesTypes
      <4>2. j[1] \in sent
        BY <1>0, <4>1, InvokedIsSent DEF TriesInOrder
      <4>. QED
        BY <1>0, <2>0, <4>1, <4>2, KeyStays DEF MoneyApproved
    <3>. QED
      BY <3>1, <3>2
  <2>2. ASSUME NEW k \in bank', k \notin bank PROVE Approved(k)'
    <3>1. k = Contract!Key(i) /\ UNCHANGED minted /\ at[i] \in 0 .. LastDay
      BY <1>0, <1>5, <2>2 DEF Moved, gateVars, TriesTypes
    <3>2. Approved(k)
      BY <1>0, <2>0, <3>1, KeyOfSent DEF Approved
    <3>. QED
      BY <3>1, <3>2 DEF Approved
  <2>. QED
    BY <1>1, <1>2, <2>1, <2>2 DEF MoneyApproved
<1>. QED
  BY <1>0, <1>3, <1>4, <1>5, InvocationSteps DEF Retry, enclaveVars

\* A payout is answered to the gate with the result of the invocation its
\* caller waits for, and with nothing else.
LEMMA EntryIsAnswer ==
  ASSUME GP!IInv, [Next]_vars, NEW a \in sent', phase'[a] = "logging", event'[a] \in Final
  PROVE  \/ a \in sent /\ phase[a] = "logging" /\ event[a] = event'[a]
         \/ event'[a] = result[Current(a)]
<1>. USE DEF Final, Gate!callVars, Gate!ToLog
<1>0. /\ phase \in [Attempts -> GP!Phases] /\ event \in [Attempts -> GP!FinalEvents \cup {"none"}]
      /\ sent \subseteq Attempts
      /\ \A b \in Attempts : phase[b] \in {"checking", "log_check", "verifying"} => b \notin sent
  BY DEF GP!IInv, GP!TypeOK, GP!Standing, GP!Stands
<1>1. ASSUME NEW n, NEW i, NEW ttl, NEW ahead, Gate!Mint(n, i, ttl, ahead)
      PROVE  a \in sent /\ phase[a] = "logging" /\ event[a] = event'[a]
  BY <1>1 DEF Gate!Mint
<1>2. ASSUME NEW p, NEW b \in Attempts, NEW t, Gate!Start(p, b, t)
      PROVE  a \in sent /\ phase[a] = "logging" /\ event[a] = event'[a]
  BY <1>0, <1>2 DEF Gate!Start
<1>3. ASSUME NEW b \in Attempts, Gate!Local(b)
      PROVE  a \in sent /\ phase[a] = "logging" /\ event[a] = event'[a]
  BY <1>0, <1>3 DEF Gate!Local, Gate!LogCheck, Gate!Approve, Gate!RejectApproval, Gate!Finish,
                    Gate!AppendFails
<1>4. ASSUME NEW p, Gate!Crash(p)
      PROVE  a \in sent /\ phase[a] = "logging" /\ event[a] = event'[a]
  BY <1>0, <1>4 DEF Gate!Crash
<1>5. CASE GateAlone
  BY <1>1, <1>2, <1>3, <1>4, <1>5 DEF GateAlone
<1>6. ASSUME UNCHANGED gateVars
      PROVE  a \in sent /\ phase[a] = "logging" /\ event[a] = event'[a]
  BY <1>6 DEF gateVars
<1>7. ASSUME NEW b \in Attempts, Check(b) \/ NoAnswer(b)
      PROVE  a \in sent /\ phase[a] = "logging" /\ event[a] = event'[a]
  BY <1>0, <1>7 DEF Check, NoAnswer, Gate!CheckAnswered, Gate!CheckFailed, Gate!PayoutFailed
<1>8. ASSUME NEW b \in Attempts, Answer(b)
      PROVE  \/ a \in sent /\ phase[a] = "logging" /\ event[a] = event'[a]
             \/ event'[a] = result[Current(a)]
  BY <1>0, <1>8 DEF Answer, Gate!PayoutAnswered
<1>. QED
  BY <1>5, <1>6, <1>7, <1>8 DEF Next, ContractAlone, Deliver, Retry, vars

\* A call with a final entry, or a final answer, is done; one that is done and
\* sent was sent before this step.
LEMMA FinalIsDone ==
  ASSUME GP!IInv, [Next]_vars
  PROVE  /\ \A e \in log : e.event \in Final => phase[e.attempt] = "done" /\ e.attempt \in Attempts
         /\ \A a \in Attempts : outcome[a] \in Final => phase[a] = "done"
         /\ \A a \in sent' : phase[a] = "done" => a \in sent
<1>1. \A e \in log : e.event \in Final => phase[e.attempt] = "done" /\ e.attempt \in Attempts
  BY DEF GP!IInv, GP!LoggedIsDone, GP!TypeOK, Final
<1>2. ASSUME NEW a \in Attempts, outcome[a] \in Final PROVE phase[a] = "done"
  <2>1. PICK e \in log : e.attempt = a /\ e.event # "check"
    BY <1>2 DEF GP!IInv, GP!LogMatchesOutcomes, Final
  <2>. QED
    BY <2>1 DEF GP!IInv, GP!LoggedIsDone
<1>3. \A a \in sent' : phase[a] = "done" => a \in sent
  BY GateSteps, GP!SentByApprove, Assumed DEF GP!Approve
<1>. QED
  BY <1>1, <1>2, <1>3

LEMMA ToldStep == GP!IInv /\ SysInv /\ [Next]_vars => ToldWhatHappened'
<1>. SUFFICES ASSUME GP!IInv, SysInv, [Next]_vars PROVE ToldWhatHappened'
  OBVIOUS
<1>0. TriesTypes /\ TriesInOrder /\ ToldWhatHappened /\ [GP!Next]_GP!vars
  BY GateSteps DEF SysInv
<1>1. CASE UNCHANGED <<retried, result>>
  <2>0. \A a : Current(a)' = Current(a)
    BY <1>1 DEF Current
  <2>1. ASSUME NEW a \in sent', phase'[a] = "logging", event'[a] \in Final
        PROVE  result[Current(a)] = event'[a]
    BY <1>0, <2>1, EntryIsAnswer DEF ToldWhatHappened
  <2>2. ASSUME NEW e \in log', e.attempt \in sent', e.event \in Final
        PROVE  result[Current(e.attempt)] = e.event
    <3>1. CASE e \in log
      BY <1>0, <2>2, <3>1, FinalIsDone DEF ToldWhatHappened
    <3>2. CASE e \notin log
      <4>1. PICK a \in Attempts : GP!Finish(a) /\ e = [attempt |-> a, event |-> event[a]]
        BY <1>0, <2>2, <3>2, GP!LogGrowth, Assumed DEF Final
      <4>2. a \in sent /\ phase[a] = "logging"
        BY <2>2, <4>1 DEF GP!Finish
      <4>. QED
        BY <1>0, <2>2, <4>1, <4>2 DEF ToldWhatHappened
    <3>. QED
      BY <3>1, <3>2
  <2>3. ASSUME NEW a \in sent', outcome'[a] \in Final
        PROVE  phase'[a] = "done" /\ result[Current(a)] = outcome'[a]
    <3>0. a \in Attempts
      BY <1>0, GP!SentByApprove, Assumed DEF GP!IInv, GP!TypeOK
    <3>1. CASE outcome'[a] = outcome[a]
      <4>1. phase[a] = "done" /\ a \in sent
        BY <2>3, <3>0, <3>1, FinalIsDone
      <4>. QED
        BY <1>0, <2>3, <3>0, <3>1, <4>1, GP!DoneIsDone, Assumed DEF ToldWhatHappened
    <3>2. CASE outcome'[a] # outcome[a]
      <4>1. GP!Finish(a)
        BY <1>0, <2>3, <3>0, <3>2, GP!Told, Assumed DEF Final
      <4>2. /\ phase[a] = "logging" /\ phase'[a] = "done" /\ a \in sent
            /\ outcome'[a] = GP!OutcomeOf(event[a])
            /\ event[a] \in GP!FinalEvents /\ event[a] # "approval_rejected"
        BY <3>0, <4>1 DEF GP!Finish, GP!IInv, GP!TypeOK, GP!Standing, GP!Stands
      <4>3. event[a] = outcome'[a]
        BY <2>3, <4>2 DEF GP!OutcomeOf, GP!FinalEvents, Final
      <4>. QED
        BY <1>0, <2>3, <4>2, <4>3 DEF ToldWhatHappened
    <3>. QED
      BY <3>1, <3>2
  <2>. QED
    BY <1>1, <2>0, <2>1, <2>2, <2>3 DEF ToldWhatHappened
\* An invocation moves on, or another is made: what was told is of one that ended
\* before.
<1>2. ASSUME UNCHANGED gateVars,
             \A a \in sent : result[Current(a)] \in Final /\ phase[a] # "paying" =>
               Current(a)' = Current(a) /\ result'[Current(a)] = result[Current(a)]
      PROVE  ToldWhatHappened'
  <2>1. \A a \in Attempts : phase[a] = "paying" => phase[a] # "done" /\ phase[a] # "logging"
    OBVIOUS
  <2>. QED
    BY <1>0, <1>2, FinalIsDone DEF ToldWhatHappened, gateVars
<1>3. ASSUME NEW a \in Attempts, Retry(a) PROVE ToldWhatHappened'
  <2>1. \A b \in sent : phase[b] # "paying" => Current(b)' = Current(b)
    BY <1>3 DEF Retry, Current
  <2>2. UNCHANGED gateVars /\ result' = result
    BY <1>3 DEF Retry, enclaveVars
  <2>. QED
    BY <1>2, <2>1, <2>2
<1>4. ASSUME NEW i \in Tries, NEW s, NEW r, Moved(i, s, r) PROVE ToldWhatHappened'
  <2>1. ASSUME NEW a \in sent, result[Current(a)] \in Final
        PROVE  Current(a)' = Current(a) /\ result'[Current(a)] = result[Current(a)]
    <3>1. Current(a)' = Current(a) /\ Current(a) \in Tries
      BY <1>4 DEF Moved, Current, Tries, GP!IInv, GP!TypeOK
    <3>2. result[i] = "none"
      BY <1>0, <1>4 DEF Moved, TriesInOrder
    <3>3. result'[Current(a)] = result[Current(a)]
      BY <1>0, <1>4, <2>1, <3>1, <3>2 DEF Moved, TriesTypes, Final
    <3>. QED
      BY <3>1, <3>3
  <2>2. UNCHANGED gateVars
    BY <1>4 DEF Moved
  <2>. QED
    BY <1>2, <2>1, <2>2
<1>. QED
  BY <1>0, <1>1, <1>3, <1>4, InvocationSteps DEF Called

-----------------------------------------------------------------------------
\* The invariant of the system, with that of its gate (gate.ts, api.rs).
THEOREM Invariance == Spec => [](GP!IInv /\ SysInv)
<1>1. Spec => []GP!IInv
  BY GateWithin, GP!Invariance, Assumed
<1>2. GP!IInv /\ SysInv /\ [Next]_vars => SysInv'
  BY TypesStep, OrderStep, MoneyStep, ToldStep DEF SysInv
<1>. QED
  BY <1>1, <1>2, InitSysInv, PTL DEF Spec

\* Who is told "refused" of a payout that was invoked once can rely on it: that
\* invocation ended in a refusal, or there is none and will be none
\* (gate.ts:208-225, invoker.ts:69-80).
THEOREM RefusedIsFinal == Spec => []RefusedOnceMovesNothing
<1>1. GP!IInv /\ SysInv => RefusedOnceMovesNothing
  <2>. SUFFICES ASSUME GP!IInv, SysInv, NEW a \in Attempts, outcome[a] = "refused", a \notin retried
                PROVE  \/ a \notin sent /\ stage[<<a, 1>>] = "idle"
                       \/ result[<<a, 1>>] = "refused"
    BY DEF RefusedOnceMovesNothing
  <2>1. CASE a \notin sent
    BY <2>1 DEF SysInv, TriesInOrder, Tries, Invoked
  <2>2. CASE a \in sent
    BY <2>2 DEF SysInv, ToldWhatHappened, Final, Current
  <2>. QED
    BY <2>1, <2>2
<1>. QED
  BY <1>1, Invariance, PTL

\* What the agent's log calls paid, the enclave counted and the vendor moved: it is
\* the invocation the gate waited for (gate.ts:189-199, api.rs:316-345).
THEOREM LedgersAgree == Spec => []LoggedPaymentsAreCounted
<1>1. GP!IInv /\ SysInv => LoggedPaymentsAreCounted
  <2>. SUFFICES ASSUME GP!IInv, SysInv, NEW e \in log, e.event = "paid"
                PROVE  /\ result[Current(e.attempt)] = "paid"
                       /\ Contract!Key(Current(e.attempt)) \in bank
    BY DEF LoggedPaymentsAreCounted
  <2>1. e.attempt \in sent /\ Current(e.attempt) \in Tries
    BY DEF GP!IInv, GP!LogMatchesOutcomes, GP!TypeOK, Tries, Current
  <2>2. result[Current(e.attempt)] = "paid"
    BY <2>1 DEF SysInv, ToldWhatHappened, Final
  <2>. QED
    BY <2>1, <2>2 DEF SysInv, MoneyApproved
<1>. QED
  BY <1>1, Invariance, PTL

-----------------------------------------------------------------------------
(* The promise to the approver.  Its state, as VendorGuard maps it.          *)

Payment(i) == [vendor |-> i.vendor, amount |-> i.amount, currency |-> i.currency]
ApprovalOf(n) == IF minted[n] = NoToken THEN NoToken ELSE Payment(minted[n].intent)
TransferOf(k) ==
  [approval |-> k.ref, day |-> k.day,
   payment |-> [vendor |-> k.vendor, amount |-> k.amount, currency |-> k.currency]]
Paid == {a \in Attempts : outcome[a] = "paid"}

approvals == [n \in Nonces |-> ApprovalOf(n)]
moved == {TransferOf(k) : k \in bank}
told == {token[a].nonce : a \in Paid}

LEMMA MappedInit ==
  Promise!Init <=> (approvals = [n \in Nonces |-> NoToken] /\ moved = {} /\ told = {})
BY DEF Promise!Init, approvals, moved, told, ApprovalOf, TransferOf, Paid, Payment

LEMMA MappedApprove ==
  ASSUME NEW n, NEW p
  PROVE  Promise!Approve(n, p) <=>
           /\ approvals[n] = NoToken
           /\ approvals' = [approvals EXCEPT ![n] = p] /\ UNCHANGED <<moved, told>>
BY DEF Promise!Approve, approvals, moved, told, ApprovalOf, TransferOf, Paid, Payment

LEMMA MappedTransfer ==
  ASSUME NEW n, NEW d
  PROVE  Promise!Transfer(n, d) <=>
           /\ approvals[n] # NoToken
           /\ \A t \in moved : t.approval = n => t.day # d
           /\ moved' = moved \cup {[approval |-> n, payment |-> approvals[n], day |-> d]}
           /\ UNCHANGED <<approvals, told>>
BY DEF Promise!Transfer, approvals, moved, told, ApprovalOf, TransferOf, Paid, Payment

LEMMA MappedReceipt ==
  ASSUME NEW n
  PROVE  Promise!Receipt(n) <=>
           /\ \E t \in moved : t.approval = n
           /\ told' = told \cup {n}
           /\ UNCHANGED <<approvals, moved>>
BY DEF Promise!Receipt, approvals, moved, told, ApprovalOf, TransferOf, Paid, Payment

LEMMA MappedStutter ==
  UNCHANGED <<approvals, moved, told>> => UNCHANGED Promise!vars
BY DEF Promise!vars, approvals, moved, told, ApprovalOf, TransferOf, Paid, Payment

\* The approver's step: a token is minted.
LEMMA MintApproves ==
  ASSUME GP!IInv, NEW n \in Nonces, NEW i \in Intents, NEW ttl \in TtlChoices,
         NEW ahead \in AheadChoices, GP!Mint(n, i, ttl, ahead), UNCHANGED bank
  PROVE  Promise!Approve(n, Payment(i)) /\ Payment(i) \in {Payment(j) : j \in Intents}
<1>1. minted \in [Nonces -> GP!Tokens \cup {NoToken}]
  BY DEF GP!IInv, GP!TypeOK
<1>2. /\ minted[n] = NoToken /\ minted'[n] # NoToken /\ minted'[n].intent = i
      /\ \A m \in Nonces \ {n} : minted'[m] = minted[m]
  <2>1. [nonce |-> n, intent |-> i, issuedAt |-> clock + ahead, expiresAt |-> clock + ahead + ttl] # NoToken
    <3>1. [nonce |-> n, intent |-> i, issuedAt |-> clock + ahead, expiresAt |-> clock + ahead + ttl] \in Gate!Tokens
      BY Assumed DEF GP!IInv, GP!TypeOK, GP!GateAssumption, Gate!Tokens
    <3>. QED
      BY <3>1, SystemAssumption
  <2>. QED
    BY <1>1, <2>1 DEF GP!Mint
<1>3. /\ approvals[n] = NoToken
      /\ approvals' = [approvals EXCEPT ![n] = Payment(i)]
  <2>1. ApprovalOf(n) = NoToken /\ ApprovalOf(n)' = Payment(i)
    BY <1>2 DEF ApprovalOf, Payment
  <2>2. \A m \in Nonces \ {n} : ApprovalOf(m)' = ApprovalOf(m)
    BY <1>2 DEF ApprovalOf, Payment
  <2>. QED
    BY <2>1, <2>2 DEF approvals
<1>4. UNCHANGED <<moved, told>>
  BY DEF GP!Mint, GP!callVars, moved, told, Paid
<1>. QED
  BY <1>3, <1>4, MappedApprove

\* Other steps leave the approvals alone.
LEMMA ApprovalsStay ==
  ASSUME [Next]_vars
  PROVE  \/ minted' = minted
         \/ \E n \in Nonces, i \in Intents, ttl \in TtlChoices, ahead \in AheadChoices :
              GP!Mint(n, i, ttl, ahead)
BY GateSteps, GP!Actions, Assumed
   DEF GP!callVars, GP!vars, GP!Start, GP!CheckAnswered, GP!CheckFailed,
       GP!PayoutAnswered, GP!PayoutFailed, GP!LogCheck, GP!Approve, GP!RejectApproval,
       GP!Finish, GP!AppendFails, GP!Crash, GP!Tick

\* A caller is told "paid" at the end of its call only, and then its payment was
\* made.
LEMMA ToldAtEnd ==
  ASSUME GP!IInv, SysInv, [Next]_vars
  PROVE  \/ told' = told
         \/ \E a \in sent : /\ minted' = minted
                            /\ told' = told \cup {token[a].nonce}
                            /\ Current(a) \in Tries /\ Contract!Key(Current(a)) \in bank
<1>1. /\ [GP!Next]_GP!vars
      /\ outcome \in [Attempts -> GP!Outcomes]
  BY GateSteps DEF GP!IInv, GP!TypeOK
<1>2. \A b \in Paid : b \in Paid' /\ token'[b] = token[b]
  BY <1>1, FinalIsDone, GP!DoneIsDone, Assumed DEF Paid, Final
<1>3. CASE \E a \in Paid' : a \notin Paid
  <2>1. PICK a \in Attempts : outcome'[a] = "paid" /\ outcome[a] # "paid"
    BY <1>3 DEF Paid
  <2>2. GP!Finish(a)
    BY <1>1, <2>1, GP!Told, Assumed
  <2>3. UNCHANGED <<token, minted>> /\ Paid' = Paid \cup {a}
    BY <1>1, <1>2, <2>1, <2>2 DEF GP!Finish, GP!callVars, Paid
  <2>4. event[a] = "paid" /\ a \in sent
    BY <1>1, <2>1, <2>2 DEF GP!Finish, GP!OutcomeOf, GP!FinalEvents, GP!IInv, GP!Standing, GP!Stands
  <2>5. result[Current(a)] = "paid" /\ Current(a) \in Tries
    BY <2>2, <2>4 DEF SysInv, ToldWhatHappened, GP!Finish, Final, Current, Tries
  <2>6. Contract!Key(Current(a)) \in bank
    BY <2>5 DEF SysInv, MoneyApproved
  <2>7. told' = told \cup {token[a].nonce}
    BY <2>3 DEF told
  <2>. QED
    BY <2>3, <2>4, <2>5, <2>6, <2>7
<1>4. CASE Paid' \subseteq Paid
  BY <1>2, <1>4 DEF told
<1>. QED
  BY <1>3, <1>4

\* The vendor's step: money moves under a key it has not seen.
LEMMA MoneyMoves ==
  ASSUME GP!IInv, SysInv, UNCHANGED gateVars, NEW i \in Tries, stage[i] # "idle",
         Contract!Key(i) \notin bank, bank' = bank \cup {Contract!Key(i)}
  PROVE  \E n \in Nonces, d \in 0 .. LastDay : Promise!Transfer(n, d)
<1>0. token[i[1]].nonce \in Nonces /\ at[i] \in 0 .. LastDay
  BY KeyOfSent, InvokedIsSent DEF SysInv, TriesInOrder, TriesTypes
<1>. PICK n \in Nonces : n = token[i[1]].nonce
  BY <1>0
<1>. PICK d \in 0 .. LastDay : d = at[i]
  BY <1>0
<1>. DEFINE p == minted[n].intent
            key == [vendor |-> p.vendor, amount |-> p.amount, currency |-> p.currency,
                    ref |-> n, day |-> d]
<1>1. minted[n] # NoToken /\ Contract!Key(i) = key
  BY KeyOfSent, InvokedIsSent DEF SysInv, TriesInOrder
<1>2. approvals[n] = Payment(p) /\ Payment(p) # NoToken
  <2>1. p \in Intents
    BY <1>1, SystemAssumption DEF GP!IInv, GP!TypeOK, GP!Tokens
  <2>. QED
    BY <1>1, <2>1, SystemAssumption DEF approvals, ApprovalOf, Payment
<1>3. ASSUME NEW k \in bank, k.ref = n, k.day = d PROVE FALSE
  <2>1. k = key
    BY <1>3 DEF SysInv, MoneyApproved, Approved
  <2>. QED
    BY <1>1, <2>1
<1>4. \A t \in moved : t.approval = n => t.day # d
  BY <1>3 DEF moved, TransferOf
<1>5. moved' = moved \cup {[approval |-> n, payment |-> approvals[n], day |-> d]}
  <2>1. TransferOf(key) = [approval |-> n, payment |-> approvals[n], day |-> d]
    BY <1>2 DEF TransferOf, Payment
  <2>2. moved' = moved \cup {TransferOf(key)}
    BY <1>1 DEF moved
  <2>. QED
    BY <2>1, <2>2
<1>6. UNCHANGED <<approvals, told>>
  BY DEF gateVars, approvals, ApprovalOf, told, Paid
<1>7. Promise!Transfer(n, d)
  <2>1. approvals[n] # NoToken
    BY <1>2
  <2>. QED
    BY <1>4, <1>5, <1>6, <2>1, MappedTransfer, SMT
<1>. QED
  BY <1>1, <1>7

\* The whole system implements the promise to the approver: money moves on an
\* approval, for exactly what it says, at most once a day, and before anyone is
\* told of it (README.md:82-86).
THEOREM Refinement == Spec => ImplementsApprovedPayments
<1>1. Init => Promise!Init
  <2>. SUFFICES ASSUME Init PROVE Promise!Init
    OBVIOUS
  <2>1. approvals = [n \in Nonces |-> NoToken] /\ moved = {} /\ told = {}
    BY DEF Init, Gate!Init, Contract!Init, approvals, ApprovalOf, moved, told, Paid
  <2>. QED
    BY <2>1, MappedInit
<1>2. GP!IInv /\ SysInv /\ [Next]_vars => [Promise!Next]_Promise!vars
  <2>. SUFFICES ASSUME GP!IInv, SysInv, [Next]_vars
                PROVE  Promise!Next \/ UNCHANGED Promise!vars
    OBVIOUS
  <2>1. CASE UNCHANGED bank
    <3>1. ASSUME NEW n \in Nonces, NEW i \in Intents, NEW ttl \in TtlChoices,
                 NEW ahead \in AheadChoices, GP!Mint(n, i, ttl, ahead)
          PROVE  Promise!Next
      BY <2>1, <3>1, MintApproves DEF Promise!Next, Payment
    <3>2. ASSUME minted' = minted, told' = told PROVE UNCHANGED Promise!vars
      <4>1. UNCHANGED <<approvals, moved, told>>
        BY <2>1, <3>2 DEF approvals, ApprovalOf, moved
      <4>. QED
        BY <4>1, MappedStutter
    <3>3. ASSUME NEW a \in sent, minted' = minted, told' = told \cup {token[a].nonce},
                 Current(a) \in Tries, Contract!Key(Current(a)) \in bank
          PROVE  Promise!Next
      <4>1. UNCHANGED <<approvals, moved>>
        BY <2>1, <3>3 DEF approvals, ApprovalOf, moved
      <4>2. Current(a)[1] = a
        BY DEF Current
      <4>3. token[a].nonce \in Nonces /\ Contract!Key(Current(a)).ref = token[a].nonce
        BY <3>3, <4>2, KeyOfSent DEF SysInv
      <4>4. PICK n \in Nonces : n = token[a].nonce
        BY <4>3
      <4>5. PICK k \in bank : k.ref = n
        BY <3>3, <4>3, <4>4
      <4>6. TransferOf(k) \in moved /\ TransferOf(k).approval = n
        BY <4>5 DEF moved, TransferOf
      <4>7. Promise!Receipt(n)
        BY <3>3, <4>1, <4>4, <4>6, MappedReceipt
      <4>. QED
        BY <4>7 DEF Promise!Next
    <3>4. told' = told \/ minted' = minted
      BY ToldAtEnd
    <3>. QED
      BY <3>1, <3>2, <3>3, ApprovalsStay, ToldAtEnd
  <2>2. ASSUME NEW i \in Tries, NEW s, NEW r, Moved(i, s, r), bank' # bank
        PROVE  Promise!Next
    <3>1. /\ UNCHANGED gateVars /\ stage[i] # "idle"
          /\ Contract!Key(i) \notin bank /\ bank' = bank \cup {Contract!Key(i)}
      BY <2>2 DEF Moved
    <3>. QED
      BY <3>1, MoneyMoves DEF Promise!Next
  <2>. QED
    BY <2>1, <2>2, InvocationSteps DEF SysInv, Called, Retry, enclaveVars
<1>. QED
  BY <1>1, <1>2, Invariance, PTL DEF Spec, ImplementsApprovedPayments, Promise!Spec
=============================================================================

-------------------------- MODULE PaymentGate_proofs --------------------------
(***************************************************************************)
(* Proofs about the payment gate, for any number of processes, calls,       *)
(* intents and tokens, any settings and any clock.                          *)
(***************************************************************************)
EXTENDS PaymentGate, TLAPS

\* What is known of a call from where it stands.
Stands(a) ==
  /\ phase[a] # "idle" => owner[a] \in Procs
  /\ phase[a] = "log_check" => decision[a] # "none"
  /\ phase[a] = "verifying" => decision[a] # "none" /\ ~Blocked(a)
  /\ phase[a] = "logging" => event[a] \in FinalEvents
  /\ phase[a] \in {"idle", "checking", "log_check", "verifying"} => a \notin sent
  /\ phase[a] = "paying" => a \in sent
  /\ phase[a] = "logging" /\ event[a] \in {"paid", "upstream_error"} => a \in sent
  /\ phase[a] = "logging" /\ event[a] = "approval_rejected" => a \notin sent

Standing == \A a \in Attempts : Stands(a)

\* A call gets to the approval by way of its check entry.
CheckedFirst ==
  \A a \in Attempts : phase[a] = "verifying" => \E e \in log : e.attempt = a

\* Only the last entry of a call is anything but a check.
LoggedIsDone ==
  \A e \in log : e.event # "check" => phase[e.attempt] = "done"

\* A process that has seen a payment succeed knows its nonce, unless it died
\* since and has not read the log yet.
Remembered ==
  \A b \in Attempts :
    LET c == cache[owner[b]] IN
    /\ phase[b] = "logging" /\ event[b] = "paid" => c # Unread /\ token[b].nonce \in c
    /\ outcome[b] = "paid" => (phase[b] = "done" /\ (c # Unread => token[b].nonce \in c))

IInv ==
  /\ TypeOK /\ Standing /\ CheckedFirst /\ LoggedIsDone
  /\ OnlyApprovedIsSent /\ LogMatchesOutcomes /\ Remembered

\* A step of the gate is one of its actions.
LEMMA Actions ==
  ASSUME Next
  PROVE  \/ \E n \in Nonces, i \in Intents, ttl \in TtlChoices, ahead \in AheadChoices :
              Mint(n, i, ttl, ahead)
         \/ \E p \in Procs, a \in Attempts, t \in MintedTokens \cup {NoToken, BadToken} : Start(p, a, t)
         \/ \E a \in Attempts, d \in Decisions \ {"none"} : CheckAnswered(a, d)
         \/ \E a \in Attempts : CheckFailed(a) \/ PayoutFailed(a)
         \/ \E a \in Attempts, s \in {"paid", "upstream_error", "refused"} : PayoutAnswered(a, s)
         \/ \E a \in Attempts : LogCheck(a)
         \/ \E a \in Attempts : Approve(a)
         \/ \E a \in Attempts : RejectApproval(a)
         \/ \E a \in Attempts : Finish(a)
         \/ \E a \in Attempts : AppendFails(a)
         \/ \E p \in Procs : Crash(p)
         \/ Tick
BY DEF Next, Answered, Local

\* Minted tokens are tokens.
LEMMA MintedTypes ==
  ASSUME TypeOK
  PROVE  MintedTokens \subseteq Tokens
BY DEF TypeOK, MintedTokens

LEMMA SpentTypes ==
  ASSUME IInv
  PROVE  LoggedPaid \subseteq Nonces
<1>. SUFFICES ASSUME NEW e \in log, e.event = "paid"
              PROVE  token[e.attempt].nonce \in Nonces
  BY DEF LoggedPaid
<1>1. e.attempt \in sent
  BY DEF IInv, LogMatchesOutcomes
<1>2. token[e.attempt] \in Tokens
  BY <1>1, MintedTypes DEF IInv, OnlyApprovedIsSent
<1>. QED
  BY <1>2 DEF Tokens

LEMMA KnownTypes ==
  ASSUME IInv, NEW p \in Procs
  PROVE  KnownSpent(p) \subseteq Nonces
BY SpentTypes DEF KnownSpent, IInv, TypeOK

LEMMA InitIInv == Init => IInv
<1>. SUFFICES ASSUME Init PROVE IInv
  OBVIOUS
<1>1. TypeOK
  <2>1. clock \in 0 .. MaxTime
    BY GateAssumption DEF Init
  <2>2. cache \in [Procs -> {Unread} \cup SUBSET Nonces]
    BY DEF Init
  <2>. QED
    BY <2>1, <2>2 DEF Init, TypeOK, Phases, Decisions, Outcomes
<1>2. Standing /\ CheckedFirst /\ LoggedIsDone /\ OnlyApprovedIsSent
  BY DEF Init, Standing, Stands, CheckedFirst, LoggedIsDone, OnlyApprovedIsSent
<1>3. LogMatchesOutcomes /\ Remembered
  BY DEF Init, LogMatchesOutcomes, Remembered
<1>. QED
  BY <1>1, <1>2, <1>3 DEF IInv

LEMMA TypeStep == IInv /\ [Next]_vars => TypeOK'
<1>. SUFFICES ASSUME IInv, [Next]_vars PROVE TypeOK'
  OBVIOUS
<1>. USE DEF TypeOK, callVars
<1>0. TypeOK /\ Standing
  BY DEF IInv
<1>1. ASSUME NEW n \in Nonces, NEW i \in Intents, NEW ttl \in TtlChoices, NEW ahead \in AheadChoices,
             Mint(n, i, ttl, ahead)
      PROVE  TypeOK'
  <2>1. [nonce |-> n, intent |-> i, issuedAt |-> clock + ahead, expiresAt |-> clock + ahead + ttl] \in Tokens
    BY <1>0, GateAssumption DEF Tokens
  <2>. QED
    BY <1>0, <1>1, <2>1 DEF Mint
<1>2. ASSUME NEW p \in Procs, NEW a \in Attempts, NEW t \in MintedTokens \cup {NoToken, BadToken},
             Start(p, a, t)
      PROVE  TypeOK'
  BY <1>0, <1>2, MintedTypes DEF Start, Phases
<1>3. ASSUME NEW a \in Attempts, NEW d \in Decisions \ {"none"}, CheckAnswered(a, d) PROVE TypeOK'
  BY <1>0, <1>3 DEF CheckAnswered, Phases
<1>4. ASSUME NEW a \in Attempts, CheckFailed(a) \/ PayoutFailed(a) PROVE TypeOK'
  BY <1>0, <1>4 DEF CheckFailed, PayoutFailed, ToLog, Phases, FinalEvents
<1>5. ASSUME NEW a \in Attempts, NEW s \in {"paid", "upstream_error", "refused"}, PayoutAnswered(a, s)
      PROVE  TypeOK'
  <2>1. a \in sent /\ owner[a] \in Procs
    BY <1>0, <1>5 DEF PayoutAnswered, Standing, Stands
  <2>2. token[a].nonce \in Nonces
    BY <2>1, MintedTypes DEF IInv, OnlyApprovedIsSent, Tokens
  <2>3. KnownSpent(owner[a]) \cup {token[a].nonce} \in SUBSET Nonces
    BY <2>1, <2>2, KnownTypes
  <2>4. cache' \in [Procs -> {Unread} \cup SUBSET Nonces]
    BY <1>0, <1>5, <2>3 DEF PayoutAnswered
  <2>. QED
    BY <1>0, <1>5, <2>4 DEF PayoutAnswered, ToLog, Phases, FinalEvents
<1>6. ASSUME NEW a \in Attempts, LogCheck(a) PROVE TypeOK'
  BY <1>0, <1>6 DEF LogCheck, ToLog, Phases, FinalEvents, Outcomes, Events
<1>7. ASSUME NEW a \in Attempts, Approve(a) PROVE TypeOK'
  <2>1. KnownSpent(owner[a]) \in SUBSET Nonces
    BY <1>0, <1>7, KnownTypes DEF Approve, Standing, Stands
  <2>. QED
    BY <1>0, <1>7, <2>1 DEF Approve, Phases
<1>8. ASSUME NEW a \in Attempts, RejectApproval(a) PROVE TypeOK'
  <2>1. KnownSpent(owner[a]) \in SUBSET Nonces
    BY <1>0, <1>8, KnownTypes DEF RejectApproval, Standing, Stands
  <2>2. cache' \in [Procs -> {Unread} \cup SUBSET Nonces]
    BY <1>0, <1>8, <2>1 DEF RejectApproval
  <2>. QED
    BY <1>0, <1>8, <2>2 DEF RejectApproval, ToLog, Phases, FinalEvents
<1>9. ASSUME NEW a \in Attempts, Finish(a) PROVE TypeOK'
  <2>1. event[a] \in FinalEvents
    BY <1>0, <1>9 DEF Finish, Standing, Stands
  <2>2. OutcomeOf(event[a]) \in Outcomes
    BY <2>1 DEF OutcomeOf, FinalEvents, Outcomes
  <2>. QED
    BY <1>0, <1>9, <2>1, <2>2 DEF Finish, Phases, Events
<1>10. ASSUME NEW a \in Attempts, AppendFails(a) PROVE TypeOK'
  BY <1>0, <1>10 DEF AppendFails, Phases, Outcomes
<1>11. ASSUME NEW p \in Procs, Crash(p) PROVE TypeOK'
  BY <1>0, <1>11 DEF Crash, Phases
<1>12. CASE Tick
  BY <1>0, <1>12, GateAssumption DEF Tick
<1>13. CASE UNCHANGED vars
  BY <1>0, <1>13 DEF vars
<1>. QED
  BY Actions, <1>1, <1>2, <1>3, <1>4, <1>5, <1>6, <1>7, <1>8, <1>9, <1>10, <1>11, <1>12, <1>13

LEMMA StandingStep == IInv /\ [Next]_vars => Standing'
<1>. SUFFICES ASSUME IInv, [Next]_vars, NEW b \in Attempts
              PROVE  Stands(b)'
  BY DEF Standing
<1>. USE DEF callVars, Stands
<1>0. TypeOK /\ Stands(b)
  BY DEF IInv, Standing
<1>1. ASSUME NEW n \in Nonces, NEW i \in Intents, NEW ttl \in TtlChoices, NEW ahead \in AheadChoices,
             Mint(n, i, ttl, ahead)
      PROVE  Stands(b)'
  BY <1>0, <1>1 DEF Mint, Blocked
<1>2. ASSUME NEW p \in Procs, NEW a \in Attempts, NEW t \in MintedTokens \cup {NoToken, BadToken},
             Start(p, a, t)
      PROVE  Stands(b)'
  BY <1>0, <1>2 DEF Start, Blocked, TypeOK
<1>3. ASSUME NEW a \in Attempts, NEW d \in Decisions \ {"none"}, CheckAnswered(a, d)
      PROVE  Stands(b)'
  BY <1>0, <1>3 DEF CheckAnswered, Blocked, TypeOK
<1>4. ASSUME NEW a \in Attempts, CheckFailed(a) \/ PayoutFailed(a) PROVE Stands(b)'
  BY <1>0, <1>4 DEF CheckFailed, PayoutFailed, ToLog, Blocked, FinalEvents, TypeOK
<1>5. ASSUME NEW a \in Attempts, NEW s \in {"paid", "upstream_error", "refused"}, PayoutAnswered(a, s)
      PROVE  Stands(b)'
  BY <1>0, <1>5 DEF PayoutAnswered, ToLog, Blocked, FinalEvents, TypeOK
<1>6. ASSUME NEW a \in Attempts, LogCheck(a) PROVE Stands(b)'
  BY <1>0, <1>6 DEF LogCheck, ToLog, Blocked, FinalEvents, TypeOK
<1>7. ASSUME NEW a \in Attempts, Approve(a) PROVE Stands(b)'
  BY <1>0, <1>7 DEF Approve, Blocked, TypeOK
<1>8. ASSUME NEW a \in Attempts, RejectApproval(a) PROVE Stands(b)'
  BY <1>0, <1>8 DEF RejectApproval, ToLog, Blocked, FinalEvents, TypeOK
<1>9. ASSUME NEW a \in Attempts, Finish(a) \/ AppendFails(a) PROVE Stands(b)'
  BY <1>0, <1>9 DEF Finish, AppendFails, Blocked, TypeOK
<1>10. ASSUME NEW p \in Procs, Crash(p) PROVE Stands(b)'
  BY <1>0, <1>10 DEF Crash, Blocked, Active, TypeOK
<1>11. CASE Tick \/ UNCHANGED vars
  BY <1>0, <1>11 DEF Tick, vars, Blocked
<1>. QED
  BY Actions, <1>1, <1>2, <1>3, <1>4, <1>5, <1>6, <1>7, <1>8, <1>9, <1>10, <1>11

\* Entries stay in the log, minted tokens stay minted, payouts stay sent.
LEMMA NothingTakenBack ==
  ASSUME IInv, [Next]_vars
  PROVE  log \subseteq log' /\ MintedTokens \subseteq MintedTokens' /\ sent \subseteq sent'
<1>. USE DEF callVars
<1>1. ASSUME NEW n \in Nonces, NEW i \in Intents, NEW ttl \in TtlChoices, NEW ahead \in AheadChoices,
             Mint(n, i, ttl, ahead)
      PROVE  MintedTokens \subseteq MintedTokens'
  BY <1>1 DEF Mint, MintedTokens, IInv, TypeOK
<1>2. ASSUME UNCHANGED minted PROVE MintedTokens \subseteq MintedTokens'
  BY <1>2 DEF MintedTokens
<1>. QED
  BY Actions, <1>1, <1>2
     DEF vars, Mint, Start, CheckAnswered, CheckFailed, PayoutAnswered, PayoutFailed, LogCheck,
         Approve, RejectApproval, Finish, AppendFails, Crash, Tick, ToLog

LEMMA CheckedStep == IInv /\ [Next]_vars => CheckedFirst'
<1>. SUFFICES ASSUME IInv, [Next]_vars, NEW b \in Attempts, phase'[b] = "verifying"
              PROVE  \E e \in log' : e.attempt = b
  BY DEF CheckedFirst
<1>1. CASE phase[b] = "verifying"
  BY <1>1, NothingTakenBack DEF IInv, CheckedFirst
<1>2. CASE phase[b] # "verifying"
  <2>1. LogCheck(b)
    BY <1>2, Actions
       DEF vars, Mint, Start, CheckAnswered, CheckFailed, PayoutAnswered, PayoutFailed,
           LogCheck, Approve, RejectApproval, Finish, AppendFails, Crash, Tick, ToLog, IInv, TypeOK
  <2>2. [attempt |-> b, event |-> "check"] \in log'
    BY <2>1 DEF LogCheck
  <2>. QED
    BY <2>2
<1>. QED
  BY <1>1, <1>2

\* An entry other than a check is appended by Finish only.
LEMMA LogGrowth ==
  ASSUME IInv, [Next]_vars, NEW e \in log', e \notin log
  PROVE  \/ e.event = "check"
         \/ \E a \in Attempts : Finish(a) /\ e = [attempt |-> a, event |-> event[a]]
<1>1. ASSUME NEW a \in Attempts, LogCheck(a) PROVE e.event = "check"
  BY <1>1 DEF LogCheck
<1>2. ASSUME NEW a \in Attempts, Finish(a) PROVE e = [attempt |-> a, event |-> event[a]]
  BY <1>2 DEF Finish
<1>3. ASSUME NEW a \in Attempts, AppendFails(a) PROVE UNCHANGED log
  BY <1>3 DEF AppendFails
<1>. QED
  BY Actions, <1>1, <1>2, <1>3
     DEF vars, Mint, Start, CheckAnswered, CheckFailed, PayoutAnswered, PayoutFailed,
         Approve, RejectApproval, Crash, Tick

\* A call that is done stays as it is, and a call that was sent, or is done,
\* keeps its process, its token and its decision.
LEMMA DoneIsDone ==
  ASSUME IInv, [Next]_vars, NEW b \in Attempts
  PROVE  /\ phase[b] = "done" => phase'[b] = "done"
         /\ phase[b] = "done" => outcome'[b] = outcome[b]
         /\ phase[b] = "done" \/ b \in sent =>
              owner'[b] = owner[b] /\ token'[b] = token[b] /\ decision'[b] = decision[b]
<1>1. phase[b] = "done" \/ b \in sent => phase[b] \notin {"idle", "checking"}
  BY DEF IInv, Standing, Stands
<1>. QED
  BY Actions, <1>1
     DEF callVars, vars, Mint, Start, CheckAnswered, CheckFailed, PayoutAnswered, PayoutFailed,
         LogCheck, Approve, RejectApproval, Finish, AppendFails, Crash, Tick, ToLog, Active,
         IInv, TypeOK

LEMMA LoggedStep == IInv /\ [Next]_vars => LoggedIsDone'
<1>. SUFFICES ASSUME IInv, [Next]_vars, NEW e \in log', e.event # "check"
              PROVE  phase'[e.attempt] = "done"
  BY DEF LoggedIsDone
<1>1. CASE e \in log
  BY <1>1, DoneIsDone DEF IInv, LoggedIsDone, TypeOK
<1>2. CASE e \notin log
  BY <1>2, LogGrowth DEF Finish, IInv, TypeOK
<1>. QED
  BY <1>1, <1>2

\* A payout is sent by Approve only.
LEMMA SentByApprove ==
  ASSUME [Next]_vars, NEW a \in sent' \ sent
  PROVE  a \in Attempts /\ Approve(a)
BY Actions
   DEF vars, Mint, Start, CheckAnswered, CheckFailed, PayoutAnswered, PayoutFailed,
       LogCheck, Approve, RejectApproval, Finish, AppendFails, Crash, Tick

LEMMA ApprovedStep == IInv /\ [Next]_vars => OnlyApprovedIsSent'
<1>. DEFINE Approved(a) ==
       /\ decision[a] = "allow" \/ (decision[a] = "review" /\ AllowReview)
       /\ token[a] \in MintedTokens
       /\ token[a].intent = intent[a]
       /\ token[a].expiresAt <= token[a].issuedAt + MaxTtl
<1>. SUFFICES ASSUME IInv, [Next]_vars, NEW b \in sent'
              PROVE  Approved(b)'
  BY DEF OnlyApprovedIsSent
<1>1. CASE b \in sent
  <2>1. Approved(b) /\ b \in Attempts
    BY <1>1 DEF IInv, OnlyApprovedIsSent, TypeOK
  <2>2. intent' = intent
    BY Actions
       DEF callVars, vars, Mint, Start, CheckAnswered, CheckFailed, PayoutAnswered, PayoutFailed,
           LogCheck, Approve, RejectApproval, Finish, AppendFails, Crash, Tick
  <2>. QED
    BY <1>1, <2>1, <2>2, DoneIsDone, NothingTakenBack
<1>2. CASE b \notin sent
  <2>1. b \in Attempts /\ Approve(b)
    BY <1>2, SentByApprove
  <2>2. decision[b] = "allow" \/ (decision[b] = "review" /\ AllowReview)
    BY <2>1 DEF Approve, IInv, Standing, Stands, Blocked, TypeOK, Decisions
  <2>3. token[b].expiresAt <= token[b].issuedAt + MaxTtl
    <3>1. token[b] \in Tokens /\ token[b].expiresAt - token[b].issuedAt <= MaxTtl
      BY <2>1, MintedTypes DEF Approve, Valid, IInv
    <3>2. token[b].expiresAt \in Nat /\ token[b].issuedAt \in Nat /\ MaxTtl \in Nat
      BY <3>1, GateAssumption DEF Tokens
    <3>. QED
      BY <3>1, <3>2
  <2>. QED
    BY <2>1, <2>2, <2>3 DEF Approve, Valid, callVars, MintedTokens
<1>. QED
  BY <1>1, <1>2

\* A call that is told something other than an error by this step is in the log.
LEMMA Told ==
  ASSUME IInv, [Next]_vars, NEW b \in Attempts,
         outcome'[b] \in {"paid", "upstream_error", "refused"}, outcome'[b] # outcome[b]
  PROVE  Finish(b)
BY Actions
   DEF callVars, vars, Mint, Start, CheckAnswered, CheckFailed, PayoutAnswered, PayoutFailed,
       LogCheck, Approve, RejectApproval, Finish, AppendFails, Crash, Tick, IInv, TypeOK

LEMMA LogStep == IInv /\ [Next]_vars => LogMatchesOutcomes'
<1>. SUFFICES ASSUME IInv, [Next]_vars PROVE LogMatchesOutcomes'
  OBVIOUS
<1>1. ASSUME NEW b \in Attempts, outcome'[b] \in {"paid", "upstream_error", "refused"}
      PROVE  \E e \in log' : e.attempt = b /\ e.event # "check" /\ OutcomeOf(e.event) = outcome'[b]
  <2>1. CASE outcome'[b] = outcome[b]
    BY <1>1, <2>1, NothingTakenBack DEF IInv, LogMatchesOutcomes
  <2>2. CASE outcome'[b] # outcome[b]
    <3>. DEFINE e == [attempt |-> b, event |-> event[b]]
    <3>1. Finish(b)
      BY <1>1, <2>2, Told
    <3>2. event[b] \in FinalEvents
      BY <3>1 DEF Finish, IInv, Standing, Stands
    <3>3. e \in log' /\ outcome'[b] = OutcomeOf(event[b])
      BY <3>1 DEF Finish, IInv, TypeOK
    <3>. QED
      BY <3>2, <3>3 DEF FinalEvents
  <2>. QED
    BY <2>1, <2>2
<1>2. ASSUME NEW e \in log'
      PROVE  /\ e.event \in {"paid", "upstream_error"} => e.attempt \in sent'
             /\ e.event = "approval_rejected" => e.attempt \notin sent'
  <2>1. CASE e \in log
    <3>1. e.event # "check" => e.attempt \in Attempts /\ phase[e.attempt] = "done"
      BY <2>1 DEF IInv, LoggedIsDone, TypeOK
    <3>2. \A a \in Attempts : phase[a] = "done" => (a \in sent' <=> a \in sent)
      BY Actions
         DEF callVars, vars, Mint, Start, CheckAnswered, CheckFailed, PayoutAnswered, PayoutFailed,
             LogCheck, Approve, RejectApproval, Finish, AppendFails, Crash, Tick
    <3>. QED
      BY <2>1, <3>1, <3>2 DEF IInv, LogMatchesOutcomes
  <2>2. CASE e \notin log
    <3>1. CASE e.event = "check"
      BY <3>1
    <3>2. ASSUME NEW a \in Attempts, Finish(a), e = [attempt |-> a, event |-> event[a]]
          PROVE  /\ e.event \in {"paid", "upstream_error"} => e.attempt \in sent'
                 /\ e.event = "approval_rejected" => e.attempt \notin sent'
      BY <3>2 DEF Finish, IInv, Standing, Stands
    <3>. QED
      BY <2>2, <3>1, <3>2, LogGrowth
  <2>. QED
    BY <2>1, <2>2
<1>3. ASSUME NEW b \in sent' PROVE \E e \in log' : e.attempt = b
  <2>1. CASE b \in sent
    BY <2>1, NothingTakenBack DEF IInv, LogMatchesOutcomes
  <2>2. CASE b \notin sent
    <3>1. b \in Attempts /\ Approve(b)
      BY <2>2, SentByApprove
    <3>2. phase[b] = "verifying"
      BY <3>1 DEF Approve
    <3>. QED
      BY <3>1, <3>2, NothingTakenBack DEF IInv, CheckedFirst
  <2>. QED
    BY <2>1, <2>2
<1>. QED
  BY <1>1, <1>2, <1>3 DEF LogMatchesOutcomes

\* A process never takes the nonce of a payment it knows to be made for unspent:
\* either it remembers it or it finds it in the log.
LEMMA PaidIsKnown ==
  ASSUME IInv, NEW b \in Attempts, outcome[b] = "paid"
  PROVE  token[b].nonce \in KnownSpent(owner[b])
<1>1. PICK e \in log : e.attempt = b /\ e.event # "check" /\ OutcomeOf(e.event) = "paid"
  BY DEF IInv, LogMatchesOutcomes
<1>2. e.event \in FinalEvents
  BY <1>1 DEF IInv, TypeOK, Events
<1>3. e.event = "paid"
  BY <1>1, <1>2 DEF OutcomeOf, FinalEvents
<1>4. token[b].nonce \in LoggedPaid
  BY <1>1, <1>3 DEF LoggedPaid
<1>. QED
  BY <1>4 DEF KnownSpent, IInv, Remembered

LEMMA RememberedStep == IInv /\ [Next]_vars => Remembered'
<1>. DEFINE R(b) ==
       LET c == cache[owner[b]] IN
       /\ phase[b] = "logging" /\ event[b] = "paid" => c # Unread /\ token[b].nonce \in c
       /\ outcome[b] = "paid" => (phase[b] = "done" /\ (c # Unread => token[b].nonce \in c))
<1>. SUFFICES ASSUME IInv, [Next]_vars, NEW b \in Attempts PROVE R(b)'
  BY DEF Remembered
<1>0. TypeOK /\ R(b) /\ Stands(b)
  BY DEF IInv, Remembered, Standing
<1>. USE DEF TypeOK, callVars
<1>1. ASSUME NEW n \in Nonces, NEW i \in Intents, NEW ttl \in TtlChoices, NEW ahead \in AheadChoices,
             Mint(n, i, ttl, ahead)
      PROVE  R(b)'
  BY <1>0, <1>1 DEF Mint
<1>2. ASSUME NEW p \in Procs, NEW a \in Attempts, NEW t \in MintedTokens \cup {NoToken, BadToken},
             Start(p, a, t)
      PROVE  R(b)'
  BY <1>0, <1>2 DEF Start
<1>3. ASSUME NEW a \in Attempts, NEW d \in Decisions \ {"none"}, CheckAnswered(a, d) PROVE R(b)'
  BY <1>0, <1>3 DEF CheckAnswered
<1>4. ASSUME NEW a \in Attempts, CheckFailed(a) \/ PayoutFailed(a) PROVE R(b)'
  BY <1>0, <1>4 DEF CheckFailed, PayoutFailed, ToLog
<1>5. ASSUME NEW a \in Attempts, NEW s \in {"paid", "upstream_error", "refused"}, PayoutAnswered(a, s)
      PROVE  R(b)'
  <2>1. CASE s # "paid"
    BY <1>0, <1>5, <2>1 DEF PayoutAnswered, ToLog
  <2>2. CASE s = "paid"
    <3>. DEFINE known == KnownSpent(owner[a]) \cup {token[a].nonce}
    <3>1. owner[a] \in Procs /\ a \in sent
      BY <1>5 DEF PayoutAnswered, IInv, Standing, Stands
    <3>2. known \subseteq Nonces
      BY <3>1, KnownTypes, MintedTypes DEF IInv, OnlyApprovedIsSent, Tokens
    <3>3. known # Unread
      BY <3>2, GateAssumption
    <3>4. cache' = [cache EXCEPT ![owner[a]] = known]
      BY <1>5, <2>2 DEF PayoutAnswered
    <3>5. CASE a = b
      BY <1>0, <1>5, <2>2, <3>1, <3>3, <3>4, <3>5 DEF PayoutAnswered, ToLog
    <3>6. CASE a # b /\ outcome[b] = "paid"
      BY <1>0, <1>5, <3>1, <3>4, <3>6, PaidIsKnown DEF PayoutAnswered, ToLog
    <3>7. CASE a # b /\ outcome[b] # "paid"
      BY <1>0, <1>5, <3>1, <3>3, <3>4, <3>7 DEF PayoutAnswered, ToLog, KnownSpent
    <3>. QED
      BY <3>5, <3>6, <3>7
  <2>. QED
    BY <2>1, <2>2
<1>6. ASSUME NEW a \in Attempts, LogCheck(a) PROVE R(b)'
  BY <1>0, <1>6 DEF LogCheck, ToLog
<1>7. ASSUME NEW a \in Attempts, Approve(a) \/ RejectApproval(a) PROVE R(b)'
  <2>1. owner[a] \in Procs
    BY <1>7 DEF Approve, RejectApproval, IInv, Standing, Stands
  <2>2. UNCHANGED cache \/ cache' = [cache EXCEPT ![owner[a]] = KnownSpent(owner[a])]
    BY <1>7 DEF Approve, RejectApproval
  <2>3. outcome' = outcome /\ owner' = owner /\ token' = token
    BY <1>7 DEF Approve, RejectApproval
  <2>4. phase[b] = "logging" /\ event[b] = "paid" <=> phase'[b] = "logging" /\ event'[b] = "paid"
    BY <1>0, <1>7 DEF Approve, RejectApproval, ToLog
  <2>5. phase[b] = "done" => phase'[b] = "done"
    BY <1>0, <1>7 DEF Approve, RejectApproval, ToLog
  <2>6. CASE outcome[b] = "paid"
    BY <1>0, <2>1, <2>2, <2>3, <2>4, <2>5, <2>6, PaidIsKnown DEF Stands
  <2>7. CASE outcome[b] # "paid"
    BY <1>0, <2>1, <2>2, <2>3, <2>4, <2>5, <2>7 DEF KnownSpent, Stands
  <2>. QED
    BY <2>6, <2>7
<1>8. ASSUME NEW a \in Attempts, Finish(a) PROVE R(b)'
  <2>1. event[a] \in FinalEvents
    BY <1>8 DEF Finish, IInv, Standing, Stands
  <2>2. OutcomeOf(event[a]) = "paid" => event[a] = "paid"
    BY <2>1 DEF OutcomeOf, FinalEvents
  <2>. QED
    BY <1>0, <1>8, <2>2 DEF Finish
<1>9. ASSUME NEW a \in Attempts, AppendFails(a) PROVE R(b)'
  BY <1>0, <1>9 DEF AppendFails
<1>10. ASSUME NEW p \in Procs, Crash(p) PROVE R(b)'
  BY <1>0, <1>10 DEF Crash, Active, Stands
<1>11. CASE Tick \/ UNCHANGED vars
  BY <1>0, <1>11 DEF Tick, vars
<1>. QED
  BY Actions, <1>1, <1>2, <1>3, <1>4, <1>5, <1>6, <1>7, <1>8, <1>9, <1>10, <1>11
-----------------------------------------------------------------------------
\* The inductive invariant behind the theorems below: types, where each call
\* stands, what the log may hold, what a process remembers (gate.ts, audit.ts).
THEOREM Invariance == Spec => []IInv
<1>1. IInv /\ [Next]_vars => IInv'
  BY TypeStep, StandingStep, CheckedStep, LoggedStep, ApprovedStep, LogStep, RememberedStep DEF IInv
<1>. QED
  BY <1>1, InitIInv, PTL DEF Spec

\* The gate's state keeps its types.
THEOREM TypeCorrect == Spec => []TypeOK
<1>1. IInv => TypeOK
  BY DEF IInv
<1>. QED
  BY <1>1, Invariance, PTL

\* payout is only invoked for what the pre-flight let through and the approver
\* signed, whatever the contract answers (gate.ts:105-187).
THEOREM Approval == Spec => []OnlyApprovedIsSent
<1>1. IInv => OnlyApprovedIsSent
  BY DEF IInv
<1>. QED
  BY <1>1, Invariance, PTL

\* The log tells what the callers were told, crashes and failed appends included
\* (gate.ts:189-225, audit.ts:54-62).
THEOREM LogAgreement == Spec => []LogMatchesOutcomes
<1>1. IInv => LogMatchesOutcomes
  BY DEF IInv
<1>. QED
  BY <1>1, Invariance, PTL

\* No process sends a payout with a token whose payment it has told a caller of,
\* across crashes, whatever other processes do (audit.ts:90-121).
THEOREM NoReplay == Spec => NoReplayByProcess
<1>1. IInv /\ [Next]_vars =>
        [\A a \in sent' \ sent, b \in Attempts :
           (owner[a] = owner[b] /\ outcome[b] = "paid") => token[a].nonce # token[b].nonce]_vars
  BY SentByApprove, PaidIsKnown DEF Approve
<1>. QED
  BY <1>1, Invariance, PTL DEF Spec, NoReplayByProcess
=============================================================================

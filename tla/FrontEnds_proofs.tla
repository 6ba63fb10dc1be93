--------------------------- MODULE FrontEnds_proofs ---------------------------
(***************************************************************************)
(* Proofs about the front ends, for any number of servers and commands, any *)
(* settings they are started under and any requests.                         *)
(***************************************************************************)
EXTENDS FrontEnds, PaymentGate_proofs, SequenceTheorems

Lines == [Procs -> Seq(Attempts)]

FrontTypes ==
  /\ kind \in [Attempts -> Kinds]
  /\ settings \in Setups
  /\ up \subseteq Procs
  /\ queue \in Lines
  /\ shown \in [Attempts -> {"none", "ok", "no", "error", "silent", "killed", "ended"}]
  /\ spentBefore \in [Procs -> SUBSET Nonces]

\* The call a process is in is that of the request it is at.
AtWork ==
  \A b \in Attempts : Active(b) => queue[owner[b]] # <<>> /\ Head(queue[owner[b]]) = b

\* A process that is not running holds nothing; a server that runs, and
\* whoever is given a payment, has what the gate needs; a command has one
\* request.
Processes ==
  \A p \in Procs :
    /\ p \notin up => queue[p] = <<>> /\ cache[p] = Unread
    /\ p \in Servers \cap up => CanBuildGate(settings[p])
    /\ p \notin Servers => Len(queue[p]) <= 1
    /\ \A a \in ToSet(queue[p]) :
         /\ kind[a] \in {"pay", "check"} => CanBuildGate(settings[p])
         /\ phase[a] # "idle" => owner[a] = p
         /\ \A q \in Procs : a \in ToSet(queue[q]) => p = q

\* What entered the gate was a payment or a check, and the process could build
\* a gate; a call that is over has an outcome.
Entered(a) ==
  /\ phase[a] # "idle" =>
       /\ kind[a] \in {"pay", "check"} /\ (token[a] = NoToken <=> kind[a] = "check")
       /\ CanBuildGate(settings[owner[a]])
       /\ Given(a)
  /\ phase[a] = "done" => outcome[a] # "none" /\ (outcome[a] = "checked" => token[a] = NoToken)

AllEntered == \A a \in Attempts : Entered(a)

\* A payout is only sent by a process that holds the approver's secret.
SecretShared == \A a \in sent : settings[owner[a]].secret = ApproverSecret

\* The last entry of a call is the one its caller was told of.
LogTells ==
  \A e \in log :
    /\ phase[e.attempt] # "idle"
    /\ e.event # "check" => outcome[e.attempt] = OutcomeOf(e.event)

\* A client that was shown a result or a refusal was shown what came of its call.
ShownTruly ==
  \A a \in Attempts : kind[a] \in {"pay", "check"} /\ shown[a] \in {"ok", "no"} =>
    /\ phase[a] = "done"
    /\ shown[a] = IF owner[a] \in Servers THEN ServerShows(a) ELSE CommandShows(a)

\* What was spent when a process was started is in the log, and in what the
\* process knows, if it has looked.
Snapshots ==
  \A p \in Procs :
    /\ spentBefore[p] \subseteq LoggedPaid
    /\ cache[p] # Unread => spentBefore[p] \subseteq cache[p]

FrontInv ==
  /\ IInv
  /\ FrontTypes
  /\ AtWork
  /\ Processes
  /\ AllEntered
  /\ SecretShared
  /\ LogTells
  /\ ShownTruly
  /\ Snapshots

-----------------------------------------------------------------------------
(* Queues.                                                                  *)

LEMMA AppendedItems ==
  ASSUME NEW S, NEW s \in Seq(S), NEW x \in S
  PROVE  /\ Append(s, x) \in Seq(S) /\ Append(s, x) # <<>>
         /\ ToSet(Append(s, x)) = ToSet(s) \cup {x}
         /\ s # <<>> => Head(Append(s, x)) = Head(s)
<1>1. /\ Append(s, x) \in Seq(S) /\ Append(s, x) # <<>> /\ Len(Append(s, x)) = Len(s) + 1
      /\ \A i \in 1 .. Len(s) : Append(s, x)[i] = s[i]
      /\ Append(s, x)[Len(s) + 1] = x
  BY AppendProperties
<1>2. Len(s) \in Nat /\ DOMAIN s = 1 .. Len(s) /\ DOMAIN Append(s, x) = 1 .. Len(s) + 1
  BY <1>1
<1>3. ToSet(Append(s, x)) = ToSet(s) \cup {x}
  BY <1>1, <1>2 DEF ToSet
<1>4. s # <<>> => Head(Append(s, x)) = Head(s)
  BY <1>1, <1>2
<1>. QED
  BY <1>1, <1>3, <1>4

LEMMA RemainingItems ==
  ASSUME NEW S, NEW s \in Seq(S), s # <<>>
  PROVE  /\ Head(s) \in S /\ Head(s) \in ToSet(s)
         /\ Tail(s) \in Seq(S) /\ Len(Tail(s)) = Len(s) - 1
         /\ ToSet(s) = {Head(s)} \cup ToSet(Tail(s))
<1>1. /\ Head(s) \in S /\ Tail(s) \in Seq(S) /\ Len(Tail(s)) = Len(s) - 1
      /\ \A i \in 1 .. Len(Tail(s)) : Tail(s)[i] = s[i + 1]
  BY HeadTailProperties
<1>2. /\ Len(s) \in Nat \ {0} /\ DOMAIN s = 1 .. Len(s) /\ DOMAIN Tail(s) = 1 .. Len(s) - 1
      /\ Head(s) = s[1]
  BY <1>1, EmptySeq
<1>3. ToSet(Tail(s)) \subseteq ToSet(s) /\ Head(s) \in ToSet(s)
  BY <1>1, <1>2 DEF ToSet
<1>4. ASSUME NEW i \in DOMAIN s, i # 1 PROVE s[i] \in ToSet(Tail(s))
  <2>1. i - 1 \in DOMAIN Tail(s) /\ Tail(s)[i - 1] = s[i]
    BY <1>1, <1>2, <1>4
  <2>. QED
    BY <2>1 DEF ToSet
<1>5. ToSet(s) \subseteq {Head(s)} \cup ToSet(Tail(s))
  BY <1>2, <1>4 DEF ToSet
<1>. QED
  BY <1>1, <1>3, <1>5

LEMMA OneItem == \A x : ToSet(<<x>>) = {x} /\ ToSet(<<>>) = {} /\ Len(<<x>>) = 1 /\ <<x>> # <<>>
BY DEF ToSet

LEMMA OneOrNone ==
  ASSUME NEW S, NEW s \in Seq(S), Len(s) <= 1, s # <<>>
  PROVE  Tail(s) = <<>>
<1>1. Len(s) \in Nat \ {0}
  BY EmptySeq
<1>2. Tail(s) \in Seq(S) /\ Len(Tail(s)) = 0
  BY <1>1, HeadTailProperties
<1>. QED
  BY <1>2, EmptySeq

-----------------------------------------------------------------------------
(* The gate within the front ends.                                          *)

Acted == [Next]_vars \/ \E a \in Attempts : RejectForeign(a)

\* Rejecting a token under another secret keeps the gate's invariant.
LEMMA ForeignStep == \A a \in Attempts : IInv /\ RejectForeign(a) => IInv'
<1>. SUFFICES ASSUME NEW a \in Attempts, IInv, RejectForeign(a) PROVE IInv'
  OBVIOUS
<1>. USE DEF RejectForeign, ToLog, callVars
<1>0. TypeOK /\ Standing /\ phase[a] = "verifying" /\ a \notin sent
  BY DEF IInv, Standing, Stands
<1>1. TypeOK'
  BY <1>0 DEF TypeOK, Phases, FinalEvents
<1>2. Standing' /\ CheckedFirst'
  BY <1>0 DEF IInv, TypeOK, Standing, Stands, CheckedFirst, Blocked, FinalEvents
<1>3. LoggedIsDone'
  BY <1>0 DEF IInv, LoggedIsDone, TypeOK
<1>4. OnlyApprovedIsSent'
  BY DEF IInv, OnlyApprovedIsSent, MintedTokens
<1>5. LogMatchesOutcomes'
  BY DEF IInv, LogMatchesOutcomes
<1>6. Remembered'
  BY <1>0 DEF IInv, Remembered, TypeOK
<1>. QED
  BY <1>1, <1>2, <1>3, <1>4, <1>5, <1>6 DEF IInv

LEMMA ActedKeeps == IInv /\ Acted => IInv'
BY ForeignStep, TypeStep, StandingStep, CheckedStep, LoggedStep, ApprovedStep, LogStep, RememberedStep
   DEF IInv, Acted

\* Where a call may go in one step of the gate.
LEMMA Moves ==
  ASSUME IInv, Acted, NEW b \in Attempts
  PROVE  /\ phase[b] # "idle" => phase'[b] # "idle" /\ owner'[b] = owner[b] /\ token'[b] = token[b]
         /\ phase[b] = "idle" /\ phase'[b] # "idle" =>
              \E p \in Procs, t \in MintedTokens \cup {NoToken, BadToken} : Start(p, b, t)
         /\ Active(b)' => Active(b) \/ phase[b] = "idle"
         /\ phase[b] = "done" => phase'[b] = "done" /\ outcome'[b] = outcome[b] /\ decision'[b] = decision[b]
         /\ phase[b] # "done" /\ phase'[b] = "done" =>
              \/ outcome'[b] = "checked" /\ token[b] = NoToken
              \/ outcome'[b] \notin {"none", "checked"}
<1>1. CASE \E a \in Attempts : RejectForeign(a)
  BY <1>1 DEF RejectForeign, ToLog, callVars, IInv, TypeOK, Active
<1>2. CASE UNCHANGED vars
  BY <1>2 DEF vars, Active
<1>3. CASE Next
  <2>. USE DEF callVars, Active, TypeOK
  <2>0. TypeOK /\ Stands(b)
    BY DEF IInv, Standing
  <2>1. ASSUME NEW n \in Nonces, NEW i \in Intents, NEW ttl \in TtlChoices, NEW ahead \in AheadChoices,
               Mint(n, i, ttl, ahead)
        PROVE  phase' = phase /\ owner' = owner /\ token' = token /\ outcome' = outcome /\ decision' = decision
    BY <2>1 DEF Mint
  <2>2. CASE \E p \in Procs, a \in Attempts, t \in MintedTokens \cup {NoToken, BadToken} : Start(p, a, t)
    <3>1. PICK p \in Procs, a \in Attempts, t \in MintedTokens \cup {NoToken, BadToken} : Start(p, a, t)
      BY <2>2
    <3>2. /\ phase[a] = "idle" /\ phase' = [phase EXCEPT ![a] = "checking"]
          /\ owner' = [owner EXCEPT ![a] = p] /\ token' = [token EXCEPT ![a] = t]
          /\ UNCHANGED <<outcome, decision>>
      BY <3>1 DEF Start
    <3>. QED
      BY <2>0, <3>1, <3>2
  <2>3. CASE \E a \in Attempts, d \in Decisions \ {"none"} : CheckAnswered(a, d)
    BY <2>0, <2>3 DEF CheckAnswered
  <2>4. CASE \E a \in Attempts : CheckFailed(a) \/ PayoutFailed(a)
    BY <2>0, <2>4 DEF CheckFailed, PayoutFailed, ToLog
  <2>5. CASE \E a \in Attempts, s \in {"paid", "upstream_error", "refused"} : PayoutAnswered(a, s)
    BY <2>0, <2>5 DEF PayoutAnswered, ToLog
  <2>6. CASE \E a \in Attempts : LogCheck(a)
    BY <2>0, <2>6 DEF LogCheck, ToLog
  <2>7. CASE \E a \in Attempts : Approve(a) \/ RejectApproval(a)
    BY <2>0, <2>7 DEF Approve, RejectApproval, ToLog
  <2>8. CASE \E a \in Attempts : Finish(a)
    <3>1. PICK a \in Attempts : Finish(a)
      BY <2>8
    <3>2. event[a] \in FinalEvents
      BY <3>1 DEF Finish, IInv, Standing, Stands
    <3>3. OutcomeOf(event[a]) \notin {"none", "checked"}
      BY <3>2 DEF OutcomeOf, FinalEvents
    <3>. QED
      BY <2>0, <3>1, <3>3 DEF Finish
  <2>9. CASE \E a \in Attempts : AppendFails(a)
    BY <2>0, <2>9 DEF AppendFails
  <2>10. CASE \E p \in Procs : Crash(p)
    BY <2>0, <2>10 DEF Crash
  <2>11. CASE Tick
    BY <2>11 DEF Tick
  <2>. QED
    BY <1>3, <2>1, <2>2, <2>3, <2>4, <2>5, <2>6, <2>7, <2>8, <2>9, <2>10, <2>11, Actions
<1>. QED
  BY <1>1, <1>2, <1>3 DEF Acted

\* A process whose request is not in the gate, or that has none, has no call.
LEMMA AtRest ==
  ASSUME FrontInv, NEW p \in Procs,
         queue[p] = <<>> \/ \E a \in Attempts : Turn(p, a) /\ ~Active(a)
  PROVE  \A b \in Attempts : owner[b] = p => ~Active(b)
BY DEF FrontInv, AtWork, Turn

\* Ending with no call under way is, for the gate, like dying with none.
LEMMA ExitIsCrash ==
  ASSUME FrontInv, NEW p \in Procs, Exit(p), \A b \in Attempts : owner[b] = p => ~Active(b)
  PROVE  Crash(p)
<1>1. {a \in Attempts : owner[a] = p /\ Active(a)} = {}
  OBVIOUS
<1>2. phase = [a \in Attempts |-> phase[a]]
  BY DEF FrontInv, IInv, TypeOK
<1>. QED
  BY <1>1, <1>2 DEF Exit, Crash

\* What never entered the gate has no call.
LEMMA OutsideIsIdle ==
  ASSUME FrontInv, NEW a \in Attempts, AnswersAtOnce(a) # {} \/ kind[a] = "null"
  PROVE  phase[a] = "idle" /\ ~Active(a) /\ kind[a] \notin {"pay", "check"}
<1>1. kind[a] \notin {"pay", "check"}
  BY DEF AnswersAtOnce, Invalid
<1>. QED
  BY <1>1 DEF FrontInv, AllEntered, Entered, Active

-----------------------------------------------------------------------------
(* The steps of the front ends.                                             *)

Restarts(p) == CloseServer(p) \/ \E a \in Attempts : CommandExits(p, a) \/ CommandAtOnce(p, a)
Deaths(p) == Kill(p) \/ \E a \in Attempts : ServerDies(p, a)
Shows(p, a) == ServerReplies(p, a) \/ ServerAtOnce(p, a)

LEMMA FrontActions ==
  ASSUME FrontNext
  PROVE  \/ \E n \in Nonces, i \in Intents, ttl \in TtlChoices, ahead \in AheadChoices :
              Sign(n, i, ttl, ahead)
         \/ \E p \in Procs : LaunchServer(p)
         \/ \E p \in Procs : Restarts(p)
         \/ \E p \in Procs : Deaths(p)
         \/ \E p \in Procs, a \in Attempts : SendLine(p, a)
         \/ \E p \in Procs, a \in Attempts : Command(p, a)
         \/ \E p \in Procs, a \in Attempts : Shows(p, a)
         \/ \E p \in Procs, a \in Attempts, t \in MintedTokens \cup {NoToken, BadToken} : Begin(p, a, t)
         \/ \E a \in Attempts : GateStep(a)
BY DEF FrontNext, Answer, Restarts, Deaths, Shows

LEMMA RestartIsCrash ==
  ASSUME FrontInv, NEW p \in Procs, Restarts(p)
  PROVE  /\ Exit(p) /\ Crash(p) /\ \A b \in Attempts : owner[b] = p => ~Active(b)
         /\ UNCHANGED <<kind, settings>>
         /\ queue'[p] = <<>> /\ \A q \in Procs \ {p} : queue'[q] = queue[q]
<1>0. queue \in Lines
  BY DEF FrontInv, FrontTypes
<1>1. CASE CloseServer(p)
  BY <1>1, AtRest, ExitIsCrash DEF CloseServer
<1>2. ASSUME NEW a \in Attempts, CommandExits(p, a) \/ CommandAtOnce(p, a)
      PROVE  /\ Exit(p) /\ Crash(p) /\ \A b \in Attempts : owner[b] = p => ~Active(b)
             /\ UNCHANGED <<kind, settings>>
             /\ queue'[p] = <<>> /\ \A q \in Procs \ {p} : queue'[q] = queue[q]
  <2>1. ~Active(a)
    BY <1>2, OutsideIsIdle DEF CommandExits, CommandAtOnce, Active
  <2>2. \A b \in Attempts : owner[b] = p => ~Active(b)
    BY <1>2, <2>1, AtRest DEF CommandExits, CommandAtOnce
  <2>3. Len(queue[p]) <= 1 /\ queue[p] # <<>> /\ queue[p] \in Seq(Attempts)
    BY <1>0, <1>2 DEF CommandExits, CommandAtOnce, Turn, FrontInv, Processes, Lines
  <2>4. queue' = [queue EXCEPT ![p] = <<>>]
    BY <1>2, <2>3, OneOrNone DEF CommandExits, CommandAtOnce, Show
  <2>. QED
    BY <1>0, <1>2, <2>2, <2>4, ExitIsCrash DEF CommandExits, CommandAtOnce, Lines
<1>. QED
  BY <1>1, <1>2 DEF Restarts

\* For the gate, every step of the front ends is one of its own, the rejection
\* of a foreign token, or none.
LEMMA FrontActs == FrontInv /\ [FrontNext]_allVars => Acted
<1>. SUFFICES ASSUME FrontInv, [FrontNext]_allVars PROVE Acted
  OBVIOUS
<1>1. ASSUME NEW n \in Nonces, NEW i \in Intents, NEW ttl \in TtlChoices, NEW ahead \in AheadChoices,
             Sign(n, i, ttl, ahead)
      PROVE  Acted
  BY <1>1 DEF Sign, Acted, Next
<1>2. ASSUME NEW p \in Procs, Restarts(p) \/ Deaths(p) PROVE Acted
  BY <1>2, RestartIsCrash DEF Deaths, Kill, ServerDies, Die, Acted, Next
<1>3. ASSUME NEW p \in Procs,
             LaunchServer(p) \/ \E a \in Attempts : SendLine(p, a) \/ Command(p, a) \/ Shows(p, a)
      PROVE  Acted
  BY <1>3 DEF LaunchServer, SendLine, Command, Shows, ServerReplies, ServerAtOnce, Acted
<1>4. ASSUME NEW p \in Procs, NEW a \in Attempts, NEW t \in MintedTokens \cup {NoToken, BadToken},
             Begin(p, a, t)
      PROVE  Acted
  BY <1>4 DEF Begin, Acted, Next
<1>5. ASSUME NEW a \in Attempts, GateStep(a) PROVE Acted
  BY <1>5 DEF GateStep, Local, Acted, Next
<1>6. CASE UNCHANGED allVars
  BY <1>6 DEF allVars, Acted
<1>. QED
  BY <1>1, <1>2, <1>3, <1>4, <1>5, <1>6, FrontActions

-----------------------------------------------------------------------------
(* The invariant of the front ends.                                         *)

LEMMA ShownValues ==
  ASSUME NEW a \in Attempts
  PROVE  /\ ServerShows(a) \in {"ok", "no", "error"}
         /\ CommandShows(a) \in {"ok", "no", "error"}
         /\ \A s \in AnswersAtOnce(a) : s \in {"ok", "error", "silent"}
BY DEF ServerShows, CommandShows, AnswersAtOnce

LEMMA FrontTypesStep == FrontInv /\ [FrontNext]_allVars => FrontTypes'
<1>. SUFFICES ASSUME FrontInv, [FrontNext]_allVars PROVE FrontTypes'
  OBVIOUS
<1>. USE DEF FrontTypes, frontVars
<1>0. FrontTypes /\ IInv
  BY DEF FrontInv
<1>1. ASSUME NEW n \in Nonces, NEW i \in Intents, NEW ttl \in TtlChoices, NEW ahead \in AheadChoices,
             Sign(n, i, ttl, ahead)
      PROVE  FrontTypes'
  BY <1>0, <1>1 DEF Sign
<1>2. ASSUME NEW p \in Procs, LaunchServer(p) PROVE FrontTypes'
  BY <1>0, <1>2, SpentTypes DEF LaunchServer, Run
<1>3. ASSUME NEW p \in Procs, Restarts(p) PROVE FrontTypes'
  <2>1. queue' \in Lines
    <3>1. queue' = queue \/ \E a \in Attempts : Turn(p, a) /\ queue' = [queue EXCEPT ![p] = Tail(@)]
      BY <1>3 DEF Restarts, CloseServer, CommandExits, CommandAtOnce, Show
    <3>2. queue[p] \in Seq(Attempts)
      BY <1>0 DEF Lines
    <3>3. queue[p] # <<>> => Tail(queue[p]) \in Seq(Attempts)
      BY <3>2, RemainingItems
    <3>. QED
      BY <1>0, <3>1, <3>3 DEF Lines, Turn
  <2>2. shown' = shown \/ \E a \in Attempts, s \in {"ok", "no", "error", "silent"} :
                            shown' = [shown EXCEPT ![a] = s]
    BY <1>3, ShownValues DEF Restarts, CloseServer, CommandExits, CommandAtOnce, Show
  <2>. QED
    BY <1>0, <1>3, <2>1, <2>2, RestartIsCrash DEF Exit
<1>4. ASSUME NEW p \in Procs, Deaths(p) PROVE FrontTypes'
  <2>1. \E how \in {"killed", "ended"} : Die(p, how)
    BY <1>4 DEF Deaths, Kill, ServerDies
  <2>2. <<>> \in Seq(Attempts)
    BY EmptySeq
  <2>. QED
    BY <1>0, <2>1, <2>2 DEF Die, Lines
<1>5. ASSUME NEW p \in Procs, NEW a \in Attempts, SendLine(p, a) PROVE FrontTypes'
  <2>1. queue[p] \in Seq(Attempts)
    BY <1>0 DEF Lines
  <2>. QED
    BY <1>0, <1>5, <2>1, AppendedItems DEF SendLine, Lines
<1>6. ASSUME NEW p \in Procs, NEW a \in Attempts, Command(p, a) PROVE FrontTypes'
  <2>1. <<a>> \in Seq(Attempts)
    OBVIOUS
  <2>. QED
    BY <1>0, <1>6, <2>1, SpentTypes DEF Command, Run, Lines
<1>7. ASSUME NEW p \in Procs, NEW a \in Attempts, Shows(p, a) PROVE FrontTypes'
  <2>1. queue[p] \in Seq(Attempts) /\ queue[p] # <<>> /\ queue' = [queue EXCEPT ![p] = Tail(@)]
    BY <1>0, <1>7 DEF Lines, Shows, ServerReplies, ServerAtOnce, Show, Turn
  <2>2. queue' \in Lines
    BY <1>0, <2>1, RemainingItems DEF Lines
  <2>3. \E s \in {"ok", "no", "error", "silent"} : shown' = [shown EXCEPT ![a] = s]
    BY <1>7, ShownValues DEF Shows, ServerReplies, ServerAtOnce, Show
  <2>. QED
    BY <1>0, <1>7, <2>2, <2>3 DEF Shows, ServerReplies, ServerAtOnce
<1>8. CASE UNCHANGED frontVars
  BY <1>0, <1>8
<1>. QED
  BY <1>1, <1>2, <1>3, <1>4, <1>5, <1>6, <1>7, <1>8, FrontActions DEF Begin, GateStep, allVars

\* The gate's part of a step that no gate step is part of.
LEMMA GateAtRest ==
  ASSUME NEW p \in Procs, NEW a \in Attempts,
         LaunchServer(p) \/ SendLine(p, a) \/ Command(p, a) \/ Shows(p, a)
  PROVE  UNCHANGED vars
BY DEF LaunchServer, SendLine, Command, Shows, ServerReplies, ServerAtOnce

\* The gate's own steps take calls on that have started, and start none.
LEMMA GateStepMoves ==
  ASSUME NEW a \in Attempts, GateStep(a)
  PROVE  /\ phase[a] # "idle" /\ \E v : phase' = [phase EXCEPT ![a] = v]
         /\ UNCHANGED <<owner, token, minted>> /\ UNCHANGED frontVars
<1>1. UNCHANGED frontVars
  BY DEF GateStep
<1>2. \/ Answered(a) \/ LogCheck(a) \/ Finish(a) \/ AppendFails(a)
      \/ Approve(a) \/ RejectApproval(a) \/ RejectForeign(a)
  BY DEF GateStep
<1>3. /\ phase[a] # "idle" /\ \E v : phase' = [phase EXCEPT ![a] = v]
      /\ UNCHANGED <<owner, token, minted>>
  BY <1>2 DEF Answered, CheckAnswered, CheckFailed, PayoutAnswered, PayoutFailed, LogCheck,
              Finish, AppendFails, Approve, RejectApproval, RejectForeign, ToLog, callVars
<1>. QED
  BY <1>1, <1>3

LEMMA BeginMoves ==
  ASSUME NEW p \in Procs, NEW a \in Attempts, NEW t, Begin(p, a, t)
  PROVE  /\ phase[a] = "idle" /\ phase' = [phase EXCEPT ![a] = "checking"]
         /\ owner' = [owner EXCEPT ![a] = p] /\ token' = [token EXCEPT ![a] = t]
         /\ UNCHANGED <<minted, outcome, cache, log, sent>> /\ UNCHANGED frontVars
         /\ Turn(p, a) /\ kind[a] \in {"pay", "check"} /\ (t = NoToken <=> kind[a] = "check")
BY DEF Begin, Start

\* A process that dies loses its calls, and what it was given.
LEMMA DeathMoves ==
  ASSUME NEW p \in Procs, Deaths(p)
  PROVE  Crash(p) /\ \E how \in {"killed", "ended"} : Die(p, how)
BY DEF Deaths, Kill, ServerDies, Die

LEMMA CrashMoves ==
  ASSUME IInv, NEW p \in Procs, Crash(p)
  PROVE  /\ UNCHANGED <<minted, owner, token, outcome, decision, log, sent>>
         /\ cache' = [cache EXCEPT ![p] = Unread]
         /\ \A b \in Attempts : phase'[b] = IF owner[b] = p /\ Active(b) THEN "dead" ELSE phase[b]
BY DEF Crash, callVars

\* A call starts when a process takes up a request for it.
LEMMA OnlyBeginStarts ==
  ASSUME FrontInv, [FrontNext]_allVars, NEW b \in Attempts, phase[b] = "idle", phase'[b] # "idle"
  PROVE  \E p \in Procs, t \in MintedTokens \cup {NoToken, BadToken} : Begin(p, b, t)
<1>0. phase \in [Attempts -> Phases] /\ IInv
  BY DEF FrontInv, IInv, TypeOK
<1>1. ASSUME NEW n \in Nonces, NEW i \in Intents, NEW ttl \in TtlChoices, NEW ahead \in AheadChoices,
             Sign(n, i, ttl, ahead)
      PROVE  FALSE
  BY <1>1 DEF Sign, Mint
<1>2. ASSUME NEW p \in Procs, Restarts(p) \/ Deaths(p) PROVE FALSE
  BY <1>0, <1>2, RestartIsCrash, DeathMoves, CrashMoves DEF Active
<1>3. ASSUME NEW p \in Procs, NEW a \in Attempts,
             LaunchServer(p) \/ SendLine(p, a) \/ Command(p, a) \/ Shows(p, a)
      PROVE  FALSE
  BY <1>3, GateAtRest DEF vars
<1>4. ASSUME NEW a \in Attempts, GateStep(a) PROVE FALSE
  BY <1>0, <1>4, GateStepMoves
<1>5. ~UNCHANGED allVars
  BY DEF allVars, vars
<1>6. PICK p \in Procs, a \in Attempts, t \in MintedTokens \cup {NoToken, BadToken} : Begin(p, a, t)
  BY <1>1, <1>2, <1>3, <1>4, <1>5, FrontActions
<1>7. a = b
  BY <1>0, <1>6, BeginMoves
<1>. QED
  BY <1>6, <1>7

LEMMA AtWorkStep == FrontInv /\ [FrontNext]_allVars => AtWork'
<1>. SUFFICES ASSUME FrontInv, [FrontNext]_allVars, NEW b \in Attempts, Active(b)'
              PROVE  queue'[owner'[b]] # <<>> /\ Head(queue'[owner'[b]]) = b
  BY DEF AtWork
<1>. DEFINE Busy == queue[owner[b]] # <<>> /\ Head(queue[owner[b]]) = b
            Goal == queue'[owner'[b]] # <<>> /\ Head(queue'[owner'[b]]) = b
<1>0. /\ IInv /\ queue \in Lines /\ Acted /\ owner \in [Attempts -> Procs \cup {Nobody}]
      /\ Active(b) => Busy /\ owner[b] \in Procs
  BY FrontActs DEF FrontInv, FrontTypes, AtWork, IInv, Standing, Stands, Active, TypeOK
<1>1. CASE ~Active(b)
  <2>1. phase[b] = "idle" /\ phase'[b] # "idle"
    BY <1>0, <1>1, Moves DEF Active
  <2>2. PICK p \in Procs, t \in MintedTokens \cup {NoToken, BadToken} : Begin(p, b, t)
    BY <2>1, OnlyBeginStarts
  <2>. QED
    BY <1>0, <2>2, BeginMoves DEF frontVars, Turn
<1>2. CASE Active(b)
  <2>0. owner'[b] = owner[b] /\ Busy /\ owner[b] \in Procs
    BY <1>0, <1>2, Moves DEF Active
  <2>1. ASSUME NEW p \in Procs, Restarts(p) PROVE Goal
    BY <1>2, <2>0, <2>1, RestartIsCrash
  <2>2. ASSUME NEW p \in Procs, Deaths(p) PROVE Goal
    <3>1. owner[b] # p
      BY <1>0, <2>2, DeathMoves, CrashMoves DEF Active
    <3>. QED
      BY <1>0, <2>0, <2>2, <3>1, DeathMoves DEF Die, Lines
  <2>3. ASSUME NEW p \in Procs, NEW a \in Attempts, SendLine(p, a) PROVE Goal
    <3>1. queue[p] \in Seq(Attempts) /\ queue' = [queue EXCEPT ![p] = Append(@, a)]
      BY <1>0, <2>3 DEF SendLine, Lines
    <3>. QED
      BY <1>0, <2>0, <3>1, AppendedItems DEF Lines
  <2>4. ASSUME NEW p \in Procs, NEW a \in Attempts, Command(p, a) PROVE Goal
    <3>1. queue[p] = <<>>
      BY <2>4 DEF Command, FrontInv, Processes
    <3>. QED
      BY <1>0, <2>0, <2>4, <3>1 DEF Command, Lines
  <2>5. ASSUME NEW p \in Procs, NEW a \in Attempts, Shows(p, a) PROVE Goal
    <3>1. Turn(p, a) /\ ~Active(a) /\ queue' = [queue EXCEPT ![p] = Tail(@)]
      BY <2>5, OutsideIsIdle DEF Shows, ServerReplies, ServerAtOnce, Show, Active
    <3>2. owner[b] # p
      BY <1>2, <3>1, AtRest
    <3>. QED
      BY <1>0, <2>0, <3>1, <3>2 DEF Lines
  <2>6. CASE UNCHANGED queue
    BY <2>0, <2>6
  <2>. QED
    BY <2>1, <2>2, <2>3, <2>4, <2>5, <2>6, FrontActions, BeginMoves, GateStepMoves
       DEF Sign, LaunchServer, frontVars, allVars
<1>. QED
  BY <1>1, <1>2

\* A process knows other nonces after a step only if it is in a call, or has died.
LEMMA CacheMoves ==
  ASSUME FrontInv, [FrontNext]_allVars, NEW p \in Procs, cache'[p] # cache[p]
  PROVE  cache'[p] = Unread \/ \E a \in Attempts : owner[a] = p /\ Active(a)
<1>. DEFINE Goal == cache'[p] = Unread \/ \E a \in Attempts : owner[a] = p /\ Active(a)
<1>0. cache \in [Procs -> {Unread} \cup SUBSET Nonces] /\ IInv
  BY DEF FrontInv, IInv, TypeOK
<1>1. ASSUME NEW n \in Nonces, NEW i \in Intents, NEW ttl \in TtlChoices, NEW ahead \in AheadChoices,
             Sign(n, i, ttl, ahead)
      PROVE  Goal
  BY <1>1 DEF Sign, Mint
<1>2. ASSUME NEW q \in Procs, Restarts(q) \/ Deaths(q) PROVE Goal
  BY <1>0, <1>2, RestartIsCrash, DeathMoves, CrashMoves
<1>7. ASSUME NEW q \in Procs, LaunchServer(q) PROVE Goal
  BY <1>7 DEF LaunchServer, vars
<1>3. ASSUME NEW q \in Procs, NEW a \in Attempts,
             SendLine(q, a) \/ Command(q, a) \/ Shows(q, a)
      PROVE  Goal
  BY <1>3, GateAtRest DEF vars
<1>4. ASSUME NEW a \in Attempts, GateStep(a)
      PROVE  Goal
  <2>1. \/ cache' = cache
        \/ Active(a) /\ \E c : cache' = [cache EXCEPT ![owner[a]] = c]
    BY <1>4 DEF GateStep, Answered, CheckAnswered, CheckFailed, PayoutAnswered, PayoutFailed, LogCheck,
                Finish, AppendFails, Approve, RejectApproval, RejectForeign, Active
  <2>. QED
    BY <1>0, <2>1
<1>5. CASE UNCHANGED allVars
  BY <1>5 DEF allVars, vars
<1>6. ASSUME NEW q \in Procs, NEW a \in Attempts, NEW t \in MintedTokens \cup {NoToken, BadToken},
             Begin(q, a, t)
      PROVE  Goal
  BY <1>6, BeginMoves
<1>. QED
  BY <1>1, <1>2, <1>3, <1>4, <1>5, <1>6, <1>7, FrontActions

\* A process has more to do only when a line or a command is given to it, and
\* then only that process.
LEMMA QueueMoves ==
  ASSUME FrontInv, [FrontNext]_allVars, NEW p \in Procs, NEW a \in ToSet(queue'[p])
  PROVE  \/ a \in ToSet(queue[p])
         \/ SendLine(p, a) /\ \A q \in Procs \ {p} : queue'[q] = queue[q]
         \/ Command(p, a) /\ \A q \in Procs \ {p} : queue'[q] = queue[q]
<1>. DEFINE Goal ==
       \/ a \in ToSet(queue[p])
       \/ SendLine(p, a) /\ \A q \in Procs \ {p} : queue'[q] = queue[q]
       \/ Command(p, a) /\ \A q \in Procs \ {p} : queue'[q] = queue[q]
<1>0. queue \in Lines /\ queue[p] \in Seq(Attempts)
  BY DEF FrontInv, FrontTypes, Lines
<1>1. CASE UNCHANGED queue
  BY <1>1
<1>2. ASSUME NEW r \in Procs, Restarts(r) PROVE Goal
  BY <1>0, <1>2, RestartIsCrash, OneItem
<1>3. ASSUME NEW r \in Procs, Deaths(r) PROVE Goal
  BY <1>0, <1>3, DeathMoves, OneItem DEF Die, Lines
<1>4. ASSUME NEW r \in Procs, NEW b \in Attempts, SendLine(r, b) PROVE Goal
  <2>1. queue' = [queue EXCEPT ![r] = Append(@, b)]
    BY <1>4 DEF SendLine
  <2>2. CASE r = p
    <3>1. ToSet(queue'[p]) = ToSet(queue[p]) \cup {b} /\ \A q \in Procs \ {p} : queue'[q] = queue[q]
      BY <1>0, <2>1, <2>2, AppendedItems DEF Lines
    <3>. QED
      BY <1>4, <2>2, <3>1
  <2>3. CASE r # p
    BY <1>0, <2>1, <2>3 DEF Lines
  <2>. QED
    BY <2>2, <2>3
<1>5. ASSUME NEW r \in Procs, NEW b \in Attempts, Command(r, b) PROVE Goal
  <2>1. queue' = queue \/ queue' = [queue EXCEPT ![r] = <<b>>]
    BY <1>5 DEF Command
  <2>2. CASE r = p /\ queue' # queue
    <3>1. ToSet(queue'[p]) = {b} /\ \A q \in Procs \ {p} : queue'[q] = queue[q]
      BY <1>0, <2>1, <2>2, OneItem DEF Lines
    <3>. QED
      BY <1>5, <2>2, <3>1
  <2>3. CASE r # p
    BY <1>0, <2>1, <2>3 DEF Lines
  <2>. QED
    BY <1>1, <2>2, <2>3
<1>6. ASSUME NEW r \in Procs, NEW b \in Attempts, Shows(r, b) PROVE Goal
  <2>1. Turn(r, b) /\ queue' = [queue EXCEPT ![r] = Tail(@)]
    BY <1>6 DEF Shows, ServerReplies, ServerAtOnce, Show
  <2>2. CASE r = p
    BY <1>0, <2>1, <2>2, RemainingItems DEF Lines, Turn
  <2>3. CASE r # p
    BY <1>0, <2>1, <2>3 DEF Lines
  <2>. QED
    BY <2>2, <2>3
<1>. QED
  BY <1>1, <1>2, <1>3, <1>4, <1>5, <1>6, FrontActions, BeginMoves, GateStepMoves
     DEF Sign, LaunchServer, frontVars, allVars

\* What is given to a process has not been in the gate or in another queue, and
\* if it is a payment or a check the process has what the gate needs.
LEMMA NewIsFresh ==
  ASSUME FrontInv, NEW p \in Procs, NEW a \in Attempts, SendLine(p, a) \/ Command(p, a)
  PROVE  /\ ~Given(a) /\ phase[a] = "idle" /\ UNCHANGED vars
         /\ queue' # queue /\ kind[a] \in {"pay", "check"} => CanBuildGate(settings[p])
<1>1. ~Given(a) /\ UNCHANGED vars
  BY DEF SendLine, Command
<1>2. phase[a] = "idle"
  BY <1>1 DEF FrontInv, AllEntered, Entered
<1>3. SendLine(p, a) => CanBuildGate(settings[p])
  BY DEF SendLine, FrontInv, Processes
<1>4. ASSUME Command(p, a), queue' # queue, kind[a] \in {"pay", "check"}
      PROVE  CanBuildGate(settings[p])
  BY <1>4 DEF Command, Configured
<1>5. queue' # queue /\ kind[a] \in {"pay", "check"} => CanBuildGate(settings[p])
  BY <1>3, <1>4
<1>. QED
  BY <1>1, <1>2, <1>5

\* Nobody's settings change, and no request.
LEMMA Fixed ==
  ASSUME FrontInv, [FrontNext]_allVars
  PROVE  kind' = kind /\ settings' = settings
BY FrontActions, RestartIsCrash, DeathMoves, BeginMoves, GateStepMoves
   DEF Sign, LaunchServer, Die, SendLine, Command, Shows, ServerReplies, ServerAtOnce, frontVars, allVars

\* A process starts by being launched or run, and ends with an empty queue.
LEMMA UpMoves ==
  ASSUME FrontInv, [FrontNext]_allVars, NEW p \in Procs
  PROVE  /\ p \in up' => \/ p \in up
                         \/ p \in Servers /\ CanBuildGate(settings[p])
                         \/ p \notin Servers
         /\ p \notin up' => \/ p \notin up /\ queue'[p] = queue[p]
                            \/ queue'[p] = <<>> /\ cache'[p] = Unread
         /\ p \notin Servers => Len(queue'[p]) <= 1
<1>. DEFINE Goal ==
       /\ p \in up' => \/ p \in up
                       \/ p \in Servers /\ CanBuildGate(settings[p])
                       \/ p \notin Servers
       /\ p \notin up' => \/ p \notin up /\ queue'[p] = queue[p]
                          \/ queue'[p] = <<>> /\ cache'[p] = Unread
       /\ p \notin Servers => Len(queue'[p]) <= 1
<1>0. /\ queue \in Lines /\ queue[p] \in Seq(Attempts) /\ IInv
      /\ cache \in [Procs -> {Unread} \cup SUBSET Nonces]
      /\ p \notin up => queue[p] = <<>>
      /\ p \notin Servers => Len(queue[p]) <= 1
      /\ Len(<<>>) = 0
  BY DEF FrontInv, FrontTypes, Lines, IInv, TypeOK, Processes
<1>1. CASE UNCHANGED <<up, queue>>
  BY <1>0, <1>1
<1>2. ASSUME NEW r \in Procs, LaunchServer(r) PROVE Goal
  BY <1>0, <1>2 DEF LaunchServer, Run
<1>3. ASSUME NEW r \in Procs, Restarts(r) PROVE Goal
  BY <1>0, <1>3, RestartIsCrash, CrashMoves DEF Exit
<1>4. ASSUME NEW r \in Procs, Deaths(r) PROVE Goal
  BY <1>0, <1>4, DeathMoves, CrashMoves DEF Die, Lines
<1>5. ASSUME NEW r \in Procs, NEW b \in Attempts, SendLine(r, b) PROVE Goal
  BY <1>0, <1>5 DEF SendLine, Lines
<1>6. ASSUME NEW r \in Procs, NEW b \in Attempts, Command(r, b) PROVE Goal
  <2>1. /\ r \notin Servers
        /\ \/ up' = up \cup {r} /\ queue' = [queue EXCEPT ![r] = <<b>>]
           \/ up' = up /\ queue' = queue
    BY <1>6 DEF Command, Run
  <2>2. CASE r = p /\ queue' # queue
    <3>1. queue'[p] = <<b>> /\ Len(<<b>>) = 1
      BY <1>0, <2>1, <2>2, OneItem DEF Lines
    <3>. QED
      BY <2>1, <2>2, <3>1
  <2>3. CASE r # p
    BY <1>0, <2>1, <2>3 DEF Lines
  <2>. QED
    BY <1>0, <2>1, <2>2, <2>3
<1>7. ASSUME NEW r \in Procs, NEW b \in Attempts, Shows(r, b) PROVE Goal
  <2>1. /\ r \in Servers /\ queue[r] # <<>> /\ queue' = [queue EXCEPT ![r] = Tail(@)] /\ up' = up
    BY <1>7 DEF Shows, ServerReplies, ServerAtOnce, Show, Turn
  <2>. QED
    BY <1>0, <2>1 DEF Lines
<1>. QED
  BY <1>1, <1>2, <1>3, <1>4, <1>5, <1>6, <1>7, FrontActions, BeginMoves, GateStepMoves
     DEF Sign, frontVars, allVars

LEMMA ProcessesStep == FrontInv /\ [FrontNext]_allVars => Processes'
<1>. SUFFICES ASSUME FrontInv, [FrontNext]_allVars, NEW p \in Procs
              PROVE  /\ p \notin up' => queue'[p] = <<>> /\ cache'[p] = Unread
                     /\ p \in Servers \cap up' => CanBuildGate(settings'[p])
                     /\ p \notin Servers => Len(queue'[p]) <= 1
                     /\ \A a \in ToSet(queue'[p]) :
                          /\ kind'[a] \in {"pay", "check"} => CanBuildGate(settings'[p])
                          /\ phase'[a] # "idle" => owner'[a] = p
                          /\ \A q \in Procs : a \in ToSet(queue'[q]) => p = q
  BY DEF Processes, CanBuildGate, CanBuildInvoker, Problems, Acceptable
<1>0. /\ IInv /\ Acted /\ queue[p] \in Seq(Attempts)
      /\ p \notin up => queue[p] = <<>> /\ cache[p] = Unread
      /\ p \in Servers \cap up => CanBuildGate(settings[p])
      /\ \A a \in ToSet(queue[p]) :
           /\ kind[a] \in {"pay", "check"} => CanBuildGate(settings[p])
           /\ phase[a] # "idle" => owner[a] = p
           /\ \A q \in Procs : a \in ToSet(queue[q]) => p = q
  BY FrontActs DEF FrontInv, FrontTypes, Lines, Processes
<1>1. p \notin up' => queue'[p] = <<>> /\ cache'[p] = Unread
  <2>1. CASE p \notin up /\ queue'[p] = queue[p] /\ cache'[p] # cache[p]
    <3>1. cache'[p] = Unread \/ \E a \in Attempts : owner[a] = p /\ Active(a)
      BY <2>1, CacheMoves
    <3>. QED
      BY <1>0, <2>1, <3>1 DEF FrontInv, AtWork
  <2>. QED
    BY <1>0, <2>1, UpMoves
<1>2. p \in Servers \cap up' => CanBuildGate(settings'[p])
  BY <1>0, UpMoves, Fixed
<1>3. ASSUME NEW a \in ToSet(queue'[p])
      PROVE  /\ kind'[a] \in {"pay", "check"} => CanBuildGate(settings'[p])
             /\ phase'[a] # "idle" => owner'[a] = p
             /\ \A q \in Procs : a \in ToSet(queue'[q]) => p = q
  <2>1. CASE a \in ToSet(queue[p])
    <3>0. a \in Attempts
      BY <1>0, <2>1 DEF ToSet
    <3>1. phase'[a] # "idle" => owner'[a] = p
      <4>1. CASE phase[a] # "idle"
        BY <1>0, <2>1, <3>0, <4>1, Moves
      <4>2. ASSUME phase[a] = "idle", phase'[a] # "idle" PROVE owner'[a] = p
        <5>1. PICK r \in Procs, t \in MintedTokens \cup {NoToken, BadToken} : Begin(r, a, t)
          BY <3>0, <4>2, OnlyBeginStarts
        <5>2. Turn(r, a) /\ owner' = [owner EXCEPT ![a] = r]
          BY <3>0, <5>1, BeginMoves
        <5>3. queue[r] \in Seq(Attempts) /\ queue[r] # <<>> /\ a = Head(queue[r])
          BY <5>2 DEF Turn, FrontInv, FrontTypes, Lines
        <5>4. r = p
          BY <1>0, <2>1, <5>3, RemainingItems
        <5>. QED
          BY <3>0, <5>2, <5>4 DEF FrontInv, IInv, TypeOK
      <4>. QED
        BY <4>1, <4>2
    <3>2. ASSUME NEW q \in Procs, a \in ToSet(queue'[q]) PROVE p = q
      <4>1. ~(SendLine(q, a) \/ Command(q, a))
        BY <2>1, <3>0, NewIsFresh DEF Given
      <4>. QED
        BY <1>0, <2>1, <3>2, <4>1, QueueMoves
    <3>. QED
      BY <1>0, <2>1, <3>1, <3>2, Fixed
  <2>2. CASE a \notin ToSet(queue[p])
    <3>1. (SendLine(p, a) \/ Command(p, a)) /\ \A q \in Procs \ {p} : queue'[q] = queue[q]
      BY <1>3, <2>2, QueueMoves
    <3>0. a \in Attempts
      <4>1. queue'[p] \in Seq(Attempts)
        BY FrontTypesStep DEF FrontTypes, Lines
      <4>. QED
        BY <1>3, <4>1 DEF ToSet
    <3>2. ~Given(a) /\ phase'[a] = "idle" /\ (kind[a] \in {"pay", "check"} => CanBuildGate(settings[p]))
      BY <1>3, <2>2, <3>0, <3>1, NewIsFresh DEF vars
    <3>. QED
      BY <3>1, <3>2, Fixed DEF Given
  <2>. QED
    BY <2>1, <2>2
<1>. QED
  BY <1>1, <1>2, <1>3, UpMoves

LEMMA ShowKeepsGiven ==
  ASSUME FrontInv, NEW p \in Procs, NEW b \in Attempts, NEW s, s # "none", Turn(p, b), Show(p, b, s),
         NEW a \in Attempts, Given(a)
  PROVE  Given(a)'
<1>0. /\ queue \in Lines /\ queue[p] \in Seq(Attempts) /\ queue[p] # <<>> /\ b = Head(queue[p])
      /\ shown \in [Attempts -> {"none", "ok", "no", "error", "silent", "killed", "ended"}]
  BY DEF FrontInv, FrontTypes, Lines, Turn
<1>1. ToSet(queue[p]) = {b} \cup ToSet(Tail(queue[p]))
  BY <1>0, RemainingItems
<1>2. queue' = [queue EXCEPT ![p] = Tail(@)] /\ shown' = [shown EXCEPT ![b] = s]
  BY DEF Show
<1>3. CASE a = b
  BY <1>0, <1>2, <1>3 DEF Given
<1>4. CASE shown[a] # "none" /\ a # b
  BY <1>0, <1>2, <1>4 DEF Given
<1>5. ASSUME a # b, NEW q \in Procs, a \in ToSet(queue[q]) PROVE Given(a)'
  <2>1. a \in ToSet(queue'[q])
    BY <1>0, <1>1, <1>2, <1>5 DEF Lines
  <2>. QED
    BY <2>1 DEF Given
<1>. QED
  BY <1>3, <1>4, <1>5 DEF Given

\* A request that was given to a process is answered, lost, or still with it.
LEMMA GivenStays ==
  ASSUME FrontInv, [FrontNext]_allVars, NEW a \in Attempts, Given(a)
  PROVE  Given(a)'
<1>0. /\ queue \in Lines
      /\ shown \in [Attempts -> {"none", "ok", "no", "error", "silent", "killed", "ended"}]
  BY DEF FrontInv, FrontTypes
<1>1. CASE UNCHANGED <<queue, shown>>
  BY <1>1 DEF Given
<1>2. ASSUME NEW p \in Procs, Restarts(p) PROVE Given(a)'
  <2>1. CASE CloseServer(p)
    BY <1>1, <2>1 DEF CloseServer
  <2>2. ASSUME NEW b \in Attempts, CommandExits(p, b) \/ CommandAtOnce(p, b) PROVE Given(a)'
    <3>1. Turn(p, b) /\ \E s : s # "none" /\ Show(p, b, s)
      BY <2>2, ShownValues DEF CommandExits, CommandAtOnce
    <3>. QED
      BY <3>1, ShowKeepsGiven
  <2>. QED
    BY <1>2, <2>1, <2>2 DEF Restarts
<1>3. ASSUME NEW p \in Procs, NEW b \in Attempts, Shows(p, b) PROVE Given(a)'
  <2>1. Turn(p, b) /\ \E s : s # "none" /\ Show(p, b, s)
    BY <1>3, ShownValues DEF Shows, ServerReplies, ServerAtOnce
  <2>. QED
    BY <2>1, ShowKeepsGiven
<1>4. ASSUME NEW p \in Procs, Deaths(p) PROVE Given(a)'
  <2>1. \/ shown'[a] \in {"killed", "ended"}
        \/ a \notin ToSet(queue[p]) /\ shown'[a] = shown[a]
    BY <1>0, <1>4, DeathMoves DEF Die
  <2>2. queue' = [queue EXCEPT ![p] = <<>>]
    BY <1>4, DeathMoves DEF Die
  <2>. QED
    BY <1>0, <2>1, <2>2 DEF Given, Lines
<1>5. ASSUME NEW p \in Procs, NEW b \in Attempts, SendLine(p, b) PROVE Given(a)'
  <2>1. queue[p] \in Seq(Attempts) /\ queue' = [queue EXCEPT ![p] = Append(@, b)] /\ shown' = shown
    BY <1>0, <1>5 DEF SendLine, Lines
  <2>2. ToSet(Append(queue[p], b)) = ToSet(queue[p]) \cup {b}
    BY <2>1, AppendedItems
  <2>. QED
    BY <1>0, <2>1, <2>2 DEF Given, Lines
<1>6. ASSUME NEW p \in Procs, NEW b \in Attempts, Command(p, b) PROVE Given(a)'
  <2>1. queue[p] = <<>> /\ ToSet(queue[p]) = {}
    BY <1>6, OneItem DEF Command, FrontInv, Processes
  <2>2. \/ queue' = [queue EXCEPT ![p] = <<b>>] /\ shown' = shown
        \/ queue' = queue /\ shown' = [shown EXCEPT ![b] = "error"]
    BY <1>6 DEF Command
  <2>. QED
    BY <1>0, <2>1, <2>2 DEF Given, Lines
<1>. QED
  BY <1>1, <1>2, <1>3, <1>4, <1>5, <1>6, FrontActions, BeginMoves, GateStepMoves
     DEF Sign, LaunchServer, frontVars, allVars

LEMMA EnteredStep == FrontInv /\ [FrontNext]_allVars => AllEntered'
<1>. SUFFICES ASSUME FrontInv, [FrontNext]_allVars, NEW b \in Attempts
              PROVE  /\ phase'[b] # "idle" =>
                          /\ kind'[b] \in {"pay", "check"} /\ (token'[b] = NoToken <=> kind'[b] = "check")
                          /\ CanBuildGate(settings'[owner'[b]])
                          /\ Given(b)'
                     /\ phase'[b] = "done" =>
                          outcome'[b] # "none" /\ (outcome'[b] = "checked" => token'[b] = NoToken)
  BY DEF AllEntered, Entered, CanBuildGate, CanBuildInvoker, Problems, Acceptable
<1>0. IInv /\ Acted /\ Entered(b) /\ TypeOK
  BY FrontActs DEF FrontInv, AllEntered, IInv
<1>1. CASE phase[b] # "idle"
  <2>1. owner'[b] = owner[b] /\ token'[b] = token[b] /\ kind' = kind /\ settings' = settings
    BY <1>0, <1>1, Moves, Fixed
  <2>2. Given(b)'
    BY <1>0, <1>1, GivenStays DEF Entered
  <2>3. phase'[b] = "done" =>
          outcome'[b] # "none" /\ (outcome'[b] = "checked" => token'[b] = NoToken)
    BY <1>0, <2>1, Moves DEF Entered
  <2>. QED
    BY <1>0, <1>1, <2>1, <2>2, <2>3 DEF Entered
<1>2. ASSUME phase[b] = "idle", phase'[b] # "idle"
      PROVE  /\ kind'[b] \in {"pay", "check"} /\ (token'[b] = NoToken <=> kind'[b] = "check")
             /\ CanBuildGate(settings'[owner'[b]])
             /\ Given(b)' /\ phase'[b] # "done"
  <2>1. PICK p \in Procs, t \in MintedTokens \cup {NoToken, BadToken} : Begin(p, b, t)
    BY <1>2, OnlyBeginStarts
  <2>2. /\ Turn(p, b) /\ kind[b] \in {"pay", "check"} /\ (t = NoToken <=> kind[b] = "check")
        /\ owner'[b] = p /\ token'[b] = t /\ phase'[b] = "checking" /\ queue' = queue
        /\ kind' = kind /\ settings' = settings
    BY <1>0, <2>1, BeginMoves, Fixed DEF TypeOK, frontVars
  <2>3. queue[p] \in Seq(Attempts) /\ queue[p] # <<>> /\ b = Head(queue[p])
    BY <2>2 DEF Turn, FrontInv, FrontTypes, Lines
  <2>4. b \in ToSet(queue[p])
    BY <2>3, RemainingItems
  <2>5. CanBuildGate(settings[p])
    BY <2>2, <2>4 DEF FrontInv, Processes
  <2>6. Given(b)'
    BY <2>2, <2>4 DEF Given
  <2>. QED
    BY <2>2, <2>5, <2>6
<1>. QED
  BY <1>1, <1>2

\* A payout is sent by a process that approves under the approver's secret.
LEMMA SentUnderSecret ==
  ASSUME FrontInv, [FrontNext]_allVars, NEW b \in sent', b \notin sent
  PROVE  b \in Attempts /\ Approve(b) /\ ~Foreign(b)
<1>1. PICK a \in Attempts : GateStep(a)
  BY FrontActions, RestartIsCrash, DeathMoves, CrashMoves, BeginMoves
     DEF FrontInv, Sign, Mint, LaunchServer, SendLine, Command, Shows, ServerReplies, ServerAtOnce, allVars, vars
<1>2. Approve(a) /\ ~Foreign(a)
  BY <1>1 DEF GateStep, Answered, CheckAnswered, CheckFailed, PayoutAnswered, PayoutFailed, LogCheck,
              Finish, AppendFails, RejectApproval, RejectForeign
<1>3. a = b
  BY <1>2 DEF Approve
<1>. QED
  BY <1>2, <1>3

LEMMA SecretStep == FrontInv /\ [FrontNext]_allVars => SecretShared'
<1>. SUFFICES ASSUME FrontInv, [FrontNext]_allVars, NEW b \in sent'
              PROVE  settings'[owner'[b]].secret = ApproverSecret
  BY DEF SecretShared
<1>0. IInv /\ Acted /\ settings' = settings
  BY FrontActs, Fixed DEF FrontInv
<1>1. b \in Attempts /\ phase[b] # "idle" /\ settings[owner[b]].secret = ApproverSecret
  <2>1. CASE b \in sent
    BY <1>0, <2>1 DEF IInv, TypeOK, Standing, Stands, FrontInv, SecretShared
  <2>2. CASE b \notin sent
    BY <2>2, SentUnderSecret DEF Approve, Valid, Foreign
  <2>. QED
    BY <2>1, <2>2
<1>. QED
  BY <1>0, <1>1, Moves

\* Entries stay in the log, and an entry is of a call that has started.
LEMMA EntriesStay ==
  ASSUME IInv, Acted
  PROVE  /\ log \subseteq log'
         /\ \A e \in log' \ log :
              /\ e.attempt \in Attempts /\ phase'[e.attempt] # "idle"
              /\ e.event # "check" => outcome'[e.attempt] = OutcomeOf(e.event)
<1>0. TypeOK
  BY DEF IInv
<1>1. CASE \E a \in Attempts : RejectForeign(a)
  BY <1>1 DEF RejectForeign
<1>2. CASE [Next]_vars
  <2>1. log \subseteq log'
    BY <1>2, NothingTakenBack
  <2>2. ASSUME NEW e \in log' \ log
        PROVE  \E a \in Attempts :
                 /\ e.attempt = a
                 /\ \/ LogCheck(a) /\ e.event = "check"
                    \/ Finish(a) /\ e.event = event[a]
    <3>1. ASSUME NEW a \in Attempts, LogCheck(a) PROVE e.attempt = a /\ e.event = "check"
      BY <2>2, <3>1 DEF LogCheck
    <3>2. ASSUME NEW a \in Attempts, Finish(a) PROVE e.attempt = a /\ e.event = event[a]
      BY <2>2, <3>2 DEF Finish
    <3>3. ASSUME NEW a \in Attempts, AppendFails(a) PROVE UNCHANGED log
      BY <3>3 DEF AppendFails
    <3>. QED
      BY <1>2, <2>2, <3>1, <3>2, <3>3, Actions
         DEF vars, Mint, Start, CheckAnswered, CheckFailed, PayoutAnswered, PayoutFailed,
             Approve, RejectApproval, Crash, Tick
  <2>3. \A a \in Attempts : LogCheck(a) => phase'[a] # "idle"
    BY <1>0 DEF LogCheck, ToLog, TypeOK
  <2>4. \A a \in Attempts : Finish(a) => phase'[a] # "idle" /\ outcome'[a] = OutcomeOf(event[a])
    BY <1>0 DEF Finish, TypeOK
  <2>. QED
    BY <2>1, <2>2, <2>3, <2>4
<1>. QED
  BY <1>1, <1>2 DEF Acted

LEMMA LogTellsStep == FrontInv /\ [FrontNext]_allVars => LogTells'
<1>. SUFFICES ASSUME FrontInv, [FrontNext]_allVars, NEW e \in log'
              PROVE  /\ phase'[e.attempt] # "idle"
                     /\ e.event # "check" => outcome'[e.attempt] = OutcomeOf(e.event)
  BY DEF LogTells, OutcomeOf
<1>0. IInv /\ Acted
  BY FrontActs DEF FrontInv
<1>1. CASE e \in log
  <2>1. e.attempt \in Attempts /\ (e.event # "check" => phase[e.attempt] = "done")
    BY <1>0, <1>1 DEF IInv, TypeOK, LoggedIsDone
  <2>2. phase[e.attempt] # "idle" /\ (e.event # "check" => outcome[e.attempt] = OutcomeOf(e.event))
    BY <1>1 DEF FrontInv, LogTells
  <2>. QED
    BY <1>0, <2>1, <2>2, Moves
<1>2. CASE e \notin log
  BY <1>0, <1>2, EntriesStay
<1>. QED
  BY <1>1, <1>2

\* Whoever is newly shown a result or a refusal of a payment or a check is
\* shown that of the call that is over.
LEMMA ShownMoves ==
  ASSUME FrontInv, [FrontNext]_allVars, NEW b \in Attempts, kind[b] \in {"pay", "check"},
         shown'[b] \in {"ok", "no"}, shown'[b] # shown[b]
  PROVE  \/ \E p \in Procs : ServerReplies(p, b) /\ shown'[b] = ServerShows(b)
         \/ \E p \in Procs : CommandExits(p, b) /\ shown'[b] = CommandShows(b)
<1>. DEFINE Goal ==
       \/ \E p \in Procs : ServerReplies(p, b) /\ shown'[b] = ServerShows(b)
       \/ \E p \in Procs : CommandExits(p, b) /\ shown'[b] = CommandShows(b)
<1>0. shown \in [Attempts -> {"none", "ok", "no", "error", "silent", "killed", "ended"}]
  BY DEF FrontInv, FrontTypes
<1>1. ASSUME NEW p \in Procs, NEW a \in Attempts, ServerReplies(p, a) PROVE Goal
  <2>1. shown' = [shown EXCEPT ![a] = ServerShows(a)]
    BY <1>1 DEF ServerReplies, Show
  <2>2. a = b /\ shown'[b] = ServerShows(b)
    BY <1>0, <2>1
  <2>. QED
    BY <1>1, <2>2
<1>2. ASSUME NEW p \in Procs, NEW a \in Attempts, CommandExits(p, a) PROVE Goal
  <2>1. shown' = [shown EXCEPT ![a] = CommandShows(a)]
    BY <1>2 DEF CommandExits, Show
  <2>2. a = b /\ shown'[b] = CommandShows(b)
    BY <1>0, <2>1
  <2>. QED
    BY <1>2, <2>2
<1>3. ASSUME NEW p \in Procs, NEW a \in Attempts, ServerAtOnce(p, a) \/ CommandAtOnce(p, a)
      PROVE  Goal
  <2>1. AnswersAtOnce(a) # {} /\ \E s : shown' = [shown EXCEPT ![a] = s]
    BY <1>3 DEF ServerAtOnce, CommandAtOnce, Show
  <2>2. a # b
    BY <2>1, OutsideIsIdle
  <2>. QED
    BY <1>0, <2>1, <2>2
<1>4. ASSUME NEW p \in Procs, Deaths(p) PROVE Goal
  BY <1>4, DeathMoves DEF Die
<1>5. ASSUME NEW p \in Procs, NEW a \in Attempts, Command(p, a) PROVE Goal
  BY <1>0, <1>5 DEF Command
<1>6. ASSUME NEW p \in Procs, LaunchServer(p) \/ CloseServer(p) \/ \E a \in Attempts : SendLine(p, a)
      PROVE  Goal
  BY <1>6 DEF LaunchServer, CloseServer, SendLine
<1>. QED
  BY <1>1, <1>2, <1>3, <1>4, <1>5, <1>6, FrontActions, BeginMoves, GateStepMoves
     DEF Restarts, Shows, Sign, frontVars, allVars

LEMMA ShownStep == FrontInv /\ [FrontNext]_allVars => ShownTruly'
<1>. SUFFICES ASSUME FrontInv, [FrontNext]_allVars, NEW b \in Attempts,
                     kind'[b] \in {"pay", "check"}, shown'[b] \in {"ok", "no"}
              PROVE  /\ phase'[b] = "done"
                     /\ shown'[b] = IF owner'[b] \in Servers THEN ServerShows(b)' ELSE CommandShows(b)'
  BY DEF ShownTruly
<1>0. IInv /\ Acted /\ kind' = kind
  BY FrontActs, Fixed DEF FrontInv
<1>1. ASSUME phase[b] = "done"
      PROVE  /\ phase'[b] = "done" /\ owner'[b] = owner[b]
             /\ ServerShows(b)' = ServerShows(b) /\ CommandShows(b)' = CommandShows(b)
  <2>1. phase'[b] = "done" /\ owner'[b] = owner[b] /\ outcome'[b] = outcome[b] /\ decision'[b] = decision[b]
    BY <1>0, <1>1, Moves
  <2>. QED
    BY <2>1 DEF ServerShows, CommandShows
<1>2. CASE shown'[b] = shown[b]
  BY <1>0, <1>1, <1>2 DEF FrontInv, ShownTruly
<1>3. CASE shown'[b] # shown[b]
  <2>0. ASSUME NEW p \in Procs, Turn(p, b), phase[b] = "done" PROVE owner[b] = p
    <3>1. queue[p] \in Seq(Attempts) /\ queue[p] # <<>> /\ b = Head(queue[p])
      BY <2>0 DEF Turn, FrontInv, FrontTypes, Lines
    <3>2. b \in ToSet(queue[p])
      BY <3>1, RemainingItems
    <3>. QED
      BY <2>0, <3>2 DEF FrontInv, Processes
  <2>1. ASSUME NEW p \in Procs, ServerReplies(p, b), shown'[b] = ServerShows(b)
        PROVE  phase[b] = "done" /\ owner[b] \in Servers
    BY <2>0, <2>1 DEF ServerReplies
  <2>2. ASSUME NEW p \in Procs, CommandExits(p, b), shown'[b] = CommandShows(b)
        PROVE  phase[b] = "done" /\ owner[b] \notin Servers
    BY <2>0, <2>2 DEF CommandExits
  <2>3. /\ phase[b] = "done"
        /\ shown'[b] = IF owner[b] \in Servers THEN ServerShows(b) ELSE CommandShows(b)
    BY <1>0, <1>3, <2>1, <2>2, ShownMoves
  <2>. QED
    BY <1>1, <2>3
<1>. QED
  BY <1>2, <1>3

\* What the log tells as spent stays spent.
LEMMA SpentStays ==
  ASSUME IInv, Acted
  PROVE  LoggedPaid \subseteq LoggedPaid'
<1>. SUFFICES ASSUME NEW e \in log, e.event = "paid"
              PROVE  e \in log' /\ token'[e.attempt] = token[e.attempt]
  BY DEF LoggedPaid
<1>1. e.attempt \in Attempts /\ phase[e.attempt] = "done"
  BY DEF IInv, LoggedIsDone, TypeOK
<1>. QED
  BY <1>1, EntriesStay, Moves

\* A process that looks, or pays, knows no less than before.
LEMMA KnowsMore ==
  ASSUME FrontInv, [FrontNext]_allVars, NEW p \in Procs
  PROVE  cache'[p] = cache[p] \/ cache'[p] = Unread \/ KnownSpent(p) \subseteq cache'[p]
<1>. DEFINE Goal == cache'[p] = cache[p] \/ cache'[p] = Unread \/ KnownSpent(p) \subseteq cache'[p]
<1>0. cache \in [Procs -> {Unread} \cup SUBSET Nonces] /\ IInv
  BY DEF FrontInv, IInv, TypeOK
<1>1. CASE UNCHANGED cache
  BY <1>1
<1>2. ASSUME NEW q \in Procs, Restarts(q) \/ Deaths(q) PROVE Goal
  BY <1>0, <1>2, RestartIsCrash, DeathMoves, CrashMoves
<1>3. ASSUME NEW a \in Attempts, GateStep(a) PROVE Goal
  <2>1. \/ cache' = cache
        \/ cache' = [cache EXCEPT ![owner[a]] = KnownSpent(owner[a])]
        \/ cache' = [cache EXCEPT ![owner[a]] = KnownSpent(owner[a]) \cup {token[a].nonce}]
    BY <1>3 DEF GateStep, Answered, CheckAnswered, CheckFailed, PayoutAnswered, PayoutFailed, LogCheck,
                Finish, AppendFails, Approve, RejectApproval, RejectForeign
  <2>. QED
    BY <1>0, <2>1
<1>. QED
  BY <1>1, <1>2, <1>3, FrontActions, BeginMoves
     DEF Sign, Mint, LaunchServer, SendLine, Command, Shows, ServerReplies, ServerAtOnce, allVars, vars

\* What a process was started with is noted when it starts, and forgotten when it ends.
LEMMA NoteMoves ==
  ASSUME FrontInv, [FrontNext]_allVars, NEW p \in Procs
  PROVE  \/ spentBefore'[p] = spentBefore[p]
         \/ spentBefore'[p] = {}
         \/ spentBefore'[p] = LoggedPaid /\ cache'[p] = Unread
<1>. DEFINE Goal ==
         \/ spentBefore'[p] = spentBefore[p]
         \/ spentBefore'[p] = {}
         \/ spentBefore'[p] = LoggedPaid /\ cache'[p] = Unread
<1>0. spentBefore \in [Procs -> SUBSET Nonces]
  BY DEF FrontInv, FrontTypes
<1>1. CASE UNCHANGED spentBefore
  BY <1>1
<1>2. ASSUME NEW q \in Procs, q \notin up, Run(q), UNCHANGED vars PROVE Goal
  <2>1. cache' = cache /\ cache[q] = Unread
    BY <1>2 DEF vars, FrontInv, Processes
  <2>. QED
    BY <1>0, <1>2, <2>1 DEF Run
<1>3. ASSUME NEW q \in Procs, Restarts(q) PROVE Goal
  BY <1>0, <1>3, RestartIsCrash DEF Exit
<1>4. ASSUME NEW q \in Procs, Deaths(q) PROVE Goal
  BY <1>0, <1>4, DeathMoves DEF Die
<1>. QED
  BY <1>1, <1>2, <1>3, <1>4, FrontActions, BeginMoves, GateStepMoves
     DEF Sign, LaunchServer, SendLine, Command, Shows, ServerReplies, ServerAtOnce, frontVars, allVars

LEMMA SnapshotsStep == FrontInv /\ [FrontNext]_allVars => Snapshots'
<1>. SUFFICES ASSUME FrontInv, [FrontNext]_allVars, NEW p \in Procs
              PROVE  /\ spentBefore'[p] \subseteq LoggedPaid'
                     /\ cache'[p] # Unread => spentBefore'[p] \subseteq cache'[p]
  BY DEF Snapshots
<1>1. LoggedPaid \subseteq LoggedPaid'
  BY FrontActs, SpentStays DEF FrontInv
<1>2. /\ spentBefore[p] \subseteq LoggedPaid
      /\ cache[p] # Unread => spentBefore[p] \subseteq cache[p]
      /\ spentBefore[p] \subseteq KnownSpent(p)
  BY DEF FrontInv, Snapshots, KnownSpent
<1>. QED
  BY <1>1, <1>2, KnowsMore, NoteMoves

LEMMA InitFrontInv == FrontInit => FrontInv
<1>. SUFFICES ASSUME FrontInit PROVE FrontInv
  OBVIOUS
<1>1. IInv
  BY InitIInv DEF FrontInit
<1>2. FrontTypes
  <2>1. kind \in [Attempts -> Kinds]
    BY FrontEndAssumption DEF FrontInit
  <2>2. <<>> \in Seq(Attempts)
    BY EmptySeq
  <2>. QED
    BY <2>1, <2>2 DEF FrontInit, FrontTypes, Lines
<1>3. AtWork /\ Processes
  BY OneItem DEF FrontInit, Init, AtWork, Active, Processes
<1>4. AllEntered /\ SecretShared /\ LogTells
  BY DEF FrontInit, Init, AllEntered, Entered, SecretShared, LogTells
<1>5. ShownTruly /\ Snapshots
  BY DEF FrontInit, Init, ShownTruly, Snapshots, LoggedPaid
<1>. QED
  BY <1>1, <1>2, <1>3, <1>4, <1>5 DEF FrontInv
-----------------------------------------------------------------------------
\* The inductive invariant of the front ends, over that of the gate: whose turn
\* it is, what entered the gate and under which settings, what was shown and
\* what a process was started with (mcp.ts, cli.ts, config.ts).
THEOREM FrontInvariance == FrontSpec => []FrontInv
<1>1. FrontInv /\ [FrontNext]_allVars => FrontInv'
  BY FrontActs, ActedKeeps, FrontTypesStep, AtWorkStep, ProcessesStep, EnteredStep, SecretStep,
     LogTellsStep, ShownStep, SnapshotsStep DEF FrontInv
<1>. QED
  BY <1>1, InitFrontInv, PTL DEF FrontSpec

\* A process set up with another secret than the approver's, or with settings
\* that lack something, never sends a payout (config.ts:45-88, approval.ts:156-162).
THEOREM SharedSecret == FrontSpec => []OnlySharedSecretPays
<1>1. FrontInv => OnlySharedSecretPays
  <2>. SUFFICES ASSUME FrontInv, NEW a \in sent
                PROVE  LET s == settings[owner[a]] IN
                         s.secret = ApproverSecret /\ Problems(s) = {} /\ s.apiKey = "set"
    BY DEF OnlySharedSecretPays
  <2>1. a \in Attempts /\ phase[a] # "idle"
    BY DEF FrontInv, IInv, TypeOK, Standing, Stands
  <2>2. CanBuildGate(settings[owner[a]])
    BY <2>1 DEF FrontInv, AllEntered, Entered
  <2>. QED
    BY <2>2 DEF FrontInv, SecretShared, CanBuildGate, CanBuildInvoker
<1>. QED
  BY <1>1, FrontInvariance, PTL

\* What a client is shown of a payment is what the log and the payouts say, by
\* a server or a command (mcp.ts:192-195, cli.ts:186).
THEOREM Answers == FrontSpec => []AnswersAreTrue
<1>1. FrontInv => AnswersAreTrue
  <2>. DEFINE Logged(a, events) == \E e \in log : e.attempt = a /\ e.event \in events
  <2>. SUFFICES ASSUME FrontInv, NEW a \in Attempts
                PROVE  LET server == owner[a] \in Servers IN
                  /\ kind[a] = "pay" /\ shown[a] = "ok" =>
                       a \in sent /\ Logged(a, IF server THEN {"paid", "upstream_error"} ELSE {"paid"})
                  /\ kind[a] = "pay" /\ shown[a] = "no" =>
                       /\ Logged(a, {"refused", "approval_rejected", "upstream_error"})
                       /\ ~Logged(a, {"paid"}) /\ (server => ~Logged(a, {"upstream_error"}))
                  /\ kind[a] # "pay" => a \notin sent
                  /\ kind[a] \notin {"pay", "check"} => ~Logged(a, Events)
    BY DEF AnswersAreTrue
  <2>0. /\ IInv /\ Entered(a) /\ TypeOK
        /\ \A e \in log : e.attempt = a /\ e.event # "check" => outcome[a] = OutcomeOf(e.event)
        /\ \A e \in log : e.attempt = a => phase[a] # "idle"
        /\ \A e \in log : e.event \in Events
    BY DEF FrontInv, AllEntered, LogTells, IInv, TypeOK
  <2>1. ASSUME kind[a] = "pay", shown[a] \in {"ok", "no"}
        PROVE  /\ outcome[a] \in {"paid", "upstream_error", "refused", "error"}
               /\ shown[a] = IF owner[a] \in Servers
                             THEN CASE outcome[a] = "error" -> "error"
                                    [] outcome[a] = "refused" -> "no"
                                    [] OTHER -> "ok"
                             ELSE CASE outcome[a] = "error" -> "error"
                                    [] outcome[a] = "paid" -> "ok"
                                    [] OTHER -> "no"
    <3>1. /\ phase[a] = "done"
          /\ shown[a] = IF owner[a] \in Servers THEN ServerShows(a) ELSE CommandShows(a)
      BY <2>1 DEF FrontInv, ShownTruly
    <3>2. token[a] # NoToken /\ outcome[a] \notin {"none", "checked"}
      BY <2>0, <2>1, <3>1 DEF Entered
    <3>3. outcome[a] \in {"paid", "upstream_error", "refused", "error"}
      BY <2>0, <3>2 DEF TypeOK, Outcomes
    <3>. QED
      BY <3>1, <3>3 DEF ServerShows, CommandShows
  <2>2. ASSUME outcome[a] \in {"paid", "upstream_error", "refused"}
        PROVE  \E e \in log : /\ e.attempt = a /\ e.event \in FinalEvents
                              /\ OutcomeOf(e.event) = outcome[a]
                              /\ e.event \in {"paid", "upstream_error"} => a \in sent
    BY <2>0, <2>2 DEF IInv, LogMatchesOutcomes, Events
  <2>3. /\ \A e \in FinalEvents :
             /\ OutcomeOf(e) = "paid" <=> e = "paid"
             /\ OutcomeOf(e) = "upstream_error" <=> e = "upstream_error"
             /\ OutcomeOf(e) = "refused" <=> e \in {"refused", "approval_rejected"}
    BY DEF OutcomeOf, FinalEvents
  <2>4. ASSUME kind[a] = "pay", shown[a] = "ok"
        PROVE  a \in sent /\ Logged(a, IF owner[a] \in Servers THEN {"paid", "upstream_error"} ELSE {"paid"})
    <3>1. outcome[a] \in IF owner[a] \in Servers THEN {"paid", "upstream_error"} ELSE {"paid"}
      BY <2>1, <2>4
    <3>. QED
      BY <2>2, <2>3, <3>1
  <2>5. ASSUME kind[a] = "pay", shown[a] = "no"
        PROVE  /\ Logged(a, {"refused", "approval_rejected", "upstream_error"})
               /\ ~Logged(a, {"paid"}) /\ (owner[a] \in Servers => ~Logged(a, {"upstream_error"}))
    <3>1. outcome[a] \in IF owner[a] \in Servers THEN {"refused"} ELSE {"refused", "upstream_error"}
      BY <2>1, <2>5
    <3>2. Logged(a, {"refused", "approval_rejected", "upstream_error"})
      BY <2>2, <2>3, <3>1
    <3>3. ~Logged(a, {"paid"}) /\ (owner[a] \in Servers => ~Logged(a, {"upstream_error"}))
      BY <2>0, <2>3, <3>1 DEF FinalEvents
    <3>. QED
      BY <3>2, <3>3
  <2>6. kind[a] # "pay" => a \notin sent
    BY <2>0 DEF Entered, IInv, Standing, Stands, OnlyApprovedIsSent, MintedTokens
  <2>7. kind[a] \notin {"pay", "check"} => ~Logged(a, Events)
    BY <2>0 DEF Entered
  <2>. QED
    BY <2>4, <2>5, <2>6, <2>7
<1>. QED
  BY <1>1, FrontInvariance, PTL

\* A fresh process sends no payout on a nonce that the log held as spent when it
\* was started: it reads the log before its first, or read it since
\* (audit.ts:90-121).
THEOREM LaunchRemembers == FrontSpec => LaunchForgetsNothing
<1>1. FrontInv /\ [FrontNext]_allVars =>
        [\A a \in sent' \ sent : token[a].nonce \notin spentBefore[owner[a]]]_allVars
  <2>. SUFFICES ASSUME FrontInv, [FrontNext]_allVars, NEW a \in sent' \ sent
                PROVE  token[a].nonce \notin spentBefore[owner[a]]
    OBVIOUS
  <2>1. a \in Attempts /\ Approve(a)
    BY SentUnderSecret
  <2>2. owner[a] \in Procs /\ token[a].nonce \notin KnownSpent(owner[a])
    BY <2>1 DEF Approve, FrontInv, IInv, Standing, Stands
  <2>3. spentBefore[owner[a]] \subseteq KnownSpent(owner[a])
    BY <2>2 DEF FrontInv, Snapshots, KnownSpent
  <2>. QED
    BY <2>2, <2>3
<1>. QED
  BY <1>1, FrontInvariance, PTL DEF FrontSpec, LaunchForgetsNothing
=============================================================================

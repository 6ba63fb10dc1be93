----------------------------- MODULE PaymentGate -----------------------------
(***************************************************************************)
(* The agent's payment gate (agent/src/gate.ts) with the approval tokens   *)
(* it verifies (agent/src/approval.ts) and the audit log it writes and     *)
(* reads spent nonces from (agent/src/audit.ts).                           *)
(*                                                                         *)
(* Several agent processes (a CLI, an MCP server) share one log file.  A   *)
(* process handles one call at a time (mcp.ts:232-245) and every await in  *)
(* it is a point where other processes, the clock or a crash may step in.  *)
(* The enclave answers as it likes: VendorGuard joins the gate to the       *)
(* contract.  An attempt is one call of pay, or of check alone.            *)
(*                                                                         *)
(* An intent stands for vendor, amount, currency and memo up to what the   *)
(* token's binding ignores (case of the currency, white space around the    *)
(* memo).  The MAC is taken as unforgeable: a token that verifies was       *)
(* minted.                                                                 *)
(***************************************************************************)
EXTENDS Integers, FiniteSets

CONSTANTS
  Procs,        \* agent processes
  Attempts,     \* calls of pay or check, each made at most once
  Intents,      \* what a payment may be for
  Nonces,       \* one per minted token
  Nobody,       \* "not started by any process yet"
  NoToken,      \* presented by a check; also "not minted"
  BadToken,     \* a token that is malformed or fails its MAC
  Unread,       \* a nonce cache that has not been filled
  AllowReview,  \* AGENT_ALLOW_REVIEW
  MaxTtl,       \* AGENT_MAX_APPROVAL_TTL_SECS
  Skew,         \* how far in the future a token may be issued (60 s)
  TtlChoices,   \* lifetimes the approver asks for
  AheadChoices, \* by how much the approver's clock may run ahead
  MaxTime       \* bound on the clock

ASSUME GateAssumption ==
  /\ AllowReview \in BOOLEAN
  /\ MaxTtl \in Nat /\ Skew \in Nat /\ MaxTime \in Nat
  /\ TtlChoices \subseteq Nat \ {0}
  /\ AheadChoices \subseteq Nat
  /\ Nobody \notin Procs
  /\ \A S \in SUBSET Nonces : S # Unread

VARIABLES
  clock,     \* the agent hosts' time
  minted,    \* per nonce: the token the approver signed, or NoToken
  phase,     \* per attempt: where its call stands
  owner,     \* per attempt: the process that runs it
  intent,    \* per attempt: the payment asked for
  token,     \* per attempt: the approval presented
  decision,  \* per attempt: the pre-flight's decision
  event,     \* per attempt: the final entry it is about to log
  outcome,   \* per attempt: what its caller was told
  cache,     \* per process: the spent nonces it knows of, or Unread
  log,       \* the entries of the audit log
  torn,      \* the log holds a partly written line
  sent       \* the attempts for which payout was invoked

callVars == <<owner, intent, token>>
vars == <<clock, minted, phase, owner, intent, token, decision, event, outcome,
          cache, log, torn, sent>>

Phases == {"idle", "checking", "log_check", "verifying", "paying", "logging", "done", "dead"}
Decisions == {"none", "allow", "review", "deny"}
FinalEvents == {"paid", "upstream_error", "refused", "approval_rejected", "transport_error"}
Events == {"check"} \cup FinalEvents
Outcomes == {"none", "checked", "paid", "upstream_error", "refused", "error"}

Tokens == [nonce : Nonces, intent : Intents, issuedAt : Nat, expiresAt : Nat]

Init ==
  /\ clock = 0
  /\ minted = [n \in Nonces |-> NoToken]
  /\ phase = [a \in Attempts |-> "idle"]
  /\ owner = [a \in Attempts |-> Nobody]
  /\ intent \in [Attempts -> Intents]
  /\ token = [a \in Attempts |-> NoToken]
  /\ decision = [a \in Attempts |-> "none"]
  /\ event = [a \in Attempts |-> "none"]
  /\ outcome = [a \in Attempts |-> "none"]
  /\ cache = [p \in Procs |-> Unread]
  /\ log = {}
  /\ torn = FALSE
  /\ sent = {}

-----------------------------------------------------------------------------
(* Approval.                                                                *)

MintedTokens == {minted[n] : n \in Nonces} \ {NoToken}

\* The approver signs a token for one intent under a fresh nonce.
Mint(n, i, ttl, ahead) ==
  /\ minted[n] = NoToken
  /\ minted' = [minted EXCEPT ![n] =
       [nonce |-> n, intent |-> i, issuedAt |-> clock + ahead, expiresAt |-> clock + ahead + ttl]]
  /\ UNCHANGED <<clock, phase, callVars, decision, event, outcome, cache, log, torn, sent>>

\* Everything verifyApproval checks before it asks whether the nonce is spent.
\* Variant: the binding to the intent is left out.
ValidForAny(t, i) ==
  /\ t \in MintedTokens
  /\ t.expiresAt > clock
  /\ t.issuedAt <= clock + Skew
  /\ t.expiresAt - t.issuedAt <= MaxTtl

Valid(t, i) ==
  /\ t \in MintedTokens
  /\ t.expiresAt > clock
  /\ t.issuedAt <= clock + Skew
  /\ t.expiresAt - t.issuedAt <= MaxTtl
  /\ t.intent = i

\* The spent nonces as the log tells them; only a paid entry spends one.
LoggedPaid == {token[e.attempt].nonce : e \in {x \in log : x.event = "paid"}}

-----------------------------------------------------------------------------
(* The calls.                                                               *)

Active(a) == phase[a] \notin {"idle", "done", "dead"}

\* pay(intent, token), or check(intent) when no token comes along.
Start(p, a, t) ==
  /\ phase[a] = "idle"
  /\ \A b \in Attempts : owner[b] = p => ~Active(b)
  /\ t \in MintedTokens \cup {NoToken, BadToken}
  /\ owner' = [owner EXCEPT ![a] = p]
  /\ token' = [token EXCEPT ![a] = t]
  /\ phase' = [phase EXCEPT ![a] = "checking"]
  /\ UNCHANGED <<clock, minted, intent, decision, event, outcome, cache, log, torn, sent>>

\* Leave a call by way of one last log entry.
ToLog(a, e) ==
  /\ phase' = [phase EXCEPT ![a] = "logging"]
  /\ event' = [event EXCEPT ![a] = e]

CheckAnswered(a, d) ==
  /\ phase[a] = "checking"
  /\ phase' = [phase EXCEPT ![a] = "log_check"]
  /\ decision' = [decision EXCEPT ![a] = d]
  /\ UNCHANGED <<clock, minted, callVars, event, outcome, cache, log, torn, sent>>

\* The invoker throws: the transport failed, or the contract returned an error.
CheckFailed(a) ==
  /\ phase[a] = "checking"
  /\ ToLog(a, "transport_error")
  /\ UNCHANGED <<clock, minted, callVars, decision, outcome, cache, log, torn, sent>>

\* The pre-flight stops a payment that is denied, or under review when the
\* agent may not let reviews through.
Blocked(a) == decision[a] = "deny" \/ (decision[a] = "review" /\ ~AllowReview)

\* The check entry is appended; a payment goes on, a check is over.
LogCheck(a) ==
  /\ phase[a] = "log_check"
  /\ log' = log \cup {[attempt |-> a, event |-> "check"]}
  /\ \/ /\ token[a] = NoToken
        /\ phase' = [phase EXCEPT ![a] = "done"]
        /\ outcome' = [outcome EXCEPT ![a] = "checked"]
        /\ UNCHANGED event
     \/ /\ token[a] # NoToken /\ Blocked(a)
        /\ ToLog(a, "refused")
        /\ UNCHANGED outcome
     \/ /\ token[a] # NoToken /\ ~Blocked(a)
        /\ phase' = [phase EXCEPT ![a] = "verifying"]
        /\ UNCHANGED <<event, outcome>>
  /\ UNCHANGED <<clock, minted, callVars, decision, cache, torn, sent>>

\* Variant: the cache is never filled from the log.
KnownSpentCacheOnly(p) == IF cache[p] = Unread THEN {} ELSE cache[p]

\* What the nonce store of a process answers from: the log is read the first
\* time only.
KnownSpent(p) == IF cache[p] = Unread THEN LoggedPaid ELSE cache[p]

\* The nonce store has to read the log and cannot: readAll throws on a bad line.
LogUnreadable(p) == cache[p] = Unread /\ torn

\* verifyApproval succeeds, and payout is invoked.
Approve(a) ==
  LET p == owner[a] IN
  /\ phase[a] = "verifying"
  /\ Valid(token[a], intent[a])
  /\ ~LogUnreadable(p)
  /\ token[a].nonce \notin KnownSpent(p)
  /\ cache' = [cache EXCEPT ![p] = KnownSpent(p)]
  /\ phase' = [phase EXCEPT ![a] = "paying"]
  /\ sent' = sent \cup {a}
  /\ UNCHANGED <<clock, minted, callVars, decision, event, outcome, log, torn>>

\* verifyApproval throws, for whatever reason.
RejectApproval(a) ==
  LET p == owner[a] IN
  /\ phase[a] = "verifying"
  /\ \/ /\ ~Valid(token[a], intent[a]) \/ LogUnreadable(p)
        /\ UNCHANGED cache
     \/ /\ Valid(token[a], intent[a]) /\ ~LogUnreadable(p)
        /\ token[a].nonce \in KnownSpent(p)
        /\ cache' = [cache EXCEPT ![p] = KnownSpent(p)]
  /\ ToLog(a, "approval_rejected")
  /\ UNCHANGED <<clock, minted, callVars, decision, outcome, log, torn, sent>>

\* Variant: the whole token is remembered, and no nonce equals it.
PayoutAnsweredKeepsToken(a, status) ==
  /\ phase[a] = "paying"
  /\ cache' = IF status = "paid"
              THEN [cache EXCEPT ![owner[a]] = KnownSpent(owner[a]) \cup {token[a]}]
              ELSE cache
  /\ ToLog(a, status)
  /\ UNCHANGED <<clock, minted, callVars, decision, outcome, log, torn, sent>>

\* payout returns a status; a paid nonce is remembered at once, in memory.
PayoutAnswered(a, status) ==
  /\ phase[a] = "paying"
  /\ cache' = IF status = "paid"
              THEN [cache EXCEPT ![owner[a]] = KnownSpent(owner[a]) \cup {token[a].nonce}]
              ELSE cache
  /\ ToLog(a, status)
  /\ UNCHANGED <<clock, minted, callVars, decision, outcome, log, torn, sent>>

\* The invoker throws: no answer, an error of the contract, a malformed answer.
PayoutFailed(a) ==
  /\ phase[a] = "paying"
  /\ ToLog(a, "transport_error")
  /\ UNCHANGED <<clock, minted, callVars, decision, outcome, cache, log, torn, sent>>

OutcomeOf(e) ==
  CASE e \in {"paid", "upstream_error"} -> e
    [] e \in {"refused", "approval_rejected"} -> "refused"
    [] e = "transport_error" -> "error"

\* Variant: the caller is answered without waiting for the append.
FinishUnlogged(a) ==
  /\ phase[a] = "logging"
  /\ phase' = [phase EXCEPT ![a] = "done"]
  /\ outcome' = [outcome EXCEPT ![a] = OutcomeOf(event[a])]
  /\ UNCHANGED <<clock, minted, callVars, decision, event, cache, log, torn, sent>>

\* The last entry is appended, then the caller is answered.
Finish(a) ==
  /\ phase[a] = "logging"
  /\ log' = log \cup {[attempt |-> a, event |-> event[a]]}
  /\ phase' = [phase EXCEPT ![a] = "done"]
  /\ outcome' = [outcome EXCEPT ![a] = OutcomeOf(event[a])]
  /\ UNCHANGED <<clock, minted, callVars, decision, event, cache, torn, sent>>

\* An append fails (the disk is full, the file is read-only), perhaps half-way
\* through its line: the call throws, the process lives on.
AppendFails(a) ==
  /\ phase[a] \in {"log_check", "logging"}
  /\ phase' = [phase EXCEPT ![a] = "done"]
  /\ outcome' = [outcome EXCEPT ![a] = "error"]
  /\ torn' \in {torn, TRUE}
  /\ UNCHANGED <<clock, minted, callVars, decision, event, cache, log, sent>>

\* A process dies and starts again: its call is lost, its cache is empty, and a
\* line it was writing may be left half written.
Crash(p) ==
  LET lost == {a \in Attempts : owner[a] = p /\ Active(a)} IN
  /\ phase' = [a \in Attempts |-> IF a \in lost THEN "dead" ELSE phase[a]]
  /\ cache' = [cache EXCEPT ![p] = Unread]
  /\ torn' \in {torn, torn \/ \E a \in lost : phase[a] \in {"log_check", "logging"}}
  /\ UNCHANGED <<clock, minted, callVars, decision, event, outcome, log, sent>>

Tick ==
  /\ clock < MaxTime
  /\ clock' = clock + 1
  /\ UNCHANGED <<minted, phase, callVars, decision, event, outcome, cache, log, torn, sent>>
-----------------------------------------------------------------------------
\* An answer of the enclave, whatever it is.
Answered(a) ==
  \/ \E d \in Decisions \ {"none"} : CheckAnswered(a, d)
  \/ CheckFailed(a)
  \/ \E s \in {"paid", "upstream_error", "refused"} : PayoutAnswered(a, s)
  \/ PayoutFailed(a)

\* What the process does on its own.
Local(a) == LogCheck(a) \/ Approve(a) \/ RejectApproval(a) \/ Finish(a) \/ AppendFails(a)

Next ==
  \/ \E n \in Nonces, i \in Intents, ttl \in TtlChoices, ahead \in AheadChoices :
       Mint(n, i, ttl, ahead)
  \/ \E p \in Procs, a \in Attempts :
       \E t \in MintedTokens \cup {NoToken, BadToken} : Start(p, a, t)
  \/ \E a \in Attempts : Answered(a) \/ Local(a)
  \/ \E p \in Procs : Crash(p)
  \/ Tick

Spec == Init /\ [][Next]_vars
-----------------------------------------------------------------------------
TypeOK ==
  /\ clock \in 0 .. MaxTime
  /\ minted \in [Nonces -> Tokens \cup {NoToken}]
  /\ phase \in [Attempts -> Phases]
  /\ owner \in [Attempts -> Procs \cup {Nobody}]
  /\ intent \in [Attempts -> Intents]
  /\ token \in [Attempts -> Tokens \cup {NoToken, BadToken}]
  /\ decision \in [Attempts -> Decisions]
  /\ event \in [Attempts -> FinalEvents \cup {"none"}]
  /\ outcome \in [Attempts -> Outcomes]
  /\ cache \in [Procs -> {Unread} \cup SUBSET Nonces]
  /\ log \subseteq [attempt : Attempts, event : Events]
  /\ torn \in BOOLEAN
  /\ sent \subseteq Attempts

\* payout is only ever invoked for a payment that the pre-flight let through
\* under the agent's setting, with a token the approver signed for exactly that
\* intent and with a lifetime the agent accepts (ARCHITECTURE.md:44-45).
OnlyApprovedIsSent ==
  \A a \in sent :
    /\ decision[a] = "allow" \/ (decision[a] = "review" /\ AllowReview)
    /\ token[a] \in MintedTokens
    /\ token[a].intent = intent[a]
    /\ token[a].expiresAt <= token[a].issuedAt + MaxTtl

\* The log and the answers agree: a caller told anything but an error, and any
\* caller told of a payment, finds the entry of it in the log, and the log
\* claims a payment only for an attempt that was sent.  An attempt that was sent
\* left an entry before, which a crash does not take away (ARCHITECTURE.md:47-48):
\* it may be no more than its check.
LogMatchesOutcomes ==
  /\ \A a \in Attempts : outcome[a] \in {"paid", "upstream_error", "refused"} =>
       \E e \in log : e.attempt = a /\ e.event # "check" /\ OutcomeOf(e.event) = outcome[a]
  /\ \A e \in log :
       /\ e.event \in {"paid", "upstream_error"} => e.attempt \in sent
       /\ e.event = "approval_rejected" => e.attempt \notin sent
  /\ \A a \in sent : \E e \in log : e.attempt = a

\* A process never pays twice on one approval: once it has told a caller that a
\* token's payment was made, it sends no payout with that token again, not even
\* after it has crashed and started over (audit.ts:90-121).
NoReplayByProcess ==
  [][\A a \in sent' \ sent, b \in Attempts :
       (owner[a] = owner[b] /\ outcome[b] = "paid") => token[a].nonce # token[b].nonce]_vars

\* README.md:85-86: "Single use. The nonce is spent in the audit log; replaying
\* the token is refused and the bank is never called."
SpentTokenIsNeverSent ==
  [][\A a \in sent' \ sent, b \in Attempts :
       outcome[b] = "paid" => token[a].nonce # token[b].nonce]_vars
=============================================================================

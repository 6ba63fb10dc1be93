----------------------------- MODULE VendorGuard -----------------------------
(***************************************************************************)
(* The system: agent processes with their gate, the enclave contract, the   *)
(* approver and the vendor.  An attempt whose approval verifies invokes     *)
(* payout; on an error, of the contract or on the way, the invoker may      *)
(* invoke it a second time, under the same input.  The network between them *)
(* may hold an invocation back, and may lose its answer: the caller then     *)
(* sees an error, and the second invocation may be made, while the first is *)
(* still to run, is running, or has ended.                                  *)
(* A caller may try again with the same approval, from any process.         *)
(***************************************************************************)
EXTENDS Integers, FiniteSets

CONSTANTS
  \* the agent's side
  Procs, Attempts, Intents, Nonces, Nobody, NoToken, BadToken, Unread,
  AllowReview, MaxTtl, Skew, TtlChoices, AheadChoices, MaxTime,
  \* the enclave's side
  U64Max, Currencies, Countries, DefaultPolicy, NoVendor, Unset, LastDay,
  VendorIds, UnsafeId, BadCurrency, BadRef, Damaged, VendorRecords, OverrideRecords

VARIABLES
  clock, minted, phase, owner, intent, token, decision, event, outcome,
  cache, log, torn, sent,
  retried,  \* the sent attempts for which payout was invoked a second time
  registry, overrides, hasKey, spend, day, stage, at, seen, result, bank

gateVars == <<clock, minted, phase, owner, intent, token, decision, event, outcome,
              cache, log, torn, sent>>
enclaveVars == <<registry, overrides, hasKey, spend, day, stage, at, seen, result, bank>>
vars == <<gateVars, retried, enclaveVars>>

Gate == INSTANCE PaymentGate

\* The payout input the gate builds: the intent, and a reference made of the
\* token's approver and nonce (a token without one never gets that far).
RequestOf(i, t) ==
  [vendor |-> i.vendor, amount |-> i.amount, currency |-> i.currency, memo |-> i.memo,
   ref |-> IF t \in {NoToken, BadToken} THEN BadRef ELSE t.nonce]

\* An invocation is an attempt's first or second try at payout.
Tries == Attempts \X {1, 2}

requests == [i \in Tries |-> RequestOf(intent[i[1]], token[i[1]])]

Contract == INSTANCE EnclaveContract
  WITH Invs <- Tries, Refs <- Nonces,
       Requests <- {[vendor |-> i.vendor, amount |-> i.amount, currency |-> i.currency,
                     memo |-> i.memo, ref |-> n] : i \in Intents, n \in Nonces \cup {BadRef}},
       phase <- stage, req <- requests

\* What a system that can be run has: the gate's settings, a last day, and values
\* for "no token", "a bad one" and "a reference that is too long" that are none of
\* the values they are told from.
ASSUME SystemAssumption ==
  /\ Gate!GateAssumption
  /\ LastDay \in Nat
  /\ {NoToken, BadToken} \cap Gate!Tokens = {}
  /\ \A i \in Intents :
       NoToken # [vendor |-> i.vendor, amount |-> i.amount, currency |-> i.currency]

Init == Gate!Init /\ retried = {} /\ Contract!Init
-----------------------------------------------------------------------------
(* Steps of one side alone.                                                 *)

GateAlone ==
  /\ \/ \E n \in Nonces, i \in Intents, ttl \in TtlChoices, ahead \in AheadChoices :
          Gate!Mint(n, i, ttl, ahead)
     \/ \E p \in Procs, a \in Attempts :
          \E t \in Gate!MintedTokens \cup {NoToken, BadToken} : Gate!Start(p, a, t)
     \/ \E a \in Attempts : Gate!Local(a)
     \/ \E p \in Procs : Gate!Crash(p)
  /\ UNCHANGED <<retried, enclaveVars>>

ContractAlone ==
  /\ UNCHANGED <<gateVars, retried>>
  /\ \/ \E i \in Tries : Contract!Step(i) \/ Contract!ReadFails(i)
     \/ \E v \in VendorIds : Contract!WriteVendor(v)
     \/ Contract!Midnight
-----------------------------------------------------------------------------
(* Calls and answers.                                                       *)

\* check-payout reads the map and judges, at one moment.  It keeps nothing.
Check(a) ==
  LET r == requests[<<a, 1>>] IN
  /\ Contract!WellFormed([r EXCEPT !.ref = CHOOSE n \in Nonces : TRUE])
  /\ Contract!Readable(r, day)
  /\ Gate!CheckAnswered(a, Contract!Verdict(r, day))
  /\ UNCHANGED <<retried, enclaveVars>>

\* The invocations that were made: of each sent payout one, and of some another.
Invoked == {<<a, 1>> : a \in sent} \cup {<<a, 2>> : a \in retried}

\* An invocation arrives, however late.
Deliver(i) ==
  /\ i \in Invoked
  /\ UNCHANGED <<gateVars, retried>>
  /\ Contract!Call(i)

\* An error reaches the invoker, of the contract or of anything on the way, and
\* its text, which no one is kept from wording so, passes for a stale version:
\* whatever became of the first invocation, the version is resolved again and
\* payout invoked once more.
Retry(a) ==
  /\ phase[a] = "paying" /\ a \notin retried
  /\ retried' = retried \cup {a}
  /\ UNCHANGED <<gateVars, enclaveVars>>

\* The try the invoker waits for.
Current(a) == IF a \in retried THEN <<a, 2>> ELSE <<a, 1>>

\* Variants: an answer with no reference or of an unknown status counts as paid;
\* an error of the contract is taken for a refusal.
AnswerTrusted(a) ==
  LET res == result[Current(a)] IN
  /\ res \in {"paid", "upstream_error", "refused", "error"}
  /\ Gate!PayoutAnswered(a, IF res = "error" THEN "paid" ELSE res)
  /\ UNCHANGED <<retried, enclaveVars>>
AnswerErrorAsRefusal(a) ==
  LET res == result[Current(a)] IN
  /\ res \in {"paid", "upstream_error", "refused", "error"}
  /\ Gate!PayoutAnswered(a, IF res = "error" THEN "refused" ELSE res)
  /\ UNCHANGED <<retried, enclaveVars>>

\* The contract's answer reaches the gate.
Answer(a) ==
  /\ result[Current(a)] \in {"paid", "upstream_error", "refused"}
  /\ Gate!PayoutAnswered(a, result[Current(a)])
  /\ UNCHANGED <<retried, enclaveVars>>

\* The contract answered with an error, or no answer reaches the gate: nothing
\* is known of the invocation then.
NoAnswer(a) ==
  /\ Gate!CheckFailed(a) \/ Gate!PayoutFailed(a)
  /\ UNCHANGED <<retried, enclaveVars>>

Next ==
  \/ GateAlone \/ ContractAlone
  \/ \E i \in Tries : Deliver(i)
  \/ \E a \in Attempts : Check(a) \/ Retry(a) \/ Answer(a) \/ NoAnswer(a)

Spec == Init /\ [][Next]_vars
-----------------------------------------------------------------------------
\* End to end, the system implements its promise to the approver: no transfer
\* without an approval for exactly that vendor, amount and currency, at most one
\* a day however often and from wherever it is retried, no "paid" before it.
Promise == INSTANCE ApprovedPayments
  WITH Approvals <- Nonces, Days <- 0 .. LastDay, NotApproved <- NoToken,
       Payments <- {[vendor |-> i.vendor, amount |-> i.amount, currency |-> i.currency] :
                      i \in Intents},
       approved <- [n \in Nonces |->
                      IF minted[n] = NoToken THEN NoToken
                      ELSE [vendor   |-> minted[n].intent.vendor,
                            amount   |-> minted[n].intent.amount,
                            currency |-> minted[n].intent.currency]],
       transfers <- {[approval |-> k.ref, day |-> k.day,
                      payment |-> [vendor |-> k.vendor, amount |-> k.amount,
                                   currency |-> k.currency]] : k \in bank},
       receipts <- {token[a].nonce : a \in {b \in Attempts : outcome[b] = "paid"}}
ImplementsApprovedPayments == Promise!Spec

\* A caller told "refused" can rely on it, unless the invoker tried twice: the
\* one invocation made for it has ended in a refusal, or there is none, so that
\* nothing made for it moves money then or later.
RefusedOnceMovesNothing ==
  \A a \in Attempts : outcome[a] = "refused" /\ a \notin retried =>
    \/ a \notin sent /\ stage[<<a, 1>>] = "idle"
    \/ result[<<a, 1>>] = "refused"

\* gate.ts:37-40: the reasons a caller is given are populated when the money did
\* not move.  Whoever is told "refused", no invocation made for it was paid.
RefusedMovesNothing ==
  \A i \in Tries : outcome[i[1]] = "refused" => result[i] # "paid"

\* The ledgers agree: a payment the agent's log calls paid, the invocation the
\* gate waited for was counted by the enclave, and the vendor moved its money.
LoggedPaymentsAreCounted ==
  \A e \in log : e.event = "paid" =>
    /\ result[Current(e.attempt)] = "paid"
    /\ Contract!Key(Current(e.attempt)) \in bank

\* agent/src/approver.ts:32 and README.md:343: a token is a bearer credential
\* "for one payment".  However often a call is retried on it after a timeout,
\* the vendor moves the money of one approval once.
OneTransferPerApproval ==
  \A j, k \in bank : j.ref = k.ref => j = k
=============================================================================

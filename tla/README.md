# Vendor guard: a verification project

TLA+ models of the vendor-payment guard in this repository: an AI agent may ask
for payouts to registered vendors, an enclave contract decides and pays, and a
human signs each payment with an approval token. The models are written from the
source (`contract/src`, `agent/src`), from the owner's tool that sets a tenant up
to the exit code a client acts on. TLC checks them on small instances; TLAPS
proves, for all values of the constants, every safety property the passing runs
check, and that the contract and the whole system implement their abstract
specifications. `PROJECT.json` lists the runs, the mutations each property is
known to catch, the source lines of every definition, the hazards and the theorems.

## The system

| Component | State | Operations | Interacts with |
| --- | --- | --- | --- |
| Policy engine `contract/src/policy.rs` | none, pure | `evaluate`, `tightened_with`, `intent_ref` | called by the contract |
| Contract `contract/src/api.rs`, `lib.rs` | none between calls | `payout`, `check-payout`, `get-policy` | store, host clock, vendor's HTTP endpoint |
| Store `contract/src/store.rs` | the tenant's maps: vendors, overrides, one spend counter a day, the vendor API key | typed reads, `add_daily_spent` | host key-value store, shared with every invocation and the tenant |
| Day keys `contract/src/dates.rs` | none | `civil_from_days`, `day_key` | spend key, idempotency key |
| Payment gate `agent/src/gate.ts` | nonce store | `check`, `pay`, `getPolicy` | contract (through the invoker), audit log |
| Approval tokens `agent/src/approval.ts` | none | `mintApproval`, `verifyApproval` | minted by the approver's tool, verified by the gate |
| Audit log `agent/src/audit.ts` | one file, shared by processes; a nonce cache per process | `append`, `readAll`, `usedNonces`, `isUsed`, `remember` | gate, CLI |
| Invoker `agent/src/invoker.ts` | cached contract version | `invoke` with one retry on a stale version | the node's API |
| Answer checks `agent/src/validate.ts` | none | reject answers of a wrong shape | invoker |
| MCP server `agent/src/mcp.ts` | none | one JSON-RPC message at a time | gate |
| CLI, configuration `cli.ts`, `config.ts` | the environment a process is started under | one call per process, an exit code | gate |
| Approver's tool `approver.ts` | the approver's secret | mint one token | |
| Administration `admin.ts` | none; what it sets up is the tenant's | register, create maps, add vendor, seed key, show | tenant's maps and their access lists |
| Host interfaces `contract/wit` | external | key-value store, clock, HTTP | contract |
| `e2e.ts`, `tools/`, tests, documents | none | | |

**What is hard here.** Payouts run concurrently and each is judged by a counter
it grows only after an HTTP call. The vendor may move the money and the answer
may be lost, at the vendor's side or between enclave and agent. The tenant
writes the maps, and midnight falls, between any two steps. Several agent
processes share one log file, each with a cache of spent nonces it fills once; a
crash loses a call at any await and may leave half a line. Callers retry, and the
invoker does once by itself. The owner may register the contract again while
agents go on calling the version they hold.

**What makes each component correct.**

* Policy: an override never loosens; nothing in it is ignored silently; what is
  not denied fits the caps in true arithmetic; more spending never makes a
  verdict milder.
* Contract and store: a day's counter stays within the cap, equals the payouts
  reported paid, closes the day when it is damaged; no transfer is reported as a
  refusal; the compiled-in limits bound every transfer.
* Gate, tokens and log: only a payment that was judged, approved and bound is
  sent; the log says what the caller was told; no process replays.
* Front ends: what a client is shown is true; settings that went apart fail
  closed; a fresh process knows every payment made before it; every request is
  answered.
* Setup and invoker: a cached version is not used past its lifetime; only one
  contract ever pays; setup can be repeated after a failure; a garbled answer is
  never taken for another one.
* Day keys: one day, one key, for every day of the calendar.
* The whole: money moves only on an approval, for what it says, once per day; a
  "paid" is the truth, and a "refused" is, unless the invoker tried twice
  (`paid_then_refused` shows what happens then).

## Modules

| Module | Models | Role |
| --- | --- | --- |
| `PayoutPolicy` | `policy.rs` | operators, no state |
| `PolicyDay` | one request judged while the day's ledger grows | state machine; extends `PayoutPolicy` |
| `EnclaveContract` | `payout` in `api.rs`, `store.rs`, the tenant's writes, the clock | state machine; extends `PayoutPolicy` and `CivilDates` |
| `DailyBudget` | | abstract specification of the day's counters |
| `CivilDates` | `dates.rs` | operators, no state |
| `PaymentGate` | `gate.ts`, `approval.ts`, `audit.ts` | state machine with several processes |
| `FrontEnds` | `mcp.ts`, `cli.ts`, `config.ts`, the secret of `approver.ts` | extends `PaymentGate` with the processes around it |
| `VendorGuard` | calls and answers between gate and contract, the invoker's second try, `check_payout` | composes two instances |
| `ApprovedPayments` | | abstract specification of the whole system |
| `TenantAdmin` | `admin.ts` | the owner's steps, instantiated by `Deployment` |
| `SdkInvoker` | `invoker.ts`, `validate.ts` | the agent's steps, instantiated by `Deployment` |
| `Deployment` | the two side by side, `get_policy`, `read_all_vendors`, what a contract can read | composes two instances |
| `MC...` | | constants for TLC |
| `PayoutPolicy_proofs`, `PolicyDay_proofs`, `EnclaveContract_proofs`, `PaymentGate_proofs`, `FrontEnds_proofs`, `VendorGuard_proofs`, `Deployment_proofs` | | theorems about the module of that name |
| `Arithmetic_proofs` | | theorems about sums and about `CivilDates` |

Operators commented *Variant* are wrong versions of the definition they stand
next to. Nothing uses them: each is what a plausible bug would look like, and
`PROJECT.json` names the property that notices it.

### PayoutPolicy and PolicyDay

The reasons of `evaluate` are a set of codes; `Decision` is its last lines with
`is_deny_code`. Amounts are `0 .. U64Max` and `Saturate` stands for
`saturating_add` and `saturating_mul`. A currency or a country stands for its
ASCII case class (the code compares with `eq_ignore_ascii_case`). A memo is
absent, blank after trimming, or text. `Ignored` is the set of entries for which
`tightened_with` writes a note.

`PolicyDay` holds an override, a vendor and a request fixed while other payouts
are counted: `Effective` is `effective_policy`, `Verdict` what `payout` and
`check_payout` make of it, and `Spend` any growth of the counter (`add_daily_spent`
adds and saturates, it never lowers).

### EnclaveContract

| Model | Code |
| --- | --- |
| `registry`, `overrides`, `hasKey`, `spend` | `vendor/<id>`, `policy/overrides`, `vendor_api_key`, `spend/<day>` |
| `phase` called, `at` | the transaction has begun, its clock is pinned; map not read yet (api.rs:200-213) |
| `seen` | the counter the payout was judged by, part of what the transaction has read |
| `phase` egress | judged and not denied, POST not answered (253-295) |
| `phase` accepted | 2xx, counter not written (316-319) |
| `Reject`, `ReadFails` | every `Err` before the POST |
| `Refuse` | the structured refusal (227-251) |
| `Admit` | the request is built with the idempotency key (253-293) |
| `PostAccepted`, `PostRefused`, `PostFails` | 2xx, another status, error of the call |
| `Count`, `CountFails` | `add_daily_spent` and the commit, and their failures |
| `bank` | the keys under which the vendor moved money |

The three map reads and the judgement are one step: what a transaction has read of
its counter counts at the commit only, and the vendor record and the overrides are
read once each, so that any order of the reads among the tenant's writes has its
like among the orders of whole steps. `at[i]` is a day number. `DamageCounter` is a
value `read_daily_spent` cannot parse; no code writes one, and none repairs one.

Assumed from outside the repository:

* an invocation is an optimistic transaction, as the host's interface has it
  (`host-interfaces-2.1.0/package.wit` 328-330, 344, 577-579): it commits only if no
  other has written the counter it read, which is the guard `ReadDailySpent(at[i]) =
  seen[i]` of `Count`. A lost commit is `CountFails`: the post was made, the caller
  is given an error, and the host does not run the function again. A tenant's
  write in between is let through, the more permissive reading;
* the clock of an invocation is set when its transaction begins (package.wit:328-330);
* two posts with one `Idempotency-Key` move the money once, and `intent_ref` is
  injective on what it hashes.

The comment at store.rs:114-116 has the host serialise instead. Such a host shows
those behaviours of the model in which no two payouts of a day overlap, so that
every safety property that is proved here holds for it too. What the comment
promises beyond, that two payouts are never judged by one counter and together pass
the cap, is listed among the differences below: the counter stays within the cap,
the money that left need not.

### CivilDates

`CivilFromDays` is the arithmetic of `civil_from_days`, line by line; `DayAfter`
is the calendar as people know it. `CountersFollowCalendar`, in `EnclaveContract`,
compares the two for the days a run reaches and for all 146,097 days of a cycle;
`Arithmetic_proofs` does for every integer.

### PaymentGate

An attempt is one call of `pay` or, without a token, of `check`. Each await of
`gate.ts` is a phase, so other processes, the clock and crashes come in between:
`checking` (check-payout), `log_check`, `verifying`, `paying` (payout),
`logging` (the last append). `cache[p]` is `AuditNonceStore.#cache`: `Unread`
until the first `isUsed` or `remember`. `log` is the set of entries and `torn`
says that the file holds a line that does not parse, upon which `readAll` throws: a
crash or a failed append can leave half a line, and the entry appended next shares
it. From then on the log is one for people, `log` being what was written, and no
process can fill its cache any more.
A process handles one call at a time (mcp.ts:232-245; a CLI process makes one).
Answers of the contract are arbitrary here.

An intent stands for what the token's binding distinguishes; the MAC is taken as
unforgeable, so a token verifies exactly when it was minted. Reading the log
inside `verifyApproval` and sending the invocation are one step: the read-to-send
gap inside one process is not interleaved with other processes, which can only
make replays across processes rarer than in the code; they are found anyway
(`single_use`), and none of the gate's passing properties is about them.

### VendorGuard

The gate and the contract share the variables of an attempt: invocation `a` of
the contract is the one attempt `a` sent. `Check` answers the pre-flight from the
contract's state at one moment. `Deliver` starts the invocation at any time after
it was sent, also after the caller gave up or its process died. `NoAnswer` is an
error at the gate, whatever the invocation did or will do. The gate's reference
is the nonce.

`Retry` is the second call of `invoke`. The text that is matched (`version` with `not
found`, `unknown` or `mismatch`) can stand in an error of the contract, of the node
or of the connection, so it can be taken whatever the first invocation did: it may
still be to run, be running, be paid, or have failed. `Current` is the invocation
whose answer the caller is given. A retry that cannot resolve a version is one
whose second invocation is never delivered.

Left out of the composition to keep it small: the token's clock, which
`PaymentGate` alone covers, and tenant writes other than vendors, which
`EnclaveContract` alone covers.

### FrontEnds

| Model | Code |
| --- | --- |
| `settings[p]` | the environment a process is started under; `Problems` is the list `loadConfig` reports |
| `Configured`, `Command`, `LaunchServer` | where `main` builds the gate (`buildGate`), or does not |
| `queue[p]` | the lines on a server's input, or the one call of a command |
| `kind[a]` | what a line or a command asks for; `invalid` is anything that fails its argument checks, `null` the JSON value |
| `Begin` ... `Answer` | `handleMessage` and the commands of `main`, around the gate's own steps |
| `shown[a]` | `isError` or the JSON-RPC error; the exit code (0, 1, more) |
| `RejectForeign` | a token whose MAC was made with another secret |
| `Die` | the process ends with requests unanswered, `killed` from outside (`Kill`) or `ended` by a line (`ServerDies`) |

A front end changes nothing in the gate: every step is one of `PaymentGate` or
leaves its variables alone, except that a process that ends forgets its cache and
a foreign token is rejected. Queued lines stay in order.

### TenantAdmin, SdkInvoker, Deployment

| Model | Code |
| --- | --- |
| `latest` | the contract id `register` got last; versions are named by it |
| `acl[m]` | the one id in `writers` and `readers` of a map, both set to the same |
| `job` | the loop of `create-maps`, between its two maps |
| `ParseFlags`, `Need`, `Accepts`, `VendorOf` | `add-vendor` from `argv` to the record |
| `cached`, `stamp`, `version` | `#cachedVersion`, the `now` of `#version`, the version resolved |
| `pc` | the awaits of `invoke`: resolve, resolved, call, invoked |
| `Validated` | the three checks of `validate.ts`, by field |
| `Run` | the contract of that version runs, with what its id may read |
| `VendorKeys`, `Scanned` | `read_all_vendors` and its limit |

Texts on a command line are model values with a form (three letters, `https://`);
a vendor id has a length, a first and a rest. What limits judge is left to the
other modules: a verdict for an active vendor may be any of the three.

`create-maps` may be given any positive number (`OwnerStep`), also one that was not
printed, or not yet.

Assumed from outside the repository: a map whose access list does not name the
caller reads as empty (docs/HANDOVER.md:43-44); the node resolves to the version
registered last, may go on serving older ones, and may fail. The process's clock
never goes back, which `BoundedStaleness` needs.

## Runs

| Run | Question | Instance | States |
| --- | --- | --- | --- |
| `policy` | Does tightening ever loosen; does what is allowed fit? | every override, vendor and intent from values on both sides of each limit; a ledger that grows past the cap, or in one step to the largest integer | 272 k |
| `contract_ledger` | Is the day's counter right under concurrency and failure, and named after the right day? | 3 payouts, 2 days, 7 requests: two that fit the cap together only once, and at most one of five on the wrong side of a check; overrides stricter and looser than the build; 400 years | 690 k |
| `gate_tokens` | Is only an approved payment sent; do log and answers agree; can one process replay? | 2 processes, 2 attempts, 2 intents, 1 token, 3 moments, good and bad lifetimes and clocks | 2.0 M |
| `system` | Does everything together keep the promise to the approver, and tell callers the truth? | 1 process, 2 attempts, a second try in one of them, 1 token, 2 intents, 2 days | 479 k |
| `front_ends` | Is what a client is shown true, and is it shown something? | 1 server and commands, 2 requests of six combinations, 3 pairs of settings | 486 k |
| `deployment` | Do setup, versions and answers fit together over a tenant's life? | 2 registrations, right and wrong ids, 3 vendor texts, 8 command lines, cache lifetime 2, 3 moments | 1.4 M |

and six runs that show a statement of the repository's documents is not what
the code does:

| Run | Statement | What happens |
| --- | --- | --- |
| `single_use` | README.md:85-86: a spent token never reaches the bank | process A fills its cache, process B pays with the token, A sends payout with it again; within a day the idempotency key saves the money |
| `retry_past_midnight` | approver.ts:32, README.md:343: a token is for one payment | a timed-out payment is retried on the next UTC day under another key |
| `paid_then_refused` | gate.ts:37-40: reasons are given when the money did not move | the first try is paid, an error makes the invoker try again, and the second try is refused |
| `null_line` | mcp.ts:223-226: malformed input does not crash the server | a line that holds `null` ends it, and the line behind it is never answered |
| `republish` | docs/HANDOVER.md:44-45: after a re-publish, run `create-maps` again and check `show` | both succeed; the maps still admit the old id only, and the new contract reads nothing |
| `vendors_omitted` | store.rs:77-79: a listing that omits a vendor silently is worse than an error | past the scan limit vendors are omitted silently |

What the daily cap does not cover: money the vendor moved under an answer that was
lost, not 2xx or not counted (`docs/THREAT-MODEL.md:92-97` accepts that).
`UncountedMoneyIsUnclear` says that there is no other gap, and
`TransfersAreReported` that such a transfer is never reported as refused.

What holds of `republish`: `OneContractPays`. The new contract finds no vendors
and denies; it does not pay by the compiled-in limits. What holds of `single_use`:
`LaunchForgetsNothing`, for every payment that was logged before the process began.
What holds of `paid_then_refused`: `RefusedOnceMovesNothing`, for every call that was
not tried twice, and `ImplementsApprovedPayments`, whatever was tried: a second
try on the same day moves no money twice. What holds of `null_line`:
`EveryRequestAnswered`, as long as no line holds `null`.

Differences between words and code that no run is spent on:

* store.rs:114-116 ("two concurrent payouts cannot both read the same 'before'
  value and each conclude they fit under the cap") against the optimistic
  transactions of `package.wit`: two payouts of a day that are judged by one counter
  are both posted and one of them is counted. `UncountedMoneyIsUnclear` holds: the
  other is answered with an error.
* invoker.ts:82-83 (a version bump "is the one failure that is worth retrying once")
  against the match on the text of any error: both tries of one call may be counted
  against the day's cap, while the money moves once.
* docs/ARCHITECTURE.md:47-48 ("a crash between step 7 and step 9 leaves a record that
  the attempt happened"): what is left is the check entry, the same one a mere check
  writes. `LogMatchesOutcomes` says that this much is always there.
* README.md:398-400 ("Refusals are results, not errors") and the comment at
  mcp.ts:192-194 against the `isError` that mcp.ts:195 sets for a refusal.
* mcp.ts:132-136 (no reply to a notification) against a `tools/call` without an id,
  which is carried out and answered.
* admin.ts:243 ("the contract enforces the same rule") against a contract that also
  takes upper case, dots, and ids of 1 or 64 characters.
* An `upstream_error` is no error to a client of the server and exit code 1 to one of
  the command line; `get-policy` accepts an answer without its vendors as one with
  none (validate.ts:97).

**Bounds.** Three payouts are enough for two that compete and a third that meets
the counter they left; two days for midnight; two attempts in two processes for a
cache that is filled, made stale and used, or lost in a crash. Caps are scaled
to small numbers (single 3, daily 4, amounts 2 and 3), so that one payout fits
and two exceed. `LastDay`, `MaxTime`, `MaxNow`, `MaxId` and the sets of attempts
and invocations are the bounds on behaviours in the modules. Two runs bound the
states further, by a `CONSTRAINT`. `contract_ledger` (`OneBadInput`): at most one of
the payouts is asked for what will not do, and only before midnight; the other two
are the ones it could disturb. `system` (`Bounded`): one of the two calls at most is
tried twice, which leaves a second try against another caller's payment; no line of
the log is torn, which `gate_tokens` has; and of a call for another payment, a
registry that is empty or written, and a midnight, one at most comes up in a
behaviour, the midnight once an invocation has begun. The theorems have neither bound. An attempt is used once: a
caller's retry is another attempt, the invoker's the second try of the same.
`system` has one process, whose attempts follow one another at the gate while
their invocations overlap in the enclave; what two processes do to each other is
in `gate_tokens`, `single_use` and `front_ends`. In `front_ends` the clock stands
and there is one approval, since what tokens and clocks do is in `gate_tokens`; the
requests are pairs, of which the first can spend the token, end the server or be
turned away before the second comes. In `deployment` two registrations make one old and one
new version, the lifetime of the cache spans the whole clock or part of it, and
the vendor texts lie on both sides of the two rules for an id. `policy` stops where
the ledger's values end, and `front_ends` where every request is answered and the
processes have ended, which is why deadlock is not checked there.

**Symmetry** is over invocations, attempts, processes and tokens, and only in
runs without liveness.

**Fairness.** `EveryRequestAnswered` and `EveryLineAnswered` assume weak fairness of
what a process does next with the request it is at: the event loop goes on, and an
invocation ends with an answer or an error. Starting processes, sending requests,
minting and dying are not fair: a client may be left without an answer by a kill,
which the properties count as an end, while a line that ends its own server is none.

## Proofs

Checked by TLAPS for all constants that satisfy the modules' assumptions, which TLC
evaluates on the runs' instances:

* `PolicyAssumption`: the policy is one of u64 limits with a daily cap below the
  largest u64, true of the compiled-in 1,000,000.
* `DayAssumption`, `ContractAssumption`: records, overrides and requests are of
  their types; a damaged counter is no number; a currency has not the name of a
  limit. `Invs` is finite, since a ledger is a sum: any number of payouts, but not
  infinitely many.
* `GateAssumption`, `DeploymentAssumption`: bounds are numbers, a cached version
  lives for some time, and the values that stand for "not read", "no map",
  "failed" and the like are none of the values they are told from.
* `SystemAssumption`: those of the gate, and that "no token" is no token and no
  payment.
* `TextAssumption`: command lines are sequences of texts and flags; upper-casing
  three capitals changes nothing; if two dots follow each other, the second is
  past the first character. These say that the few properties a model value has
  are those of some text.

`PayoutPolicy_proofs`: `TightenedIsStricter` (field by field), then
`StricterJudgesAsStrictly`: a stricter policy keeps every denial
(`StricterKeepsDenials`) and every review, unless it denies
(`StricterKeepsReviews`, where the work is that a lowered cap keeps an amount
near it or puts it above: `NearSurvivesLowering`). Together `OverrideNeverLoosens`.
`LargerLedgerJudgesAsStrictly` is the same for a ledger that grows
(`NearSurvivesGrowth`): a sum that saturates stays above the cap.
`NotDeniedFits`: a sum that passes the saturated comparison is the true sum.

`PolicyDay_proofs` puts them to the state machine: `DayTypes` is the invariant, and
with it `Tightening`, `FitsCaps` and `OverrideHeeded` follow from these lemmas and
`NeverMilder`, an action property, from the growth of the ledger in each step.

`Arithmetic_proofs` holds what the ledgers and the day keys need of numbers. The
community modules define a sum over a set as a fold in an order `CHOOSE` picks, and
neither the theorems about folds nor induction can be applied here (they take
operators as parameters), so each fact about sums is shown by contradiction: a
smallest finite set for which it fails (`Smallest`) loses one element and is no
longer a counterexample. The order does not matter (`SumFromAny`), and one weight
that grows makes the sum grow by as much (`SumWithOneChanged`).
The calendar: a year counted from March begins on the day `YearStart`; of the years
of a cycle that begin at or before a day, and whose next begins after it, there is
one (`YearUnique`, since `YearStart` grows by 365 or 366, `YearLength`), and the
code's divisions find it (`YearFound`); the same for months (`MonthFound`). Hence
`DatesFollow` (the date of day z + 1 is the calendar's next after that of z),
`DatesDiffer` and `OneKeyPerDay`, for all integers.

`EnclaveContract_proofs`: `DailyCapHolds` is not inductive, since `Count` adds an
amount that was judged long before. The invariant is

    IInv == TypeOK /\ DailyCapHolds /\ Judged

where `Judged` says that a payout on its way fits the counter *it was judged by*.
`Admit` establishes it (`JudgedFits`: the verdict, by `NotDeniedFits` and
`TightenedIsStricter`, whatever the overrides), nothing touches `seen` afterwards
(`JudgedStep`), and `Count` uses it up: it commits only while the counter is
the one that was seen, so the sum is within the cap and never saturates
(`CountGrows`). From `Invariance`:

* `TypeCorrect`, `DailyCap`; `DamagedCounterStops`, an action
  property (a closed day is closed for good); `TransferLimits`, with the further
  invariant that whatever is on its way or was moved is within the compiled-in
  limits and for a vendor in the registry, which no write takes out of it.
* `Ledger`: the counter is the sum of the receipts. `Count` is the only step that
  changes one weight, by the amount it adds, and the counter does not saturate
  since it is the one the payout was judged by.
* `Reporting`, with `ReportedInv`: whoever moved money is in phase accepted or
  ended in an answer that admits it, and stays so (`OwnsUpStays`).
* `MoneyAccountedFor`: the property compares what the vendor moved with the counter
  and *all* unclear payouts; that does not survive a step, since a payout can be
  unclear without having moved anything. `MoneyCovered` counts only those whose key
  the vendor knows, so that a post moves both sides at once. `Count` takes a payout
  from one side to the other; several payouts with one key cover more than moved.
* `Calendar`, from `Arithmetic_proofs`.
* `Refinement`: `Spec => Budget!Spec`, each `Count` a `Pay`, each damaged counter a
  `Close`, everything else a stutter.

`PaymentGate_proofs`: what the gate promises depends on where a call stands, so the
invariant keeps, next to `TypeOK`, `OnlyApprovedIsSent` and `LogMatchesOutcomes`,
`Standing` (a call that is verified has a pre-flight that did not block it; one
that is paying was sent, one that was rejected was not), `CheckedFirst` (a call that is
verified has its check in the log), `LoggedIsDone` (a call
appends its last entry once, so an entry never meets a later outcome) and
`Remembered` (a process that has seen a payment succeed has the nonce in its
cache, unless it died since; a cache is only read, never emptied, while it lives).
`Remembered` is what `NoReplay` needs: the process that told of a payment either
still knows the nonce, or has to read it from the log, where it is by
`LogMatchesOutcomes`. From `Invariance`: `TypeCorrect`, `Approval`,
`LogAgreement`, and the action property `NoReplay`.

`FrontEnds_proofs`: a front end's step is one of the gate's or leaves it alone, but
for a process that dies and a token of another secret, so `FrontInv` contains the
gate's invariant, and these two steps are shown to keep it. On top of that it says
whose turn it is (`AtWork`: the call a process is in is the head of its queue, and
`Processes`: a request is in one queue only, and a server that runs could build a
gate), what entered (`Entered`), that who sent a payout holds the approver's secret
(`SecretShared`, since `Approve` is only for tokens that are not foreign), that the
last log entry of a call is the outcome its caller was given (`LogTells`), and that
the log and a filled cache contain what was spent before the process began
(`Snapshots`). From `FrontInvariance`: `SharedSecret`; `Answers`, from `ShownTruly`,
which fixes what a client was shown, and `LogMatchesOutcomes`; `LaunchRemembers`.

`VendorGuard_proofs`: every step of the system is a step of the gate or none
(`GateWithin`), so what is proved of the gate holds in the system without another
proof. `SysInv` adds the other side: a try that has begun is of a call that was sent,
and a second one of a call that was sent again, whatever the first did
(`TriesInOrder`); money that moved was for a
minted token and for what it says, and has moved where the contract says so
(`MoneyApproved`); what the caller is told is the answer of the last try
(`ToldWhatHappened`). From `Invariance`: `RefusedIsFinal` (for calls tried once; for
the others it is false), `LedgersAgree`, and
`Refinement`, the promise of `ApprovedPayments`: `Mint` approves, a post with a new
key transfers, the step in which a caller is told "paid" is a receipt, everything
else stutters. That no approval is used for two transfers on one day is in the key:
reference and day determine it, because the approval determines the rest.

`Deployment_proofs`: parts, each inductive with the help of the first.
`SetupInv`: a map that exists admits an id that `create-maps` was given, and the
running command is past only maps that exist; with `AccessIsFixed` (no step
changes the list of a map that exists) it gives `SetupCompletes` and, since only a
contract that reads both maps posts (`PostsReads`), `OnePayer`. `VersionInv`: a
cached or resolved version was current at the time it is stamped with, and the
stamp is not before the call began; registering supersedes a version *now*, which
is not before any stamp. From it `StaleNoLongerThanTheCache`. `Usable`: the last
value of a flag on a command line is a text (`ParsedText`), a text that passes the
tool's two patterns passes the contract's rule (`RegistrableIsUsable`), and nothing
but `add-vendor` and a hand that damages it writes a record (`Writers`). `TypesHold`
is the invariant of the agent's side; with it `AnswersPass`: what the contract says
to a call is one of the answers of that function (`Spoken`), and every such
answer passes its own checks (`AnswerPasses`).

**Only model-checked:** the liveness property `EveryRequestAnswered` (fairness and
`ENABLED` are out of the prover's reach). The statements of the six other runs are
false, so there is nothing to prove. Every
invariant and action property of the passing runs is proved.

## Not modelled, and the plan

| Step | Module | What for |
| --- | --- | --- |
| done | `PayoutPolicy`, `EnclaveContract`, `DailyBudget` | the money and the cap: the most important behaviour |
| done | `PaymentGate` | approval, log, processes |
| done | `VendorGuard`, `ApprovedPayments` | end to end |
| done | `CivilDates` | `civil_from_days` against the calendar |
| done | `FrontEnds` | server, commands, settings, what clients are shown |
| done | `TenantAdmin`, `SdkInvoker`, `Deployment` | setup, registrations, versions, answers, `get-policy` |
| done | `PolicyDay`, the `_proofs` modules | every safety property of the passing runs, the two refinements, the calendar |
| next | `FrontEnds_proofs` | the servers and commands as an implementation of the gate, for a gate that lets a process refuse any token |
| then | `PaymentGate_proofs`, `VendorGuard_proofs` | what remains of the refuted statements under a condition: single use for one process at a time, one transfer per approval within a day, a refusal after a second try within a day of a first that never ran |

Not modelled: the approver's tool beyond the token it prints (its argument checks
end it before it signs); the tenant session of `admin.ts:96-124`, SDK calls that
succeed or end the command; a change of settings while a process runs, since the
code reads them at the start only; `e2e.ts`, which calls the same functions in a row.

Left out for good: JSON and JSON-RPC encoding, printing,
the bytes of tokens and hashes, wording of reasons and logs, host placeholders in
the payout body, the web documents and the scripts.

--------------------------- MODULE EnclaveContract ---------------------------
(***************************************************************************)
(* The payout function of the enclave contract (contract/src/api.rs) over  *)
(* the tenant's key-value map (contract/src/store.rs), the vendor's payout *)
(* endpoint, and the tenant who writes the map.                            *)
(*                                                                         *)
(* A payout invocation is a chain of steps: it is called, it reads the map *)
(* and the enclave's clock and judges the intent, it posts to the vendor,  *)
(* and only after a 2xx does it add the amount to the day's counter.       *)
(* Several invocations run at once.  The tenant's writes and midnight fall  *)
(* between any two steps.                                                  *)
(*                                                                         *)
(* From the host's interface (contract/wit/deps/host-interfaces-2.1.0):     *)
(* an invocation is an optimistic transaction, its timestamp set when it    *)
(* begins (package.wit:328-330, 344).  What it read is checked when it      *)
(* commits, so of two payouts of a day that were judged by one counter only *)
(* one can be counted, and the other ends in an error, its post made.  A    *)
(* host that runs such payouts one after the other, as store.rs:114-116     *)
(* has it, shows the behaviours among these in which no two overlap.  From  *)
(* the vendor's: two posts with one Idempotency-Key move the money once.    *)
(* The key is a hash of the intent, the approval reference and the day,     *)
(* taken here as injective.                                                 *)
(***************************************************************************)
EXTENDS PayoutPolicy, CivilDates, FiniteSetsExt

CONSTANTS
  Invs,             \* payout invocations, each called at most once
  LastDay,          \* the clock stops here: days 0 .. LastDay
  VendorIds,        \* ids safe_identifier accepts
  UnsafeId,         \* an id it does not accept
  BadCurrency,      \* what is not a three-letter code
  Refs,             \* approval references of an admissible length
  BadRef,           \* an empty or too long approval reference
  Damaged,          \* a record or counter that does not parse
  VendorRecords,    \* the well-formed records the tenant may store
  OverrideRecords,  \* the well-formed overrides the tenant may store
  Requests          \* the payout inputs callers send

Days == 0 .. LastDay

\* Vendor ids, currencies and references the parser rejects, and a memo over
\* its length limit, are part of what a caller may send.
AllRequests ==
  [vendor   : VendorIds \cup {UnsafeId},
   amount   : U64,
   currency : Currencies \cup {BadCurrency},
   memo     : Memos \cup {"toolong"},
   ref      : Refs \cup {BadRef}]

NoOverrides ==
  [single |-> Unset, daily |-> Unset, memoOver |-> Unset, allowed |-> Unset, blocked |-> Unset]

ASSUME ContractAssumption ==
  /\ LastDay \in Nat
  /\ IsFiniteSet(Invs)
  /\ Damaged \notin U64
  /\ VendorRecords \subseteq Vendors /\ NoVendor \notin VendorRecords \cup {Damaged}
  /\ OverrideRecords \subseteq Overrides
  /\ Requests \subseteq AllRequests

VARIABLES
  registry,   \* vendor/<id> in the state map: a record, NoVendor or Damaged
  overrides,  \* policy/overrides: a record (NoOverrides when absent) or Damaged
  hasKey,     \* whether vendor_api_key is seeded and readable
  spend,      \* spend/<day>: the counter (0 when absent) or Damaged
  day,        \* the UTC day of the cluster's clock
  phase,      \* per invocation: idle, called, egress, accepted, done
  req,        \* per invocation: its input, from the call on
  at,         \* per invocation: the day its clock is pinned to, from the call on
  seen,       \* per invocation: the counter it was judged by, once it is admitted
  result,     \* per invocation: none, paid, refused, upstream_error, error
  bank        \* the idempotency keys under which the vendor moved money

mapVars == <<registry, overrides, hasKey>>
invVars == <<phase, req, at, seen, result>>
vars    == <<registry, overrides, hasKey, spend, day, phase, req, at, seen, result, bank>>

Phases  == {"idle", "called", "egress", "accepted", "done"}
Results == {"none", "paid", "refused", "upstream_error", "error"}

Init ==
  /\ registry \in [VendorIds -> VendorRecords \cup {NoVendor}]
  /\ overrides = NoOverrides
  /\ hasKey = TRUE
  /\ spend = [d \in Days |-> 0]
  /\ day = 0
  /\ phase = [i \in Invs |-> "idle"]
  /\ req \in [Invs -> Requests]
  /\ at = [i \in Invs |-> 0]
  /\ seen = [i \in Invs |-> 0]
  /\ result = [i \in Invs |-> "none"]
  /\ bank = {}

-----------------------------------------------------------------------------
(* What a payout invocation reads before it acts.                           *)

\* currency, memo and approval_ref are of an acceptable form.
WellFormed(r) ==
  r.currency # BadCurrency /\ r.memo # "toolong" /\ r.ref # BadRef

\* Variant: a counter that does not parse counts as absent.
ReadDailySpentLeniently(d) == IF spend[d] = Damaged THEN 0 ELSE spend[d]

\* The amount already paid on a day; Damaged stands for an error.
ReadDailySpent(d) == spend[d]

\* Every record the judgement needs parses: overrides, vendor, day's counter.
Readable(r, d) ==
  /\ overrides # Damaged
  /\ r.vendor # UnsafeId
  /\ registry[r.vendor] # Damaged
  /\ ReadDailySpent(d) # Damaged

\* Variant: the overrides are folded over a policy without limits.
VerdictFromOverrides(r, d) ==
  Decision(Evaluate(TightenedWith([DefaultPolicy EXCEPT !.single = U64Max, !.daily = U64Max],
                                  overrides),
                    registry[r.vendor], r, ReadDailySpent(d)))

\* Variant: the counter is not consulted.
VerdictEmptyLedger(r, d) ==
  Decision(Evaluate(TightenedWith(DefaultPolicy, overrides), registry[r.vendor], r, 0))

Verdict(r, d) ==
  Decision(Evaluate(TightenedWith(DefaultPolicy, overrides),
                    registry[r.vendor], r, ReadDailySpent(d)))

\* On its way: judged and not denied, and not answered yet.
InFlight(i) == phase[i] \in {"egress", "accepted"}

NoneInFlight(d) == \A i \in Invs : InFlight(i) => at[i] # d

CanJudge(i) == WellFormed(req[i]) /\ Readable(req[i], at[i])

\* The Idempotency-Key of an invocation.
Key(i) ==
  [vendor |-> req[i].vendor, amount |-> req[i].amount, currency |-> req[i].currency,
   ref |-> req[i].ref, day |-> at[i]]

Finish(i, res) ==
  /\ phase' = [phase EXCEPT ![i] = "done"]
  /\ result' = [result EXCEPT ![i] = res]
-----------------------------------------------------------------------------
(* The steps of a payout invocation.                                        *)

\* The host begins the transaction and pins its clock.
Call(i) ==
  /\ phase[i] = "idle"
  /\ phase' = [phase EXCEPT ![i] = "called"]
  /\ at' = [at EXCEPT ![i] = day]
  /\ UNCHANGED <<mapVars, spend, day, req, seen, result, bank>>

\* The input is malformed, a record does not parse, or the payout is not
\* denied and there is no key to make it with.
Reject(i) ==
  /\ phase[i] = "called"
  /\ \/ ~CanJudge(i)
     \/ CanJudge(i) /\ Verdict(req[i], at[i]) # "deny" /\ ~hasKey
  /\ Finish(i, "error")
  /\ UNCHANGED <<mapVars, spend, day, req, at, seen, bank>>

\* The host fails a read, or the invocation dies before it answers or commits.
ReadFails(i) ==
  /\ phase[i] = "called"
  /\ Finish(i, "error")
  /\ UNCHANGED <<mapVars, spend, day, req, at, seen, bank>>

\* Judged and denied: a business outcome.
Refuse(i) ==
  /\ phase[i] = "called"
  /\ CanJudge(i)
  /\ Verdict(req[i], at[i]) = "deny"
  /\ Finish(i, "refused")
  /\ UNCHANGED <<mapVars, spend, day, req, at, seen, bank>>

\* Judged and not denied (a review is only flagged): on to the vendor's endpoint.
Admit(i) ==
  /\ phase[i] = "called"
  /\ CanJudge(i)
  /\ Verdict(req[i], at[i]) # "deny"
  /\ hasKey
  /\ phase' = [phase EXCEPT ![i] = "egress"]
  /\ seen' = [seen EXCEPT ![i] = ReadDailySpent(at[i])]
  /\ UNCHANGED <<mapVars, spend, day, req, at, result, bank>>

\* The vendor answers 2xx, having moved the money unless it already had.
PostAccepted(i) ==
  /\ phase[i] = "egress"
  /\ bank' = bank \cup {Key(i)}
  /\ phase' = [phase EXCEPT ![i] = "accepted"]
  /\ UNCHANGED <<mapVars, spend, day, req, at, seen, result>>

\* Variant: the status is not one of the three the agent knows.
PostRefusedUnknownStatus(i) ==
  /\ phase[i] = "egress"
  /\ bank' \in {bank, bank \cup {Key(i)}}
  /\ Finish(i, "rejected")
  /\ UNCHANGED <<mapVars, spend, day, req, at, seen>>

\* The vendor answers something else; whether the money moved is up to it.
PostRefused(i) ==
  /\ phase[i] = "egress"
  /\ bank' \in {bank, bank \cup {Key(i)}}
  /\ Finish(i, "upstream_error")
  /\ UNCHANGED <<mapVars, spend, day, req, at, seen>>

\* Variant: a failed call is taken for a refusal.
PostFailsAsRefusal(i) ==
  /\ phase[i] = "egress"
  /\ bank' \in {bank, bank \cup {Key(i)}}
  /\ Finish(i, "refused")
  /\ UNCHANGED <<mapVars, spend, day, req, at, seen>>

\* The host denies the egress, no answer arrives, or the answer is not 2xx and
\* the transaction is lost: the vendor may have acted.
PostFails(i) ==
  /\ phase[i] = "egress"
  /\ bank' \in {bank, bank \cup {Key(i)}}
  /\ Finish(i, "error")
  /\ UNCHANGED <<mapVars, spend, day, req, at, seen>>

\* Variant: the counter is set to the amount instead of growing by it.
CountOverwrites(i) ==
  /\ phase[i] = "accepted"
  /\ ReadDailySpent(at[i]) = seen[i]
  /\ spend' = [spend EXCEPT ![at[i]] = req[i].amount]
  /\ Finish(i, "paid")
  /\ UNCHANGED <<mapVars, day, req, at, seen, bank>>

\* Variant: the clock is read again, and the amount goes to the day it is by then.
CountToday(i) ==
  /\ phase[i] = "accepted"
  /\ ReadDailySpent(at[i]) = seen[i] /\ ReadDailySpent(day) # Damaged
  /\ spend' = [spend EXCEPT ![day] = Saturate(ReadDailySpent(day) + req[i].amount)]
  /\ Finish(i, "paid")
  /\ UNCHANGED <<mapVars, day, req, at, seen, bank>>

\* The counter is read again, grows by the amount, and the payout is reported:
\* the transaction commits, no other having written the counter it read.
Count(i) ==
  /\ phase[i] = "accepted"
  /\ ReadDailySpent(at[i]) = seen[i]
  /\ spend' = [spend EXCEPT ![at[i]] = Saturate(ReadDailySpent(at[i]) + req[i].amount)]
  /\ Finish(i, "paid")
  /\ UNCHANGED <<mapVars, day, req, at, seen, bank>>

\* Variant: the failure is swallowed and the payout reported as paid.
CountFailsQuietly(i) ==
  /\ phase[i] = "accepted"
  /\ Finish(i, "paid")
  /\ UNCHANGED <<mapVars, spend, day, req, at, seen, bank>>

\* The counter does not parse any more, or cannot be written, or the invocation
\* dies before its commit, or the commit is lost to another transaction's.
CountFails(i) ==
  /\ phase[i] = "accepted"
  /\ Finish(i, "error")
  /\ UNCHANGED <<mapVars, spend, day, req, at, seen, bank>>

Step(i) ==
  \/ Reject(i) \/ Refuse(i) \/ Admit(i)
  \/ PostAccepted(i) \/ PostRefused(i) \/ PostFails(i)
  \/ Count(i) \/ CountFails(i)

-----------------------------------------------------------------------------
(* The tenant and the clock.                                                *)

\* map-entry-set takes any value: a record, or what does not parse.
WriteVendor(v) ==
  /\ \E rec \in VendorRecords \cup {Damaged} : registry' = [registry EXCEPT ![v] = rec]
  /\ UNCHANGED <<overrides, hasKey, spend, day, invVars, bank>>

WriteOverrides ==
  /\ overrides' \in OverrideRecords \cup {Damaged}
  /\ UNCHANGED <<registry, hasKey, spend, day, invVars, bank>>

\* The key is seeded, or rotated to something unreadable.
SeedApiKey ==
  /\ hasKey' \in BOOLEAN
  /\ UNCHANGED <<registry, overrides, spend, day, invVars, bank>>

\* A counter loses its number; nothing in the code repairs it.
DamageCounter(d) ==
  /\ spend' = [spend EXCEPT ![d] = Damaged]
  /\ UNCHANGED <<mapVars, day, invVars, bank>>

Midnight ==
  /\ day < LastDay
  /\ day' = day + 1
  /\ UNCHANGED <<mapVars, spend, invVars, bank>>

Environment ==
  \/ \E v \in VendorIds : WriteVendor(v)
  \/ WriteOverrides \/ SeedApiKey
  \/ \E d \in Days : DamageCounter(d)
  \/ Midnight

Next == (\E i \in Invs : Call(i) \/ Step(i) \/ ReadFails(i)) \/ Environment

Spec == Init /\ [][Next]_vars
-----------------------------------------------------------------------------
TypeOK ==
  /\ registry \in [VendorIds -> Vendors \cup {NoVendor, Damaged}]
  /\ overrides \in Overrides \cup {Damaged}
  /\ hasKey \in BOOLEAN
  /\ spend \in [Days -> U64 \cup {Damaged}]
  /\ day \in Days
  /\ phase \in [Invs -> Phases]
  /\ req \in [Invs -> Requests]
  /\ at \in [Invs -> Days]
  /\ seen \in [Invs -> U64]
  /\ result \in [Invs -> Results]
  /\ bank \subseteq [vendor : VendorIds \cup {UnsafeId}, amount : U64,
                     currency : Currencies \cup {BadCurrency}, ref : Refs \cup {BadRef},
                     day : Days]

\* The daily cap: whatever payouts run at once, whatever the tenant writes and
\* whenever midnight falls, no day's counter passes the compiled-in cap.  A
\* payout is judged long before it is counted, and several of a day may have been
\* judged by one counter.
DailyCapHolds ==
  \A d \in Days : spend[d] # Damaged => spend[d] <= DefaultPolicy.daily

\* The counter and the answers agree: a readable counter is exactly the sum of
\* the payouts of its day that were answered "paid", each counted once.
LedgerMatchesReceipts ==
  \A d \in Days :
    LET paid == [i \in Invs |-> IF result[i] = "paid" /\ at[i] = d THEN req[i].amount ELSE 0]
    IN  spend[d] # Damaged => spend[d] = SumFunction(paid)

\* No transfer goes unreported: money that moved at the vendor belongs to an
\* invocation that is still running or was answered with anything but
\* "refused", and a payout answered "paid" did move it.
TransfersAreReported ==
  /\ \A k \in bank : \E i \in Invs :
       /\ k = Key(i)
       /\ phase[i] = "accepted" \/ result[i] \in {"paid", "upstream_error", "error"}
  /\ \A i \in Invs : result[i] = "paid" => Key(i) \in bank

\* However lax the tenant's overrides, the vendor only ever moves a sum the
\* compiled-in policy allows: positive, within the single cap, in a sanctioned
\* currency, to a vendor in the registry, and under an approval reference of an
\* admissible length (the gate builds it from a name nothing bounds, gate.ts:186).
TransfersWithinDefaults ==
  \A k \in bank :
    /\ k.vendor \in VendorIds /\ registry[k.vendor] # NoVendor
    /\ k.amount \in 1 .. DefaultPolicy.single
    /\ k.currency \in DefaultPolicy.allowed
    /\ k.ref \in Refs

\* Every day has a counter and a date of its own: from the day the run starts on
\* to the day it is, and from the epoch on through a whole 400-year cycle and back
\* to where it began, each day's date is the calendar's day after the date of the
\* day before, leap days and centuries included.  So no two days share a spend
\* counter or an Idempotency-Key and no day has two (dates.rs:3-6).
CountersFollowCalendar ==
  /\ \A d \in 1 .. day : CivilFromDays(d) = DayAfter(CivilFromDays(d - 1))
  /\ OffCalendar = {}
  /\ CivilFromDays(0) = Epoch /\ CivilFromDays(Cycle) = [Epoch EXCEPT !.year = 2370]

\* Fails closed: once a day's counter is damaged and no payout of that day is on
\* its way, the day is closed for good.  No payout is admitted for it any more,
\* so no money moves on it (store.rs:94-96: a lost counter must never raise the
\* limit).
DamagedCounterStopsDay ==
  [][\A d \in Days :
       spend[d] = Damaged /\ NoneInFlight(d) =>
         /\ spend'[d] = Damaged /\ NoneInFlight(d)'
         /\ {k \in bank' : k.day = d} = {k \in bank : k.day = d}]_vars

\* The contract implements the abstract daily budget: a counter grows only
\* within the cap and only together with the one receipt that accounts for it.
Budget == INSTANCE DailyBudget
  WITH Payers <- Invs, Cap <- DefaultPolicy.daily, Closed <- Damaged,
       total <- spend, receipts <- {i \in Invs : result[i] = "paid"}
ImplementsDailyBudget == Budget!Spec

\* What the cap means for the money: on a day with a readable counter the vendor
\* moved at most what the counter says, and beyond that only payouts whose
\* answer did not come or was an error, or that are still on their way
\* (docs/THREAT-MODEL.md:92-97 accepts exactly that gap).
UncountedMoneyIsUnclear ==
  \A d \in Days :
    LET moved == [k \in bank |-> IF k.day = d THEN k.amount ELSE 0]
        unclear == [i \in Invs |->
                      IF at[i] = d /\ (InFlight(i) \/ result[i] \in {"upstream_error", "error"})
                      THEN req[i].amount ELSE 0]
    IN  spend[d] # Damaged => SumFunction(moved) <= spend[d] + SumFunction(unclear)
=============================================================================

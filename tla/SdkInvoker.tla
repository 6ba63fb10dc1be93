----------------------------- MODULE SdkInvoker ------------------------------
(***************************************************************************)
(* The agent's way to the contract: SdkContractInvoker (agent/src/invoker.ts) *)
(* with its cached contract version, its one retry, and the checks every      *)
(* answer has to pass (agent/src/validate.ts).                               *)
(*                                                                         *)
(* One process makes one call at a time; every await is a point where the     *)
(* clock moves on, another version is registered, or the process restarts.    *)
(* A version is named by the contract id its registration allocated.          *)
(*                                                                         *)
(* An answer says one thing (a status, a decision, or that it is a policy)    *)
(* and each of its fields is "good", "missing" (or null, where the code takes   *)
(* that for missing) or "wrong" (of another type, outside the list of values,   *)
(* a blank reference).                                                       *)
(***************************************************************************)
EXTENDS Integers

CONSTANTS
  VersionTtl,  \* versionTtlMs
  MaxNow,      \* bound on the clock
  NoVersion,   \* nothing is cached
  NoInput,     \* a call without a vendor
  Failed       \* the call failed: no connection, or an error of node or contract

VARIABLES
  latest,   \* the version the node would resolve now, 0 if there is none
  now,      \* the agent host's clock
  cached,   \* #cachedVersion
  pc,       \* where the call stands
  fn,       \* the function called
  input,    \* what it is called with: the vendor
  began,    \* when the call began
  stamp,    \* the time read before the version is resolved
  version,  \* the version resolved, or the one to invoke
  retried   \* the call is at its second try

invokerVars == <<now, cached, pc, fn, input, began, stamp, version, retried>>

Functions == {"payout", "check-payout", "get-policy"}

\* What an answer may say.
Statuses == {"paid", "refused", "upstream_error"}
Decisions == {"allow", "review", "deny"}
Says == Statuses \cup Decisions \cup {"policy"}

Contents == {"good", "missing", "wrong"}

InvokerInit ==
  /\ now = 0
  /\ cached = NoVersion
  /\ pc = "idle" /\ fn = "get-policy" /\ input = NoInput
  /\ began = 0 /\ stamp = 0 /\ version = 0 /\ retried = FALSE
-----------------------------------------------------------------------------
(* Checking an answer.                                                      *)

\* Fields that must be there, of the right type and value.
Required ==
  [f \in Functions |->
     CASE f = "payout" -> {"status"}
       [] f = "check-payout" -> {"decision", "policy_snapshot", "vendor_id", "amount",
                                 "currency", "daily_spent"}
       [] f = "get-policy" -> {"contract_version", "policy"}]

\* Fields that may be left out, but not be of another type.  The other fields of
\* a payout answer are dropped when they are of another type.
Optional ==
  [f \in Functions |->
     CASE f = "get-policy" -> {"vendors", "ignored_overrides"}
       [] OTHER -> {"reasons"}]

Fields(f) == Required[f] \cup Optional[f] \cup IF f = "payout" THEN {"reference"} ELSE {}

WellShaped(f, a) ==
  /\ \A x \in Required[f] : a.fields[x] = "good"
  /\ \A x \in Optional[f] : a.fields[x] # "wrong"
  /\ f = "payout" /\ a.says = "paid" => a.fields["reference"] = "good"

\* Variant: a status that is not known counts as paid.
ValidatedLeniently(f, a) ==
  IF f = "payout" /\ a.fields["status"] # "good" THEN "paid"
  ELSE IF WellShaped(f, a) THEN a.says ELSE "error"

\* What an answer is taken for.
Validated(f, a) == IF WellShaped(f, a) THEN a.says ELSE "error"
-----------------------------------------------------------------------------
(* The call.                                                                *)

\* The call ends; nothing but the cache outlives it.
Finish ==
  /\ pc' = "idle" /\ fn' = "get-policy" /\ input' = NoInput /\ retried' = FALSE
  /\ began' = 0 /\ stamp' = 0 /\ version' = 0

Fresh == cached # NoVersion /\ now - cached.at < VersionTtl

\* The cached version is taken while it is fresh, or the node is asked.
Begin(f, i) ==
  /\ pc = "idle"
  /\ fn' = f /\ input' = i /\ began' = now
  /\ IF Fresh
     THEN pc' = "call" /\ version' = cached.value /\ UNCHANGED stamp
     ELSE pc' = "resolve" /\ stamp' = now /\ UNCHANGED version
  /\ UNCHANGED <<now, cached, retried>>

\* The node says which version is the current one.
NodeResolves ==
  /\ pc = "resolve"
  /\ version' = latest
  /\ pc' = "resolved"
  /\ UNCHANGED <<now, cached, fn, input, began, stamp, retried>>

\* Variant: the cache is stamped when the node's answer is there.
ResolvedStampsLate ==
  /\ pc = "resolved" /\ version # 0
  /\ cached' = [value |-> version, at |-> now]
  /\ pc' = "call" /\ stamp' = 0
  /\ UNCHANGED <<now, fn, input, began, version, retried>>

\* The version reaches the agent, and counts as fresh from when it was asked for.
Resolved ==
  /\ pc = "resolved" /\ version # 0
  /\ cached' = [value |-> version, at |-> stamp]
  /\ pc' = "call" /\ stamp' = 0
  /\ UNCHANGED <<now, fn, input, began, version, retried>>

\* No version is registered, or the node cannot be reached.
Unresolved ==
  /\ pc = "resolve" \/ (pc = "resolved" /\ version = 0)
  /\ Finish
  /\ UNCHANGED <<now, cached>>

\* The invocation is on its way.
Invoke ==
  /\ pc = "call"
  /\ pc' = "invoked"
  /\ UNCHANGED <<now, cached, fn, input, began, stamp, version, retried>>

\* An error, of the contract or on the way, whose text speaks of a version that is
\* not found, unknown or does not match, which no one else is kept from writing:
\* the version is resolved again and the function invoked once more.
Retry ==
  /\ pc = "invoked" /\ ~retried
  /\ cached' = NoVersion
  /\ retried' = TRUE
  /\ pc' = "resolve" /\ stamp' = now /\ version' = 0
  /\ UNCHANGED <<now, fn, input, began>>

\* Any other error, and any error of the second try, is the caller's; of an answer
\* the caller is told what Validated makes of it.
Return ==
  /\ pc = "invoked"
  /\ Finish
  /\ UNCHANGED <<now, cached>>

\* The process ends, and another one starts.
Restart ==
  /\ cached' = NoVersion
  /\ Finish
  /\ UNCHANGED now

Tick ==
  /\ now < MaxNow
  /\ now' = now + 1
  /\ UNCHANGED <<cached, pc, fn, input, began, stamp, version, retried>>

=============================================================================

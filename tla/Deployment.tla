----------------------------- MODULE Deployment ------------------------------
(***************************************************************************)
(* A deployment over its life: the owner sets the tenant up and registers     *)
(* the contract again (TenantAdmin), while an agent process calls whatever    *)
(* version it believes to be current (SdkInvoker).  The contract that runs    *)
(* finds in the maps only what their access lists let its id read.            *)
(*                                                                         *)
(* From outside the repository: reading a map one is not admitted to gives     *)
(* nothing rather than an error (docs/HANDOVER.md:43-44), and the node may     *)
(* go on serving a version after a later one was registered.                  *)
(***************************************************************************)
EXTENDS Integers, Sequences, FiniteSets, SequencesExt

CONSTANTS
  MaxId, IdTexts, Texts, VendorTexts, Forms, UpperCase, Shape, AddVendorLines,
  NoMap, NoVendor, Damaged, NoJob,
  VersionTtl, MaxNow, NoVersion, NoInput, Failed,
  VendorOrder,  \* the vendor texts in the order of their keys
  ScanLimit,    \* how many entries a scan returns at most (200)
  Asked,        \* the vendors the agent makes calls for
  Never         \* the version has not been superseded

ASSUME DeploymentAssumption ==
  /\ MaxId \in Nat /\ MaxNow \in Nat /\ VersionTtl \in Nat \ {0} /\ ScanLimit \in Nat
  /\ IdTexts \subseteq Nat
  /\ VendorTexts \subseteq Texts /\ Asked \subseteq VendorTexts
  /\ ToSet(VendorOrder) = VendorTexts /\ Len(VendorOrder) = Cardinality(VendorTexts)
  /\ Never \notin Nat /\ NoMap \notin Nat
  /\ Failed # "paid" /\ NoVendor # Damaged

VARIABLES
  latest, acl, records, apiKey, job, asked, created,
  now, cached, pc, fn, input, began, stamp, version, retried,
  \* for properties only:
  retiredAt,  \* per version: when it was superseded, or Never
  said,       \* what the contract said when it last ran for the call
  omitted,    \* the vendors it could have listed and did not
  payers      \* the ids of the contracts that posted a payout

admin == <<latest, acl, records, apiKey, job, asked, created>>
invoker == <<now, cached, pc, fn, input, began, stamp, version, retried>>
callHistory == <<said, omitted, payers>>
vars == <<admin, invoker, retiredAt, callHistory>>

Tenant == INSTANCE TenantAdmin
Agent == INSTANCE SdkInvoker

\* What the forms of a text say of it: three capitals are their own upper case,
\* and of two dots in a row the second is not the first character.
ASSUME TextAssumption ==
  /\ AddVendorLines \subseteq Seq(Texts \cup Tenant!FlagNames)
  /\ UpperCase \in [Texts -> Texts]
  /\ \A t \in Texts : "AAA" \in Forms[t] => UpperCase[t] = t
  /\ \A v \in VendorTexts : Shape[v].dots => "." \in Shape[v].rest

Ids == Tenant!Ids

Init ==
  /\ Tenant!AdminInit /\ Agent!InvokerInit
  /\ retiredAt = [id \in Ids |-> Never]
  /\ said = "none" /\ omitted = {} /\ payers = {}
-----------------------------------------------------------------------------
(* What a running contract finds.                                           *)

CanRead(id, map) == acl[map] = id

\* read_vendor: a record the contract may not read is absent.
ReadVendor(id, v) == IF CanRead(id, "state") THEN records[v] ELSE NoVendor

HasKey(id) == CanRead(id, "secrets") /\ apiKey

\* The keys under which the contract finds a vendor record, in order.
VendorKeys(id) == SelectSeq(VendorOrder, LAMBDA v : ReadVendor(id, v) # NoVendor)

\* read_all_vendors: the first entries of the registry, if every one parses.
Scanned(id) == {VendorKeys(id)[i] : i \in DOMAIN VendorKeys(id) \cap 1 .. ScanLimit}
ReadAllFails(id) == \E v \in Scanned(id) : records[v] = Damaged
-----------------------------------------------------------------------------
(* What it answers.                                                         *)

\* What check-payout says; the limits it also judges by are not kept here.
CheckSays(id, v) ==
  LET rec == ReadVendor(id, v) IN
  CASE rec = Damaged -> {Failed}
    [] rec = NoVendor -> {"deny"}
    [] OTHER -> IF rec.active THEN {"allow", "review", "deny"} ELSE {"deny"}

\* payout posts for a vendor that is not denied, with the key.
Posts(id, v) == CheckSays(id, v) \cap {"allow", "review"} # {} /\ HasKey(id)

PayoutSays(id, v) ==
  {Failed} \cup (IF "deny" \in CheckSays(id, v) THEN {"refused"} ELSE {})
           \cup (IF Posts(id, v) THEN {"paid", "upstream_error"} ELSE {})

PolicySays(id) == IF ReadAllFails(id) THEN {Failed} ELSE {"policy"}

\* The fields of an answer as the contract writes it: a refusal has no reference
\* and a failed post no reasons.
FieldsOf(f, says) ==
  [x \in Agent!Fields(f) |->
     IF (says = "refused" /\ x = "reference") \/ (says = "upstream_error" /\ x = "reasons")
     THEN "missing" ELSE "good"]

Answer(f, says) == [says |-> says, fields |-> FieldsOf(f, says)]

\* What may become of an answer on its way: a field of it is lost or garbled.
Arriving(f, says) ==
  {[Answer(f, says) EXCEPT !.fields[x] = c] : x \in Agent!Fields(f), c \in Agent!Contents}

\* The version is served, runs, and says something.
Run(says) ==
  /\ Agent!Invoke
  /\ version \in 1 .. latest
  /\ says \in CASE fn = "payout" -> PayoutSays(version, input)
                [] fn = "check-payout" -> CheckSays(version, input)
                [] fn = "get-policy" -> PolicySays(version)
  /\ said' = says
  /\ omitted' = IF fn = "get-policy" THEN ToSet(VendorKeys(version)) \ Scanned(version) ELSE {}
  /\ payers' \in CASE says = "paid" -> {payers \cup {version}}
                   [] fn = "payout" /\ says \in {"upstream_error", Failed}
                        /\ Posts(version, input) -> {payers, payers \cup {version}}
                   [] OTHER -> {payers}
  /\ UNCHANGED <<admin, retiredAt>>

\* The node does not serve the version, or the invocation does not get there.
NotServed ==
  /\ Agent!Invoke
  /\ said' = Failed
  /\ UNCHANGED <<admin, retiredAt, omitted, payers>>

\* Something arrives at the invoker.
Arrive ==
  /\ Agent!Return \/ Agent!Retry
  /\ said' = "none" /\ omitted' = {}
  /\ UNCHANGED <<admin, retiredAt, payers>>
-----------------------------------------------------------------------------
AgentStep ==
  \/ /\ \/ \E v \in Asked : Agent!Begin("payout", v) \/ Agent!Begin("check-payout", v)
        \/ Agent!Begin("get-policy", NoInput)
        \/ Agent!NodeResolves \/ Agent!Resolved \/ Agent!Unresolved \/ Agent!Tick
     /\ UNCHANGED <<admin, retiredAt, callHistory>>
  \/ \E says \in Agent!Says \cup {Failed} : Run(says)
  \/ NotServed \/ Arrive
  \/ /\ Agent!Restart
     /\ said' = "none" /\ omitted' = {}
     /\ UNCHANGED <<admin, retiredAt, payers>>

\* Registering supersedes the version registered before.
Register ==
  /\ Tenant!Register
  /\ retiredAt' = IF latest = 0 THEN retiredAt ELSE [retiredAt EXCEPT ![latest] = now]

\* create-maps takes any positive number for an id, also one that register never
\* printed, or has not printed yet.
OwnerStep ==
  /\ \/ Register
     \/ /\ \/ \E id \in IdTexts : Tenant!CreateMaps(id)
           \/ Tenant!CreateMap \/ Tenant!CreateMapFails
           \/ \E vendor \in Tenant!Registrable : Tenant!AddVendor(vendor)
           \/ \E v \in VendorTexts : Tenant!WriteByHand(v)
           \/ Tenant!SeedApiKey
        /\ UNCHANGED retiredAt
  /\ UNCHANGED <<invoker, callHistory>>

Next == AgentStep \/ OwnerStep

Spec == Init /\ [][Next]_vars
-----------------------------------------------------------------------------
TypeOK ==
  /\ latest \in 0 .. MaxId
  /\ \A m \in Tenant!Maps : acl[m] \in (IdTexts \ {0}) \cup {NoMap}
  /\ apiKey \in BOOLEAN
  /\ asked \subseteq IdTexts \ {0} /\ created \subseteq asked
  /\ now \in 0 .. MaxNow
  /\ cached # NoVersion => cached \in [value : Ids, at : 0 .. MaxNow]
  /\ pc \in {"idle", "resolve", "resolved", "call", "invoked"}
  /\ fn \in Agent!Functions /\ input \in VendorTexts \cup {NoInput}
  /\ version \in 0 .. MaxId
  /\ said \in Agent!Says \cup {"none", Failed}
  /\ payers \subseteq Ids

\* The version an agent invokes is the current one, or was so at some time in the
\* VersionTtl before the call began: a cached version never outlives its time,
\* however long the node took to say which it was (invoker.ts:121-135).
BoundedStaleness ==
  pc = "call" =>
    version = latest \/ (retiredAt[version] # Never /\ retiredAt[version] > began - VersionTtl)

\* One contract pays, ever: whatever is registered later, only the contract for
\* which both maps were created has posted a payout, so no two contracts keep a
\* daily counter of their own, and none pays by the defaults because it cannot
\* read the tenant's overrides (admin.ts:137-140, admin.ts:202).
OneContractPays ==
  \A id \in payers : \A m \in Tenant!Maps : acl[m] = id

\* create-maps can be run again until it is through, whatever failed on the way.
RerunCompletesSetup == Tenant!RerunCompletesSetup

\* What add-vendor registered is never an error to the contract.
RegisteredVendorsAreUsable == Tenant!RegisteredVendorsAreUsable

\* The checks on answers reject nothing the contract writes and take nothing that
\* was garbled on its way for another answer: whatever the contract has said, its
\* answer passes if it arrives as it was, and otherwise the caller is told of an
\* error or, the fields in question being ones that may be missing, the same
\* (validate.ts:4-9).
AnswersSurvive ==
  pc = "invoked" /\ said # Failed =>
    /\ Agent!Validated(fn, Answer(fn, said)) = said
    /\ \A answer \in Arriving(fn, said) : Agent!Validated(fn, answer) \in {"error", said}


\* contract/src/store.rs:77-79: "A single corrupt entry fails the whole listing,
\* deliberately - a policy view that silently omits a vendor is worse than an
\* error."
ListingComplete ==
  said = "policy" => omitted = {}
=============================================================================

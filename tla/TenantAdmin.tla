----------------------------- MODULE TenantAdmin -----------------------------
(***************************************************************************)
(* The tenant owner's tool (agent/src/admin.ts) and what it leaves behind    *)
(* in the tenant's namespace: the registered contract, the two maps with the *)
(* contract id their access lists name, the vendor records and the API key.  *)
(*                                                                         *)
(* A command is one control-plane call, which happens or does not, but for    *)
(* create-maps: it creates one map after the other, and can end between them. *)
(* The texts on a command line are model values of CONSTANTS, of which only   *)
(* their form matters.                                                       *)
(***************************************************************************)
EXTENDS Integers, Sequences, FiniteSetsExt

CONSTANTS
  MaxId,      \* bound on registrations; they get the ids 1 .. MaxId
  IdTexts,    \* what may follow --contract-id: numbers and, as 0, anything else
  Texts,      \* what may follow another flag, "" standing for white space
  VendorTexts, \* those that may follow --id
  Forms,      \* per text: the forms it has, of "AAA", "AA", "9999", "https"
  UpperCase,  \* per text: the same in upper case
  Shape,      \* per vendor text: its length, the classes of its first and of its
              \* other characters, whether it has two dots in a row
  AddVendorLines, \* the command lines of add-vendor
  NoMap,      \* the map does not exist
  NoVendor,   \* there is no record under the key
  Damaged,    \* a record that does not parse
  NoJob       \* no create-maps is running

Ids == 1 .. MaxId
Maps == {"state", "secrets"}

VARIABLES
  latest,    \* the id of the contract registered last, 0 if there is none
  acl,       \* per map: the only id that may read and write it, or NoMap
  records,   \* per vendor key in the state map: a record, NoVendor or Damaged
  apiKey,    \* vendor_api_key is in the secrets map
  job,       \* the create-maps that is running: its id and the maps it has to do
  asked,     \* for properties only: the ids create-maps was run with
  created    \* for properties only: the ids for which it reported success

adminVars == <<latest, acl, records, apiKey, job, asked, created>>

AdminInit ==
  /\ latest = 0
  /\ acl = [m \in Maps |-> NoMap]
  /\ records = [v \in VendorTexts |-> NoVendor]
  /\ apiKey = FALSE
  /\ job = NoJob
  /\ asked = {} /\ created = {}
-----------------------------------------------------------------------------
(* The command line.                                                        *)

FlagNames == {"--id", "--name", "--currency", "--country", "--bank-holder", "--bank-last4",
              "--payout-url", "--active"}
Needed == FlagNames \ {"--active"}

\* A flag has the value that follows its last occurrence; followed by another
\* flag, or by nothing, it is "bare".
ParseFlags(argv) ==
  LET At(flag) == {i \in DOMAIN argv : argv[i] = flag}
      Value(i) == IF i < Len(argv) /\ argv[i + 1] \notin FlagNames THEN argv[i + 1] ELSE "bare"
  IN  [flag \in {f \in FlagNames : At(f) # {}} |-> Value(Max(At(flag)))]

\* Every required flag is there, with a value that is not blank.
Need(flags) == \A f \in Needed : f \in DOMAIN flags /\ flags[f] \notin {"bare", ""}

\* The record add-vendor writes.
VendorOf(flags) ==
  [id |-> flags["--id"], currency |-> UpperCase[flags["--currency"]],
   country |-> UpperCase[flags["--country"]], url |-> flags["--payout-url"],
   active |-> "--active" \in DOMAIN flags /\ flags["--active"] = "bare"]

\* Variant: two more characters than the contract takes.
AdminIdLonger(s) ==
  s.len \in 2 .. 65 /\ s.first \in {"lower", "digit"} /\ s.rest \subseteq {"lower", "digit", "_", "-"}

\* 2 to 63 characters of a-z, 0-9, _ and -, the first one no sign.
AdminId(s) ==
  s.len \in 2 .. 63 /\ s.first \in {"lower", "digit"} /\ s.rest \subseteq {"lower", "digit", "_", "-"}

Accepts(flags) ==
  /\ Need(flags)
  /\ "AAA" \in Forms[UpperCase[flags["--currency"]]]
  /\ "AA" \in Forms[UpperCase[flags["--country"]]]
  /\ "9999" \in Forms[flags["--bank-last4"]]
  /\ "https" \in Forms[flags["--payout-url"]]
  /\ AdminId(Shape[flags["--id"]])
-----------------------------------------------------------------------------
(* The commands.                                                            *)

\* Registering, for the first time or again, allocates a fresh id.
Register ==
  /\ latest < MaxId
  /\ latest' = latest + 1
  /\ UNCHANGED <<acl, records, apiKey, job, asked, created>>

\* Variant: whatever is given is passed on.
GivenIdUnchecked(id) == id

\* The numeric id the operator gives; -1 when it is none.
GivenId(id) == IF id > 0 THEN id ELSE -1

CreateMaps(id) ==
  /\ job = NoJob
  /\ GivenId(id) # -1
  /\ job' = [id |-> id, todo |-> <<"state", "secrets">>]
  /\ asked' = asked \cup {id}
  /\ UNCHANGED <<latest, acl, records, apiKey, created>>

\* The running create-maps is through with a map, and after the last one it
\* reports success.
MapDone ==
  IF Len(job.todo) = 1
  THEN job' = NoJob /\ created' = created \cup {job.id}
  ELSE job' = [job EXCEPT !.todo = Tail(@)] /\ UNCHANGED created

\* Variant: a map that exists is given the new id.
CreateMapOverwrites ==
  /\ job # NoJob
  /\ acl' = [acl EXCEPT ![Head(job.todo)] = job.id]
  /\ MapDone
  /\ UNCHANGED <<latest, records, apiKey, asked>>

\* A map that does not exist is created for the given id alone; one that exists
\* is left as it is.  Either counts as success.
CreateMap ==
  /\ job # NoJob
  /\ acl' = [acl EXCEPT ![Head(job.todo)] = IF @ = NoMap THEN job.id ELSE @]
  /\ MapDone
  /\ UNCHANGED <<latest, records, apiKey, asked>>

\* Variant: any error is taken for "already exists".
CreateMapFailsQuietly ==
  /\ job # NoJob
  /\ MapDone
  /\ UNCHANGED <<latest, acl, records, apiKey, asked>>

\* Any other error ends the command: a refused or lost call, one that was
\* carried out but not answered, or the end of the process.
CreateMapFails ==
  /\ job # NoJob
  /\ acl' \in {acl, [acl EXCEPT ![Head(job.todo)] = IF @ = NoMap THEN job.id ELSE @]}
  /\ job' = NoJob
  /\ UNCHANGED <<latest, records, apiKey, asked, created>>

\* The records that add-vendor writes for some command line.
Registrable == {VendorOf(flags) : flags \in {f \in {ParseFlags(l) : l \in AddVendorLines} : Accepts(f)}}

\* A record is written under its own id, past the map's access list.
AddVendor(vendor) ==
  /\ acl["state"] # NoMap
  /\ records' = [records EXCEPT ![vendor.id] = vendor]
  /\ UNCHANGED <<latest, acl, apiKey, job, asked, created>>

\* A record is overwritten by the same control-plane call without the tool, with
\* something malformed.
WriteByHand(v) ==
  /\ records[v] # NoVendor
  /\ records' = [records EXCEPT ![v] = Damaged]
  /\ UNCHANGED <<latest, acl, apiKey, job, asked, created>>

SeedApiKey ==
  /\ acl["secrets"] # NoMap
  /\ apiKey' = TRUE
  /\ UNCHANGED <<latest, acl, records, job, asked, created>>

\* What show prints for a vendor: the owner reads past the access list as well.
Show(v) == records[v]
-----------------------------------------------------------------------------
\* create-maps can be run again until it is through: when it reported success
\* and was never run with another id, both maps exist and admit that id, whatever
\* failed on the way (admin.ts:181).
RerunCompletesSetup ==
  \A id \in created : asked = {id} => \A m \in Maps : acl[m] = id

\* What the contract asks of a vendor id before it reads the record
\* (policy.rs:345-351), and of the record: its id is the key (store.rs:65-70).
SafeIdentifier(s) ==
  /\ s.len \in 1 .. 64
  /\ {s.first} \cup s.rest \subseteq {"lower", "upper", "digit", "-", "_", "."}
  /\ ~s.dots

\* What add-vendor lets through the contract can use: it never answers such a
\* vendor's payments with an error about the id or the record, and the currency
\* is in the form to which the contract brings an intent's (admin.ts:219-222).
RegisteredVendorsAreUsable ==
  \A v \in VendorTexts : records[v] \notin {NoVendor, Damaged} =>
    /\ SafeIdentifier(Shape[v])
    /\ records[v].id = v
    /\ UpperCase[records[v].currency] = records[v].currency
=============================================================================

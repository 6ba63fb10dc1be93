-------------------------- MODULE Deployment_proofs ---------------------------
(***************************************************************************)
(* Proofs about a deployment, for any number of registrations and vendors,   *)
(* any cache lifetime and any clock.                                        *)
(***************************************************************************)
EXTENDS Deployment, Arithmetic_proofs

\* How far the setup is: which ids the maps may admit, and that create-maps has
\* made the maps it is past.
SetupInv ==
  /\ latest \in Nat
  /\ asked \subseteq Nat /\ created \subseteq asked
  /\ acl \in [Tenant!Maps -> asked \cup {NoMap}]
  /\ job # NoJob =>
       /\ job.id \in asked
       /\ \/ job.todo = <<"state", "secrets">>
          \/ job.todo = <<"secrets">> /\ acl["state"] # NoMap
  /\ created # {} => \A m \in Tenant!Maps : acl[m] # NoMap

\* The current version, or one that was still current at time t.
CurrentAt(v, t) == v = latest \/ (retiredAt[v] \in Nat /\ retiredAt[v] >= t)

\* Where a version comes from: it was current when the node was asked for it.
VersionInv ==
  /\ now \in Nat /\ began \in Nat /\ began <= now
  /\ fn \in Agent!Functions
  /\ retiredAt \in [Ids -> Nat \cup {Never}]
  /\ \A v \in Ids : v >= latest => retiredAt[v] = Never
  /\ latest \in 0 .. MaxId
  /\ pc \in {"idle", "resolve", "resolved", "call", "invoked"}
  /\ cached # NoVersion =>
       /\ cached.value \in 1 .. latest /\ cached.at \in Nat /\ cached.at <= now
       /\ CurrentAt(cached.value, cached.at)
  /\ pc \in {"resolve", "resolved"} => stamp \in Nat /\ began <= stamp /\ stamp <= now
  /\ pc = "resolved" => version \in 0 .. latest /\ (version # 0 => CurrentAt(version, stamp))
  /\ pc = "call" => version \in 1 .. latest

Payers ==
  /\ payers \subseteq Nat
  /\ OneContractPays

\* What the contract may say to a call of a function.
SaysTo(f) == CASE f = "payout" -> Agent!Statuses
               [] f = "check-payout" -> Agent!Decisions
               [] f = "get-policy" -> {"policy"}

Types ==
  /\ TypeOK
  /\ pc = "invoked" /\ said # Failed => said \in SaysTo(fn)

IInv == SetupInv /\ VersionInv /\ BoundedStaleness /\ Payers

LEMMA InitIInv == Init => IInv
<1>. SUFFICES ASSUME Init PROVE IInv
  OBVIOUS
<1>. USE DEF Init, Tenant!AdminInit, Agent!InvokerInit
<1>1. SetupInv
  BY DEF SetupInv
<1>2. VersionInv
  BY DeploymentAssumption DEF VersionInv, Agent!Functions
<1>3. BoundedStaleness /\ Payers
  BY DEF BoundedStaleness, Payers, OneContractPays
<1>. QED
  BY <1>1, <1>2, <1>3 DEF IInv
-----------------------------------------------------------------------------
(* What a step is, and what it leaves alone.                                *)

\* A step is one of the agent's or one of the owner's.
LEMMA Actions ==
  ASSUME Next
  PROVE  \/ \E v \in Asked : Agent!Begin("payout", v) /\ UNCHANGED <<admin, retiredAt, callHistory>>
         \/ \E v \in Asked :
              Agent!Begin("check-payout", v) /\ UNCHANGED <<admin, retiredAt, callHistory>>
         \/ Agent!Begin("get-policy", NoInput) /\ UNCHANGED <<admin, retiredAt, callHistory>>
         \/ Agent!NodeResolves /\ UNCHANGED <<admin, retiredAt, callHistory>>
         \/ Agent!Resolved /\ UNCHANGED <<admin, retiredAt, callHistory>>
         \/ Agent!Unresolved /\ UNCHANGED <<admin, retiredAt, callHistory>>
         \/ Agent!Tick /\ UNCHANGED <<admin, retiredAt, callHistory>>
         \/ \E says \in Agent!Says \cup {Failed} : Run(says)
         \/ NotServed
         \/ Agent!Return /\ said' = "none" /\ UNCHANGED <<admin, retiredAt, payers>>
         \/ Agent!Retry /\ said' = "none" /\ UNCHANGED <<admin, retiredAt, payers>>
         \/ Agent!Restart /\ said' = "none" /\ UNCHANGED <<admin, retiredAt, payers>>
         \/ Register /\ UNCHANGED <<invoker, callHistory>>
         \/ \E id \in IdTexts :
              Tenant!CreateMaps(id) /\ UNCHANGED <<retiredAt, invoker, callHistory>>
         \/ Tenant!CreateMap /\ UNCHANGED <<retiredAt, invoker, callHistory>>
         \/ Tenant!CreateMapFails /\ UNCHANGED <<retiredAt, invoker, callHistory>>
         \/ /\ UNCHANGED <<latest, acl, job, asked, created>> /\ apiKey' \in {apiKey, TRUE}
            /\ UNCHANGED <<retiredAt, invoker, callHistory>>
<1>1. CASE AgentStep
  BY <1>1 DEF AgentStep, Arrive
<1>2. CASE OwnerStep
  <2>1. ASSUME NEW vendor \in Tenant!Registrable, Tenant!AddVendor(vendor)
        PROVE  UNCHANGED <<latest, acl, job, asked, created>> /\ apiKey' \in {apiKey, TRUE}
    BY <2>1 DEF Tenant!AddVendor
  <2>2. ASSUME NEW v \in VendorTexts, Tenant!WriteByHand(v)
        PROVE  UNCHANGED <<latest, acl, job, asked, created>> /\ apiKey' \in {apiKey, TRUE}
    BY <2>2 DEF Tenant!WriteByHand
  <2>3. ASSUME Tenant!SeedApiKey
        PROVE  UNCHANGED <<latest, acl, job, asked, created>> /\ apiKey' \in {apiKey, TRUE}
    BY <2>3 DEF Tenant!SeedApiKey
  <2>. QED
    BY <1>2, <2>1, <2>2, <2>3 DEF OwnerStep
<1>. QED
  BY <1>1, <1>2 DEF Next

\* Registering moves only the id; a map, once past, stays made.
LEMMA SetupStep == SetupInv /\ [Next]_vars => SetupInv'
<1>. SUFFICES ASSUME SetupInv, [Next]_vars PROVE SetupInv'
  OBVIOUS
<1>. USE DeploymentAssumption DEF SetupInv, Tenant!Maps
<1>1. CASE UNCHANGED <<latest, acl, job, asked, created>>
  BY <1>1
<1>2. CASE Register
  BY <1>2 DEF Register, Tenant!Register
<1>3. ASSUME NEW id \in IdTexts, Tenant!CreateMaps(id) PROVE SetupInv'
  BY <1>3 DEF Tenant!CreateMaps
<1>4. CASE Tenant!CreateMap
  <2>1. CASE job.todo = <<"state", "secrets">>
    <3>1. job' = [job EXCEPT !.todo = <<"secrets">>] /\ created' = created
      BY <1>4, <2>1 DEF Tenant!CreateMap, Tenant!MapDone
    <3>2. acl' = [acl EXCEPT !["state"] = IF @ = NoMap THEN job.id ELSE @]
      BY <1>4, <2>1 DEF Tenant!CreateMap
    <3>3. job' # NoJob => job'.id \in asked /\ job'.todo = <<"secrets">>
      BY <1>4, <2>1, <3>1 DEF Tenant!CreateMap
    <3>. QED
      BY <1>4, <3>1, <3>2, <3>3 DEF Tenant!CreateMap
  <2>2. CASE job.todo = <<"secrets">> /\ acl["state"] # NoMap
    <3>1. job' = NoJob /\ created' = created \cup {job.id}
      BY <1>4, <2>2 DEF Tenant!CreateMap, Tenant!MapDone
    <3>2. acl' = [acl EXCEPT !["secrets"] = IF @ = NoMap THEN job.id ELSE @]
      BY <1>4, <2>2 DEF Tenant!CreateMap
    <3>. QED
      BY <1>4, <2>2, <3>1, <3>2 DEF Tenant!CreateMap
  <2>. QED
    BY <1>4, <2>1, <2>2 DEF Tenant!CreateMap
<1>5. CASE Tenant!CreateMapFails
  <2>1. job # NoJob /\ Head(job.todo) \in Tenant!Maps
    BY <1>5 DEF Tenant!CreateMapFails
  <2>. QED
    BY <1>5, <2>1 DEF Tenant!CreateMapFails
<1>6. CASE UNCHANGED vars
  BY <1>1, <1>6 DEF vars, admin
<1>7. ASSUME NEW says, Run(says) PROVE SetupInv'
  BY <1>1, <1>7 DEF Run, admin
<1>8. CASE NotServed
  BY <1>1, <1>8 DEF NotServed, admin
<1>. QED
  BY <1>1, <1>2, <1>3, <1>4, <1>5, <1>6, <1>7, <1>8, Actions DEF admin

\* The access list of a map that exists never changes.
LEMMA AccessIsFixed ==
  ASSUME SetupInv, [Next]_vars, NEW m \in Tenant!Maps, acl[m] # NoMap
  PROVE  acl'[m] = acl[m]
<1>. USE DEF SetupInv
<1>1. CASE UNCHANGED acl
  BY <1>1
<1>2. CASE Register
  BY <1>2 DEF Register, Tenant!Register
<1>3. ASSUME NEW id \in IdTexts, Tenant!CreateMaps(id) PROVE acl' = acl
  BY <1>3 DEF Tenant!CreateMaps
<1>4. CASE Tenant!CreateMap \/ Tenant!CreateMapFails
  BY <1>4 DEF Tenant!CreateMap, Tenant!CreateMapFails
<1>5. CASE UNCHANGED vars
  BY <1>5 DEF vars, admin
<1>6. ASSUME NEW says, Run(says) PROVE acl' = acl
  BY <1>6 DEF Run, admin
<1>7. CASE NotServed
  BY <1>7 DEF NotServed, admin
<1>. QED
  BY <1>1, <1>2, <1>3, <1>4, <1>5, <1>6, <1>7, Actions DEF admin
-----------------------------------------------------------------------------
(* Which version is called.                                                 *)

\* Registering keeps what was current until now, for a call that began before.
LEMMA VersionStep == VersionInv /\ BoundedStaleness /\ [Next]_vars => VersionInv' /\ BoundedStaleness'
<1>. SUFFICES ASSUME VersionInv, BoundedStaleness, [Next]_vars PROVE VersionInv' /\ BoundedStaleness'
  OBVIOUS
<1>. USE DeploymentAssumption DEF VersionInv, BoundedStaleness, CurrentAt, Ids, Tenant!Ids
<1>0. CASE UNCHANGED <<latest, retiredAt, invoker>>
  BY <1>0 DEF invoker
<1>1. ASSUME NEW f \in Agent!Functions, NEW i, Agent!Begin(f, i), UNCHANGED <<latest, retiredAt>>
      PROVE  VersionInv' /\ BoundedStaleness'
  <2>1. CASE Agent!Fresh
    BY <1>1, <2>1 DEF Agent!Begin, Agent!Fresh
  <2>2. CASE ~Agent!Fresh
    BY <1>1, <2>2 DEF Agent!Begin
  <2>. QED
    BY <2>1, <2>2
<1>2. ASSUME Agent!NodeResolves, UNCHANGED <<latest, retiredAt>>
      PROVE  VersionInv' /\ BoundedStaleness'
  BY <1>2 DEF Agent!NodeResolves
<1>3. ASSUME Agent!Resolved, UNCHANGED <<latest, retiredAt>>
      PROVE  VersionInv' /\ BoundedStaleness'
  BY <1>3 DEF Agent!Resolved
<1>4. ASSUME Agent!Unresolved \/ Agent!Return \/ Agent!Restart, UNCHANGED <<latest, retiredAt>>
      PROVE  VersionInv' /\ BoundedStaleness'
  BY <1>4 DEF Agent!Unresolved, Agent!Return, Agent!Restart, Agent!Finish, Agent!Functions
<1>5. ASSUME Agent!Tick, UNCHANGED <<latest, retiredAt>>
      PROVE  VersionInv' /\ BoundedStaleness'
  BY <1>5 DEF Agent!Tick
<1>6. ASSUME Agent!Retry, UNCHANGED <<latest, retiredAt>>
      PROVE  VersionInv' /\ BoundedStaleness'
  BY <1>6 DEF Agent!Retry
<1>7. ASSUME Agent!Invoke, UNCHANGED <<latest, retiredAt>>
      PROVE  VersionInv' /\ BoundedStaleness'
  BY <1>7 DEF Agent!Invoke
<1>8. ASSUME Register, UNCHANGED invoker
      PROVE  VersionInv' /\ BoundedStaleness'
  <2>1. latest' = latest + 1 /\ latest' \in 0 .. MaxId
    BY <1>8 DEF Register, Tenant!Register
  <2>2. /\ retiredAt' \in [Ids -> Nat \cup {Never}]
        /\ \A v \in Ids : v >= latest' => retiredAt'[v] = Never
        /\ \A v \in Ids : v # latest => retiredAt'[v] = retiredAt[v]
        /\ latest # 0 => retiredAt'[latest] = now
    BY <1>8, <2>1 DEF Register
  <2>3. ASSUME NEW v \in 1 .. latest, NEW t \in Nat, t <= now, CurrentAt(v, t)
        PROVE  CurrentAt(v, t)'
    BY <2>1, <2>2, <2>3
  <2>4. UNCHANGED <<now, cached, pc, fn, began, stamp, version>>
    BY <1>8 DEF invoker
  <2>5. cached # NoVersion => CurrentAt(cached.value, cached.at)'
    BY <2>3, <2>4
  <2>6. pc = "resolved" /\ version # 0 => CurrentAt(version, stamp)'
    BY <2>3, <2>4
  <2>7. VersionInv'
    BY <2>1, <2>2, <2>4, <2>5, <2>6
  <2>8. BoundedStaleness'
    BY <2>1, <2>2, <2>4
  <2>. QED
    BY <2>7, <2>8
<1>9. ASSUME NEW says, Run(says) PROVE VersionInv' /\ BoundedStaleness'
  BY <1>7, <1>9 DEF Run, admin
<1>10. CASE NotServed
  BY <1>7, <1>10 DEF NotServed, admin
<1>11. ASSUME NEW id \in IdTexts, Tenant!CreateMaps(id) PROVE latest' = latest
  BY <1>11 DEF Tenant!CreateMaps
<1>12. ASSUME Tenant!CreateMap \/ Tenant!CreateMapFails PROVE latest' = latest
  BY <1>12 DEF Tenant!CreateMap, Tenant!CreateMapFails
<1>13. CASE UNCHANGED vars
  BY <1>0, <1>13 DEF vars, admin
<1>14. {"payout", "check-payout", "get-policy"} = Agent!Functions
  BY DEF Agent!Functions
<1>. QED
  BY <1>0, <1>1, <1>2, <1>3, <1>4, <1>5, <1>6, <1>7, <1>8, <1>9, <1>10, <1>11, <1>12, <1>13, <1>14,
     Actions DEF admin
-----------------------------------------------------------------------------
(* Who pays.                                                                *)

\* Only a contract that reads both maps posts.
LEMMA PostsReads ==
  ASSUME NEW id, NEW v, Posts(id, v)
  PROVE  \A m \in Tenant!Maps : acl[m] = id
<1>1. acl["secrets"] = id
  BY DEF Posts, HasKey, CanRead
<1>2. acl["state"] = id
  <2>1. SUFFICES ASSUME ReadVendor(id, v) = NoVendor PROVE FALSE
    BY DEF ReadVendor, CanRead
  <2>2. CheckSays(id, v) = {"deny"}
    BY <2>1, DeploymentAssumption DEF CheckSays
  <2>. QED
    BY <2>2 DEF Posts
<1>. QED
  BY <1>1, <1>2 DEF Tenant!Maps

LEMMA PayersStep == IInv /\ [Next]_vars => Payers'
<1>. SUFFICES ASSUME IInv, [Next]_vars PROVE Payers'
  OBVIOUS
<1>. USE DEF IInv, Payers
<1>0. ASSUME payers' = payers PROVE Payers'
  <2>. SUFFICES ASSUME NEW id \in payers, NEW m \in Tenant!Maps PROVE acl'[m] = id
    BY <1>0 DEF OneContractPays
  <2>1. acl[m] = id /\ acl[m] # NoMap
    BY DeploymentAssumption DEF OneContractPays
  <2>. QED
    BY <2>1, AccessIsFixed
<1>1. ASSUME NEW says, Run(says) PROVE Payers'
  <2>1. payers' # payers => Posts(version, input)
    <3>1. CASE says = "paid"
      <4>0. "paid" # Failed
        BY DeploymentAssumption
      <4>1. "paid" \notin CheckSays(version, input)
        <5>1. \/ CheckSays(version, input) = {Failed}
              \/ CheckSays(version, input) = {"deny"}
              \/ CheckSays(version, input) = {"allow", "review", "deny"}
          BY DEF CheckSays
        <5>. QED
          BY <4>0, <5>1
      <4>2. "paid" \notin PolicySays(version)
        <5>1. PolicySays(version) = {Failed} \/ PolicySays(version) = {"policy"}
          BY DEF PolicySays
        <5>. QED
          BY <4>0, <5>1
      <4>3. fn \in {"payout", "check-payout", "get-policy"}
        BY DEF VersionInv, Agent!Functions
      <4>4. "paid" \in PayoutSays(version, input)
        BY <1>1, <3>1, <4>1, <4>2, <4>3 DEF Run
      <4>. QED
        BY <4>0, <4>4 DEF PayoutSays
    <3>2. CASE says # "paid"
      BY <1>1, <3>2 DEF Run
    <3>. QED
      BY <3>1, <3>2
  <2>2. payers' \subseteq payers \cup {version} /\ acl' = acl
    BY <1>1 DEF Run, admin
  <2>3. version \in Nat
    BY <1>1 DEF Run, Agent!Invoke, VersionInv
  <2>4. CASE payers' = payers
    BY <1>0, <2>4
  <2>5. CASE payers' # payers
    BY <2>1, <2>2, <2>3, <2>5, PostsReads DEF OneContractPays
  <2>. QED
    BY <2>4, <2>5
<1>2. CASE UNCHANGED vars
  BY <1>0, <1>2 DEF vars, callHistory
<1>3. CASE NotServed
  BY <1>0, <1>3 DEF NotServed
<1>. QED
  BY <1>0, <1>1, <1>2, <1>3, Actions DEF callHistory
-----------------------------------------------------------------------------
(* The command line.                                                        *)

\* The last of some places is one of them.
LEMMA LastPlace ==
  ASSUME NEW n \in Nat, NEW S, S \subseteq 1 .. n, S # {}
  PROVE  Tenant!Max(S) \in S
<1>1. PICK last \in S : \A y \in S : last >= y
  BY HasLast
<1>. QED
  BY <1>1 DEF Tenant!Max

\* What follows a flag on the command line is a text, or the flag is bare.
LEMMA ParsedText ==
  ASSUME NEW l \in AddVendorLines, NEW flag \in DOMAIN Tenant!ParseFlags(l)
  PROVE  Tenant!ParseFlags(l)[flag] \in Texts \cup {"bare"}
<1>. DEFINE At == {i \in DOMAIN l : l[i] = flag}
            i == Tenant!Max(At)
<1>1. l \in Seq(Texts \cup Tenant!FlagNames)
  BY TextAssumption
<1>2. At \subseteq 1 .. Len(l) /\ At # {}
  BY <1>1 DEF Tenant!ParseFlags
<1>3. i \in At
  <2>1. Len(l) \in Nat
    BY <1>1
  <2>. HIDE DEF At
  <2>. QED
    BY <1>2, <2>1, LastPlace
<1>4. Tenant!ParseFlags(l)[flag]
        = IF i < Len(l) /\ l[i + 1] \notin Tenant!FlagNames THEN l[i + 1] ELSE "bare"
  BY <1>2 DEF Tenant!ParseFlags
<1>5. i \in 1 .. Len(l)
  BY <1>2, <1>3
<1>. HIDE DEF i
<1>. QED
  BY <1>1, <1>4, <1>5

\* Whatever command line it comes from, a record has a currency in upper case, and
\* an id the contract takes.
LEMMA RegistrableIsUsable ==
  ASSUME NEW vendor \in Tenant!Registrable
  PROVE  /\ vendor.id \in VendorTexts => Tenant!SafeIdentifier(Shape[vendor.id])
         /\ UpperCase[vendor.currency] = vendor.currency
<1>1. PICK l \in AddVendorLines :
        Tenant!Accepts(Tenant!ParseFlags(l)) /\ vendor = Tenant!VendorOf(Tenant!ParseFlags(l))
  BY DEF Tenant!Registrable
<1>. DEFINE flags == Tenant!ParseFlags(l)
<1>2. Tenant!Need(flags) /\ "AAA" \in Forms[UpperCase[flags["--currency"]]]
      /\ Tenant!AdminId(Shape[flags["--id"]])
  BY <1>1 DEF Tenant!Accepts
<1>3. vendor.id = flags["--id"] /\ vendor.currency = UpperCase[flags["--currency"]]
  BY <1>1 DEF Tenant!VendorOf
<1>4. UpperCase[vendor.currency] = vendor.currency
  <2>1. "--currency" \in DOMAIN flags /\ flags["--currency"] # "bare"
    BY <1>2 DEF Tenant!Need, Tenant!Needed, Tenant!FlagNames
  <2>2. flags["--currency"] \in Texts
    BY <2>1, ParsedText
  <2>. QED
    BY <1>2, <1>3, <2>2, TextAssumption
<1>5. ASSUME vendor.id \in VendorTexts PROVE Tenant!SafeIdentifier(Shape[vendor.id])
  <2>. DEFINE s == Shape[vendor.id]
  <2>0. Tenant!AdminId(s)
    BY <1>2, <1>3
  <2>1. Tenant!AdminId(s) /\ (s.dots => "." \in s.rest)
    BY <2>0, <1>5, TextAssumption
  <2>2. s.len \in 1 .. 64
    <3>. DEFINE len == s.len
    <3>1. len \in 2 .. 63
      BY <2>0 DEF Tenant!AdminId
    <3>. HIDE DEF len
    <3>2. len \in 1 .. 64
      BY <3>1
    <3>. QED
      BY <3>2 DEF len
  <2>. HIDE DEF s
  <2>3. ~s.dots
    BY <2>1 DEF Tenant!AdminId
  <2>4. {s.first} \cup s.rest \subseteq {"lower", "upper", "digit", "-", "_", "."}
    BY <2>1 DEF Tenant!AdminId
  <2>5. Tenant!SafeIdentifier(s)
    BY <2>2, <2>3, <2>4 DEF Tenant!SafeIdentifier
  <2>. QED
    BY <2>5 DEF s
<1>. QED
  BY <1>4, <1>5
-----------------------------------------------------------------------------
(* The registry.                                                            *)

Registry ==
  /\ records = [v \in VendorTexts |-> records[v]]
  /\ RegisteredVendorsAreUsable

LEMMA RegistryInit == Init => Registry
BY DEF Init, Tenant!AdminInit, Registry, RegisteredVendorsAreUsable,
       Tenant!RegisteredVendorsAreUsable

\* Only add-vendor and a hand write records.
LEMMA Writers ==
  ASSUME [Next]_vars
  PROVE  \/ UNCHANGED records
         \/ \E vendor \in Tenant!Registrable : records' = [records EXCEPT ![vendor.id] = vendor]
         \/ \E v \in VendorTexts : records' = [records EXCEPT ![v] = Damaged]
<1>1. CASE AgentStep
  <2>1. ASSUME NEW says, Run(says) PROVE UNCHANGED records
    BY <2>1 DEF Run, admin
  <2>. QED
    BY <1>1, <2>1 DEF AgentStep, NotServed, Arrive, admin
<1>2. CASE OwnerStep
  <2>1. ASSUME NEW id, Tenant!CreateMaps(id) PROVE UNCHANGED records
    BY <2>1 DEF Tenant!CreateMaps
  <2>2. ASSUME NEW vendor \in Tenant!Registrable, Tenant!AddVendor(vendor)
        PROVE  records' = [records EXCEPT ![vendor.id] = vendor]
    BY <2>2 DEF Tenant!AddVendor
  <2>3. ASSUME NEW v \in VendorTexts, Tenant!WriteByHand(v)
        PROVE  records' = [records EXCEPT ![v] = Damaged]
    BY <2>3 DEF Tenant!WriteByHand
  <2>4. ASSUME Register \/ Tenant!CreateMap \/ Tenant!CreateMapFails \/ Tenant!SeedApiKey
        PROVE  UNCHANGED records
    BY <2>4 DEF Register, Tenant!Register, Tenant!CreateMap, Tenant!CreateMapFails,
                Tenant!SeedApiKey
  <2>. QED
    BY <1>2, <2>1, <2>2, <2>3, <2>4 DEF OwnerStep
<1>3. CASE UNCHANGED vars
  BY <1>3 DEF vars, admin
<1>. QED
  BY <1>1, <1>2, <1>3 DEF Next

LEMMA RegistryStep == Registry /\ [Next]_vars => Registry'
<1>. SUFFICES ASSUME Registry, [Next]_vars PROVE Registry'
  OBVIOUS
<1>. USE DEF Registry, RegisteredVendorsAreUsable, Tenant!RegisteredVendorsAreUsable
<1>1. CASE UNCHANGED records
  BY <1>1
<1>2. ASSUME NEW vendor \in Tenant!Registrable, records' = [records EXCEPT ![vendor.id] = vendor]
      PROVE  Registry'
  BY <1>2, RegistrableIsUsable
<1>3. ASSUME NEW v \in VendorTexts, records' = [records EXCEPT ![v] = Damaged]
      PROVE  Registry'
  BY <1>3
<1>. QED
  BY <1>1, <1>2, <1>3, Writers
-----------------------------------------------------------------------------
(* What is answered.                                                        *)

\* The contract answers a call with what there is to say to it, or fails.
LEMMA Spoken ==
  ASSUME NEW says, Run(says), fn \in Agent!Functions
  PROVE  says \in SaysTo(fn) \cup {Failed}
<1>. USE DEF SaysTo, Agent!Statuses, Agent!Decisions
<1>1. CASE fn = "payout"
  <2>1. says \in PayoutSays(version, input)
    BY <1>1 DEF Run
  <2>2. PayoutSays(version, input) \subseteq {Failed, "refused", "paid", "upstream_error"}
    BY DEF PayoutSays
  <2>. QED
    BY <1>1, <2>1, <2>2
<1>2. CASE fn = "check-payout"
  <2>1. says \in CheckSays(version, input)
    BY <1>2 DEF Run
  <2>2. CheckSays(version, input) \subseteq {Failed, "allow", "review", "deny"}
    BY DEF CheckSays
  <2>. QED
    BY <1>2, <2>1, <2>2
<1>3. CASE fn = "get-policy"
  <2>1. says \in PolicySays(version)
    BY <1>3 DEF Run
  <2>2. PolicySays(version) \subseteq {Failed, "policy"}
    BY DEF PolicySays
  <2>. QED
    BY <1>3, <2>1, <2>2
<1>. QED
  BY <1>1, <1>2, <1>3 DEF Agent!Functions

\* Such an answer has the shape the invoker asks for.
LEMMA AnswerPasses ==
  ASSUME NEW f \in Agent!Functions, NEW says \in SaysTo(f)
  PROVE  Agent!Validated(f, Answer(f, says)) = says
<1>. DEFINE a == Answer(f, says)
<1>1. a.says = says /\ a.fields = FieldsOf(f, says)
  BY DEF Answer
<1>2. \A x \in Agent!Fields(f) :
        FieldsOf(f, says)[x]
          = IF (says = "refused" /\ x = "reference") \/ (says = "upstream_error" /\ x = "reasons")
            THEN "missing" ELSE "good"
  BY DEF FieldsOf
<1>3. Agent!Required[f] \subseteq Agent!Fields(f) /\ Agent!Optional[f] \subseteq Agent!Fields(f)
  BY DEF Agent!Fields
<1>4. "reference" \notin Agent!Required[f] /\ "reasons" \notin Agent!Required[f]
  BY DEF Agent!Required, Agent!Functions
<1>5. \A x \in Agent!Required[f] : a.fields[x] = "good"
  BY <1>1, <1>2, <1>3, <1>4
<1>6. \A x \in Agent!Optional[f] : a.fields[x] # "wrong"
  BY <1>1, <1>2, <1>3
<1>7. ASSUME f = "payout", says = "paid" PROVE a.fields["reference"] = "good"
  <2>1. "reference" \in Agent!Fields(f)
    BY <1>7 DEF Agent!Fields
  <2>. QED
    BY <1>1, <1>2, <1>7, <2>1
<1>8. Agent!WellShaped(f, a)
  BY <1>1, <1>5, <1>6, <1>7 DEF Agent!WellShaped
<1>. QED
  BY <1>1, <1>8 DEF Agent!Validated
-----------------------------------------------------------------------------
(* The types.                                                               *)

\* What the types say of the agent, and of the setup.
AgentTypes ==
  /\ now \in 0 .. MaxNow
  /\ cached # NoVersion => cached \in [value : Ids, at : 0 .. MaxNow]
  /\ pc \in {"idle", "resolve", "resolved", "call", "invoked"}
  /\ fn \in Agent!Functions /\ input \in VendorTexts \cup {NoInput}
  /\ version \in 0 .. MaxId
  /\ said \in Agent!Says \cup {"none", Failed}
  /\ pc = "invoked" /\ said # Failed => said \in SaysTo(fn)

OwnerTypes ==
  /\ latest \in 0 .. MaxId
  /\ \A m \in Tenant!Maps : acl[m] \in (IdTexts \ {0}) \cup {NoMap}
  /\ apiKey \in BOOLEAN
  /\ asked \subseteq IdTexts \ {0} /\ created \subseteq asked

LEMMA TypesInit == Init => Types
<1>. SUFFICES ASSUME Init PROVE Types
  OBVIOUS
<1>. USE DeploymentAssumption DEF Init, Tenant!AdminInit, Agent!InvokerInit
<1>1. AgentTypes
  BY DEF AgentTypes, Agent!Functions
<1>2. OwnerTypes
  <2>1. latest \in 0 .. MaxId /\ asked \subseteq IdTexts \ {0} /\ created \subseteq asked
    OBVIOUS
  <2>2. \A m \in Tenant!Maps : acl[m] \in (IdTexts \ {0}) \cup {NoMap}
    OBVIOUS
  <2>3. apiKey \in BOOLEAN
    BY Zenon
  <2>. QED
    BY <2>1, <2>2, <2>3 DEF OwnerTypes
<1>. QED
  BY <1>1, <1>2 DEF Types, TypeOK, AgentTypes, OwnerTypes

LEMMA AgentTypesStep == IInv /\ AgentTypes /\ [Next]_vars => AgentTypes'
<1>. SUFFICES ASSUME IInv, AgentTypes, [Next]_vars PROVE AgentTypes'
  OBVIOUS
<1>0. latest \in 0 .. MaxId
  BY DEF IInv, VersionInv
<1>. USE DeploymentAssumption DEF AgentTypes
<1>1. CASE UNCHANGED <<invoker, callHistory>>
  BY <1>1 DEF invoker, callHistory, SaysTo
<1>2. ASSUME NEW f \in Agent!Functions, NEW i \in VendorTexts \cup {NoInput}, Agent!Begin(f, i),
             UNCHANGED callHistory
      PROVE  AgentTypes'
  BY <1>2 DEF Agent!Begin, Agent!Fresh, callHistory, Ids, Tenant!Ids
<1>3. ASSUME Agent!NodeResolves, UNCHANGED callHistory PROVE AgentTypes'
  BY <1>0, <1>3 DEF Agent!NodeResolves, callHistory
<1>4. ASSUME Agent!Resolved, UNCHANGED callHistory PROVE AgentTypes'
  <2>1. stamp \in 0 .. MaxNow
    BY <1>4 DEF IInv, VersionInv, Agent!Resolved
  <2>2. version \in Ids
    BY <1>4 DEF Agent!Resolved, Ids, Tenant!Ids
  <2>. QED
    BY <1>4, <2>1, <2>2 DEF Agent!Resolved, callHistory
<1>5. ASSUME Agent!Unresolved, UNCHANGED callHistory PROVE AgentTypes'
  BY <1>5 DEF Agent!Unresolved, Agent!Finish, Agent!Functions, callHistory
<1>6. ASSUME Agent!Tick, UNCHANGED callHistory PROVE AgentTypes'
  <2>1. now' \in 0 .. MaxNow
    BY <1>6 DEF Agent!Tick
  <2>2. UNCHANGED <<cached, pc, fn, input, version, said>>
    BY <1>6 DEF Agent!Tick, callHistory
  <2>. QED
    BY <2>1, <2>2 DEF SaysTo
<1>7. ASSUME NEW says \in Agent!Says \cup {Failed}, Run(says) PROVE AgentTypes'
  <2>1. says \in SaysTo(fn) \cup {Failed}
    BY <1>7, Spoken
  <2>2. said' = says /\ Agent!Invoke
    BY <1>7 DEF Run
  <2>. QED
    BY <1>7, <2>1, <2>2 DEF Agent!Invoke, SaysTo
<1>8. CASE NotServed
  BY <1>8 DEF NotServed, Agent!Invoke
<1>9. ASSUME Agent!Return \/ Agent!Retry \/ Agent!Restart, said' = "none" PROVE AgentTypes'
  BY <1>9 DEF Agent!Return, Agent!Retry, Agent!Restart, Agent!Finish, Agent!Functions
<1>10. CASE UNCHANGED vars
  BY <1>1, <1>10 DEF vars
<1>11. {"payout", "check-payout", "get-policy"} = Agent!Functions /\ Asked \subseteq VendorTexts
  BY DEF Agent!Functions
<1>. QED
  BY <1>1, <1>2, <1>3, <1>4, <1>5, <1>6, <1>7, <1>8, <1>9, <1>10, <1>11, Actions

LEMMA OwnerTypesStep == IInv /\ OwnerTypes /\ [Next]_vars => OwnerTypes'
<1>. SUFFICES ASSUME IInv, OwnerTypes, [Next]_vars PROVE OwnerTypes'
  OBVIOUS
<1>. USE DeploymentAssumption DEF OwnerTypes
<1>1. ASSUME UNCHANGED <<latest, acl, job, asked, created>>, apiKey' \in {apiKey, TRUE}
      PROVE  OwnerTypes'
  BY <1>1
<1>2. CASE UNCHANGED admin
  BY <1>1, <1>2 DEF admin
<1>3. CASE Register
  BY <1>3 DEF Register, Tenant!Register
<1>4. ASSUME NEW id \in IdTexts, Tenant!CreateMaps(id) PROVE OwnerTypes'
  <2>1. id \in IdTexts \ {0}
    BY <1>4 DEF Tenant!CreateMaps, Tenant!GivenId
  <2>. QED
    BY <1>4, <2>1 DEF Tenant!CreateMaps
<1>5. ASSUME Tenant!CreateMap \/ Tenant!CreateMapFails PROVE OwnerTypes'
  <2>1. job # NoJob /\ job.id \in IdTexts \ {0}
    BY <1>5 DEF Tenant!CreateMap, Tenant!CreateMapFails, IInv, SetupInv
  <2>2. \A m \in Tenant!Maps : acl'[m] \in {acl[m], job.id}
    <3>1. acl = [m \in Tenant!Maps |-> acl[m]]
      BY DEF IInv, SetupInv
    <3>. QED
      BY <1>5, <3>1 DEF Tenant!CreateMap, Tenant!CreateMapFails
  <2>3. created' \subseteq asked'
    BY SetupStep DEF IInv, SetupInv
  <2>4. UNCHANGED <<latest, apiKey, asked>>
    BY <1>5 DEF Tenant!CreateMap, Tenant!CreateMapFails
  <2>. QED
    BY <2>1, <2>2, <2>3, <2>4
<1>6. ASSUME NEW says, Run(says) PROVE UNCHANGED admin
  BY <1>6 DEF Run
<1>7. CASE NotServed
  BY <1>2, <1>7 DEF NotServed
<1>8. CASE UNCHANGED vars
  BY <1>2, <1>8 DEF vars
<1>. QED
  BY <1>1, <1>2, <1>3, <1>4, <1>5, <1>6, <1>7, <1>8, Actions

\* Only a version that exists is invoked.
LEMMA PayersAreIds ==
  ASSUME payers \subseteq Ids, IInv, [Next]_vars
  PROVE  (payers \subseteq Ids)'
<1>. USE DEF Ids, Tenant!Ids
<1>1. ASSUME NEW says, Run(says) PROVE payers' \subseteq payers \cup {version} /\ version \in Ids
  BY <1>1, DeploymentAssumption DEF Run, IInv, VersionInv, Agent!Invoke
<1>2. CASE NotServed
  BY <1>2 DEF NotServed
<1>3. CASE UNCHANGED vars
  BY <1>3 DEF vars, callHistory
<1>4. CASE UNCHANGED payers
  BY <1>4
<1>. QED
  BY <1>1, <1>2, <1>3, <1>4, Actions DEF callHistory
-----------------------------------------------------------------------------
(* The theorems.                                                            *)

\* The setup, the versions and the payers stay as described above, whatever the
\* owner registers and wherever create-maps ends.
THEOREM Invariance == Spec => []IInv
<1>1. IInv /\ [Next]_vars => IInv'
  BY SetupStep, VersionStep, PayersStep DEF IInv
<1>. QED
  BY InitIInv, <1>1, PTL DEF Spec

\* The version an agent invokes is the current one or was so within the cache's
\* lifetime before the call began (invoker.ts:121-135).
THEOREM StaleNoLongerThanTheCache == Spec => []BoundedStaleness
<1>1. IInv => BoundedStaleness
  BY DEF IInv
<1>. QED
  BY <1>1, Invariance, PTL

\* However often the contract is registered again, one contract posts payouts
\* (admin.ts:137-140, admin.ts:202).
THEOREM OnePayer == Spec => []OneContractPays
<1>1. IInv => OneContractPays
  BY DEF IInv, Payers
<1>. QED
  BY <1>1, Invariance, PTL

\* create-maps, run until it reports success and with one id only, leaves both
\* maps to that id (admin.ts:181).
THEOREM SetupCompletes == Spec => []RerunCompletesSetup
<1>1. IInv => RerunCompletesSetup
  BY DEF IInv, SetupInv, RerunCompletesSetup, Tenant!RerunCompletesSetup
<1>. QED
  BY <1>1, Invariance, PTL

\* What add-vendor lets through, the contract can use: an id it takes, a record
\* under its own id, a currency in upper case (admin.ts:219-222).
THEOREM Usable == Spec => []RegisteredVendorsAreUsable
<1>1. Registry => RegisteredVendorsAreUsable
  BY DEF Registry
<1>. QED
  BY <1>1, RegistryInit, RegistryStep, PTL DEF Spec

\* Every version and map is what it is taken for, and what the contract said is one
\* of the things there are to say to the call it ran for.
THEOREM TypesHold == Spec => []Types
<1>1. IInv /\ Types /\ [Next]_vars => Types'
  <2>. SUFFICES ASSUME IInv, Types, [Next]_vars PROVE Types'
    OBVIOUS
  <2>1. AgentTypes'
    BY AgentTypesStep DEF Types, TypeOK, AgentTypes
  <2>2. OwnerTypes'
    BY OwnerTypesStep DEF Types, TypeOK, OwnerTypes
  <2>3. (payers \subseteq Ids)'
    BY PayersAreIds DEF Types, TypeOK
  <2>. QED
    BY <2>1, <2>2, <2>3 DEF Types, TypeOK, AgentTypes, OwnerTypes
<1>. QED
  BY TypesInit, <1>1, Invariance, PTL DEF Spec

\* The part of it the run checks.
THEOREM TypesOK == Spec => []TypeOK
<1>1. Types => TypeOK
  BY DEF Types
<1>. QED
  BY <1>1, TypesHold, PTL

\* Nothing the contract says is rejected if it arrives whole, and nothing garbled
\* is taken for another answer (validate.ts:4-9).
THEOREM AnswersPass == Spec => []AnswersSurvive
<1>1. Types => AnswersSurvive
  <2>. SUFFICES ASSUME Types, pc = "invoked", said # Failed
                PROVE  /\ Agent!Validated(fn, Answer(fn, said)) = said
                       /\ \A answer \in Arriving(fn, said) : Agent!Validated(fn, answer) \in {"error", said}
    BY DEF AnswersSurvive
  <2>1. fn \in Agent!Functions /\ said \in SaysTo(fn)
    BY DEF Types, TypeOK
  <2>2. \A answer \in Arriving(fn, said) : answer.says = said
    BY DEF Arriving, Answer
  <2>. QED
    BY <2>1, <2>2, AnswerPasses DEF Agent!Validated
<1>. QED
  BY <1>1, TypesHold, PTL
=============================================================================

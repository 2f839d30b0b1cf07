--------------------------- MODULE GatewaysProofs ---------------------------
(***************************************************************************)
(* The behaviours of MCGateways are, each, behaviours of AwsGateway,       *)
(* GcpGateway, GcpRoutes and GcpIdentity that leave the others' variables  *)
(* alone: what is proved of each of them holds of every one of its runs.   *)
(***************************************************************************)
EXTENDS MCGateways, FiniteSetTheorems, SequenceTheorems, TLAPS

GP == INSTANCE GcpGatewayProofs WITH
  MaxFaults <- MaxGcpFaults,
  wanted <- gcpWanted, faults <- gcpFaults, crashes <- gcpCrashes
RP == INSTANCE GcpRoutesProofs WITH route <- nextHop
IP == INSTANCE GcpIdentityProofs WITH
  Agents <- AddressAgents, Nobody <- None, MaxFaults <- MaxAddressFaults,
  pending <- changing, owner <- holder, call <- calls, used <- spent

(***************************************************************************)
(* The address.                                                            *)
(***************************************************************************)

LEMMA IdentityNext == Identity!Next <=> IP!Next
BY DEF Identity!Next, IP!Next, Identity!Idle, IP!Idle, Identity!DescribePublicIdentity,
    IP!DescribePublicIdentity, Identity!Holder, IP!Holder, Identity!Count, IP!Count,
    Identity!Fault, IP!Fault, Identity!Change, IP!Change, Identity!NoFault,
    IP!NoFault, Identity!Resting, IP!Resting, Identity!Disturbed, IP!Disturbed,
    Identity!Begin, IP!Begin, Identity!Ensure, IP!Ensure, Identity!Activate,
    IP!Activate, Identity!Transfer, IP!Transfer, Identity!Revert, IP!Revert,
    Identity!On, IP!On, Identity!After, IP!After, Identity!Go, IP!Go,
    Identity!Inspect, IP!Inspect, Identity!Request, IP!Request, Identity!Complete,
    IP!Complete, Identity!PollFails, IP!PollFails, Identity!Replaced, IP!Replaced

(* MCGateways composes GcpIdentity as it is.                               *)
LEMMA IdentityComposed == MCSpec => IP!Spec
<1>1. MCInit => IP!Init
  BY DEF MCInit, Identity!Init, IP!Init, Identity!Idle, IP!Idle
<1>2. [MCNext]_allVars => [IP!Next]_(IP!vars)
  BY IdentityNext
  DEF MCNext, OnAws, OnGcp, OnRoute, OnAddress, addressVars, allVars, IP!vars
<1> QED BY <1>1, <1>2, PTL DEF MCSpec, IP!Spec

LEMMA IdentityConstants == IP!ConstantsOK
BY CloudConstants DEF Identity!ConstantsOK, IP!ConstantsOK

(* Every variable of the address's part keeps its type.                    *)
THEOREM IdentityTypesHold == MCSpec => []IdentityTypeOK
<1>1. IP!Spec => []IP!IdentityTypeOK  BY IdentityConstants, IP!IdentityTypeCorrect
<1>2. IP!IdentityTypeOK => IdentityTypeOK
  BY DEF IdentityTypeOK, Identity!IdentityTypeOK, IP!IdentityTypeOK
<1> QED BY <1>1, <1>2, IdentityComposed, PTL

(* An AssociateEIP that reports success has moved the shared address.      *)
THEOREM SuccessHolds == MCSpec => []SuccessIsTrue
<1>1. IP!Spec => []IP!SuccessIsTrue  BY IdentityConstants, IP!AssociationIsTrue
<1>2. IP!SuccessIsTrue => SuccessIsTrue
  BY DEF SuccessIsTrue, Identity!SuccessIsTrue, IP!SuccessIsTrue
<1> QED BY <1>1, <1>2, IdentityComposed, PTL

(***************************************************************************)
(* The route.                                                              *)
(***************************************************************************)

LEMMA RoutesNext == Routes!Next <=> RP!Next
BY DEF Routes!Next, RP!Next, Routes!Names, RP!Names, Routes!Idle, RP!Idle,
    Routes!Nothing, RP!Nothing, Routes!Traffic, RP!Traffic, Routes!Count, RP!Count,
    Routes!Failure, RP!Failure, Routes!Unknown, RP!Unknown, Routes!NoFault,
    RP!NoFault, Routes!NameAt, RP!NameAt, Routes!TargetAt, RP!TargetAt,
    Routes!Deletes, RP!Deletes, Routes!After, RP!After, Routes!Restore, RP!Restore,
    Routes!AfterRefusal, RP!AfterRefusal, Routes!AfterFailure, RP!AfterFailure,
    Routes!Go, RP!Go, Routes!DescribeRoute, RP!DescribeRoute, Routes!Begin, RP!Begin,
    Routes!Ensure, RP!Ensure, Routes!Handover, RP!Handover, Routes!Attempt, RP!Attempt,
    Routes!Describe, RP!Describe, Routes!Steps, RP!Steps, Routes!Request,
    RP!Request, Routes!Complete, RP!Complete, Routes!PollFails, RP!PollFails,
    Routes!GiveUp, RP!GiveUp, Routes!TakeOver, RP!TakeOver

LEMMA RoutesComposed == MCSpec => RP!Spec
<1>1. MCInit => RP!Init
  BY DEF MCInit, Routes!Init, RP!Init, Routes!Idle, RP!Idle, Routes!Nothing, RP!Nothing,
         Routes!Names, RP!Names
<1>2. [MCNext]_allVars => [RP!Next]_(RP!vars)
  BY RoutesNext
  DEF MCNext, OnAws, OnGcp, OnRoute, OnAddress, routeVars, allVars, RP!vars
<1> QED BY <1>1, <1>2, PTL DEF MCSpec, RP!Spec

LEMMA RoutesConstants == RP!ConstantsOK
BY CloudConstants DEF Routes!ConstantsOK, RP!ConstantsOK

(* Every variable of the route's part keeps its type.                      *)
THEOREM RoutesTypesHold == MCSpec => []RoutesTypeOK
<1>1. RP!Spec => []RP!RoutesTypeOK  BY RoutesConstants, RP!RoutesTypeCorrect
<1>2. RP!RoutesTypeOK => RoutesTypeOK
  BY DEF RoutesTypeOK, Routes!RoutesTypeOK, RP!RoutesTypeOK, Routes!Names, RP!Names,
         Routes!Steps, RP!Steps
<1> QED BY <1>1, <1>2, RoutesComposed, PTL

(* One failure of a replacement costs clients no route.                    *)
THEOREM RouteHolds == MCSpec => []OneFailureKeepsRoute
<1>1. RP!Spec => []RP!OneFailureKeepsRoute  BY RoutesConstants, RP!RouteSurvivesOneFailure
<1>2. RP!OneFailureKeepsRoute => OneFailureKeepsRoute
  BY DEF OneFailureKeepsRoute, Routes!OneFailureKeepsRoute, RP!OneFailureKeepsRoute,
         Routes!Traffic, RP!Traffic, Routes!Steps, RP!Steps
<1> QED BY <1>1, <1>2, RoutesComposed, PTL

(* A fast replacement never takes the last route of the clients.           *)
THEOREM FastHolds == MCSpec => FastNeverInterrupts
<1>1. RP!Spec => RP!FastNeverInterrupts  BY RoutesConstants, RP!FastKeepsTraffic
<1>2. RP!FastNeverInterrupts => FastNeverInterrupts
  BY DEF FastNeverInterrupts, Routes!FastNeverInterrupts, RP!FastNeverInterrupts,
         Routes!Traffic, RP!Traffic, Routes!vars, RP!vars
<1> QED BY <1>1, <1>2, RoutesComposed, PTL

(***************************************************************************)
(* The gateway on GCP.                                                     *)
(***************************************************************************)

LEMMA GcpNext == Gcp!Next <=> GP!Next
BY DEF Gcp!Next, GP!Next, Gcp!project, GP!project, Gcp!fixed, GP!fixed, Gcp!Given,
    GP!Given, Gcp!NoJob, GP!NoJob, Gcp!Slots, GP!Slots, Gcp!Calls, GP!Calls,
    Gcp!EachInstance, GP!EachInstance, Gcp!IfOwned, GP!IfOwned,
    Gcp!applyGCPFirestoreDatabase, GP!applyGCPFirestoreDatabase,
    Gcp!applyGCPRuntimeServiceAccount, GP!applyGCPRuntimeServiceAccount,
    Gcp!applyGCPRuntimeIAM, GP!applyGCPRuntimeIAM, Gcp!readBack, GP!readBack,
    Gcp!Apply, GP!Apply, Gcp!Cleanup, GP!Cleanup, Gcp!cleanupGCPRuntimeIAM,
    GP!cleanupGCPRuntimeIAM, Gcp!cleanupGCPFirestoreDatabase,
    GP!cleanupGCPFirestoreDatabase, Gcp!GatewayParts, GP!GatewayParts, Gcp!IAMParts,
    GP!IAMParts, Gcp!Undo, GP!Undo, Gcp!Refused, GP!Refused, Gcp!EnsureObject,
    GP!EnsureObject, Gcp!InsertObject, GP!InsertObject, Gcp!DeleteObject,
    GP!DeleteObject, Gcp!addBindingMember, GP!addBindingMember,
    Gcp!removeBindingMember, GP!removeBindingMember, Gcp!OtherCall, GP!OtherCall,
    Gcp!Effect, GP!Effect, Gcp!Job, GP!Job, Gcp!Create, GP!Create, Gcp!Delete,
    GP!Delete, Gcp!Read, GP!Read, Gcp!Over, GP!Over, Gcp!Busy, GP!Busy, Gcp!NextCall,
    GP!NextCall, Gcp!CallAnswered, GP!CallAnswered, Gcp!AfterError, GP!AfterError,
    Gcp!Forgets, GP!Forgets, Gcp!CallRefused, GP!CallRefused, Gcp!CallFails,
    GP!CallFails, Gcp!Finish, GP!Finish, Gcp!Crash, GP!Crash, Gcp!Retire, GP!Retire,
    Gcp!PolicyEdited, GP!PolicyEdited, Gcp!AgentCanRun, GP!AgentCanRun,
    Gcp!AgentInsertsRoute, GP!AgentInsertsRoute, Gcp!AgentDeletesRoute,
    GP!AgentDeletesRoute, Gcp!InstanceLost, GP!InstanceLost,
    Gcp!InstanceRepaired, GP!InstanceRepaired

LEMMA GcpComposed == MCSpec => GP!Spec
<1>1. MCInit => GP!Init
  BY DEF MCInit, Gcp!Init, GP!Init, Gcp!Given, GP!Given, Gcp!NoJob, GP!NoJob
<1>2. [MCNext]_allVars => [GP!Next]_(GP!gcpVars)
  BY GcpNext
  DEF MCNext, OnAws, OnGcp, OnRoute, OnAddress, gcpVars, allVars, GP!gcpVars, GP!fixed,
      GP!project
<1> QED BY <1>1, <1>2, PTL DEF MCSpec, GP!Spec

LEMMA GcpConstants == GP!ConstantsOK
BY CloudConstants DEF Gcp!ConstantsOK, GP!ConstantsOK

(* Every variable of the gateway's part keeps its type.                    *)
THEOREM GcpTypesHold == MCSpec => []GcpTypeOK
<1>1. GP!Spec => []GP!GcpTypeOK  BY GcpConstants, GP!GcpTypeCorrect
<1>2. GP!GcpTypeOK => GcpTypeOK
  BY DEF GcpTypeOK, Gcp!GcpTypeOK, GP!GcpTypeOK, Gcp!Parts, GP!Parts, Gcp!CallType,
         GP!CallType, Gcp!JobType, GP!JobType, Gcp!NoJob, GP!NoJob, Gcp!Slots, GP!Slots
<1> QED BY <1>1, <1>2, GcpComposed, PTL

(* Agents that run keep the database and the role they need.               *)
THEOREM StoreHolds == MCSpec => []AgentsKeepTheirStore
<1>1. GP!Spec => []GP!AgentsKeepTheirStore  BY GcpConstants, GP!StoreOutlivesAgents
<1>2. GP!AgentsKeepTheirStore => AgentsKeepTheirStore
  BY DEF AgentsKeepTheirStore, Gcp!AgentsKeepTheirStore, GP!AgentsKeepTheirStore
<1> QED BY <1>1, <1>2, GcpComposed, PTL

(* What somebody else made and the gateway only uses is never removed.     *)
THEOREM SharedHolds == MCSpec => []SharedIsKept
<1>1. GP!Spec => []GP!SharedIsKept  BY GcpConstants, GP!GivenIsKept
<1>2. GP!SharedIsKept => SharedIsKept
  BY DEF SharedIsKept, Gcp!SharedIsKept, GP!SharedIsKept, Gcp!Given, GP!Given
<1> QED BY <1>1, <1>2, GcpComposed, PTL

(* No write of the IAM policy takes back an edit of others.                *)
THEOREM EditsHold == MCSpec => OthersEditsAreKept
<1>1. GP!Spec => GP!OthersEditsAreKept  BY GcpConstants, GP!EditsAreKept
<1>2. GP!OthersEditsAreKept => OthersEditsAreKept
  BY DEF OthersEditsAreKept, Gcp!OthersEditsAreKept, GP!OthersEditsAreKept, Gcp!gcpVars,
         GP!gcpVars, Gcp!fixed, GP!fixed, Gcp!project, GP!project
<1> QED BY <1>1, <1>2, GcpComposed, PTL

(* A destroy that reports success leaves no instance, and nothing of the   *)
(* gateway's but the service account and a shadow route of its agents.     *)
THEOREM GcpDestroyHolds == MCSpec => GcpDestroyIsComplete
<1>1. GP!Spec => GP!GcpDestroyIsComplete  BY GcpConstants, GP!DestroyLeavesOnlyKept
<1>2. GP!GcpDestroyIsComplete => GcpDestroyIsComplete
  BY DEF GcpDestroyIsComplete, Gcp!GcpDestroyIsComplete, GP!GcpDestroyIsComplete,
         Gcp!gcpVars, GP!gcpVars, Gcp!fixed, GP!fixed, Gcp!project, GP!project,
         Gcp!Finish, GP!Finish, Gcp!Given, GP!Given, Gcp!Kept, GP!Kept, Gcp!NoJob, GP!NoJob,
         Gcp!Over, GP!Over, Gcp!GatewayParts, GP!GatewayParts
<1> QED BY <1>1, <1>2, GcpComposed, PTL

(***************************************************************************)
(* The gateway on AWS. An operation is the calls it still has to make, and *)
(* the invariant says of each kind of operation that what it has not done  *)
(* yet is among those calls.                                               *)
(***************************************************************************)

(* The calls of an operation, as a set.                                    *)
Dos == {"create", "await", "allocate", "tag", "associate", "snapshot", "replace", "delete",
        "shrink", "terminate", "restore", "resize", "find", "version", "refresh"}
Kinds == {"role", "policies", "profile", "profileRole", "group", "leases", "coordination",
          "template", "pool", "hook", "owner", "address", "route"}
CallType == [do : Dos, kind : Kinds, zone : ZoneSet \cup {"all"}]
ForAll(do, kinds) == [do : {do}, kind : kinds, zone : {"all"}]
ForEach(do, kinds) == [do : {do}, kind : kinds, zone : ZoneSet]

Shared == {"role", "policies", "profile", "profileRole", "group", "leases", "coordination"}
OfPool == {"template", "pool", "hook"}

ApplyCalls ==
  ForAll("create", Shared) \cup ForEach("create", OfPool) \cup ForEach("await", {"owner"})
  \cup (IF Addresses = "managed"
        THEN ForEach("allocate", {"address"}) \cup ForEach("tag", {"address"}) ELSE {})
  \cup (IF Addresses # "none" THEN ForEach("associate", {"address"}) ELSE {})
  \cup ForEach("snapshot", {"route"}) \cup ForEach("replace", {"route"})
CleanupCalls ==
  ForEach("delete", OfPool) \cup ForEach("shrink", {"pool"})
  \cup (IF Addresses = "managed" /\ ~RetainManagedEIPs THEN ForEach("delete", {"address"}) ELSE {})
  \cup ForAll("delete", Shared)
DeleteCalls == ForEach("restore", {"route"}) \cup ForAll("terminate", {"owner"}) \cup CleanupCalls
ResizeCalls ==
  ForAll("create", {"coordination", "role", "policies", "profile", "profileRole"})
  \cup ForEach("resize", {"pool"})
RolloutCalls ==
  ResizeCalls \cup ForAll("find", {"group"}) \cup ForEach("version", {"template"})
  \cup ForEach("refresh", {"pool"})

CallsOf(k) ==
  CASE k = "create" -> ApplyCalls [] k = "undo" -> CleanupCalls [] k = "delete" -> DeleteCalls
    [] k = "resize" -> ResizeCalls [] k = "rollout" -> RolloutCalls

CallFor(do, kind, z) == [do |-> do, kind |-> kind, zone |-> z]
Pending == Range(op.todo)
Awaits(do, kind, z) == CallFor(do, kind, z) \in Pending

Plans == [size : 1 .. MaxSize, config : 1 .. MaxConfig]
Pools == [size : 0 .. MaxSize, config : 0 .. MaxConfig]
Targets == {Before} \cup Gens
Saved == [ZoneSet -> {-1} \cup Targets]
OpType ==
  [kind : {"create", "undo", "delete", "resize", "rollout"}, gen : Gens,
   plan : Plans \cup {NoPool}, saved : Saved, todo : Seq(CallType)]

(* Every variable has its type, and an operation makes its own calls.      *)
CloudTyped ==
  /\ running \in SUBSET (Gens \X ZoneSet)
  /\ pool \in [Gens -> [ZoneSet -> Pools]]
  /\ route \in [ZoneSet -> Targets]
  /\ untagged \in [ZoneSet -> Nat] /\ previous \in BOOLEAN
OpTyped ==
  op # Idle =>
    /\ op \in OpType /\ op.gen < next /\ Pending \subseteq CallsOf(op.kind)
    /\ op.kind \in {"create", "resize", "rollout"} => op.plan \in Plans
StateTyped ==
  /\ DOMAIN state \subseteq Gens /\ state = [g \in DOMAIN state |-> state[g]]
  /\ \A g \in DOMAIN state : g < next /\ state[g] \in [plan : Plans, saved : Saved]
CountsTyped ==
  /\ wanted \in BOOLEAN /\ next \in 1 .. MaxGen + 1
  /\ faults \in 0 .. MaxFaults /\ crashes \in 0 .. MaxCrashes
HistoryTyped ==
  /\ retaken \subseteq ZoneSet /\ dirty \subseteq Gens \X {"size", "config"}
  /\ torn \subseteq Gens /\ abandoned \subseteq Gens

(* The names of what a gateway is made of.                                 *)
SharedObjects == {Object(k, "all", 0) : k \in Shared}
PoolObjects(g) == {Object(k, z, g) : k \in OfPool, z \in ZoneSet}
AddressObjects == IF Addresses = "managed" THEN {Object("address", z, 0) : z \in ZoneSet} ELSE {}
KnownObjects ==
  \A o \in objects :
    o \in SharedObjects \cup AddressObjects \/ \E g \in Gens : o \in PoolObjects(g)

(* There is one generation at a time, and a pool of any other is left from *)
(* a create that was lost.                                                 *)
OneGeneration ==
  /\ DOMAIN state = {} \/ \E g \in Gens : DOMAIN state = {g}
  /\ op.kind \in {"create", "undo"} => DOMAIN state = {}
  /\ op.kind \in {"delete", "resize", "rollout"} => DOMAIN state = {op.gen}
Accounted ==
  \A g \in Gens :
    HasPool(g) => g \in DOMAIN state \cup abandoned \/ (op # Idle /\ op.gen = g)

(* What a create has not made yet it still has to make.                    *)
CreateMakes ==
  op.kind = "create" =>
    /\ \A c \in ApplyCalls :
         c.do \in {"create", "tag"} => Named(c) \in objects \/ c \in Pending
    /\ \A z \in ZoneSet : Awaits("create", "pool", z) \/ pool[op.gen][z] = op.plan

(* An address is allocated before it is tagged.                            *)
TagsLast(s) ==
  \A z \in ZoneSet : \A i, j \in DOMAIN s :
    i < j => ~ (s[i] = CallFor("tag", "address", z) /\ s[j] = CallFor("allocate", "address", z))
TagsFollow ==
  op.kind = "create" =>
    /\ TagsLast(op.todo)
    /\ \A z \in ZoneSet :
         \/ ~ Awaits("tag", "address", z) \/ Awaits("allocate", "address", z)
         \/ Object("address", z, 0) \in objects \/ untagged[z] > 0

(* What an update has not changed yet it still has to change; until it     *)
(* ends well the state keeps the plan from before.                         *)
UpdateChanges ==
  /\ op.kind \in {"resize", "rollout"} =>
       \A z \in ZoneSet : Awaits("resize", "pool", z) \/ pool[op.gen][z].size = op.plan.size
  /\ op.kind = "rollout" =>
       \A z \in ZoneSet : Awaits("refresh", "pool", z) \/ pool[op.gen][z].config = op.plan.config
  /\ op.kind = "resize" => op.plan.config = state[op.gen].plan.config
SizeDescribed ==
  op.kind \notin {"delete", "resize", "rollout"} =>
    \A g \in DOMAIN state \ torn, z \in ZoneSet :
      <<g, "size">> \in dirty \/ pool[g][z].size = state[g].plan.size
ConfigDescribed ==
  op.kind \notin {"delete", "rollout"} =>
    \A g \in DOMAIN state \ torn, z \in ZoneSet :
      <<g, "config">> \in dirty \/ pool[g][z].config = state[g].plan.config

(* What a cleanup has not removed yet it still has to remove.              *)
CleanupRemoves ==
  op.kind \in {"delete", "undo"} =>
    \A o \in objects :
      \/ o.kind = "address" /\ RetainManagedEIPs
      \/ o.gen \notin {0, op.gen}
      \/ \E c \in Pending : c.do = "delete" /\ Named(c) = o

(* What a destroy has not restored yet it still has to restore.            *)
DeleteRestores ==
  op.kind = "delete" =>
    \A z \in ZoneSet \ retaken :
      state[op.gen].saved[z] = Before /\ previous =>
        route[z] = Before \/ Awaits("restore", "route", z)

AwsInv ==
  /\ CloudTyped /\ OpTyped /\ StateTyped /\ CountsTyped /\ HistoryTyped
  /\ KnownObjects /\ OneGeneration /\ Accounted /\ LiveGatewayIsWhole
  /\ CreateMakes /\ TagsFollow /\ UpdateChanges /\ SizeDescribed /\ ConfigDescribed
  /\ CleanupRemoves /\ DeleteRestores


-----------------------------------------------------------------------------
(* Sequences of calls.                                                     *)
LEMMA RangeOfConcat ==
  ASSUME NEW s \in Seq(CallType), NEW t \in Seq(CallType)
  PROVE  s \o t \in Seq(CallType) /\ Range(s \o t) = Range(s) \cup Range(t)
<1>1. /\ s \o t \in Seq(CallType) /\ Len(s \o t) = Len(s) + Len(t)
      /\ \A i \in 1 .. Len(s) + Len(t) :
           (s \o t)[i] = IF i <= Len(s) THEN s[i] ELSE t[i - Len(s)]
  BY ConcatProperties
<1>2. ASSUME NEW c \in Range(s) \cup Range(t)
      PROVE  c \in Range(s \o t)
  <2>1. CASE c \in Range(s)
    BY <1>1, <2>1 DEF Range
  <2>2. CASE c \in Range(t)
    <3>1. PICK i \in 1 .. Len(t) : c = t[i]
      BY <2>2 DEF Range
    <3>2. /\ Len(s) + i \in 1 .. Len(s) + Len(t) /\ ~ (Len(s) + i <= Len(s))
          /\ Len(s) + i - Len(s) = i
      OBVIOUS
    <3>3. (s \o t)[Len(s) + i] = t[i] /\ Len(s) + i \in DOMAIN (s \o t)
      BY <1>1, <3>2
    <3> QED
      BY <3>1, <3>3 DEF Range
  <2> QED
    BY <1>2, <2>1, <2>2
<1>3. ASSUME NEW c \in Range(s \o t)
      PROVE  c \in Range(s) \cup Range(t)
  <2>1. PICK i \in 1 .. Len(s) + Len(t) : c = (s \o t)[i]
    BY <1>1, <1>3 DEF Range
  <2>2. CASE i <= Len(s)
    BY <1>1, <2>1, <2>2 DEF Range
  <2>3. CASE i > Len(s)
    <3>1. i - Len(s) \in 1 .. Len(t) /\ c = t[i - Len(s)]
      BY <1>1, <2>1, <2>3
    <3> QED
      BY <3>1 DEF Range
  <2> QED
    BY <2>2, <2>3
<1> QED
  BY <1>1, <1>2, <1>3

LEMMA RangeOfTail ==
  ASSUME NEW s \in Seq(CallType), s # <<>>
  PROVE  /\ Head(s) \in CallType /\ Tail(s) \in Seq(CallType)
         /\ Range(s) = {Head(s)} \cup Range(Tail(s))
         /\ Len(s) \in Nat \ {0} /\ DOMAIN Tail(s) = 1 .. Len(s) - 1
         /\ \A i \in DOMAIN Tail(s) : i + 1 \in DOMAIN s /\ Tail(s)[i] = s[i + 1]
<1>1. /\ Head(s) \in CallType /\ Tail(s) \in Seq(CallType)
      /\ Head(s) = s[1] /\ Len(s) \in Nat \ {0} /\ Len(Tail(s)) = Len(s) - 1
      /\ \A i \in 1 .. Len(s) - 1 : Tail(s)[i] = s[i + 1]
  OBVIOUS
<1>2. ASSUME NEW i \in DOMAIN s PROVE s[i] \in {Head(s)} \cup Range(Tail(s))
  <2>1. CASE i = 1
    BY <1>1, <2>1
  <2>2. CASE i # 1
    <3>1. i - 1 \in 1 .. Len(s) - 1 /\ i - 1 + 1 = i
      BY <1>1, <2>2
    <3>2. s[i] = Tail(s)[i - 1] /\ i - 1 \in DOMAIN Tail(s)
      BY <1>1, <3>1
    <3> QED
      BY <3>2 DEF Range
  <2> QED
    BY <2>1, <2>2
<1>3. ASSUME NEW i \in DOMAIN Tail(s)
      PROVE  i + 1 \in DOMAIN s /\ Tail(s)[i] = s[i + 1]
  BY <1>1
<1>4. Head(s) \in Range(s)
  BY <1>1 DEF Range
<1>5. DOMAIN Tail(s) = 1 .. Len(s) - 1
  BY <1>1
<1>6. Range(s) \subseteq {Head(s)} \cup Range(Tail(s))
  BY <1>2 DEF Range
<1>7. Range(Tail(s)) \subseteq Range(s)
  BY <1>3 DEF Range
<1> QED
  BY <1>1, <1>3, <1>4, <1>5, <1>6, <1>7

LEMMA RangeOfCalls ==
  ASSUME NEW do \in Dos, NEW kinds \in Seq(Kinds)
  PROVE  Calls(do, kinds) \in Seq(CallType) /\ Range(Calls(do, kinds)) = ForAll(do, Range(kinds))
<1>1. \A i \in 1 .. Len(kinds) : [do |-> do, kind |-> kinds[i], zone |-> "all"] \in CallType
  BY DEF CallType
<1>2. Calls(do, kinds) \in Seq(CallType) /\ DOMAIN Calls(do, kinds) = DOMAIN kinds
  BY <1>1 DEF Calls
<1>3. ASSUME NEW c \in Range(Calls(do, kinds)) PROVE c \in ForAll(do, Range(kinds))
  BY <1>2 DEF Calls, Range, ForAll
<1>4. ASSUME NEW c \in ForAll(do, Range(kinds)) PROVE c \in Range(Calls(do, kinds))
  <2>1. PICK i \in DOMAIN kinds : c = [do |-> do, kind |-> kinds[i], zone |-> "all"]
    BY DEF Range, ForAll
  <2> QED
    BY <1>2, <2>1 DEF Calls, Range
<1> QED
  BY <1>2, <1>3, <1>4

LEMMA Kinds1 ==
  ASSUME NEW a \in Kinds PROVE <<a>> \in Seq(Kinds) /\ Range(<<a>>) = {a}
BY DEF Range
LEMMA Kinds2 ==
  ASSUME NEW a \in Kinds, NEW b \in Kinds
  PROVE  <<a, b>> \in Seq(Kinds) /\ Range(<<a, b>>) = {a, b}
BY DEF Range
LEMMA Kinds3 ==
  ASSUME NEW a \in Kinds, NEW b \in Kinds, NEW c \in Kinds
  PROVE  <<a, b, c>> \in Seq(Kinds) /\ Range(<<a, b, c>>) = {a, b, c}
BY DEF Range
LEMMA Kinds4 ==
  ASSUME NEW a \in Kinds, NEW b \in Kinds, NEW c \in Kinds, NEW d \in Kinds
  PROVE  <<a, b, c, d>> \in Seq(Kinds) /\ Range(<<a, b, c, d>>) = {a, b, c, d}
BY DEF Range

(* Position i of a sequence of m blocks of n is the j-th of the k-th block.*)
LEMMA Blocks ==
  ASSUME NEW n \in Nat \ {0}, NEW m \in Nat
  PROVE  /\ n * m \in Nat
         /\ \A i \in 1 .. n * m : ((i - 1) % n) + 1 \in 1 .. n /\ ((i - 1) \div n) + 1 \in 1 .. m
         /\ \A j \in 1 .. n, k \in 1 .. m :
              /\ (k - 1) * n + j \in 1 .. n * m
              /\ (((k - 1) * n + j - 1) % n) + 1 = j
              /\ (((k - 1) * n + j - 1) \div n) + 1 = k
<1>1. n * m \in Nat
  OBVIOUS
<1>2. ASSUME NEW i \in 1 .. n * m
      PROVE  ((i - 1) % n) + 1 \in 1 .. n /\ ((i - 1) \div n) + 1 \in 1 .. m
  <2> DEFINE q == (i - 1) \div n
             r == (i - 1) % n
  <2>1. q \in Int /\ r \in 0 .. n - 1 /\ i - 1 = n * q + r
    BY <1>1
  <2>2. q >= 0
    BY <2>1
  <2>3. q < m
    BY <2>1
  <2> QED
    BY <2>1, <2>2, <2>3
<1>3. ASSUME NEW j \in 1 .. n, NEW k \in 1 .. m
      PROVE  /\ (k - 1) * n + j \in 1 .. n * m
             /\ (((k - 1) * n + j - 1) % n) + 1 = j
             /\ (((k - 1) * n + j - 1) \div n) + 1 = k
  <2>1. (k - 1) * n \in Nat /\ (k - 1) * n + n <= n * m
    OBVIOUS
  <2>2. (k - 1) * n + j \in 1 .. n * m
    BY <2>1
  <2> DEFINE x == (k - 1) * n + j - 1
             q == x \div n
             r == x % n
  <2>3. x \in Nat /\ q \in Int /\ r \in 0 .. n - 1 /\ x = n * q + r
    BY <2>1
  <2>4. x = n * (k - 1) + (j - 1)
    OBVIOUS
  <2>5. q = k - 1
    BY <2>3, <2>4
  <2> QED
    BY <2>2, <2>3, <2>4, <2>5
<1> QED
  BY <1>1, <1>2, <1>3

LEMMA RangeOfInEach ==
  ASSUME NEW order \in Seq(ZoneSet), NEW s \in Seq(CallType)
  PROVE  /\ InEach(order, s) \in Seq(CallType)
         /\ Range(InEach(order, s)) = {[c EXCEPT !.zone = z] : c \in Range(s), z \in Range(order)}
<1> DEFINE n == Len(s)
           m == Len(order)
           e == InEach(order, s)
           N == n * m
           J(i) == ((i - 1) % n) + 1
           K(i) == ((i - 1) \div n) + 1
           At(j, k) == (k - 1) * n + j
           Put(c, z) == [c EXCEPT !.zone = z]
           All == {Put(c, z) : c \in Range(s), z \in Range(order)}
<1>1. n \in Nat /\ m \in Nat
  OBVIOUS
<1>2. CASE n = 0
  <2>1. e = <<>> /\ Range(s) = {}
    BY <1>1, <1>2 DEF InEach, Range
  <2> QED
    BY <2>1 DEF Range
<1>3. CASE n # 0
  <2>1. n \in Nat \ {0}
    BY <1>1, <1>3
  <2>2. /\ N \in Nat
        /\ \A i \in 1 .. N : J(i) \in 1 .. n /\ K(i) \in 1 .. m
        /\ \A j \in 1 .. n, k \in 1 .. m :
             At(j, k) \in 1 .. N /\ J(At(j, k)) = j /\ K(At(j, k)) = k
    BY <2>1, <1>1, Blocks
  <2>3. e = [i \in 1 .. N |-> Put(s[J(i)], order[K(i)])]
    BY DEF InEach
  <2>4. /\ \A j \in 1 .. n : s[j] \in CallType /\ s[j] \in Range(s)
        /\ \A c \in Range(s) : \E j \in 1 .. n : c = s[j]
    BY DEF Range
  <2>5. /\ \A k \in 1 .. m : order[k] \in ZoneSet /\ order[k] \in Range(order)
        /\ \A z \in Range(order) : \E k \in 1 .. m : z = order[k]
    BY DEF Range
  <2>6. \A c \in CallType, z \in ZoneSet : Put(c, z) \in CallType
    BY DEF CallType
  <2> HIDE DEF e, n, m, N, J, K, At, Put
  <2>7. ASSUME NEW i \in 1 .. N
        PROVE  e[i] \in CallType /\ e[i] \in All
    <3>1. J(i) \in 1 .. n /\ K(i) \in 1 .. m
      BY <2>2
    <3>2. /\ s[J(i)] \in CallType /\ order[K(i)] \in ZoneSet
          /\ s[J(i)] \in Range(s) /\ order[K(i)] \in Range(order)
      BY <3>1, <2>4, <2>5
    <3>3. e[i] = Put(s[J(i)], order[K(i)])
      BY <2>3
    <3> QED
      BY <3>2, <3>3, <2>6
  <2>8. ASSUME NEW j \in 1 .. n, NEW k \in 1 .. m
        PROVE  Put(s[j], order[k]) \in Range(e)
    <3>1. At(j, k) \in 1 .. N /\ e[At(j, k)] = Put(s[j], order[k])
      BY <2>2, <2>3
    <3> QED
      BY <3>1, <2>3 DEF Range
  <2>9. e \in [1 .. N -> CallType]
    BY <2>3, <2>7
  <2>10. e \in Seq(CallType) /\ DOMAIN e = 1 .. N
    BY <2>2, <2>9
  <2>11. Range(e) \subseteq All
    BY <2>7, <2>10 DEF Range
  <2>12. All \subseteq Range(e)
    BY <2>4, <2>5, <2>8
  <2> QED
    BY <2>10, <2>11, <2>12 DEF e, Put
<1> QED
  BY <1>2, <1>3

LEMMA ZonesAreFinite == IsFiniteSet(ZoneSet) /\ Zones \in Seq(ZoneSet) /\ Range(Zones) = ZoneSet
<1>1. Zones \in Surjection(1 .. Len(Zones), ZoneSet) /\ Len(Zones) \in Nat
  BY ZonesAssumption DEF Surjection, ZoneSet, Range
<1>2. IsFiniteSet(1 .. Len(Zones))
  BY <1>1, FS_Interval
<1>3. Zones \in Seq(ZoneSet)
  BY <1>1 DEF ZoneSet, Range, Surjection
<1> QED
  BY <1>1, <1>2, <1>3, FS_Surjection DEF ZoneSet

(* Any order of the zones has each of them once.                           *)
LEMMA OrdersOfZones ==
  ASSUME NEW order \in Orders
  PROVE  /\ order \in Seq(ZoneSet) /\ Range(order) = ZoneSet
         /\ \A i, j \in 1 .. Len(order) : order[i] = order[j] => i = j
<1> DEFINE n == Cardinality(ZoneSet)
<1>1. n \in Nat
  BY ZonesAreFinite, FS_CardinalityType
<1>2. order \in [1 .. n -> ZoneSet] /\ \A i, j \in 1 .. n : i # j => order[i] # order[j]
  BY DEF Orders, SetToSeqs
<1>3. order \in Injection(1 .. n, ZoneSet)
  BY <1>2 DEF Injection, IsInjective
<1>4. Cardinality(1 .. n) = n
  BY <1>1, FS_Interval
<1>5. order \in Surjection(1 .. n, ZoneSet)
  BY <1>3, <1>4, ZonesAreFinite, FS_Injection
<1>6. order \in Seq(ZoneSet) /\ Len(order) = n
  BY <1>1, <1>2
<1> QED
  BY <1>2, <1>5, <1>6 DEF Surjection, Range

(* What is done for each zone.                                             *)
LEMMA EachZone ==
  ASSUME NEW do \in Dos, NEW kinds \in SUBSET Kinds
  PROVE  {[c EXCEPT !.zone = z] : c \in ForAll(do, kinds), z \in ZoneSet} = ForEach(do, kinds)
<1>1. ASSUME NEW c \in ForAll(do, kinds), NEW z \in ZoneSet
      PROVE  [c EXCEPT !.zone = z] \in ForEach(do, kinds)
  BY DEF ForAll, ForEach
<1>2. ASSUME NEW d \in ForEach(do, kinds)
      PROVE  \E c \in ForAll(do, kinds), z \in ZoneSet : d = [c EXCEPT !.zone = z]
  <2>1. /\ [do |-> do, kind |-> d.kind, zone |-> "all"] \in ForAll(do, kinds) /\ d.zone \in ZoneSet
        /\ d = [[do |-> do, kind |-> d.kind, zone |-> "all"] EXCEPT !.zone = d.zone]
    BY DEF ForAll, ForEach
  <2> QED
    BY <2>1
<1> QED
  BY <1>1, <1>2

InZones(S) == {[c EXCEPT !.zone = z] : c \in S, z \in ZoneSet}

LEMMA InZonesUnion ==
  ASSUME NEW A, NEW B, NEW C, NEW D, InZones(A) = C, InZones(B) = D
  PROVE  InZones(A \cup B) = C \cup D
BY DEF InZones

LEMMA InZonesForAll ==
  ASSUME NEW do \in Dos, NEW kinds \in SUBSET Kinds
  PROVE  InZones(ForAll(do, kinds)) = ForEach(do, kinds)
BY EachZone DEF InZones

LEMMA InEachZone ==
  ASSUME NEW order \in Seq(ZoneSet), Range(order) = ZoneSet, NEW s \in Seq(CallType)
  PROVE  InEach(order, s) \in Seq(CallType) /\ Range(InEach(order, s)) = InZones(Range(s))
BY RangeOfInEach DEF InZones

(* The calls a part of an operation makes.                                 *)
Consists(s, S) == s \in Seq(CallType) /\ Range(s) = S

LEMMA EmptyConsists == Consists(<<>>, {})
BY DEF Consists, Range

LEMMA ConcatConsists ==
  ASSUME NEW s, NEW t, NEW S, NEW T, Consists(s, S), Consists(t, T)
  PROVE  Consists(s \o t, S \cup T)
BY RangeOfConcat DEF Consists

LEMMA Calls1 ==
  ASSUME NEW do \in Dos, NEW a \in Kinds
  PROVE  Consists(Calls(do, <<a>>), ForAll(do, {a}))
<1>1. <<a>> \in Seq(Kinds) /\ Range(<<a>>) = {a}
  BY Kinds1
<1> QED
  BY ONLY <1>1, RangeOfCalls, do \in Dos DEF Consists

LEMMA Calls2 ==
  ASSUME NEW do \in Dos, NEW a \in Kinds, NEW b \in Kinds
  PROVE  Consists(Calls(do, <<a, b>>), ForAll(do, {a, b}))
<1>1. <<a, b>> \in Seq(Kinds) /\ Range(<<a, b>>) = {a, b}
  BY Kinds2
<1> QED
  BY ONLY <1>1, RangeOfCalls, do \in Dos DEF Consists

LEMMA Calls3 ==
  ASSUME NEW do \in Dos, NEW a \in Kinds, NEW b \in Kinds, NEW c \in Kinds
  PROVE  Consists(Calls(do, <<a, b, c>>), ForAll(do, {a, b, c}))
<1>1. <<a, b, c>> \in Seq(Kinds) /\ Range(<<a, b, c>>) = {a, b, c}
  BY Kinds3
<1> QED
  BY ONLY <1>1, RangeOfCalls, do \in Dos DEF Consists

LEMMA Calls4 ==
  ASSUME NEW do \in Dos, NEW a \in Kinds, NEW b \in Kinds, NEW c \in Kinds, NEW d \in Kinds
  PROVE  Consists(Calls(do, <<a, b, c, d>>), ForAll(do, {a, b, c, d}))
<1>1. <<a, b, c, d>> \in Seq(Kinds) /\ Range(<<a, b, c, d>>) = {a, b, c, d}
  BY Kinds4
<1> QED
  BY ONLY <1>1, RangeOfCalls, do \in Dos DEF Consists

LEMMA EachConsists ==
  ASSUME NEW order \in Seq(ZoneSet), Range(order) = ZoneSet, NEW s, NEW S, Consists(s, S)
  PROVE  Consists(InEach(order, s), InZones(S))
BY InEachZone DEF Consists

LEMMA SharedConsists ==
  /\ Consists(createIAM, ForAll("create", {"role", "policies", "profile", "profileRole"}))
  /\ Consists(ensureSecurityGroup, ForAll("create", {"group"}))
  /\ Consists(createLeaseTable, ForAll("create", {"leases"}))
  /\ Consists(createCoordinationTable, ForAll("create", {"coordination"}))
  /\ Consists(terminateAppliances, ForAll("terminate", {"owner"}))
  /\ Consists(deleteLeaseTable, ForAll("delete", {"leases"}))
  /\ Consists(deleteCoordinationTable, ForAll("delete", {"coordination"}))
  /\ Consists(deleteIAM, ForAll("delete", {"profileRole", "profile", "policies", "role"}))
  /\ Consists(deleteSecurityGroup, ForAll("delete", {"group"}))
  /\ Consists(associateEIP, ForAll("associate", {"address"}))
<1>1. Consists(createIAM, ForAll("create", {"role", "policies", "profile", "profileRole"}))
  <2>1. "create" \in Dos /\ {"role", "policies", "profile", "profileRole"} \subseteq Kinds
    BY DEF Dos, Kinds
  <2> QED
    BY <2>1, Calls4, Zenon DEF createIAM
<1>2. Consists(ensureSecurityGroup, ForAll("create", {"group"}))
  BY Calls1 DEF ensureSecurityGroup, Dos, Kinds
<1>3. Consists(createLeaseTable, ForAll("create", {"leases"}))
  BY Calls1 DEF createLeaseTable, Dos, Kinds
<1>4. Consists(createCoordinationTable, ForAll("create", {"coordination"}))
  BY Calls1 DEF createCoordinationTable, Dos, Kinds
<1>5. Consists(terminateAppliances, ForAll("terminate", {"owner"}))
  BY Calls1 DEF terminateAppliances, Dos, Kinds
<1>6. Consists(deleteLeaseTable, ForAll("delete", {"leases"}))
  BY Calls1 DEF deleteLeaseTable, Dos, Kinds
<1>7. Consists(deleteCoordinationTable, ForAll("delete", {"coordination"}))
  BY Calls1 DEF deleteCoordinationTable, Dos, Kinds
<1>8. Consists(deleteIAM, ForAll("delete", {"profileRole", "profile", "policies", "role"}))
  <2>1. "delete" \in Dos /\ {"role", "policies", "profile", "profileRole"} \subseteq Kinds
    BY DEF Dos, Kinds
  <2> QED
    BY <2>1, Calls4, Zenon DEF deleteIAM
<1>9. Consists(deleteSecurityGroup, ForAll("delete", {"group"}))
  BY Calls1 DEF deleteSecurityGroup, Dos, Kinds
<1>10. Consists(associateEIP, ForAll("associate", {"address"}))
  BY Calls1 DEF associateEIP, Dos, Kinds
<1> QED
  BY <1>1, <1>2, <1>3, <1>4, <1>5, <1>6, <1>7, <1>8, <1>9, <1>10

LEMMA TwoParts ==
  ASSUME NEW d \in Dos, NEW e \in Dos, NEW A \in SUBSET Kinds, NEW B \in SUBSET Kinds,
         NEW order \in Seq(ZoneSet), Range(order) = ZoneSet,
         NEW s, NEW t, Consists(s, ForAll(d, A)), Consists(t, ForAll(e, B))
  PROVE  /\ Consists(InEach(order, s), ForEach(d, A))
         /\ Consists(InEach(order, s \o t), ForEach(d, A) \cup ForEach(e, B))
<1>1. Consists(s \o t, ForAll(d, A) \cup ForAll(e, B))
  BY ConcatConsists
<1>2. Consists(InEach(order, s), InZones(ForAll(d, A)))
  BY EachConsists
<1>3. Consists(InEach(order, s \o t), InZones(ForAll(d, A) \cup ForAll(e, B)))
  BY <1>1, EachConsists
<1>4. InZones(ForAll(d, A)) = ForEach(d, A) /\ InZones(ForAll(e, B)) = ForEach(e, B)
  BY InZonesForAll
<1>5. InZones(ForAll(d, A) \cup ForAll(e, B)) = ForEach(d, A) \cup ForEach(e, B)
  BY <1>4, InZonesUnion
<1> QED
  BY <1>2, <1>3, <1>4, <1>5, Zenon

LEMMA ZonedConsists ==
  ASSUME NEW order \in Seq(ZoneSet), Range(order) = ZoneSet
  PROVE  /\ Consists(InEach(Zones, createPool \o waitForPoolOwner),
                     ForEach("create", OfPool) \cup ForEach("await", {"owner"}))
         /\ Consists(InEach(order, allocateEIP \o associateEIP),
                     ForEach("allocate", {"address"}) \cup ForEach("tag", {"address"})
                       \cup ForEach("associate", {"address"}))
         /\ Consists(InEach(order, associateEIP), ForEach("associate", {"address"}))
         /\ Consists(InEach(Zones, InitialRoute),
                     ForEach("snapshot", {"route"}) \cup ForEach("replace", {"route"}))
         /\ Consists(deletePools, ForEach("delete", OfPool) \cup ForEach("shrink", {"pool"}))
         /\ Consists(InEach(Zones, Calls("delete", <<"address">>)), ForEach("delete", {"address"}))
         /\ Consists(RestoreRoutes(order), ForEach("restore", {"route"}))
         /\ Consists(UpdateCapacity, ForEach("resize", {"pool"}))
         /\ Consists(UpdatePools,
                     ForAll("find", {"group"}) \cup ForEach("version", {"template"})
                       \cup ForEach("refresh", {"pool"}))
<1>1. Consists(Calls("create", <<"template", "pool", "hook">>), ForAll("create", {"template", "pool", "hook"}))
  BY Calls3 DEF Dos, Kinds
<1>2. Consists(Calls("await", <<"owner">>), ForAll("await", {"owner"}))
  BY Calls1 DEF Dos, Kinds
<1>3. Consists(Calls("allocate", <<"address">>), ForAll("allocate", {"address"}))
  BY Calls1 DEF Dos, Kinds
<1>4. Consists(Calls("tag", <<"address">>), ForAll("tag", {"address"}))
  BY Calls1 DEF Dos, Kinds
<1>5. Consists(Calls("associate", <<"address">>), ForAll("associate", {"address"}))
  BY Calls1 DEF Dos, Kinds
<1>6. Consists(Calls("snapshot", <<"route">>), ForAll("snapshot", {"route"}))
  BY Calls1 DEF Dos, Kinds
<1>7. Consists(Calls("replace", <<"route">>), ForAll("replace", {"route"}))
  BY Calls1 DEF Dos, Kinds
<1>8. Consists(Calls("restore", <<"route">>), ForAll("restore", {"route"}))
  BY Calls1 DEF Dos, Kinds
<1>9. Consists(Calls("delete", <<"hook">>), ForAll("delete", {"hook"}))
  BY Calls1 DEF Dos, Kinds
<1>10. Consists(Calls("shrink", <<"pool">>), ForAll("shrink", {"pool"}))
  BY Calls1 DEF Dos, Kinds
<1>11. Consists(Calls("delete", <<"pool", "template">>), ForAll("delete", {"pool", "template"}))
  BY Calls2 DEF Dos, Kinds
<1>12. Consists(Calls("delete", <<"address">>), ForAll("delete", {"address"}))
  BY Calls1 DEF Dos, Kinds
<1>13. Consists(Calls("resize", <<"pool">>), ForAll("resize", {"pool"}))
  BY Calls1 DEF Dos, Kinds
<1>14. Consists(Calls("find", <<"group">>), ForAll("find", {"group"}))
  BY Calls1 DEF Dos, Kinds
<1>15. Consists(Calls("version", <<"template">>), ForAll("version", {"template"}))
  BY Calls1 DEF Dos, Kinds
<1>16. Consists(Calls("refresh", <<"pool">>), ForAll("refresh", {"pool"}))
  BY Calls1 DEF Dos, Kinds
<1>17. Consists(InEach(Zones, createPool \o waitForPoolOwner),
                ForEach("create", OfPool) \cup ForEach("await", {"owner"}))
  BY <1>1, <1>2, TwoParts, ZonesAreFinite DEF createPool, waitForPoolOwner, Dos, Kinds, OfPool
<1>18. Consists(allocateEIP \o associateEIP,
               (ForAll("allocate", {"address"}) \cup ForAll("tag", {"address"}))
                 \cup ForAll("associate", {"address"}))
  BY <1>3, <1>4, <1>5, ConcatConsists DEF allocateEIP, associateEIP
<1>19. /\ InZones(ForAll("allocate", {"address"})) = ForEach("allocate", {"address"})
       /\ InZones(ForAll("tag", {"address"})) = ForEach("tag", {"address"})
       /\ InZones(ForAll("associate", {"address"})) = ForEach("associate", {"address"})
  BY InZonesForAll DEF Dos, Kinds
<1>20. Consists(InEach(order, allocateEIP \o associateEIP),
                ForEach("allocate", {"address"}) \cup ForEach("tag", {"address"})
                  \cup ForEach("associate", {"address"}))
  <2>1. Consists(InEach(order, allocateEIP \o associateEIP),
                 InZones((ForAll("allocate", {"address"}) \cup ForAll("tag", {"address"}))
                           \cup ForAll("associate", {"address"})))
    BY <1>18, EachConsists
  <2>2. InZones((ForAll("allocate", {"address"}) \cup ForAll("tag", {"address"}))
                  \cup ForAll("associate", {"address"}))
        = (ForEach("allocate", {"address"}) \cup ForEach("tag", {"address"}))
            \cup ForEach("associate", {"address"})
    <3>1. InZones(ForAll("allocate", {"address"}) \cup ForAll("tag", {"address"}))
          = ForEach("allocate", {"address"}) \cup ForEach("tag", {"address"})
      BY <1>19, InZonesUnion
    <3> QED
      BY <1>19, <3>1, InZonesUnion
  <2> QED
    BY <2>1, <2>2, Zenon
<1>21. Consists(InEach(order, associateEIP), ForEach("associate", {"address"}))
  BY <1>5, <1>19, EachConsists DEF associateEIP
<1>22. Consists(InEach(Zones, InitialRoute),
               ForEach("snapshot", {"route"}) \cup ForEach("replace", {"route"}))
  BY <1>6, <1>7, TwoParts, ZonesAreFinite DEF InitialRoute, Dos, Kinds
<1>23. /\ InZones(ForAll("restore", {"route"})) = ForEach("restore", {"route"})
       /\ InZones(ForAll("delete", {"hook"})) = ForEach("delete", {"hook"})
       /\ InZones(ForAll("shrink", {"pool"})) = ForEach("shrink", {"pool"})
       /\ InZones(ForAll("delete", {"pool", "template"})) = ForEach("delete", {"pool", "template"})
       /\ InZones(ForAll("delete", {"address"})) = ForEach("delete", {"address"})
       /\ InZones(ForAll("resize", {"pool"})) = ForEach("resize", {"pool"})
  BY InZonesForAll DEF Dos, Kinds
<1>24. Consists(RestoreRoutes(order), ForEach("restore", {"route"}))
  BY <1>8, <1>23, EachConsists DEF RestoreRoutes
<1>25. Consists(Calls("delete", <<"hook">>) \o Calls("shrink", <<"pool">>)
                  \o Calls("delete", <<"pool", "template">>),
                (ForAll("delete", {"hook"}) \cup ForAll("shrink", {"pool"}))
                  \cup ForAll("delete", {"pool", "template"}))
  BY <1>9, <1>10, <1>11, ConcatConsists
<1>26. Consists(deletePools, InZones((ForAll("delete", {"hook"}) \cup ForAll("shrink", {"pool"}))
                                       \cup ForAll("delete", {"pool", "template"})))
  BY <1>25, EachConsists, ZonesAreFinite DEF deletePools
<1>27. (ForEach("delete", {"hook"}) \cup ForEach("shrink", {"pool"}))
         \cup ForEach("delete", {"pool", "template"})
       = ForEach("delete", OfPool) \cup ForEach("shrink", {"pool"})
  BY DEF ForEach, OfPool
<1>28. Consists(deletePools, ForEach("delete", OfPool) \cup ForEach("shrink", {"pool"}))
  <2>1. InZones((ForAll("delete", {"hook"}) \cup ForAll("shrink", {"pool"}))
                  \cup ForAll("delete", {"pool", "template"}))
        = (ForEach("delete", {"hook"}) \cup ForEach("shrink", {"pool"}))
            \cup ForEach("delete", {"pool", "template"})
    <3>1. InZones(ForAll("delete", {"hook"}) \cup ForAll("shrink", {"pool"}))
          = ForEach("delete", {"hook"}) \cup ForEach("shrink", {"pool"})
      BY <1>23, InZonesUnion
    <3> QED
      BY <1>23, <3>1, InZonesUnion
  <2> QED
    BY <1>26, <1>27, <2>1, Zenon
<1>29. Consists(InEach(Zones, Calls("delete", <<"address">>)), ForEach("delete", {"address"}))
  BY <1>12, <1>23, EachConsists, ZonesAreFinite
<1>30. Consists(UpdateCapacity, ForEach("resize", {"pool"}))
  BY <1>13, <1>23, EachConsists, ZonesAreFinite DEF UpdateCapacity
<1>31. Consists(InEach(Zones, Calls("version", <<"template">>) \o Calls("refresh", <<"pool">>)),
                ForEach("version", {"template"}) \cup ForEach("refresh", {"pool"}))
  BY <1>15, <1>16, TwoParts, ZonesAreFinite DEF Dos, Kinds
<1>32. Consists(UpdatePools,
                ForAll("find", {"group"}) \cup (ForEach("version", {"template"})
                  \cup ForEach("refresh", {"pool"})))
  BY <1>14, <1>31, ConcatConsists DEF UpdatePools
<1>33. Consists(UpdatePools,
                ForAll("find", {"group"}) \cup ForEach("version", {"template"})
                  \cup ForEach("refresh", {"pool"}))
  <2>1. ForAll("find", {"group"}) \cup (ForEach("version", {"template"})
          \cup ForEach("refresh", {"pool"}))
        = ForAll("find", {"group"}) \cup ForEach("version", {"template"})
            \cup ForEach("refresh", {"pool"})
    OBVIOUS
  <2> QED
    BY <1>32, <2>1
<1> QED
  BY <1>17, <1>20, <1>21, <1>22, <1>24, <1>28, <1>29, <1>30, <1>33

LEMMA OperationsConsist ==
  ASSUME NEW order \in Seq(ZoneSet), Range(order) = ZoneSet
  PROVE  /\ Consists(Apply(order), ApplyCalls)
         /\ Consists(Cleanup(FALSE), CleanupCalls)
         /\ Consists(RestoreRoutes(order) \o Cleanup(TRUE), DeleteCalls)
         /\ Consists(ReconcileInfrastructure \o UpdateCapacity, ResizeCalls)
         /\ Consists(ReconcileInfrastructure \o UpdateCapacity \o UpdatePools, RolloutCalls)
<1> DEFINE Creates == createIAM \o ensureSecurityGroup \o createLeaseTable \o createCoordinationTable
           Addressed == CASE Addresses = "managed"  -> InEach(order, allocateEIP \o associateEIP)
                          [] Addresses = "external" -> InEach(order, associateEIP)
                          [] Addresses = "none"     -> <<>>
           AddressCalls ==
             (IF Addresses = "managed"
              THEN ForEach("allocate", {"address"}) \cup ForEach("tag", {"address"}) ELSE {})
             \cup (IF Addresses # "none" THEN ForEach("associate", {"address"}) ELSE {})
<1>1. Consists(Creates, ForAll("create", Shared))
  <2>1. Consists(Creates,
          ((ForAll("create", {"role", "policies", "profile", "profileRole"})
              \cup ForAll("create", {"group"})) \cup ForAll("create", {"leases"}))
            \cup ForAll("create", {"coordination"}))
    BY SharedConsists, ConcatConsists
  <2>2. ((ForAll("create", {"role", "policies", "profile", "profileRole"})
            \cup ForAll("create", {"group"})) \cup ForAll("create", {"leases"}))
          \cup ForAll("create", {"coordination"})
        = ForAll("create", Shared)
    BY DEF ForAll, Shared
  <2> QED
    BY <2>1, <2>2
<1>2. Consists(Addressed, AddressCalls)
  <2>1. CASE Addresses = "managed"
    <3>1. Addressed = InEach(order, allocateEIP \o associateEIP)
      BY <2>1
    <3>2. AddressCalls = ForEach("allocate", {"address"}) \cup ForEach("tag", {"address"})
                           \cup ForEach("associate", {"address"})
      BY <2>1
    <3> QED
      BY <3>1, <3>2, ZonedConsists
  <2>2. CASE Addresses = "external"
    <3>1. Addressed = InEach(order, associateEIP) /\ AddressCalls = ForEach("associate", {"address"})
      BY <2>2
    <3> QED
      BY <3>1, ZonedConsists
  <2>3. CASE Addresses = "none"
    <3>1. Addressed = <<>> /\ AddressCalls = {}
      BY <2>3
    <3> QED
      BY <3>1, EmptyConsists
  <2> QED
    BY <2>1, <2>2, <2>3, SwitchesAssumption
<1>3. Consists(Apply(order), ApplyCalls)
  <2>1. Apply(order) = Creates \o InEach(Zones, createPool \o waitForPoolOwner)
                         \o Addressed \o InEach(Zones, InitialRoute)
    BY DEF Apply
  <2>2. ApplyCalls = ((ForAll("create", Shared)
                        \cup (ForEach("create", OfPool) \cup ForEach("await", {"owner"})))
                       \cup AddressCalls)
                     \cup (ForEach("snapshot", {"route"}) \cup ForEach("replace", {"route"}))
    BY DEF ApplyCalls
  <2> DEFINE p == InEach(Zones, createPool \o waitForPoolOwner)
             P == ForEach("create", OfPool) \cup ForEach("await", {"owner"})
             r == InEach(Zones, InitialRoute)
             R == ForEach("snapshot", {"route"}) \cup ForEach("replace", {"route"})
             C == ForAll("create", Shared)
  <2>3. Consists(p, P) /\ Consists(r, R)
    BY ZonedConsists
  <2> HIDE DEF Creates, Addressed, AddressCalls, p, P, r, R, C
  <2>4. Consists(Creates, C)
    BY <1>1 DEF C
  <2>5. Consists(Creates \o p, C \cup P)
    BY <2>3, <2>4, ConcatConsists
  <2>6. Consists(Creates \o p \o Addressed, (C \cup P) \cup AddressCalls)
    BY <2>5, <1>2, ConcatConsists
  <2>7. Consists(Creates \o p \o Addressed \o r, ((C \cup P) \cup AddressCalls) \cup R)
    BY <2>6, <2>3, ConcatConsists
  <2> QED
    BY <2>7, <2>1, <2>2 DEF p, P, r, R, C
<1>4. ASSUME NEW inState \in BOOLEAN
      PROVE  Consists(Cleanup(inState),
                      CleanupCalls \cup (IF inState THEN ForAll("terminate", {"owner"}) ELSE {}))
  <2> DEFINE T == IF inState THEN terminateAppliances ELSE <<>>
             TC == IF inState THEN ForAll("terminate", {"owner"}) ELSE {}
             RC == IF Addresses = "managed" /\ ~RetainManagedEIPs
                   THEN ForEach("delete", {"address"}) ELSE {}
             I == ForAll("delete", {"profileRole", "profile", "policies", "role"})
             P == ForEach("delete", OfPool) \cup ForEach("shrink", {"pool"})
             L == ForAll("delete", {"leases"})
             N == ForAll("delete", {"coordination"})
             G == ForAll("delete", {"group"})
  <2>1. Consists(T, TC)
    BY SharedConsists, EmptyConsists
  <2>2. Consists(releaseEIPs, RC)
    BY ZonedConsists, EmptyConsists DEF releaseEIPs
  <2>3. Cleanup(inState) = deletePools \o T \o releaseEIPs \o deleteLeaseTable
                             \o deleteCoordinationTable \o deleteIAM \o deleteSecurityGroup
    BY DEF Cleanup
  <2>4. ForAll("delete", Shared) = ((L \cup N) \cup I) \cup G
    BY DEF ForAll, Shared
  <2>5. Consists(deletePools, P)
    BY ZonedConsists
  <2>6. /\ Consists(deleteLeaseTable, L) /\ Consists(deleteCoordinationTable, N)
        /\ Consists(deleteIAM, I) /\ Consists(deleteSecurityGroup, G)
    BY SharedConsists
  <2>7. CleanupCalls = P \cup RC \cup ForAll("delete", Shared)
    BY DEF CleanupCalls
  <2> HIDE DEF T, TC, I, P, L, N, G, RC
  <2>8. Consists(deletePools \o T \o releaseEIPs, (P \cup TC) \cup RC)
    BY <2>1, <2>2, <2>5, ConcatConsists
  <2>9. Consists(deletePools \o T \o releaseEIPs \o deleteLeaseTable \o deleteCoordinationTable,
                 (((P \cup TC) \cup RC) \cup L) \cup N)
    BY <2>8, <2>6, ConcatConsists
  <2>10. Consists(Cleanup(inState), (((((P \cup TC) \cup RC) \cup L) \cup N) \cup I) \cup G)
    <3>1. Consists(deletePools \o T \o releaseEIPs \o deleteLeaseTable \o deleteCoordinationTable
                     \o deleteIAM, ((((P \cup TC) \cup RC) \cup L) \cup N) \cup I)
      BY <2>9, <2>6, ConcatConsists
    <3> QED
      BY <2>3, <3>1, <2>6, ConcatConsists
  <2>11. (((((P \cup TC) \cup RC) \cup L) \cup N) \cup I) \cup G = CleanupCalls \cup TC
    BY <2>4, <2>7
  <2> QED
    BY <2>10, <2>11 DEF TC
<1>5. Consists(Cleanup(FALSE), CleanupCalls)
  BY <1>4
<1>6. Consists(RestoreRoutes(order) \o Cleanup(TRUE), DeleteCalls)
  <2>1. Consists(Cleanup(TRUE), CleanupCalls \cup ForAll("terminate", {"owner"}))
    BY <1>4
  <2>2. DeleteCalls = ForEach("restore", {"route"})
                        \cup (CleanupCalls \cup ForAll("terminate", {"owner"}))
    BY DEF DeleteCalls
  <2> QED
    BY <2>1, <2>2, ZonedConsists, ConcatConsists
<1>7. Consists(ReconcileInfrastructure,
               ForAll("create", {"coordination", "role", "policies", "profile", "profileRole"}))
  <2>1. Consists(ReconcileInfrastructure,
                 ForAll("create", {"coordination"})
                   \cup ForAll("create", {"role", "policies", "profile", "profileRole"}))
    BY SharedConsists, ConcatConsists DEF ReconcileInfrastructure
  <2>2. ForAll("create", {"coordination"})
          \cup ForAll("create", {"role", "policies", "profile", "profileRole"})
        = ForAll("create", {"coordination", "role", "policies", "profile", "profileRole"})
    BY DEF ForAll
  <2> QED
    BY <2>1, <2>2
<1>8. Consists(ReconcileInfrastructure \o UpdateCapacity, ResizeCalls)
  BY <1>7, ZonedConsists, ConcatConsists DEF ResizeCalls
<1>9. Consists(ReconcileInfrastructure \o UpdateCapacity \o UpdatePools, RolloutCalls)
  <2>1. RolloutCalls = ResizeCalls \cup (ForAll("find", {"group"}) \cup ForEach("version", {"template"})
                                          \cup ForEach("refresh", {"pool"}))
    BY DEF RolloutCalls
  <2> QED
    BY <1>8, <2>1, ZonedConsists, ConcatConsists
<1> QED
  BY <1>3, <1>5, <1>6, <1>8, <1>9

(* An address is allocated before it is tagged, for every zone.            *)
NoTags(S) == \A c \in S : c.do # "tag"
NoAllocates(S) == \A c \in S : c.do # "allocate"

LEMMA TagsLastWithout ==
  ASSUME NEW s, NoTags(Range(s)) \/ NoAllocates(Range(s))
  PROVE  TagsLast(s)
BY DEF TagsLast, NoTags, NoAllocates, Range, CallFor

LEMMA TagsLastConcat ==
  ASSUME NEW s \in Seq(CallType), NEW t \in Seq(CallType), TagsLast(s), TagsLast(t),
         NoTags(Range(s)) \/ NoAllocates(Range(t))
  PROVE  TagsLast(s \o t)
<1>1. /\ s \o t \in Seq(CallType) /\ Len(s \o t) = Len(s) + Len(t)
      /\ \A i \in 1 .. Len(s) + Len(t) :
           (s \o t)[i] = IF i <= Len(s) THEN s[i] ELSE t[i - Len(s)]
  BY ConcatProperties
<1> SUFFICES ASSUME NEW z \in ZoneSet, NEW i \in 1 .. Len(s) + Len(t),
                    NEW j \in 1 .. Len(s) + Len(t), i < j,
                    (s \o t)[i] = CallFor("tag", "address", z),
                    (s \o t)[j] = CallFor("allocate", "address", z)
             PROVE  FALSE
  BY <1>1 DEF TagsLast
<1>2. CASE j <= Len(s)
  <2>1. i \in DOMAIN s /\ j \in DOMAIN s /\ (s \o t)[i] = s[i] /\ (s \o t)[j] = s[j]
    BY <1>1, <1>2
  <2> QED
    BY <2>1 DEF TagsLast
<1>3. CASE i > Len(s)
  <2>1. /\ i - Len(s) \in DOMAIN t /\ j - Len(s) \in DOMAIN t /\ i - Len(s) < j - Len(s)
        /\ (s \o t)[i] = t[i - Len(s)] /\ (s \o t)[j] = t[j - Len(s)]
    BY <1>1, <1>3
  <2> QED
    BY <2>1 DEF TagsLast
<1>4. CASE i <= Len(s) /\ j > Len(s)
  <2>1. i \in DOMAIN s /\ j - Len(s) \in DOMAIN t /\ (s \o t)[i] = s[i] /\ (s \o t)[j] = t[j - Len(s)]
    BY <1>1, <1>4
  <2>2. CallFor("tag", "address", z) \in Range(s) /\ CallFor("allocate", "address", z) \in Range(t)
    BY <2>1 DEF Range
  <2> QED
    BY <2>2 DEF NoTags, NoAllocates, CallFor
<1> QED
  BY <1>1, <1>2, <1>3, <1>4

LEMMA TagsLastTail ==
  ASSUME NEW s \in Seq(CallType), s # <<>>, TagsLast(s)
  PROVE  /\ TagsLast(Tail(s))
         /\ \A z \in ZoneSet : Head(s) = CallFor("tag", "address", z) =>
              CallFor("allocate", "address", z) \notin Range(Tail(s))
<1>1. /\ Head(s) = s[1] /\ 1 \in DOMAIN s /\ DOMAIN s \subseteq Nat
      /\ \A i \in DOMAIN Tail(s) : i \in Nat \ {0} /\ i + 1 \in DOMAIN s /\ Tail(s)[i] = s[i + 1]
  BY RangeOfTail
<1>2. TagsLast(Tail(s))
  <2> SUFFICES ASSUME NEW z \in ZoneSet, NEW i \in DOMAIN Tail(s), NEW j \in DOMAIN Tail(s), i < j,
                      Tail(s)[i] = CallFor("tag", "address", z),
                      Tail(s)[j] = CallFor("allocate", "address", z)
               PROVE  FALSE
    BY DEF TagsLast
  <2>1. i + 1 < j + 1
    BY <1>1
  <2> QED
    BY <1>1, <2>1 DEF TagsLast
<1>3. ASSUME NEW z \in ZoneSet, Head(s) = CallFor("tag", "address", z),
             CallFor("allocate", "address", z) \in Range(Tail(s))
      PROVE  FALSE
  <2>1. PICK i \in DOMAIN Tail(s) : Tail(s)[i] = CallFor("allocate", "address", z)
    BY <1>3 DEF Range
  <2>2. 1 < i + 1
    BY <1>1
  <2> QED
    BY <1>1, <1>3, <2>1, <2>2 DEF TagsLast
<1> QED
  BY <1>2, <1>3

LEMMA AddressesTagged ==
  ASSUME NEW order \in Orders
  PROVE  TagsLast(InEach(order, allocateEIP \o associateEIP))
<1> DEFINE s == allocateEIP \o associateEIP
           e == InEach(order, s)
           m == Len(order)
           J(i) == ((i - 1) % 3) + 1
           K(i) == ((i - 1) \div 3) + 1
<1>1. /\ Len(s) = 3 /\ s[1] = CallFor("allocate", "address", "all")
      /\ s[2] = CallFor("tag", "address", "all") /\ s[3] = CallFor("associate", "address", "all")
  BY DEF allocateEIP, associateEIP, Calls, CallFor
<1>2. m \in Nat /\ order \in Seq(ZoneSet) /\ \A i, j \in 1 .. m : order[i] = order[j] => i = j
  BY OrdersOfZones
<1>3. e = [i \in 1 .. 3 * m |-> [s[J(i)] EXCEPT !.zone = order[K(i)]]]
  BY <1>1 DEF InEach
<1>4. ASSUME NEW i \in 1 .. 3 * m
      PROVE  J(i) \in 1 .. 3 /\ K(i) \in 1 .. m /\ i = 3 * (K(i) - 1) + J(i)
  BY <1>2
<1> HIDE DEF s, e, m, J, K
<1>5. ASSUME NEW i \in 1 .. 3 * m, NEW z \in ZoneSet
      PROVE  /\ e[i] = CallFor("tag", "address", z) => J(i) = 2 /\ order[K(i)] = z
             /\ e[i] = CallFor("allocate", "address", z) => J(i) = 1 /\ order[K(i)] = z
  <2>1. e[i] = [s[J(i)] EXCEPT !.zone = order[K(i)]] /\ J(i) \in {1, 2, 3}
    BY <1>3, <1>4
  <2>2. CASE J(i) = 1
    BY <2>1, <2>2, <1>1 DEF CallFor
  <2>3. CASE J(i) = 2
    BY <2>1, <2>3, <1>1 DEF CallFor
  <2>4. CASE J(i) = 3
    BY <2>1, <2>4, <1>1 DEF CallFor
  <2> QED
    BY <2>1, <2>2, <2>3, <2>4
<1>6. DOMAIN e = 1 .. 3 * m
  BY <1>3
<1> SUFFICES ASSUME NEW z \in ZoneSet, NEW i \in 1 .. 3 * m, NEW j \in 1 .. 3 * m, i < j,
                    e[i] = CallFor("tag", "address", z), e[j] = CallFor("allocate", "address", z)
             PROVE  FALSE
  BY <1>6 DEF TagsLast, e, s
<1>7. J(i) = 2 /\ J(j) = 1 /\ order[K(i)] = order[K(j)]
  BY <1>5
<1>8. K(i) = K(j)
  BY <1>2, <1>4, <1>7
<1> QED
  BY <1>4, <1>7, <1>8, <1>2

LEMMA ApplyTags ==
  ASSUME NEW order \in Orders
  PROVE  TagsLast(Apply(order))
<1> DEFINE C == createIAM \o ensureSecurityGroup \o createLeaseTable \o createCoordinationTable
                  \o InEach(Zones, createPool \o waitForPoolOwner)
           A == CASE Addresses = "managed"  -> InEach(order, allocateEIP \o associateEIP)
                  [] Addresses = "external" -> InEach(order, associateEIP)
                  [] Addresses = "none"     -> <<>>
           R == InEach(Zones, InitialRoute)
<1>0. order \in Seq(ZoneSet) /\ Range(order) = ZoneSet
  BY OrdersOfZones
<1>1. C \in Seq(CallType) /\ NoTags(Range(C))
  <2> DEFINE p == InEach(Zones, createPool \o waitForPoolOwner)
             P == ForEach("create", OfPool) \cup ForEach("await", {"owner"})
  <2>1. Consists(p, P)
    BY <1>0, ZonedConsists
  <2> HIDE DEF p, P
  <2>2. Consists(C, ((((ForAll("create", {"role", "policies", "profile", "profileRole"})
                         \cup ForAll("create", {"group"})) \cup ForAll("create", {"leases"}))
                       \cup ForAll("create", {"coordination"})) \cup P))
    BY <2>1, SharedConsists, ConcatConsists DEF p
  <2> QED
    BY <2>2 DEF Consists, NoTags, ForAll, ForEach, P
<1>2. R \in Seq(CallType) /\ NoAllocates(Range(R))
  <2>1. Consists(R, ForEach("snapshot", {"route"}) \cup ForEach("replace", {"route"}))
    BY <1>0, ZonedConsists
  <2> HIDE DEF R
  <2> QED
    BY <2>1 DEF Consists, NoAllocates, ForEach
<1>3. A \in Seq(CallType) /\ TagsLast(A)
  <2>1. CASE Addresses = "managed"
    <3>1. A = InEach(order, allocateEIP \o associateEIP)
      BY <2>1
    <3> QED
      BY <3>1, <1>0, ZonedConsists, AddressesTagged DEF Consists
  <2>2. CASE Addresses = "external"
    <3>1. A = InEach(order, associateEIP)
      BY <2>2
    <3>2. A \in Seq(CallType) /\ NoTags(Range(A))
      <4>1. Consists(A, ForEach("associate", {"address"}))
        BY <3>1, <1>0, ZonedConsists
      <4> HIDE DEF A
      <4> QED
        BY <4>1 DEF Consists, NoTags, ForEach
    <3> QED
      BY <3>2, TagsLastWithout
  <2>3. CASE Addresses = "none"
    <3>1. A = <<>>
      BY <2>3
    <3> QED
      BY <3>1, EmptyConsists, TagsLastWithout DEF Consists, NoTags
  <2> QED
    BY <2>1, <2>2, <2>3, SwitchesAssumption
<1>4. Apply(order) = C \o A \o R
  BY DEF Apply
<1> HIDE DEF C, A, R
<1>5. C \o A \in Seq(CallType) /\ TagsLast(C \o A)
  BY <1>1, <1>3, TagsLastConcat, TagsLastWithout, RangeOfConcat
<1> QED
  BY <1>2, <1>4, <1>5, TagsLastConcat, TagsLastWithout

-----------------------------------------------------------------------------
(* What a call does.                                                       *)
LEMMA CallShapes ==
  ASSUME NEW k \in {"create", "undo", "delete", "resize", "rollout"}, NEW c \in CallsOf(k)
  PROVE  /\ c \in CallType
         /\ c.do = "create" =>
              /\ k \in {"create", "resize", "rollout"}
              /\ \/ c.kind \in Shared /\ c.zone = "all"
                 \/ k = "create" /\ c.kind \in OfPool /\ c.zone \in ZoneSet
         /\ c.do = "delete" =>
              /\ k \in {"delete", "undo"}
              /\ \/ c.kind \in Shared /\ c.zone = "all"
                 \/ c.kind \in OfPool \cup {"address"} /\ c.zone \in ZoneSet
         /\ c.do \in {"allocate", "tag"} =>
              k = "create" /\ c.kind = "address" /\ c.zone \in ZoneSet /\ Addresses = "managed"
         /\ c.do \in {"snapshot", "replace"} =>
              k = "create" /\ c.kind = "route" /\ c.zone \in ZoneSet
         /\ c.do = "restore" => k = "delete" /\ c.kind = "route" /\ c.zone \in ZoneSet
         /\ c.do = "resize" => k \in {"resize", "rollout"} /\ c.kind = "pool" /\ c.zone \in ZoneSet
         /\ c.do = "shrink" => k \in {"delete", "undo"} /\ c.kind = "pool" /\ c.zone \in ZoneSet
         /\ c.do = "refresh" => k = "rollout" /\ c.kind = "pool" /\ c.zone \in ZoneSet
<1> USE DEF ForAll, ForEach, CallType, Dos, Kinds, Shared, OfPool
<1>1. CASE k = "create"
  BY <1>1 DEF CallsOf, ApplyCalls
<1>2. CASE k = "undo"
  BY <1>2 DEF CallsOf, CleanupCalls
<1>3. CASE k = "delete"
  BY <1>3 DEF CallsOf, DeleteCalls, CleanupCalls
<1>4. CASE k = "resize"
  BY <1>4 DEF CallsOf, ResizeCalls
<1>5. CASE k = "rollout"
  BY <1>5 DEF CallsOf, RolloutCalls, ResizeCalls
<1> QED
  BY <1>1, <1>2, <1>3, <1>4, <1>5

OpKinds == {"create", "undo", "delete", "resize", "rollout"}

LEMMA Operating ==
  ASSUME OpTyped
  PROVE  /\ op = Idle => op.kind = "idle"
         /\ op # Idle =>
              /\ op.kind \in OpKinds /\ op.gen \in Gens /\ op.gen < next
              /\ op.saved \in Saved /\ op.plan \in Plans \cup {NoPool}
              /\ op.kind \in {"create", "resize", "rollout"} => op.plan \in Plans
              /\ op.todo \in Seq(CallType)
BY DEF OpTyped, OpType, Idle, OpKinds

LEMMA Calling1 ==
  ASSUME OpTyped, Calling
  PROVE  /\ op.kind \in OpKinds /\ op.gen \in Gens
         /\ Call \in CallsOf(op.kind) /\ Tail(op.todo) \in Seq(CallType)
         /\ Pending = {Call} \cup Range(Tail(op.todo))
<1>1. op.todo \in Seq(CallType) /\ op.todo # <<>> /\ op.kind \in OpKinds /\ op.gen \in Gens
  BY Operating DEF Calling
<1>2. Pending = {Call} \cup Range(Tail(op.todo)) /\ Tail(op.todo) \in Seq(CallType)
  BY <1>1, RangeOfTail DEF Pending, Call
<1> QED
  BY <1>1, <1>2 DEF OpTyped, Calling

(* What every call keeps, whether it takes effect or not.                  *)
CloudMoves ==
  /\ CloudTyped' /\ KnownObjects' /\ previous' = previous
  /\ \A g \in Gens : g # op.gen => pool'[g] = pool[g] /\ (HasPool(g)' => HasPool(g))
  /\ op.kind \in {"create", "resize", "rollout"} => objects \subseteq objects'
  /\ op.kind \in {"delete", "undo"} => objects' \subseteq objects
  /\ op.kind = "resize" => \A z \in ZoneSet : pool'[op.gen][z].config = pool[op.gen][z].config

(* What a call does that takes effect.                                     *)
CallDone ==
  /\ Call.do \in {"create", "tag"} => Named(Call) \in objects'
  /\ Call.do = "delete" => Named(Call) \notin objects'
  /\ op.kind = "create" =>
       \A z \in ZoneSet :
         /\ pool'[op.gen][z] = IF Call = CallFor("create", "pool", z) THEN op.plan ELSE pool[op.gen][z]
         /\ Call = CallFor("allocate", "address", z) =>
              Object("address", z, 0) \in objects \/ untagged'[z] > 0
         /\ Call.do \notin {"allocate", "tag"} \/ Call.zone # z => untagged'[z] = untagged[z]
  /\ op.kind \in {"resize", "rollout"} =>
       \A z \in ZoneSet :
         /\ pool'[op.gen][z].size =
              IF Call = CallFor("resize", "pool", z) THEN op.plan.size ELSE pool[op.gen][z].size
         /\ pool'[op.gen][z].config =
              IF Call = CallFor("refresh", "pool", z) THEN op.plan.config ELSE pool[op.gen][z].config
  /\ op.kind = "delete" =>
       \A z \in ZoneSet :
         IF Call = CallFor("restore", "route", z)
         THEN state[op.gen].saved[z] = Before /\ previous => route'[z] = Before
         ELSE route'[z] = route[z]

LEMMA Names ==
  ASSUME NEW g \in Gens
  PROVE  /\ \A k \in Shared : Object(k, "all", g) = Object(k, "all", 0)
         /\ \A z : Object("address", z, g) = Object("address", z, 0)
         /\ \A k \in OfPool : \A z : Object(k, z, g) = [kind |-> k, zone |-> z, gen |-> g]
         /\ \A k, z, h : Object(k, z, h).kind = k /\ Object(k, z, h).zone = z
BY DEF Object, Shared, OfPool

LEMMA CloudStays ==
  ASSUME CloudTyped, KnownObjects, UNCHANGED cloud
  PROVE  CloudMoves
BY DEF cloud, CloudTyped, KnownObjects, CloudMoves, HasPool

LEMMA CreateMoves ==
  ASSUME CloudTyped, KnownObjects, OpTyped, Calling, CreateObject(Call)
  PROVE  CloudMoves /\ CallDone
<1> DEFINE g == op.gen
           k == Call.kind
           z == Call.zone
<1>1. /\ op.kind \in OpKinds /\ g \in Gens /\ Call \in CallsOf(op.kind)
  BY Calling1
<1>2. /\ Call \in CallType /\ Call.do = "create" /\ op.kind \in {"create", "resize", "rollout"}
      /\ \/ k \in Shared /\ z = "all"
         \/ op.kind = "create" /\ k \in OfPool /\ z \in ZoneSet
  BY <1>1, CallShapes DEF CreateObject, OpKinds
<1>3. op.plan \in Plans /\ op.plan \in Pools
  BY <1>2, Operating DEF Calling, Plans, Pools
<1>4. objects' = objects \cup {Named(Call)} /\ Named(Call) = Object(k, z, g)
  BY DEF CreateObject, Named
<1>5. Named(Call) \in SharedObjects \cup PoolObjects(g)
  BY <1>1, <1>2, <1>4, Names DEF SharedObjects, PoolObjects
<1>6. KnownObjects'
  BY <1>1, <1>4, <1>5 DEF KnownObjects
<1>7. k = "pool" => z \in ZoneSet /\ op.kind = "create"
  BY <1>2 DEF Shared
<1>8. IF k = "pool"
      THEN pool' = [pool EXCEPT ![g][z] = op.plan] /\ running' = running \cup {<<g, z>>}
      ELSE pool' = pool /\ running' = running
  BY DEF CreateObject
<1>9. UNCHANGED <<route, previous, untagged>>
  BY DEF CreateObject
<1>10. CloudTyped'
  BY <1>1, <1>3, <1>7, <1>8, <1>9 DEF CloudTyped
<1>11. ASSUME NEW h \in Gens, h # g PROVE pool'[h] = pool[h] /\ (HasPool(h)' => HasPool(h))
  <2>1. pool'[h] = pool[h]
    BY <1>8, <1>11 DEF CloudTyped
  <2>2. ASSUME NEW y \in ZoneSet, Object("pool", y, h) = Named(Call) PROVE FALSE
    BY <1>1, <1>2, <1>4, <1>11, <2>2 DEF Object, Shared
  <2> QED
    BY <2>1, <2>2, <1>4 DEF HasPool
<1>12. CloudMoves
  BY <1>2, <1>4, <1>6, <1>7, <1>8, <1>9, <1>10, <1>11 DEF CloudMoves
<1>13. ASSUME NEW y \in ZoneSet, op.kind = "create"
       PROVE  pool'[g][y] = IF Call = CallFor("create", "pool", y) THEN op.plan ELSE pool[g][y]
  <2>1. Call = CallFor("create", "pool", y) <=> (k = "pool" /\ z = y)
    BY <1>2 DEF CallFor, CallType
  <2> QED
    BY <1>1, <1>7, <1>8, <2>1 DEF CloudTyped
<1>14. ASSUME NEW y \in ZoneSet, op.kind \in {"resize", "rollout"}
       PROVE  pool'[g][y] = pool[g][y]
  BY <1>7, <1>8, <1>14
<1>15. \A do \in {"allocate", "resize", "refresh", "restore"} : \A y : Call # CallFor(do, "pool", y)
         /\ Call # CallFor(do, "address", y) /\ Call # CallFor(do, "route", y)
  BY <1>2 DEF CallFor
<1> QED
  BY <1>2, <1>4, <1>9, <1>12, <1>13, <1>14, <1>15 DEF CallDone

LEMMA DeleteMoves ==
  ASSUME CloudTyped, KnownObjects, OpTyped, Calling, DeleteObject(Call)
  PROVE  CloudMoves /\ CallDone
<1> DEFINE g == op.gen
           k == Call.kind
           z == Call.zone
<1>1. op.kind \in OpKinds /\ g \in Gens /\ Call \in CallsOf(op.kind)
  BY Calling1
<1>2. /\ Call \in CallType /\ Call.do = "delete" /\ op.kind \in {"delete", "undo"}
      /\ k = "pool" => z \in ZoneSet
  BY <1>1, CallShapes DEF DeleteObject, OpKinds, Shared
<1>3. objects' \subseteq objects /\ Named(Call) \notin objects'
  BY DEF DeleteObject
<1>4. KnownObjects'
  BY <1>3 DEF KnownObjects
<1>5. pool' = IF k = "pool" THEN [pool EXCEPT ![g][z] = NoPool] ELSE pool
  BY DEF DeleteObject
<1>6. UNCHANGED <<running, route, previous, untagged>>
  BY DEF DeleteObject
<1>7. NoPool \in Pools
  BY BoundsAssumption DEF NoPool, Pools
<1>8. CloudTyped'
  BY <1>1, <1>2, <1>5, <1>6, <1>7 DEF CloudTyped
<1>9. ASSUME NEW h \in Gens, h # g PROVE pool'[h] = pool[h] /\ (HasPool(h)' => HasPool(h))
  BY <1>3, <1>5, <1>9 DEF CloudTyped, HasPool
<1>10. CloudMoves
  BY <1>2, <1>3, <1>4, <1>6, <1>8, <1>9 DEF CloudMoves
<1>11. \A y : Call # CallFor("restore", "route", y)
  BY <1>2 DEF CallFor
<1> QED
  BY <1>2, <1>3, <1>6, <1>10, <1>11 DEF CallDone

LEMMA AddressMoves ==
  ASSUME CloudTyped, KnownObjects, OpTyped, TagsFollow, Calling,
         AllocateAddress(Call) \/ TagAddress(Call)
  PROVE  CloudMoves /\ CallDone
<1> DEFINE g == op.gen
           z == Call.zone
<1>1. op.kind \in OpKinds /\ g \in Gens /\ Call \in CallsOf(op.kind)
  BY Calling1
<1>2. /\ Call \in CallType /\ Call.do \in {"allocate", "tag"} /\ op.kind = "create"
      /\ Call.kind = "address" /\ z \in ZoneSet /\ Addresses = "managed"
  BY <1>1, CallShapes DEF AllocateAddress, TagAddress, OpKinds
<1>3. Named(Call) = Object("address", z, 0) /\ Named(Call) \in AddressObjects
  BY <1>1, <1>2, Names DEF Named, AddressObjects
<1>4. Call = CallFor(Call.do, "address", z)
  BY <1>2 DEF CallFor, CallType
<1>5. untagged[z] \in Nat
  BY <1>2 DEF CloudTyped
<1>6. /\ objects \subseteq objects' /\ objects' \subseteq objects \cup {Named(Call)}
      /\ UNCHANGED <<pool, running, route, previous>>
  BY DEF AllocateAddress, TagAddress
<1>7. KnownObjects'
  BY <1>3, <1>6 DEF KnownObjects
<1>8. ASSUME TagAddress(Call), Named(Call) \notin objects PROVE untagged[z] > 0
  <2>1. Call = CallFor("tag", "address", z) /\ op.todo \in Seq(CallType) /\ op.todo # <<>>
    BY <1>4, <1>8, Operating DEF TagAddress, Calling
  <2>2. CallFor("allocate", "address", z) \notin Range(Tail(op.todo))
    BY <1>2, <2>1, TagsLastTail DEF TagsFollow, Call
  <2>3. CallFor("allocate", "address", z) # Call
    BY <2>1 DEF CallFor
  <2>4. Awaits("tag", "address", z) /\ ~ Awaits("allocate", "address", z)
    BY <2>1, <2>2, <2>3, Calling1 DEF Awaits
  <2> QED
    BY <1>2, <1>3, <1>8, <2>4 DEF TagsFollow
<1>9. /\ untagged' \in [ZoneSet -> Nat]
      /\ \A y \in ZoneSet : y # z => untagged'[y] = untagged[y]
  <2>1. CASE untagged' = untagged
    BY <2>1 DEF CloudTyped
  <2>2. CASE untagged' = [untagged EXCEPT ![z] = @ + 1]
    BY <1>2, <1>5, <2>2 DEF CloudTyped
  <2>3. CASE untagged' = [untagged EXCEPT ![z] = @ - 1] /\ untagged[z] > 0
    <3>1. untagged[z] - 1 \in Nat
      BY <1>5, <2>3
    <3> QED
      BY <1>2, <3>1, <2>3 DEF CloudTyped
  <2> QED
    BY <1>8, <2>1, <2>2, <2>3 DEF AllocateAddress, TagAddress
<1>10. CloudTyped'
  BY <1>6, <1>9 DEF CloudTyped
<1>11. \A h \in Gens : HasPool(h)' => HasPool(h)
  BY <1>3, <1>6, Names DEF HasPool, Object
<1>12. CloudMoves
  BY <1>2, <1>6, <1>7, <1>10, <1>11 DEF CloudMoves
<1>13. Call.do = "tag" => Named(Call) \in objects'
  BY DEF AllocateAddress, TagAddress
<1>14. ASSUME Call.do = "allocate" PROVE Named(Call) \in objects \/ untagged'[z] > 0
  <2>1. untagged' = IF Named(Call) \in objects THEN untagged ELSE [untagged EXCEPT ![z] = @ + 1]
    BY <1>14 DEF AllocateAddress, TagAddress
  <2> QED
    BY <1>2, <1>5, <2>1 DEF CloudTyped
<1>15. \A y : /\ Call # CallFor("create", "pool", y)
              /\ Call = CallFor("allocate", "address", y) => Call.do = "allocate" /\ z = y
  BY <1>2 DEF CallFor
<1> QED
  BY <1>2, <1>3, <1>6, <1>9, <1>12, <1>13, <1>14, <1>15 DEF CallDone

LEMMA RouteMoves ==
  ASSUME CloudTyped, KnownObjects, OpTyped, StateTyped, OneGeneration, Calling,
         ReplaceRoute(Call) \/ RestoreRoute(Call)
  PROVE  CloudMoves /\ CallDone
<1> DEFINE g == op.gen
           z == Call.zone
<1>1. op.kind \in OpKinds /\ g \in Gens /\ Call \in CallsOf(op.kind)
  BY Calling1
<1>2. /\ Call \in CallType /\ Call.do \in {"replace", "restore"}
      /\ Call.kind = "route" /\ z \in ZoneSet
      /\ Call.do = "replace" => op.kind = "create"
      /\ Call.do = "restore" => op.kind = "delete"
  BY <1>1, CallShapes DEF ReplaceRoute, RestoreRoute, OpKinds
<1>3. UNCHANGED <<objects, pool, running, previous, untagged>>
  BY DEF ReplaceRoute, RestoreRoute
<1>4. ASSUME RestoreRoute(Call)
      PROVE  /\ \/ route' = route
                \/ state[g].saved[z] \in Targets /\ route' = [route EXCEPT ![z] = state[g].saved[z]]
             /\ state[g].saved[z] = Before /\ previous => route' = [route EXCEPT ![z] = Before]
  <2> DEFINE target == state[g].saved[z]
  <2>1. Call.do = "restore" /\ g \in DOMAIN state
    BY <1>2, <1>4 DEF RestoreRoute, OneGeneration
  <2>2. target \in {-1} \cup Targets
    BY <1>2, <2>1 DEF StateTyped, Saved
  <2>3. route' = IF isStaleRollbackTarget(target, z) THEN route ELSE [route EXCEPT ![z] = target]
    BY <1>4 DEF RestoreRoute
  <2>4. target = -1 => isStaleRollbackTarget(target, z)
    BY DEF isStaleRollbackTarget, CloudTyped, Before, Gens
  <2>5. target = Before /\ previous => ~ isStaleRollbackTarget(target, z)
    BY DEF isStaleRollbackTarget
  <2> HIDE DEF target
  <2>6. target = -1 => route' = route
    BY <2>3, <2>4
  <2>7. target \in Targets => route' = route \/ route' = [route EXCEPT ![z] = target]
    BY <2>3
  <2>8. target = Before /\ previous => route' = [route EXCEPT ![z] = Before]
    BY <2>3, <2>5
  <2> QED
    BY <2>2, <2>6, <2>7, <2>8 DEF target
<1>5. route' \in [ZoneSet -> Targets] /\ \A y \in ZoneSet : y # z => route'[y] = route[y]
  <2>1. CASE ReplaceRoute(Call)
    <3>1. route' = [route EXCEPT ![z] = g] /\ g \in Targets
      BY <1>1, <2>1 DEF ReplaceRoute, Targets
    <3> QED
      BY <1>2, <3>1 DEF CloudTyped
  <2>2. CASE RestoreRoute(Call)
    BY <1>2, <1>4, <2>2 DEF CloudTyped
  <2> QED
    BY <2>1, <2>2
<1>6. CloudTyped' /\ KnownObjects'
  BY <1>3, <1>5 DEF CloudTyped, KnownObjects
<1>7. CloudMoves
  BY <1>3, <1>6 DEF CloudMoves, HasPool
<1>8. \A do \in {"create", "resize", "refresh", "allocate"} : \A k, y : Call # CallFor(do, k, y)
  BY <1>2 DEF CallFor
<1>9. ASSUME op.kind = "delete", NEW y \in ZoneSet
      PROVE  IF Call = CallFor("restore", "route", y)
             THEN state[g].saved[y] = Before /\ previous => route'[y] = Before
             ELSE route'[y] = route[y]
  <2>1. RestoreRoute(Call) /\ Call.do = "restore"
    BY <1>2, <1>9 DEF ReplaceRoute, RestoreRoute
  <2>2. Call = CallFor("restore", "route", y) <=> y = z
    BY <1>2, <2>1 DEF CallFor, CallType
  <2>3. CASE y = z
    BY <1>4, <2>1, <2>2, <2>3 DEF CloudTyped
  <2>4. CASE y # z
    BY <1>5, <2>2, <2>4
  <2> QED
    BY <2>3, <2>4
<1> QED
  BY <1>2, <1>3, <1>7, <1>8, <1>9 DEF CallDone

LEMMA PoolMoves ==
  ASSUME CloudTyped, KnownObjects, OpTyped, Calling, ~ Refused(Call),
         ResizePool(Call) \/ RefreshPool(Call)
  PROVE  CloudMoves /\ CallDone
<1> DEFINE g == op.gen
           z == Call.zone
<1>1. op.kind \in OpKinds /\ g \in Gens /\ Call \in CallsOf(op.kind)
  BY Calling1
<1>2. /\ Call \in CallType /\ Call.do \in {"resize", "shrink", "refresh"}
      /\ Call.kind = "pool" /\ z \in ZoneSet
      /\ Call.do = "shrink" => op.kind \in {"delete", "undo"}
      /\ Call.do = "resize" => op.kind \in {"resize", "rollout"} /\ Pool(Call) \in objects
      /\ Call.do = "refresh" => op.kind = "rollout"
  BY <1>1, CallShapes DEF ResizePool, RefreshPool, OpKinds, Refused
<1>3. UNCHANGED <<objects, route, previous, untagged>>
  BY DEF ResizePool, RefreshPool
<1>4. op.kind \in {"resize", "rollout"} => op.plan \in Plans
  BY Operating DEF Calling
<1>5. pool[g][z] \in Pools
  BY <1>1, <1>2 DEF CloudTyped
<1>6. running' \in SUBSET (Gens \X ZoneSet)
  BY <1>1, <1>2 DEF ResizePool, RefreshPool, CloudTyped
<1>7. ASSUME Call.do = "shrink"
      PROVE  pool' = pool \/ pool' = [pool EXCEPT ![g][z].size = 0]
  BY <1>7 DEF ResizePool, RefreshPool
<1>8. Call.do = "resize" => pool' = [pool EXCEPT ![g][z].size = op.plan.size]
  BY <1>2 DEF ResizePool, RefreshPool
<1>9. Call.do = "refresh" => pool' = [pool EXCEPT ![g][z].config = op.plan.config]
  BY DEF ResizePool, RefreshPool
<1>10. /\ pool' \in [Gens -> [ZoneSet -> Pools]]
       /\ \A h \in Gens : h # g => pool'[h] = pool[h]
       /\ \A y \in ZoneSet : y # z => pool'[g][y] = pool[g][y]
       /\ Call.do = "resize" =>
            pool'[g][z].size = op.plan.size /\ pool'[g][z].config = pool[g][z].config
       /\ Call.do = "refresh" =>
            pool'[g][z].size = pool[g][z].size /\ pool'[g][z].config = op.plan.config
  <2>1. CASE Call.do = "shrink"
    <3>1. [pool[g][z] EXCEPT !.size = 0] \in Pools
      BY <1>5, BoundsAssumption DEF Pools
    <3> QED
      BY <1>1, <1>2, <1>7, <2>1, <3>1 DEF CloudTyped
  <2>2. CASE Call.do = "resize"
    <3>1. /\ [pool[g][z] EXCEPT !.size = op.plan.size] \in Pools
          /\ [pool[g][z] EXCEPT !.size = op.plan.size].size = op.plan.size
          /\ [pool[g][z] EXCEPT !.size = op.plan.size].config = pool[g][z].config
      BY <1>2, <1>4, <1>5, <2>2 DEF Pools, Plans
    <3> DEFINE w == [pool[g][z] EXCEPT !.size = op.plan.size]
    <3>2. pool' = [pool EXCEPT ![g] = [pool[g] EXCEPT ![z] = w]]
      BY <1>8, <2>2
    <3> HIDE DEF w
    <3>3. w \in Pools
      BY <3>1 DEF w
    <3>4. [pool[g] EXCEPT ![z] = w] \in [ZoneSet -> Pools] /\ pool'[g][z] = w
      BY <1>1, <1>2, <3>2, <3>3 DEF CloudTyped
    <3>5. \A y \in ZoneSet : y # z => pool'[g][y] = pool[g][y]
      BY <1>1, <1>2, <3>2 DEF CloudTyped
    <3>6. pool' \in [Gens -> [ZoneSet -> Pools]] /\ \A h \in Gens : h # g => pool'[h] = pool[h]
      BY <1>1, <3>2, <3>4 DEF CloudTyped
    <3>7. w.size = op.plan.size /\ w.config = pool[g][z].config
      BY <3>1 DEF w
    <3> QED
      BY <2>2, <3>4, <3>5, <3>6, <3>7
  <2>3. CASE Call.do = "refresh"
    <3>1. /\ [pool[g][z] EXCEPT !.config = op.plan.config] \in Pools
          /\ [pool[g][z] EXCEPT !.config = op.plan.config].config = op.plan.config
          /\ [pool[g][z] EXCEPT !.config = op.plan.config].size = pool[g][z].size
      BY <1>2, <1>4, <1>5, <2>3 DEF Pools, Plans
    <3> DEFINE w == [pool[g][z] EXCEPT !.config = op.plan.config]
    <3>2. pool' = [pool EXCEPT ![g] = [pool[g] EXCEPT ![z] = w]]
      BY <1>9, <2>3
    <3> HIDE DEF w
    <3>3. w \in Pools
      BY <3>1 DEF w
    <3>4. [pool[g] EXCEPT ![z] = w] \in [ZoneSet -> Pools] /\ pool'[g][z] = w
      BY <1>1, <1>2, <3>2, <3>3 DEF CloudTyped
    <3>5. \A y \in ZoneSet : y # z => pool'[g][y] = pool[g][y]
      BY <1>1, <1>2, <3>2 DEF CloudTyped
    <3>6. pool' \in [Gens -> [ZoneSet -> Pools]] /\ \A h \in Gens : h # g => pool'[h] = pool[h]
      BY <1>1, <3>2, <3>4 DEF CloudTyped
    <3>7. w.config = op.plan.config /\ w.size = pool[g][z].size
      BY <3>1 DEF w
    <3> QED
      BY <2>3, <3>4, <3>5, <3>6, <3>7
  <2> QED
    BY <1>2, <2>1, <2>2, <2>3
<1>11. CloudTyped' /\ KnownObjects'
  BY <1>3, <1>6, <1>10 DEF CloudTyped, KnownObjects
<1>12. ASSUME op.kind = "resize", NEW y \in ZoneSet PROVE pool'[g][y].config = pool[g][y].config
  BY <1>2, <1>10, <1>12
<1>13. CloudMoves
  BY <1>3, <1>10, <1>11, <1>12 DEF CloudMoves, HasPool
<1>14. ASSUME op.kind \in {"resize", "rollout"}, NEW y \in ZoneSet
       PROVE  /\ pool'[g][y].size =
                   IF Call = CallFor("resize", "pool", y) THEN op.plan.size ELSE pool[g][y].size
              /\ pool'[g][y].config =
                   IF Call = CallFor("refresh", "pool", y) THEN op.plan.config ELSE pool[g][y].config
  <2>1. /\ Call = CallFor("resize", "pool", y) <=> (Call.do = "resize" /\ y = z)
        /\ Call = CallFor("refresh", "pool", y) <=> (Call.do = "refresh" /\ y = z)
    BY <1>2 DEF CallFor, CallType
  <2>2. Call.do \in {"resize", "refresh"}
    BY <1>2, <1>14
  <2> QED
    BY <1>10, <2>1, <2>2
<1>15. \A y : Call # CallFor("restore", "route", y)
  BY <1>2 DEF CallFor
<1>16. Call.do \notin {"create", "tag", "delete"} /\ op.kind # "create"
  BY <1>2
<1> QED
  BY <1>3, <1>13, <1>14, <1>15, <1>16 DEF CallDone

LEMMA OtherMoves ==
  ASSUME CloudTyped, KnownObjects, OtherCall(Call)
  PROVE  CloudMoves /\ CallDone
<1>1. UNCHANGED cloud /\ Call.do \in {"await", "associate", "snapshot", "terminate", "find", "version"}
  BY DEF OtherCall
<1>2. \A do \in {"create", "allocate", "resize", "refresh", "restore"} : \A k, y : Call # CallFor(do, k, y)
  BY <1>1 DEF CallFor
<1> QED
  BY <1>1, <1>2, CloudStays DEF CallDone, cloud

LEMMA EffectMoves ==
  ASSUME CloudTyped, KnownObjects, OpTyped, StateTyped, OneGeneration, TagsFollow,
         Calling, ~ Refused(Call), Effect(Call)
  PROVE  CloudMoves /\ CallDone
BY CreateMoves, DeleteMoves, AddressMoves, RouteMoves, PoolMoves, OtherMoves DEF Effect

-----------------------------------------------------------------------------
(* The first state, and the operations' first steps.                       *)
LEMMA InitAws == Init => AwsInv
<1> SUFFICES ASSUME Init PROVE AwsInv
  OBVIOUS
<1> USE DEF Init
<1>1. DOMAIN state = {} /\ op = Idle /\ op.kind = "idle" /\ objects = {}
  BY DEF Idle
<1>2. NoPool \in Pools /\ MaxGen \in Nat \ {0} /\ MaxFaults \in Nat /\ MaxCrashes \in Nat
  BY BoundsAssumption DEF NoPool, Pools
<1>3. CloudTyped
  BY <1>2 DEF CloudTyped, Targets
<1>4. OpTyped /\ CountsTyped /\ HistoryTyped
  BY <1>1, <1>2 DEF OpTyped, CountsTyped, HistoryTyped
<1>5. StateTyped
  <2>1. state = [g \in {} |-> state[g]]
    BY <1>1
  <2> QED
    BY <1>1, <2>1 DEF StateTyped
<1> QED
  BY <1>1, <1>3, <1>4, <1>5
  DEF AwsInv, KnownObjects, OneGeneration, Accounted, HasPool, LiveGatewayIsWhole, CreateMakes,
      TagsFollow, UpdateChanges, SizeDescribed, ConfigDescribed, CleanupRemoves, DeleteRestores

LEMMA StartTyped ==
  ASSUME NEW k \in OpKinds, NEW g \in Gens, g < next', NEW plan \in Plans \cup {NoPool}, NEW todo,
         k \in {"create", "resize", "rollout"} => plan \in Plans,
         Consists(todo, CallsOf(k)), Start(k, g, plan, todo)
  PROVE  /\ OpTyped' /\ op' # Idle /\ op'.kind = k /\ op'.gen = g /\ op'.plan = plan
         /\ op'.todo = todo /\ Pending' = CallsOf(k)
<1>1. op' = [kind |-> k, gen |-> g, plan |-> plan, saved |-> NoRoutes, todo |-> todo]
  BY DEF Start
<1>2. NoRoutes \in Saved
  BY DEF NoRoutes, Saved
<1>3. /\ op'.kind = k /\ op'.gen = g /\ op'.plan = plan /\ op'.todo = todo
      /\ todo \in Seq(CallType) /\ Range(todo) = CallsOf(k)
  BY <1>1 DEF Consists
<1>4. op' \in OpType
  BY <1>1, <1>2, <1>3 DEF OpType, OpKinds
<1>5. op' # Idle
  BY <1>3 DEF Idle, OpKinds
<1>6. Pending' = CallsOf(k)
  BY <1>3 DEF Pending
<1> QED
  BY <1>3, <1>4, <1>5, <1>6 DEF OpTyped

LEMMA OnlyGeneration ==
  ASSUME OneGeneration, StateTyped, DOMAIN state # {}
  PROVE  Current \in Gens /\ DOMAIN state = {Current} /\ Current < next
<1>1. PICK g \in Gens : DOMAIN state = {g}
  BY DEF OneGeneration
<1>2. g \in Int
  BY BoundsAssumption DEF Gens
<1>3. \E x \in {g} : \A y \in {g} : x >= y
  BY <1>2
<1>4. Current = g
  BY <1>1, <1>3 DEF Current, Max
<1> QED
  BY <1>1, <1>4 DEF StateTyped

LEMMA CallsOfKinds ==
  /\ CallsOf("create") = ApplyCalls /\ CallsOf("undo") = CleanupCalls
  /\ CallsOf("delete") = DeleteCalls /\ CallsOf("resize") = ResizeCalls
  /\ CallsOf("rollout") = RolloutCalls
BY DEF CallsOf

LEMMA ZonesInOrder == Zones \in Seq(ZoneSet) /\ Range(Zones) = ZoneSet
BY ZonesAreFinite

LEMMA CreateAws ==
  ASSUME ~ CreateFirst, AwsInv, Create
  PROVE  AwsInv'
<1> USE DEF AwsInv
<1>1. PICK order \in Orders : Start("create", next, DeriveGatewayState(1, 1), Apply(order))
  BY DEF Create
<1>2. /\ op = Idle /\ DOMAIN state = {} /\ next \in Gens /\ next' = next + 1
      /\ UNCHANGED <<cloud, state, wanted, faults, crashes, history>>
  BY DEF Create, CountsTyped, Gens
<1>3. DeriveGatewayState(1, 1) \in Plans /\ MaxGen \in Nat /\ next \in Nat
  BY <1>2, BoundsAssumption DEF DeriveGatewayState, Plans, Gens
<1>4. Consists(Apply(order), ApplyCalls) /\ TagsLast(Apply(order))
  BY OrdersOfZones, OperationsConsist, ApplyTags
<1>5. /\ OpTyped' /\ op' # Idle /\ op'.kind = "create" /\ op'.gen = next
      /\ op'.todo = Apply(order) /\ Pending' = ApplyCalls
  <2>1. "create" \in OpKinds /\ next < next'
    BY <1>2, <1>3 DEF OpKinds
  <2> QED
    BY <1>1, <1>2, <1>3, <1>4, <2>1, CallsOfKinds, StartTyped
<1>6. CloudTyped' /\ KnownObjects' /\ HistoryTyped'
  BY <1>2 DEF cloud, history, CloudTyped, KnownObjects, HistoryTyped
<1>7. CountsTyped'
  <2>1. next + 1 \in 1 .. MaxGen + 1
    BY <1>2, <1>3 DEF Gens
  <2> QED
    BY <1>2, <2>1 DEF CountsTyped
<1>8. StateTyped'
  BY <1>2 DEF StateTyped
<1>9. OneGeneration' /\ Accounted' /\ LiveGatewayIsWhole'
  BY <1>2, <1>5 DEF OneGeneration, Accounted, HasPool, LiveGatewayIsWhole, cloud, history
<1>10. CreateMakes'
  <2>1. \A z \in ZoneSet : CallFor("create", "pool", z) \in ApplyCalls
    BY DEF CallFor, ApplyCalls, ForEach, OfPool
  <2> QED
    BY <1>5, <2>1 DEF CreateMakes, Awaits
<1>11. TagsFollow'
  <2>1. ASSUME NEW z \in ZoneSet, CallFor("tag", "address", z) \in ApplyCalls
        PROVE  CallFor("allocate", "address", z) \in ApplyCalls
    <3>1. CASE Addresses = "managed"
      BY <3>1 DEF CallFor, ApplyCalls, ForEach
    <3>2. CASE Addresses # "managed"
      BY <3>2, <2>1 DEF CallFor, ApplyCalls, ForEach, ForAll
    <3> QED
      BY <3>1, <3>2
  <2>2. TagsLast(op'.todo)
    BY <1>4, <1>5
  <2> QED
    BY <1>5, <2>1, <2>2 DEF TagsFollow, Awaits, TagsLast
<1>12. (UpdateChanges /\ SizeDescribed /\ ConfigDescribed /\ CleanupRemoves /\ DeleteRestores)'
  BY <1>2, <1>5
  DEF UpdateChanges, SizeDescribed, ConfigDescribed, CleanupRemoves, DeleteRestores
<1> QED
  BY <1>5, <1>6, <1>7, <1>8, <1>9, <1>10, <1>11, <1>12

LEMMA UpdateAws ==
  ASSUME AwsInv, Update
  PROVE  AwsInv'
<1> USE DEF AwsInv
<1> DEFINE g == Current
<1>1. g \in Gens /\ DOMAIN state = {g} /\ g < next /\ op = Idle /\ op.kind = "idle"
  BY OnlyGeneration DEF Update, Idle
<1>2. UNCHANGED <<cloud, state, next, wanted, faults, crashes, history>>
  BY DEF Update
<1>3. PICK plan \in Plans :
        IF gatewayReplacementRequired(state[g].plan, plan)
        THEN Start("rollout", g, plan, ReconcileInfrastructure \o UpdateCapacity \o UpdatePools)
        ELSE Start("resize", g, plan, ReconcileInfrastructure \o UpdateCapacity)
  BY DEF Update, DeriveGatewayState, Plans
<1>4. /\ Consists(ReconcileInfrastructure \o UpdateCapacity, CallsOf("resize"))
      /\ Consists(ReconcileInfrastructure \o UpdateCapacity \o UpdatePools, CallsOf("rollout"))
  BY ZonesInOrder, OperationsConsist, CallsOfKinds
<1>5. PICK k \in {"resize", "rollout"} :
        /\ OpTyped' /\ op' # Idle /\ op'.kind = k /\ op'.gen = g /\ op'.plan = plan
        /\ Pending' = CallsOf(k)
        /\ k = "resize" => plan.config = state[g].plan.config
  <2>1. g < next' /\ {"resize", "rollout"} \subseteq OpKinds
    BY <1>1, <1>2 DEF OpKinds
  <2>2. CASE gatewayReplacementRequired(state[g].plan, plan)
    <3>1. Start("rollout", g, plan, ReconcileInfrastructure \o UpdateCapacity \o UpdatePools)
      BY <1>3, <2>2
    <3> QED
      BY <3>1, <1>1, <1>4, <2>1, StartTyped
  <2>3. CASE ~ gatewayReplacementRequired(state[g].plan, plan)
    <3>1. /\ Start("resize", g, plan, ReconcileInfrastructure \o UpdateCapacity)
          /\ plan.config = state[g].plan.config
      BY <1>3, <2>3 DEF gatewayReplacementRequired
    <3> QED
      BY <3>1, <1>1, <1>4, <2>1, StartTyped
  <2> QED
    BY <2>2, <2>3
<1>6. (CloudTyped /\ KnownObjects /\ HistoryTyped /\ CountsTyped /\ StateTyped)'
  BY <1>2 DEF cloud, history, CloudTyped, KnownObjects, HistoryTyped, CountsTyped, StateTyped
<1>7. OneGeneration' /\ Accounted'
  BY <1>1, <1>2, <1>5 DEF OneGeneration, Accounted, HasPool, cloud, history
<1>8. LiveGatewayIsWhole'
  BY <1>1, <1>2, <1>5 DEF LiveGatewayIsWhole, cloud, history
<1>9. UpdateChanges'
  <2>1. \A z \in ZoneSet : CallFor("resize", "pool", z) \in CallsOf(k)
    BY <1>5, CallsOfKinds DEF CallFor, ResizeCalls, RolloutCalls, ForEach
  <2>2. k = "rollout" => \A z \in ZoneSet : CallFor("refresh", "pool", z) \in CallsOf(k)
    BY CallsOfKinds DEF CallFor, RolloutCalls, ForEach
  <2> QED
    BY <1>2, <1>5, <2>1, <2>2 DEF UpdateChanges, Awaits
<1>10. SizeDescribed' /\ ConfigDescribed'
  BY <1>1, <1>2, <1>5 DEF SizeDescribed, ConfigDescribed, cloud, history
<1>11. (CreateMakes /\ TagsFollow /\ CleanupRemoves /\ DeleteRestores)'
  BY <1>5 DEF CreateMakes, TagsFollow, CleanupRemoves, DeleteRestores
<1> QED
  BY <1>5, <1>6, <1>7, <1>8, <1>9, <1>10, <1>11

(* A cleanup removes everything its gateway can have.                      *)
LEMMA CoveredByCleanup ==
  ASSUME NEW o, o \in SharedObjects \cup AddressObjects \/ \E h \in Gens : o \in PoolObjects(h),
         NEW g \in Gens, o.gen \in {0, g}, ~ (o.kind = "address" /\ RetainManagedEIPs)
  PROVE  \E c \in CleanupCalls : c.do = "delete" /\ Object(c.kind, c.zone, g) = o
<1>1. CASE o \in SharedObjects
  <2>1. PICK k \in Shared : o = Object(k, "all", 0)
    BY <1>1 DEF SharedObjects
  <2>2. CallFor("delete", k, "all") \in CleanupCalls
    BY DEF CallFor, CleanupCalls, ForAll
  <2> QED
    BY <2>1, <2>2, Names DEF CallFor
<1>2. CASE o \in AddressObjects
  <2>1. Addresses = "managed"
    BY <1>2 DEF AddressObjects
  <2>2. PICK z \in ZoneSet : o = Object("address", z, 0)
    BY <1>2, <2>1 DEF AddressObjects
  <2>3. ~ RetainManagedEIPs
    BY <2>2, Names
  <2>4. CallFor("delete", "address", z) \in CleanupCalls
    BY <2>1, <2>3 DEF CallFor, CleanupCalls, ForEach
  <2> QED
    BY <2>2, <2>4, Names DEF CallFor
<1>3. ASSUME NEW h \in Gens, o \in PoolObjects(h)
      PROVE  \E c \in CleanupCalls : c.do = "delete" /\ Object(c.kind, c.zone, g) = o
  <2>1. PICK k \in OfPool, z \in ZoneSet : o = Object(k, z, h)
    BY <1>3 DEF PoolObjects
  <2>2. h = g
    BY <2>1, Names DEF Gens
  <2>3. CallFor("delete", k, z) \in CleanupCalls
    BY DEF CallFor, CleanupCalls, ForEach
  <2> QED
    BY <2>1, <2>2, <2>3 DEF CallFor
<1> QED
  BY <1>1, <1>2, <1>3

LEMMA DeleteAws ==
  ASSUME AwsInv, NEW g \in Gens, Delete(g)
  PROVE  AwsInv'
<1> USE DEF AwsInv
<1>1. PICK order \in Orders : Start("delete", g, NoPool, RestoreRoutes(order) \o Cleanup(TRUE))
  BY DEF Delete
<1>2. /\ op = Idle /\ DOMAIN state = {g} /\ g < next
      /\ UNCHANGED <<cloud, state, next, wanted, faults, crashes, history>>
  BY DEF Delete, Deletable, OneGeneration, StateTyped
<1>3. Consists(RestoreRoutes(order) \o Cleanup(TRUE), CallsOf("delete"))
  BY OrdersOfZones, OperationsConsist, CallsOfKinds
<1>4. OpTyped' /\ op' # Idle /\ op'.kind = "delete" /\ op'.gen = g /\ Pending' = DeleteCalls
  BY <1>1, <1>2, <1>3, StartTyped, CallsOfKinds DEF OpKinds
<1>5. (CloudTyped /\ KnownObjects /\ HistoryTyped /\ CountsTyped /\ StateTyped)'
  BY <1>2 DEF cloud, history, CloudTyped, KnownObjects, HistoryTyped, CountsTyped, StateTyped
<1>6. OneGeneration' /\ Accounted' /\ LiveGatewayIsWhole'
  BY <1>2, <1>4 DEF OneGeneration, Accounted, HasPool, LiveGatewayIsWhole, cloud, history
<1>7. CleanupRemoves'
  <2> SUFFICES ASSUME NEW o \in objects, o.gen \in {0, g}, ~ (o.kind = "address" /\ RetainManagedEIPs)
               PROVE  \E c \in DeleteCalls : c.do = "delete" /\ Object(c.kind, c.zone, g) = o
    BY <1>2, <1>4 DEF CleanupRemoves, Named, cloud
  <2> QED
    BY CoveredByCleanup DEF DeleteCalls, KnownObjects
<1>8. DeleteRestores'
  <2>1. \A z \in ZoneSet : CallFor("restore", "route", z) \in DeleteCalls
    BY DEF CallFor, DeleteCalls, ForEach
  <2> QED
    BY <1>4, <2>1 DEF DeleteRestores, Awaits
<1>9. (CreateMakes /\ TagsFollow /\ UpdateChanges /\ SizeDescribed /\ ConfigDescribed)'
  BY <1>4 DEF CreateMakes, TagsFollow, UpdateChanges, SizeDescribed, ConfigDescribed
<1> QED
  BY <1>4, <1>5, <1>6, <1>7, <1>8, <1>9

LEMMA SupersededAws ==
  ASSUME AwsInv, NEW g \in Gens, DeleteSuperseded(g)
  PROVE  AwsInv'
<1> USE DEF AwsInv
<1>1. /\ op = Idle /\ op.kind = "idle" /\ DOMAIN state = {g} /\ ~ HasPool(g)
      /\ UNCHANGED <<cloud, op, next, wanted, faults, crashes, history>>
  BY DEF DeleteSuperseded, Deletable, GenerationSuperseded, OneGeneration, Idle
<1>2. state' = [x \in {} |-> state[x]] /\ DOMAIN state' = {}
  <2>1. DOMAIN state \ {g} = {}
    BY <1>1
  <2> QED
    BY <2>1 DEF DeleteSuperseded, Restrict
<1>3. (CloudTyped /\ KnownObjects /\ HistoryTyped /\ CountsTyped /\ OpTyped)'
  BY <1>1 DEF cloud, history, CloudTyped, KnownObjects, HistoryTyped, CountsTyped, OpTyped, Pending
<1>4. StateTyped'
  BY <1>2 DEF StateTyped
<1>5. (OneGeneration /\ LiveGatewayIsWhole /\ SizeDescribed /\ ConfigDescribed)'
  BY <1>1, <1>2 DEF OneGeneration, LiveGatewayIsWhole, SizeDescribed, ConfigDescribed
<1>6. Accounted'
  BY <1>1, <1>2 DEF Accounted, HasPool, cloud, history
<1>7. (CreateMakes /\ TagsFollow /\ UpdateChanges /\ CleanupRemoves /\ DeleteRestores)'
  BY <1>1 DEF CreateMakes, TagsFollow, UpdateChanges, CleanupRemoves, DeleteRestores
<1> QED
  BY <1>3, <1>4, <1>5, <1>6, <1>7

-----------------------------------------------------------------------------
(* The operation's calls.                                                  *)
LEMMA WholeKept ==
  ASSUME OneGeneration, LiveGatewayIsWhole, CloudMoves, op.kind \in OpKinds, op # Idle,
         NEW g \in DOMAIN state \ torn, op.kind # "delete"
  PROVE  Made(g) \subseteq objects'
<1>1. Made(g) \subseteq objects
  BY DEF LiveGatewayIsWhole
<1>2. op.kind \in {"resize", "rollout"}
  BY DEF OneGeneration, OpKinds
<1> QED
  BY <1>1, <1>2 DEF CloudMoves

LEMMA AccountedKept ==
  ASSUME Accounted, CloudMoves
  PROVE  \A g \in Gens : HasPool(g)' => g \in DOMAIN state \cup abandoned \/ op.gen = g
BY DEF Accounted, CloudMoves

LEMMA AnsweredAws ==
  ASSUME AwsInv, CallAnswered
  PROVE  AwsInv'
<1> USE DEF AwsInv
<1> DEFINE rest == Range(Tail(op.todo))
<1>1. /\ Calling /\ op # Idle /\ op.kind \in OpKinds /\ op.gen \in Gens /\ op.gen < next
      /\ op.saved \in Saved /\ op \in OpType
      /\ Call \in CallsOf(op.kind) /\ Tail(op.todo) \in Seq(CallType) /\ Pending = {Call} \cup rest
      /\ op.todo \in Seq(CallType) /\ op.todo # <<>>
  BY Calling1, Operating DEF CallAnswered, Calling, OpTyped
<1>2. CloudMoves /\ CallDone
  BY EffectMoves DEF CallAnswered
<1>3. /\ op' = [op EXCEPT !.todo = Tail(@),
                        !.saved = IF Call.do = "snapshot"
                                  THEN [@ EXCEPT ![Call.zone] = route[Call.zone]] ELSE @]
      /\ retaken' = IF Call.do = "restore" THEN retaken \ {Call.zone} ELSE retaken
      /\ UNCHANGED <<state, next, wanted, faults, crashes, dirty, torn, abandoned>>
  BY DEF CallAnswered
<1> DEFINE saved2 == IF Call.do = "snapshot"
                     THEN [op.saved EXCEPT ![Call.zone] = route[Call.zone]] ELSE op.saved
<1>4. saved2 \in Saved
  <2>1. CASE Call.do = "snapshot"
    <3>1. Call.zone \in ZoneSet
      BY <1>1, <2>1, CallShapes DEF OpKinds
    <3>2. route[Call.zone] \in Targets
      BY <3>1 DEF CloudTyped
    <3> QED
      BY <1>1, <2>1, <3>1, <3>2 DEF Saved
  <2> QED
    BY <1>1, <2>1
<1>5. /\ op' \in OpType /\ op'.kind = op.kind /\ op'.gen = op.gen /\ op'.plan = op.plan
      /\ op'.todo = Tail(op.todo)
  <2>1. op' = [op EXCEPT !.todo = Tail(op.todo), !.saved = saved2]
    BY <1>1, <1>3 DEF OpType
  <2> HIDE DEF saved2
  <2> QED
    BY <1>1, <1>4, <2>1 DEF OpType
<1>6. Pending' = rest /\ op' # Idle
  <2>1. Pending' = rest
    BY <1>5 DEF Pending
  <2> QED
    BY <1>1, <1>5, <2>1 DEF Idle, OpKinds
<1>7. \A c : Named(c)' = Named(c)
  BY <1>5 DEF Named
<1> HIDE DEF rest
<1>8. CloudTyped' /\ KnownObjects' /\ previous' = previous
  BY <1>2 DEF CloudMoves
<1>9. OpTyped'
  BY <1>1, <1>3, <1>5, <1>6 DEF OpTyped
<1>10. (StateTyped /\ CountsTyped)'
  BY <1>3 DEF StateTyped, CountsTyped
<1>11. HistoryTyped'
  BY <1>3 DEF HistoryTyped
<1>12. OneGeneration'
  BY <1>3, <1>5 DEF OneGeneration
<1>13. Accounted'
  BY <1>2, <1>3, <1>5, <1>6, AccountedKept DEF Accounted
<1>14. LiveGatewayIsWhole'
  <2> SUFFICES ASSUME NEW g \in DOMAIN state \ torn, op.kind # "delete" \/ op.gen # g
               PROVE  Made(g) \subseteq objects'
    BY <1>3, <1>5, <1>6 DEF LiveGatewayIsWhole
  <2>1. op.kind # "delete"
    BY DEF OneGeneration
  <2> QED
    BY <1>1, <1>2, <2>1, WholeKept
<1>15. CreateMakes'
  <2> SUFFICES ASSUME op.kind = "create"
               PROVE  /\ \A c \in ApplyCalls : c.do \in {"create", "tag"} =>
                           Named(c) \in objects' \/ c \in rest
                      /\ \A z \in ZoneSet : CallFor("create", "pool", z) \in rest
                                            \/ pool'[op.gen][z] = op.plan
    BY <1>5, <1>6, <1>7 DEF CreateMakes, Awaits
  <2>1. objects \subseteq objects'
    BY <1>2 DEF CloudMoves
  <2>2. ASSUME NEW c \in ApplyCalls, c.do \in {"create", "tag"}
        PROVE  Named(c) \in objects' \/ c \in rest
    BY <1>1, <1>2, <2>1, <2>2 DEF CreateMakes, CallDone
  <2>3. ASSUME NEW z \in ZoneSet
        PROVE  CallFor("create", "pool", z) \in rest \/ pool'[op.gen][z] = op.plan
    BY <1>1, <1>2 DEF CreateMakes, CallDone, Awaits
  <2> QED
    BY <2>2, <2>3
<1>16. TagsFollow'
  <2> SUFFICES ASSUME op.kind = "create"
               PROVE  /\ TagsLast(Tail(op.todo))
                      /\ \A z \in ZoneSet :
                           \/ CallFor("tag", "address", z) \notin rest
                           \/ CallFor("allocate", "address", z) \in rest
                           \/ Object("address", z, 0) \in objects' \/ untagged'[z] > 0
    BY <1>5, <1>6 DEF TagsFollow, Awaits, TagsLast
  <2>1. TagsLast(Tail(op.todo)) /\ objects \subseteq objects'
    BY <1>1, <1>2, TagsLastTail DEF TagsFollow, CloudMoves
  <2>2. ASSUME NEW z \in ZoneSet, CallFor("tag", "address", z) \in rest,
               CallFor("allocate", "address", z) \notin rest
        PROVE  Object("address", z, 0) \in objects' \/ untagged'[z] > 0
    <3>1. CASE Call = CallFor("allocate", "address", z)
      BY <1>2, <2>1, <3>1 DEF CallDone
    <3>2. CASE Call = CallFor("tag", "address", z)
      <4>1. Named(Call) \in objects' /\ Named(Call) = Object("address", z, 0)
        BY <1>1, <1>2, <3>2, Names DEF CallDone, CallFor, Named
      <4> QED
        BY <4>1
    <3>3. CASE Call \notin {CallFor("allocate", "address", z), CallFor("tag", "address", z)}
      <4>1. Call.do \notin {"allocate", "tag"} \/ Call.zone # z
        BY <1>1, <3>3, CallShapes DEF CallFor, CallType, OpKinds
      <4>2. untagged'[z] = untagged[z]
        BY <1>2, <4>1 DEF CallDone
      <4>3. Awaits("tag", "address", z) /\ ~ Awaits("allocate", "address", z)
        BY <1>1, <2>2, <3>3 DEF Awaits
      <4> QED
        BY <2>1, <4>2, <4>3 DEF TagsFollow
    <3> QED
      BY <3>1, <3>2, <3>3
  <2> QED
    BY <2>1, <2>2
<1>17. UpdateChanges'
  <2>1. ASSUME op.kind \in {"resize", "rollout"}, NEW z \in ZoneSet
        PROVE  /\ CallFor("resize", "pool", z) \in rest \/ pool'[op.gen][z].size = op.plan.size
               /\ op.kind = "rollout" =>
                    CallFor("refresh", "pool", z) \in rest \/ pool'[op.gen][z].config = op.plan.config
    BY <1>1, <1>2, <2>1 DEF UpdateChanges, CallDone, Awaits
  <2> QED
    BY <1>3, <1>5, <1>6, <2>1 DEF UpdateChanges, Awaits
<1>18. SizeDescribed'
  BY <1>1, <1>3, <1>5 DEF SizeDescribed, OneGeneration, OpKinds
<1>19. ConfigDescribed'
  <2> SUFFICES ASSUME op.kind \notin {"delete", "rollout"}, NEW g \in DOMAIN state \ torn,
                      NEW z \in ZoneSet
               PROVE  <<g, "config">> \in dirty \/ pool'[g][z].config = state[g].plan.config
    BY <1>3, <1>5 DEF ConfigDescribed
  <2>1. op.kind = "resize" /\ g = op.gen
    BY <1>1 DEF OneGeneration, OpKinds
  <2> QED
    BY <1>2, <2>1 DEF ConfigDescribed, CloudMoves
<1>20. CleanupRemoves'
  <2> SUFFICES ASSUME op.kind \in {"delete", "undo"}, NEW o \in objects',
                      ~ (o.kind = "address" /\ RetainManagedEIPs), o.gen \in {0, op.gen}
               PROVE  \E c \in rest : c.do = "delete" /\ Named(c) = o
    BY <1>5, <1>6, <1>7 DEF CleanupRemoves
  <2>1. o \in objects
    BY <1>2 DEF CloudMoves
  <2>2. PICK c \in Pending : c.do = "delete" /\ Named(c) = o
    BY <2>1 DEF CleanupRemoves
  <2> QED
    BY <1>1, <1>2, <2>2 DEF CallDone
<1>21. DeleteRestores'
  <2> SUFFICES ASSUME op.kind = "delete", NEW z \in ZoneSet \ retaken',
                      state[op.gen].saved[z] = Before, previous
               PROVE  route'[z] = Before \/ CallFor("restore", "route", z) \in rest
    BY <1>3, <1>5, <1>6, <1>8 DEF DeleteRestores, Awaits
  <2>1. CASE Call = CallFor("restore", "route", z)
    BY <1>2, <2>1 DEF CallDone
  <2>2. CASE Call # CallFor("restore", "route", z)
    <3>1. ~ (Call.do = "restore" /\ Call.zone = z)
      BY <1>1, <2>2, CallShapes DEF CallFor, CallType, OpKinds
    <3>2. z \notin retaken
      BY <1>3, <3>1
    <3>3. route'[z] = route[z]
      BY <1>2, <2>2 DEF CallDone
    <3> QED
      BY <1>1, <2>2, <3>2, <3>3 DEF DeleteRestores, Awaits
  <2> QED
    BY <2>1, <2>2
<1> QED
  BY <1>8, <1>9, <1>10, <1>11, <1>12, <1>13, <1>14, <1>15, <1>16, <1>17, <1>18, <1>19, <1>20, <1>21

(* The parts of the invariant that speak of an operation under way only.   *)
LEMMA NothingPending ==
  ASSUME op' = Idle
  PROVE  (OpTyped /\ CreateMakes /\ TagsFollow /\ UpdateChanges /\ CleanupRemoves /\ DeleteRestores)'
<1>1. op'.kind = "idle"
  BY DEF Idle
<1> QED
  BY <1>1 DEF OpTyped, CreateMakes, TagsFollow, UpdateChanges, CleanupRemoves, DeleteRestores

LEMMA UpdatedIs ==
  ASSUME op.kind \in OpKinds
  PROVE  /\ op.kind = "resize" => Updated = {<<op.gen, "size">>}
         /\ op.kind = "rollout" => Updated = {<<op.gen, "size">>, <<op.gen, "config">>}
         /\ op.kind \notin {"resize", "rollout"} => Updated = {}
BY DEF OpKinds, Updated

LEMMA GiveUpAws ==
  ASSUME AwsInv, Calling, CloudMoves, GiveUp,
         faults' \in 0 .. MaxFaults, crashes' = crashes
  PROVE  AwsInv'
<1> USE DEF AwsInv
<1>1. op # Idle /\ op.kind \in OpKinds /\ op.gen \in Gens /\ op.gen < next
  BY Operating DEF Calling
<1>2. /\ abandoned' = IF op.kind = "undo" THEN abandoned \cup {op.gen} ELSE abandoned
      /\ dirty' = dirty \cup Updated
      /\ torn' = IF op.kind = "delete" THEN torn \cup {op.gen} ELSE torn
      /\ retaken' = {} /\ UNCHANGED <<state, next, wanted>>
  BY DEF GiveUp
<1>3. CloudTyped' /\ KnownObjects'
  BY DEF CloudMoves
<1>4. StateTyped' /\ CountsTyped'
  BY <1>2 DEF StateTyped, CountsTyped
<1>5. HistoryTyped'
  BY <1>1, <1>2, UpdatedIs DEF HistoryTyped
<1>6. CASE op.kind = "create"
  <2>1. DOMAIN state = {} /\ DOMAIN state' = {}
    BY <1>2, <1>6 DEF OneGeneration
  <2>2. Start("undo", op.gen, NoPool, Cleanup(FALSE))
    BY <1>6 DEF GiveUp
  <2>3. OpTyped' /\ op' # Idle /\ op'.kind = "undo" /\ op'.gen = op.gen /\ Pending' = CleanupCalls
    BY <1>1, <1>2, <2>2, StartTyped, OperationsConsist, ZonesInOrder, CallsOfKinds DEF OpKinds
  <2>4. CleanupRemoves'
    <3> SUFFICES ASSUME NEW o \in objects', o.gen \in {0, op.gen},
                        ~ (o.kind = "address" /\ RetainManagedEIPs)
                 PROVE  \E c \in CleanupCalls : c.do = "delete" /\ Object(c.kind, c.zone, op.gen) = o
      BY <2>3 DEF CleanupRemoves, Named
    <3>1. \A p : p \in objects' =>
            p \in SharedObjects \cup AddressObjects \/ \E g \in Gens : p \in PoolObjects(g)
      BY <1>3 DEF KnownObjects
    <3> QED
      BY <1>1, <3>1, CoveredByCleanup
  <2>5. OneGeneration' /\ LiveGatewayIsWhole' /\ SizeDescribed' /\ ConfigDescribed'
    BY <2>1, <2>3 DEF OneGeneration, LiveGatewayIsWhole, SizeDescribed, ConfigDescribed
  <2>6. Accounted'
    BY <1>2, <2>3, AccountedKept, <1>6 DEF Accounted
  <2>7. (CreateMakes /\ TagsFollow /\ UpdateChanges /\ DeleteRestores)'
    BY <2>3 DEF CreateMakes, TagsFollow, UpdateChanges, DeleteRestores
  <2> QED
    BY <1>3, <1>4, <1>5, <2>3, <2>4, <2>5, <2>6, <2>7
<1>7. CASE op.kind # "create"
  <2>1. op' = Idle /\ op'.kind = "idle"
    BY <1>7 DEF GiveUp, Idle
  <2>2. OneGeneration'
    BY <1>2, <2>1 DEF OneGeneration
  <2>3. Accounted'
    BY <1>1, <1>2, <1>7, <2>1, AccountedKept DEF Accounted, OneGeneration, OpKinds
  <2>4. LiveGatewayIsWhole'
    <3> SUFFICES ASSUME NEW g \in DOMAIN state \ torn'
                 PROVE  Made(g) \subseteq objects'
      BY <1>2 DEF LiveGatewayIsWhole
    <3>1. op.kind # "delete" /\ g \notin torn
      BY <1>2 DEF OneGeneration
    <3> QED
      BY <1>1, <3>1, WholeKept
  <2>5. ASSUME NEW g \in DOMAIN state' \ torn', NEW z \in ZoneSet
        PROVE  /\ <<g, "size">> \in dirty' \/ pool'[g][z].size = state'[g].plan.size
               /\ <<g, "config">> \in dirty' \/ pool'[g][z].config = state'[g].plan.config
    <3>1. op.kind \in {"resize", "rollout"} /\ g = op.gen /\ g \notin torn
      BY <1>1, <1>2, <1>7, <2>5 DEF OneGeneration, OpKinds
    <3>2. <<g, "size">> \in dirty'
      BY <1>1, <1>2, <3>1, UpdatedIs
    <3>3. CASE op.kind = "rollout"
      BY <1>1, <1>2, <3>1, <3>2, <3>3, UpdatedIs
    <3>4. CASE op.kind = "resize"
      BY <1>2, <3>1, <3>2, <3>4 DEF ConfigDescribed, CloudMoves
    <3> QED
      BY <3>1, <3>3, <3>4
  <2>6. SizeDescribed' /\ ConfigDescribed'
    BY <2>5 DEF SizeDescribed, ConfigDescribed
  <2> QED
    BY <1>3, <1>4, <1>5, <2>1, <2>2, <2>3, <2>4, <2>6, NothingPending
<1> QED
  BY <1>6, <1>7

LEMMA RefusedAws ==
  ASSUME AwsInv, CallRefused
  PROVE  AwsInv'
<1>1. CloudMoves
  BY CloudStays DEF AwsInv, CallRefused
<1> QED
  BY <1>1, GiveUpAws DEF CallRefused, AwsInv, CountsTyped

LEMMA FailsAws ==
  ASSUME AwsInv, CallFails
  PROVE  AwsInv'
<1>1. CloudMoves
  BY CloudStays, EffectMoves DEF AwsInv, CallFails
<1>2. faults' \in 0 .. MaxFaults
  BY BoundsAssumption DEF AwsInv, CallFails, CountsTyped
<1> QED
  BY <1>1, <1>2, GiveUpAws DEF CallFails

LEMMA MadeIs ==
  Range(Apply(Zones)) = ApplyCalls
BY ZonesInOrder, OperationsConsist DEF Consists

(* An operation that made all its calls ends well.                         *)
LEMMA NothingLeft ==
  ASSUME AwsInv, Finish
  PROVE  /\ op # Idle /\ op.kind \in OpKinds /\ op.gen \in Gens /\ op.gen < next
         /\ Pending = {} /\ op' = Idle /\ op'.kind = "idle"
         /\ dirty' = dirty \ Updated /\ retaken' = {}
         /\ UNCHANGED <<cloud, next, wanted, faults, crashes, torn, abandoned>>
<1>1. Pending = {}
  BY EmptyConsists DEF Finish, Pending, Consists
<1> QED
  BY <1>1, Operating DEF AwsInv, Finish, Idle

LEMMA FinishTyped ==
  ASSUME AwsInv, Finish
  PROVE  (CloudTyped /\ KnownObjects /\ HistoryTyped /\ CountsTyped)'
<1>1. /\ dirty' = dirty \ Updated /\ retaken' = {}
      /\ UNCHANGED <<cloud, next, wanted, faults, crashes, torn, abandoned>>
  BY NothingLeft
<1> QED
  BY <1>1 DEF AwsInv, cloud, CloudTyped, KnownObjects, HistoryTyped, CountsTyped

(* Ending between operations, the invariant speaks of the state only.      *)
LEMMA AtRest ==
  ASSUME op' = Idle, (CloudTyped /\ KnownObjects /\ HistoryTyped /\ CountsTyped /\ StateTyped)',
         DOMAIN state' = {} \/ \E g \in Gens : DOMAIN state' = {g},
         (Accounted /\ LiveGatewayIsWhole /\ SizeDescribed /\ ConfigDescribed)'
  PROVE  AwsInv'
<1>1. op'.kind = "idle"
  BY DEF Idle
<1>2. OneGeneration'
  BY <1>1 DEF OneGeneration
<1> QED
  BY <1>2, NothingPending DEF AwsInv

LEMMA FinishCreate ==
  ASSUME AwsInv, Finish, op.kind = "create"
  PROVE  AwsInv'
<1> USE DEF AwsInv
<1> DEFINE g == op.gen
           made == [plan |-> op.plan, saved |-> op.saved]
<1>1. /\ op # Idle /\ g \in Gens /\ g < next /\ Pending = {} /\ op' = Idle /\ op'.kind = "idle"
      /\ dirty' = dirty \ Updated
      /\ UNCHANGED <<cloud, next, wanted, faults, crashes, torn, abandoned>>
  BY NothingLeft
<1>2. op.plan \in Plans /\ op.saved \in Saved
  BY <1>1, Operating
<1>3. DOMAIN state = {} /\ state' = [x \in {g} |-> made]
  <2>1. DOMAIN state = {} /\ DOMAIN state \cup {g} = {g}
    BY DEF OneGeneration
  <2>2. state' = [x \in DOMAIN state \cup {g} |-> IF x = g THEN made ELSE state[x]]
    BY DEF Finish
  <2> QED
    BY <2>1, <2>2
<1>4. DOMAIN state' = {g} /\ state'[g] = made /\ state' = [x \in {g} |-> state'[x]]
  BY <1>3
<1>5. made \in [plan : Plans, saved : Saved] /\ made.plan = op.plan
  BY <1>2
<1> HIDE DEF made
<1>6. StateTyped'
  BY <1>1, <1>4, <1>5 DEF StateTyped
<1>7. Accounted'
  BY <1>1, <1>3, <1>4 DEF Accounted, HasPool, cloud
<1>8. LiveGatewayIsWhole'
  <2>1. Made(g) \subseteq objects
    <3> SUFFICES ASSUME NEW c \in ApplyCalls, c.do \in {"create", "tag"}
                 PROVE  Object(c.kind, c.zone, g) \in objects
      BY MadeIs DEF Made
    <3> QED
      BY <1>1 DEF CreateMakes, Named
  <2> QED
    BY <1>1, <1>4, <2>1 DEF LiveGatewayIsWhole, cloud
<1>9. \A z \in ZoneSet : pool'[g][z] = state'[g].plan
  BY <1>1, <1>4, <1>5 DEF CreateMakes, Awaits, cloud
<1>10. SizeDescribed' /\ ConfigDescribed'
  BY <1>4, <1>9 DEF SizeDescribed, ConfigDescribed
<1> QED
  BY <1>1, <1>4, <1>6, <1>7, <1>8, <1>10, FinishTyped, AtRest

LEMMA FinishUpdate ==
  ASSUME AwsInv, Finish, op.kind \in {"resize", "rollout"}
  PROVE  AwsInv'
<1> USE DEF AwsInv
<1> DEFINE g == op.gen
           w == [state[g] EXCEPT !.plan = op.plan]
<1>1. /\ op # Idle /\ g \in Gens /\ g < next /\ Pending = {} /\ op' = Idle /\ op'.kind = "idle"
      /\ dirty' = dirty \ Updated
      /\ UNCHANGED <<cloud, next, wanted, faults, crashes, torn, abandoned>>
  BY NothingLeft
<1>2. op.plan \in Plans
  BY <1>1, Operating
<1>3. DOMAIN state = {g} /\ state' = [state EXCEPT ![g] = w]
  BY DEF OneGeneration, Finish
<1>4. w \in [plan : Plans, saved : Saved] /\ w.plan = op.plan
  BY <1>2, <1>3 DEF StateTyped
<1> HIDE DEF w
<1>5. DOMAIN state' = {g} /\ state'[g] = w /\ state' = [x \in {g} |-> state'[x]]
  BY <1>3
<1>6. StateTyped'
  BY <1>1, <1>4, <1>5 DEF StateTyped
<1>7. Accounted' /\ LiveGatewayIsWhole'
  BY <1>1, <1>3, <1>5 DEF Accounted, HasPool, cloud, LiveGatewayIsWhole
<1>8. SizeDescribed'
  BY <1>1, <1>4, <1>5 DEF SizeDescribed, UpdateChanges, Awaits, cloud
<1>9. ConfigDescribed'
  <2> SUFFICES ASSUME g \notin torn, NEW z \in ZoneSet
               PROVE  <<g, "config">> \in dirty' \/ pool[g][z].config = op.plan.config
    BY <1>1, <1>4, <1>5 DEF ConfigDescribed, cloud
  <2>1. CASE op.kind = "rollout"
    BY <1>1, <2>1 DEF UpdateChanges, Awaits
  <2>2. CASE op.kind = "resize"
    <3>1. op.plan.config = state[g].plan.config
      BY <2>2 DEF UpdateChanges
    <3>2. <<g, "config">> \in dirty \/ pool[g][z].config = state[g].plan.config
      BY <1>3, <2>2 DEF ConfigDescribed
    <3>3. <<g, "config">> \notin Updated
      BY <2>2, UpdatedIs DEF OpKinds
    <3> QED
      BY <1>1, <3>1, <3>2, <3>3
  <2> QED
    BY <2>1, <2>2
<1> QED
  BY <1>1, <1>5, <1>6, <1>7, <1>8, <1>9, FinishTyped, AtRest

LEMMA FinishCleanup ==
  ASSUME AwsInv, Finish, op.kind \in {"delete", "undo"}
  PROVE  AwsInv'
<1> USE DEF AwsInv
<1>1. /\ op # Idle /\ op.gen \in Gens /\ Pending = {} /\ op' = Idle /\ op'.kind = "idle"
      /\ UNCHANGED <<cloud, next, wanted, faults, crashes, torn, abandoned>>
  BY NothingLeft
<1>2. DOMAIN state' = {} /\ state' = [x \in {} |-> state'[x]]
  <2>1. CASE op.kind = "delete"
    <3>1. DOMAIN state \ {op.gen} = {}
      BY <2>1 DEF OneGeneration
    <3>2. state' = Restrict(state, {})
      BY <2>1, <3>1 DEF Finish
    <3> QED
      BY <3>2 DEF Restrict
  <2>2. CASE op.kind = "undo"
    BY <2>2 DEF Finish, OneGeneration, StateTyped
  <2> QED
    BY <2>1, <2>2
<1>3. (StateTyped /\ LiveGatewayIsWhole /\ SizeDescribed /\ ConfigDescribed)'
  BY <1>2 DEF StateTyped, LiveGatewayIsWhole, SizeDescribed, ConfigDescribed
<1>4. ~ HasPool(op.gen)
  <2> SUFFICES ASSUME NEW z \in ZoneSet, Object("pool", z, op.gen) \in objects PROVE FALSE
    BY DEF HasPool
  <2>1. Object("pool", z, op.gen).kind = "pool" /\ Object("pool", z, op.gen).gen = op.gen
    BY DEF Object
  <2> QED
    BY <1>1, <2>1 DEF CleanupRemoves
<1>5. DOMAIN state \subseteq {op.gen}
  BY DEF OneGeneration
<1>6. Accounted'
  BY <1>1, <1>4, <1>5 DEF Accounted, HasPool, cloud
<1> QED
  BY <1>1, <1>2, <1>3, <1>6, FinishTyped, AtRest

LEMMA FinishAws ==
  ASSUME AwsInv, Finish
  PROVE  AwsInv'
BY NothingLeft, FinishCreate, FinishUpdate, FinishCleanup DEF OpKinds

LEMMA CrashAws ==
  ASSUME AwsInv, Crash
  PROVE  AwsInv'
<1> USE DEF AwsInv
<1>1. op # Idle /\ op.kind \in OpKinds /\ op.gen \in Gens /\ op.gen < next
  BY Operating DEF Crash
<1>2. /\ op' = Idle /\ crashes < MaxCrashes /\ crashes' = crashes + 1
      /\ abandoned' = IF op.kind \in {"create", "undo"} THEN abandoned \cup {op.gen} ELSE abandoned
      /\ dirty' = dirty \cup Updated
      /\ torn' = IF op.kind = "delete" THEN torn \cup {op.gen} ELSE torn
      /\ retaken' = {} /\ UNCHANGED <<cloud, state, next, wanted, faults>>
  BY DEF Crash
<1>3. CloudMoves
  BY <1>2, CloudStays
<1>4. CloudTyped' /\ KnownObjects' /\ StateTyped'
  BY <1>2, <1>3 DEF CloudMoves, StateTyped
<1>5. CountsTyped'
  BY <1>2, BoundsAssumption DEF CountsTyped
<1>6. HistoryTyped'
  BY <1>1, <1>2, UpdatedIs DEF HistoryTyped
<1>7. DOMAIN state' = {} \/ \E g \in Gens : DOMAIN state' = {g}
  BY <1>2 DEF OneGeneration
<1>8. Accounted'
  BY <1>1, <1>2, <1>3, AccountedKept DEF Accounted, OneGeneration, OpKinds
<1>9. LiveGatewayIsWhole'
  <2> SUFFICES ASSUME NEW g \in DOMAIN state \ torn'
               PROVE  Made(g) \subseteq objects'
    BY <1>2 DEF LiveGatewayIsWhole
  <2>1. op.kind # "delete" /\ g \notin torn
    BY <1>2 DEF OneGeneration
  <2> QED
    BY <1>1, <1>3, <2>1, WholeKept
<1>10. ASSUME NEW g \in DOMAIN state' \ torn', NEW z \in ZoneSet
       PROVE  /\ <<g, "size">> \in dirty' \/ pool'[g][z].size = state'[g].plan.size
              /\ <<g, "config">> \in dirty' \/ pool'[g][z].config = state'[g].plan.config
  <2>1. op.kind \in {"resize", "rollout"} /\ g = op.gen /\ g \notin torn
    BY <1>1, <1>2, <1>10 DEF OneGeneration, OpKinds
  <2>2. <<g, "size">> \in dirty'
    BY <1>1, <1>2, <2>1, UpdatedIs
  <2>3. CASE op.kind = "rollout"
    BY <1>1, <1>2, <2>1, <2>2, <2>3, UpdatedIs
  <2>4. CASE op.kind = "resize"
    BY <1>2, <1>3, <2>1, <2>2, <2>4 DEF ConfigDescribed, CloudMoves
  <2> QED
    BY <2>1, <2>3, <2>4
<1>11. SizeDescribed' /\ ConfigDescribed'
  BY <1>10 DEF SizeDescribed, ConfigDescribed
<1> QED
  BY <1>2, <1>4, <1>5, <1>6, <1>7, <1>8, <1>9, <1>11, AtRest

-----------------------------------------------------------------------------
(* Around the provider. Only the routes an agent takes, the instances and  *)
(* the target from before the gateway change.                              *)
LEMMA AroundAws ==
  ASSUME AwsInv, UNCHANGED <<objects, pool, untagged, state, op, next, crashes, dirty, torn, abandoned>>,
         CloudTyped', CountsTyped', HistoryTyped', DeleteRestores'
  PROVE  AwsInv'
<1> USE DEF AwsInv
<1>1. OpTyped' /\ StateTyped' /\ KnownObjects' /\ OneGeneration'
  BY DEF OpTyped, Pending, StateTyped, KnownObjects, OneGeneration
<1>2. Accounted' /\ LiveGatewayIsWhole'
  BY DEF Accounted, HasPool, LiveGatewayIsWhole
<1>3. CreateMakes' /\ TagsFollow'
  BY DEF CreateMakes, TagsFollow, Awaits, Pending, Named, TagsLast
<1>4. UpdateChanges' /\ SizeDescribed' /\ ConfigDescribed'
  BY DEF UpdateChanges, SizeDescribed, ConfigDescribed, Awaits, Pending
<1>5. CleanupRemoves'
  BY DEF CleanupRemoves, Pending, Named
<1> QED
  BY <1>1, <1>2, <1>3, <1>4, <1>5

LEMMA RetireAws ==
  ASSUME AwsInv, Retire
  PROVE  AwsInv'
<1> USE DEF AwsInv
<1>1. /\ UNCHANGED <<cloud, state, op, next, faults, crashes, history>> /\ wanted' = FALSE
  BY DEF Retire
<1>2. CloudTyped' /\ CountsTyped' /\ HistoryTyped'
  BY <1>1 DEF cloud, history, CloudTyped, CountsTyped, HistoryTyped
<1>3. DeleteRestores'
  BY <1>1 DEF DeleteRestores, Awaits, Pending, cloud, history
<1> QED
  BY <1>1, <1>2, <1>3, AroundAws DEF cloud, history

LEMMA PreviousAws ==
  ASSUME AwsInv, PreviousTargetGoes
  PROVE  AwsInv'
<1> USE DEF AwsInv
<1>1. /\ UNCHANGED <<objects, pool, running, route, untagged, state, op, next, wanted, crashes, history>>
      /\ previous' = FALSE /\ faults < MaxFaults /\ faults' = faults + 1
  BY DEF PreviousTargetGoes
<1>2. CloudTyped' /\ HistoryTyped'
  BY <1>1 DEF history, CloudTyped, HistoryTyped
<1>3. CountsTyped'
  <2>1. faults' \in 0 .. MaxFaults
    BY <1>1, BoundsAssumption DEF CountsTyped
  <2> QED
    BY <1>1, <2>1 DEF CountsTyped
<1>4. DeleteRestores'
  BY <1>1 DEF DeleteRestores
<1> QED
  BY <1>1, <1>2, <1>3, <1>4, AroundAws DEF history

LEMMA AgentAws ==
  ASSUME AwsInv, NEW g \in Gens, AgentTakesRoute(g)
  PROVE  AwsInv'
<1> USE DEF AwsInv
<1> DEFINE z == Zones[1]
<1>1. /\ UNCHANGED <<objects, pool, running, previous, untagged, state, op, next, wanted, faults,
                     crashes, dirty, torn, abandoned>>
      /\ route' = [route EXCEPT ![z] = g]
      /\ retaken' = IF op # Idle /\ op.kind = "delete" THEN retaken \cup {z} ELSE retaken
  BY DEF AgentTakesRoute
<1>2. z \in ZoneSet
  BY ZonesAssumption DEF ZoneSet, Range
<1> HIDE DEF z
<1>3. CloudTyped'
  <2>1. g \in Targets
    BY DEF Targets
  <2> QED
    BY <1>1, <1>2, <2>1 DEF CloudTyped
<1>4. CountsTyped' /\ HistoryTyped'
  BY <1>1, <1>2 DEF CountsTyped, HistoryTyped
<1>5. DeleteRestores'
  <2> SUFFICES ASSUME op.kind = "delete", NEW y \in ZoneSet \ retaken',
                      state[op.gen].saved[y] = Before, previous
               PROVE  route'[y] = Before \/ Awaits("restore", "route", y)
    BY <1>1 DEF DeleteRestores, Awaits, Pending
  <2>1. op # Idle
    BY DEF Idle
  <2>2. y # z /\ y \notin retaken
    BY <1>1, <2>1
  <2>3. route'[y] = route[y]
    BY <1>1, <2>2 DEF CloudTyped
  <2> QED
    BY <2>2, <2>3 DEF DeleteRestores
<1> QED
  BY <1>1, <1>3, <1>4, <1>5, AroundAws

LEMMA TerminatedAws ==
  ASSUME AwsInv, NEW g \in Gens, InstancesTerminated(g)
  PROVE  AwsInv'
<1> USE DEF AwsInv
<1>1. /\ UNCHANGED <<objects, pool, route, previous, untagged, state, op, next, wanted, faults,
                     crashes, history>>
      /\ running' \subseteq running
  BY DEF InstancesTerminated
<1>2. CloudTyped' /\ CountsTyped' /\ HistoryTyped'
  BY <1>1 DEF history, CloudTyped, CountsTyped, HistoryTyped
<1>3. DeleteRestores'
  BY <1>1 DEF DeleteRestores, Awaits, Pending, history
<1> QED
  BY <1>1, <1>2, <1>3, AroundAws DEF history

LEMMA NextAws ==
  ASSUME ~ CreateFirst, AwsInv, [Next]_vars
  PROVE  AwsInv'
<1>1. CASE Create
  BY <1>1, CreateAws
<1>2. CASE Update
  BY <1>2, UpdateAws
<1>3. CASE \E g \in Gens : Delete(g) \/ DeleteSuperseded(g)
  BY <1>3, DeleteAws, SupersededAws
<1>4. CASE CallAnswered \/ CallRefused \/ CallFails \/ Finish \/ Crash
  BY <1>4, AnsweredAws, RefusedAws, FailsAws, FinishAws, CrashAws
<1>5. CASE Retire \/ PreviousTargetGoes
  BY <1>5, RetireAws, PreviousAws
<1>6. CASE \E g \in Gens : AgentTakesRoute(g)
  BY <1>6, AgentAws
<1>7. CASE \E g \in Gens : InstancesTerminated(g)
  BY <1>7, TerminatedAws
<1>8. CASE UNCHANGED vars
  <2>1. /\ UNCHANGED <<objects, pool, untagged, state, op, next, crashes, dirty, torn, abandoned>>
        /\ UNCHANGED <<running, route, previous, wanted, faults, retaken>>
    BY <1>8 DEF vars, cloud, history
  <2>2. (CloudTyped /\ CountsTyped /\ HistoryTyped /\ DeleteRestores)'
    BY <2>1 DEF AwsInv, CloudTyped, CountsTyped, HistoryTyped, DeleteRestores, Awaits, Pending
  <2> QED
    BY <2>1, <2>2, AroundAws
<1> QED
  BY <1>1, <1>2, <1>3, <1>4, <1>5, <1>6, <1>7, <1>8 DEF Next

-----------------------------------------------------------------------------
(* What the invariant gives.                                               *)
LEMMA AwsTypes == AwsInv => TypeOK
<1> SUFFICES ASSUME AwsInv PROVE TypeOK
  OBVIOUS
<1>1. MaxGen \in Nat \ {0} /\ next \in Nat
  BY BoundsAssumption DEF AwsInv, CountsTyped
<1>2. ASSUME NEW o \in objects PROVE o.gen \in 0 .. MaxGen /\ o.zone \in ZoneSet \cup {"all"}
  <2>1. CASE o \in SharedObjects \cup AddressObjects
    BY <1>1, <2>1 DEF SharedObjects, AddressObjects, Object, Shared
  <2>2. ASSUME NEW g \in Gens, o \in PoolObjects(g)
        PROVE  o.gen \in 0 .. MaxGen /\ o.zone \in ZoneSet \cup {"all"}
    BY <1>1, <2>2 DEF PoolObjects, Object, Gens
  <2> QED
    BY <2>1, <2>2 DEF AwsInv, KnownObjects
<1>3. op = Idle \/ op.gen \in 1 .. next - 1
  BY <1>1, Operating DEF AwsInv, Gens
<1> QED
  BY <1>2, <1>3 DEF AwsInv, TypeOK, CloudTyped, CountsTyped, StateTyped, HistoryTyped, Pools, Targets

LEMMA AwsStates == AwsInv => StateDescribesPools /\ NoUnknownPool
BY DEF AwsInv, StateDescribesPools, SizeDescribed, ConfigDescribed, NoUnknownPool, Accounted, Idle

LEMMA AwsEndings ==
  ASSUME AwsInv, Finish
  PROVE  /\ op.kind \in {"delete", "undo"} =>
              \A o \in objects : \/ o.kind = "address" /\ RetainManagedEIPs
                                 \/ o.gen \notin {0, op.gen}
         /\ op.kind = "delete" =>
              \A z \in ZoneSet \ retaken :
                (state[op.gen].saved[z] = Before /\ previous) => route[z] = Before
<1>1. Pending = {}
  BY NothingLeft
<1> QED
  BY <1>1 DEF AwsInv, CleanupRemoves, DeleteRestores, Awaits

-----------------------------------------------------------------------------
LEMMA AwsComposed == MCSpec => Spec
<1>1. MCInit => Init
  BY DEF MCInit
<1>2. [MCNext]_allVars => [Next]_vars
  BY DEF MCNext, OnAws, OnGcp, OnRoute, OnAddress, allVars
<1> QED BY <1>1, <1>2, PTL DEF MCSpec, Spec

LEMMA AwsInvHolds ==
  ASSUME ~ CreateFirst
  PROVE  Spec => []AwsInv
<1>1. Init => AwsInv  BY InitAws
<1>2. AwsInv /\ [Next]_vars => AwsInv'  BY NextAws
<1> QED BY <1>1, <1>2, PTL DEF Spec

(* Every variable of the gateway on AWS keeps its type: no operation names *)
(* a generation, a zone or a target that is not there.                     *)
THEOREM AwsTypesHold ==
  ASSUME ~ CreateFirst
  PROVE  MCSpec => []TypeOK
<1>1. Spec => []AwsInv  BY AwsInvHolds
<1> QED BY <1>1, AwsComposed, AwsTypes, PTL

(* No failed or lost create, update, or destroy of another generation      *)
(* takes anything away from a gateway that Terraform has in its state.     *)
THEOREM WholeHolds ==
  ASSUME ~ CreateFirst
  PROVE  MCSpec => []LiveGatewayIsWhole
<1>1. Spec => []AwsInv  BY AwsInvHolds
<1>2. AwsInv => LiveGatewayIsWhole  BY DEF AwsInv
<1> QED BY <1>1, <1>2, AwsComposed, PTL

(* Terraform's state says of the pools what they are, but for what an      *)
(* operation that failed left in doubt.                                    *)
THEOREM StateDescribes ==
  ASSUME ~ CreateFirst
  PROVE  MCSpec => []StateDescribesPools
<1>1. Spec => []AwsInv  BY AwsInvHolds
<1> QED BY <1>1, AwsComposed, AwsStates, PTL

(* A pool that Terraform does not know is left by a create that was lost.  *)
THEOREM PoolsAccounted ==
  ASSUME ~ CreateFirst
  PROVE  MCSpec => []NoUnknownPool
<1>1. Spec => []AwsInv  BY AwsInvHolds
<1> QED BY <1>1, AwsComposed, AwsStates, PTL

(* The cleanup that Delete, or a failed Create, reports done has removed   *)
(* everything of the gateway but retained addresses.                       *)
THEOREM CleanupCompletes ==
  ASSUME ~ CreateFirst
  PROVE  MCSpec => CleanupIsComplete
<1>1. Spec => []AwsInv  BY AwsInvHolds
<1>2. ASSUME AwsInv, [Next]_vars
      PROVE  [(Finish /\ op.kind \in {"delete", "undo"}) =>
                \A o \in objects : \/ o.kind = "address" /\ RetainManagedEIPs
                                   \/ o.gen \notin {0, op.gen}]_vars
  BY <1>2, AwsEndings
<1>3. Spec => [][Next]_vars  BY DEF Spec
<1> QED BY <1>1, <1>2, <1>3, AwsComposed, PTL DEF CleanupIsComplete

(* A destroy that reports success has put back every route whose target    *)
(* from before still exists, unless an agent took the route again.         *)
THEOREM DestroyRestores ==
  ASSUME ~ CreateFirst
  PROVE  MCSpec => DestroyRestoresRoutes
<1>1. Spec => []AwsInv  BY AwsInvHolds
<1>2. ASSUME AwsInv, [Next]_vars
      PROVE  [(Finish /\ op.kind = "delete") =>
                \A z \in ZoneSet \ retaken :
                  (state[op.gen].saved[z] = Before /\ previous) => route[z] = Before]_vars
  BY <1>2, AwsEndings
<1>3. Spec => [][Next]_vars  BY DEF Spec
<1> QED BY <1>1, <1>2, <1>3, AwsComposed, PTL DEF DestroyRestoresRoutes
=============================================================================

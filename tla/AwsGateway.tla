----------------------------- MODULE AwsGateway -----------------------------
(***************************************************************************)
(* The betternat_aws_gateway resource of the Terraform provider and the    *)
(* installer below it (tfprovider/gateway_resource.go,                     *)
(* tfprovider/install.go, install/aws, installplan): creating, updating    *)
(* and destroying a gateway by calls to AWS of which any may fail, or be   *)
(* the last before the provider dies, while the gateway's own agents run.  *)
(*                                                                         *)
(* One private route table per zone stands for the managed routes, and a   *)
(* route target is what was there before the gateway (Before) or an        *)
(* instance of one generation of it.                                       *)
(***************************************************************************)
EXTENDS Integers, Sequences, SequencesExt

CONSTANTS
  Zones,             \* the availability zones, in the plan's order
  MaxGen,            \* generations are 1 .. MaxGen
  MaxUpdated,        \* generations 1 .. MaxUpdated get updates
  MaxSize,           \* capacities are 1 .. MaxSize
  MaxConfig,         \* contents of the user data are 1 .. MaxConfig
  Addresses,         \* "managed", "external" or "none": where the EIPs come from
  RetainManagedEIPs, \* retain_managed_eips_on_destroy
  CreateFirst,       \* create_before_destroy: replacing keeps the old gateway
  MaxFaults,         \* calls that fail
  MaxCrashes         \* deaths of the provider process

ASSUME ZonesAssumption == Zones \in Seq(STRING) /\ Len(Zones) > 0
ASSUME BoundsAssumption ==
  /\ MaxGen \in Nat \ {0} /\ MaxUpdated \in Nat /\ MaxSize \in Nat \ {0} /\ MaxConfig \in Nat \ {0}
  /\ MaxFaults \in Nat /\ MaxCrashes \in Nat
ASSUME SwitchesAssumption ==
  /\ Addresses \in {"managed", "external", "none"}
  /\ RetainManagedEIPs \in BOOLEAN /\ CreateFirst \in BOOLEAN

VARIABLES
  objects,   \* what exists in the account for this gateway
  pool,      \* capacity and user data of each generation's group, per zone
  running,   \* <<generation, zone>>: the pools with live instances
  route,     \* the target of each zone's private route
  previous,  \* whether the target from before the gateway still exists
  untagged,  \* addresses allocated and not tagged, per zone
  state,     \* Terraform's state: what it recorded of each generation it knows
  op,        \* the provider's operation under way
  next,      \* the next generation
  wanted,    \* whether the user still wants a gateway
  faults, crashes,
  retaken,   \* history: routes agents took since the destroy under way restored them
  dirty,     \* history: <<generation, part>> of updates that did not end well
  torn,      \* history: generations a delete of which did not end well
  abandoned  \* history: generations whose create was lost before its cleanup

cloud == <<objects, pool, running, route, previous, untagged>>
history == <<retaken, dirty, torn, abandoned>>
vars == <<cloud, state, op, next, wanted, faults, crashes, history>>

Gens == 1 .. MaxGen
ZoneSet == Range(Zones)
NoPool == [size |-> 0, config |-> 0]
Before == 0
NoRoutes == [z \in ZoneSet |-> -1]
Idle == [kind |-> "idle"]

(* Launch templates, groups and hooks carry the generation in their name,  *)
(* everything else only the gateway's.                                     *)
Object(kind, z, g) ==
  [kind |-> kind, zone |-> z,
   gen |-> IF kind \in {"template", "pool", "hook"} THEN g ELSE 0]

HasPool(g) == \E z \in ZoneSet : Object("pool", z, g) \in objects
Current == Max(DOMAIN state)

(***************************************************************************)
(* The operations, as the calls they make in the order of the code.        *)
(* `order` is the order in which Go happens to iterate over a map of zones *)
(***************************************************************************)

Orders == SetToSeqs(ZoneSet)

Calls(do, kinds) == [i \in DOMAIN kinds |-> [do |-> do, kind |-> kinds[i], zone |-> "all"]]

(* All the calls for one zone, then all for the next.                      *)
InEach(order, calls) ==
  LET n == Len(calls) IN
  [i \in 1 .. n * Len(order) |->
     [calls[((i - 1) % n) + 1] EXCEPT !.zone = order[((i - 1) \div n) + 1]]]

createIAM == Calls("create", <<"role", "policies", "profile", "profileRole">>)
ensureSecurityGroup == Calls("create", <<"group">>)
createLeaseTable == Calls("create", <<"leases">>)
createCoordinationTable == Calls("create", <<"coordination">>)
createPool == Calls("create", <<"template", "pool", "hook">>)
waitForPoolOwner == Calls("await", <<"owner">>)
allocateEIP == Calls("allocate", <<"address">>) \o Calls("tag", <<"address">>)
associateEIP == Calls("associate", <<"address">>)
InitialRoute == Calls("snapshot", <<"route">>) \o Calls("replace", <<"route">>)

Apply(order) ==
  createIAM \o ensureSecurityGroup \o createLeaseTable \o createCoordinationTable
  \o InEach(Zones, createPool \o waitForPoolOwner)
  \o (CASE Addresses = "managed"  -> InEach(order, allocateEIP \o associateEIP)
        [] Addresses = "external" -> InEach(order, associateEIP)
        [] Addresses = "none"     -> <<>>)
  \o InEach(Zones, InitialRoute)

\* faulty: the launch templates stay behind.
deletePoolsOnly ==
  InEach(Zones, Calls("delete", <<"hook">>) \o Calls("shrink", <<"pool">>)
                \o Calls("delete", <<"pool">>))

deletePools ==
  InEach(Zones, Calls("delete", <<"hook">>) \o Calls("shrink", <<"pool">>)
                \o Calls("delete", <<"pool", "template">>))
terminateAppliances == Calls("terminate", <<"owner">>)
releaseEIPs ==
  IF Addresses = "managed" /\ ~RetainManagedEIPs
  THEN InEach(Zones, Calls("delete", <<"address">>)) ELSE <<>>
deleteLeaseTable == Calls("delete", <<"leases">>)
deleteCoordinationTable == Calls("delete", <<"coordination">>)
deleteIAM == Calls("delete", <<"profileRole", "profile", "policies", "role">>)
deleteSecurityGroup == Calls("delete", <<"group">>)

(* Only a gateway that reached the state has instance ids to terminate.    *)
Cleanup(inState) ==
  deletePools \o (IF inState THEN terminateAppliances ELSE <<>>)
  \o releaseEIPs \o deleteLeaseTable \o deleteCoordinationTable
  \o deleteIAM \o deleteSecurityGroup

\* faulty: the first error is taken for the end of the list.
RestoreRoutesOnce(order) == InEach(<<Head(order)>>, Calls("restore", <<"route">>))

RestoreRoutes(order) == InEach(order, Calls("restore", <<"route">>))
ReconcileInfrastructure == createCoordinationTable \o createIAM
UpdateCapacity == InEach(Zones, Calls("resize", <<"pool">>))
\* faulty: only the first zone's pool is refreshed.
UpdatePoolsOnce ==
  Calls("find", <<"group">>)
  \o InEach(<<Head(Zones)>>, Calls("version", <<"template">>) \o Calls("refresh", <<"pool">>))

UpdatePools ==
  Calls("find", <<"group">>)
  \o InEach(Zones, Calls("version", <<"template">>) \o Calls("refresh", <<"pool">>))

(***************************************************************************)
(* What a call does in the account.                                        *)
(***************************************************************************)

Has(kind) == Object(kind, "all", 0) \in objects
Named(call) == Object(call.kind, call.zone, op.gen)
Pool(call) == Object("pool", call.zone, op.gen)

(* A call AWS refuses as things are, whatever is retried.                  *)
Refused(call) ==
  \/ call.do = "create" /\ call.kind = "policies" /\ ~Has("role")
  \/ call.kind = "profileRole" /\ call.do = "create" /\ ~(Has("role") /\ Has("profile"))
  \/ call.do = "find" /\ ~Has("group")
  \/ call.do \in {"resize", "refresh", "await"} /\ Pool(call) \notin objects
  \/ call.do = "version" /\ Named(call) \notin objects
  \/ call.do = "delete"
     /\ \/ call.kind = "profile" /\ Has("profileRole")
        \/ call.kind = "role" /\ (Has("policies") \/ Has("profileRole"))
        \/ /\ call.kind = "group" /\ Has("group")
           /\ \E p \in running : Object("pool", p[2], p[1]) \in objects

(* The group is deleted once no network interface is left in it.           *)
Waits(call) == call.do = "delete" /\ call.kind = "group" /\ Has("group") /\ running # {}

CreateObject(call) ==
  /\ call.do = "create"
  /\ objects' = objects \cup {Named(call)}
  /\ IF call.kind = "pool"
     THEN /\ pool' = [pool EXCEPT ![op.gen][call.zone] = op.plan]
          /\ running' = running \cup {<<op.gen, call.zone>>}
     ELSE UNCHANGED <<pool, running>>
  /\ UNCHANGED <<route, previous, untagged>>

(* Deleting what is not there succeeds; a hook goes with its group.        *)
DeleteObject(call) ==
  /\ call.do = "delete"
  /\ objects' = objects \ ({Named(call)}
       \cup (IF call.kind = "pool" THEN {Object("hook", call.zone, op.gen)} ELSE {}))
  /\ pool' = IF call.kind = "pool"
             THEN [pool EXCEPT ![op.gen][call.zone] = NoPool] ELSE pool
  /\ UNCHANGED <<running, route, previous, untagged>>

(* An address that already carries the name is adopted.                    *)
AllocateAddress(call) ==
  /\ call.do = "allocate"
  /\ untagged' = IF Named(call) \in objects THEN untagged
                 ELSE [untagged EXCEPT ![call.zone] = @ + 1]
  /\ UNCHANGED <<objects, pool, running, route, previous>>

TagAddress(call) ==
  /\ call.do = "tag"
  /\ untagged' = IF Named(call) \in objects THEN untagged
                 ELSE [untagged EXCEPT ![call.zone] = @ - 1]
  /\ objects' = objects \cup {Named(call)}
  /\ UNCHANGED <<pool, running, route, previous>>

ReplaceRoute(call) ==
  /\ call.do = "replace"
  /\ route' = [route EXCEPT ![call.zone] = op.gen]
  /\ UNCHANGED <<objects, pool, running, previous, untagged>>

(* A rollback target that is gone is skipped.                              *)
isStaleRollbackTarget(target, z) ==
  IF target = Before THEN ~previous ELSE <<target, z>> \notin running

RestoreRoute(call) ==
  LET target == state[op.gen].saved[call.zone] IN
  /\ call.do = "restore"
  /\ route' = IF isStaleRollbackTarget(target, call.zone) THEN route
              ELSE [route EXCEPT ![call.zone] = target]
  /\ UNCHANGED <<objects, pool, running, previous, untagged>>

ResizePool(call) ==
  /\ call.do \in {"resize", "shrink"}
  /\ pool' = IF Pool(call) \in objects
             THEN [pool EXCEPT ![op.gen][call.zone].size =
                     IF call.do = "resize" THEN op.plan.size ELSE 0]
             ELSE pool
  /\ running' = IF call.do = "resize" THEN running \cup {<<op.gen, call.zone>>} ELSE running
  /\ UNCHANGED <<objects, route, previous, untagged>>

RefreshPool(call) ==
  /\ call.do = "refresh"
  /\ pool' = [pool EXCEPT ![op.gen][call.zone].config = op.plan.config]
  /\ UNCHANGED <<objects, running, route, previous, untagged>>

(* Calls that only read, or change what the model leaves out: the address  *)
(* association, the template's versions, instances already going away.     *)
OtherCall(call) ==
  /\ call.do \in {"await", "associate", "snapshot", "terminate", "find", "version"}
  /\ UNCHANGED cloud

Effect(call) ==
  \/ CreateObject(call) \/ DeleteObject(call)
  \/ AllocateAddress(call) \/ TagAddress(call)
  \/ ReplaceRoute(call) \/ RestoreRoute(call)
  \/ ResizePool(call) \/ RefreshPool(call) \/ OtherCall(call)

(***************************************************************************)
(* The provider.                                                           *)
(***************************************************************************)

(* Of what is derived from a resource's configuration, the capacity and the *)
(* user data can change in place.                                          *)
DeriveGatewayState(size, config) == [size |-> size, config |-> config]

Start(kind, g, plan, todo) ==
  op' = [kind |-> kind, gen |-> g, plan |-> plan, saved |-> NoRoutes, todo |-> todo]

\* faulty: a retried create takes the generation of the failed one.
CreateReusesGeneration ==
  /\ op = Idle /\ wanted /\ next <= MaxGen /\ DOMAIN state = {}
  /\ \E order \in Orders : Start("create", next, DeriveGatewayState(1, 1), Apply(order))
  /\ UNCHANGED <<cloud, state, next, wanted, faults, crashes, history>>

(* Every Create is a generation of its own. Capacities and user data are   *)
(* only compared within a generation, whose first ones are called 1.       *)
Create ==
  /\ op = Idle /\ wanted /\ next <= MaxGen
  /\ DOMAIN state = {} \/ (CreateFirst /\ Cardinality(DOMAIN state) = 1)
  /\ \E order \in Orders : Start("create", next, DeriveGatewayState(1, 1), Apply(order))
  /\ next' = next + 1
  /\ UNCHANGED <<cloud, state, wanted, faults, crashes, history>>

(* Only the capacity may change without a rollout.                         *)
gatewayReplacementRequired(recorded, plan) == recorded.config # plan.config

Update ==
  /\ op = Idle /\ wanted /\ DOMAIN state # {} /\ Current <= MaxUpdated
  /\ \E size \in 1 .. MaxSize, config \in 1 .. MaxConfig :
       LET plan == DeriveGatewayState(size, config)
           recorded == state[Current].plan IN
       /\ plan # recorded
       /\ IF gatewayReplacementRequired(recorded, plan)
          THEN Start("rollout", Current, plan,
                     ReconcileInfrastructure \o UpdateCapacity \o UpdatePools)
          ELSE Start("resize", Current, plan, ReconcileInfrastructure \o UpdateCapacity)
  /\ UNCHANGED <<cloud, state, next, wanted, faults, crashes, history>>

GenerationSuperseded(g) == ~HasPool(g) /\ \E h \in Gens : HasPool(h)

(* Of two generations the older is deposed; with the default lifecycle the *)
(* only one is deleted before its replacement is created.                  *)
Deletable(g) == g \in DOMAIN state /\ ((wanted /\ CreateFirst) => g # Current)

Delete(g) ==
  /\ op = Idle /\ Deletable(g) /\ ~GenerationSuperseded(g)
  /\ \E order \in Orders :
       Start("delete", g, NoPool, RestoreRoutes(order) \o Cleanup(TRUE))
  /\ UNCHANGED <<cloud, state, next, wanted, faults, crashes, history>>

DeleteSuperseded(g) ==
  /\ op = Idle /\ Deletable(g) /\ GenerationSuperseded(g)
  /\ state' = Restrict(state, DOMAIN state \ {g})
  /\ UNCHANGED <<cloud, op, next, wanted, faults, crashes, history>>

Calling == op # Idle /\ op.todo # <<>>
Call == Head(op.todo)

(* What of its generation's pools the operation changes.                   *)
Updated ==
  {op.gen} \X (CASE op.kind = "resize" -> {"size"}
                 [] op.kind = "rollout" -> {"size", "config"}
                 [] OTHER -> {})

(* The call is answered; the snapshot of a route is kept for the rollback. *)
CallAnswered ==
  /\ Calling /\ ~Refused(Call) /\ ~Waits(Call) /\ Effect(Call)
  /\ op' = [op EXCEPT !.todo = Tail(@),
                      !.saved = IF Call.do = "snapshot"
                                THEN [@ EXCEPT ![Call.zone] = route[Call.zone]] ELSE @]
  /\ retaken' = IF Call.do = "restore" THEN retaken \ {Call.zone} ELSE retaken
  /\ UNCHANGED <<state, next, wanted, faults, crashes, dirty, torn, abandoned>>

\* faulty: an update that failed is cleaned up like a create, or neither is.
GiveUpAndCleanUp ==
  /\ Start("undo", op.gen, NoPool, Cleanup(FALSE))
  /\ dirty' = dirty \cup Updated /\ retaken' = {}
  /\ UNCHANGED <<state, next, wanted, torn, abandoned>>
GiveUpOnly ==
  /\ op' = Idle /\ dirty' = dirty \cup Updated /\ retaken' = {}
  /\ torn' = IF op.kind = "delete" THEN torn \cup {op.gen} ELSE torn
  /\ UNCHANGED <<state, next, wanted, abandoned>>

(* The operation ends at its first error. A Create then cleans up what it  *)
(* made, and only warns when that fails too; the others keep the state.    *)
GiveUp ==
  /\ IF op.kind = "create"
     THEN Start("undo", op.gen, NoPool, Cleanup(FALSE))
     ELSE op' = Idle
  /\ abandoned' = IF op.kind = "undo" THEN abandoned \cup {op.gen} ELSE abandoned
  /\ dirty' = dirty \cup Updated
  /\ torn' = IF op.kind = "delete" THEN torn \cup {op.gen} ELSE torn
  /\ retaken' = {}
  /\ UNCHANGED <<state, next, wanted>>

CallRefused ==
  /\ Calling /\ Refused(Call) /\ GiveUp
  /\ UNCHANGED <<cloud, faults, crashes>>

CallFails ==
  /\ Calling /\ faults < MaxFaults
  /\ UNCHANGED cloud \/ (~Refused(Call) /\ ~Waits(Call) /\ Effect(Call))
  /\ GiveUp
  /\ faults' = faults + 1
  /\ UNCHANGED crashes

Finish ==
  /\ op # Idle /\ op.todo = <<>> /\ op' = Idle
  /\ state' = CASE op.kind = "create" ->
                     [g \in DOMAIN state \cup {op.gen} |->
                        IF g = op.gen THEN [plan |-> op.plan, saved |-> op.saved] ELSE state[g]]
                [] op.kind \in {"resize", "rollout"} ->
                     [state EXCEPT ![op.gen].plan = op.plan]
                [] op.kind = "delete" -> Restrict(state, DOMAIN state \ {op.gen})
                [] op.kind = "undo"   -> state
  /\ dirty' = dirty \ Updated
  /\ retaken' = {}
  /\ UNCHANGED <<cloud, next, wanted, faults, crashes, torn, abandoned>>

(* The provider process dies between two calls; Terraform still has the    *)
(* state it had.                                                           *)
Crash ==
  /\ op # Idle /\ crashes < MaxCrashes /\ op' = Idle
  /\ crashes' = crashes + 1
  /\ abandoned' = IF op.kind \in {"create", "undo"} THEN abandoned \cup {op.gen} ELSE abandoned
  /\ dirty' = dirty \cup Updated
  /\ torn' = IF op.kind = "delete" THEN torn \cup {op.gen} ELSE torn
  /\ retaken' = {}
  /\ UNCHANGED <<cloud, state, next, wanted, faults>>

(***************************************************************************)
(* Around the provider.                                                    *)
(***************************************************************************)

Retire ==
  /\ op = Idle /\ wanted /\ wanted' = FALSE
  /\ UNCHANGED <<cloud, state, op, next, faults, crashes, history>>

PreviousTargetGoes ==
  /\ previous /\ previous' = FALSE
  /\ faults < MaxFaults /\ faults' = faults + 1
  /\ UNCHANGED <<objects, pool, running, route, untagged, state, op, next, wanted,
                 crashes, history>>

(* Agents manage the routes of the first zone only. The owner takes a      *)
(* route back whenever it sees it elsewhere, as long as it can use the     *)
(* lease table, its role and its address.                                  *)
AgentTakesRoute(g) ==
  LET z == Zones[1] IN
  /\ <<g, z>> \in running /\ route[z] # g
  /\ \A kind \in {"leases", "role", "policies"} : Has(kind)
  /\ Addresses = "managed" => Object("address", z, 0) \in objects
  /\ route' = [route EXCEPT ![z] = g]
  /\ retaken' = IF op # Idle /\ op.kind = "delete" THEN retaken \cup {z} ELSE retaken
  /\ UNCHANGED <<objects, pool, running, previous, untagged, state, op, next, wanted,
                 faults, crashes, dirty, torn, abandoned>>

(* The instances of a generation that are going away are gone.             *)
InstancesTerminated(g) ==
  LET going == {p \in running : /\ p[1] = g
                                /\ \/ Object("pool", p[2], g) \notin objects
                                   \/ pool[g][p[2]].size = 0} IN
  /\ going # {} /\ running' = running \ going
  /\ UNCHANGED <<objects, pool, route, previous, untagged, state, op, next, wanted,
                 faults, crashes, history>>

Init ==
  /\ objects = {} /\ running = {} /\ previous = TRUE
  /\ untagged = [z \in ZoneSet |-> 0]
  /\ pool = [g \in Gens |-> [z \in ZoneSet |-> NoPool]]
  /\ route = [z \in ZoneSet |-> Before]
  /\ state = <<>> /\ op = Idle /\ next = 1 /\ wanted = TRUE
  /\ faults = 0 /\ crashes = 0
  /\ retaken = {} /\ dirty = {} /\ torn = {} /\ abandoned = {}

Next ==
  \/ Create \/ Update
  \/ \E g \in Gens : Delete(g) \/ DeleteSuperseded(g)
  \/ CallAnswered \/ CallRefused \/ CallFails \/ Finish \/ Crash
  \/ Retire \/ PreviousTargetGoes
  \/ \E g \in Gens : AgentTakesRoute(g)
  \/ \E g \in Gens : InstancesTerminated(g)

(* Calls return, instances go away, and a user who wants the gateway gone  *)
(* destroys until nothing is left.                                         *)
Proceed == CallAnswered \/ CallRefused \/ Finish
InstancesGo == \E g \in Gens : InstancesTerminated(g)
DestroyAgain == ~wanted /\ \E g \in Gens : Delete(g) \/ DeleteSuperseded(g)

Fairness == WF_vars(Proceed) /\ WF_vars(InstancesGo) /\ WF_vars(DestroyAgain)

Spec == Init /\ [][Next]_vars
FairSpec == Spec /\ Fairness

(***************************************************************************)
(* Properties.                                                             *)
(***************************************************************************)

TypeOK ==
  /\ \A o \in objects : o.gen \in 0 .. MaxGen /\ o.zone \in ZoneSet \cup {"all"}
  /\ running \in SUBSET (Gens \X ZoneSet)
  /\ pool \in [Gens -> [ZoneSet -> [size : 0 .. MaxSize, config : 0 .. MaxConfig]]]
  /\ route \in [ZoneSet -> {Before} \cup Gens]
  /\ untagged \in [ZoneSet -> Nat] /\ previous \in BOOLEAN /\ wanted \in BOOLEAN
  /\ DOMAIN state \subseteq Gens /\ next \in 1 .. MaxGen + 1
  /\ op = Idle \/ op.gen \in 1 .. next - 1
  /\ faults \in 0 .. MaxFaults /\ crashes \in 0 .. MaxCrashes
  /\ retaken \subseteq ZoneSet
  /\ dirty \subseteq Gens \X {"size", "config"} /\ torn \subseteq Gens /\ abandoned \subseteq Gens

Made(g) ==
  {Object(c.kind, c.zone, g) :
     c \in {c \in Range(Apply(Zones)) : c.do \in {"create", "tag"}}}

(* A gateway Terraform has in its state, and has not begun to destroy, has *)
(* everything it was created with: no failed create, replacement or update *)
(* of another generation took any of it away.                              *)
LiveGatewayIsWhole ==
  \A g \in DOMAIN state \ torn :
    (op # Idle => op.kind # "delete" \/ op.gen # g) => Made(g) \subseteq objects

(* Between operations the pools are what the state says of them, unless    *)
(* the last update or delete of the generation failed.                     *)
StateDescribesPools ==
  op = Idle =>
    \A g \in DOMAIN state \ torn, z \in ZoneSet :
      /\ <<g, "size">> \in dirty \/ pool[g][z].size = state[g].plan.size
      /\ <<g, "config">> \in dirty \/ pool[g][z].config = state[g].plan.config

(* Between operations a pool belongs to a generation in the state, or to a *)
(* create that died or could not be cleaned up.                            *)
NoUnknownPool ==
  op = Idle => \A g \in Gens : HasPool(g) => g \in DOMAIN state \cup abandoned

(* A destroy, or the cleanup of a failed create, that reports success      *)
(* leaves nothing of the gateway but retained addresses.                   *)
CleanupIsComplete ==
  [][ (Finish /\ op.kind \in {"delete", "undo"}) =>
        \A o \in objects :
          \/ o.kind = "address" /\ RetainManagedEIPs
          \/ o.gen \notin {0, op.gen} ]_vars

(* A destroy that reports success leaves every route at the target it had  *)
(* before the gateway, if that target still exists and no agent took the   *)
(* route after it was restored.                                            *)
DestroyRestoresRoutes ==
  [][ (Finish /\ op.kind = "delete") =>
        \A z \in ZoneSet \ retaken :
          (state[op.gen].saved[z] = Before /\ previous) => route[z] = Before ]_vars

(* Once the user wants no gateway, destroying it comes to an end, unless   *)
(* the pools of an abandoned create keep the security group in use.        *)
Settled == wanted \/ (op = Idle /\ DOMAIN state = {}) \/ abandoned # {}
Converges == []<>Settled
=============================================================================

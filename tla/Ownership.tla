----------------------------- MODULE Ownership -----------------------------
(***************************************************************************)
(* The HA control loop of internal/ha: every agent runs a supervisor that  *)
(* takes, renews and repairs the ownership of the public identity and of   *)
(* the routes, and serves planned handovers; both mutate the cloud behind  *)
(* lease fences and share one mutex per process.                           *)
(*                                                                         *)
(* The lease is seen as LeaseContract promises it: lease.live says that    *)
(* its owner's own clock has not reached the expiry, and the store lets    *)
(* nobody else take it before.  Each call to the lease store or to the     *)
(* cloud is one step; a mutation and the fences around it are separate     *)
(* steps, so the lease can be lost in between.  A call may fail MaxFaults  *)
(* times; a failed write may have been applied.                            *)
(***************************************************************************)
EXTENDS Integers, Sequences

CONSTANTS
  Agents, NoAgent,
  RouteTables,    \* the route tables, in configuration order
  SharedEIP,      \* public_identity.mode = "shared_eip"
  Clouds,         \* the clouds considered, of "aws" and "gcp"
  EventualReads,  \* Current may lag behind (DynamoDB's default GetItem)
  MaxTries,       \* bound: attempts of a handover mutation (4 in the code)
  MaxGen,         \* bound: the greatest generation
  MaxFaults,      \* bounds, on each cloud: calls that fail,
  MaxStalls,      \* leases that expire although their owner runs,
  MaxCrashes,     \* and processes that end
  MaxHandovers    \* bound: handovers that start

ASSUME OwnershipAgents == NoAgent \notin Agents
ASSUME OwnershipRoutes == RouteTables \in Seq(STRING) /\ RouteTables # <<>>
ASSUME OwnershipSwitches ==
  /\ {SharedEIP, EventualReads} \subseteq BOOLEAN
  /\ Clouds \subseteq {"aws", "gcp"}
ASSUME OwnershipBounds ==
  /\ MaxTries \in Nat \ {0}
  /\ {MaxGen, MaxHandovers} \subseteq Nat
  /\ {MaxFaults, MaxStalls, MaxCrashes} \subseteq [Clouds -> Nat]

VARIABLES
  lease,    \* the stored lease: owner, generation, live
  replica,  \* the version a lagging read of the lease returns
  target,   \* where the public identity and each route point
  mutex,    \* OwnershipMu of each process: who holds it
  up,       \* the agents whose process runs
  sup,      \* each supervisor's control state
  hand,     \* each agent's handover control state
  status,   \* the state each supervisor reported last
  fresh,    \* the agents whose reported own lease has not expired
  used,     \* the cloud, and how much of each bound is used up
  released, \* history: the lease's record has been deleted
  strayed   \* history: what an agent without the lease changed last

history == <<released, strayed>>
vars == <<lease, replica, target, mutex, up, sup, hand, status, fresh, used, history>>

-----------------------------------------------------------------------------
EIP == "eip"
Identity == IF SharedEIP THEN <<EIP>> ELSE <<>>
Owned == Identity \o RouteTables       \* in the order it is moved
Verified == RouteTables \o Identity    \* in the order it is read back
(* On GCP a handover moves the routes only: connectivity first.            *)
ConnectivityFirst == used.cloud = "gcp" /\ SharedEIP
Moved == IF ConnectivityFirst THEN RouteTables ELSE Owned
MovedVerified == IF ConnectivityFirst THEN RouteTables ELSE Verified

Resources == {Owned[i] : i \in 1 .. Len(Owned)}
NoLease == [owner |-> NoAgent, generation |-> 0, live |-> FALSE]
LeaseOf(a, g) == [owner |-> a, generation |-> g, live |-> TRUE]

Idle == [pc |-> "idle", mode |-> "repair", i |-> 1, gen |-> 0, owned |-> 0,
         stray |-> FALSE]
NoHandover == [pc |-> "idle", to |-> NoAgent, i |-> 1, try |-> 1, gen |-> 0,
               stray |-> FALSE]

Fault == used.faults < MaxFaults[used.cloud] /\ used' = [used EXCEPT !.faults = @ + 1]
NoFault == UNCHANGED used

(* What a read of the lease may show.                                      *)
Reads == {lease} \cup (IF EventualReads THEN {replica} ELSE {})
Mine(l, a, g) == l.owner = a /\ l.generation = g

(* Faulty: does not ask whose lease it is.                                 *)
FencePassesAnyones(a, g) == \E l \in Reads : l.live /\ NoFault

(* VerifyLease: the record read is the agent's, of this generation, and    *)
(* not expired.                                                            *)
FencePasses(a, g) == \E l \in Reads : Mine(l, a, g) /\ l.live /\ NoFault
FenceFails(a, g) ==
  \/ \E l \in Reads : ~ (Mine(l, a, g) /\ l.live) /\ NoFault
  \/ Fault

(* The conditional writes are decided by the store.                        *)
Holds(a, g) == Mine(lease, a, g) /\ lease.live
MayExtend(a, g) ==
  Mine(lease, a, g) /\ (lease.live \/ used.cloud = "gcp")   \* see Lease
MayAcquireAnytime(a) == TRUE   \* faulty
MayAcquire(a) == ~ lease.live \/ lease.owner = a

Store(l) ==
  /\ lease' = l
  /\ replica' = IF EventualReads THEN replica ELSE l

(* A cloud mutation: applied and confirmed; or an error, applied or not.   *)
Applied(r, a) == target' = [target EXCEPT ![r] = a] /\ NoFault
Failed(r, a) == target' \in {target, [target EXCEPT ![r] = a]} /\ Fault

(* The cloud says that the route or the address is the agent's.            *)
Described(r, a) == target[r] = a

Reach(a, pc) == sup' = [sup EXCEPT ![a].pc = pc]
HReach(a, pc) == hand' = [hand EXCEPT ![a].pc = pc]

Init ==
  /\ lease = NoLease
  /\ replica = NoLease
  /\ target = [r \in Resources |-> NoAgent]
  /\ mutex = [a \in Agents |-> "free"]
  /\ up = Agents
  /\ sup = [a \in Agents |-> Idle]
  /\ hand = [a \in Agents |-> NoHandover]
  /\ status = [a \in Agents |-> "INIT"]
  /\ fresh = {}
  /\ \E c \in Clouds :
       used = [cloud |-> c, faults |-> 0, stalls |-> 0, crashes |-> 0, handovers |-> 0]
  /\ released = FALSE
  /\ strayed = {}

(* What the history keeps of a step of a.  It restricts no behaviour.      *)
Remember(a) ==
  LET changed == {r \in Resources : target'[r] # target[r]} IN
  /\ released' = (released \/ (lease # NoLease /\ lease' = NoLease))
  /\ strayed' = IF released' THEN {}
                ELSE IF lease.owner = a THEN strayed \ changed ELSE strayed \cup changed

(***************************************************************************)
(* The supervisor's step.                                                  *)
(***************************************************************************)

UnlockForgotten(a, who) == UNCHANGED mutex   \* faulty
Unlock(a, who) == mutex' = [mutex EXCEPT ![a] = IF @ = who THEN "free" ELSE @]

(* The step ends and reports st; owned is what a shutdown would release.   *)
EndStep(a, st, owned) ==
  /\ status' = [status EXCEPT ![a] = st]
  /\ sup' = [sup EXCEPT ![a] = [Idle EXCEPT !.owned = owned]]
  /\ Unlock(a, "sup")

(* It ends with the agent's own lease of generation g in the report.       *)
EndOwned(a, st, g) ==
  LET expired == Mine(lease, a, g) /\ ~ lease.live IN
  /\ EndStep(a, st, IF expired THEN sup[a].owned ELSE g)
  /\ fresh' = IF expired THEN fresh \ {a} ELSE fresh \cup {a}

(* Converging at startup is reported as INIT until the first ACTIVE.       *)
EndDegraded(a) ==
  \E st \in {"DEGRADED"} \cup (IF status[a] = "ACTIVE" THEN {} ELSE {"INIT"}) :
    EndOwned(a, st, sup[a].gen)

Previous(a) == status[a] \in {"ACTIVE", "DEGRADED"} /\ a \in fresh

TakeOver(a) ==
  /\ status' = [status EXCEPT ![a] = "TAKING_OVER"]
  /\ sup' = [sup EXCEPT ![a].pc = "acquire", ![a].mode = "activate"]
  /\ UNCHANGED <<mutex, fresh>>

(* No record was read: an active agent waits for its own last lease to     *)
(* expire, anybody else tries to take over.                                *)
Unread(a) ==
  \/ Previous(a) /\ EndOwned(a, "DEGRADED", sup[a].owned)
  \/ ~ Previous(a) /\ TakeOver(a)

ReadLease(a) ==
  /\ sup[a].pc = "idle"
  /\ \/ Fault /\ Unread(a)
     \/ /\ NoFault
        /\ \E l \in Reads :
             \/ l = NoLease /\ Unread(a)
             \/ /\ l.owner = a /\ l.live
                /\ sup' = [sup EXCEPT ![a].pc = "renew", ![a].gen = l.generation]
                /\ UNCHANGED <<mutex, status, fresh>>
             \/ /\ l.owner # a /\ l.live
                /\ EndStep(a, "STANDBY", 0)
                /\ UNCHANGED fresh
             \/ l # NoLease /\ ~ l.live /\ TakeOver(a)
  /\ UNCHANGED <<lease, replica, target, up, hand>>

(* Renew, then reconcile the local datapath, which may fail too.           *)
RenewLease(a) ==
  LET g == sup[a].gen
      accepted == MayExtend(a, g) IN
  /\ sup[a].pc = "renew"
  /\ \/ /\ accepted /\ Store(LeaseOf(a, g))
        /\ \/ NoFault /\ Reach(a, "verify") /\ UNCHANGED <<mutex, status, fresh>>
           \/ Fault /\ EndDegraded(a)
     \/ /\ (~ accepted /\ NoFault) \/ Fault
        /\ EndOwned(a, "DEGRADED", g)
        /\ UNCHANGED <<lease, replica>>
  /\ UNCHANGED <<target, up, hand>>

(* A takeover begins with the lease, then reconciles the datapath.         *)
Acquire(a) ==
  LET granted == LeaseOf(a, lease.generation + 1) IN
  /\ sup[a].pc = "acquire"
  /\ \/ /\ MayAcquire(a) /\ lease.generation < MaxGen /\ Store(granted)
        /\ \/ /\ \/ NoFault /\ sup' = [sup EXCEPT ![a].pc = "verify",
                                          ![a].gen = granted.generation]
                 \/ Fault /\ sup' = [sup EXCEPT ![a].pc = "abort",
                                        ![a].gen = granted.generation]
              /\ UNCHANGED <<mutex, status>>
           \/ Fault /\ EndStep(a, "STANDBY", sup[a].owned)
     \/ /\ (~ MayAcquire(a) /\ NoFault) \/ Fault
        /\ EndStep(a, "STANDBY", sup[a].owned)
        /\ UNCHANGED <<lease, replica>>
  /\ UNCHANGED <<target, up, hand, fresh>>

(* A failure in a repair ends the step, in a takeover the lease is given   *)
(* back first.                                                             *)
Fail(a) ==
  \/ sup[a].mode = "repair" /\ EndDegraded(a)
  \/ /\ sup[a].mode = "activate" /\ Reach(a, "abort")
     /\ UNCHANGED <<mutex, status, fresh>>

(* The lease is read; the step goes on at pc or fails.                     *)
Fenced(a, pc) ==
  \/ /\ FencePasses(a, sup[a].gen) /\ Reach(a, pc)
     /\ UNCHANGED <<mutex, status, fresh>>
  \/ FenceFails(a, sup[a].gen) /\ Fail(a)

(* Faulty: does not start over.                                            *)
AdvanceOnly(a, resources, again, end) ==
  LET last == sup[a].i = Len(resources) IN
  sup' = [sup EXCEPT ![a].pc = IF last THEN end ELSE again, ![a].i = @ + 1]

(* The next resource of the sequence at pc again, or after the last, end.  *)
Advance(a, resources, again, end) ==
  LET last == sup[a].i = Len(resources) IN
  sup' = [sup EXCEPT ![a].pc = IF last THEN end ELSE again,
                     ![a].i = IF last THEN 1 ELSE @ + 1]

(* A repair unlocks when every resource is done, a takeover keeps the lock.*)
AfterOwned(a) ==
  /\ IF sup[a].mode = "repair"
     THEN /\ Advance(a, Owned, "describe", "final")
          /\ IF sup[a].i = Len(Owned) THEN Unlock(a, "sup") ELSE UNCHANGED mutex
     ELSE Advance(a, Owned, "fence", "check") /\ UNCHANGED mutex
  /\ UNCHANGED <<status, fresh>>

VerifyLease(a) ==
  /\ sup[a].pc = "verify"
  /\ Fenced(a, "lock")
  /\ UNCHANGED <<lease, replica, target, up, hand>>

LockOwnershipAtOnce(a) ==   \* faulty: does not wait
  /\ sup[a].pc = "lock"
  /\ mutex' = [mutex EXCEPT ![a] = "sup"]
  /\ Reach(a, IF sup[a].mode = "repair" THEN "describe" ELSE "reverify")
  /\ UNCHANGED <<lease, replica, target, up, hand, status, fresh, used>>

LockOwnership(a) ==
  /\ sup[a].pc = "lock"
  /\ mutex[a] = "free"
  /\ mutex' = [mutex EXCEPT ![a] = "sup"]
  /\ Reach(a, IF sup[a].mode = "repair" THEN "describe" ELSE "reverify")
  /\ UNCHANGED <<lease, replica, target, up, hand, status, fresh, used>>

Reverify(a) ==
  /\ sup[a].pc = "reverify"
  /\ Fenced(a, "fence")
  /\ UNCHANGED <<lease, replica, target, up, hand>>

DescribeOnly(a) ==   \* faulty: repairs nothing
  /\ sup[a].pc = "describe"
  /\ (NoFault /\ AfterOwned(a)) \/ (Fault /\ Fail(a))
  /\ UNCHANGED <<lease, replica, target, up, hand>>

(* A repair touches only what does not point at the agent.                 *)
Describe(a) ==
  /\ sup[a].pc = "describe"
  /\ \/ /\ NoFault
        /\ \/ Described(Owned[sup[a].i], a) /\ AfterOwned(a)
           \/ /\ ~ Described(Owned[sup[a].i], a) /\ Reach(a, "fence")
              /\ UNCHANGED <<mutex, status, fresh>>
     \/ Fault /\ Fail(a)
  /\ UNCHANGED <<lease, replica, target, up, hand>>

Fence(a) ==
  /\ sup[a].pc = "fence"
  /\ Fenced(a, "mutate")
  /\ UNCHANGED <<lease, replica, target, up, hand>>

Mutate(a) ==
  LET r == Owned[sup[a].i] IN
  /\ sup[a].pc = "mutate"
  /\ \/ /\ Applied(r, a)
        /\ sup' = [sup EXCEPT ![a].pc = "postfence",
                     ![a].stray = @ \/ lease.owner \notin {a, NoAgent}]
        /\ UNCHANGED <<mutex, status, fresh>>
     \/ Failed(r, a) /\ Fail(a)
  /\ UNCHANGED <<lease, replica, up, hand>>

(* After the mutation; a repaired route is read back as well.              *)
PostFence(a) ==
  /\ sup[a].pc = "postfence"
  /\ \/ /\ FencePasses(a, sup[a].gen)
        /\ IF sup[a].mode = "repair" /\ Owned[sup[a].i] # EIP
           THEN Reach(a, "confirm") /\ UNCHANGED <<mutex, status, fresh>>
           ELSE AfterOwned(a)
     \/ FenceFails(a, sup[a].gen) /\ Fail(a)
  /\ UNCHANGED <<lease, replica, target, up, hand>>

Confirm(a) ==
  LET here == Described(Owned[sup[a].i], a) IN
  /\ sup[a].pc = "confirm"
  /\ \/ here /\ NoFault /\ AfterOwned(a)
     \/ ((~ here /\ NoFault) \/ Fault) /\ Fail(a)
  /\ UNCHANGED <<lease, replica, target, up, hand>>

(* A takeover reads everything back at the end.                            *)
Check(a) ==
  LET here == Described(Verified[sup[a].i], a) IN
  /\ sup[a].pc = "check"
  /\ \/ /\ here /\ NoFault /\ Advance(a, Verified, "check", "final")
        /\ UNCHANGED <<mutex, status, fresh>>
     \/ ((~ here /\ NoFault) \/ Fault) /\ Fail(a)
  /\ UNCHANGED <<lease, replica, target, up, hand>>

(* The last fence (and the outbound probe of a takeover) before ACTIVE.    *)
Final(a) ==
  /\ sup[a].pc = "final"
  /\ \/ FencePasses(a, sup[a].gen) /\ EndOwned(a, "ACTIVE", sup[a].gen)
     \/ FenceFails(a, sup[a].gen) /\ Fail(a)
  /\ UNCHANGED <<lease, replica, target, up, hand>>

(* A failed takeover releases the lease it acquired.                       *)
Abort(a) ==
  /\ sup[a].pc = "abort"
  /\ \/ /\ Mine(lease, a, sup[a].gen) /\ Store(NoLease) /\ (NoFault \/ Fault)
     \/ /\ (~ Mine(lease, a, sup[a].gen) /\ NoFault) \/ Fault
        /\ UNCHANGED <<lease, replica>>
  /\ EndStep(a, "STANDBY", sup[a].owned)
  /\ UNCHANGED <<target, up, hand, fresh>>

Supervise(a) ==
  /\ a \in up
  /\ \/ ReadLease(a) \/ RenewLease(a) \/ Acquire(a) \/ VerifyLease(a)
     \/ LockOwnership(a) \/ Reverify(a) \/ Describe(a) \/ Fence(a)
     \/ Mutate(a) \/ PostFence(a) \/ Confirm(a) \/ Check(a)
     \/ Final(a) \/ Abort(a)
  /\ Remember(a)

(***************************************************************************)
(* A planned handover by a, which owns the lease, to hand[a].to: a request *)
(* handler that runs beside the supervisor.                                *)
(***************************************************************************)

(* renewLeaseFence: verified, renewed by the store, verified again.        *)
RenewedFence(a, g) == Holds(a, g) /\ FencePasses(a, g)
RenewFails(a, g) == (~ Holds(a, g) /\ NoFault) \/ FenceFails(a, g)

EndHandover(a) ==
  /\ hand' = [hand EXCEPT ![a] = NoHandover]
  /\ Unlock(a, "hand")

(* The handover stays locked and goes on at pc, with the first resource.   *)
HProceed(a, pc) ==
  /\ hand' = [hand EXCEPT ![a].pc = pc, ![a].i = 1, ![a].try = 1]
  /\ UNCHANGED mutex

HNext(a, resources, again, end) ==
  IF hand[a].i = Len(resources)
  THEN HProceed(a, end)
  ELSE /\ hand' = [hand EXCEPT ![a].pc = again, ![a].i = @ + 1, ![a].try = 1]
       /\ UNCHANGED mutex

(* A move that cannot be completed: the identity is only reverted behind   *)
(* another fence, the routes at once.                                      *)
HMoveFails(a) ==
  HProceed(a, IF Moved[hand[a].i] = EIP THEN "fenceRevert" ELSE "revert")

StartHandover(a, b) ==
  /\ hand[a].pc = "idle"
  /\ b # a
  /\ used.handovers < MaxHandovers
  /\ used' = [used EXCEPT !.handovers = @ + 1]
  /\ \E l \in Reads :
       /\ l.owner = a
       /\ hand' = [hand EXCEPT ![a].pc = "verify", ![a].to = b,
                               ![a].gen = l.generation]
  /\ UNCHANGED <<lease, replica, target, mutex, up, sup, status, fresh, history>>

HVerify(a) ==
  /\ hand[a].pc = "verify"
  /\ \/ FencePasses(a, hand[a].gen) /\ HProceed(a, "lock")
     \/ FenceFails(a, hand[a].gen) /\ EndHandover(a)
  /\ UNCHANGED <<lease, replica, target>>

HLock(a) ==
  /\ hand[a].pc = "lock"
  /\ mutex[a] = "free"
  /\ mutex' = [mutex EXCEPT ![a] = "hand"]
  /\ HReach(a, "renew")
  /\ UNCHANGED <<lease, replica, target, used>>

HRenew(a) ==
  /\ hand[a].pc = "renew"
  /\ \/ RenewedFence(a, hand[a].gen) /\ HProceed(a, "fence")
     \/ RenewFails(a, hand[a].gen) /\ EndHandover(a)
  /\ UNCHANGED <<lease, replica, target>>

(* Every attempt to move a resource begins with a renewal.                 *)
HFence(a) ==
  /\ hand[a].pc = "fence"
  /\ \/ RenewedFence(a, hand[a].gen) /\ HReach(a, "mutate") /\ UNCHANGED mutex
     \/ RenewFails(a, hand[a].gen) /\ HMoveFails(a)
  /\ UNCHANGED <<lease, replica, target>>

(* The lease is renewed while the mutation runs: a refused renewal cancels *)
(* it.  The identity is not fenced again after an error.                   *)
HMutate(a) ==
  LET g == hand[a].gen
      r == Moved[hand[a].i]
      moved == [target EXCEPT ![r] = hand[a].to]
      after(pc) == hand' = [hand EXCEPT ![a].pc = pc,
                              ![a].stray = @ \/ lease.owner \notin {a, NoAgent}] IN
  /\ hand[a].pc = "mutate"
  /\ \/ Applied(r, hand[a].to) /\ after("postfence")
     \/ /\ target' \in {target, moved}
        /\ (~ Holds(a, g) /\ NoFault) \/ Fault
        /\ after(IF r = EIP THEN "confirm" ELSE "postfence")
  /\ UNCHANGED <<lease, replica, mutex>>

HPostFence(a) ==
  LET g == hand[a].gen IN
  /\ hand[a].pc = "postfence"
  /\ \/ /\ FencePasses(a, g)
        /\ IF Moved[hand[a].i] = EIP
           THEN HNext(a, Moved, "fence", "check")
           ELSE HReach(a, "confirm") /\ UNCHANGED mutex
     \/ FenceFails(a, g) /\ HMoveFails(a)
  /\ UNCHANGED <<lease, replica, target>>

(* Read back; try again a few times, then give up.                         *)
HConfirm(a) ==
  LET moved == Described(Moved[hand[a].i], hand[a].to) IN
  /\ hand[a].pc = "confirm"
  /\ \/ moved /\ NoFault /\ HNext(a, Moved, "fence", "check")
     \/ /\ (~ moved /\ NoFault) \/ Fault
        /\ IF hand[a].try < MaxTries
           THEN /\ hand' = [hand EXCEPT ![a].pc = "fence", ![a].try = @ + 1]
                /\ UNCHANGED mutex
           ELSE HMoveFails(a)
  /\ UNCHANGED <<lease, replica, target>>

HCheck(a) ==
  LET moved == Described(MovedVerified[hand[a].i], hand[a].to) IN
  /\ hand[a].pc = "check"
  /\ \/ moved /\ NoFault /\ HNext(a, MovedVerified, "check", "renewBeforeTransfer")
     \/ ((~ moved /\ NoFault) \/ Fault) /\ HProceed(a, "revert")
  /\ UNCHANGED <<lease, replica, target>>

HRenewBeforeTransfer(a) ==
  /\ hand[a].pc = "renewBeforeTransfer"
  /\ \/ RenewedFence(a, hand[a].gen) /\ HReach(a, "transfer") /\ UNCHANGED mutex
     \/ RenewFails(a, hand[a].gen) /\ HProceed(a, "revert")
  /\ UNCHANGED <<lease, replica, target>>

(* An error, even of a transfer that took place, reverts.                  *)
HTransfer(a) ==
  LET g == hand[a].gen
      accepted == MayExtend(a, g) IN
  /\ hand[a].pc = "transfer"
  /\ \/ /\ accepted /\ g < MaxGen /\ Store(LeaseOf(hand[a].to, g + 1))
        /\ \/ NoFault /\ EndHandover(a)
           \/ Fault /\ HProceed(a, "revert")
     \/ /\ (~ accepted /\ NoFault) \/ Fault
        /\ HProceed(a, "revert")
        /\ UNCHANGED <<lease, replica>>
  /\ UNCHANGED target

HFenceRevert(a) ==
  /\ hand[a].pc = "fenceRevert"
  /\ \/ FencePasses(a, hand[a].gen) /\ HProceed(a, "revert")
     \/ FenceFails(a, hand[a].gen) /\ EndHandover(a)
  /\ UNCHANGED <<lease, replica, target>>

(* Everything back to a, without fences, up to the first error.            *)
HRevert(a) ==
  LET r == Owned[hand[a].i] IN
  /\ hand[a].pc = "revert"
  /\ \/ /\ Applied(r, a)
        /\ IF hand[a].i = Len(Owned)
           THEN EndHandover(a)
           ELSE hand' = [hand EXCEPT ![a].i = @ + 1] /\ UNCHANGED mutex
     \/ Failed(r, a) /\ EndHandover(a)
  /\ UNCHANGED <<lease, replica>>

Handover(a) ==
  /\ a \in up
  /\ \/ HVerify(a) \/ HLock(a) \/ HRenew(a) \/ HFence(a) \/ HMutate(a)
     \/ HPostFence(a) \/ HConfirm(a) \/ HCheck(a) \/ HRenewBeforeTransfer(a)
     \/ HTransfer(a) \/ HFenceRevert(a) \/ HRevert(a)
  /\ UNCHANGED <<up, sup, status, fresh>>
  /\ Remember(a)

(***************************************************************************)
(* The environment.                                                        *)
(***************************************************************************)

(* The lease runs out: because its owner is down, or stalls for too long.  *)
Expire ==
  /\ lease.live
  /\ lease' = [lease EXCEPT !.live = FALSE]
  /\ replica' = IF Mine(replica, lease.owner, lease.generation)
                THEN lease' ELSE replica
  /\ fresh' = fresh \ {lease.owner}
  /\ IF lease.owner \in up
     THEN used.stalls < MaxStalls[used.cloud] /\ used' = [used EXCEPT !.stalls = @ + 1]
     ELSE UNCHANGED used
  /\ UNCHANGED <<target, mutex, up, sup, hand, status, history>>

(* An older lease runs out, in the report of a or in the lagging replica.  *)
SnapshotExpires(a) ==
  /\ a \in fresh
  /\ ~ (lease.owner = a /\ lease.live)
  /\ fresh' = fresh \ {a}
  /\ UNCHANGED <<lease, replica, target, mutex, up, sup, hand, status, used, history>>

ReplicaExpires ==
  /\ replica.live
  /\ ~ Mine(replica, lease.owner, lease.generation)
  /\ replica' = [replica EXCEPT !.live = FALSE]
  /\ UNCHANGED <<lease, target, mutex, up, sup, hand, status, fresh, used, history>>

Converge ==
  /\ replica # lease
  /\ replica' = lease
  /\ UNCHANGED <<lease, target, mutex, up, sup, hand, status, fresh, used, history>>

Leave(a) ==
  /\ a \in up
  /\ used.crashes < MaxCrashes[used.cloud]
  /\ used' = [used EXCEPT !.crashes = @ + 1]
  /\ up' = up \ {a}
  /\ sup' = [sup EXCEPT ![a] = Idle]
  /\ hand' = [hand EXCEPT ![a] = NoHandover]
  /\ mutex' = [mutex EXCEPT ![a] = "free"]
  /\ status' = [status EXCEPT ![a] = "INIT"]
  /\ fresh' = fresh \ {a}
  /\ UNCHANGED target

Crash(a) == Leave(a) /\ UNCHANGED <<lease, replica, history>>

(* The supervisor ends between two steps: it releases what it owned last.  *)
Stop(a) ==
  /\ sup[a].pc = "idle"
  /\ Leave(a)
  /\ IF Mine(lease, a, sup[a].owned)
     THEN Store(NoLease) ELSE UNCHANGED <<lease, replica>>
  /\ Remember(a)

Restart(a) ==
  /\ a \notin up
  /\ up' = up \cup {a}
  /\ UNCHANGED <<lease, replica, target, mutex, sup, hand, status, fresh, used, history>>

Next ==
  \/ \E a \in Agents :
       \/ Supervise(a) \/ Handover(a)
       \/ \E b \in Agents : a \in up /\ StartHandover(a, b)
       \/ SnapshotExpires(a) \/ Crash(a) \/ Stop(a) \/ Restart(a)
  \/ Expire \/ ReplicaExpires \/ Converge

Spec == Init /\ [][Next]_vars

(* Running agents keep running their loops, time passes, replicas catch up.*)
Fairness ==
  /\ \A a \in Agents :
       /\ WF_vars(Supervise(a))
       /\ WF_vars(Handover(a))
       /\ WF_vars(SnapshotExpires(a))
  /\ WF_vars(lease.owner \notin up /\ Expire)
  /\ WF_vars(ReplicaExpires)
  /\ WF_vars(Converge)

FairSpec == Spec /\ Fairness

(***************************************************************************)
(* Properties.                                                             *)
(***************************************************************************)

SupervisorPcs ==
  {"idle", "renew", "acquire", "verify", "lock", "reverify", "describe",
   "fence", "mutate", "postfence", "confirm", "check", "final", "abort"}
HandoverPcs ==
  {"idle", "verify", "lock", "renew", "fence", "mutate", "postfence", "confirm",
   "check", "renewBeforeTransfer", "transfer", "fenceRevert", "revert"}

Leases == [owner : Agents, generation : 1 .. MaxGen, live : BOOLEAN]
            \cup {NoLease}

(* Every variable has its type.                                            *)
TypeOK ==
  /\ lease \in Leases
  /\ replica \in Leases
  /\ target \in [Resources -> Agents \cup {NoAgent}]
  /\ mutex \in [Agents -> {"free", "sup", "hand"}]
  /\ up \subseteq Agents
  /\ fresh \subseteq Agents
  /\ sup \in [Agents ->
       [pc : SupervisorPcs, mode : {"repair", "activate"}, i : 1 .. Len(Owned),
        gen : 0 .. MaxGen, owned : 0 .. MaxGen, stray : BOOLEAN]]
  /\ hand \in [Agents ->
       [pc : HandoverPcs, to : Agents \cup {NoAgent}, i : 1 .. Len(Owned),
        try : 1 .. MaxTries, gen : 0 .. MaxGen, stray : BOOLEAN]]
  /\ status \in [Agents ->
       {"INIT", "STANDBY", "TAKING_OVER", "ACTIVE", "DEGRADED"}]
  /\ used \in [cloud : Clouds, faults : Nat, stalls : Nat, crashes : Nat,
               handovers : 0 .. MaxHandovers]
  /\ released \in BOOLEAN
  /\ strayed \subseteq Resources

(* The fences around each mutation bound the damage of a lost lease to     *)
(* the mutation in flight: an agent that has mutated the cloud after the   *)
(* lease changed hands does not start another planned mutation.            *)
FenceBoundsStrayMutations ==
  \A a \in Agents :
    /\ ~ (sup[a].pc = "mutate" /\ sup[a].stray)
    /\ ~ (hand[a].pc = "mutate" /\ hand[a].stray)

(* Release deletes the record and with it the generation, which the fences *)
(* may then meet a second time.  Until that happens, however often leases  *)
(* are lost, a stray mutation is the last of its step or its handover.     *)
FenceBoundsLosses ==
  ~ EventualReads /\ ~ released => FenceBoundsStrayMutations

(* r points to b, unless an agent without the lease has moved it away.     *)
Points(r, b) == target[r] = b \/ r \in strayed

(* The step of a handover of a that gives the lease away leaves everything *)
(* it moves pointing to its target.                                        *)
TransferFollows(a) ==
  hand[a].pc = "transfer" /\ Handover(a) /\ lease' # lease =>
    \A i \in 1 .. Len(Moved) : Points(Moved[i], hand[a].to)

(* A handover gives the lease away only when everything it moves points to *)
(* its target: on GCP the routes only, on AWS the identity as well.        *)
LeaseFollowsTraffic == [][~ released => \A a \in Agents : TransferFollows(a)]_vars

(* The step of a takeover of a that reports ACTIVE.                        *)
Activates(a) ==
  sup[a].pc = "final" /\ sup[a].mode = "activate" /\ status'[a] = "ACTIVE"

(* A takeover that reports ACTIVE while the lease is still its own has the *)
(* identity and every route, whatever happened meanwhile.                  *)
ActiveHasTraffic ==
  [][\A a \in Agents :
       ~ released /\ Activates(a) /\ Mine(lease, a, sup[a].gen) =>
         \A r \in Resources : Points(r, a)]_vars

(* Without handovers, and as long as no owner stalled past its lease (with *)
(* a mutation of its own still in flight), nobody interferes: a takeover   *)
(* that reports ACTIVE owns the identity and every route.                  *)
TakeoverIsComplete ==
  [][\A a \in Agents :
       used.stalls = 0 /\ used.handovers = 0 /\ Activates(a) =>
         \A r \in Resources : target[r] = a]_vars

(* The steps of one process that run under its ownership lock.             *)
SupervisorLocked(a) ==
  \/ sup[a].pc \in {"reverify", "describe", "fence", "mutate", "postfence",
                    "confirm", "check"}
  \/ sup[a].pc = "final" /\ sup[a].mode = "activate"
HandoverLocked(a) ==
  hand[a].pc \in {"renew", "fence", "mutate", "postfence", "confirm", "check",
                  "renewBeforeTransfer", "transfer", "fenceRevert", "revert"}

(* A process never mutates the cloud from its supervisor and from a        *)
(* handover, or a revert, at the same time.                                *)
OneMutatorPerProcess ==
  \A a \in Agents :
    ~ (sup[a].pc = "mutate" /\ hand[a].pc \in {"mutate", "revert"})

(* An agent whose lease has gone to another one does not revert a handover.*)
RevertNeedsLease ==
  [][\A a \in Agents :
       hand[a].pc # "revert" /\ hand'[a].pc = "revert" =>
         lease.owner \in {a, NoAgent}]_vars

(* While a lease is live, nobody but its owner ends it or passes it on:    *)
(* not a takeover, a release or a transfer of an agent that still acts on  *)
(* an old or a lagging record.                                             *)
LiveLeaseIsTheOwners ==
  [][\A a \in Agents :
       lease.owner = a /\ lease.live =>
         \/ Mine(lease', a, lease.generation)
         \/ Supervise(a) \/ Handover(a) \/ Stop(a)]_vars

Settled(a) ==
  /\ a \in up
  /\ Mine(lease, a, lease.generation) /\ lease.live
  /\ \A r \in Resources : target[r] = a
  /\ status[a] = "ACTIVE"
  /\ \A b \in up \ {a} : status[b] = "STANDBY"

(* Whatever failed before: as long as some agent runs, one agent ends up   *)
(* with the lease, the identity and the routes, and the others stand by.   *)
Converges ==
  (\E a \in Agents : <>[](a \in up)) => <>(\E a \in Agents : []Settled(a))
=============================================================================

------------------------------- MODULE Lease -------------------------------
(***************************************************************************)
(* The HA lease of one gateway group and the agents that compete for it:   *)
(* lease.Manager as implemented by the DynamoDB backend (conditional       *)
(* writes, eventually consistent GetItem), by the Firestore backend        *)
(* (transactions, a clock skew allowance) and by lease.MemoryManager.      *)
(*                                                                         *)
(* One tick is one second, the resolution of the stored expiry.  Every     *)
(* agent decides by its own clock; clocks differ by at most MaxSkew.       *)
(* held[a] is what the last store call of a returned: the record that      *)
(* entitles a to act until its expiry, by a's clock.  A call that fails,   *)
(* or whose answer is lost, entitles to nothing.                           *)
(***************************************************************************)
EXTENDS Integers, FiniteSets

CONSTANTS
  Agents,     \* the agents (instance ids) of one HA group
  NoAgent,    \* the owner of a record that does not exist
  Backend,    \* "dynamodb", "firestore" or "memory"
  TTL,        \* lease time to live, in ticks
  MaxSkew,    \* bound on the difference between two agents' clocks
  MaxTime,    \* bound: clocks stop here
  MaxGen,     \* bound: the greatest generation (MaxInt64 in the code)
  MaxLate     \* bound: Release requests still under way after their caller left

ASSUME AgentsAssumption == NoAgent \notin Agents
ASSUME BackendAssumption == Backend \in {"dynamodb", "firestore", "memory"}
ASSUME NatAssumption ==
  /\ TTL \in Nat \ {0}
  /\ {MaxSkew, MaxTime, MaxGen, MaxLate} \subseteq Nat

VARIABLES
  lease,   \* the stored record, NoLease when there is none
  replica, \* what a replica that lags behind shows, for DynamoDB's reads
  clock,   \* each agent's clock
  held,    \* each agent's record in hand
  late     \* Release requests that will reach the store later

vars == <<lease, replica, clock, held, late>>

(***************************************************************************)
(* Differences between the backends.                                       *)
(***************************************************************************)

(* Ticks past its expiry before another owner may take a lease:            *)
(* expires_at < :now in DynamoDB, a 2 s allowance in Firestore.            *)
TakeoverGrace == [dynamodb |-> 1, firestore |-> 2, memory |-> 0][Backend]

(* Ticks past its expiry during which its owner may still renew a lease.   *)
RenewGrace == IF Backend = "firestore" THEN 2 ELSE 0

(* Current is a GetItem without ConsistentRead in DynamoDB.                *)
ConsistentReads == Backend # "dynamodb"

-----------------------------------------------------------------------------
Record == [owner : Agents, generation : Nat, expires : Nat]
NoLease == [owner |-> NoAgent, generation |-> 0, expires |-> 0]

SameOwnerAndGeneration(l, r) ==
  l.owner = r.owner /\ l.generation = r.generation

(* Faulty variants, here and below, show that the properties can fail.     *)
MayAcquireTooEarly(a) ==
  \/ lease.owner \in {NoAgent, a}
  \/ clock[a] >= lease.expires + TakeoverGrace - 1

MayAcquireAnytime(a) == TRUE

MayAcquire(a) ==
  \/ lease.owner \in {NoAgent, a}
  \/ clock[a] >= lease.expires + TakeoverGrace

MayExtendUnfenced(a) == clock[a] < lease.expires + RenewGrace

MayExtend(a) ==
  /\ SameOwnerAndGeneration(lease, held[a])
  /\ clock[a] < lease.expires + RenewGrace

Grant(a, to, generation) ==
  [owner |-> to, generation |-> generation, expires |-> clock[a] + TTL]

(* Replace the stored record; with eventually consistent reads a replica   *)
(* shows an older one for a while.                                         *)
Store(l) ==
  /\ lease' = l
  /\ replica' = IF ConsistentReads THEN l ELSE replica

Keep(a, r) == held' = [held EXCEPT ![a] = r]

Init ==
  /\ lease = NoLease
  /\ replica = NoLease
  /\ clock = [a \in Agents |-> 0]
  /\ held = [a \in Agents |-> NoLease]
  /\ late = {}

(***************************************************************************)
(* The manager's calls.  answered = FALSE: the write is applied, the       *)
(* caller gets an error.                                                   *)
(***************************************************************************)

Acquire(a, answered) ==
  /\ MayAcquire(a)
  /\ lease.generation < MaxGen
  /\ Store(Grant(a, a, lease.generation + 1))
  /\ Keep(a, IF answered THEN lease' ELSE NoLease)
  /\ UNCHANGED <<clock, late>>

Renew(a, answered) ==
  /\ held[a] # NoLease
  /\ MayExtend(a)
  /\ Store(Grant(a, a, lease.generation))
  /\ Keep(a, IF answered THEN lease' ELSE NoLease)
  /\ UNCHANGED <<clock, late>>

(* The caller does not use its record after Transfer, whatever it answers. *)
Transfer(a, to) ==
  /\ held[a] # NoLease
  /\ to # a
  /\ MayExtend(a)
  /\ lease.generation < MaxGen
  /\ Store(Grant(a, to, lease.generation + 1))
  /\ Keep(a, NoLease)
  /\ UNCHANGED <<clock, late>>

ReleaseLeavesRecord(a) ==
  /\ held[a] # NoLease
  /\ SameOwnerAndGeneration(lease, held[a])
  /\ Store([lease EXCEPT !.owner = NoAgent])
  /\ Keep(a, NoLease)
  /\ UNCHANGED <<clock, late>>

(* Release deletes the record, and its generation with it.                 *)
Release(a) ==
  /\ held[a] # NoLease
  /\ SameOwnerAndGeneration(lease, held[a])
  /\ Store(NoLease)
  /\ Keep(a, NoLease)
  /\ UNCHANGED <<clock, late>>

(* A Release whose caller stopped waiting, or whose first transmission     *)
(* was retried, is still under way.                                        *)
ReleaseDelayed(a) ==
  /\ held[a] # NoLease
  /\ Cardinality(late) < MaxLate
  /\ late' = late \cup {held[a]}
  /\ \/ /\ SameOwnerAndGeneration(lease, held[a])
        /\ Store(NoLease)
     \/ UNCHANGED <<lease, replica>>
  /\ Keep(a, NoLease)
  /\ UNCHANGED clock

ReleaseArrives(r) ==
  /\ r \in late
  /\ late' = late \ {r}
  /\ IF SameOwnerAndGeneration(lease, r)
     THEN Store(NoLease)
     ELSE UNCHANGED <<lease, replica>>
  /\ UNCHANGED <<clock, held>>

(* Current; a record of another owner entitles to nothing.                 *)
Current(a) ==
  /\ \E l \in {lease, replica} : Keep(a, IF l.owner = a THEN l ELSE NoLease)
  /\ UNCHANGED <<lease, replica, clock, late>>

(* A denied or failed call, or a crash: nothing in hand.                   *)
Drop(a) ==
  /\ Keep(a, NoLease)
  /\ UNCHANGED <<lease, replica, clock, late>>

(* The lagging replica catches up.                                         *)
Converge ==
  /\ replica' = lease
  /\ UNCHANGED <<lease, clock, held, late>>

(* The seconds pass, not at the same moment for every clock.               *)
Tick(S) ==
  /\ \A a \in S : clock[a] < MaxTime
  /\ clock' = [a \in Agents |-> IF a \in S THEN clock[a] + 1 ELSE clock[a]]
  /\ \A a, b \in Agents : clock'[a] <= clock'[b] + MaxSkew
  /\ UNCHANGED <<lease, replica, held, late>>

Next ==
  \/ \E a \in Agents :
       \/ \E answered \in BOOLEAN : Acquire(a, answered) \/ Renew(a, answered)
       \/ \E to \in Agents : Transfer(a, to)
       \/ Release(a) \/ ReleaseDelayed(a) \/ Current(a) \/ Drop(a)
  \/ \E r \in late : ReleaseArrives(r)
  \/ Converge
  \/ \E S \in SUBSET Agents \ {{}} : Tick(S)

Spec == Init /\ [][Next]_vars

(***************************************************************************)
(* Properties.                                                             *)
(***************************************************************************)

(* What VerifyLease asks of the record it has read: it is the agent's own  *)
(* and not yet expired by the agent's clock.                               *)
Authorised(a) == held[a].owner = a /\ clock[a] < held[a].expires

(* Every variable has its type, and clocks differ by at most MaxSkew.      *)
TypeOK ==
  /\ lease \in Record \cup {NoLease}
  /\ replica \in Record \cup {NoLease}
  /\ clock \in [Agents -> 0 .. MaxTime]
  /\ held \in [Agents -> Record \cup {NoLease}]
  /\ late \subseteq Record
  /\ \A a, b \in Agents : clock[a] <= clock[b] + MaxSkew

(* Two agents are never authorised at once, so no two agents pass the      *)
(* lease fence of the controller in the same period.                       *)
MutualExclusion ==
  \A a, b \in Agents : Authorised(a) /\ Authorised(b) => a = b

(* With consistent reads and no late Release: whoever is authorised has    *)
(* the stored record in hand.  The inductive invariant of the proofs.      *)
HeldIsCurrent ==
  /\ late = {}
  /\ replica = lease
  /\ \A a \in Agents :
       /\ held[a] = NoLease \/ held[a].owner = a
       /\ Authorised(a) => held[a] = lease

(* The lease in the store is the grant a has in hand and is entitled by.   *)
Secure(a) == Authorised(a) /\ SameOwnerAndGeneration(lease, held[a])

(* A lease is never taken from an agent that is authorised by it: the      *)
(* conditional write of a takeover waits out the owner's expiry, by the    *)
(* owner's clock.  Only a Release or Transfer of its own ends it earlier,  *)
(* even if it arrives late.                                                *)
TakeoverWaitsForOwner ==
  [][\A a \in Agents :
       Secure(a) /\ Authorised(a)' =>
         lease'.owner = a \/ \E r \in late : r.owner = a]_vars

(* The manager keeps the contract its callers are written against.         *)
Contract == INSTANCE LeaseContract WITH
  holder <- lease.owner,
  authorised <- {a \in Agents : Authorised(a)}
ImplementsContract == Contract!Spec
=============================================================================

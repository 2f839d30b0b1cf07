---------------------------- MODULE LeaseProofs ----------------------------
(***************************************************************************)
(* Proofs about Lease, for any number of agents and any bounds.            *)
(***************************************************************************)
EXTENDS Lease, FiniteSetTheorems, TLAPS

(* Every record and clock keeps its type, in every backend.                *)
THEOREM TypeCorrect == Spec => []TypeOK
<1>1. Init => TypeOK
  BY NatAssumption DEF Init, TypeOK, Record, NoLease
<1>2. TypeOK /\ [Next]_vars => TypeOK'
  <2> SUFFICES ASSUME TypeOK, [Next]_vars PROVE TypeOK'
    OBVIOUS
  <2> USE NatAssumption, AgentsAssumption
  <2>0. /\ TakeoverGrace \in Nat
        /\ RenewGrace \in Nat
    BY BackendAssumption DEF TakeoverGrace, RenewGrace
  <2>1. ASSUME NEW a \in Agents, NEW answered \in BOOLEAN, Acquire(a, answered)
        PROVE  TypeOK'
    <3>1. lease' \in Record
      BY <2>1 DEF Acquire, Store, Grant, TypeOK, Record, NoLease
    <3> QED BY <2>1, <3>1 DEF Acquire, Store, Keep, TypeOK
  <2>2. ASSUME NEW a \in Agents, NEW answered \in BOOLEAN, Renew(a, answered)
        PROVE  TypeOK'
    <3>1. lease' \in Record
      BY <2>2 DEF Renew, Store, Grant, TypeOK, Record, NoLease
    <3> QED BY <2>2, <3>1 DEF Renew, Store, Keep, TypeOK
  <2>3. ASSUME NEW a \in Agents, NEW to \in Agents, Transfer(a, to)
        PROVE  TypeOK'
    <3>1. lease' \in Record
      BY <2>3 DEF Transfer, Store, Grant, TypeOK, Record, NoLease
    <3> QED BY <2>3, <3>1 DEF Transfer, Store, Keep, TypeOK
  <2>4. ASSUME NEW a \in Agents, Release(a)
        PROVE  TypeOK'
    BY <2>4 DEF Release, Store, Keep, TypeOK
  <2>5. ASSUME NEW a \in Agents, ReleaseDelayed(a)
        PROVE  TypeOK'
    BY <2>5 DEF ReleaseDelayed, Store, Keep, TypeOK
  <2>6. ASSUME NEW a \in Agents, Current(a)
        PROVE  TypeOK'
    BY <2>6 DEF Current, Keep, TypeOK
  <2>7. ASSUME NEW a \in Agents, Drop(a)
        PROVE  TypeOK'
    BY <2>7 DEF Drop, Keep, TypeOK
  <2>8. ASSUME NEW r \in late, ReleaseArrives(r)
        PROVE  TypeOK'
    BY <2>8 DEF ReleaseArrives, Store, TypeOK
  <2>9. CASE Converge
    BY <2>9 DEF Converge, TypeOK
  <2>10. ASSUME NEW S \in SUBSET Agents, Tick(S)
         PROVE  TypeOK'
    BY <2>10 DEF Tick, TypeOK
  <2>11. CASE UNCHANGED vars
    BY <2>11 DEF vars, TypeOK
  <2> QED
    BY <2>1, <2>2, <2>3, <2>4, <2>5, <2>6, <2>7, <2>8, <2>9, <2>10, <2>11
    DEF Next
<1> QED
  BY <1>1, <1>2, PTL DEF Spec

-----------------------------------------------------------------------------
(***************************************************************************)
(* Mutual exclusion holds where reads are consistent, no Release is late   *)
(* and clocks agree within the grace a takeover leaves the owner.          *)
(***************************************************************************)
FenceAssumptions ==
  /\ ConsistentReads
  /\ MaxLate = 0
  /\ MaxSkew <= TakeoverGrace

IInv == TypeOK /\ HeldIsCurrent

LEMMA GraceType == TakeoverGrace \in Nat /\ RenewGrace \in Nat
BY BackendAssumption DEF TakeoverGrace, RenewGrace

(* An agent gets the lease only when nobody else is authorised.            *)
LEMMA AcquireFindsNobodyElse ==
  ASSUME FenceAssumptions, IInv, NEW a \in Agents, MayAcquire(a),
         NEW b \in Agents, Authorised(b)
  PROVE  a = b
<1>1. held[b] = lease /\ lease.owner = b
  BY DEF IInv, HeldIsCurrent, Authorised
<1>2. CASE lease.owner \in {NoAgent, a}
  BY <1>1, <1>2, AgentsAssumption
<1>3. CASE clock[a] >= lease.expires + TakeoverGrace
  <2>1. clock[b] < lease.expires
    BY <1>1 DEF Authorised
  <2>2. clock[a] <= clock[b] + MaxSkew
    BY DEF IInv, TypeOK
  <2>3. lease.expires \in Nat /\ clock[a] \in Nat /\ clock[b] \in Nat
    BY NatAssumption DEF IInv, TypeOK, Record, NoLease
  <2> QED
    BY <1>3, <2>1, <2>2, <2>3, GraceType, NatAssumption DEF FenceAssumptions
<1> QED
  BY <1>2, <1>3 DEF MayAcquire

(* Only the stored owner can renew, transfer or release, and nobody else   *)
(* is authorised then.                                                     *)
LEMMA OwnerIsAlone ==
  ASSUME IInv, NEW a \in Agents, held[a] # NoLease,
         SameOwnerAndGeneration(lease, held[a]),
         NEW b \in Agents, Authorised(b)
  PROVE  a = b /\ lease.owner = a
<1>1. held[a].owner = a
  BY DEF IInv, HeldIsCurrent
<1>2. held[b] = lease /\ lease.owner = b
  BY DEF IInv, HeldIsCurrent, Authorised
<1> QED
  BY <1>1, <1>2 DEF SameOwnerAndGeneration

(* A store call of a that answers with the new record, or with nothing,    *)
(* keeps the invariant when nobody else was authorised.                    *)
LEMMA OwnWriteKeeps ==
  ASSUME IInv, NEW a \in Agents,
         \A b \in Agents : Authorised(b) => a = b,
         NEW r, r = NoLease \/ r = lease',
         lease' = NoLease \/ lease'.owner = a \/ r = NoLease,
         replica' = lease', clock' = clock, late' = {},
         held' = [held EXCEPT ![a] = r]
  PROVE  HeldIsCurrent'
<1> SUFFICES ASSUME NEW b \in Agents
             PROVE  /\ held'[b] = NoLease \/ held'[b].owner = b
                    /\ Authorised(b)' => held'[b] = lease'
  BY DEF HeldIsCurrent
<1>1. NoLease.owner # b
  BY AgentsAssumption DEF NoLease
<1>2. held' \in [Agents -> {held[x] : x \in Agents} \cup {r}] /\ held'[a] = r
  BY DEF IInv, TypeOK
<1>3. CASE b = a
  BY <1>1, <1>2, <1>3 DEF Authorised
<1>4. CASE b # a
  <2>1. held'[b] = held[b]
    BY <1>4 DEF IInv, TypeOK
  <2> QED
    BY <1>4, <2>1 DEF IInv, HeldIsCurrent, Authorised
<1> QED
  BY <1>3, <1>4

(* Forgetting the record in hand, or reading the stored one, keeps it.     *)
LEMMA OwnReadKeeps ==
  ASSUME IInv, NEW a \in Agents,
         NEW r, r = NoLease \/ (r = lease /\ lease.owner = a),
         UNCHANGED <<lease, replica, clock, late>>,
         held' = [held EXCEPT ![a] = r]
  PROVE  HeldIsCurrent'
<1> SUFFICES ASSUME NEW b \in Agents
             PROVE  /\ held'[b] = NoLease \/ held'[b].owner = b
                    /\ Authorised(b)' => held'[b] = lease'
  BY DEF IInv, HeldIsCurrent
<1>1. NoLease.owner # b
  BY AgentsAssumption DEF NoLease
<1>2. held'[b] = IF b = a THEN r ELSE held[b]
  BY DEF IInv, TypeOK
<1> QED
  BY <1>1, <1>2 DEF IInv, HeldIsCurrent, Authorised

LEMMA InvariantStep ==
  ASSUME FenceAssumptions, IInv, TypeOK', [Next]_vars
  PROVE  IInv'
<1> SUFFICES HeldIsCurrent'
  BY DEF IInv
<1>0. late = {} /\ replica = lease
  BY DEF IInv, HeldIsCurrent
<1>1. ASSUME NEW a \in Agents, NEW answered \in BOOLEAN, Acquire(a, answered)
      PROVE  HeldIsCurrent'
  <2>1. \A b \in Agents : Authorised(b) => a = b
    BY <1>1, AcquireFindsNobodyElse DEF Acquire
  <2>2. lease'.owner = a
    BY <1>1 DEF Acquire, Store, Grant
  <2> QED
    BY <1>0, <1>1, <2>1, <2>2, OwnWriteKeeps
    DEF Acquire, Store, Keep, FenceAssumptions
<1>2. ASSUME NEW a \in Agents, NEW answered \in BOOLEAN, Renew(a, answered)
      PROVE  HeldIsCurrent'
  <2>1. \A b \in Agents : Authorised(b) => a = b
    BY <1>2, OwnerIsAlone DEF Renew, MayExtend
  <2>2. lease'.owner = a
    BY <1>2 DEF Renew, Store, Grant
  <2> QED
    BY <1>0, <1>2, <2>1, <2>2, OwnWriteKeeps
    DEF Renew, Store, Keep, FenceAssumptions
<1>3. ASSUME NEW a \in Agents, NEW to \in Agents, Transfer(a, to)
      PROVE  HeldIsCurrent'
  <2>1. \A b \in Agents : Authorised(b) => a = b
    BY <1>3, OwnerIsAlone DEF Transfer, MayExtend
  <2> QED
    BY <1>0, <1>3, <2>1, OwnWriteKeeps
    DEF Transfer, Store, Keep, FenceAssumptions
<1>4. ASSUME NEW a \in Agents, Release(a)
      PROVE  HeldIsCurrent'
  <2>1. \A b \in Agents : Authorised(b) => a = b
    BY <1>4, OwnerIsAlone DEF Release
  <2> QED
    BY <1>0, <1>4, <2>1, OwnWriteKeeps
    DEF Release, Store, Keep, FenceAssumptions
<1>5. ASSUME NEW a \in Agents, ReleaseDelayed(a)
      PROVE  HeldIsCurrent'
  <2>1. Cardinality(late) = 0
    BY <1>0, FS_EmptySet
  <2> QED
    BY <1>5, <2>1 DEF ReleaseDelayed, FenceAssumptions
<1>6. ASSUME NEW a \in Agents, Current(a)
      PROVE  HeldIsCurrent'
  BY <1>0, <1>6, OwnReadKeeps DEF Current, Keep
<1>7. ASSUME NEW a \in Agents, Drop(a)
      PROVE  HeldIsCurrent'
  BY <1>7, OwnReadKeeps DEF Drop, Keep
<1>8. ASSUME NEW r \in late, ReleaseArrives(r)
      PROVE  HeldIsCurrent'
  BY <1>0, <1>8
<1>9. CASE Converge
  BY <1>9 DEF Converge, IInv, HeldIsCurrent, Authorised
<1>10. ASSUME NEW S \in SUBSET Agents, Tick(S)
       PROVE  HeldIsCurrent'
  <2>1. \A a \in Agents : Authorised(a)' => Authorised(a)
    <3> SUFFICES ASSUME NEW a \in Agents, Authorised(a)' PROVE Authorised(a)
      OBVIOUS
    <3>1. clock'[a] >= clock[a] /\ clock[a] \in Nat /\ clock'[a] \in Nat
      BY <1>10, NatAssumption DEF Tick, IInv, TypeOK
    <3>2. held[a].expires \in Nat
      BY DEF IInv, TypeOK, Record, NoLease
    <3> QED
      BY <1>10, <3>1, <3>2 DEF Tick, Authorised
  <2> QED
    BY <1>10, <2>1 DEF Tick, IInv, HeldIsCurrent
<1>11. CASE UNCHANGED vars
  BY <1>11 DEF vars, IInv, HeldIsCurrent, Authorised
<1> QED
  BY <1>1, <1>2, <1>3, <1>4, <1>5, <1>6, <1>7, <1>8, <1>9, <1>10, <1>11
  DEF Next

LEMMA InvariantHolds == ASSUME FenceAssumptions PROVE Spec => []IInv
<1>1. Init => HeldIsCurrent
  <2> SUFFICES ASSUME Init PROVE HeldIsCurrent
    OBVIOUS
  <2>1. \A a \in Agents : ~ Authorised(a)
    BY AgentsAssumption DEF Init, Authorised, NoLease
  <2> QED
    BY <2>1 DEF Init, HeldIsCurrent
<1>2. TypeOK /\ HeldIsCurrent /\ TypeOK' /\ [Next]_vars => HeldIsCurrent'
  BY InvariantStep DEF IInv
<1>3. Spec => []HeldIsCurrent
  BY <1>1, <1>2, TypeCorrect, PTL DEF Spec
<1> QED
  BY <1>3, TypeCorrect, PTL DEF IInv

(* Under the same assumptions the answer an agent goes by is the record    *)
(* that the store has, as long as it is authorised by it.                  *)
THEOREM AuthorisedHoldsRecord ==
  ASSUME FenceAssumptions PROVE Spec => []HeldIsCurrent
BY InvariantHolds, PTL DEF IInv

(* At most one agent is entitled to act on the lease, for every number of  *)
(* agents, time to live and clock skew within the takeover grace.          *)
THEOREM LeaseMutualExclusion ==
  ASSUME FenceAssumptions PROVE Spec => []MutualExclusion
<1>1. IInv => MutualExclusion
  <2> SUFFICES ASSUME IInv, NEW a \in Agents, NEW b \in Agents,
                      Authorised(a), Authorised(b)
               PROVE  a = b
    BY DEF MutualExclusion
  <2> QED
    BY DEF IInv, HeldIsCurrent, Authorised
<1> QED
  BY <1>1, InvariantHolds, PTL

-----------------------------------------------------------------------------
(***************************************************************************)
(* Every step of the manager is a step of the contract.                    *)
(***************************************************************************)

(* The agents the contract calls authorised.                               *)
Entitled == {a \in Agents : Authorised(a)}

LEMMA StepImplementsContract ==
  ASSUME FenceAssumptions, IInv, IInv', [Next]_vars
  PROVE  [Contract!Next]_<<lease.owner, Entitled>>
<1> USE DEF Entitled
<1>0. /\ late = {} /\ late' = {}
      /\ \A a \in Agents : Authorised(a) => held[a] = lease /\ lease.owner = a
      /\ \A a \in Agents : Authorised(a)' => held'[a] = lease' /\ lease'.owner = a
  BY DEF IInv, HeldIsCurrent, Authorised
<1>1. ASSUME NEW a \in Agents, NEW answered \in BOOLEAN, Acquire(a, answered)
      PROVE  Contract!Next
  <2>1. lease'.owner = a
    BY <1>1 DEF Acquire, Store, Grant
  <2>2. Entitled' \in {{}, {a}}
    BY <1>0, <2>1
  <2>3. lease.owner \in {NoAgent, a} \/ Entitled = {}
    <3>1. \A b \in Agents : Authorised(b) => a = b
      BY <1>1, AcquireFindsNobodyElse DEF Acquire
    <3> QED
      BY <1>0, <3>1
  <2> QED
    BY <2>1, <2>2, <2>3 DEF Contract!Next, Contract!Grant
<1>2. ASSUME NEW a \in Agents, NEW answered \in BOOLEAN, Renew(a, answered)
      PROVE  Contract!Next
  <2>1. lease'.owner = a
    BY <1>2 DEF Renew, Store, Grant
  <2>2. lease.owner = a
    BY <1>2 DEF Renew, MayExtend, SameOwnerAndGeneration, IInv, HeldIsCurrent
  <2>3. Entitled' \in {{}, {a}}
    BY <1>0, <2>1
  <2> QED
    BY <2>1, <2>2, <2>3 DEF Contract!Next, Contract!Grant
<1>3. ASSUME NEW a \in Agents, NEW to \in Agents, Transfer(a, to)
      PROVE  Contract!Next
  <2>1. lease'.owner = to /\ held'[a] = NoLease
    BY <1>3 DEF Transfer, Store, Grant, Keep, IInv, TypeOK
  <2>2. lease.owner = a
    BY <1>3 DEF Transfer, MayExtend, SameOwnerAndGeneration, IInv, HeldIsCurrent
  <2>3. \A b \in Agents : Authorised(b) => b = a
    BY <1>0, <2>2
  <2>4. ASSUME NEW b \in Agents, Authorised(b)' PROVE FALSE
    <3>1. CASE b = a
      BY <2>1, <2>4, <3>1, AgentsAssumption DEF Authorised, NoLease
    <3>2. CASE b # a
      BY <1>3, <2>3, <2>4, <3>2 DEF Transfer, Keep, Authorised, IInv, TypeOK
    <3> QED
      BY <3>1, <3>2
  <2> QED
    BY <2>1, <2>2, <2>4 DEF Contract!Next, Contract!Resign
<1>4. ASSUME NEW a \in Agents, Release(a)
      PROVE  Contract!Next
  <2>1. lease' = NoLease
    BY <1>4 DEF Release, Store
  <2>2. lease.owner = a
    BY <1>4 DEF Release, SameOwnerAndGeneration, IInv, HeldIsCurrent
  <2>3. \A b \in Agents : ~ Authorised(b)'
    BY <1>0, <2>1, AgentsAssumption DEF NoLease
  <2> QED
    BY <2>1, <2>2, <2>3 DEF Contract!Next, Contract!Resign, NoLease
<1>5. ASSUME NEW a \in Agents, ReleaseDelayed(a)
      PROVE  Contract!Next
  <2>1. Cardinality(late) = 0
    BY <1>0, FS_EmptySet
  <2> QED
    BY <1>5, <2>1 DEF ReleaseDelayed, FenceAssumptions
<1>6. ASSUME NEW a \in Agents, Current(a)
      PROVE  [Contract!Next]_<<lease.owner, Entitled>>
  <2>1. lease' = lease /\ clock' = clock
    BY <1>6 DEF Current
  <2>2. \A b \in Agents : b # a => held'[b] = held[b]
    BY <1>6 DEF Current, Keep, IInv, TypeOK
  <2>3. \A b \in Agents : b # a => (Authorised(b)' <=> Authorised(b))
    BY <2>1, <2>2 DEF Authorised
  <2>4. CASE Authorised(a)'
    <3>1. lease.owner = a
      BY <1>0, <2>1, <2>4
    <3>2. Entitled' = {a}
      BY <1>0, <2>1, <2>4, <3>1
    <3> QED
      BY <2>1, <3>1, <3>2 DEF Contract!Next, Contract!Confirm
  <2>5. CASE ~ Authorised(a)'
    <3>1. Entitled' \in SUBSET Entitled
      BY <2>3, <2>5
    <3> QED
      BY <2>1, <3>1 DEF Contract!Next, Contract!Lapse
  <2> QED
    BY <2>4, <2>5
<1>7. ASSUME NEW a \in Agents, Drop(a)
      PROVE  Contract!Next
  <2>1. Entitled' \in SUBSET Entitled
    <3> SUFFICES ASSUME NEW b \in Agents, Authorised(b)' PROVE Authorised(b)
      OBVIOUS
    <3>1. CASE b = a
      BY <1>7, <3>1, AgentsAssumption DEF Drop, Keep, Authorised, NoLease, IInv, TypeOK
    <3>2. CASE b # a
      BY <1>7, <3>2 DEF Drop, Keep, Authorised, IInv, TypeOK
    <3> QED
      BY <3>1, <3>2
  <2> QED
    BY <1>7, <2>1 DEF Drop, Contract!Next, Contract!Lapse
<1>8. ASSUME NEW r \in late, ReleaseArrives(r)
      PROVE  Contract!Next
  BY <1>0, <1>8
<1>9. CASE Converge
  BY <1>9 DEF Converge, Authorised
<1>10. ASSUME NEW S \in SUBSET Agents, Tick(S)
       PROVE  Contract!Next
  <2>1. Entitled' \in SUBSET Entitled
    <3> SUFFICES ASSUME NEW a \in Agents, Authorised(a)' PROVE Authorised(a)
      OBVIOUS
    <3>1. clock'[a] >= clock[a] /\ clock[a] \in Nat /\ clock'[a] \in Nat
      BY <1>10, NatAssumption DEF Tick, IInv, TypeOK
    <3>2. held[a].expires \in Nat
      BY DEF IInv, TypeOK, Record, NoLease
    <3> QED
      BY <1>10, <3>1, <3>2 DEF Tick, Authorised
  <2> QED
    BY <1>10, <2>1 DEF Tick, Contract!Next, Contract!Lapse
<1>11. CASE UNCHANGED vars
  BY <1>11 DEF vars, Authorised
<1> QED
  BY <1>1, <1>2, <1>3, <1>4, <1>5, <1>6, <1>7, <1>8, <1>9, <1>10, <1>11
  DEF Next

(* The lease manager implements the contract: the lease never passes from  *)
(* one agent to another while the first is still entitled by it.           *)
THEOREM LeaseImplementsContract ==
  ASSUME FenceAssumptions PROVE Spec => ImplementsContract
<1>1. Init => Contract!Init
  BY AgentsAssumption DEF Init, Contract!Init, Authorised, NoLease
<1>2. IInv /\ IInv' /\ [Next]_vars => [Contract!Next]_Contract!vars
  BY StepImplementsContract DEF Contract!vars, Entitled
<1> QED
  BY <1>1, <1>2, InvariantHolds, PTL DEF Spec, Contract!Spec, ImplementsContract

-----------------------------------------------------------------------------
(***************************************************************************)
(* With reads that lag and Releases that are late, and clocks that agree:  *)
(* the conditional writes alone never take a lease from its owner. A       *)
(* record anybody has been shown expires no later than a new grant would,  *)
(* and no later than the stored one if it is of the same grant.            *)
(***************************************************************************)
Granted(r) ==
  /\ \A a \in Agents : r.expires <= clock[a] + TTL
  /\ SameOwnerAndGeneration(lease, r) => r.expires <= lease.expires

WaitInv ==
  /\ TypeOK
  /\ Granted(lease) /\ Granted(replica)
  /\ \A a \in Agents : Granted(held[a]) /\ held[a].owner \in {NoAgent, a}

(* The same of a record and the next state.                                *)
StillGranted(r) ==
  /\ \A a \in Agents : r.expires <= clock'[a] + TTL
  /\ SameOwnerAndGeneration(lease', r) => r.expires <= lease'.expires

Records == Record \cup {NoLease}

LEMMA RecordTypes ==
  ASSUME TypeOK
  PROVE  /\ lease \in Records /\ replica \in Records
         /\ \A a \in Agents : held[a] \in Records /\ clock[a] \in Nat
         /\ \A r \in Records : r.expires \in Nat
         /\ \A r \in Record : r.owner # NoAgent
         /\ NoLease.expires = 0 /\ NoLease.owner = NoAgent /\ TTL \in Nat
BY NatAssumption, AgentsAssumption DEF TypeOK, Records, Record, NoLease

(* The absence of a record claims nothing.                                 *)
LEMMA NothingGranted == TypeOK => Granted(NoLease)
BY RecordTypes DEF Granted, SameOwnerAndGeneration

(* Clocks only go forward, so what was granted still is.                   *)
LEMMA GrantedStays ==
  ASSUME TypeOK, TypeOK', \A a \in Agents : clock'[a] >= clock[a], lease' = lease
  PROVE  \A r \in Records : Granted(r) => StillGranted(r)
<1> SUFFICES ASSUME NEW r \in Records, Granted(r) PROVE StillGranted(r)
  OBVIOUS
<1>1. r.expires \in Nat /\ \A a \in Agents : clock[a] \in Nat
  BY RecordTypes
<1>2. \A a \in Agents : clock'[a] \in Nat /\ TTL \in Nat
  BY NatAssumption DEF TypeOK
<1> QED
  BY <1>1, <1>2 DEF Granted, StillGranted

(* A new grant expires as late as any other could.                         *)
LEMMA GrantedAgain ==
  ASSUME MaxSkew = 0, TypeOK, NEW a \in Agents, NEW to \in Agents, NEW generation,
         lease' = Grant(a, to, generation), UNCHANGED clock
  PROVE  StillGranted(lease') /\ \A r \in Records : Granted(r) => StillGranted(r)
<1>1. lease'.expires = clock[a] + TTL /\ clock[a] \in Nat /\ TTL \in Nat
  BY RecordTypes DEF Grant
<1>2. \A b \in Agents : clock'[b] = clock[a]
  BY RecordTypes DEF TypeOK
<1> QED
  BY <1>1, <1>2 DEF Granted, StillGranted

(* After a Release there is no grant to be compared with.                  *)
LEMMA GrantedGone ==
  ASSUME TypeOK, lease' = NoLease, UNCHANGED clock
  PROVE  \A r \in Records : Granted(r) => StillGranted(r)
<1> SUFFICES ASSUME NEW r \in Records, Granted(r) PROVE StillGranted(r)
  OBVIOUS
<1>1. r = NoLease \/ r.owner # NoLease.owner
  BY RecordTypes DEF Records
<1> QED
  BY <1>1, RecordTypes DEF Granted, StillGranted, SameOwnerAndGeneration

(* What a step leaves in the store, in the replica and in hand was there   *)
(* before or is the new record.                                            *)
LEMMA WaitKept ==
  ASSUME WaitInv, TypeOK',
         \A r \in Records : Granted(r) => StillGranted(r),
         lease' \in {lease, NoLease} \/ StillGranted(lease'),
         replica' \in {replica, lease, lease'},
         \A b \in Agents : \/ held'[b] \in {held[b], NoLease}
                           \/ held'[b] \in {lease, replica, lease'} /\ held'[b].owner = b
  PROVE  WaitInv'
<1>1. StillGranted(lease) /\ StillGranted(replica) /\ StillGranted(NoLease)
  BY RecordTypes, NothingGranted DEF WaitInv, Records
<1>2. StillGranted(lease') /\ StillGranted(replica')
  BY <1>1
<1>3. ASSUME NEW b \in Agents
      PROVE  StillGranted(held'[b]) /\ held'[b].owner \in {NoAgent, b}
  <2>1. StillGranted(held[b]) /\ held[b].owner \in {NoAgent, b} /\ NoLease.owner = NoAgent
    BY RecordTypes DEF WaitInv
  <2> QED
    BY <1>1, <1>2, <2>1
<1> QED
  BY <1>2, <1>3 DEF WaitInv, Granted, StillGranted

LEMMA WaitInvStep ==
  ASSUME MaxSkew = 0, WaitInv, TypeOK', [Next]_vars
  PROVE  WaitInv'
<1>1. TypeOK
  BY DEF WaitInv
<1>2. ASSUME NEW a \in Agents, NEW r, Keep(a, r)
      PROVE  \A b \in Agents : held'[b] = IF b = a THEN r ELSE held[b]
  BY <1>1, <1>2 DEF Keep, TypeOK
<1>3. ASSUME NEW a \in Agents, NEW to \in Agents, NEW generation, NEW r,
             Store(Grant(a, to, generation)), UNCHANGED clock, Keep(a, r),
             r = NoLease \/ (r = lease' /\ to = a)
      PROVE  WaitInv'
  <2>1. lease' = Grant(a, to, generation) /\ lease'.owner = to /\ replica' \in {replica, lease'}
    BY <1>3 DEF Store, Grant
  <2> QED
    BY <1>1, <1>2, <1>3, <2>1, GrantedAgain, WaitKept
<1>4. ASSUME Store(NoLease), UNCHANGED clock,
             UNCHANGED held \/ \E a \in Agents : Keep(a, NoLease)
      PROVE  WaitInv'
  <2>1. lease' = NoLease /\ replica' \in {replica, lease'}
    BY <1>4 DEF Store
  <2>2. \A b \in Agents : held'[b] \in {held[b], NoLease}
    BY <1>2, <1>4
  <2> QED
    BY <1>1, <1>4, <2>1, <2>2, GrantedGone, WaitKept
<1>5. ASSUME lease' = lease, replica' \in {replica, lease},
             \A a \in Agents : clock'[a] >= clock[a],
             \A b \in Agents : \/ held'[b] \in {held[b], NoLease}
                               \/ held'[b] \in {lease, replica} /\ held'[b].owner = b
      PROVE  WaitInv'
  BY <1>1, <1>5, GrantedStays, WaitKept
<1>6. ASSUME UNCHANGED clock PROVE \A a \in Agents : clock'[a] >= clock[a]
  BY <1>6, <1>1, RecordTypes
<1>7. ASSUME NEW a \in Agents, NEW answered \in BOOLEAN, Acquire(a, answered) \/ Renew(a, answered)
      PROVE  WaitInv'
  <2>1. PICK generation : Store(Grant(a, a, generation))
    BY <1>7 DEF Acquire, Renew
  <2> QED
    BY <1>3, <1>7, <2>1 DEF Acquire, Renew
<1>8. ASSUME NEW a \in Agents, NEW to \in Agents, Transfer(a, to)
      PROVE  WaitInv'
  BY <1>3, <1>8 DEF Transfer
<1>9. ASSUME NEW a \in Agents, Release(a) PROVE WaitInv'
  BY <1>4, <1>9 DEF Release
<1>10. ASSUME NEW a \in Agents, ReleaseDelayed(a) PROVE WaitInv'
  <2>1. Keep(a, NoLease) /\ UNCHANGED clock
    BY <1>10 DEF ReleaseDelayed
  <2>2. CASE Store(NoLease)
    BY <1>4, <2>1, <2>2
  <2>3. CASE UNCHANGED <<lease, replica>>
    BY <1>2, <1>5, <1>6, <2>1, <2>3
  <2> QED
    BY <1>10, <2>2, <2>3 DEF ReleaseDelayed
<1>11. ASSUME NEW a \in Agents, Current(a) PROVE WaitInv'
  <2>1. PICK l \in {lease, replica} : Keep(a, IF l.owner = a THEN l ELSE NoLease)
    BY <1>11 DEF Current
  <2>2. UNCHANGED <<lease, replica, clock>>
    BY <1>11 DEF Current
  <2>3. \A b \in Agents : held'[b] = IF b = a THEN IF l.owner = a THEN l ELSE NoLease ELSE held[b]
    BY <1>2, <2>1
  <2> QED
    BY <1>5, <1>6, <2>2, <2>3
<1>12. ASSUME NEW a \in Agents, Drop(a) PROVE WaitInv'
  BY <1>2, <1>5, <1>6, <1>12 DEF Drop
<1>13. ASSUME NEW r \in late, ReleaseArrives(r) PROVE WaitInv'
  <2>1. UNCHANGED clock /\ UNCHANGED held
    BY <1>13 DEF ReleaseArrives
  <2>2. CASE Store(NoLease)
    BY <1>4, <2>1, <2>2
  <2>3. CASE UNCHANGED <<lease, replica>>
    BY <1>5, <1>6, <2>1, <2>3
  <2> QED
    BY <1>13, <2>2, <2>3 DEF ReleaseArrives
<1>14. CASE Converge
  BY <1>5, <1>6, <1>14 DEF Converge
<1>15. ASSUME NEW S \in SUBSET Agents, Tick(S) PROVE WaitInv'
  <2>1. \A a \in Agents : clock'[a] >= clock[a]
    <3>1. \A a \in Agents : clock[a] \in Nat
      BY <1>1, RecordTypes
    <3> QED
      BY <1>15, <3>1 DEF Tick
  <2> QED
    BY <1>5, <1>15, <2>1 DEF Tick
<1>16. CASE UNCHANGED vars
  BY <1>5, <1>6, <1>16 DEF vars
<1> QED
  BY <1>7, <1>8, <1>9, <1>10, <1>11, <1>12, <1>13, <1>14, <1>15, <1>16 DEF Next

LEMMA WaitInvHolds == ASSUME MaxSkew = 0 PROVE Spec => []WaitInv
<1>1. Init => Granted(lease) /\ Granted(replica)
              /\ \A a \in Agents : Granted(held[a]) /\ held[a].owner \in {NoAgent, a}
  BY NatAssumption DEF Init, Granted, NoLease, SameOwnerAndGeneration
<1>2. Init /\ TypeOK => WaitInv
  BY <1>1 DEF WaitInv
<1>3. WaitInv /\ TypeOK' /\ [Next]_vars => WaitInv'
  BY WaitInvStep
<1> QED
  BY <1>2, <1>3, TypeCorrect, PTL DEF Spec

(* When clocks agree, whoever ends the lease of an agent that may act by   *)
(* it is that agent, by a Release or Transfer, perhaps a late one: a write *)
(* conditioned on expires_at < :now waits for the expiry the owner has in  *)
(* hand, even if that was a stale read, and whatever the generations were  *)
(* used for before.                                                        *)
THEOREM TakeoverWaits == ASSUME MaxSkew = 0 PROVE Spec => TakeoverWaitsForOwner
<1>1. ASSUME WaitInv, [Next]_vars, NEW a \in Agents, Secure(a), Authorised(a)',
             lease'.owner # a, ~ \E r \in late : r.owner = a
      PROVE  FALSE
  <2>1. /\ lease.owner = a /\ held[a].owner = a /\ clock[a] < held[a].expires
        /\ held'[a].owner = a /\ held[a].expires <= lease.expires
    BY <1>1 DEF Secure, Authorised, WaitInv, Granted, SameOwnerAndGeneration
  <2>2. TypeOK /\ a # NoAgent /\ NoLease.owner = NoAgent /\ lease' # lease
    BY <1>1, <2>1, AgentsAssumption DEF WaitInv, NoLease
  <2>3. ASSUME NEW b \in Agents, b # a
        PROVE  ~ MayAcquire(b)
    <3>1. clock[b] = clock[a] /\ clock[a] \in Nat /\ held[a].expires \in Nat /\ lease.expires \in Nat
      BY <2>2, RecordTypes DEF TypeOK
    <3> QED
      BY <2>1, <2>2, <2>3, <3>1, GraceType DEF MayAcquire
  <2>4. \A b \in Agents : held[b] # NoLease /\ SameOwnerAndGeneration(lease, held[b]) => b = a
    BY <1>1, <2>1, <2>2 DEF WaitInv, SameOwnerAndGeneration
  <2>5. ASSUME NEW r, Keep(a, r) PROVE r.owner = a
    BY <2>1, <2>2, <2>5 DEF Keep, TypeOK
  <2>6. ASSUME NEW b \in Agents, NEW answered \in BOOLEAN, Acquire(b, answered) \/ Renew(b, answered)
        PROVE  FALSE
    <3>1. b = a
      BY <2>3, <2>4, <2>6 DEF Acquire, Renew, MayExtend
    <3> QED
      BY <1>1, <2>6, <3>1 DEF Acquire, Renew, Store, Grant
  <2>7. ASSUME NEW b \in Agents,
               Release(b) \/ ReleaseDelayed(b) \/ \E to \in Agents : Transfer(b, to)
        PROVE  FALSE
    <3>1. b = a
      BY <2>2, <2>4, <2>7 DEF Release, ReleaseDelayed, Transfer, MayExtend
    <3>2. Keep(a, NoLease)
      BY <2>7, <3>1 DEF Release, ReleaseDelayed, Transfer
    <3> QED
      BY <2>2, <2>5, <3>2
  <2>8. ASSUME NEW b \in Agents, Current(b) \/ Drop(b) PROVE FALSE
    BY <2>2, <2>8 DEF Current, Drop
  <2>9. ASSUME NEW r \in late, ReleaseArrives(r) PROVE FALSE
    BY <1>1, <2>1, <2>2, <2>9 DEF ReleaseArrives, SameOwnerAndGeneration
  <2>10. CASE Converge \/ UNCHANGED vars \/ \E S \in SUBSET Agents : Tick(S)
    BY <2>2, <2>10 DEF Converge, vars, Tick
  <2> QED
    BY <1>1, <2>6, <2>7, <2>8, <2>9, <2>10 DEF Next
<1>2. ASSUME WaitInv, [Next]_vars
      PROVE  [\A a \in Agents : Secure(a) /\ Authorised(a)' =>
                lease'.owner = a \/ \E r \in late : r.owner = a]_vars
  BY <1>1, <1>2
<1>3. Spec => [][Next]_vars
  BY DEF Spec
<1> QED
  BY <1>2, <1>3, WaitInvHolds, PTL DEF TakeoverWaitsForOwner
=============================================================================

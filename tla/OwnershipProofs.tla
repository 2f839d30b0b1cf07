-------------------------- MODULE OwnershipProofs --------------------------
(***************************************************************************)
(* Proofs about Ownership, for any number of agents, any route tables, any *)
(* bounds and every variant of the code.                                   *)
(***************************************************************************)
EXTENDS Ownership, SequenceTheorems, TLAPS

SupervisorState ==
  [pc : SupervisorPcs, mode : {"repair", "activate"}, i : Int,
   gen : Nat, owned : Nat, stray : BOOLEAN]
HandoverState ==
  [pc : HandoverPcs, to : Agents \cup {NoAgent}, i : Int, try : Int,
   gen : Nat, stray : BOOLEAN]
AnyLease ==
  [owner : Agents \cup {NoAgent}, generation : Nat, live : BOOLEAN]

(* What the proofs need of the types.                                      *)
LeaseShape ==
  /\ lease \in AnyLease
  /\ replica \in AnyLease
  /\ lease.live => lease.owner \in Agents
MutexShape == mutex \in [Agents -> {"free", "sup", "hand"}]
SupervisorShape == sup \in [Agents -> SupervisorState]
HandoverShape == hand \in [Agents -> HandoverState]

(* Whoever runs a locked step holds the lock.                              *)
LocksHeld ==
  \A a \in Agents :
    /\ SupervisorLocked(a) => mutex[a] = "sup"
    /\ HandoverLocked(a) => mutex[a] = "hand"

(* A handover that runs has a target.                                      *)
TargetKnown == \A a \in Agents : hand[a].pc # "idle" => hand[a].to \in Agents

IInv ==
  TargetKnown /\ LeaseShape /\ MutexShape /\ SupervisorShape /\ HandoverShape /\ LocksHeld

(* What every step of a's supervisor does to the control state.            *)
SupervisorMoves(a) ==
  /\ SupervisorShape'
  /\ MutexShape'
  /\ \A b \in Agents \ {a} : sup'[b] = sup[b] /\ mutex'[b] = mutex[b]
  /\ SupervisorLocked(a)' => mutex'[a] = "sup"
  /\ mutex[a] = "hand" => mutex'[a] = "hand"

LEMMA SupervisorMovesKeep ==
  ASSUME IInv, NEW a \in Agents, SupervisorMoves(a), LeaseShape', hand' = hand
  PROVE  IInv'
BY DEF IInv, SupervisorMoves, HandoverShape, LocksHeld, SupervisorLocked,
   HandoverLocked, TargetKnown

LEMMA SupervisorUpdate ==
  ASSUME IInv, NEW a \in Agents, NEW s \in SupervisorState,
         sup' = [sup EXCEPT ![a] = s], UNCHANGED mutex,
         \/ SupervisorLocked(a)
         \/ s.pc \in {"idle", "renew", "acquire", "verify", "lock", "abort"}
  PROVE  SupervisorMoves(a)
<1>1. sup'[a] = s /\ SupervisorShape'
  BY DEF IInv, SupervisorShape
<1>2. \A b \in Agents \ {a} : sup'[b] = sup[b] /\ mutex'[b] = mutex[b]
  BY DEF IInv, SupervisorShape
<1>3. SupervisorLocked(a)' => SupervisorLocked(a)
  BY <1>1 DEF SupervisorLocked
<1>4. SupervisorLocked(a)' => mutex'[a] = "sup"
  BY <1>3 DEF IInv, LocksHeld
<1> QED
  BY <1>1, <1>2, <1>4 DEF SupervisorMoves, IInv, MutexShape

LEMMA SupervisorExcept ==
  ASSUME NEW s \in SupervisorState, NEW pc \in SupervisorPcs, NEW i \in Int
  PROVE  /\ [s EXCEPT !.pc = pc, !.i = i] \in SupervisorState
         /\ [s EXCEPT !.pc = pc, !.i = i].pc = pc
         /\ [s EXCEPT !.pc = pc, !.i = i].mode = s.mode
BY DEF SupervisorState

(* The ways a step of the supervisor ends or goes on.                      *)
LEMMA ReachMoves ==
  ASSUME IInv, NEW a \in Agents, NEW pc \in SupervisorPcs, Reach(a, pc),
         UNCHANGED mutex,
         \/ SupervisorLocked(a)
         \/ pc \in {"idle", "renew", "acquire", "verify", "lock", "abort"}
  PROVE  SupervisorMoves(a)
<1> DEFINE s == [sup[a] EXCEPT !.pc = pc]
<1>1. s \in SupervisorState /\ s.pc = pc
  BY DEF IInv, SupervisorShape, SupervisorState
<1>2. sup' = [sup EXCEPT ![a] = s]
  BY DEF Reach
<1> HIDE DEF s
<1> QED
  BY <1>1, <1>2, SupervisorUpdate

LEMMA EndStepMoves ==
  ASSUME IInv, NEW a \in Agents, NEW st, NEW owned \in Nat,
         EndStep(a, st, owned)
  PROVE  SupervisorMoves(a)
<1> DEFINE s == [Idle EXCEPT !.owned = owned]
<1>0. Idle \in SupervisorState /\ Idle.pc = "idle"
  BY DEF Idle, SupervisorState, SupervisorPcs
<1>1. s \in SupervisorState /\ s.pc = "idle"
  BY <1>0 DEF SupervisorState
<1>2. sup' = [sup EXCEPT ![a] = s]
  BY DEF EndStep
<1> HIDE DEF s
<1>3. /\ SupervisorShape'
      /\ \A b \in Agents \ {a} : sup'[b] = sup[b]
      /\ sup'[a].pc = "idle"
  BY <1>1, <1>2 DEF IInv, SupervisorShape
<1>4. /\ MutexShape'
      /\ \A b \in Agents \ {a} : mutex'[b] = mutex[b]
      /\ mutex[a] = "hand" => mutex'[a] = "hand"
  BY DEF EndStep, Unlock, IInv, MutexShape
<1> QED
  BY <1>3, <1>4 DEF SupervisorMoves, SupervisorLocked

LEMMA EndOwnedMoves ==
  ASSUME IInv, NEW a \in Agents, NEW st, NEW g \in Nat, EndOwned(a, st, g)
  PROVE  SupervisorMoves(a)
<1>1. sup[a].owned \in Nat
  BY DEF IInv, SupervisorShape, SupervisorState
<1> QED
  BY <1>1, EndStepMoves DEF EndOwned

LEMMA FailMoves ==
  ASSUME IInv, NEW a \in Agents, Fail(a)
  PROVE  SupervisorMoves(a)
<1>1. sup[a].gen \in Nat
  BY DEF IInv, SupervisorShape, SupervisorState
<1>2. CASE EndDegraded(a)
  BY <1>1, <1>2, EndOwnedMoves DEF EndDegraded
<1>3. CASE Reach(a, "abort") /\ UNCHANGED mutex
  BY <1>3, ReachMoves DEF SupervisorPcs
<1>4. EndDegraded(a) \/ (Reach(a, "abort") /\ UNCHANGED mutex)
  BY DEF Fail
<1> QED
  BY <1>2, <1>3, <1>4

LEMMA FencedMoves ==
  ASSUME IInv, NEW a \in Agents, NEW pc \in SupervisorPcs, Fenced(a, pc),
         SupervisorLocked(a) \/ pc = "lock"
  PROVE  SupervisorMoves(a)
<1>1. CASE Reach(a, pc) /\ UNCHANGED mutex
  BY <1>1, ReachMoves
<1>2. CASE Fail(a)
  BY <1>2, FailMoves
<1> QED
  BY <1>1, <1>2 DEF Fenced

LEMMA AdvanceMoves ==
  ASSUME IInv, NEW a \in Agents, NEW resources,
         NEW again \in SupervisorPcs, NEW end \in SupervisorPcs,
         Advance(a, resources, again, end), UNCHANGED mutex,
         SupervisorLocked(a)
  PROVE  SupervisorMoves(a)
<1> DEFINE last == sup[a].i = Len(resources)
           pc == IF last THEN end ELSE again
           i == IF last THEN 1 ELSE sup[a].i + 1
           s == [sup[a] EXCEPT !.pc = pc, !.i = i]
<1>1. sup' = [sup EXCEPT ![a] = s]
  BY DEF Advance
<1>2. pc \in SupervisorPcs /\ i \in Int
  BY DEF IInv, SupervisorShape, SupervisorState
<1> HIDE DEF pc, i
<1>3. s \in SupervisorState
  BY <1>2 DEF IInv, SupervisorShape, SupervisorState
<1> HIDE DEF s
<1> QED
  BY <1>1, <1>3, SupervisorUpdate

LEMMA AfterOwnedMoves ==
  ASSUME IInv, NEW a \in Agents, AfterOwned(a), SupervisorLocked(a)
  PROVE  SupervisorMoves(a)
<1>1. CASE sup[a].mode = "repair" /\ sup[a].i = Len(Owned)
  <2> DEFINE s == [sup[a] EXCEPT !.pc = "final", !.i = 1]
  <2>4. sup[a] \in SupervisorState /\ "final" \in SupervisorPcs /\ 1 \in Int
    BY DEF IInv, SupervisorShape, SupervisorPcs
  <2>0. s \in SupervisorState /\ s.pc = "final" /\ s.mode = "repair"
    BY <1>1, <2>4, SupervisorExcept, Zenon
  <2>3. sup' = [sup EXCEPT ![a] = s]
    BY <1>1 DEF AfterOwned, Advance
  <2> HIDE DEF s
  <2>1. /\ SupervisorShape'
        /\ \A b \in Agents \ {a} : sup'[b] = sup[b]
        /\ sup'[a].pc = "final" /\ sup'[a].mode = "repair"
    BY <2>0, <2>3 DEF IInv, SupervisorShape
  <2>2. /\ MutexShape'
        /\ \A b \in Agents \ {a} : mutex'[b] = mutex[b]
        /\ mutex[a] = "hand" => mutex'[a] = "hand"
    BY <1>1 DEF AfterOwned, Unlock, IInv, MutexShape
  <2> QED
    BY <2>1, <2>2 DEF SupervisorMoves, SupervisorLocked
<1>2. CASE ~ (sup[a].mode = "repair" /\ sup[a].i = Len(Owned))
  <2>1. UNCHANGED mutex
    BY <1>2 DEF AfterOwned
  <2>2. \/ Advance(a, Owned, "describe", "final")
        \/ Advance(a, Owned, "fence", "check")
    BY DEF AfterOwned
  <2> QED
    BY <2>1, <2>2, AdvanceMoves DEF SupervisorPcs
<1> QED
  BY <1>1, <1>2

-----------------------------------------------------------------------------
(* The lease keeps its shape whatever a step stores.                       *)
LEMMA StoreShape ==
  ASSUME LeaseShape, NEW l \in AnyLease, Store(l), l.live => l.owner \in Agents
  PROVE  LeaseShape'
BY DEF LeaseShape, Store

LEMMA GrantShape ==
  ASSUME LeaseShape, NEW a \in Agents, NEW g \in Nat, Store(LeaseOf(a, g))
  PROVE  LeaseShape'
BY StoreShape DEF LeaseOf, AnyLease

LEMMA ReleaseShape ==
  ASSUME LeaseShape, Store(NoLease)
  PROVE  LeaseShape'
BY StoreShape DEF NoLease, AnyLease

LEMMA SupervisorStepMoves ==
  ASSUME IInv, NEW a \in Agents, Supervise(a)
  PROVE  SupervisorMoves(a) /\ LeaseShape' /\ hand' = hand
<1>0. /\ sup[a].gen \in Nat /\ sup[a].owned \in Nat
      /\ lease.generation \in Nat
      /\ LeaseShape
  BY DEF IInv, SupervisorShape, SupervisorState, LeaseShape, AnyLease
<1> USE DEF SupervisorPcs
<1>1. ASSUME ReadLease(a)
      PROVE  SupervisorMoves(a) /\ LeaseShape' /\ hand' = hand
  <2>1. ASSUME NEW l \in Reads, UNCHANGED mutex,
               sup' = [sup EXCEPT ![a].pc = "renew", ![a].gen = l.generation]
        PROVE  SupervisorMoves(a)
    <3> DEFINE s == [sup[a] EXCEPT !.pc = "renew", !.gen = l.generation]
    <3>1. l.generation \in Nat
      BY <1>0 DEF Reads, LeaseShape, AnyLease
    <3>2. s \in SupervisorState /\ s.pc = "renew"
      BY <3>1 DEF IInv, SupervisorShape, SupervisorState
    <3>3. sup' = [sup EXCEPT ![a] = s]
      BY <2>1
    <3> HIDE DEF s
    <3> QED
      BY <2>1, <3>2, <3>3, SupervisorUpdate
  <2>2. ASSUME TakeOver(a) PROVE SupervisorMoves(a)
    <3> DEFINE s == [sup[a] EXCEPT !.pc = "acquire", !.mode = "activate"]
    <3>1. s \in SupervisorState /\ s.pc = "acquire"
      BY DEF IInv, SupervisorShape, SupervisorState
    <3>2. sup' = [sup EXCEPT ![a] = s] /\ UNCHANGED mutex
      BY <2>2 DEF TakeOver
    <3> HIDE DEF s
    <3> QED
      BY <3>1, <3>2, SupervisorUpdate
  <2>3. ASSUME Unread(a) PROVE SupervisorMoves(a)
    BY <1>0, <2>2, <2>3, EndOwnedMoves DEF Unread
  <2>4. ASSUME EndStep(a, "STANDBY", 0) PROVE SupervisorMoves(a)
    BY <2>4, EndStepMoves
  <2> QED
    BY <1>0, <1>1, <2>1, <2>2, <2>3, <2>4 DEF ReadLease, LeaseShape
<1>2. ASSUME RenewLease(a)
      PROVE  SupervisorMoves(a) /\ LeaseShape' /\ hand' = hand
  <2>1. LeaseShape'
    BY <1>0, <1>2, GrantShape DEF RenewLease, LeaseShape
  <2>2. CASE Reach(a, "verify") /\ UNCHANGED mutex
    BY <1>2, <2>1, <2>2, ReachMoves DEF RenewLease
  <2>3. CASE EndDegraded(a) \/ EndOwned(a, "DEGRADED", sup[a].gen)
    BY <1>0, <1>2, <2>1, <2>3, EndOwnedMoves DEF RenewLease, EndDegraded
  <2> QED
    BY <1>2, <2>2, <2>3 DEF RenewLease
<1>3. ASSUME Acquire(a)
      PROVE  SupervisorMoves(a) /\ LeaseShape' /\ hand' = hand
  <2>1. LeaseShape'
    BY <1>0, <1>3, GrantShape DEF Acquire, LeaseShape
  <2>2. ASSUME NEW pc \in {"verify", "abort"}, NEW g \in Nat, UNCHANGED mutex,
               sup' = [sup EXCEPT ![a].pc = pc, ![a].gen = g]
        PROVE  SupervisorMoves(a)
    <3> DEFINE s == [sup[a] EXCEPT !.pc = pc, !.gen = g]
    <3>1. s \in SupervisorState /\ s.pc = pc
      BY DEF IInv, SupervisorShape, SupervisorState
    <3>2. sup' = [sup EXCEPT ![a] = s]
      BY <2>2
    <3> HIDE DEF s
    <3> QED
      BY <2>2, <3>1, <3>2, SupervisorUpdate
  <2>3. LeaseOf(a, lease.generation + 1).generation \in Nat
    BY <1>0 DEF LeaseOf
  <2>4. CASE EndStep(a, "STANDBY", sup[a].owned)
    BY <1>0, <1>3, <2>1, <2>4, EndStepMoves DEF Acquire
  <2>5. CASE ~ EndStep(a, "STANDBY", sup[a].owned)
    BY <1>3, <2>1, <2>2, <2>3, <2>5 DEF Acquire
  <2> QED
    BY <2>4, <2>5
<1>4. ASSUME VerifyLease(a)
      PROVE  SupervisorMoves(a) /\ LeaseShape' /\ hand' = hand
  BY <1>0, <1>4, FencedMoves
  DEF VerifyLease, LeaseShape
<1>5. ASSUME LockOwnership(a)
      PROVE  SupervisorMoves(a) /\ LeaseShape' /\ hand' = hand
  <2> DEFINE pc == IF sup[a].mode = "repair" THEN "describe" ELSE "reverify"
             s == [sup[a] EXCEPT !.pc = pc]
  <2>1. s \in SupervisorState
    BY DEF IInv, SupervisorShape, SupervisorState
  <2>2. sup' = [sup EXCEPT ![a] = s] /\ mutex' = [mutex EXCEPT ![a] = "sup"]
    BY <1>5 DEF LockOwnership, Reach
  <2> HIDE DEF s
  <2>3. SupervisorMoves(a)
    BY <1>5, <2>1, <2>2
    DEF LockOwnership, IInv, SupervisorMoves, SupervisorShape, MutexShape
  <2> QED
    BY <1>0, <1>5, <2>3 DEF LockOwnership, LeaseShape
<1>6. ASSUME Reverify(a)
      PROVE  SupervisorMoves(a) /\ LeaseShape' /\ hand' = hand
  <2>1. SupervisorLocked(a)
    BY <1>6 DEF Reverify, SupervisorLocked
  <2> QED
    BY <1>0, <1>6, <2>1, FencedMoves DEF Reverify, LeaseShape
<1>7. ASSUME Describe(a)
      PROVE  SupervisorMoves(a) /\ LeaseShape' /\ hand' = hand
  <2>1. SupervisorLocked(a)
    BY <1>7 DEF Describe, SupervisorLocked
  <2> QED
    BY <1>0, <1>7, <2>1, ReachMoves, FailMoves, AfterOwnedMoves DEF Describe, LeaseShape
<1>8. ASSUME Fence(a)
      PROVE  SupervisorMoves(a) /\ LeaseShape' /\ hand' = hand
  <2>1. SupervisorLocked(a)
    BY <1>8 DEF Fence, SupervisorLocked
  <2> QED
    BY <1>0, <1>8, <2>1, FencedMoves DEF Fence, LeaseShape
<1>9. ASSUME Mutate(a)
      PROVE  SupervisorMoves(a) /\ LeaseShape' /\ hand' = hand
  <2>1. SupervisorLocked(a)
    BY <1>9 DEF Mutate, SupervisorLocked
  <2> DEFINE stray == sup[a].stray \/ lease.owner \notin {a, NoAgent}
             s == [sup[a] EXCEPT !.pc = "postfence", !.stray = stray]
  <2>2. s \in SupervisorState
    BY DEF IInv, SupervisorShape, SupervisorState
  <2> HIDE DEF stray, s
  <2>3. CASE sup' = [sup EXCEPT ![a] = s] /\ UNCHANGED mutex
    BY <1>0, <1>9, <2>1, <2>2, <2>3, SupervisorUpdate DEF Mutate, LeaseShape
  <2>4. CASE Fail(a)
    BY <1>0, <1>9, <2>4, FailMoves DEF Mutate, LeaseShape
  <2> QED
    BY <1>9, <2>3, <2>4 DEF Mutate, stray, s
<1>10. ASSUME PostFence(a)
       PROVE  SupervisorMoves(a) /\ LeaseShape' /\ hand' = hand
  <2>1. SupervisorLocked(a)
    BY <1>10 DEF PostFence, SupervisorLocked
  <2> QED
    BY <1>0, <1>10, <2>1, ReachMoves, FailMoves, AfterOwnedMoves DEF PostFence, LeaseShape
<1>11. ASSUME Confirm(a)
       PROVE  SupervisorMoves(a) /\ LeaseShape' /\ hand' = hand
  <2>1. SupervisorLocked(a)
    BY <1>11 DEF Confirm, SupervisorLocked
  <2> QED
    BY <1>0, <1>11, <2>1, FailMoves, AfterOwnedMoves DEF Confirm, LeaseShape
<1>12. ASSUME Check(a)
       PROVE  SupervisorMoves(a) /\ LeaseShape' /\ hand' = hand
  <2>1. SupervisorLocked(a)
    BY <1>12 DEF Check, SupervisorLocked
  <2> QED
    BY <1>0, <1>12, <2>1, FailMoves, AdvanceMoves DEF Check, LeaseShape
<1>13. ASSUME Final(a)
       PROVE  SupervisorMoves(a) /\ LeaseShape' /\ hand' = hand
  BY <1>0, <1>13, FailMoves, EndOwnedMoves DEF Final, LeaseShape
<1>14. ASSUME Abort(a)
       PROVE  SupervisorMoves(a) /\ LeaseShape' /\ hand' = hand
  <2>1. LeaseShape'
    BY <1>0, <1>14, ReleaseShape DEF Abort, LeaseShape
  <2> QED
    BY <1>0, <1>14, <2>1, EndStepMoves DEF Abort
<1> QED
  BY <1>1, <1>2, <1>3, <1>4, <1>5, <1>6, <1>7, <1>8, <1>9, <1>10, <1>11,
     <1>12, <1>13, <1>14 DEF Supervise

LEMMA SupervisorStep ==
  ASSUME IInv, NEW a \in Agents, Supervise(a)
  PROVE  IInv'
BY SupervisorStepMoves, SupervisorMovesKeep

-----------------------------------------------------------------------------
(* The same for a handover of a.                                           *)
HandoverMoves(a) ==
  /\ HandoverShape'
  /\ MutexShape'
  /\ \A b \in Agents \ {a} : hand'[b] = hand[b] /\ mutex'[b] = mutex[b]
  /\ HandoverLocked(a)' => mutex'[a] = "hand"
  /\ mutex[a] = "sup" => mutex'[a] = "sup"
  /\ hand'[a].pc # "idle" => hand[a].pc # "idle" /\ hand'[a].to = hand[a].to

LEMMA HandoverMovesKeep ==
  ASSUME IInv, NEW a \in Agents, HandoverMoves(a), LeaseShape', sup' = sup
  PROVE  IInv'
BY DEF IInv, HandoverMoves, SupervisorShape, LocksHeld, SupervisorLocked,
   HandoverLocked, TargetKnown

LEMMA HandoverExcept ==
  ASSUME NEW h \in HandoverState, NEW pc \in HandoverPcs, NEW i \in Int,
         NEW try \in Int
  PROVE  [h EXCEPT !.pc = pc, !.i = i, !.try = try] \in HandoverState
BY DEF HandoverState

LEMMA HandoverUpdate ==
  ASSUME IInv, NEW a \in Agents, NEW h \in HandoverState,
         hand' = [hand EXCEPT ![a] = h], UNCHANGED mutex,
         h.to = hand[a].to, hand[a].pc # "idle",
         HandoverLocked(a) \/ h.pc \in {"verify", "lock"}
  PROVE  HandoverMoves(a)
<1>1. hand'[a] = h /\ HandoverShape'
  BY DEF IInv, HandoverShape
<1>2. \A b \in Agents \ {a} : hand'[b] = hand[b] /\ mutex'[b] = mutex[b]
  BY DEF IInv, HandoverShape
<1>3. HandoverLocked(a)' => HandoverLocked(a)
  BY <1>1 DEF HandoverLocked
<1>4. HandoverLocked(a)' => mutex'[a] = "hand"
  BY <1>3 DEF IInv, LocksHeld
<1> QED
  BY <1>1, <1>2, <1>4 DEF HandoverMoves, IInv, MutexShape

LEMMA HReachMoves ==
  ASSUME IInv, NEW a \in Agents, NEW pc \in HandoverPcs, HReach(a, pc),
         UNCHANGED mutex, HandoverLocked(a)
  PROVE  HandoverMoves(a)
<1> DEFINE h == [hand[a] EXCEPT !.pc = pc]
<1>1. h \in HandoverState /\ h.to = hand[a].to /\ hand[a].pc # "idle"
  BY DEF IInv, HandoverShape, HandoverState, HandoverLocked
<1>2. hand' = [hand EXCEPT ![a] = h]
  BY DEF HReach
<1> HIDE DEF h
<1> QED
  BY <1>1, <1>2, HandoverUpdate

LEMMA HProceedMoves ==
  ASSUME IInv, NEW a \in Agents, NEW pc \in HandoverPcs, HProceed(a, pc),
         HandoverLocked(a) \/ pc = "lock", hand[a].pc # "idle"
  PROVE  HandoverMoves(a)
<1> DEFINE h == [hand[a] EXCEPT !.pc = pc, !.i = 1, !.try = 1]
<1>0. hand[a] \in HandoverState /\ 1 \in Int
  BY DEF IInv, HandoverShape
<1>1. h \in HandoverState
  BY <1>0, HandoverExcept, Zenon
<1>3. h.pc = pc /\ h.to = hand[a].to
  BY <1>0 DEF HandoverState
<1>2. hand' = [hand EXCEPT ![a] = h] /\ UNCHANGED mutex
  BY DEF HProceed
<1> HIDE DEF h
<1> QED
  BY <1>1, <1>2, <1>3, HandoverUpdate

LEMMA HNextMoves ==
  ASSUME IInv, NEW a \in Agents, NEW resources,
         NEW again \in HandoverPcs, NEW end \in HandoverPcs,
         HNext(a, resources, again, end), HandoverLocked(a)
  PROVE  HandoverMoves(a)
<1>0. hand[a].pc # "idle"
  BY DEF HandoverLocked
<1>1. CASE HProceed(a, end)
  BY <1>0, <1>1, HProceedMoves
<1>2. CASE ~ HProceed(a, end)
  <2> DEFINE h == [hand[a] EXCEPT !.pc = again, !.i = hand[a].i + 1, !.try = 1]
  <2>0. hand[a] \in HandoverState /\ hand[a].i + 1 \in Int /\ 1 \in Int
    BY DEF IInv, HandoverShape, HandoverState
  <2>1. h \in HandoverState
    BY <2>0, HandoverExcept, Zenon
  <2>3. h.to = hand[a].to
    BY <2>0 DEF HandoverState
  <2>2. hand' = [hand EXCEPT ![a] = h] /\ UNCHANGED mutex
    BY <1>2 DEF HNext
  <2> HIDE DEF h
  <2> QED
    BY <1>0, <2>1, <2>2, <2>3, HandoverUpdate
<1> QED
  BY <1>1, <1>2

LEMMA EndHandoverMoves ==
  ASSUME IInv, NEW a \in Agents, EndHandover(a)
  PROVE  HandoverMoves(a)
<1>1. NoHandover \in HandoverState /\ NoHandover.pc = "idle"
  BY DEF NoHandover, HandoverState, HandoverPcs
<1>2. /\ HandoverShape'
      /\ \A b \in Agents \ {a} : hand'[b] = hand[b]
      /\ hand'[a].pc = "idle"
  BY <1>1 DEF EndHandover, IInv, HandoverShape
<1>3. /\ MutexShape'
      /\ \A b \in Agents \ {a} : mutex'[b] = mutex[b]
      /\ mutex[a] = "sup" => mutex'[a] = "sup"
  BY DEF EndHandover, Unlock, IInv, MutexShape
<1> QED
  BY <1>2, <1>3 DEF HandoverMoves, HandoverLocked

LEMMA HMoveFailsMoves ==
  ASSUME IInv, NEW a \in Agents, HMoveFails(a), HandoverLocked(a)
  PROVE  HandoverMoves(a)
BY HProceedMoves DEF HMoveFails, HandoverPcs, HandoverLocked

LEMMA HandoverStepMoves ==
  ASSUME IInv, NEW a \in Agents, Handover(a)
  PROVE  HandoverMoves(a) /\ LeaseShape' /\ sup' = sup
<1>0. /\ hand[a] \in HandoverState
      /\ hand[a].to \in Agents \cup {NoAgent} /\ hand[a].gen \in Nat
      /\ LeaseShape
      /\ sup' = sup
  BY DEF IInv, HandoverShape, HandoverState, Handover
<1>c. hand[a].pc # "idle"
  BY DEF Handover, HVerify, HLock, HRenew, HFence, HMutate, HPostFence, HConfirm,
     HCheck, HRenewBeforeTransfer, HTransfer, HFenceRevert, HRevert
<1> USE <1>c DEF HandoverPcs
<1>1. ASSUME HVerify(a)
      PROVE  HandoverMoves(a) /\ LeaseShape' /\ sup' = sup
  BY <1>0, <1>1, HProceedMoves, EndHandoverMoves DEF HVerify, LeaseShape
<1>2. ASSUME HLock(a)
      PROVE  HandoverMoves(a) /\ LeaseShape' /\ sup' = sup
  <2> DEFINE h == [hand[a] EXCEPT !.pc = "renew"]
  <2>1. h \in HandoverState /\ h.to = hand[a].to
    BY <1>0 DEF HandoverState
  <2>2. hand' = [hand EXCEPT ![a] = h] /\ mutex' = [mutex EXCEPT ![a] = "hand"]
    BY <1>2 DEF HLock, HReach
  <2> HIDE DEF h
  <2>3. HandoverMoves(a)
    BY <1>2, <2>1, <2>2
    DEF HLock, IInv, HandoverMoves, HandoverShape, MutexShape
  <2> QED
    BY <1>0, <1>2, <2>3 DEF HLock, LeaseShape
<1>3. ASSUME HRenew(a)
      PROVE  HandoverMoves(a) /\ LeaseShape' /\ sup' = sup
  <2>1. HandoverLocked(a)
    BY <1>3 DEF HRenew, HandoverLocked
  <2> QED
    BY <1>0, <1>3, <2>1, HReachMoves, HProceedMoves, EndHandoverMoves
    DEF HRenew, LeaseShape
<1>4. ASSUME HFence(a)
      PROVE  HandoverMoves(a) /\ LeaseShape' /\ sup' = sup
  <2>1. HandoverLocked(a)
    BY <1>4 DEF HFence, HandoverLocked
  <2> QED
    BY <1>0, <1>4, <2>1, HReachMoves, HProceedMoves, EndHandoverMoves, HMoveFailsMoves
    DEF HFence, LeaseShape
<1>5. ASSUME HMutate(a)
      PROVE  HandoverMoves(a) /\ LeaseShape' /\ sup' = sup
  <2>1. HandoverLocked(a)
    BY <1>5 DEF HMutate, HandoverLocked
  <2> DEFINE stray == hand[a].stray \/ lease.owner \notin {a, NoAgent}
  <2>2. ASSUME NEW pc \in {"postfence", "confirm"}, UNCHANGED mutex,
               hand' = [hand EXCEPT ![a].pc = pc, ![a].stray = stray]
        PROVE  HandoverMoves(a)
    <3> DEFINE h == [hand[a] EXCEPT !.pc = pc, !.stray = stray]
    <3>1. h \in HandoverState /\ h.to = hand[a].to
      BY <1>0 DEF HandoverState
    <3>2. hand' = [hand EXCEPT ![a] = h]
      BY <2>2
    <3> HIDE DEF h
    <3> QED
      BY <2>1, <2>2, <3>1, <3>2, HandoverUpdate
  <2> QED
    BY <1>0, <1>5, <2>2 DEF HMutate, LeaseShape
<1>6. ASSUME HPostFence(a)
      PROVE  HandoverMoves(a) /\ LeaseShape' /\ sup' = sup
  <2>1. HandoverLocked(a)
    BY <1>6 DEF HPostFence, HandoverLocked
  <2> QED
    BY <1>0, <1>6, <2>1, HReachMoves, HProceedMoves, EndHandoverMoves, HMoveFailsMoves, HNextMoves
    DEF HPostFence, LeaseShape
<1>7. ASSUME HConfirm(a)
      PROVE  HandoverMoves(a) /\ LeaseShape' /\ sup' = sup
  <2>1. HandoverLocked(a)
    BY <1>7 DEF HConfirm, HandoverLocked
  <2> DEFINE pc == "fence"
             try == hand[a].try + 1
             h == [hand[a] EXCEPT !.pc = pc, !.try = try]
  <2>5. pc \in HandoverPcs /\ try \in Int
    BY <1>0 DEF HandoverState
  <2> HIDE DEF pc, try
  <2>2. h \in HandoverState /\ h.to = hand[a].to
    BY <1>0, <2>5 DEF HandoverState
  <2>3. ASSUME hand' = [hand EXCEPT ![a] = h], UNCHANGED mutex
        PROVE  HandoverMoves(a)
    <3> HIDE DEF h
    <3> QED
      BY <2>1, <2>2, <2>3, HandoverUpdate
  <2>4. ASSUME HMoveFails(a) \/ HNext(a, Moved, "fence", "check")
        PROVE  HandoverMoves(a)
    BY <2>1, <2>4, HMoveFailsMoves, HNextMoves
  <2> QED
    BY <1>0, <1>7, <2>3, <2>4 DEF HConfirm, LeaseShape, pc, try
<1>8. ASSUME HCheck(a)
      PROVE  HandoverMoves(a) /\ LeaseShape' /\ sup' = sup
  <2>1. HandoverLocked(a)
    BY <1>8 DEF HCheck, HandoverLocked
  <2> QED
    BY <1>0, <1>8, <2>1, HReachMoves, HProceedMoves, EndHandoverMoves, HNextMoves
    DEF HCheck, LeaseShape
<1>9. ASSUME HRenewBeforeTransfer(a)
      PROVE  HandoverMoves(a) /\ LeaseShape' /\ sup' = sup
  <2>1. HandoverLocked(a)
    BY <1>9 DEF HRenewBeforeTransfer, HandoverLocked
  <2> QED
    BY <1>0, <1>9, <2>1, HReachMoves, HProceedMoves, EndHandoverMoves
    DEF HRenewBeforeTransfer, LeaseShape
<1>10. ASSUME HTransfer(a)
       PROVE  HandoverMoves(a) /\ LeaseShape' /\ sup' = sup
  <2>1. HandoverLocked(a)
    BY <1>10 DEF HTransfer, HandoverLocked
  <2>2. LeaseShape'
    BY <1>0, <1>10, GrantShape DEF HTransfer, LeaseShape, IInv, TargetKnown
  <2> QED
    BY <1>0, <1>10, <2>1, <2>2, HProceedMoves, EndHandoverMoves DEF HTransfer
<1>11. ASSUME HFenceRevert(a)
       PROVE  HandoverMoves(a) /\ LeaseShape' /\ sup' = sup
  <2>1. HandoverLocked(a)
    BY <1>11 DEF HFenceRevert, HandoverLocked
  <2> QED
    BY <1>0, <1>11, <2>1, HProceedMoves, EndHandoverMoves
    DEF HFenceRevert, LeaseShape
<1>12. ASSUME HRevert(a)
       PROVE  HandoverMoves(a) /\ LeaseShape' /\ sup' = sup
  <2>1. HandoverLocked(a)
    BY <1>12 DEF HRevert, HandoverLocked
  <2> DEFINE h == [hand[a] EXCEPT !.i = hand[a].i + 1]
  <2>2. h \in HandoverState /\ h.to = hand[a].to
    BY <1>0 DEF HandoverState
  <2>3. ASSUME hand' = [hand EXCEPT ![a] = h], UNCHANGED mutex
        PROVE  HandoverMoves(a)
    <3> HIDE DEF h
    <3> QED
      BY <2>1, <2>2, <2>3, HandoverUpdate
  <2>4. ASSUME EndHandover(a) PROVE HandoverMoves(a)
    BY <2>4, EndHandoverMoves
  <2> QED
    BY <1>0, <1>12, <2>3, <2>4 DEF HRevert, LeaseShape
<1> QED
  BY <1>1, <1>2, <1>3, <1>4, <1>5, <1>6, <1>7, <1>8, <1>9, <1>10, <1>11,
     <1>12 DEF Handover

LEMMA HandoverStep ==
  ASSUME IInv, NEW a \in Agents, Handover(a)
  PROVE  IInv'
BY HandoverStepMoves, HandoverMovesKeep

-----------------------------------------------------------------------------
LEMMA StartHandoverStep ==
  ASSUME IInv, NEW a \in Agents, NEW b \in Agents, StartHandover(a, b)
  PROVE  IInv'
<1>1. PICK l \in Reads :
        hand' = [hand EXCEPT ![a].pc = "verify", ![a].to = b,
                             ![a].gen = l.generation]
  BY DEF StartHandover
<1> DEFINE h == [hand[a] EXCEPT !.pc = "verify", !.to = b, !.gen = l.generation]
<1>2. l.generation \in Nat
  BY DEF Reads, IInv, LeaseShape, AnyLease
<1>3. h \in HandoverState /\ h.pc = "verify" /\ h.to = b
  BY <1>2 DEF IInv, HandoverShape, HandoverState, HandoverPcs
<1>4. hand' = [hand EXCEPT ![a] = h]
  BY <1>1
<1> HIDE DEF h
<1> QED
  BY <1>3, <1>4
  DEF StartHandover, IInv, LeaseShape, MutexShape, SupervisorShape,
      HandoverShape, LocksHeld, SupervisorLocked, HandoverLocked, TargetKnown

LEMMA LeaveStep ==
  ASSUME IInv, NEW a \in Agents, Leave(a), LeaseShape'
  PROVE  IInv'
<1>1. Idle \in SupervisorState /\ Idle.pc = "idle"
  BY DEF Idle, SupervisorState, SupervisorPcs
<1>2. NoHandover \in HandoverState /\ NoHandover.pc = "idle"
  BY DEF NoHandover, HandoverState, HandoverPcs
<1> QED
  BY <1>1, <1>2
  DEF Leave, IInv, MutexShape, SupervisorShape, HandoverShape, LocksHeld,
      SupervisorLocked, HandoverLocked, TargetKnown

(* A step that changes neither a control state nor a lock.                 *)
LEMMA QuietStep ==
  ASSUME IInv, UNCHANGED <<mutex, sup, hand>>, LeaseShape'
  PROVE  IInv'
BY DEF IInv, MutexShape, SupervisorShape, HandoverShape, LocksHeld,
   SupervisorLocked, HandoverLocked, TargetKnown

LEMMA LeavingLease ==
  ASSUME LeaseShape, NEW a \in Agents, Crash(a) \/ Stop(a)
  PROVE  LeaseShape'
BY ReleaseShape DEF Crash, Stop, LeaseShape

LEMMA InitInvariant == Init => IInv
<1>1. Idle \in SupervisorState /\ Idle.pc = "idle"
  BY DEF Idle, SupervisorState, SupervisorPcs
<1>2. NoHandover \in HandoverState /\ NoHandover.pc = "idle"
  BY DEF NoHandover, HandoverState, HandoverPcs
<1> QED
  BY <1>1, <1>2
  DEF Init, NoLease, AnyLease, IInv, LeaseShape, MutexShape, SupervisorShape,
      HandoverShape, LocksHeld, SupervisorLocked, HandoverLocked, TargetKnown

LEMMA NextInvariant == IInv /\ [Next]_vars => IInv'
<1> SUFFICES ASSUME IInv, [Next]_vars PROVE IInv'
  OBVIOUS
<1>0. LeaseShape
  BY DEF IInv
<1>1. ASSUME NEW a \in Agents, Supervise(a) \/ Handover(a) PROVE IInv'
  BY <1>1, SupervisorStep, HandoverStep
<1>2. ASSUME NEW a \in Agents, NEW b \in Agents, StartHandover(a, b) PROVE IInv'
  BY <1>2, StartHandoverStep
<1>3. ASSUME NEW a \in Agents, SnapshotExpires(a) \/ Restart(a) PROVE IInv'
  BY <1>0, <1>3, QuietStep DEF SnapshotExpires, Restart, LeaseShape
<1>4. ASSUME NEW a \in Agents, Crash(a) \/ Stop(a) PROVE IInv'
  BY <1>0, <1>4, LeaveStep, LeavingLease DEF Crash, Stop
<1>5. CASE Expire \/ ReplicaExpires \/ Converge
  <2>1. LeaseShape'
    BY <1>0, <1>5 DEF Expire, ReplicaExpires, Converge, LeaseShape, AnyLease
  <2> QED
    BY <1>5, <2>1, QuietStep DEF Expire, ReplicaExpires, Converge
<1>6. CASE UNCHANGED vars
  BY <1>0, <1>6, QuietStep DEF vars, LeaseShape
<1> QED
  BY <1>1, <1>2, <1>3, <1>4, <1>5, <1>6 DEF Next

LEMMA InvariantHolds == Spec => []IInv
BY InitInvariant, NextInvariant, PTL DEF Spec

(* The ownership lock keeps the mutations of a supervisor and of a         *)
(* handover of the same process apart, whatever fails or expires.          *)
THEOREM OneMutator == Spec => []OneMutatorPerProcess
<1>1. IInv => OneMutatorPerProcess
  BY DEF IInv, LocksHeld, SupervisorLocked, HandoverLocked, OneMutatorPerProcess
<1> QED
  BY <1>1, InvariantHolds, PTL

-----------------------------------------------------------------------------
(* A live lease and the steps of the other agents.                         *)
LEMMA SupervisorLeavesLease ==
  ASSUME NEW a \in Agents, NEW b \in Agents \ {a}, Supervise(b),
         lease.owner = a, lease.live
  PROVE  lease' = lease
<1>1. CASE RenewLease(b)
  BY <1>1 DEF RenewLease, MayExtend, Mine
<1>2. CASE Acquire(b)
  BY <1>2 DEF Acquire, MayAcquire
<1>3. CASE Abort(b)
  BY <1>3 DEF Abort, Mine
<1>4. CASE ~ (RenewLease(b) \/ Acquire(b) \/ Abort(b))
  BY <1>4
  DEF Supervise, ReadLease, VerifyLease, LockOwnership, Reverify, Describe,
      Fence, Mutate, PostFence, Confirm, Check, Final
<1> QED
  BY <1>1, <1>2, <1>3, <1>4

LEMMA HandoverLeavesLease ==
  ASSUME NEW a \in Agents, NEW b \in Agents \ {a}, Handover(b),
         lease.owner = a, lease.live
  PROVE  lease' = lease
<1>1. CASE HTransfer(b)
  BY <1>1 DEF HTransfer, MayExtend, Mine
<1>2. CASE ~ HTransfer(b)
  BY <1>2
  DEF Handover, HVerify, HLock, HRenew, HFence, HMutate, HPostFence, HConfirm,
      HCheck, HRenewBeforeTransfer, HFenceRevert, HRevert
<1> QED
  BY <1>1, <1>2

LEMMA NextLeavesLease ==
  ASSUME IInv, [Next]_vars, NEW a \in Agents, lease.owner = a, lease.live
  PROVE  \/ Mine(lease', a, lease.generation)
         \/ Supervise(a) \/ Handover(a) \/ Stop(a)
<1>1. CASE lease' = lease
  BY <1>1 DEF Mine
<1>2. CASE Expire
  BY <1>2 DEF Expire, IInv, LeaseShape, AnyLease, Mine
<1>3. ASSUME NEW b \in Agents, Supervise(b) \/ Handover(b) \/ Stop(b), b # a
      PROVE  lease' = lease
  BY <1>3, SupervisorLeavesLease, HandoverLeavesLease DEF Stop, Mine
<1> QED
  BY <1>1, <1>2, <1>3
  DEF Next, StartHandover, SnapshotExpires, Crash, Restart, ReplicaExpires,
      Converge, vars

(* However supervisors, handovers, failures, crashes and lagging reads     *)
(* interleave: a live lease is ended or passed on by its owner only.       *)
THEOREM OwnerKeepsLiveLease == Spec => LiveLeaseIsTheOwners
<1>1. IInv /\ [Next]_vars =>
        [\A a \in Agents :
           lease.owner = a /\ lease.live =>
             \/ Mine(lease', a, lease.generation)
             \/ Supervise(a) \/ Handover(a) \/ Stop(a)]_vars
  BY NextLeavesLease
<1> QED
  BY <1>1, InvariantHolds, PTL DEF Spec, LiveLeaseIsTheOwners

-----------------------------------------------------------------------------
(* Types.  Indices, attempts and generations stay within the sequences and *)
(* bounds they are for.                                                    *)
SupervisorType ==
  [pc : SupervisorPcs, mode : {"repair", "activate"}, i : 1 .. Len(Owned),
   gen : 0 .. MaxGen, owned : 0 .. MaxGen, stray : BOOLEAN]
HandoverType ==
  [pc : HandoverPcs, to : Agents \cup {NoAgent}, i : 1 .. Len(Owned),
   try : 1 .. MaxTries, gen : 0 .. MaxGen, stray : BOOLEAN]
StatusType == {"INIT", "STANDBY", "TAKING_OVER", "ACTIVE", "DEGRADED"}
UsedType ==
  [cloud : Clouds, faults : Nat, stalls : Nat, crashes : Nat, handovers : 0 .. MaxHandovers]

(* A handover counts what it moves until it reverts, then all that is owned.*)
MovesInOrder == \A a \in Agents : hand[a].pc # "revert" => hand[a].i <= Len(Moved)

TInv == IInv /\ TypeOK /\ MovesInOrder

LEMMA Lengths ==
  /\ Len(Owned) \in Nat \ {0} /\ Len(Verified) = Len(Owned)
  /\ Len(Moved) \in 1 .. Len(Owned) /\ Len(MovedVerified) = Len(Moved)
<1>1. Len(RouteTables) \in Nat \ {0}
  BY OwnershipRoutes
<1>2. CASE SharedEIP
  <2> DEFINE x == <<EIP>>
             Any == STRING \cup {EIP}
  <2>1. x \in Seq(Any) /\ RouteTables \in Seq(Any) /\ Len(x) = 1
    <3>1. EIP \in Any
      OBVIOUS
    <3> HIDE DEF Any
    <3>2. x \in Seq(Any) /\ Len(x) = 1
      BY <3>1
    <3>3. RouteTables \in [1 .. Len(RouteTables) -> STRING]
      BY OwnershipRoutes
    <3>4. RouteTables \in [1 .. Len(RouteTables) -> Any]
      BY <3>3 DEF Any
    <3>5. RouteTables \in Seq(Any)
      BY <1>1, <3>4, IsASeq
    <3> QED
      BY <3>2, <3>5
  <2>2. Identity = x
    BY <1>2 DEF Identity
  <2> HIDE DEF x, Any
  <2>3. /\ Len(x \o RouteTables) = 1 + Len(RouteTables)
        /\ Len(RouteTables \o x) = Len(RouteTables) + 1
    <3>1. /\ Len(x \o RouteTables) = Len(x) + Len(RouteTables)
          /\ Len(RouteTables \o x) = Len(RouteTables) + Len(x)
      BY <2>1, ConcatProperties, Zenon
    <3> QED
      BY <2>1, <3>1
  <2> QED
    BY <1>1, <2>2, <2>3 DEF Owned, Verified, Moved, MovedVerified
<1>3. CASE ~ SharedEIP
  <2>1. Identity = <<>>
    BY <1>3 DEF Identity
  <2>2. <<>> \o RouteTables = RouteTables /\ RouteTables \o <<>> = RouteTables
    BY OwnershipRoutes, ConcatEmptySeq
  <2> QED
    BY <1>1, <2>1, <2>2 DEF Owned, Verified, Moved, MovedVerified
<1> QED
  BY <1>2, <1>3

LEMMA Bounds == MaxTries \in Nat \ {0} /\ MaxGen \in Nat /\ MaxHandovers \in Nat
BY OwnershipBounds

(* A fault and a read leave the types alone.                               *)
LEMMA UsedKeepsType ==
  ASSUME used \in UsedType, NoFault \/ Fault
  PROVE  used' \in UsedType /\ used'.cloud = used.cloud
BY DEF NoFault, Fault, UsedType

LEMMA FenceUses ==
  ASSUME NEW a, NEW g, FencePasses(a, g) \/ FenceFails(a, g)
  PROVE  NoFault \/ Fault
BY DEF FencePasses, FenceFails

LEMMA StoreKeepsType ==
  ASSUME lease \in Leases, replica \in Leases, NEW l \in Leases, Store(l)
  PROVE  lease' \in Leases /\ replica' \in Leases
BY DEF Store

LEMMA ReadsAreTyped ==
  ASSUME lease \in Leases, replica \in Leases, NEW l \in Reads
  PROVE  l \in Leases /\ l.generation \in 0 .. MaxGen
BY Bounds DEF Reads, Leases, NoLease

(* What a step of the supervisor reports and leaves in its control state.  *)
Reported(a) ==
  /\ sup' \in [Agents -> SupervisorType] /\ status' \in [Agents -> StatusType]
  /\ fresh' \subseteq Agents
SupTyped ==
  /\ sup \in [Agents -> SupervisorType] /\ status \in [Agents -> StatusType]
  /\ fresh \subseteq Agents

LEMMA SupervisorFields ==
  ASSUME SupTyped, NEW a \in Agents
  PROVE  /\ sup[a] \in SupervisorType /\ sup[a].gen \in 0 .. MaxGen
         /\ sup[a].owned \in 0 .. MaxGen /\ sup[a].i \in 1 .. Len(Owned)
BY DEF SupTyped, SupervisorType

LEMMA ReachTyped ==
  ASSUME SupTyped, NEW a \in Agents, NEW pc \in SupervisorPcs, Reach(a, pc),
         UNCHANGED <<status, fresh>>
  PROVE  Reported(a)
<1> DEFINE s == [sup[a] EXCEPT !.pc = pc]
<1>1. s \in SupervisorType
  BY DEF SupTyped, SupervisorType
<1>2. sup' = [sup EXCEPT ![a] = s]
  BY DEF Reach
<1> HIDE DEF s
<1> QED
  BY <1>1, <1>2 DEF SupTyped, Reported

LEMMA EndStepTyped ==
  ASSUME SupTyped, NEW a \in Agents, NEW st \in StatusType, NEW owned \in 0 .. MaxGen,
         EndStep(a, st, owned), fresh' \subseteq Agents
  PROVE  Reported(a)
<1> DEFINE s == [Idle EXCEPT !.owned = owned]
<1>1. s \in SupervisorType
  <2>1. Idle \in SupervisorType
    <3>1. 1 \in 1 .. Len(Owned) /\ 0 \in 0 .. MaxGen
      BY Lengths, Bounds
    <3> QED
      BY <3>1 DEF Idle, SupervisorType, SupervisorPcs
  <2> QED
    BY <2>1 DEF SupervisorType
<1>2. sup' = [sup EXCEPT ![a] = s] /\ status' = [status EXCEPT ![a] = st]
  BY DEF EndStep
<1> HIDE DEF s
<1> QED
  BY <1>1, <1>2 DEF SupTyped, Reported

LEMMA EndOwnedTyped ==
  ASSUME SupTyped, NEW a \in Agents, NEW st \in StatusType, NEW g \in 0 .. MaxGen,
         EndOwned(a, st, g)
  PROVE  Reported(a)
<1>1. fresh' \subseteq Agents
  BY DEF EndOwned, SupTyped
<1>2. sup[a].owned \in 0 .. MaxGen
  BY SupervisorFields
<1> QED
  BY <1>1, <1>2, EndStepTyped DEF EndOwned

LEMMA FailTyped ==
  ASSUME SupTyped, NEW a \in Agents, Fail(a)
  PROVE  Reported(a)
<1>1. CASE EndDegraded(a)
  BY <1>1, SupervisorFields, EndOwnedTyped DEF EndDegraded, StatusType
<1>2. CASE Reach(a, "abort") /\ UNCHANGED <<status, fresh>>
  BY <1>2, ReachTyped DEF SupervisorPcs
<1> QED
  BY <1>1, <1>2 DEF Fail

LEMMA AdvanceTyped ==
  ASSUME SupTyped, NEW a \in Agents, NEW resources, Len(resources) = Len(Owned),
         NEW again \in SupervisorPcs, NEW end \in SupervisorPcs,
         Advance(a, resources, again, end), UNCHANGED <<status, fresh>>
  PROVE  Reported(a)
<1> DEFINE last == sup[a].i = Len(resources)
           pc == IF last THEN end ELSE again
           i == IF last THEN 1 ELSE sup[a].i + 1
           s == [sup[a] EXCEPT !.pc = pc, !.i = i]
<1>1. sup' = [sup EXCEPT ![a] = s]
  BY DEF Advance
<1>2. pc \in SupervisorPcs /\ i \in 1 .. Len(Owned)
  BY SupervisorFields, Lengths
<1> HIDE DEF pc, i
<1>3. s \in SupervisorType
  BY <1>2, SupervisorFields DEF SupervisorType
<1> HIDE DEF s
<1> QED
  BY <1>1, <1>3 DEF SupTyped, Reported

LEMMA AfterOwnedTyped ==
  ASSUME SupTyped, NEW a \in Agents, AfterOwned(a)
  PROVE  Reported(a)
<1>1. \/ Advance(a, Owned, "describe", "final")
      \/ Advance(a, Owned, "fence", "check")
  BY DEF AfterOwned
<1> QED
  BY <1>1, AdvanceTyped DEF AfterOwned, SupervisorPcs

LEMMA SupervisorFieldsTyped ==
  ASSUME SupTyped, NEW a \in Agents, NEW s \in SupervisorType,
         sup' = [sup EXCEPT ![a] = s],
         status' \in [Agents -> StatusType], fresh' \subseteq Agents
  PROVE  Reported(a)
BY DEF SupTyped, Reported

(* The rest of a step: the lease, the cloud and the bounds.                *)
RestTyped ==
  /\ lease \in Leases /\ replica \in Leases
  /\ target \in [Resources -> Agents \cup {NoAgent}]
  /\ up \subseteq Agents
  /\ used \in UsedType

LEMMA TargetTyped ==
  ASSUME RestTyped, NEW r, NEW b \in Agents \cup {NoAgent}, Applied(r, b) \/ Failed(r, b)
  PROVE  /\ target' \in [Resources -> Agents \cup {NoAgent}]
         /\ used' \in UsedType /\ used'.cloud = used.cloud
<1>1. NoFault \/ Fault
  BY DEF Applied, Failed
<1>2. used' \in UsedType /\ used'.cloud = used.cloud
  BY <1>1, UsedKeepsType DEF RestTyped
<1> QED
  BY <1>2 DEF RestTyped, Applied, Failed

LEMMA SupervisorTypes ==
  ASSUME SupTyped, RestTyped, NEW a \in Agents, Supervise(a)
  PROVE  Reported(a) /\ RestTyped' /\ used'.cloud = used.cloud
<1> USE DEF SupervisorPcs
<1>1. CASE ReadLease(a)
  <2>1. used' \in UsedType /\ used'.cloud = used.cloud
    BY <1>1, UsedKeepsType DEF ReadLease, RestTyped
  <2>2. ASSUME TakeOver(a) PROVE Reported(a)
    <3> DEFINE s == [sup[a] EXCEPT !.pc = "acquire", !.mode = "activate"]
    <3>1. s \in SupervisorType
      BY SupervisorFields DEF SupervisorType
    <3>2. sup' = [sup EXCEPT ![a] = s] /\ status' \in [Agents -> StatusType]
          /\ fresh' \subseteq Agents
      BY <2>2 DEF TakeOver, SupTyped, StatusType
    <3> HIDE DEF s
    <3> QED
      BY <3>1, <3>2, SupervisorFieldsTyped
  <2>3. ASSUME Unread(a) PROVE Reported(a)
    <3>1. CASE EndOwned(a, "DEGRADED", sup[a].owned)
      BY <3>1, SupervisorFields, EndOwnedTyped DEF StatusType
    <3> QED
      BY <2>2, <2>3, <3>1 DEF Unread
  <2>4. ASSUME NEW l \in Reads, UNCHANGED <<status, fresh>>,
               sup' = [sup EXCEPT ![a].pc = "renew", ![a].gen = l.generation]
        PROVE  Reported(a)
    <3> DEFINE s == [sup[a] EXCEPT !.pc = "renew", !.gen = l.generation]
    <3>1. l.generation \in 0 .. MaxGen
      BY <2>4, ReadsAreTyped DEF RestTyped
    <3>2. s \in SupervisorType
      BY <3>1, SupervisorFields DEF SupervisorType
    <3>3. sup' = [sup EXCEPT ![a] = s] /\ status' \in [Agents -> StatusType]
          /\ fresh' \subseteq Agents
      BY <2>4 DEF SupTyped
    <3> HIDE DEF s
    <3> QED
      BY <3>2, <3>3, SupervisorFieldsTyped
  <2>5. ASSUME EndStep(a, "STANDBY", 0), UNCHANGED fresh PROVE Reported(a)
    <3>1. 0 \in 0 .. MaxGen /\ "STANDBY" \in StatusType /\ fresh' \subseteq Agents
      BY <2>5, Bounds DEF StatusType, SupTyped
    <3> QED
      BY <2>5, <3>1, EndStepTyped
  <2>6. Reported(a)
    BY <1>1, <2>2, <2>3, <2>4, <2>5 DEF ReadLease
  <2> QED
    BY <1>1, <2>1, <2>6 DEF ReadLease, RestTyped
<1>2. CASE RenewLease(a)
  <2>1. used' \in UsedType /\ used'.cloud = used.cloud
    BY <1>2, UsedKeepsType DEF RenewLease, RestTyped
  <2>2. MayExtend(a, sup[a].gen) => LeaseOf(a, sup[a].gen) \in Leases
    BY OwnershipAgents DEF MayExtend, Mine, LeaseOf, Leases, RestTyped, NoLease
  <2>3. lease' \in Leases /\ replica' \in Leases
    BY <1>2, <2>2, StoreKeepsType DEF RenewLease, RestTyped
  <2>4. CASE Reach(a, "verify") /\ UNCHANGED <<status, fresh>>
    BY <1>2, <2>1, <2>3, <2>4, ReachTyped DEF RenewLease, RestTyped
  <2>5. CASE EndDegraded(a) \/ EndOwned(a, "DEGRADED", sup[a].gen)
    BY <1>2, <2>1, <2>3, <2>5, SupervisorFields, EndOwnedTyped
       DEF RenewLease, RestTyped, EndDegraded, StatusType
  <2> QED
    BY <1>2, <2>4, <2>5 DEF RenewLease
<1>3. CASE Acquire(a)
  <2>1. used' \in UsedType /\ used'.cloud = used.cloud
    BY <1>3, UsedKeepsType DEF Acquire, RestTyped
  <2>2. lease.generation < MaxGen =>
          /\ lease.generation + 1 \in 0 .. MaxGen
          /\ LeaseOf(a, lease.generation + 1) \in Leases
    BY Bounds DEF LeaseOf, Leases, RestTyped, NoLease
  <2>3. lease' \in Leases /\ replica' \in Leases
    BY <1>3, <2>2, StoreKeepsType DEF Acquire, RestTyped
  <2>4. ASSUME NEW pc \in {"verify", "abort"}, NEW g \in 0 .. MaxGen, UNCHANGED status,
               sup' = [sup EXCEPT ![a].pc = pc, ![a].gen = g]
        PROVE  Reported(a)
    <3> DEFINE s == [sup[a] EXCEPT !.pc = pc, !.gen = g]
    <3>1. s \in SupervisorType
      BY SupervisorFields DEF SupervisorType
    <3>2. sup' = [sup EXCEPT ![a] = s] /\ status' \in [Agents -> StatusType]
          /\ fresh' \subseteq Agents
      BY <1>3, <2>4 DEF Acquire, SupTyped
    <3> HIDE DEF s
    <3> QED
      BY <3>1, <3>2, SupervisorFieldsTyped
  <2>5. ASSUME EndStep(a, "STANDBY", sup[a].owned) PROVE Reported(a)
    <3>1. "STANDBY" \in StatusType /\ fresh' \subseteq Agents
      BY <1>3 DEF StatusType, SupTyped, Acquire
    <3> QED
      BY <2>5, <3>1, SupervisorFields, EndStepTyped
  <2>6. LeaseOf(a, lease.generation + 1).generation = lease.generation + 1
    BY DEF LeaseOf
  <2>7. Reported(a)
    BY <1>3, <2>2, <2>4, <2>5, <2>6 DEF Acquire
  <2> QED
    BY <1>3, <2>1, <2>3, <2>7 DEF Acquire, RestTyped
<1>4. ASSUME NEW pc \in SupervisorPcs, Fenced(a, pc), UNCHANGED <<lease, replica, target, up>>
      PROVE  Reported(a) /\ RestTyped' /\ used'.cloud = used.cloud
  <2>1. NoFault \/ Fault
    BY <1>4, FenceUses DEF Fenced
  <2>2. Reported(a)
    BY <1>4, ReachTyped, FailTyped DEF Fenced
  <2> QED
    BY <1>4, <2>1, <2>2, UsedKeepsType DEF RestTyped
<1>5. CASE VerifyLease(a) \/ Reverify(a) \/ Fence(a)
  BY <1>4, <1>5 DEF VerifyLease, Reverify, Fence
<1>6. CASE LockOwnership(a)
  <2>1. Reported(a)
    BY <1>6, ReachTyped DEF LockOwnership
  <2> QED
    BY <1>6, <2>1 DEF LockOwnership, RestTyped
<1>7. ASSUME NoFault \/ Fault, UNCHANGED <<lease, replica, target, up>>,
             \/ AfterOwned(a) \/ Fail(a)
             \/ Advance(a, Verified, "check", "final") /\ UNCHANGED <<status, fresh>>
             \/ EndOwned(a, "ACTIVE", sup[a].gen)
             \/ \E pc \in SupervisorPcs : Reach(a, pc) /\ UNCHANGED <<status, fresh>>
      PROVE  Reported(a) /\ RestTyped' /\ used'.cloud = used.cloud
  <2>1. Reported(a)
    <3>1. CASE Advance(a, Verified, "check", "final") /\ UNCHANGED <<status, fresh>>
      BY <3>1, AdvanceTyped, Lengths
    <3>2. CASE EndOwned(a, "ACTIVE", sup[a].gen)
      BY <3>2, SupervisorFields, EndOwnedTyped DEF StatusType
    <3> QED
      BY <1>7, <3>1, <3>2, AfterOwnedTyped, FailTyped, ReachTyped
  <2> QED
    BY <1>7, <2>1, UsedKeepsType DEF RestTyped
<1>8. CASE Describe(a)
  BY <1>7, <1>8 DEF Describe
<1>9. CASE Mutate(a)
  <2>1. /\ target' \in [Resources -> Agents \cup {NoAgent}]
        /\ used' \in UsedType /\ used'.cloud = used.cloud
    BY <1>9, TargetTyped DEF Mutate
  <2>2. RestTyped'
    BY <1>9, <2>1 DEF Mutate, RestTyped
  <2> DEFINE stray == sup[a].stray \/ lease.owner \notin {a, NoAgent}
             s == [sup[a] EXCEPT !.pc = "postfence", !.stray = stray]
  <2>3. s \in SupervisorType
    BY SupervisorFields DEF SupervisorType
  <2> HIDE DEF stray, s
  <2>4. CASE sup' = [sup EXCEPT ![a] = s] /\ UNCHANGED <<status, fresh>>
    BY <2>1, <2>2, <2>3, <2>4, SupervisorFieldsTyped DEF SupTyped
  <2>5. CASE Fail(a)
    BY <2>1, <2>2, <2>5, FailTyped
  <2> QED
    BY <1>9, <2>4, <2>5 DEF Mutate, stray, s
<1>10. CASE PostFence(a)
  <2>1. NoFault \/ Fault
    BY <1>10, FenceUses DEF PostFence
  <2> QED
    BY <1>7, <1>10, <2>1 DEF PostFence
<1>11. CASE Confirm(a)
  BY <1>7, <1>11 DEF Confirm
<1>12. CASE Check(a)
  BY <1>7, <1>12 DEF Check
<1>13. CASE Final(a)
  <2>1. NoFault \/ Fault
    BY <1>13, FenceUses DEF Final
  <2> QED
    BY <1>7, <1>13, <2>1 DEF Final
<1>14. CASE Abort(a)
  <2>1. used' \in UsedType /\ used'.cloud = used.cloud
    BY <1>14, UsedKeepsType DEF Abort, RestTyped
  <2>2. lease' \in Leases /\ replica' \in Leases
    BY <1>14, StoreKeepsType DEF Abort, RestTyped, Leases
  <2>3. "STANDBY" \in StatusType /\ fresh' \subseteq Agents
    BY <1>14 DEF StatusType, SupTyped, Abort
  <2>4. Reported(a)
    BY <1>14, <2>3, SupervisorFields, EndStepTyped DEF Abort
  <2> QED
    BY <1>14, <2>1, <2>2, <2>4 DEF Abort, RestTyped
<1> QED
  BY <1>1, <1>2, <1>3, <1>5, <1>6, <1>8, <1>9, <1>10, <1>11, <1>12, <1>13, <1>14 DEF Supervise

-----------------------------------------------------------------------------
(* The same for a handover.                                                *)
HandTyped == hand \in [Agents -> HandoverType] /\ MovesInOrder

LEMMA HandoverFields ==
  ASSUME HandTyped, NEW a \in Agents
  PROVE  /\ hand[a] \in HandoverType /\ hand[a].i \in 1 .. Len(Owned)
         /\ hand[a].try \in 1 .. MaxTries /\ hand[a].gen \in 0 .. MaxGen
         /\ hand[a].pc # "revert" => hand[a].i <= Len(Moved)
BY DEF HandTyped, HandoverType, MovesInOrder

LEMMA HandTypedUpdate ==
  ASSUME HandTyped, NEW a \in Agents, NEW h \in HandoverType,
         hand' = [hand EXCEPT ![a] = h], used'.cloud = used.cloud,
         h.pc # "revert" => h.i <= Len(Moved)
  PROVE  HandTyped'
<1>1. Moved' = Moved
  BY DEF Moved, ConnectivityFirst
<1>2. hand' \in [Agents -> HandoverType]
  BY DEF HandTyped
<1>3. ASSUME NEW b \in Agents, hand'[b].pc # "revert" PROVE hand'[b].i <= Len(Moved)
  <2>1. CASE b = a
    BY <1>3, <2>1 DEF HandTyped
  <2>2. CASE b # a
    BY <1>3, <2>2 DEF HandTyped, MovesInOrder
  <2> QED
    BY <2>1, <2>2
<1> QED
  BY <1>1, <1>2, <1>3 DEF HandTyped, MovesInOrder

LEMMA FirstOfAll == 1 \in 1 .. Len(Owned) /\ 1 \in 1 .. MaxTries /\ 1 <= Len(Moved)
BY Lengths, Bounds

LEMMA EndHandoverTyped ==
  ASSUME HandTyped, NEW a \in Agents, EndHandover(a), used'.cloud = used.cloud
  PROVE  HandTyped'
<1>1. 0 \in 0 .. MaxGen
  BY Bounds
<1>2. NoHandover \in HandoverType /\ NoHandover.i <= Len(Moved)
  BY <1>1, FirstOfAll DEF NoHandover, HandoverType, HandoverPcs
<1>3. hand' = [hand EXCEPT ![a] = NoHandover]
  BY DEF EndHandover
<1> QED
  BY <1>2, <1>3, HandTypedUpdate

LEMMA HProceedTyped ==
  ASSUME HandTyped, NEW a \in Agents, NEW pc \in HandoverPcs, HProceed(a, pc),
         used'.cloud = used.cloud
  PROVE  HandTyped'
<1> DEFINE h == [hand[a] EXCEPT !.pc = pc, !.i = 1, !.try = 1]
<1>1. h \in HandoverType /\ h.i = 1
  BY HandoverFields, FirstOfAll DEF HandoverType
<1>2. hand' = [hand EXCEPT ![a] = h]
  BY DEF HProceed
<1> HIDE DEF h
<1> QED
  BY <1>1, <1>2, FirstOfAll, HandTypedUpdate

LEMMA HMoveFailsTyped ==
  ASSUME HandTyped, NEW a \in Agents, HMoveFails(a), used'.cloud = used.cloud
  PROVE  HandTyped'
BY HProceedTyped DEF HMoveFails, HandoverPcs

LEMMA HReachTyped ==
  ASSUME HandTyped, NEW a \in Agents, NEW pc \in HandoverPcs \ {"revert"},
         HReach(a, pc), used'.cloud = used.cloud, hand[a].pc # "revert"
  PROVE  HandTyped'
<1> DEFINE h == [hand[a] EXCEPT !.pc = pc]
<1>1. h \in HandoverType /\ h.i <= Len(Moved)
  BY HandoverFields DEF HandoverType
<1>2. hand' = [hand EXCEPT ![a] = h]
  BY DEF HReach
<1> HIDE DEF h
<1> QED
  BY <1>1, <1>2, HandTypedUpdate

LEMMA HNextTyped ==
  ASSUME HandTyped, NEW a \in Agents, NEW resources, Len(resources) = Len(Moved),
         NEW again \in HandoverPcs, NEW end \in HandoverPcs,
         HNext(a, resources, again, end), used'.cloud = used.cloud,
         hand[a].pc # "revert"
  PROVE  HandTyped'
<1>1. CASE HProceed(a, end)
  BY <1>1, HProceedTyped
<1>2. CASE ~ HProceed(a, end)
  <2> DEFINE i == hand[a].i + 1
             h == [hand[a] EXCEPT !.pc = again, !.i = i, !.try = 1]
  <2>1. i \in 1 .. Len(Owned) /\ i <= Len(Moved)
    BY <1>2, HandoverFields, Lengths DEF HNext
  <2>2. hand' = [hand EXCEPT ![a] = h]
    BY <1>2 DEF HNext
  <2> HIDE DEF i
  <2>3. h \in HandoverType /\ h.i = i
    BY <2>1, HandoverFields, FirstOfAll DEF HandoverType
  <2> HIDE DEF h
  <2> QED
    BY <2>1, <2>2, <2>3, HandTypedUpdate
<1> QED
  BY <1>1, <1>2

LEMMA HandoverTypes ==
  ASSUME HandTyped, RestTyped, TargetKnown, NEW a \in Agents, Handover(a)
  PROVE  HandTyped' /\ RestTyped' /\ used'.cloud = used.cloud
<1> USE DEF HandoverPcs
<1>1. ASSUME NoFault \/ Fault, UNCHANGED <<lease, replica, target>>
      PROVE  RestTyped' /\ used'.cloud = used.cloud
  BY <1>1, UsedKeepsType DEF RestTyped, Handover
<1>2. ASSUME NEW g, RenewedFence(a, g) \/ RenewFails(a, g)
      PROVE  NoFault \/ Fault
  BY <1>2, FenceUses DEF RenewedFence, RenewFails
<1>3. CASE HVerify(a) \/ HFenceRevert(a)
  <2>1. NoFault \/ Fault
    BY <1>3, FenceUses DEF HVerify, HFenceRevert
  <2> QED
    BY <1>1, <1>3, <2>1, HProceedTyped, EndHandoverTyped DEF HVerify, HFenceRevert
<1>4. CASE HLock(a)
  BY <1>1, <1>4, HReachTyped DEF HLock, NoFault
<1>5. CASE HRenew(a)
  BY <1>1, <1>2, <1>5, HProceedTyped, EndHandoverTyped DEF HRenew
<1>6. CASE HFence(a)
  BY <1>1, <1>2, <1>6, HReachTyped, HMoveFailsTyped DEF HFence
<1>7. CASE HMutate(a)
  <2>1. target' \in [Resources -> Agents \cup {NoAgent}] /\ (NoFault \/ Fault)
    <3>1. hand[a].to \in Agents
      BY <1>7 DEF HMutate, TargetKnown
    <3> QED
      BY <1>7, <3>1 DEF HMutate, Applied, RestTyped
  <2>2. RestTyped' /\ used'.cloud = used.cloud
    BY <1>7, <2>1, UsedKeepsType DEF HMutate, RestTyped, Handover
  <2> DEFINE stray == hand[a].stray \/ lease.owner \notin {a, NoAgent}
  <2>3. ASSUME NEW pc \in {"postfence", "confirm"},
               hand' = [hand EXCEPT ![a].pc = pc, ![a].stray = stray]
        PROVE  HandTyped'
    <3> DEFINE h == [hand[a] EXCEPT !.pc = pc, !.stray = stray]
    <3>1. h \in HandoverType /\ h.i <= Len(Moved)
      BY <1>7, HandoverFields DEF HandoverType, HMutate
    <3>2. hand' = [hand EXCEPT ![a] = h]
      BY <2>3
    <3> HIDE DEF h
    <3> QED
      BY <2>2, <3>1, <3>2, HandTypedUpdate
  <2> QED
    BY <1>7, <2>2, <2>3 DEF HMutate
<1>8. CASE HPostFence(a)
  <2>1. NoFault \/ Fault
    BY <1>8, FenceUses DEF HPostFence
  <2> QED
    BY <1>1, <1>8, <2>1, HNextTyped, HReachTyped, HMoveFailsTyped DEF HPostFence
<1>9. CASE HConfirm(a)
  <2> DEFINE try == hand[a].try + 1
             h == [hand[a] EXCEPT !.pc = "fence", !.try = try]
  <2>1. RestTyped' /\ used'.cloud = used.cloud
    BY <1>1, <1>9 DEF HConfirm
  <2>2. ASSUME hand[a].try < MaxTries, hand' = [hand EXCEPT ![a] = h] PROVE HandTyped'
    <3>1. try \in 1 .. MaxTries
      BY <2>2, HandoverFields, Bounds
    <3> HIDE DEF try
    <3>2. h \in HandoverType /\ h.i <= Len(Moved)
      BY <1>9, <3>1, HandoverFields DEF HandoverType, HConfirm
    <3> HIDE DEF h
    <3> QED
      BY <2>1, <2>2, <3>2, HandTypedUpdate
  <2>3. ASSUME HNext(a, Moved, "fence", "check") \/ HMoveFails(a) PROVE HandTyped'
    BY <1>9, <2>1, <2>3, HNextTyped, HMoveFailsTyped DEF HConfirm
  <2> QED
    BY <1>9, <2>1, <2>2, <2>3 DEF HConfirm
<1>10. CASE HCheck(a)
  BY <1>1, <1>10, Lengths, HNextTyped, HProceedTyped DEF HCheck
<1>11. CASE HRenewBeforeTransfer(a)
  BY <1>1, <1>2, <1>11, HReachTyped, HProceedTyped DEF HRenewBeforeTransfer
<1>12. CASE HTransfer(a)
  <2>1. used' \in UsedType /\ used'.cloud = used.cloud
    BY <1>12, UsedKeepsType DEF HTransfer, RestTyped
  <2>2. hand[a].gen < MaxGen => LeaseOf(hand[a].to, hand[a].gen + 1) \in Leases
    <3>1. hand[a].to \in Agents
      BY <1>12 DEF HTransfer, TargetKnown
    <3>2. hand[a].gen < MaxGen => hand[a].gen + 1 \in 1 .. MaxGen
      BY HandoverFields, Bounds
    <3> QED
      BY <3>1, <3>2 DEF LeaseOf, Leases
  <2>3. lease' \in Leases /\ replica' \in Leases
    BY <1>12, <2>2, StoreKeepsType DEF HTransfer, RestTyped
  <2>4. RestTyped'
    BY <1>12, <2>1, <2>3 DEF HTransfer, RestTyped, Handover
  <2> QED
    BY <1>12, <2>1, <2>4, HProceedTyped, EndHandoverTyped DEF HTransfer
<1>13. CASE HRevert(a)
  <2>1. /\ target' \in [Resources -> Agents \cup {NoAgent}]
        /\ used' \in UsedType /\ used'.cloud = used.cloud
    BY <1>13, TargetTyped DEF HRevert
  <2>2. RestTyped'
    BY <1>13, <2>1 DEF HRevert, RestTyped, Handover
  <2> DEFINE i == hand[a].i + 1
             h == [hand[a] EXCEPT !.i = i]
  <2>3. ASSUME hand[a].i # Len(Owned), hand' = [hand EXCEPT ![a] = h] PROVE HandTyped'
    <3>1. i \in 1 .. Len(Owned)
      BY <2>3, HandoverFields, Lengths
    <3> HIDE DEF i
    <3>2. h \in HandoverType /\ h.pc = "revert"
      BY <1>13, <3>1, HandoverFields DEF HandoverType, HRevert
    <3> HIDE DEF h
    <3> QED
      BY <2>1, <2>3, <3>2, HandTypedUpdate
  <2> QED
    BY <1>13, <2>1, <2>2, <2>3, EndHandoverTyped DEF HRevert
<1> QED
  BY <1>3, <1>4, <1>5, <1>6, <1>7, <1>8, <1>9, <1>10, <1>11, <1>12, <1>13 DEF Handover

-----------------------------------------------------------------------------
HistoryTyped == released \in BOOLEAN /\ strayed \subseteq Resources

(* Only the steps of an agent are remembered.                              *)
LEMMA NextRemembers ==
  ASSUME [Next]_vars
  PROVE  \/ UNCHANGED history
         \/ \E a \in Agents : Remember(a) /\ (Supervise(a) \/ Handover(a) \/ Stop(a))
BY DEF Next, Supervise, Handover, StartHandover, SnapshotExpires, Crash, Stop,
   Restart, Expire, ReplicaExpires, Converge, vars

LEMMA HistoryTypes ==
  ASSUME HistoryTyped, [Next]_vars
  PROVE  HistoryTyped'
<1>1. Resources' = Resources
  BY DEF Resources
<1>2. CASE UNCHANGED history
  BY <1>1, <1>2 DEF HistoryTyped, history
<1>3. CASE \E a \in Agents : Remember(a)
  BY <1>1, <1>3 DEF HistoryTyped, Remember
<1> QED
  BY <1>2, <1>3, NextRemembers

LEMMA TypesInParts ==
  TypeOK <=> /\ SupTyped /\ RestTyped /\ hand \in [Agents -> HandoverType]
             /\ MutexShape /\ HistoryTyped
BY DEF TypeOK, SupTyped, RestTyped, MutexShape, SupervisorType, HandoverType,
   StatusType, UsedType, HistoryTyped

LEMMA NothingIsTyped == NoLease \in Leases
BY DEF Leases

LEMMA ExpiredIsTyped ==
  ASSUME NEW l \in Leases, l.live
  PROVE  [l EXCEPT !.live = FALSE] \in Leases
<1>1. l # NoLease
  BY DEF NoLease
<1>2. l \in [owner : Agents, generation : 1 .. MaxGen, live : BOOLEAN]
  BY <1>1 DEF Leases
<1>3. [l EXCEPT !.live = FALSE] \in [owner : Agents, generation : 1 .. MaxGen, live : BOOLEAN]
  BY <1>2
<1> QED
  BY <1>3 DEF Leases

LEMMA InitTypes == Init => TInv
<1> SUFFICES ASSUME Init PROVE TInv
  OBVIOUS
<1>1. Idle \in SupervisorType /\ NoHandover \in HandoverType /\ NoHandover.i <= Len(Moved)
  <2>1. 0 \in 0 .. MaxGen
    BY Bounds
  <2> QED
    BY <2>1, FirstOfAll
    DEF Idle, SupervisorType, SupervisorPcs, NoHandover, HandoverType, HandoverPcs
<1>2. SupTyped /\ HandTyped
  BY <1>1 DEF Init, SupTyped, HandTyped, StatusType, MovesInOrder
<1>3. RestTyped
  <2>1. 0 \in 0 .. MaxHandovers
    BY Bounds
  <2> QED
    BY <2>1, NothingIsTyped DEF Init, RestTyped, UsedType
<1>4. IInv
  BY InitInvariant
<1>5. HistoryTyped
  BY DEF Init, HistoryTyped
<1> QED
  BY <1>2, <1>3, <1>4, <1>5, TypesInParts DEF TInv, HandTyped, IInv

LEMMA StartHandoverTypes ==
  ASSUME HandTyped, RestTyped, NEW a \in Agents, NEW b \in Agents, StartHandover(a, b)
  PROVE  HandTyped' /\ RestTyped'
<1>1. PICK l \in Reads :
        hand' = [hand EXCEPT ![a].pc = "verify", ![a].to = b,
                             ![a].gen = l.generation]
  BY DEF StartHandover
<1>2. used' \in UsedType /\ used'.cloud = used.cloud
  <2>1. used.handovers + 1 \in 0 .. MaxHandovers
    BY Bounds DEF StartHandover, RestTyped, UsedType
  <2> QED
    BY <2>1 DEF StartHandover, RestTyped, UsedType
<1> DEFINE h == [hand[a] EXCEPT !.pc = "verify", !.to = b, !.gen = l.generation]
<1>3. l.generation \in 0 .. MaxGen
  BY ReadsAreTyped DEF RestTyped
<1>4. h \in HandoverType /\ h.i <= Len(Moved)
  <2>1. hand[a] \in HandoverType /\ hand[a].i <= Len(Moved)
    BY HandoverFields DEF StartHandover
  <2> HIDE DEF Reads
  <2> QED
    BY <1>3, <2>1 DEF HandoverType, HandoverPcs
<1>5. hand' = [hand EXCEPT ![a] = h]
  BY <1>1
<1> HIDE DEF h
<1>6. HandTyped'
  BY <1>2, <1>4, <1>5, HandTypedUpdate
<1>7. RestTyped'
  BY <1>2 DEF StartHandover, RestTyped
<1> QED
  BY <1>6, <1>7

LEMMA LeaveTypes ==
  ASSUME HandTyped, SupTyped, RestTyped, NEW a \in Agents, Crash(a) \/ Stop(a)
  PROVE  HandTyped' /\ SupTyped' /\ RestTyped'
<1>1. Leave(a)
  BY DEF Crash, Stop
<1>2. used' \in UsedType /\ used'.cloud = used.cloud
  BY <1>1 DEF Leave, RestTyped, UsedType
<1>3. lease' \in Leases /\ replica' \in Leases
  BY NothingIsTyped, StoreKeepsType DEF Crash, Stop, RestTyped
<1>4. /\ 0 \in 0 .. MaxGen
      /\ NoHandover \in HandoverType /\ NoHandover.i <= Len(Moved)
      /\ Idle \in SupervisorType
  <2>1. 0 \in 0 .. MaxGen
    BY Bounds
  <2> QED
    BY <2>1, FirstOfAll
    DEF Idle, SupervisorType, SupervisorPcs, NoHandover, HandoverType, HandoverPcs
<1>5. HandTyped'
  <2>1. hand' = [hand EXCEPT ![a] = NoHandover]
    BY <1>1 DEF Leave
  <2> QED
    BY <1>2, <1>4, <2>1, HandTypedUpdate
<1>6. SupTyped'
  BY <1>1, <1>4 DEF Leave, SupTyped, StatusType
<1>7. RestTyped'
  BY <1>1, <1>2, <1>3 DEF Leave, RestTyped
<1> QED
  BY <1>5, <1>6, <1>7

(* A step of the environment that touches no control state.                *)
LEMMA EnvironmentTypes ==
  ASSUME HandTyped, SupTyped, RestTyped, UNCHANGED <<sup, hand, status, target>>,
         lease' \in Leases, replica' \in Leases, fresh' \subseteq Agents,
         up' \subseteq Agents, used' \in UsedType, used'.cloud = used.cloud
  PROVE  HandTyped' /\ SupTyped' /\ RestTyped'
BY DEF HandTyped, SupTyped, RestTyped, MovesInOrder, Moved, ConnectivityFirst

LEMMA NextTypes == TInv /\ [Next]_vars => TInv'
<1> SUFFICES ASSUME TInv, [Next]_vars PROVE TInv'
  OBVIOUS
<1>1. IInv /\ IInv' /\ TargetKnown
  BY NextInvariant DEF TInv, IInv
<1>2. HandTyped /\ SupTyped /\ RestTyped /\ HistoryTyped
  BY TypesInParts DEF TInv, HandTyped
<1> SUFFICES HandTyped' /\ SupTyped' /\ RestTyped'
  <2>1. TypeOK' <=> /\ SupTyped' /\ RestTyped' /\ (hand \in [Agents -> HandoverType])'
                    /\ MutexShape' /\ HistoryTyped'
    BY TypesInParts, PTL
  <2>2. HistoryTyped'
    BY <1>2, HistoryTypes
  <2> QED
    BY <1>1, <2>1, <2>2 DEF TInv, HandTyped, IInv
<1>3. ASSUME NEW a \in Agents, Supervise(a) PROVE HandTyped' /\ SupTyped' /\ RestTyped'
  <2>1. Reported(a) /\ RestTyped' /\ used'.cloud = used.cloud
    BY <1>2, <1>3, SupervisorTypes
  <2>2. hand' = hand
    BY <1>3
    DEF Supervise, ReadLease, RenewLease, Acquire, VerifyLease, LockOwnership,
        Reverify, Describe, Fence, Mutate, PostFence, Confirm, Check, Final, Abort
  <2> QED
    BY <1>2, <2>1, <2>2
    DEF Reported, SupTyped, HandTyped, MovesInOrder, Moved, ConnectivityFirst
<1>4. ASSUME NEW a \in Agents, Handover(a) PROVE HandTyped' /\ SupTyped' /\ RestTyped'
  BY <1>1, <1>2, <1>4, HandoverTypes DEF Handover, SupTyped
<1>5. ASSUME NEW a \in Agents, NEW b \in Agents, StartHandover(a, b)
      PROVE  HandTyped' /\ SupTyped' /\ RestTyped'
  BY <1>2, <1>5, StartHandoverTypes DEF StartHandover, SupTyped
<1>6. ASSUME NEW a \in Agents, Crash(a) \/ Stop(a)
      PROVE  HandTyped' /\ SupTyped' /\ RestTyped'
  BY <1>2, <1>6, LeaveTypes
<1>7. ASSUME NEW a \in Agents, SnapshotExpires(a) \/ Restart(a)
      PROVE  HandTyped' /\ SupTyped' /\ RestTyped'
  BY <1>2, <1>7, EnvironmentTypes DEF SnapshotExpires, Restart, RestTyped, SupTyped
<1>8. CASE Expire
  <2>1. used' \in UsedType /\ used'.cloud = used.cloud
    BY <1>2, <1>8 DEF Expire, RestTyped, UsedType
  <2>2. lease' \in Leases /\ replica' \in Leases /\ fresh' \subseteq Agents
    BY <1>2, <1>8, ExpiredIsTyped DEF Expire, RestTyped, SupTyped
  <2>3. UNCHANGED <<sup, hand, status, target, up>>
    BY <1>8 DEF Expire
  <2> QED
    BY <1>2, <2>1, <2>2, <2>3, EnvironmentTypes DEF RestTyped
<1>9. CASE ReplicaExpires \/ Converge
  <2>1. lease' \in Leases /\ replica' \in Leases
    BY <1>2, <1>9, ExpiredIsTyped DEF ReplicaExpires, Converge, RestTyped
  <2> QED
    BY <1>2, <1>9, <2>1, EnvironmentTypes DEF ReplicaExpires, Converge, RestTyped, SupTyped
<1>10. CASE UNCHANGED vars
  BY <1>2, <1>10, EnvironmentTypes DEF vars, RestTyped, SupTyped
<1> QED
  BY <1>3, <1>4, <1>5, <1>6, <1>7, <1>8, <1>9, <1>10 DEF Next

(* Every variable keeps its type: no resource is addressed beyond the      *)
(* sequences, and neither generations nor attempts leave their bounds.     *)
THEOREM OwnershipTypeCorrect == Spec => []TypeOK
<1>1. TInv => TypeOK
  BY DEF TInv
<1> QED
  BY <1>1, InitTypes, NextTypes, PTL DEF Spec

-----------------------------------------------------------------------------
(* The steps of a supervisor, by what they do to its control state.        *)
Ends(a) ==
  /\ sup'[a].pc = "idle" /\ sup'[a].mode = "repair" /\ sup'[a].i = 1
  /\ sup'[a].gen = 0 /\ sup'[a].stray = FALSE
Begins(a) ==
  /\ sup[a].pc = "idle" /\ sup'[a].pc \in {"acquire", "renew"}
  /\ sup'[a].i = sup[a].i /\ sup'[a].stray = sup[a].stray
  /\ \/ sup'[a].gen = sup[a].gen
     \/ \E l \in Reads : sup'[a].gen = l.generation
Gets(a) ==
  /\ sup[a].pc = "acquire" /\ sup'[a].pc \in {"verify", "abort"}
  /\ sup'[a].i = sup[a].i /\ sup'[a].stray = sup[a].stray
  /\ sup'[a].gen = lease'.generation /\ lease'.owner = a /\ lease'.live
Keeps(a) == sup'[a].mode = sup[a].mode /\ sup'[a].gen = sup[a].gen
Goes(a) ==
  /\ Keeps(a) /\ sup'[a].i = sup[a].i /\ sup'[a].stray = sup[a].stray
  /\ \/ sup[a].pc = "renew" /\ sup'[a].pc = "verify" /\ lease'.owner = a /\ lease'.live
     \/ sup[a].pc = "verify" /\ sup'[a].pc = "lock"
     \/ sup[a].pc = "lock" /\ sup'[a].pc \in {"describe", "reverify"}
     \/ sup[a].pc = "reverify" /\ sup'[a].pc = "fence"
     \/ sup[a].pc = "describe" /\ sup'[a].pc = "fence"
     \/ sup[a].pc = "fence" /\ sup'[a].pc = "mutate" /\ FencePasses(a, sup[a].gen)
     \/ sup[a].pc = "postfence" /\ sup'[a].pc = "confirm"
     \/ sup'[a].pc = "abort"
Mutates(a) ==
  /\ Keeps(a) /\ sup'[a].i = sup[a].i
  /\ sup[a].pc = "mutate" /\ sup'[a].pc = "postfence"
  /\ sup'[a].stray = (sup[a].stray \/ lease.owner \notin {a, NoAgent})
  /\ target' = [target EXCEPT ![Owned[sup[a].i]] = a]
(* On to the next resource, or past the last one.                          *)
Passes(a) ==
  /\ Keeps(a) /\ sup'[a].stray = sup[a].stray
  /\ \/ sup[a].pc = "describe" /\ target[Owned[sup[a].i]] = a
     \/ sup[a].pc \in {"postfence", "confirm"}
  /\ \/ /\ sup[a].i = Len(Owned) /\ sup'[a].i = 1
        /\ sup'[a].pc = IF sup[a].mode = "repair" THEN "final" ELSE "check"
     \/ /\ sup[a].i # Len(Owned) /\ sup'[a].i = sup[a].i + 1
        /\ sup'[a].pc \in {"describe", "fence"}
ReadsBack(a) ==
  /\ Keeps(a) /\ sup'[a].stray = sup[a].stray
  /\ sup[a].pc = "check" /\ sup'[a].pc \in {"check", "final"}
Controlled(a) ==
  \/ Ends(a) \/ Begins(a) \/ Gets(a) \/ Goes(a) \/ Mutates(a) \/ Passes(a) \/ ReadsBack(a)

LEMMA ReachControlled ==
  ASSUME IInv, NEW a \in Agents, NEW pc, Reach(a, pc)
  PROVE  /\ Keeps(a) /\ sup'[a].i = sup[a].i /\ sup'[a].stray = sup[a].stray
         /\ sup'[a].pc = pc
BY DEF Reach, Keeps, IInv, SupervisorShape, SupervisorState

LEMMA EndStepControlled ==
  ASSUME IInv, NEW a \in Agents, NEW st, NEW owned, EndStep(a, st, owned)
  PROVE  Ends(a)
<1>1. sup'[a] = [Idle EXCEPT !.owned = owned]
  BY DEF EndStep, IInv, SupervisorShape
<1> QED
  BY <1>1 DEF Idle, Ends

LEMMA EndOwnedControlled ==
  ASSUME IInv, NEW a \in Agents, NEW st, NEW g, EndOwned(a, st, g)
  PROVE  Ends(a)
BY EndStepControlled DEF EndOwned

LEMMA FailControlled ==
  ASSUME IInv, NEW a \in Agents, Fail(a)
  PROVE  Ends(a) \/ Goes(a)
<1>1. CASE EndDegraded(a)
  BY <1>1, EndOwnedControlled DEF EndDegraded
<1>2. CASE Reach(a, "abort")
  BY <1>2, ReachControlled DEF Goes
<1> QED
  BY <1>1, <1>2 DEF Fail

LEMMA AfterOwnedControlled ==
  ASSUME IInv, NEW a \in Agents, AfterOwned(a),
         \/ sup[a].pc = "describe" /\ target[Owned[sup[a].i]] = a
         \/ sup[a].pc \in {"postfence", "confirm"}
  PROVE  Passes(a)
<1>1. /\ sup \in [Agents -> SupervisorState] /\ sup[a] \in SupervisorState
  BY DEF IInv, SupervisorShape
<1>2. CASE sup[a].mode = "repair"
  <2>1. Advance(a, Owned, "describe", "final")
    BY <1>2 DEF AfterOwned
  <2> QED
    BY <1>1, <1>2, <2>1 DEF Advance, Passes, Keeps, SupervisorState
<1>3. CASE sup[a].mode # "repair"
  <2>1. Advance(a, Owned, "fence", "check")
    BY <1>3 DEF AfterOwned
  <2> QED
    BY <1>1, <1>3, <2>1 DEF Advance, Passes, Keeps, SupervisorState
<1> QED
  BY <1>2, <1>3

LEMMA SupervisorControl ==
  ASSUME IInv, NEW a \in Agents, Supervise(a)
  PROVE  Controlled(a)
<1>0. sup \in [Agents -> SupervisorState] /\ sup[a] \in SupervisorState
  BY DEF IInv, SupervisorShape
<1>1. CASE ReadLease(a)
  <2>1. ASSUME TakeOver(a) PROVE Begins(a)
    BY <1>0, <1>1, <2>1 DEF TakeOver, ReadLease, Begins, SupervisorState
  <2>2. ASSUME Unread(a) PROVE Ends(a) \/ Begins(a)
    BY <2>1, <2>2, EndOwnedControlled DEF Unread
  <2>3. ASSUME NEW l \in Reads,
               sup' = [sup EXCEPT ![a].pc = "renew", ![a].gen = l.generation]
        PROVE  Begins(a)
    BY <1>0, <1>1, <2>3 DEF ReadLease, Begins, SupervisorState
  <2> QED
    BY <1>1, <2>1, <2>2, <2>3, EndStepControlled DEF ReadLease, Controlled
<1>2. CASE RenewLease(a)
  <2>1. CASE Reach(a, "verify") /\ lease' = LeaseOf(a, sup[a].gen)
    BY <1>2, <2>1, ReachControlled DEF RenewLease, Goes, LeaseOf, Controlled
  <2>2. CASE EndDegraded(a) \/ EndOwned(a, "DEGRADED", sup[a].gen)
    BY <2>2, EndOwnedControlled DEF EndDegraded, Controlled
  <2> QED
    BY <1>2, <2>1, <2>2 DEF RenewLease, Store
<1>3. CASE Acquire(a)
  <2>1. LeaseOf(a, lease.generation + 1).generation = lease.generation + 1
    BY DEF LeaseOf
  <2>2. ASSUME NEW pc \in {"verify", "abort"}, lease' = LeaseOf(a, lease.generation + 1),
               sup' = [sup EXCEPT ![a].pc = pc, ![a].gen = lease.generation + 1]
        PROVE  Gets(a)
    BY <1>0, <1>3, <2>2 DEF Acquire, Gets, LeaseOf, SupervisorState
  <2> QED
    BY <1>3, <2>1, <2>2, EndStepControlled DEF Acquire, Store, Controlled
<1>4. CASE VerifyLease(a) \/ Reverify(a) \/ Fence(a)
  <2>1. CASE Fail(a)
    BY <2>1, FailControlled DEF Controlled
  <2>2. CASE ~ Fail(a)
    BY <1>4, <2>2, ReachControlled DEF VerifyLease, Reverify, Fence, Fenced, Goes, Controlled
  <2> QED
    BY <2>1, <2>2
<1>5. CASE LockOwnership(a)
  BY <1>5, ReachControlled DEF LockOwnership, Goes, Controlled
<1>6. CASE Describe(a)
  <2>1. CASE Fail(a)
    BY <2>1, FailControlled DEF Controlled
  <2>2. CASE AfterOwned(a) /\ Described(Owned[sup[a].i], a)
    BY <1>6, <2>2, AfterOwnedControlled DEF Describe, Described, Controlled
  <2>3. CASE Reach(a, "fence")
    BY <1>6, <2>3, ReachControlled DEF Describe, Goes, Controlled
  <2> QED
    BY <1>6, <2>1, <2>2, <2>3 DEF Describe
<1>7. CASE Mutate(a)
  <2>1. CASE Fail(a)
    BY <2>1, FailControlled DEF Controlled
  <2>2. CASE /\ Applied(Owned[sup[a].i], a)
             /\ sup' = [sup EXCEPT ![a].pc = "postfence",
                          ![a].stray = @ \/ lease.owner \notin {a, NoAgent}]
    BY <1>0, <1>7, <2>2 DEF Mutate, Applied, Mutates, Keeps, SupervisorState, Controlled
  <2> QED
    BY <1>7, <2>1, <2>2 DEF Mutate
<1>8. CASE PostFence(a)
  <2>1. CASE Fail(a)
    BY <2>1, FailControlled DEF Controlled
  <2>2. CASE AfterOwned(a)
    BY <1>8, <2>2, AfterOwnedControlled DEF PostFence, Controlled
  <2>3. CASE Reach(a, "confirm")
    BY <1>8, <2>3, ReachControlled DEF PostFence, Goes, Controlled
  <2> QED
    BY <1>8, <2>1, <2>2, <2>3 DEF PostFence
<1>9. CASE Confirm(a)
  BY <1>9, FailControlled, AfterOwnedControlled DEF Confirm, Controlled
<1>10. CASE Check(a)
  <2>1. CASE Fail(a)
    BY <2>1, FailControlled DEF Controlled
  <2>2. CASE Advance(a, Verified, "check", "final")
    BY <1>0, <1>10, <2>2
    DEF Check, Advance, ReadsBack, Keeps, SupervisorState, Controlled
  <2> QED
    BY <1>10, <2>1, <2>2 DEF Check
<1>11. CASE Final(a)
  BY <1>11, FailControlled, EndOwnedControlled DEF Final, Controlled
<1>12. CASE Abort(a)
  BY <1>12, EndStepControlled DEF Abort, Controlled
<1> QED
  BY <1>1, <1>2, <1>3, <1>4, <1>5, <1>6, <1>7, <1>8, <1>9, <1>10, <1>11, <1>12
  DEF Supervise

(* The same for a handover.                                                *)
HEnds(a) ==
  /\ hand'[a].pc = "idle" /\ hand'[a].i = 1
  /\ hand'[a].gen = 0 /\ hand'[a].stray = FALSE
HKeeps(a) == hand'[a].to = hand[a].to /\ hand'[a].gen = hand[a].gen
HGoes(a) ==
  /\ HKeeps(a) /\ hand'[a].stray = hand[a].stray /\ hand'[a].pc # "idle"
  /\ hand'[a].pc = "mutate" => Holds(a, hand[a].gen)
  /\ hand'[a].pc = "check" =>
       \/ hand[a].pc # "check" /\ hand'[a].i = 1
       \/ /\ hand[a].pc = "check" /\ hand'[a].i = hand[a].i + 1
          /\ target[MovedVerified[hand[a].i]] = hand[a].to
  /\ hand'[a].pc = "renewBeforeTransfer" =>
       /\ hand[a].pc = "check" /\ hand[a].i = Len(MovedVerified)
       /\ target[MovedVerified[hand[a].i]] = hand[a].to
  /\ hand'[a].pc = "transfer" => hand[a].pc = "renewBeforeTransfer"
HMutates(a) ==
  /\ HKeeps(a) /\ hand[a].pc = "mutate" /\ hand'[a].pc \in {"postfence", "confirm"}
  /\ hand'[a].stray = (hand[a].stray \/ lease.owner \notin {a, NoAgent})
HControlled(a) == HEnds(a) \/ HGoes(a) \/ HMutates(a)

LEMMA EndHandoverControlled ==
  ASSUME IInv, NEW a \in Agents, EndHandover(a)
  PROVE  HEnds(a)
BY DEF EndHandover, HEnds, NoHandover, IInv, HandoverShape

(* What HProceed and HReach leave in the control state.                    *)
LEMMA HProceedControlled ==
  ASSUME IInv, NEW a \in Agents, NEW pc, HProceed(a, pc)
  PROVE  /\ HKeeps(a) /\ hand'[a].stray = hand[a].stray
         /\ hand'[a].pc = pc /\ hand'[a].i = 1
BY DEF HProceed, HKeeps, IInv, HandoverShape, HandoverState

LEMMA HReachControlled ==
  ASSUME IInv, NEW a \in Agents, NEW pc, HReach(a, pc)
  PROVE  /\ HKeeps(a) /\ hand'[a].stray = hand[a].stray
         /\ hand'[a].pc = pc /\ hand'[a].i = hand[a].i
BY DEF HReach, HKeeps, IInv, HandoverShape, HandoverState

LEMMA HMoveFailsControlled ==
  ASSUME IInv, NEW a \in Agents, HMoveFails(a)
  PROVE  HGoes(a)
<1>1. ASSUME NEW pc \in {"fenceRevert", "revert"}, HProceed(a, pc) PROVE HGoes(a)
  BY <1>1, HProceedControlled DEF HGoes
<1> QED
  BY <1>1 DEF HMoveFails

LEMMA HNextControlled ==
  ASSUME IInv, NEW a \in Agents, NEW resources, NEW again, NEW end,
         HNext(a, resources, again, end)
  PROVE  /\ HKeeps(a) /\ hand'[a].stray = hand[a].stray
         /\ \/ hand[a].i = Len(resources) /\ hand'[a].pc = end /\ hand'[a].i = 1
            \/ /\ hand[a].i # Len(resources) /\ hand'[a].pc = again
               /\ hand'[a].i = hand[a].i + 1
<1>1. CASE hand[a].i = Len(resources)
  BY <1>1, HProceedControlled DEF HNext
<1>2. CASE hand[a].i # Len(resources)
  BY <1>2 DEF HNext, HKeeps, IInv, HandoverShape, HandoverState
<1> QED
  BY <1>1, <1>2

LEMMA HandoverControl ==
  ASSUME IInv, NEW a \in Agents, Handover(a)
  PROVE  HControlled(a)
<1>0. hand \in [Agents -> HandoverState] /\ hand[a] \in HandoverState
  BY DEF IInv, HandoverShape
<1>1. CASE EndHandover(a) \/ HMoveFails(a)
  BY <1>1, EndHandoverControlled, HMoveFailsControlled DEF HControlled
<1>2. ASSUME NEW pc \in {"lock", "fence", "revert"}, HProceed(a, pc)
      PROVE  HControlled(a)
  BY <1>2, HProceedControlled DEF HGoes, HControlled
<1>3. CASE HVerify(a) \/ HRenew(a) \/ HFenceRevert(a)
  BY <1>1, <1>2, <1>3 DEF HVerify, HRenew, HFenceRevert
<1>4. CASE HLock(a)
  BY <1>4, HReachControlled DEF HLock, HGoes, HControlled
<1>5. CASE HFence(a)
  <2>1. ASSUME RenewedFence(a, hand[a].gen), HReach(a, "mutate") PROVE HControlled(a)
    BY <2>1, HReachControlled DEF RenewedFence, HGoes, HControlled
  <2> QED
    BY <1>1, <1>5, <2>1 DEF HFence
<1>6. CASE HMutate(a)
  <2>1. PICK pc \in {"postfence", "confirm"} :
          hand' = [hand EXCEPT ![a].pc = pc,
                     ![a].stray = @ \/ lease.owner \notin {a, NoAgent}]
    BY <1>6 DEF HMutate
  <2> QED
    BY <1>0, <1>6, <2>1 DEF HMutate, HMutates, HKeeps, HandoverState, HControlled
<1>7. CASE HPostFence(a)
  <2>1. ASSUME HNext(a, Moved, "fence", "check") PROVE HControlled(a)
    BY <1>7, <2>1, HNextControlled DEF HPostFence, HGoes, HControlled
  <2>2. ASSUME HReach(a, "confirm") PROVE HControlled(a)
    BY <2>2, HReachControlled DEF HGoes, HControlled
  <2> QED
    BY <1>1, <1>7, <2>1, <2>2 DEF HPostFence
<1>8. CASE HConfirm(a)
  <2>1. ASSUME HNext(a, Moved, "fence", "check") PROVE HControlled(a)
    BY <1>8, <2>1, HNextControlled DEF HConfirm, HGoes, HControlled
  <2>2. ASSUME hand' = [hand EXCEPT ![a].pc = "fence", ![a].try = @ + 1]
        PROVE  HControlled(a)
    BY <1>0, <2>2 DEF HGoes, HKeeps, HandoverState, HControlled
  <2> QED
    BY <1>1, <1>8, <2>1, <2>2 DEF HConfirm
<1>9. CASE HCheck(a)
  <2>1. ASSUME Described(MovedVerified[hand[a].i], hand[a].to),
               HNext(a, MovedVerified, "check", "renewBeforeTransfer")
        PROVE  HControlled(a)
    BY <1>9, <2>1, HNextControlled DEF HCheck, Described, HGoes, HControlled
  <2> QED
    BY <1>2, <1>9, <2>1 DEF HCheck
<1>10. CASE HRenewBeforeTransfer(a)
  <2>1. ASSUME HReach(a, "transfer") PROVE HControlled(a)
    BY <1>10, <2>1, HReachControlled DEF HRenewBeforeTransfer, HGoes, HControlled
  <2> QED
    BY <1>2, <1>10, <2>1 DEF HRenewBeforeTransfer
<1>11. CASE HTransfer(a)
  BY <1>1, <1>2, <1>11 DEF HTransfer
<1>12. CASE HRevert(a)
  <2>1. ASSUME hand' = [hand EXCEPT ![a].i = @ + 1] PROVE HControlled(a)
    BY <1>0, <1>12, <2>1 DEF HRevert, HGoes, HKeeps, HandoverState, HControlled
  <2> QED
    BY <1>1, <1>12, <2>1 DEF HRevert
<1> QED
  BY <1>3, <1>4, <1>5, <1>6, <1>7, <1>8, <1>9, <1>10, <1>11, <1>12 DEF Handover

-----------------------------------------------------------------------------
(* What the steps of an agent do to the cloud and to the lease.            *)
LEMMA SupervisorTargets ==
  ASSUME NEW a \in Agents, Supervise(a)
  PROVE  \/ target' = target
         \/ sup[a].pc = "mutate" /\ target' = [target EXCEPT ![Owned[sup[a].i]] = a]
BY DEF Supervise, ReadLease, RenewLease, Acquire, VerifyLease, LockOwnership,
   Reverify, Describe, Fence, Mutate, PostFence, Confirm, Check, Final, Abort,
   Applied, Failed

LEMMA HandoverTargets ==
  ASSUME NEW a \in Agents, Handover(a)
  PROVE  target' = target \/ hand[a].pc \in {"mutate", "revert"}
BY DEF Handover, HVerify, HLock, HRenew, HFence, HMutate, HPostFence, HConfirm,
   HCheck, HRenewBeforeTransfer, HTransfer, HFenceRevert, HRevert

LEMMA SupervisorLeases ==
  ASSUME NEW a \in Agents, Supervise(a)
  PROVE  \/ lease' = lease
         \/ /\ sup[a].pc = "renew" /\ Mine(lease, a, sup[a].gen)
            /\ lease' = LeaseOf(a, sup[a].gen)
         \/ /\ sup[a].pc = "acquire" /\ MayAcquire(a)
            /\ lease' = LeaseOf(a, lease.generation + 1)
         \/ sup[a].pc = "abort" /\ lease.owner = a /\ lease' = NoLease
BY DEF Supervise, ReadLease, RenewLease, Acquire, VerifyLease, LockOwnership,
   Reverify, Describe, Fence, Mutate, PostFence, Confirm, Check, Final, Abort,
   Store, MayExtend, Mine

LEMMA HandoverLeases ==
  ASSUME NEW a \in Agents, Handover(a)
  PROVE  \/ lease' = lease
         \/ /\ hand[a].pc = "transfer" /\ Mine(lease, a, hand[a].gen)
            /\ lease' = LeaseOf(hand[a].to, hand[a].gen + 1)
BY DEF Handover, HVerify, HLock, HRenew, HFence, HMutate, HPostFence, HConfirm,
   HCheck, HRenewBeforeTransfer, HTransfer, HFenceRevert, HRevert, Store, MayExtend

LEMMA OthersLeases ==
  ASSUME [Next]_vars,
         ~ \E a \in Agents : Supervise(a) \/ Handover(a)
  PROVE  \/ lease' = lease
         \/ lease' = [lease EXCEPT !.live = FALSE]
         \/ \E a \in Agents : lease.owner = a /\ Stop(a) /\ lease' = NoLease
BY DEF Next, StartHandover, SnapshotExpires, Crash, Stop, Restart, Expire,
   ReplicaExpires, Converge, Store, Mine, vars

(* Until the record is deleted, generations tell the owners apart.         *)
LEMMA LeaseGrows ==
  ASSUME IInv, [Next]_vars, ~ released'
  PROVE  /\ ~ released
         /\ \/ lease.generation < lease'.generation
            \/ lease'.generation = lease.generation /\ lease'.owner = lease.owner
<1>0. lease \in AnyLease /\ lease.generation \in Nat
  BY DEF IInv, LeaseShape, AnyLease
<1>1. ~ released
  BY NextRemembers DEF Remember, history
<1>2. ASSUME NEW a \in Agents, Remember(a), lease.owner = a PROVE lease' # NoLease
  <2>1. lease # NoLease
    BY <1>2, OwnershipAgents DEF NoLease
  <2> QED
    BY <1>2, <2>1 DEF Remember
<1>3. ASSUME NEW a \in Agents, Supervise(a)
      PROVE  \/ lease.generation < lease'.generation
             \/ lease'.generation = lease.generation /\ lease'.owner = lease.owner
  <2>1. Remember(a)
    BY <1>3 DEF Supervise
  <2> QED
    BY <1>0, <1>2, <1>3, <2>1, SupervisorLeases DEF LeaseOf, Mine
<1>4. ASSUME NEW a \in Agents, Handover(a)
      PROVE  \/ lease.generation < lease'.generation
             \/ lease'.generation = lease.generation /\ lease'.owner = lease.owner
  BY <1>0, <1>4, HandoverLeases DEF LeaseOf, Mine
<1>5. ASSUME ~ \E a \in Agents : Supervise(a) \/ Handover(a)
      PROVE  \/ lease.generation < lease'.generation
             \/ lease'.generation = lease.generation /\ lease'.owner = lease.owner
  <2>1. ASSUME NEW a \in Agents, lease.owner = a, Stop(a) PROVE lease' # NoLease
    BY <1>2, <2>1 DEF Stop
  <2>2. \/ lease' = lease
        \/ lease' = [lease EXCEPT !.live = FALSE]
    BY <1>5, <2>1, OthersLeases
  <2> QED
    BY <1>0, <2>2 DEF AnyLease
<1> QED
  BY <1>1, <1>3, <1>4, <1>5

(* What any step does to one agent's supervisor and to its handover.       *)
Starts(a) ==
  /\ hand[a].pc = "idle" /\ hand'[a].pc = "verify" /\ hand'[a].stray = hand[a].stray
  /\ \E l \in Reads : hand'[a].gen = l.generation

LEMMA LeaveControlled ==
  ASSUME IInv, NEW a \in Agents, Leave(a)
  PROVE  Ends(a) /\ HEnds(a)
<1>1. sup'[a] = Idle /\ hand'[a] = NoHandover
  BY DEF Leave, IInv, SupervisorShape, HandoverShape
<1> QED
  BY <1>1 DEF Idle, NoHandover, Ends, HEnds

LEMMA OneSupervisor ==
  ASSUME IInv, [Next]_vars, NEW b \in Agents
  PROVE  sup'[b] = sup[b] \/ Ends(b) \/ Supervise(b)
<1>1. ASSUME NEW a \in Agents, Supervise(a), a # b PROVE sup'[b] = sup[b]
  BY <1>1, SupervisorStepMoves DEF SupervisorMoves
<1>2. ASSUME NEW a \in Agents, Crash(a) \/ Stop(a) PROVE sup'[b] = sup[b] \/ Ends(b)
  <2>1. Leave(a)
    BY <1>2 DEF Crash, Stop
  <2>2. CASE a = b
    BY <2>1, <2>2, LeaveControlled
  <2>3. CASE a # b
    BY <2>1, <2>3 DEF Leave, IInv, SupervisorShape
  <2> QED
    BY <2>2, <2>3
<1>3. ASSUME NEW a \in Agents, Handover(a) PROVE sup' = sup
  BY <1>3 DEF Handover
<1> QED
  BY <1>1, <1>2, <1>3
  DEF Next, StartHandover, SnapshotExpires, Restart, Expire, ReplicaExpires,
      Converge, vars

LEMMA OneHandover ==
  ASSUME IInv, [Next]_vars, NEW b \in Agents
  PROVE  hand'[b] = hand[b] \/ HEnds(b) \/ Starts(b) \/ Handover(b)
<1>1. ASSUME NEW a \in Agents, Handover(a), a # b PROVE hand'[b] = hand[b]
  BY <1>1, HandoverStepMoves DEF HandoverMoves
<1>2. ASSUME NEW a \in Agents, Crash(a) \/ Stop(a) PROVE hand'[b] = hand[b] \/ HEnds(b)
  <2>1. Leave(a)
    BY <1>2 DEF Crash, Stop
  <2>2. CASE a = b
    BY <2>1, <2>2, LeaveControlled
  <2>3. CASE a # b
    BY <2>1, <2>3 DEF Leave, IInv, HandoverShape
  <2> QED
    BY <2>2, <2>3
<1>3. ASSUME NEW a \in Agents, Supervise(a) PROVE hand' = hand
  BY <1>3, SupervisorStepMoves
<1>4. ASSUME NEW a \in Agents, NEW c \in Agents, StartHandover(a, c)
      PROVE  hand'[b] = hand[b] \/ Starts(b)
  <2>1. PICK l \in Reads :
          hand' = [hand EXCEPT ![a].pc = "verify", ![a].to = c, ![a].gen = l.generation]
    BY <1>4 DEF StartHandover
  <2>2. CASE a = b
    <3>1. hand \in [Agents -> HandoverState] /\ hand[b] \in HandoverState
      BY DEF IInv, HandoverShape
    <3>2. /\ hand[b].pc = "idle" /\ hand'[b].pc = "verify"
          /\ hand'[b].stray = hand[b].stray /\ hand'[b].gen = l.generation
      BY <1>4, <2>1, <2>2, <3>1 DEF StartHandover, HandoverState
    <3> QED
      BY <3>2 DEF Starts
  <2>3. CASE a # b
    BY <2>1, <2>3 DEF IInv, HandoverShape
  <2> QED
    BY <2>2, <2>3
<1> QED
  BY <1>1, <1>2, <1>3, <1>4
  DEF Next, SnapshotExpires, Restart, Expire, ReplicaExpires, Converge, vars

LEMMA ReplicaFollows ==
  ASSUME IInv, [Next]_vars
  PROVE  replica'.generation \in
           {replica.generation, lease.generation, lease'.generation}
<1>1. ASSUME NEW l, Store(l) PROVE replica' = replica \/ replica' = lease'
  BY <1>1 DEF Store
<1>2. ASSUME NEW a \in Agents, Supervise(a)
      PROVE  replica' = replica \/ replica' = lease'
  BY <1>1, <1>2
  DEF Supervise, ReadLease, RenewLease, Acquire, VerifyLease, LockOwnership,
      Reverify, Describe, Fence, Mutate, PostFence, Confirm, Check, Final, Abort
<1>3. ASSUME NEW a \in Agents, Handover(a)
      PROVE  replica' = replica \/ replica' = lease'
  BY <1>1, <1>3
  DEF Handover, HVerify, HLock, HRenew, HFence, HMutate, HPostFence, HConfirm,
      HCheck, HRenewBeforeTransfer, HTransfer, HFenceRevert, HRevert
<1>4. CASE ReplicaExpires
  BY <1>4 DEF ReplicaExpires, IInv, LeaseShape, AnyLease
<1> QED
  BY <1>1, <1>2, <1>3, <1>4
  DEF Next, StartHandover, SnapshotExpires, Crash, Stop, Restart, Expire,
      Converge, vars

-----------------------------------------------------------------------------
(* Until the record is deleted, nobody holds a generation that is still to *)
(* be given out, and a stray mutation was made under one that has passed.  *)
GenerationsHeld ==
  ~ released =>
    /\ replica.generation <= lease.generation
    /\ \A a \in Agents :
         sup[a].gen <= lease.generation /\ hand[a].gen <= lease.generation
StraysAreLate ==
  ~ released =>
    \A a \in Agents :
      /\ sup[a].stray =>
           /\ sup[a].pc \notin {"idle", "renew", "acquire"}
           /\ ~ Mine(lease, a, sup[a].gen)
           /\ EventualReads \/ sup[a].pc # "mutate"
      /\ hand[a].stray =>
           /\ hand[a].pc # "idle"
           /\ ~ Mine(lease, a, hand[a].gen)
           /\ hand[a].pc # "mutate"

GInv == IInv /\ GenerationsHeld /\ StraysAreLate

LEMMA Naturals ==
  ASSUME IInv
  PROVE  /\ lease.generation \in Nat /\ replica.generation \in Nat
         /\ \A l \in Reads : l.generation \in Nat
         /\ \A a \in Agents : sup[a].gen \in Nat /\ hand[a].gen \in Nat
BY DEF IInv, LeaseShape, AnyLease, Reads, SupervisorShape, SupervisorState,
   HandoverShape, HandoverState

LEMMA ReadsAreOld ==
  ASSUME IInv, GenerationsHeld, ~ released, NEW l \in Reads
  PROVE  l.generation <= lease.generation
BY Naturals DEF GenerationsHeld, Reads

LEMMA GenerationsStep ==
  ASSUME IInv, GenerationsHeld, [Next]_vars
  PROVE  GenerationsHeld'
<1> SUFFICES ASSUME ~ released'
             PROVE  /\ replica'.generation <= lease'.generation
                    /\ \A a \in Agents : /\ sup'[a].gen <= lease'.generation
                                         /\ hand'[a].gen <= lease'.generation
  BY DEF GenerationsHeld
<1>2. IInv'
  BY NextInvariant
<1>n. lease'.generation \in Nat /\ replica'.generation \in Nat
  BY <1>2 DEF IInv, LeaseShape, AnyLease
<1>1. ~ released /\ lease.generation <= lease'.generation
  BY <1>n, LeaseGrows, Naturals
<1>3. replica'.generation <= lease'.generation
  BY <1>1, <1>n, ReplicaFollows, Naturals DEF GenerationsHeld
<1>4. ASSUME NEW a \in Agents PROVE sup'[a].gen <= lease'.generation
  <2>1. CASE sup'[a] = sup[a]
    BY <1>1, <1>n, <2>1, Naturals DEF GenerationsHeld
  <2>2. CASE Ends(a)
    BY <1>n, <2>2 DEF Ends
  <2>3. CASE Begins(a)
    BY <1>1, <1>n, <2>3, Naturals, ReadsAreOld DEF Begins, GenerationsHeld
  <2>4. CASE Gets(a)
    BY <1>n, <2>4 DEF Gets
  <2>5. CASE Keeps(a)
    BY <1>1, <1>n, <2>5, Naturals DEF Keeps, GenerationsHeld
  <2> QED
    BY <2>1, <2>2, <2>3, <2>4, <2>5, OneSupervisor, SupervisorControl
    DEF Controlled, Goes, Mutates, Passes, ReadsBack
<1>5. ASSUME NEW a \in Agents PROVE hand'[a].gen <= lease'.generation
  <2>1. CASE hand'[a] = hand[a]
    BY <1>1, <1>n, <2>1, Naturals DEF GenerationsHeld
  <2>2. CASE HEnds(a)
    BY <1>n, <2>2 DEF HEnds
  <2>3. CASE Starts(a)
    BY <1>1, <1>n, <2>3, Naturals, ReadsAreOld DEF Starts, GenerationsHeld
  <2>4. CASE HKeeps(a)
    BY <1>1, <1>n, <2>4, Naturals DEF HKeeps, GenerationsHeld
  <2> QED
    BY <2>1, <2>2, <2>3, <2>4, OneHandover, HandoverControl
    DEF HControlled, HGoes, HMutates
<1> QED
  BY <1>3, <1>4, <1>5

(* Without a deletion, a lost lease does not come back under its generation. *)
LEMMA LostForGood ==
  ASSUME IInv, [Next]_vars, ~ released', NEW a \in Agents, NEW g \in Nat,
         g <= lease.generation, Mine(lease', a, g)
  PROVE  Mine(lease, a, g)
BY LeaseGrows, Naturals DEF Mine

LEMMA StraysStep ==
  ASSUME GInv, [Next]_vars
  PROVE  StraysAreLate'
<1>i. IInv /\ GenerationsHeld
  BY DEF GInv
<1>r. ASSUME ~ released' PROVE ~ released
  BY <1>i, <1>r, LeaseGrows
<1>1. ASSUME NEW a \in Agents, ~ released', sup'[a].stray
      PROVE  /\ sup'[a].pc \notin {"idle", "renew", "acquire"}
             /\ ~ Mine(lease', a, sup'[a].gen)
             /\ EventualReads \/ sup'[a].pc # "mutate"
  <2>0. ~ released /\ sup[a].gen \in Nat /\ sup[a].gen <= lease.generation
    BY <1>i, <1>r, <1>1, Naturals DEF GenerationsHeld
  <2>1. Mine(lease', a, sup[a].gen) => Mine(lease, a, sup[a].gen)
    BY <1>i, <1>1, <2>0, LostForGood
  <2>2. CASE sup'[a] = sup[a]
    BY <1>1, <2>0, <2>1, <2>2 DEF GInv, StraysAreLate
  <2>3. CASE Ends(a)
    BY <1>1, <2>3 DEF Ends
  <2>4. CASE Begins(a) \/ Gets(a)
    BY <1>1, <2>0, <2>4 DEF Begins, Gets, GInv, StraysAreLate
  <2>5. CASE Goes(a)
    <3>1. ASSUME sup'[a].pc = "mutate" PROVE EventualReads
      <4>1. FencePasses(a, sup[a].gen)
        BY <2>5, <3>1 DEF Goes
      <4> QED
        BY <1>1, <2>0, <2>5, <4>1 DEF FencePasses, Reads, Goes, GInv, StraysAreLate
    <3> QED
      BY <1>1, <2>0, <2>1, <2>5, <3>1 DEF Goes, Keeps, GInv, StraysAreLate
  <2>6. CASE Mutates(a)
    <3>1. ASSUME lease.owner \notin {a, NoAgent} PROVE ~ Mine(lease, a, sup[a].gen)
      BY <3>1 DEF Mine
    <3> QED
      BY <1>1, <2>0, <2>1, <2>6, <3>1 DEF Mutates, Keeps, GInv, StraysAreLate
  <2>7. CASE Passes(a) \/ ReadsBack(a)
    BY <1>1, <2>0, <2>1, <2>7 DEF Passes, ReadsBack, Keeps, GInv, StraysAreLate
  <2> QED
    BY <1>i, <2>2, <2>3, <2>4, <2>5, <2>6, <2>7, OneSupervisor, SupervisorControl
    DEF Controlled
<1>2. ASSUME NEW a \in Agents, ~ released', hand'[a].stray
      PROVE  /\ hand'[a].pc # "idle"
             /\ ~ Mine(lease', a, hand'[a].gen)
             /\ hand'[a].pc # "mutate"
  <2>0. ~ released /\ hand[a].gen \in Nat /\ hand[a].gen <= lease.generation
    BY <1>i, <1>r, <1>2, Naturals DEF GenerationsHeld
  <2>1. Mine(lease', a, hand[a].gen) => Mine(lease, a, hand[a].gen)
    BY <1>i, <1>2, <2>0, LostForGood
  <2>2. CASE hand'[a] = hand[a]
    BY <1>2, <2>0, <2>1, <2>2 DEF GInv, StraysAreLate
  <2>3. CASE HEnds(a)
    BY <1>2, <2>3 DEF HEnds
  <2>4. CASE Starts(a)
    BY <1>2, <2>0, <2>4 DEF Starts, GInv, StraysAreLate
  <2>5. CASE HGoes(a)
    <3>1. hand'[a].pc # "mutate"
      BY <1>2, <2>0, <2>5 DEF HGoes, Holds, GInv, StraysAreLate
    <3> QED
      BY <1>2, <2>0, <2>1, <2>5, <3>1 DEF HGoes, HKeeps, GInv, StraysAreLate
  <2>6. CASE HMutates(a)
    <3>1. ASSUME lease.owner \notin {a, NoAgent} PROVE ~ Mine(lease, a, hand[a].gen)
      BY <3>1 DEF Mine
    <3> QED
      BY <1>2, <2>0, <2>1, <2>6, <3>1 DEF HMutates, HKeeps, GInv, StraysAreLate
  <2> QED
    BY <1>i, <2>2, <2>3, <2>4, <2>5, <2>6, OneHandover, HandoverControl
    DEF HControlled
<1> QED
  BY <1>1, <1>2 DEF StraysAreLate

LEMMA InitGenerations == Init => GInv
<1> SUFFICES ASSUME Init PROVE GInv
  OBVIOUS
<1>1. IInv
  BY InitInvariant
<1>2. \A a \in Agents : sup[a] = Idle /\ hand[a] = NoHandover
  BY DEF Init
<1>3. lease.generation = 0 /\ replica.generation = 0
  BY DEF Init, NoLease
<1> QED
  BY <1>1, <1>2, <1>3 DEF Idle, NoHandover, GInv, GenerationsHeld, StraysAreLate

LEMMA NextGenerations == GInv /\ [Next]_vars => GInv'
BY NextInvariant, GenerationsStep, StraysStep DEF GInv

(* With consistent reads and until the record of the lease is deleted: no  *)
(* agent that mutated the cloud after it lost the lease starts another     *)
(* planned mutation, however many leases are lost and calls fail.          *)
THEOREM StrayMutationIsTheLast == Spec => []FenceBoundsLosses
<1>1. GInv => FenceBoundsLosses
  BY DEF GInv, StraysAreLate, FenceBoundsLosses, FenceBoundsStrayMutations
<1> QED
  BY <1>1, InitGenerations, NextGenerations, PTL DEF Spec

-----------------------------------------------------------------------------
(* What an agent has moved stays where it was moved, as long as the agent  *)
(* holds its lease and does not move it itself.                            *)
LEMMA OnlyMutatorsMove ==
  ASSUME [Next]_vars
  PROVE  \/ UNCHANGED <<target, history>>
         \/ \E a \in Agents :
              /\ Remember(a)
              /\ \/ target' = target
                 \/ Supervise(a) /\ sup[a].pc = "mutate"
                 \/ hand[a].pc \in {"mutate", "revert"}
<1>1. ASSUME NEW a \in Agents, Supervise(a)
      PROVE  Remember(a) /\ (target' = target \/ sup[a].pc = "mutate")
  BY <1>1, SupervisorTargets DEF Supervise
<1>2. ASSUME NEW a \in Agents, Handover(a)
      PROVE  Remember(a) /\ (target' = target \/ hand[a].pc \in {"mutate", "revert"})
  BY <1>2, HandoverTargets DEF Handover
<1>3. ASSUME NEW a \in Agents, Stop(a) PROVE Remember(a) /\ target' = target
  BY <1>3 DEF Stop, Leave
<1> QED
  BY <1>1, <1>2, <1>3
  DEF Next, StartHandover, SnapshotExpires, Crash, Leave, Restart, Expire,
      ReplicaExpires, Converge, vars

LEMMA StaysPointed ==
  ASSUME [Next]_vars, ~ released', NEW a \in Agents, lease.owner = a,
         ~ (Supervise(a) /\ sup[a].pc = "mutate"),
         hand[a].pc \notin {"mutate", "revert"},
         NEW r \in Resources, NEW b, Points(r, b)
  PROVE  Points(r, b)'
<1>1. ASSUME NEW c \in Agents, Remember(c), target' # target, c # a PROVE Points(r, b)'
  BY <1>1 DEF Remember, Points
<1>2. ASSUME NEW c \in Agents, Remember(c), target' = target PROVE Points(r, b)'
  BY <1>2 DEF Remember, Points
<1>3. CASE UNCHANGED <<target, history>>
  BY <1>3 DEF history, Points
<1> QED
  BY <1>1, <1>2, <1>3, OnlyMutatorsMove

LEMMA Elements ==
  /\ \A k \in 1 .. Len(Verified) : Verified[k] \in Resources
  /\ \A k \in 1 .. Len(RouteTables) : RouteTables[k] \in Resources
  /\ \A j \in 1 .. Len(Owned) : \E k \in 1 .. Len(Verified) : Verified[k] = Owned[j]
<1>1. Len(RouteTables) \in Nat \ {0}
  BY OwnershipRoutes
<1>2. CASE SharedEIP
  <2> DEFINE x == <<EIP>>
             n == Len(RouteTables)
             Any == STRING \cup {EIP}
  <2>1. x \in Seq(Any) /\ RouteTables \in Seq(Any) /\ Len(x) = 1 /\ x[1] = EIP
    <3>1. EIP \in Any
      OBVIOUS
    <3> HIDE DEF Any
    <3>2. x \in Seq(Any) /\ Len(x) = 1 /\ x[1] = EIP
      BY <3>1
    <3>3. RouteTables \in [1 .. Len(RouteTables) -> STRING]
      BY OwnershipRoutes
    <3>4. RouteTables \in [1 .. Len(RouteTables) -> Any]
      BY <3>3 DEF Any
    <3>5. RouteTables \in Seq(Any)
      BY <1>1, <3>4, IsASeq
    <3> QED
      BY <3>2, <3>5
  <2>2. Identity = x
    BY <1>2 DEF Identity
  <2> HIDE DEF x, Any
  <2>3. /\ Len(x \o RouteTables) = Len(x) + Len(RouteTables)
        /\ \A i \in 1 .. Len(x) + Len(RouteTables) :
             (x \o RouteTables)[i] = IF i <= Len(x) THEN x[i] ELSE RouteTables[i - Len(x)]
    BY <2>1, ConcatProperties, Zenon
  <2>4. /\ Len(RouteTables \o x) = Len(RouteTables) + Len(x)
        /\ \A i \in 1 .. Len(RouteTables) + Len(x) :
             (RouteTables \o x)[i] = IF i <= Len(RouteTables) THEN RouteTables[i]
                                     ELSE x[i - Len(RouteTables)]
    BY <2>1, ConcatProperties, Zenon
  <2>5. /\ Len(Owned) = n + 1 /\ Owned[1] = EIP
        /\ \A i \in 1 .. n : Owned[i + 1] = RouteTables[i]
    BY <1>1, <2>1, <2>2, <2>3 DEF Owned
  <2>6. /\ Len(Verified) = n + 1 /\ Verified[n + 1] = EIP
        /\ \A i \in 1 .. n : Verified[i] = RouteTables[i]
    BY <1>1, <2>1, <2>2, <2>4 DEF Verified
  <2> HIDE DEF n
  <2>n. n \in Nat \ {0} /\ n = Len(RouteTables)
    BY <1>1 DEF n
  <2>7. EIP \in Resources
    BY <2>5, <2>n DEF Resources
  <2>8. ASSUME NEW k \in 1 .. n PROVE RouteTables[k] \in Resources
    <3>1. k + 1 \in 1 .. Len(Owned)
      BY <2>5, <2>n
    <3> QED
      BY <2>5, <3>1 DEF Resources
  <2>9. ASSUME NEW k \in 1 .. Len(Verified) PROVE Verified[k] \in Resources
    <3>1. k = n + 1 \/ k \in 1 .. n
      BY <2>6, <2>n
    <3> QED
      BY <2>6, <2>7, <2>8, <3>1
  <2>10. ASSUME NEW j \in 1 .. Len(Owned)
         PROVE  \E k \in 1 .. Len(Verified) : Verified[k] = Owned[j]
    <3>1. CASE j = 1
      <4>1. n + 1 \in 1 .. Len(Verified)
        BY <2>6, <2>n
      <4> QED
        BY <2>5, <2>6, <3>1, <4>1
    <3>2. CASE j # 1
      <4>1. j - 1 \in 1 .. n /\ j - 1 \in 1 .. Len(Verified) /\ (j - 1) + 1 = j
        BY <2>5, <2>6, <2>n, <3>2
      <4>2. Owned[(j - 1) + 1] = RouteTables[j - 1] /\ Verified[j - 1] = RouteTables[j - 1]
        BY <2>5, <2>6, <4>1
      <4> QED
        BY <4>1, <4>2
    <3> QED
      BY <3>1, <3>2
  <2> QED
    BY <2>8, <2>9, <2>10, <2>n
<1>3. CASE ~ SharedEIP
  <2>1. Identity = <<>>
    BY <1>3 DEF Identity
  <2>2. <<>> \o RouteTables = RouteTables /\ RouteTables \o <<>> = RouteTables
    BY OwnershipRoutes, ConcatEmptySeq
  <2>3. Owned = RouteTables /\ Verified = RouteTables
    BY <2>1, <2>2 DEF Owned, Verified
  <2> QED
    BY <2>3 DEF Resources
<1> QED
  BY <1>2, <1>3

(* What a handover reads back is what it moves, and exists.                *)
LEMMA MovedElements ==
  /\ \A k \in 1 .. Len(MovedVerified) : MovedVerified[k] \in Resources
  /\ \A j \in 1 .. Len(Moved) : \E k \in 1 .. Len(MovedVerified) : MovedVerified[k] = Moved[j]
BY Elements DEF Moved, MovedVerified

LEMMA CloudStays ==
  ASSUME TInv, [Next]_vars
  PROVE  used'.cloud = used.cloud
<1>1. HandTyped /\ SupTyped /\ RestTyped /\ TargetKnown
  BY TypesInParts DEF TInv, HandTyped, IInv
<1>2. ASSUME NEW a \in Agents, Supervise(a) \/ Handover(a) PROVE used'.cloud = used.cloud
  BY <1>1, <1>2, SupervisorTypes, HandoverTypes
<1>3. CASE ~ \E a \in Agents : Supervise(a) \/ Handover(a)
  BY <1>1, <1>3
  DEF Next, StartHandover, SnapshotExpires, Crash, Stop, Leave, Restart, Expire,
      ReplicaExpires, Converge, vars, RestTyped, UsedType
<1> QED
  BY <1>2, <1>3

(* What a handover has read back, and what a takeover has moved, is there  *)
(* for as long as the lease they began with is the agent's.                *)
HandoverReadBack ==
  ~ released =>
    \A a \in Agents :
      hand[a].pc \in {"check", "renewBeforeTransfer", "transfer"}
      /\ Mine(lease, a, hand[a].gen) =>
        \A k \in 1 .. Len(MovedVerified) :
          hand[a].pc # "check" \/ k < hand[a].i => Points(MovedVerified[k], hand[a].to)
FirstOnes ==
  \A a \in Agents :
    sup[a].pc \in {"idle", "renew", "acquire", "verify", "lock", "reverify"} => sup[a].i = 1
Done(a, k) ==
  \/ sup[a].pc \in {"check", "final"}
  \/ k < sup[a].i
  \/ sup[a].pc \in {"postfence", "confirm"} /\ k = sup[a].i
Moves(a) ==
  sup[a].mode = "activate" /\ sup[a].pc \notin {"idle", "renew", "acquire", "abort"}
TakenOver ==
  ~ released =>
    \A a \in Agents :
      Moves(a) /\ Mine(lease, a, sup[a].gen) =>
        \A k \in 1 .. Len(Owned) : Done(a, k) => Points(Owned[k], a)

VInv == GInv /\ TInv /\ FirstOnes /\ HandoverReadBack /\ TakenOver

LEMMA FirstOnesStep ==
  ASSUME IInv, FirstOnes, [Next]_vars
  PROVE  FirstOnes'
<1> SUFFICES ASSUME NEW a \in Agents,
                    sup'[a].pc \in {"idle", "renew", "acquire", "verify", "lock", "reverify"}
             PROVE  sup'[a].i = 1
  BY DEF FirstOnes
<1>1. CASE sup'[a] = sup[a] \/ Ends(a)
  BY <1>1 DEF FirstOnes, Ends
<1>2. CASE Begins(a) \/ Gets(a) \/ Goes(a)
  BY <1>2 DEF FirstOnes, Begins, Gets, Goes
<1>3. CASE Mutates(a) \/ Passes(a) \/ ReadsBack(a)
  BY <1>3 DEF Mutates, Passes, ReadsBack
<1> QED
  BY <1>1, <1>2, <1>3, OneSupervisor, SupervisorControl DEF Controlled

LEMMA HandoverReadBackStep ==
  ASSUME GInv, TInv, HandoverReadBack, [Next]_vars
  PROVE  HandoverReadBack'
<1>i. IInv /\ GenerationsHeld
  BY DEF GInv
<1>m. MovedVerified' = MovedVerified
  BY CloudStays DEF MovedVerified, ConnectivityFirst
<1> SUFFICES ASSUME ~ released', NEW a \in Agents,
                    hand'[a].pc \in {"check", "renewBeforeTransfer", "transfer"},
                    Mine(lease', a, hand'[a].gen),
                    NEW k \in 1 .. Len(MovedVerified),
                    hand'[a].pc # "check" \/ k < hand'[a].i
             PROVE  target'[MovedVerified[k]] = hand'[a].to \/ MovedVerified[k] \in strayed'
  BY <1>m DEF HandoverReadBack, Points
<1>r. MovedVerified[k] \in Resources
  BY MovedElements
<1>0. /\ ~ released /\ hand[a].gen \in Nat /\ hand[a].gen <= lease.generation
      /\ hand[a].i \in Int /\ Len(MovedVerified) \in Nat
  BY <1>i, LeaseGrows, Naturals, Lengths
  DEF GenerationsHeld, IInv, HandoverShape, HandoverState
<1>1. /\ hand[a].pc \in {"check", "renewBeforeTransfer", "transfer"}
      /\ hand'[a].to = hand[a].to /\ hand'[a].gen = hand[a].gen
      /\ Mine(lease, a, hand[a].gen) => Points(MovedVerified[k], hand[a].to)
  <2>1. CASE hand'[a] = hand[a]
    BY <1>0, <2>1 DEF HandoverReadBack
  <2>2. CASE HGoes(a)
    BY <1>0, <2>2 DEF HGoes, HKeeps, HandoverReadBack, Points
  <2>3. CASE HEnds(a) \/ Starts(a) \/ HMutates(a)
    BY <2>3 DEF HEnds, Starts, HMutates
  <2> QED
    BY <1>i, <2>1, <2>2, <2>3, OneHandover, HandoverControl DEF HControlled
<1>2. Mine(lease, a, hand[a].gen) /\ lease.owner = a
  BY <1>i, <1>0, <1>1, LostForGood DEF Mine
<1>3. sup[a].pc # "mutate" /\ hand[a].pc \notin {"mutate", "revert"}
  BY <1>i, <1>1 DEF IInv, LocksHeld, SupervisorLocked, HandoverLocked
<1>4. PICK to : to = hand[a].to
  OBVIOUS
<1>5. Points(MovedVerified[k], to)
  BY <1>1, <1>2, <1>4
<1>6. PICK r \in Resources : r = MovedVerified[k]
  BY <1>r
<1>7. Points(r, to)'
  BY <1>2, <1>3, <1>5, <1>6, StaysPointed
<1> QED
  BY <1>1, <1>4, <1>6, <1>7 DEF Points

LEMMA TakenOverStep ==
  ASSUME VInv, [Next]_vars
  PROVE  TakenOver'
<1>i. IInv /\ GenerationsHeld /\ FirstOnes /\ TakenOver /\ SupTyped /\ RestTyped
  BY TypesInParts DEF VInv, GInv, TInv
<1>c. Owned' = Owned
  BY DEF Owned, Identity
<1> SUFFICES ASSUME ~ released', NEW a \in Agents, Moves(a)',
                    Mine(lease', a, sup'[a].gen),
                    NEW k \in 1 .. Len(Owned), Done(a, k)'
             PROVE  Points(Owned[k], a)'
  BY <1>c DEF TakenOver
<1>r. Owned[k] \in Resources /\ Owned[sup[a].i] \in Resources
  BY <1>i, SupervisorFields DEF Resources
<1>0. /\ ~ released /\ sup[a].gen \in Nat /\ sup[a].gen <= lease.generation
      /\ sup[a].i \in 1 .. Len(Owned) /\ Len(Owned) \in Nat
  BY <1>i, LeaseGrows, Naturals, SupervisorFields, Lengths DEF GenerationsHeld
<1>1. /\ sup[a].mode = "activate" /\ Keeps(a)
      /\ sup[a].pc \notin {"idle", "renew", "acquire", "verify", "lock", "reverify", "abort"}
  <2>1. CASE sup'[a] = sup[a]
    BY <1>i, <1>0, <2>1 DEF Moves, Done, FirstOnes, Keeps
  <2>2. CASE Ends(a) \/ Begins(a)
    BY <2>2 DEF Ends, Begins, Moves
  <2>3. CASE Gets(a)
    BY <1>i, <2>3 DEF Gets, FirstOnes, Moves, Done
  <2>4. CASE Goes(a)
    BY <1>i, <1>0, <2>4 DEF Goes, Keeps, FirstOnes, Moves, Done
  <2>5. CASE Mutates(a) \/ Passes(a) \/ ReadsBack(a)
    BY <2>5 DEF Mutates, Passes, ReadsBack, Keeps, Moves
  <2> QED
    BY <1>i, <2>1, <2>2, <2>3, <2>4, <2>5, OneSupervisor, SupervisorControl DEF Controlled
<1>2. Mine(lease, a, sup[a].gen) /\ lease.owner = a
  BY <1>i, <1>0, <1>1, LostForGood DEF Keeps, Mine
<1>3. Moves(a)
  BY <1>1 DEF Moves
<1>4. hand[a].pc \notin {"mutate", "revert"}
  BY <1>i, <1>1
  DEF IInv, LocksHeld, SupervisorLocked, HandoverLocked, SupervisorShape, SupervisorState,
      SupervisorPcs
<1>5. CASE Mutates(a)
  <2>1. /\ Remember(a) /\ lease.owner = a
        /\ target' = [target EXCEPT ![Owned[sup[a].i]] = a]
    <3>1. sup'[a] # sup[a] /\ ~ Ends(a)
      BY <1>5 DEF Mutates, Ends
    <3> QED
      BY <1>i, <1>2, <1>5, <3>1, OneSupervisor DEF Supervise, Mutates
  <2>2. k < sup[a].i => Points(Owned[k], a)
    BY <1>i, <1>0, <1>2, <1>3 DEF TakenOver, Done
  <2> QED
    BY <1>i, <1>0, <1>5, <1>r, <2>1, <2>2
    DEF Mutates, Done, Remember, Points, RestTyped
<1>6. CASE ~ Mutates(a)
  <2>1. ~ (Supervise(a) /\ sup[a].pc = "mutate")
    BY <1>i, <1>6, SupervisorControl
    DEF Controlled, Ends, Begins, Gets, Goes, Passes, ReadsBack, Moves
  <2>2. Points(Owned[k], a)
    <3>1. CASE sup'[a] = sup[a]
      BY <1>i, <1>0, <1>2, <1>3, <3>1 DEF TakenOver, Done
    <3>2. CASE Goes(a)
      BY <1>i, <1>0, <1>2, <1>3, <3>2 DEF TakenOver, Done, Goes, Moves
    <3>3. CASE Passes(a)
      BY <1>i, <1>0, <1>1, <1>2, <1>3, <3>3 DEF TakenOver, Done, Passes, Points
    <3>4. CASE ReadsBack(a)
      BY <1>i, <1>0, <1>2, <1>3, <3>4 DEF TakenOver, Done, ReadsBack
    <3>5. CASE Ends(a) \/ Begins(a) \/ Gets(a)
      BY <1>1, <3>5 DEF Ends, Begins, Gets, Moves
    <3> QED
      BY <1>i, <1>6, <3>1, <3>2, <3>3, <3>4, <3>5, OneSupervisor, SupervisorControl
      DEF Controlled
  <2> QED
    BY <1>2, <1>4, <1>r, <2>1, <2>2, StaysPointed
<1> QED
  BY <1>5, <1>6

LEMMA InitTraffic == Init => VInv
<1> SUFFICES ASSUME Init PROVE VInv
  OBVIOUS
<1>1. GInv /\ TInv
  BY InitGenerations, InitTypes
<1>2. \A a \in Agents : sup[a] = Idle /\ hand[a] = NoHandover
  BY DEF Init
<1> QED
  BY <1>1, <1>2 DEF Idle, NoHandover, VInv, FirstOnes, HandoverReadBack, TakenOver, Moves

LEMMA NextTraffic == VInv /\ [Next]_vars => VInv'
<1> SUFFICES ASSUME VInv, [Next]_vars PROVE VInv'
  OBVIOUS
<1>1. GInv' /\ TInv'
  BY NextGenerations, NextTypes DEF VInv
<1>2. FirstOnes' /\ HandoverReadBack' /\ TakenOver'
  BY FirstOnesStep, HandoverReadBackStep, TakenOverStep DEF VInv, GInv
<1> QED
  BY <1>1, <1>2 DEF VInv

LEMMA TrafficHolds == Spec => []VInv
BY InitTraffic, NextTraffic, PTL DEF Spec

LEMMA TransferAfterReadBack ==
  ASSUME VInv, ~ released, NEW a \in Agents
  PROVE  TransferFollows(a)
<1> SUFFICES ASSUME hand[a].pc = "transfer", Handover(a), lease' # lease,
                    NEW j \in 1 .. Len(Moved)
             PROVE  Points(Moved[j], hand[a].to)
  BY DEF TransferFollows
<1>1. Mine(lease, a, hand[a].gen)
  BY HandoverLeases
<1>2. PICK k \in 1 .. Len(MovedVerified) : MovedVerified[k] = Moved[j]
  BY MovedElements
<1> QED
  BY <1>1, <1>2 DEF VInv, HandoverReadBack

(* Until the record of the lease is deleted, and for any number of agents, *)
(* handovers, lost leases, crashes and failing calls: when a handover      *)
(* gives the lease away, what it moves points to its target, except what   *)
(* an agent without the lease has moved since.                             *)
THEOREM TrafficMovesFirst == Spec => LeaseFollowsTraffic
<1>1. VInv /\ [Next]_vars => [~ released => \A a \in Agents : TransferFollows(a)]_vars
  BY TransferAfterReadBack
<1> QED
  BY <1>1, TrafficHolds, PTL DEF Spec, LeaseFollowsTraffic

(* The same of a takeover that reports ACTIVE while the lease is its own.  *)
THEOREM ActiveOwnerHasTraffic == Spec => ActiveHasTraffic
<1>1. VInv /\ [Next]_vars =>
        [\A a \in Agents :
           ~ released /\ Activates(a) /\ Mine(lease, a, sup[a].gen) =>
             \A r \in Resources : Points(r, a)]_vars
  <2> SUFFICES ASSUME VInv, ~ released, NEW a \in Agents, Activates(a),
                      Mine(lease, a, sup[a].gen), NEW r \in Resources
               PROVE  Points(r, a)
    OBVIOUS
  <2>1. PICK k \in 1 .. Len(Owned) : r = Owned[k]
    BY DEF Resources
  <2> QED
    BY <2>1 DEF VInv, TakenOver, Activates, Moves, Done
<1> QED
  BY <1>1, TrafficHolds, PTL DEF Spec, ActiveHasTraffic

-----------------------------------------------------------------------------
(* Without stalls and handovers, only the owner of a live lease acts.      *)
Quiet == used.stalls = 0 /\ used.handovers = 0
DownIsIdle == \A a \in Agents : a \notin up => sup[a].pc = "idle"
Holding(a) == sup[a].pc \notin {"idle", "renew", "acquire", "abort"}
QuietOwners ==
  Quiet =>
    \A a \in Agents :
      /\ hand[a].pc = "idle"
      /\ Holding(a) => lease.owner = a /\ lease.live
QuietTakeovers ==
  Quiet =>
    \A a \in Agents :
      Moves(a) => \A k \in 1 .. Len(Owned) : Done(a, k) => target[Owned[k]] = a

QInv == TInv /\ FirstOnes /\ DownIsIdle /\ QuietOwners /\ QuietTakeovers

LEMMA StepsUse ==
  ASSUME NEW a \in Agents, Supervise(a) \/ Handover(a)
  PROVE  NoFault \/ Fault
BY FenceUses
DEF Supervise, ReadLease, RenewLease, Acquire, VerifyLease, LockOwnership,
    Reverify, Fenced, Describe, Fence, Mutate, PostFence, Confirm, Check, Final,
    Abort, Applied, Failed, NoFault,
    Handover, HVerify, HLock, HRenew, HFence, HMutate, HPostFence, HConfirm,
    HCheck, HRenewBeforeTransfer, HTransfer, HFenceRevert, HRevert,
    RenewedFence, RenewFails

LEMMA QuietBefore ==
  ASSUME TInv, [Next]_vars, Quiet'
  PROVE  /\ Quiet
         /\ ~ \E a \in Agents, b \in Agents : StartHandover(a, b)
         /\ Expire => lease.owner \notin up
<1>1. used \in UsedType /\ used.stalls \in Nat /\ used.handovers \in Nat
  <2>1. used \in UsedType
    BY TypesInParts DEF TInv, RestTyped
  <2> QED
    BY <2>1, Bounds DEF UsedType
<1>q. used'.stalls = 0 /\ used'.handovers = 0
  BY DEF Quiet
<1>2. ASSUME NEW a \in Agents, NEW b \in Agents, StartHandover(a, b) PROVE FALSE
  <2>1. used' = [used EXCEPT !.handovers = @ + 1]
    BY <1>2 DEF StartHandover
  <2>2. used'.handovers = used.handovers + 1
    BY <1>1, <2>1 DEF UsedType
  <2> QED
    BY <1>1, <1>q, <2>2
<1>3. ASSUME Expire PROVE lease.owner \notin up
  <2>1. CASE used' = [used EXCEPT !.stalls = @ + 1]
    <3>1. used'.stalls = used.stalls + 1
      BY <1>1, <2>1 DEF UsedType
    <3> QED
      BY <1>1, <1>q, <3>1
  <2> QED
    BY <1>3, <2>1 DEF Expire
<1>4. \/ used' = used
      \/ used' = [used EXCEPT !.faults = @ + 1]
      \/ used' = [used EXCEPT !.crashes = @ + 1]
  BY <1>2, <1>3, StepsUse
  DEF Next, Expire, SnapshotExpires, Crash, Stop, Leave, Restart, ReplicaExpires,
      Converge, NoFault, Fault, vars
<1>5. used'.stalls = used.stalls /\ used'.handovers = used.handovers
  BY <1>1, <1>4 DEF UsedType
<1> QED
  BY <1>q, <1>2, <1>3, <1>5 DEF Quiet

LEMMA NoHandoverWhenIdle ==
  ASSUME NEW a \in Agents, hand[a].pc = "idle"
  PROVE  ~ Handover(a)
BY DEF Handover, HVerify, HLock, HRenew, HFence, HMutate, HPostFence, HConfirm,
   HCheck, HRenewBeforeTransfer, HTransfer, HFenceRevert, HRevert

LEMMA DownIsIdleStep ==
  ASSUME IInv, DownIsIdle, [Next]_vars
  PROVE  DownIsIdle'
<1> SUFFICES ASSUME NEW a \in Agents, a \notin up' PROVE sup'[a].pc = "idle"
  BY DEF DownIsIdle
<1>1. ASSUME NEW c \in Agents, Supervise(c) \/ Handover(c)
      PROVE  c \in up /\ up' = up
  BY <1>1
  DEF Supervise, ReadLease, RenewLease, Acquire, VerifyLease, LockOwnership,
      Reverify, Describe, Fence, Mutate, PostFence, Confirm, Check, Final, Abort,
      Handover
<1>2. ASSUME NEW c \in Agents, Crash(c) \/ Stop(c) PROVE up' = up \ {c} /\ Leave(c)
  BY <1>2 DEF Crash, Stop, Leave
<1>3. a \in up => \E c \in Agents : Leave(c) /\ c = a
  BY <1>1, <1>2
  DEF Next, StartHandover, SnapshotExpires, Restart, Expire, ReplicaExpires,
      Converge, vars
<1>4. CASE a \in up
  BY <1>3, <1>4, LeaveControlled DEF Ends
<1>5. CASE a \notin up
  BY <1>1, <1>5, OneSupervisor DEF DownIsIdle, Ends
<1> QED
  BY <1>4, <1>5

LEMMA QuietOwnersStep ==
  ASSUME QInv, [Next]_vars
  PROVE  QuietOwners'
<1>i. IInv /\ DownIsIdle
  BY DEF QInv, TInv
<1> SUFFICES ASSUME Quiet', NEW a \in Agents
             PROVE  /\ hand'[a].pc = "idle"
                    /\ Holding(a)' => lease'.owner = a /\ lease'.live
  BY DEF QuietOwners
<1>0. /\ Quiet /\ \A c \in Agents : hand[c].pc = "idle"
      /\ ~ \E c \in Agents, d \in Agents : StartHandover(c, d)
      /\ Expire => lease.owner \notin up
  BY QuietBefore DEF QInv, QuietOwners
<1>h. \A c \in Agents : ~ Handover(c)
  BY <1>0, NoHandoverWhenIdle
<1>1. hand'[a].pc = "idle"
  <2>1. ~ Handover(a)
    BY <1>h
  <2>2. hand'[a] = hand[a] \/ HEnds(a)
    <3>1. ASSUME NEW c \in Agents, Supervise(c) PROVE hand' = hand
      BY <1>i, <3>1, SupervisorStepMoves
    <3>2. ASSUME NEW c \in Agents, Leave(c) PROVE hand'[a] = hand[a] \/ HEnds(a)
      BY <1>i, <3>2, LeaveControlled DEF Leave, IInv, HandoverShape
    <3> QED
      BY <1>0, <1>h, <3>1, <3>2
      DEF Next, SnapshotExpires, Crash, Stop, Restart, Expire, ReplicaExpires,
          Converge, vars
  <2> QED
    BY <1>0, <2>2 DEF HEnds
<1>2. ASSUME Holding(a)' PROVE lease'.owner = a /\ lease'.live
  <2>1. CASE Supervise(a)
    <3>1. Gets(a) \/ Goes(a) \/ Mutates(a) \/ Passes(a) \/ ReadsBack(a)
      BY <1>i, <1>2, <2>1, SupervisorControl
      DEF Controlled, Ends, Begins, Holding
    <3>2. CASE Gets(a) \/ (Goes(a) /\ sup[a].pc = "renew")
      BY <1>2, <3>2 DEF Gets, Goes, Holding
    <3>3. CASE Holding(a)
      <4>1. lease.owner = a /\ lease.live
        BY <1>0, <3>3 DEF QInv, QuietOwners
      <4>2. lease' = lease
        BY <2>1, <3>3, SupervisorLeases DEF Holding
      <4> QED
        BY <4>1, <4>2
    <3> QED
      BY <1>2, <3>1, <3>2, <3>3 DEF Goes, Mutates, Passes, ReadsBack, Holding
  <2>2. CASE ~ Supervise(a)
    <3>1. Holding(a) /\ lease.owner = a /\ lease.live
      BY <1>i, <1>0, <1>2, <2>2, OneSupervisor
      DEF Ends, Holding, QInv, QuietOwners
    <3>2. ~ Expire
      BY <1>i, <1>0, <3>1 DEF DownIsIdle, Holding
    <3>3. ASSUME NEW c \in Agents, Supervise(c) PROVE lease' = lease
      BY <2>2, <3>1, <3>3, SupervisorLeavesLease
    <3>4. ASSUME NEW c \in Agents, Stop(c) PROVE lease' = lease
      <4>1. CASE c = a
        BY <3>1, <3>4, <4>1 DEF Stop, Holding
      <4>2. CASE c # a
        BY <3>1, <3>4, <4>2 DEF Stop, Mine
      <4> QED
        BY <4>1, <4>2
    <3>5. lease' = lease
      BY <1>0, <1>h, <3>2, <3>3, <3>4
      DEF Next, SnapshotExpires, Crash, Restart, ReplicaExpires, Converge, vars
    <3> QED
      BY <3>1, <3>5
  <2> QED
    BY <2>1, <2>2
<1> QED
  BY <1>1, <1>2

LEMMA QuietTakeoversStep ==
  ASSUME QInv, [Next]_vars
  PROVE  QuietTakeovers'
<1>i. IInv /\ FirstOnes /\ QuietOwners /\ QuietTakeovers /\ SupTyped /\ RestTyped
  BY TypesInParts DEF QInv, TInv
<1>c. Owned' = Owned
  BY DEF Owned, Identity
<1> SUFFICES ASSUME Quiet', NEW a \in Agents, Moves(a)', NEW k \in 1 .. Len(Owned),
                    Done(a, k)'
             PROVE  target'[Owned[k]] = a
  BY <1>c DEF QuietTakeovers
<1>r. Owned[k] \in Resources /\ Owned[sup[a].i] \in Resources
  BY <1>i, SupervisorFields DEF Resources
<1>0. /\ Quiet /\ \A c \in Agents : hand[c].pc = "idle"
      /\ sup[a].i \in 1 .. Len(Owned) /\ Len(Owned) \in Nat
  BY <1>i, QuietBefore, SupervisorFields, Lengths DEF QInv, QuietOwners
<1>1. /\ Moves(a) /\ Holding(a)
      /\ sup[a].pc \notin {"verify", "lock", "reverify"}
  <2>1. CASE sup'[a] = sup[a]
    BY <1>i, <1>0, <2>1 DEF Moves, Holding, Done, FirstOnes
  <2>2. CASE Ends(a) \/ Begins(a)
    BY <2>2 DEF Ends, Begins, Moves
  <2>3. CASE Gets(a)
    BY <1>i, <2>3 DEF Gets, FirstOnes, Moves, Done
  <2>4. CASE Goes(a)
    BY <1>i, <1>0, <2>4 DEF Goes, Keeps, FirstOnes, Moves, Holding, Done
  <2>5. CASE Mutates(a) \/ Passes(a) \/ ReadsBack(a)
    BY <2>5 DEF Mutates, Passes, ReadsBack, Keeps, Moves, Holding
  <2> QED
    BY <1>i, <2>1, <2>2, <2>3, <2>4, <2>5, OneSupervisor, SupervisorControl DEF Controlled
<1>2. CASE Mutates(a)
  <2>1. k < sup[a].i => target[Owned[k]] = a
    BY <1>i, <1>0, <1>1 DEF QuietTakeovers, Done
  <2> QED
    BY <1>i, <1>0, <1>2, <1>r, <2>1 DEF Mutates, Done, RestTyped
<1>3. CASE ~ Mutates(a)
  <2>1. ~ (Supervise(a) /\ sup[a].pc = "mutate")
    BY <1>i, <1>3, SupervisorControl
    DEF Controlled, Ends, Begins, Gets, Goes, Passes, ReadsBack, Moves
  <2>2. ASSUME NEW c \in Agents, Supervise(c) PROVE sup[c].pc # "mutate"
    BY <1>i, <1>0, <1>1, <2>1, <2>2 DEF QuietOwners, Holding
  <2>3. target' = target
    BY <1>0, <2>2, OnlyMutatorsMove
  <2>4. target[Owned[k]] = a
    <3>1. CASE sup'[a] = sup[a]
      BY <1>i, <1>0, <1>1, <3>1 DEF QuietTakeovers, Done
    <3>2. CASE Goes(a)
      BY <1>i, <1>0, <1>1, <3>2 DEF QuietTakeovers, Done, Goes, Moves
    <3>3. CASE Passes(a)
      BY <1>i, <1>0, <1>1, <3>3 DEF QuietTakeovers, Done, Passes, Moves
    <3>4. CASE ReadsBack(a)
      BY <1>i, <1>0, <1>1, <3>4 DEF QuietTakeovers, Done, ReadsBack
    <3>5. CASE Ends(a) \/ Begins(a) \/ Gets(a)
      BY <1>1, <3>5 DEF Ends, Begins, Gets, Moves
    <3> QED
      BY <1>i, <1>3, <3>1, <3>2, <3>3, <3>4, <3>5, OneSupervisor, SupervisorControl
      DEF Controlled
  <2> QED
    BY <2>3, <2>4
<1> QED
  BY <1>2, <1>3

LEMMA InitQuiet == Init => QInv
<1> SUFFICES ASSUME Init PROVE QInv
  OBVIOUS
<1>1. TInv
  BY InitTypes
<1>2. /\ \A a \in Agents : sup[a] = Idle /\ hand[a] = NoHandover
      /\ up = Agents
  BY DEF Init
<1> QED
  BY <1>1, <1>2
  DEF Idle, NoHandover, QInv, FirstOnes, DownIsIdle, QuietOwners, QuietTakeovers,
      Moves, Holding

LEMMA NextQuiet == QInv /\ [Next]_vars => QInv'
<1> SUFFICES ASSUME QInv, [Next]_vars PROVE QInv'
  OBVIOUS
<1>1. TInv' /\ FirstOnes' /\ DownIsIdle'
  BY NextTypes, FirstOnesStep, DownIsIdleStep DEF QInv, TInv
<1> QED
  BY <1>1, QuietOwnersStep, QuietTakeoversStep DEF QInv

(* Without handovers and stalls, with any number of agents, crashes,       *)
(* failing calls, releases and lagging reads: a takeover that reports      *)
(* ACTIVE owns the identity and every route.                               *)
THEOREM QuietTakeoverIsComplete == Spec => TakeoverIsComplete
<1>1. QInv /\ [Next]_vars =>
        [\A a \in Agents :
           used.stalls = 0 /\ used.handovers = 0 /\ Activates(a) =>
             \A r \in Resources : target[r] = a]_vars
  <2> SUFFICES ASSUME QInv, Quiet, NEW a \in Agents, Activates(a), NEW r \in Resources
               PROVE  target[r] = a
    BY DEF Quiet
  <2>1. PICK k \in 1 .. Len(Owned) : r = Owned[k]
    BY DEF Resources
  <2> QED
    BY <2>1 DEF QInv, QuietTakeovers, Activates, Moves, Done
<1> QED
  BY <1>1, InitQuiet, NextQuiet, PTL DEF Spec, TakeoverIsComplete

=============================================================================

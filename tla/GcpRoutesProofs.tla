-------------------------- MODULE GcpRoutesProofs --------------------------
(***************************************************************************)
(* Proofs about GcpRoutes, for any agents and any bounds.                  *)
(***************************************************************************)
EXTENDS GcpRoutes, TLAPS

Pcs == Steps \cup {"idle", "again", "describe"}
CallState ==
  [pc : Pcs, tries : 0..Attempts, fast : BOOLEAN, to : Agents \cup {None},
   previous : Agents \cup {None}, waits : BOOLEAN]
Operation == [kind : {"none", "delete", "insert"}, target : Agents \cup {None}]
Bounds == [failures : 0..MaxFailures, unknowns : 0..MaxUnknowns, owners : 0..MaxOwners]

(* A call that runs has a target; a fast one has a route to restore. Only  *)
(* in ReplaceRoute is an operation waited for, and before it there is an   *)
(* attempt left.                                                           *)
CallShape ==
  /\ call.pc = "idle" => call = Idle
  /\ call.pc # "idle" => call.to \in Agents
  /\ call.fast => call.pc \in Steps /\ call.previous # None
  /\ call.waits => call.pc \in Steps
  /\ call.pc = "again" => call.tries < Attempts

(* What is under way on a shadow route leaves it as it should be.          *)
ShadowsPending == \A a \in Agents : pending[a].target \in {a, None}

(* All that is under way is what the call waits for.                       *)
OwnOnly ==
  \A n \in Names : pending[n] # Nothing =>
    call.waits /\ n = NameAt(call.pc) /\ pending[n].target = TargetAt(call.pc)

(* The route that carries the clients' packets while a fast call replaces  *)
(* the other one.                                                          *)
Carrier(pc) == IF pc \in {"delete", "insert", "restore"} THEN call.to ELSE Canonical

FastHasCarrier ==
  call.fast /\ clean /\ used.unknowns = 0 => OwnOnly /\ route[Carrier(call.pc)] # None

(* After one failure at most, the canonical route is missing only between  *)
(* its deletion and the insertion that follows, of the new route or of the *)
(* previous one.                                                           *)
OneFailure == used.unknowns = 0 /\ used.failures <= 1 /\ used.owners <= 1
OneFailureHasRoute ==
  OneFailure =>
    /\ OwnOnly
    /\ call.pc \in Steps => call.previous # None
    /\ call.pc \notin {"insert", "restore"} => route[Canonical] # None
    /\ call.pc = "insert" => route[Canonical] = None
    /\ call.pc = "restore" => used.failures = 1
    /\ used.owners = 0 => call.pc = "idle" /\ route[Canonical] = owner

IInv ==
  RoutesTypeOK /\ CallShape /\ ShadowsPending /\ FastHasCarrier /\ OneFailureHasRoute

-----------------------------------------------------------------------------
LEMMA Types ==
  ASSUME IInv
  PROVE  /\ route \in [Names -> Agents \cup {None}]
         /\ pending \in [Names -> Operation]
         /\ owner \in Agents /\ call \in CallState
         /\ clean \in BOOLEAN /\ used \in Bounds
         /\ call.pc # "idle" => NameAt(call.pc) \in Names
BY DEF IInv, RoutesTypeOK, CallShape, CallState, Pcs, Steps, Operation, Bounds, NameAt, Names

LEMMA StepsAre ==
  /\ Steps = {"clean", "shadow", "delete", "insert", "unshadow", "restore", "cleanup"}
  /\ Pcs = Steps \cup {"idle", "again", "describe"}
BY DEF Steps, Pcs

LEMMA IdleCall ==
  ASSUME ConstantsOK
  PROVE  /\ Idle \in CallState /\ Idle.pc = "idle" /\ ~ Idle.waits /\ ~ Idle.fast
         /\ Idle.tries = 0 /\ Idle.to = None /\ Idle.previous = None
BY DEF ConstantsOK, Idle, CallState, Pcs

(* What counting does to the bounds.                                       *)
LEMMA FailureCounts ==
  ASSUME ConstantsOK, IInv, Failure
  PROVE  /\ used' \in Bounds /\ used'.failures = used.failures + 1
         /\ used'.unknowns = used.unknowns /\ used'.owners = used.owners
BY DEF ConstantsOK, IInv, RoutesTypeOK, Bounds, Failure, Count

LEMMA UnknownCounts ==
  ASSUME ConstantsOK, IInv, Unknown
  PROVE  used' \in Bounds /\ used'.unknowns # 0
BY DEF ConstantsOK, IInv, RoutesTypeOK, Bounds, Unknown, Count

LEMMA OwnerCounts ==
  ASSUME ConstantsOK, IInv, Count("owners", MaxOwners)
  PROVE  /\ used' \in Bounds /\ used'.owners = used.owners + 1
         /\ used'.unknowns = used.unknowns /\ used'.failures = used.failures
BY DEF ConstantsOK, IInv, RoutesTypeOK, Bounds, Count

(* ReplaceRoute goes on or is over.                                        *)
LEMMA GoMoves ==
  ASSUME ConstantsOK, IInv, call.pc \in Steps, NEW pc \in Steps \cup {"idle"}, Go(pc)
  PROVE  /\ call' \in CallState /\ CallShape' /\ ~ call'.waits
         /\ pc = "idle" => call'.pc \in {"idle", "describe"} /\ ~ call'.fast
         /\ pc # "idle" => /\ call'.pc = pc /\ call'.fast = call.fast
                          /\ call'.to = call.to /\ call'.previous = call.previous
<1>0. "idle" \notin Steps /\ call.pc # "idle" /\ "describe" \in Pcs /\ "describe" \notin Steps
  BY StepsAre
<1>1. CASE pc = "idle" /\ call.tries = 0
  <2>1. call' = Idle
    BY <1>1 DEF Go
  <2> QED
    BY <1>1, <2>1, IdleCall DEF CallShape
<1>2. CASE pc = "idle" /\ call.tries # 0
  <2> DEFINE c == [Idle EXCEPT !.pc = "describe", !.tries = call.tries, !.to = call.to]
  <2>1. call' = c
    BY <1>2 DEF Go
  <2>2. /\ c \in CallState /\ c.pc = "describe" /\ ~ c.waits /\ ~ c.fast /\ c.to = call.to
    BY <1>0, IdleCall, Types DEF CallState
  <2> HIDE DEF c
  <2> QED
    BY <1>0, <1>2, <2>1, <2>2 DEF IInv, CallShape
<1>3. CASE pc # "idle"
  <2> DEFINE c == [call EXCEPT !.pc = pc, !.waits = FALSE]
  <2>1. call' = c /\ pc \in Steps
    BY <1>3 DEF Go
  <2>2. /\ c \in CallState /\ c.pc = pc /\ ~ c.waits /\ c.fast = call.fast
        /\ c.to = call.to /\ c.previous = call.previous
    BY <2>1, Types, StepsAre DEF CallState
  <2> HIDE DEF c
  <2> QED
    BY <1>0, <1>3, <2>1, <2>2, StepsAre DEF IInv, CallShape
<1> QED
  BY <1>1, <1>2, <1>3

(* ReplaceRoute never goes on to a step that it does not have.             *)
LEMMA NextSteps ==
  ASSUME IInv, call.pc \in Steps
  PROVE  /\ After(call.pc) \in Steps \cup {"idle"}
         /\ AfterRefusal(call.pc) \in Steps \cup {"idle"}
         /\ AfterFailure(call.pc) \in Steps \cup {"idle"}
BY Types DEF CallState, Steps, After, AfterRefusal, AfterFailure, Restore

(* A step that costs an answer leaves nothing to show but the types.       *)
LEMMA UnknownKeeps ==
  ASSUME ConstantsOK, IInv, Unknown, call' \in CallState, CallShape',
         UNCHANGED <<route, owner, clean>>, pending' \in [Names -> Operation], ShadowsPending'
  PROVE  IInv'
<1>1. used' \in Bounds /\ used'.unknowns # 0
  BY UnknownCounts
<1>3. RoutesTypeOK'
  BY <1>1, Types DEF IInv, RoutesTypeOK, CallState, Pcs, Operation, Bounds
<1> QED
  BY <1>1, <1>3 DEF IInv, FastHasCarrier, OneFailureHasRoute, OneFailure

(* A request that is refused, or not needed.                               *)
LEMMA RefusalKeeps ==
  ASSUME ConstantsOK, IInv, call.pc \in Steps, NEW pc \in Steps \cup {"idle"}, Go(pc),
         UNCHANGED <<route, pending, owner, clean>>, ~ call.waits,
         \/ /\ Failure /\ pc = AfterRefusal(call.pc)
            /\ Deletes(call.pc) <=> route[NameAt(call.pc)] # None
         \/ /\ NoFault /\ pc = After(call.pc) /\ Deletes(call.pc)
            /\ route[NameAt(call.pc)] = None
         \/ /\ NoFault /\ pc = AfterRefusal(call.pc)
            /\ \/ pending[NameAt(call.pc)] # Nothing
               \/ ~ Deletes(call.pc) /\ route[NameAt(call.pc)] # None
  PROVE  IInv'
<1>1. /\ used' \in Bounds /\ used'.unknowns = used.unknowns /\ used'.owners = used.owners
      /\ used'.failures \in {used.failures, used.failures + 1}
      /\ Failure => used'.failures = used.failures + 1
  BY FailureCounts, Types DEF NoFault
<1>2. /\ call' \in CallState /\ CallShape' /\ ~ call'.waits
      /\ pc = "idle" => call'.pc \in {"idle", "describe"} /\ ~ call'.fast
      /\ pc # "idle" => /\ call'.pc = pc /\ call'.fast = call.fast
                       /\ call'.to = call.to /\ call'.previous = call.previous
  BY GoMoves
<1>3. RoutesTypeOK' /\ ShadowsPending'
  BY <1>1, <1>2, Types DEF IInv, RoutesTypeOK, ShadowsPending, CallState, Pcs, Operation, Bounds
<1>4. OwnOnly => OwnOnly' /\ \A n \in Names : pending[n] = Nothing
  BY DEF OwnOnly
<1>5. FastHasCarrier'
  <2>1. SUFFICES ASSUME call'.fast, clean, used.unknowns = 0
                 PROVE  OwnOnly' /\ route[Carrier(call.pc)'] # None
    BY <1>1 DEF FastHasCarrier
  <2>2. call.fast /\ pc # "idle"
    BY <1>2, <2>1
  <2>3. OwnOnly /\ route[Carrier(call.pc)] # None
    BY <2>1, <2>2 DEF IInv, FastHasCarrier
  <2>4. pending[NameAt(call.pc)] = Nothing
    BY <1>4, <2>3, Types, StepsAre
  <2>5. route[Carrier(call.pc)'] # None
    BY <1>2, <2>2, <2>3, <2>4, Types
    DEF CallState, Steps, Carrier, After, AfterRefusal, Restore, Deletes, NameAt
  <2> QED
    BY <1>4, <2>3, <2>5
<1>6. OneFailureHasRoute'
  <2>1. SUFFICES ASSUME OneFailure'
                 PROVE  OneFailureHasRoute'
    BY DEF OneFailureHasRoute
  <2>2. OneFailure /\ used.owners # 0 /\ (Failure => used.failures = 0 /\ used'.failures = 1)
    BY <1>1, <2>1, Types, StepsAre DEF IInv, OneFailure, OneFailureHasRoute, Bounds
  <2>3. /\ OwnOnly' /\ pending[NameAt(call.pc)] = Nothing /\ call.previous # None
    BY <1>4, <2>2, Types, StepsAre DEF IInv, OneFailureHasRoute
  <2>4. call.pc \notin {"insert", "restore"} => route[Canonical] # None
    BY <2>2 DEF IInv, OneFailureHasRoute
  <2>5. call.pc = "insert" => route[Canonical] = None
    BY <2>2 DEF IInv, OneFailureHasRoute
  <2>6. call.pc = "restore" => used.failures = 1
    BY <2>2 DEF IInv, OneFailureHasRoute
  <2>7. /\ call'.pc \notin {"insert", "restore"} => route[Canonical] # None
        /\ call'.pc = "insert" => route[Canonical] = None
        /\ call'.pc = "restore" => used'.failures = 1
    BY <1>1, <1>2, <2>2, <2>3, <2>4, <2>5, <2>6, Types
    DEF CallState, Steps, After, AfterRefusal, Restore, Deletes, NameAt
  <2> QED
    BY <1>1, <1>2, <2>2, <2>3, <2>7, StepsAre DEF OneFailureHasRoute
<1> QED
  BY <1>2, <1>3, <1>5, <1>6 DEF IInv

LEMMA RequestKeeps ==
  ASSUME ConstantsOK, IInv, Request
  PROVE  IInv'
<1> DEFINE pc == call.pc
           n == NameAt(pc)
           ready == pending[n] = Nothing
           accepts == ready /\ (Deletes(pc) <=> route[n] # None)
           operation == [kind |-> IF Deletes(pc) THEN "delete" ELSE "insert",
                         target |-> TargetAt(pc)]
<1>1. /\ pc \in Steps /\ pc # "idle" /\ ~ call.waits /\ n \in Names
      /\ UNCHANGED <<route, owner, clean>>
  BY Types, StepsAre DEF Request
<1>2. /\ AfterRefusal(pc) \in Steps \cup {"idle"}
      /\ After(pc) \in Steps \cup {"idle"}
  BY <1>1, NextSteps
<1>3. /\ operation \in Operation
      /\ n \in Agents => operation.target \in {n, None}
  BY <1>1, Types DEF IInv, CallShape, CallState, Steps, Operation, TargetAt, NameAt, ConstantsOK
<1>4. CASE /\ accepts /\ pending' = [pending EXCEPT ![n] = operation]
           /\ \/ Unknown /\ Go(AfterRefusal(pc))
              \/ call' = [call EXCEPT !.waits = TRUE] /\ NoFault
  <2>1. /\ pending' \in [Names -> Operation] /\ pending'[n].target = TargetAt(pc)
        /\ \A m \in Names \ {n} : pending'[m] = pending[m]
    BY <1>1, <1>3, <1>4, Types
  <2>2. ShadowsPending'
    BY <1>3, <1>4, <2>1 DEF IInv, ShadowsPending, Names
  <2>3. CASE Unknown /\ Go(AfterRefusal(pc))
    BY <1>1, <1>2, <2>1, <2>2, <2>3, GoMoves, UnknownKeeps
  <2>4. CASE call' = [call EXCEPT !.waits = TRUE] /\ NoFault
    <3>1. /\ call' \in CallState /\ call'.waits /\ call'.pc = pc /\ call'.fast = call.fast
          /\ call'.to = call.to /\ call'.previous = call.previous
          /\ call'.tries = call.tries
      BY <2>4, Types DEF CallState
    <3>2. RoutesTypeOK' /\ CallShape'
      BY <1>1, <2>1, <2>4, <3>1, Types
      DEF IInv, CallShape, RoutesTypeOK, CallState, Pcs, Operation, Bounds, NoFault
    <3>3. OwnOnly => OwnOnly'
      BY <1>1, <2>1, <3>1 DEF OwnOnly, NameAt, TargetAt
    <3>4. FastHasCarrier'
      BY <1>1, <2>4, <3>1, <3>3 DEF IInv, FastHasCarrier, Carrier, NoFault
    <3>5. OneFailureHasRoute'
      BY <1>1, <2>4, <3>1, <3>3 DEF IInv, OneFailureHasRoute, OneFailure, NoFault
    <3> QED
      BY <2>2, <3>2, <3>4, <3>5 DEF IInv
  <2> QED
    BY <1>4, <2>3, <2>4
<1>5. CASE accepts /\ Failure /\ Go(AfterRefusal(pc)) /\ UNCHANGED pending
  BY <1>1, <1>2, <1>5, RefusalKeeps
<1>6. CASE ~ accepts /\ NoFault /\ UNCHANGED pending
  <2>1. CASE Deletes(pc) /\ ready /\ Go(After(pc))
    BY <1>1, <1>2, <1>6, <2>1, RefusalKeeps
  <2>2. CASE ~ (Deletes(pc) /\ (ready \/ n # Canonical)) /\ Go(AfterRefusal(pc))
    BY <1>1, <1>2, <1>6, <2>2, RefusalKeeps
  <2> QED
    BY <1>1, <1>6, <2>1, <2>2 DEF Request
<1> QED
  BY <1>4, <1>5, <1>6 DEF Request

(* An operation nobody waits for can only be one that an unknown answer    *)
(* left behind: it changes a route, and the types are kept.                *)
LEMMA CompleteKeeps ==
  ASSUME ConstantsOK, IInv, NEW n \in Names, Complete(n)
  PROVE  IInv'
<1> DEFINE done == [route EXCEPT ![n] = pending[n].target]
<1>1. /\ pending[n] # Nothing /\ clean' = clean /\ owner' = owner
      /\ pending' = [pending EXCEPT ![n] = Nothing]
  BY DEF Complete
<1>2. /\ done \in [Names -> Agents \cup {None}] /\ done[n] = pending[n].target
      /\ \A m \in Names \ {n} : done[m] = route[m]
      /\ \A a \in Agents : done[a] \in {a, None}
  BY Types DEF IInv, ShadowsPending, RoutesTypeOK, Operation
<1>3. /\ pending' \in [Names -> Operation] /\ pending'[n] = Nothing
      /\ \A m \in Names \ {n} : pending'[m] = pending[m]
      /\ ShadowsPending'
  <2>1. Nothing \in Operation /\ Nothing.target = None
    BY DEF Nothing, Operation
  <2> QED
    BY <1>1, <2>1, Types DEF IInv, ShadowsPending, Names
<1>4. PICK ok \in BOOLEAN, r \in {route, done} :
        /\ route' = r
        /\ IF ok THEN r = done /\ NoFault ELSE r = route /\ Failure
        /\ IF call.waits /\ NameAt(call.pc) = n
           THEN Go(IF ok THEN After(call.pc) ELSE AfterFailure(call.pc))
           ELSE UNCHANGED call
  BY DEF Complete
<1> HIDE DEF done
<1>5. /\ used' \in Bounds /\ used'.unknowns = used.unknowns /\ used'.owners = used.owners
      /\ used'.failures \in {used.failures, used.failures + 1}
      /\ ~ ok => used'.failures = used.failures + 1
  BY <1>4, FailureCounts, Types DEF NoFault
<1>6. r \in [Names -> Agents \cup {None}] /\ \A a \in Agents : r[a] \in {a, None}
  BY <1>2, <1>4, Types DEF IInv, RoutesTypeOK
<1>7. CASE call.waits /\ NameAt(call.pc) = n
  <2> DEFINE pc == IF ok THEN After(call.pc) ELSE AfterFailure(call.pc)
  <2>1. call.pc \in Steps /\ call.pc # "idle"
    BY <1>7, StepsAre DEF IInv, CallShape
  <2>2. pc \in Steps \cup {"idle"}
    BY <2>1, NextSteps
  <2>3. Go(pc)
    BY <1>4, <1>7
  <2> HIDE DEF pc
  <2>4. /\ call' \in CallState /\ CallShape' /\ ~ call'.waits
        /\ pc = "idle" => call'.pc \in {"idle", "describe"} /\ ~ call'.fast
        /\ pc # "idle" => /\ call'.pc = pc /\ call'.fast = call.fast
                         /\ call'.to = call.to /\ call'.previous = call.previous
    BY <2>1, <2>2, <2>3, GoMoves
  <2>5. RoutesTypeOK'
    BY <1>1, <1>3, <1>4, <1>5, <1>6, <2>4, Types
    DEF RoutesTypeOK, CallState, Pcs, Operation, Bounds
  <2>6. OwnOnly => OwnOnly' /\ done[n] = TargetAt(call.pc)
    BY <1>1, <1>2, <1>3, <1>7 DEF OwnOnly
  <2>7. /\ call.to \in Agents /\ call.to # None /\ call.to # Canonical
        /\ call.to \in Names /\ Canonical \in Names
    BY <2>1 DEF IInv, CallShape, ConstantsOK, Names
  <2>8. FastHasCarrier'
    <3>1. SUFFICES ASSUME call'.fast, clean, used.unknowns = 0
                   PROVE  OwnOnly' /\ r[Carrier(call.pc)'] # None
      BY <1>1, <1>4, <1>5 DEF FastHasCarrier
    <3>2. call.fast /\ pc # "idle" /\ call.previous # None
      BY <2>4, <3>1 DEF IInv, CallShape
    <3>3. OwnOnly /\ route[Carrier(call.pc)] # None
      BY <3>1, <3>2 DEF IInv, FastHasCarrier
    <3>4. r[Carrier(call.pc)'] # None
      <4>1. Carrier(call.pc)' = Carrier(pc)
        BY <2>4, <3>2 DEF Carrier
      <4>2. CASE ok
        <5>1. /\ call.pc \in {"clean", "shadow", "delete", "insert", "restore"}
              /\ pc = CASE call.pc = "clean" -> "shadow"
                       [] call.pc = "shadow" -> "delete"
                       [] call.pc = "delete" -> "insert"
                       [] call.pc = "insert" -> "unshadow"
                       [] call.pc = "restore" -> "cleanup"
          BY <2>1, <3>2, <4>2, Types DEF pc, CallState, Steps, After
        <5>2. r = done /\ done[n] = TargetAt(call.pc)
          BY <1>4, <2>6, <3>3, <4>2
        <5>3. CASE call.pc \in {"clean", "delete"}
          <6>1. Carrier(pc) \in Names \ {n} /\ Carrier(pc) = Carrier(call.pc)
            BY <1>7, <2>7, <5>1, <5>3 DEF Carrier, NameAt
          <6> QED
            BY <1>2, <3>3, <4>1, <5>2, <6>1
        <5>4. CASE call.pc \in {"shadow", "insert", "restore"}
          <6>1. Carrier(pc) = n /\ TargetAt(call.pc) \in {call.to, call.previous}
            BY <1>7, <5>1, <5>4 DEF Carrier, NameAt, TargetAt
          <6> QED
            BY <2>7, <3>2, <4>1, <5>2, <6>1
        <5> QED
          BY <5>1, <5>3, <5>4
      <4>3. CASE ~ ok
        <5>1. r = route /\ call.pc \in {"delete", "insert"} /\ pc = "restore"
          BY <1>4, <3>2, <4>3 DEF pc, AfterFailure, Restore
        <5>2. Carrier(pc) = Carrier(call.pc)
          BY <5>1 DEF Carrier
        <5> QED
          BY <3>3, <4>1, <5>1, <5>2
      <4> QED
        BY <4>2, <4>3
    <3> QED
      BY <2>6, <3>3, <3>4
  <2>9. OneFailureHasRoute'
    <3>1. SUFFICES ASSUME OneFailure'
                   PROVE  OneFailureHasRoute'
      BY DEF OneFailureHasRoute
    <3>2. OneFailure /\ used.owners # 0 /\ (~ ok => used.failures = 0 /\ used'.failures = 1)
      BY <1>5, <2>1, <3>1, Types DEF IInv, OneFailure, OneFailureHasRoute, Bounds
    <3>3. /\ OwnOnly' /\ done[n] = TargetAt(call.pc) /\ call.previous # None
          /\ call.pc \notin {"insert", "restore"} => route[Canonical] # None
          /\ call.pc = "restore" => used.failures = 1
      BY <2>1, <2>6, <3>2 DEF IInv, OneFailureHasRoute
    <3>4. /\ call'.pc \notin {"insert", "restore"} => r[Canonical] # None
          /\ call'.pc = "insert" => r[Canonical] = None
          /\ call'.pc = "restore" => used'.failures = 1
      <4>1. CASE ~ ok
        BY <1>4, <1>5, <2>1, <2>4, <3>2, <3>3, <4>1, Types
        DEF pc, CallState, Steps, AfterFailure, Restore
      <4>2. CASE ok /\ n = Canonical
        <5>1. call.pc \in {"delete", "insert", "restore"} /\ r[Canonical] = TargetAt(call.pc)
          BY <1>4, <1>7, <2>1, <2>7, <3>3, <4>2, Types DEF CallState, Steps, NameAt
        <5>2. /\ call.pc = "delete" => pc = "insert" /\ r[Canonical] = None
              /\ call.pc # "delete" => pc \in {"idle", "unshadow", "cleanup"}
                                       /\ r[Canonical] # None
          BY <2>7, <3>3, <4>2, <5>1 DEF pc, After, TargetAt
        <5> QED
          BY <2>4, <5>1, <5>2
      <4>3. CASE ok /\ n # Canonical
        <5>1. call.pc \in {"clean", "shadow", "unshadow", "cleanup"}
          BY <1>7, <2>1, <4>3, Types DEF CallState, Steps, NameAt
        <5>2. pc \in {"shadow", "delete", "idle"}
          BY <4>3, <5>1 DEF pc, After
        <5>3. r[Canonical] = route[Canonical]
          BY <1>2, <1>4, <2>7, <4>3
        <5> QED
          BY <2>4, <3>3, <5>1, <5>2, <5>3
      <4> QED
        BY <4>1, <4>2, <4>3
    <3> QED
      BY <1>4, <1>5, <2>4, <3>2, <3>3, <3>4, StepsAre DEF OneFailureHasRoute
  <2> QED
    BY <1>3, <2>4, <2>5, <2>8, <2>9 DEF IInv
<1>8. CASE ~ (call.waits /\ NameAt(call.pc) = n)
  <2>1. UNCHANGED <<call, owner>>
    BY <1>1, <1>4, <1>8
  <2>2. ~ OwnOnly
    BY <1>1, <1>8 DEF OwnOnly
  <2>3. ~ (call.fast /\ clean /\ used.unknowns = 0) /\ ~ OneFailure
    BY <2>2 DEF IInv, FastHasCarrier, OneFailureHasRoute
  <2>4. RoutesTypeOK' /\ CallShape'
    BY <1>1, <1>3, <1>4, <1>5, <1>6, <2>1, Types
    DEF IInv, CallShape, RoutesTypeOK, CallState, Pcs, Operation, Bounds
  <2>5. ~ OneFailure'
    BY <1>5, <2>3, Types DEF OneFailure, Bounds
  <2> QED
    BY <1>1, <1>3, <1>5, <2>1, <2>3, <2>4, <2>5 DEF IInv, FastHasCarrier, OneFailureHasRoute
<1> QED
  BY <1>7, <1>8

LEMMA StopKeeps ==
  ASSUME ConstantsOK, IInv, PollFails \/ GiveUp
  PROVE  IInv'
<1>1. Unknown /\ UNCHANGED <<route, pending, owner, clean>>
  BY DEF PollFails, GiveUp
<1>2. call' = Idle \/ (call.pc \in Steps /\ \E pc \in Steps \cup {"idle"} : Go(pc))
  BY NextSteps DEF PollFails, GiveUp, IInv, CallShape
<1>3. call' \in CallState /\ CallShape'
  BY <1>2, IdleCall, GoMoves DEF CallShape
<1> QED
  BY <1>1, <1>3, Types, UnknownKeeps DEF IInv, ShadowsPending

(* A ReplaceRoute that finds nothing under way is the first to ask for     *)
(* anything.                                                               *)
LEMMA BeginKeeps ==
  ASSUME ConstantsOK, IInv, call.pc \notin Steps, NEW to \in Agents,
         NEW tries \in 0..Attempts, Begin(to, tries), used' \in Bounds,
         OneFailure' => OneFailure /\ used'.owners # 0
  PROVE  IInv'
<1> DEFINE fast == tries > 0 /\ route[Canonical] # None
           c == [pc |-> IF fast THEN "clean" ELSE "delete", tries |-> tries,
                 fast |-> fast, to |-> to, previous |-> route[Canonical], waits |-> FALSE]
<1>1. /\ call' = c /\ UNCHANGED <<route, pending, owner>>
      /\ clean' = (\A n \in Names : pending[n] = Nothing)
  BY DEF Begin
<1>2. Canonical \in Names /\ route[Canonical] \in Agents \cup {None}
  BY Types DEF Names
<1>3. /\ c \in CallState /\ c.pc \in {"clean", "delete"} /\ c.pc \in Steps /\ ~ c.waits
      /\ c.to = to /\ c.previous = route[Canonical]
      /\ c.fast => c.pc = "clean" /\ route[Canonical] # None
  BY <1>2, StepsAre DEF CallState
<1> HIDE DEF c
<1>4. RoutesTypeOK' /\ CallShape' /\ ShadowsPending'
  BY <1>1, <1>3, Types
  DEF IInv, RoutesTypeOK, CallShape, ShadowsPending, CallState, Pcs, Operation, Bounds
<1>5. FastHasCarrier'
  BY <1>1, <1>3 DEF FastHasCarrier, OwnOnly, Carrier
<1>6. OneFailureHasRoute'
  <2>1. SUFFICES ASSUME OneFailure, used'.owners # 0
                 PROVE  OneFailureHasRoute'
    BY DEF OneFailureHasRoute
  <2>2. OwnOnly /\ route[Canonical] # None
    BY <2>1, StepsAre DEF IInv, OneFailureHasRoute
  <2>3. \A n \in Names : pending[n] = Nothing
    BY <2>2 DEF OwnOnly, IInv, CallShape
  <2> QED
    BY <1>1, <1>3, <2>1, <2>2, <2>3 DEF OneFailureHasRoute, OwnOnly
<1> QED
  BY <1>4, <1>5, <1>6 DEF IInv

(* Between the calls of ReplaceRoute only the caller moves on: nothing is  *)
(* asked of the cloud, and nothing need be under way.                      *)
LEMMA CallerKeeps ==
  ASSUME ConstantsOK, IInv, call.pc \notin Steps, owner' \in Agents, used' \in Bounds,
         UNCHANGED <<route, pending, clean>>,
         call' \in CallState, CallShape', call'.pc \notin Steps,
         OneFailure' => OneFailure /\ used'.owners # 0
  PROVE  IInv'
<1>1. ~ call.waits /\ ~ call'.waits /\ ~ call'.fast
  BY DEF IInv, CallShape
<1>2. RoutesTypeOK' /\ ShadowsPending' /\ FastHasCarrier'
  BY <1>1, Types
  DEF IInv, RoutesTypeOK, ShadowsPending, FastHasCarrier, CallState, Pcs, Operation, Bounds
<1>3. OneFailureHasRoute'
  <2>1. SUFFICES ASSUME OneFailure, used'.owners # 0
                 PROVE  OneFailureHasRoute'
    BY DEF OneFailureHasRoute
  <2>2. OwnOnly /\ route[Canonical] # None
    BY <2>1, StepsAre DEF IInv, OneFailureHasRoute
  <2>3. \A n \in Names : pending[n] = Nothing
    BY <1>1, <2>2 DEF OwnOnly
  <2> QED
    BY <2>1, <2>2, <2>3, StepsAre DEF OneFailureHasRoute, OwnOnly
<1> QED
  BY <1>2, <1>3 DEF IInv

LEMMA AttemptKeeps ==
  ASSUME ConstantsOK, IInv, Attempt
  PROVE  IInv'
<1>1. /\ call.pc = "again" /\ call.pc \notin Steps /\ used' = used
      /\ call.to \in Agents /\ call.tries + 1 \in 0..Attempts
  BY Types, StepsAre DEF Attempt, NoFault, IInv, CallShape, CallState, ConstantsOK
<1>2. used' \in Bounds /\ (OneFailure' => OneFailure /\ used'.owners # 0)
  BY <1>1, Types DEF OneFailure, IInv, OneFailureHasRoute
<1>3. CASE Begin(call.to, call.tries + 1)
  <2> DEFINE n == call.tries + 1
             to == call.to
  <2>1. n \in 0..Attempts /\ to \in Agents /\ Begin(to, n)
    BY <1>1, <1>3
  <2> HIDE DEF n, to
  <2> QED
    BY <1>1, <1>2, <2>1, BeginKeeps
<1>4. CASE /\ call' = [call EXCEPT !.pc = "describe", !.tries = @ + 1]
           /\ UNCHANGED <<route, pending, owner, clean>>
  <2>1. /\ call' \in CallState /\ call'.pc = "describe" /\ call'.waits = call.waits
        /\ call'.fast = call.fast /\ call'.to = call.to
    BY <1>1, <1>4, Types, StepsAre DEF CallState
  <2>2. CallShape' /\ call'.pc \notin Steps
    BY <1>1, <2>1, StepsAre DEF IInv, CallShape
  <2> QED
    BY <1>1, <1>2, <1>4, <2>1, <2>2, Types, CallerKeeps
<1> QED
  BY <1>3, <1>4 DEF Attempt

LEMMA DescribeKeeps ==
  ASSUME ConstantsOK, IInv, Describe
  PROVE  IInv'
<1>1. /\ call.pc = "describe" /\ call.pc \notin Steps /\ call.to \in Agents
      /\ ~ call.waits /\ ~ call.fast /\ UNCHANGED <<route, pending, clean>>
  BY StepsAre DEF Describe, IInv, CallShape
<1>2. used.owners = 0 => ~ OneFailure
  BY <1>1 DEF IInv, OneFailureHasRoute
<1>3. call' \in CallState /\ CallShape' /\ call'.pc \notin Steps
  <2>1. CASE call' = Idle
    BY <2>1, IdleCall, StepsAre DEF CallShape
  <2>2. CASE call.tries < Attempts /\ call' = [call EXCEPT !.pc = "again"]
    <3>1. /\ call' \in CallState /\ call'.pc = "again" /\ call'.waits = call.waits
          /\ call'.fast = call.fast /\ call'.to = call.to /\ call'.tries = call.tries
      BY <2>2, Types, StepsAre DEF CallState
    <3> QED
      BY <1>1, <2>2, <3>1, StepsAre DEF CallShape
  <2> QED
    BY <2>1, <2>2 DEF Describe
<1>4. owner' \in Agents
  BY <1>1, Types DEF Describe
<1>5. used' \in Bounds /\ (OneFailure' => OneFailure /\ used'.owners # 0)
  <2>1. CASE NoFault
    BY <1>2, <2>1, Types DEF NoFault, OneFailure
  <2>2. CASE Unknown
    BY <2>2, UnknownCounts DEF OneFailure
  <2> QED
    BY <2>1, <2>2 DEF Describe
<1> QED
  BY <1>1, <1>3, <1>4, <1>5, CallerKeeps

LEMMA HandoverKeeps ==
  ASSUME ConstantsOK, IInv, Handover
  PROVE  IInv'
<1>1. PICK b \in Agents : call' = [Idle EXCEPT !.pc = "again", !.to = b]
  BY DEF Handover
<1>2. /\ call' \in CallState /\ call'.pc = "again" /\ call'.to = b
      /\ ~ call'.waits /\ ~ call'.fast /\ call'.tries < Attempts
  <2>1. Idle \in CallState /\ ~ Idle.waits /\ ~ Idle.fast /\ Idle.tries = 0
    BY IdleCall
  <2>2. "again" \in Pcs /\ 0 < Attempts
    BY StepsAre DEF ConstantsOK
  <2> QED
    BY <1>1, <2>1, <2>2 DEF CallState
<1>3. CallShape' /\ call'.pc \notin Steps
  BY <1>2, StepsAre DEF CallShape
<1>4. used' \in Bounds /\ (OneFailure' => OneFailure /\ used'.owners # 0)
  BY OwnerCounts, Types DEF Handover, OneFailure, Bounds
<1>5. call.pc \notin Steps /\ owner' \in Agents /\ UNCHANGED <<route, pending, clean>>
  BY StepsAre, Types DEF Handover
<1> QED
  BY <1>2, <1>3, <1>4, <1>5, CallerKeeps

(* A takeover counts, and takes with it the call of the owner before.      *)
LEMMA TakeOverKeeps ==
  ASSUME ConstantsOK, IInv, NEW b \in Agents, TakeOver(b)
  PROVE  IInv'
<1>1. /\ used' \in Bounds /\ used'.owners = used.owners + 1
      /\ used'.unknowns = used.unknowns /\ used'.failures = used.failures
  BY OwnerCounts DEF TakeOver
<1>2. /\ call' \in CallState /\ call'.pc = "idle" /\ ~ call'.waits /\ ~ call'.fast
      /\ CallShape' /\ call'.pc \notin Steps
  BY IdleCall, StepsAre DEF TakeOver, CallShape
<1>3. owner' \in Agents /\ UNCHANGED <<route, pending, clean>>
  BY DEF TakeOver
<1>4. CASE call.pc \notin Steps
  BY <1>1, <1>2, <1>3, <1>4, Types, CallerKeeps DEF OneFailure, Bounds
<1>5. CASE call.pc \in Steps
  <2>1. ~ OneFailure'
    BY <1>1, <1>5, Types, StepsAre DEF IInv, OneFailureHasRoute, OneFailure, Bounds
  <2> QED
    BY <1>1, <1>2, <1>3, <2>1, Types
    DEF IInv, RoutesTypeOK, ShadowsPending, FastHasCarrier, OneFailureHasRoute,
        CallState, Pcs, Operation, Bounds
<1> QED
  BY <1>4, <1>5

LEMMA InitIInv ==
  ASSUME ConstantsOK, Init
  PROVE  IInv
<1>1. Nothing \in Operation /\ Nothing.target = None
  BY DEF Nothing, Operation
<1>2. Canonical \in Names /\ route[Canonical] = owner /\ owner # None
  BY DEF Init, Names, ConstantsOK
<1>3. /\ call \in CallState /\ call.pc = "idle" /\ call.pc \notin Steps
      /\ ~ call.waits /\ ~ call.fast /\ call = Idle
  BY IdleCall, StepsAre DEF Init
<1>4. RoutesTypeOK /\ ShadowsPending
  BY <1>1, <1>3 DEF ConstantsOK, Init, RoutesTypeOK, ShadowsPending, CallState, Pcs,
                    Operation, Names
<1>5. CallShape /\ FastHasCarrier
  BY <1>3 DEF CallShape, FastHasCarrier
<1>6. OneFailureHasRoute
  BY <1>2, <1>3 DEF Init, OneFailureHasRoute, OwnOnly
<1> QED
  BY <1>4, <1>5, <1>6 DEF IInv

LEMMA NextIInv ==
  ASSUME ConstantsOK, IInv, [Next]_vars
  PROVE  IInv'
<1>1. CASE Ensure
  <2>1. /\ used' \in Bounds /\ used' = used /\ owner \in Agents /\ Begin(owner, 0)
        /\ call.pc \notin Steps /\ 0 \in 0..Attempts
    BY <1>1, Types, StepsAre DEF Ensure, NoFault, ConstantsOK
  <2>2. OneFailure' => OneFailure /\ used'.owners # 0
    BY <1>1, <2>1 DEF Ensure, DescribeRoute, IInv, OneFailureHasRoute, OneFailure
  <2> QED
    BY <2>1, <2>2, BeginKeeps
<1>2. CASE UNCHANGED vars
  BY <1>2 DEF vars, IInv, RoutesTypeOK, CallShape, ShadowsPending, OwnOnly, NameAt, TargetAt,
              FastHasCarrier, Carrier, OneFailureHasRoute, OneFailure
<1> QED
  BY <1>1, <1>2, HandoverKeeps, AttemptKeeps, DescribeKeeps, RequestKeeps, StopKeeps,
     CompleteKeeps, TakeOverKeeps DEF Next

(* The strengthened invariant, for any number of agents and bounds.        *)
THEOREM RoutesInvariant == ASSUME ConstantsOK PROVE Spec => []IInv
BY InitIInv, NextIInv, PTL DEF Spec

(* Every variable of GcpRoutes keeps its type, and a shadow route never    *)
(* points at another agent than the one it is named after.                 *)
THEOREM RoutesTypeCorrect == ASSUME ConstantsOK PROVE Spec => []RoutesTypeOK
<1>1. IInv => RoutesTypeOK
  BY DEF IInv
<1> QED
  BY <1>1, RoutesInvariant, PTL

(* Once the replacement for one change of owner is over, one refused       *)
(* request or failed operation has cost the clients no route.              *)
THEOREM RouteSurvivesOneFailure == ASSUME ConstantsOK PROVE Spec => []OneFailureKeepsRoute
<1>1. IInv => OneFailureKeepsRoute
  BY StepsAre DEF IInv, OneFailureHasRoute, OneFailure, OneFailureKeepsRoute, Traffic
<1> QED
  BY <1>1, RoutesInvariant, PTL

(* A fast replacement leaves clients a route at every step: only the end   *)
(* of an operation changes one, and then another carries the packets.      *)
LEMMA FastStepKeepsTraffic ==
  ASSUME ConstantsOK, IInv, IInv', [Next]_vars,
         call.fast, clean, used'.unknowns = 0, Traffic # {}
  PROVE  Traffic' # {}
<1>1. CASE UNCHANGED route
  BY <1>1 DEF Traffic
<1>2. ASSUME NEW n \in Names, Complete(n)
      PROVE  Traffic' # {}
  <2>1. call.pc # "idle" /\ call.to \in Agents /\ call.previous # None
    BY StepsAre DEF IInv, CallShape
  <2>2. used.unknowns = 0
    BY <1>2, FailureCounts DEF Complete, NoFault
  <2>3. OwnOnly /\ route[Carrier(call.pc)] # None
    BY <2>2 DEF IInv, FastHasCarrier
  <2>4. n = NameAt(call.pc) /\ pending[n].target = TargetAt(call.pc)
    BY <1>2, <2>3 DEF Complete, OwnOnly
  <2>5. /\ Carrier(call.pc) \in Names
        /\ call.to # None /\ None \notin Agents /\ Canonical \notin Agents
    BY <2>1 DEF Carrier, Names, ConstantsOK
  <2>6. \A m \in Names \ {n} : route'[m] = route[m]
    BY <1>2, Types DEF Complete
  <2>7. CASE Carrier(call.pc) # n
    <3>1. route'[Carrier(call.pc)] # None
      BY <2>3, <2>5, <2>6, <2>7
    <3> QED
      BY <2>5, <3>1 DEF Traffic, Names
  <2>8. CASE Carrier(call.pc) = n
    <3>1. call.pc \notin {"clean", "delete", "insert", "restore", "unshadow", "cleanup"}
      BY <2>1, <2>4, <2>5, <2>8 DEF Carrier, NameAt
    <3>2. call.pc = "shadow"
      BY <2>1, <3>1 DEF IInv, CallShape, Steps
    <3> QED
      BY <2>1, <2>4, <2>5, <2>8, <3>2 DEF Carrier, NameAt
  <2> QED
    BY <2>7, <2>8
<1> QED
  BY <1>1, <1>2 DEF Next, vars, Ensure, Handover, Attempt, Describe, Begin, Request, PollFails, GiveUp, TakeOver

(* Whatever fails, a fast replacement never takes the last route of the    *)
(* clients, if nothing older is under way and every answer arrives.        *)
THEOREM FastKeepsTraffic == ASSUME ConstantsOK PROVE Spec => FastNeverInterrupts
<1>1. IInv /\ IInv' /\ [Next]_vars
        => [call.fast /\ clean /\ used'.unknowns = 0 /\ Traffic # {} => Traffic' # {}]_vars
  BY FastStepKeepsTraffic
<1> QED
  BY <1>1, RoutesInvariant, PTL DEF Spec, FastNeverInterrupts

=============================================================================

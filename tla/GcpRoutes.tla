----------------------------- MODULE GcpRoutes -----------------------------
(***************************************************************************)
(* Route replacement on GCP, where a route cannot be changed: it is        *)
(* deleted and inserted again, each by an operation that goes on when its  *)
(* caller gives up.  A planned handover first inserts a "shadow" route of  *)
(* higher priority for the new target, so that clients keep a route, and   *)
(* it tries several times; the supervisor's repair deletes and inserts     *)
(* only.                                                                   *)
(*                                                                         *)
(* One route name, and one caller at a time: the ownership lock and the    *)
(* lease order the callers, except for the overlap module Ownership bounds.*)
(***************************************************************************)
EXTENDS Integers

CONSTANTS
  Agents, None, Canonical,
  Attempts,      \* of a handover to replace the route
  MaxFailures,   \* bound: requests refused and operations that fail
  MaxUnknowns,   \* bound: answers lost, polls that fail, callers that give up
  MaxOwners      \* bound: handovers and takeovers

ConstantsOK ==
  /\ None \notin Agents /\ Canonical \notin Agents /\ None # Canonical
  /\ Attempts \in Nat \ {0}
  /\ MaxFailures \in Nat /\ MaxUnknowns \in Nat /\ MaxOwners \in Nat

VARIABLES
  route,      \* per name the target of the route, or None
  pending,    \* per name the operation under way on it
  owner,      \* the agent that owns the lease
  call,       \* the ReplaceRoute under way, and the handover it belongs to
  clean,      \* history: nothing was pending when ReplaceRoute began
  used        \* how much of each bound is used up

vars == <<route, pending, owner, call, clean, used>>

-----------------------------------------------------------------------------
(* The shadow route of an agent is named after the agent.                  *)
Names == Agents \cup {Canonical}
Idle == [pc |-> "idle", tries |-> 0, fast |-> FALSE, to |-> None,
         previous |-> None, waits |-> FALSE]
Nothing == [kind |-> "none", target |-> None]

(* Where clients' packets go: a shadow route has the better priority.      *)
Traffic ==
  LET shadows == {a \in Agents : route[a] # None} IN
  IF shadows # {} THEN shadows ELSE {route[Canonical]} \ {None}

Count(bound, max) == used[bound] < max /\ used' = [used EXCEPT ![bound] = @ + 1]
Failure == Count("failures", MaxFailures)
Unknown == Count("unknowns", MaxUnknowns)
NoFault == UNCHANGED used

(* The route and the operation each step of the call asks for.             *)
NameAtPrevious(pc) ==   \* faulty: the shadow is named after the old target
  IF pc \in {"clean", "shadow", "unshadow", "cleanup"} THEN call.previous ELSE Canonical

NameAt(pc) ==
  IF pc \in {"clean", "shadow", "unshadow", "cleanup"} THEN call.to ELSE Canonical
TargetAt(pc) ==
  CASE pc \in {"shadow", "insert"} -> call.to
    [] pc = "restore" -> call.previous
    [] OTHER -> None
Deletes(pc) == pc \in {"clean", "delete", "unshadow", "cleanup"}

AfterWithoutShadow(pc) ==   \* faulty: the canonical route goes first
  CASE pc = "clean" -> "delete"
    [] pc = "delete" -> "insert"
    [] pc = "restore" /\ call.fast -> "cleanup"
    [] OTHER -> "idle"

(* The steps of replaceRouteWithShadow and replaceRouteByDeleteInsert.     *)
After(pc) ==
  CASE pc = "clean" -> "shadow"
    [] pc = "shadow" -> "delete"
    [] pc = "delete" -> "insert"
    [] pc = "insert" /\ call.fast -> "unshadow"
    [] pc = "restore" /\ call.fast -> "cleanup"
    [] OTHER -> "idle"

(* restorePreviousRoute, restorePreviousAfterShadow: nothing to restore    *)
(* ends the call.                                                          *)
Restore == IF call.previous = None THEN "idle" ELSE "restore"

AfterRefusal(pc) ==
  CASE pc = "delete" /\ call.fast -> "cleanup"
    [] pc = "insert" -> Restore
    [] OTHER -> "idle"

AfterFailureOnly(pc) == "idle"   \* faulty: nothing is restored

AfterFailure(pc) == IF pc \in {"delete", "insert"} THEN Restore ELSE "idle"

(* ReplaceRoute goes on or is over.  One of a handover is the tries-th     *)
(* attempt, after which the route is described.                            *)
Go(pc) ==
  call' = IF pc # "idle" THEN [call EXCEPT !.pc = pc, !.waits = FALSE]
          ELSE IF call.tries = 0 THEN Idle
          ELSE [Idle EXCEPT !.pc = "describe", !.tries = call.tries, !.to = call.to]

Init ==
  /\ \E a \in Agents :
       /\ owner = a
       /\ route = [n \in Names |-> IF n = Canonical THEN a ELSE None]
  /\ pending = [n \in Names |-> Nothing]
  /\ call = Idle
  /\ clean = TRUE
  /\ used = [failures |-> 0, unknowns |-> 0, owners |-> 0]

(* Only the canonical route is described, never a shadow.                  *)
DescribeRoute == route[Canonical]

(* ReplaceRoute reads the canonical route and chooses how to replace it.   *)
Begin(to, tries) ==
  LET previous == route[Canonical]
      fast == tries > 0 /\ previous # None IN
  /\ previous # to
  /\ call' = [pc |-> IF fast THEN "clean" ELSE "delete", tries |-> tries,
              fast |-> fast, to |-> to, previous |-> previous, waits |-> FALSE]
  /\ clean' = (\A n \in Names : pending[n] = Nothing)
  /\ UNCHANGED <<route, pending, owner>>

EnsureFound ==   \* faulty: a missing route is an error
  call.pc = "idle" /\ DescribeRoute \notin {None, owner} /\ Begin(owner, 0) /\ NoFault

(* ensureOwnership of the owner, with a route that is missing or elsewhere;*)
(* revertHandover of one whose attempts all failed does the same.          *)
Ensure ==
  call.pc = "idle" /\ DescribeRoute # owner /\ Begin(owner, 0) /\ NoFault

(* A handover to any other agent, about to make its first attempt.         *)
Handover ==
  /\ call.pc = "idle"
  /\ Count("owners", MaxOwners)
  /\ \E b \in Agents \ {owner} : call' = [Idle EXCEPT !.pc = "again", !.to = b]
  /\ UNCHANGED <<route, pending, owner, clean>>

(* replaceRouteForHandover: the next attempt.  ReplaceRoute has nothing to *)
(* do if the target has the route already.                                 *)
Attempt ==
  /\ call.pc = "again"
  /\ NoFault
  /\ \/ Begin(call.to, call.tries + 1)
     \/ /\ DescribeRoute = call.to
        /\ call' = [call EXCEPT !.pc = "describe", !.tries = @ + 1]
        /\ UNCHANGED <<route, pending, owner, clean>>

(* Whatever ReplaceRoute returned: once the target is seen to have the     *)
(* route it gets the lease, and otherwise there is another attempt.        *)
Describe ==
  /\ call.pc = "describe"
  /\ \/ /\ DescribeRoute = call.to /\ NoFault
        /\ owner' = call.to /\ call' = Idle
     \/ /\ (DescribeRoute # call.to /\ NoFault) \/ Unknown
        /\ call' = IF call.tries < Attempts THEN [call EXCEPT !.pc = "again"] ELSE Idle
        /\ UNCHANGED owner
  /\ UNCHANGED <<route, pending, clean>>

-----------------------------------------------------------------------------
(* The call asks for an operation.  It is accepted, and waited for unless  *)
(* its answer is lost; or it is refused, always so if the route is there   *)
(* already or has an operation under way.  A missing route needs no        *)
(* deletion, and deleteRouteIfExists tries again until its route is ready. *)
Steps == {"clean", "shadow", "delete", "insert", "unshadow", "restore", "cleanup"}
Request ==
  LET pc == call.pc
      n == NameAt(pc)
      ready == pending[n] = Nothing
      accepts == ready /\ (Deletes(pc) <=> route[n] # None)
      operation == [kind |-> IF Deletes(pc) THEN "delete" ELSE "insert",
                    target |-> TargetAt(pc)]
  IN
  /\ pc \in Steps /\ ~ call.waits
  /\ \/ /\ accepts
        /\ pending' = [pending EXCEPT ![n] = operation]
        /\ \/ call' = [call EXCEPT !.waits = TRUE] /\ NoFault
           \/ Unknown /\ Go(AfterRefusal(pc))
     \/ accepts /\ Failure /\ Go(AfterRefusal(pc)) /\ UNCHANGED pending
     \/ /\ ~ accepts /\ NoFault /\ UNCHANGED pending
        /\ \/ Deletes(pc) /\ ready /\ Go(After(pc))
           \/ /\ ~ (Deletes(pc) /\ (ready \/ n # Canonical))
              /\ Go(AfterRefusal(pc))
  /\ UNCHANGED <<route, owner, clean>>

(* An operation ends, whoever waits for it or not.                         *)
Complete(n) ==
  LET Tell(next) == IF call.waits /\ NameAt(call.pc) = n THEN Go(next) ELSE UNCHANGED call IN
  /\ pending[n] # Nothing
  /\ pending' = [pending EXCEPT ![n] = Nothing]
  /\ \/ /\ route' = [route EXCEPT ![n] = pending[n].target]
        /\ Tell(After(call.pc)) /\ NoFault
     \/ UNCHANGED route /\ Tell(AfterFailure(call.pc)) /\ Failure
  /\ UNCHANGED <<owner, clean>>

(* A poll fails: the call takes the operation for failed.                  *)
PollFails ==
  /\ call.waits
  /\ Unknown
  /\ Go(AfterFailure(call.pc))
  /\ UNCHANGED <<route, pending, owner, clean>>

(* The deadline of the attempt passes, or of the handover, which also ends *)
(* if a fence fails: every later request fails.                            *)
GiveUp ==
  /\ call.pc # "idle"
  /\ Unknown
  /\ call' = Idle \/ (call.pc \in Steps /\ Go("idle"))
  /\ UNCHANGED <<route, pending, owner, clean>>

(* The owner crashes or stalls, its call with it, and loses its lease.      *)
TakeOver(b) ==
  /\ b # owner
  /\ Count("owners", MaxOwners)
  /\ owner' = b /\ call' = Idle
  /\ UNCHANGED <<route, pending, clean>>

Next ==
  \/ Ensure \/ Handover \/ Attempt \/ Describe \/ Request \/ PollFails \/ GiveUp
  \/ \E n \in Names : Complete(n)
  \/ \E b \in Agents : TakeOver(b)

Spec == Init /\ [][Next]_vars

(* The owner's supervisor tries again every step, a handover goes on, and  *)
(* operations end.                                                         *)
Proceed == Ensure \/ Attempt \/ Describe \/ Request
OperationEnds == \E n \in Names : Complete(n)

FairSpec == Spec /\ WF_vars(Proceed) /\ WF_vars(OperationEnds)

(***************************************************************************)
(* Properties.                                                             *)
(***************************************************************************)

(* Every variable has its type; a shadow route points at its agent.        *)
RoutesTypeOK ==
  /\ route \in [Names -> Agents \cup {None}]
  /\ \A a \in Agents : route[a] \in {a, None}
  /\ pending \in [Names -> [kind : {"none", "delete", "insert"}, target : Agents \cup {None}]]
  /\ owner \in Agents
  /\ call \in [pc : Steps \cup {"idle", "again", "describe"}, tries : 0..Attempts,
               fast : BOOLEAN, to : Agents \cup {None},
               previous : Agents \cup {None}, waits : BOOLEAN]
  /\ clean \in BOOLEAN
  /\ used \in [failures : 0..MaxFailures, unknowns : 0..MaxUnknowns, owners : 0..MaxOwners]

(* No step of a fast replacement takes the last route of the clients,      *)
(* whichever of its requests and operations fail, if nothing older is      *)
(* under way and every answer arrives.                                     *)
FastNeverInterrupts ==
  [][call.fast /\ clean /\ used'.unknowns = 0 /\ Traffic # {}
       => Traffic' # {}]_vars

(* One refused request or failed operation costs no route: whenever a      *)
(* replacement that one change of owner asks for is over, clients have a   *)
(* route, the new one or the one before.                                   *)
OneFailureKeepsRoute ==
  /\ call.pc \notin Steps /\ used.unknowns = 0
  /\ used.failures <= 1 /\ used.owners <= 1
  => Traffic # {}

(* The described route ends up at the owner of the lease, and there is one.*)
Converged == route[Canonical] = owner
Converges == <>[]Converged

(* Clients' packets end up at the owner of the lease as well: a shadow     *)
(* route is temporary.                                                     *)
TrafficConverges == <>[](Traffic = {owner})
=============================================================================

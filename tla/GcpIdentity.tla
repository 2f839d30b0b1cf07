---------------------------- MODULE GcpIdentity ----------------------------
(***************************************************************************)
(* The shared address on GCP.  An instance has one external access         *)
(* configuration, with an address of its own or with the shared one, or    *)
(* none.  AssociateEIP deletes the configuration of the address's holder   *)
(* and the target's own before it gives the target the shared address:     *)
(* three operations, each of which goes on when its caller gives up, and   *)
(* calls of an old and of a new owner may overlap.                         *)
(***************************************************************************)
EXTENDS Naturals

CONSTANTS
  Agents, Nobody,
  MaxFaults,   \* bound: refusals, failed operations, lost answers
  MaxOwners    \* bound: takeovers, reverts and replaced instances

ConstantsOK == Nobody \notin Agents /\ MaxFaults \in Nat /\ MaxOwners \in Nat

VARIABLES
  config,   \* the access configuration of each instance
  pending,  \* the operation under way on it
  owner,    \* the agent that owns the lease
  call,     \* the AssociateEIP of each agent
  used      \* how much of each bound is used up

vars == <<config, pending, owner, call, used>>
-----------------------------------------------------------------------------
(* "alone" is history: nothing else was under way since the call began.    *)
Idle == [pc |-> "idle", from |-> Nobody, waits |-> FALSE, alone |-> FALSE]

(* What is described is where the address is.                              *)
DescribePublicIdentity(a) == config[a] = "shared"

(* addressHolder: whoever the address names as its user.                   *)
Holder == {a \in Agents : DescribePublicIdentity(a)}

Count(bound, max) == used[bound] < max /\ used' = [used EXCEPT ![bound] = @ + 1]
Fault == Count("faults", MaxFaults)
Change == Count("owners", MaxOwners)
NoFault == UNCHANGED used

Init ==
  /\ owner \in Agents
  /\ config = [a \in Agents |-> IF a = owner THEN "shared" ELSE "ephemeral"]
  /\ pending = [a \in Agents |-> "none"]
  /\ call = [a \in Agents |-> Idle]
  /\ used = [faults |-> 0, owners |-> 0]

Resting(a) == call[a].pc \in {"idle", "done"}
Disturbed(c) == [a \in Agents |-> [c[a] EXCEPT !.alone = FALSE]]

\* faulty: the address is taken from its target as well.
BeginAnyHolder(a) ==
  \E from \in IF Holder = {} THEN {Nobody} ELSE Holder :
    call' = [Disturbed(call) EXCEPT ![a] =
      [pc |-> IF from = Nobody THEN "inspect" ELSE "detach",
       from |-> from, waits |-> FALSE, alone |-> FALSE]]

(* AssociateEIP reads which instance uses the address.                     *)
Begin(a) ==
  \E from \in IF Holder = {} THEN {Nobody} ELSE Holder :
    call' = [Disturbed(call) EXCEPT ![a] =
      [pc |-> IF from \in {Nobody, a} THEN "inspect" ELSE "detach",
       from |-> from, waits |-> FALSE,
       alone |-> /\ \A b \in Agents \ {a} : Resting(b)
                 /\ \A b \in Agents : pending[b] = "none"]]

(* ensureOwnership describes the address first.                            *)
Ensure(a) ==
  /\ owner = a /\ Resting(a) /\ ~ DescribePublicIdentity(a)
  /\ Begin(a)
  /\ NoFault /\ UNCHANGED <<config, pending, owner>>

(* Activate, whose agent takes the lease of another that stalls, or has    *)
(* crashed; it does not look where the address is.                         *)
Activate(a) ==
  /\ owner # a /\ Resting(a)
  /\ Change
  /\ owner' = a
  /\ Begin(a)
  /\ UNCHANGED <<config, pending>>

(* The lease goes to a new owner, whose supervisor ensures the rest.       *)
Transfer(a) ==
  /\ owner # a
  /\ Change
  /\ owner' = a
  /\ UNCHANGED <<config, pending, call>>

(* revertHandover: the lease is not looked at.                             *)
Revert(a) ==
  /\ Resting(a)
  /\ Change
  /\ Begin(a)
  /\ UNCHANGED <<config, pending, owner>>

-----------------------------------------------------------------------------
(* The instance whose configuration a step deletes or adds.                *)
On(a) == IF call[a].pc = "detach" THEN call[a].from ELSE a

After(pc) ==
  CASE pc = "detach" -> "inspect"
    [] pc = "remove" -> "attach"
    [] pc = "attach" -> "done"

Go(a, pc) == call' = [call EXCEPT ![a].pc = pc, ![a].waits = FALSE]

(* The target is read after the holder's configuration is gone.            *)
Inspect(a) ==
  /\ call[a].pc = "inspect"
  /\ Go(a, CASE config[a] = "shared" -> "done"
             [] config[a] = "ephemeral" -> "remove"
             [] OTHER -> "attach")
  /\ NoFault /\ UNCHANGED <<config, pending, owner>>

\* faulty: an operation is taken for done when it is accepted.
RequestUnwaited(a) ==
  LET pc == call[a].pc
      n == On(a)
      accepts == pending[n] = "none" /\ (pc = "attach" <=> config[n] = "none") IN
  /\ pc \in {"detach", "remove", "attach"} /\ ~ call[a].waits
  /\ \/ /\ accepts
        /\ pending' = [pending EXCEPT ![n] = IF pc = "attach" THEN "attach" ELSE "delete"]
        /\ Go(a, After(pc)) /\ NoFault
     \/ ~ accepts /\ Go(a, "idle") /\ UNCHANGED <<pending, used>>
  /\ UNCHANGED <<config, owner>>

(* A step asks for its operation, and waits for it unless the answer is    *)
(* lost; it is refused if another is under way, or if there is nothing to  *)
(* delete or no room to add.  A holder without a configuration needs no    *)
(* deletion.                                                               *)
Request(a) ==
  LET pc == call[a].pc
      n == On(a)
      free == pending[n] = "none"
      accepts == free /\ (pc = "attach" <=> config[n] = "none") IN
  /\ pc \in {"detach", "remove", "attach"} /\ ~ call[a].waits
  /\ \/ /\ accepts
        /\ pending' = [pending EXCEPT ![n] = IF pc = "attach" THEN "attach" ELSE "delete"]
        /\ \/ call' = [call EXCEPT ![a].waits = TRUE] /\ NoFault
           \/ Fault /\ Go(a, "idle")
     \/ accepts /\ Fault /\ Go(a, "idle") /\ UNCHANGED pending
     \/ /\ ~ accepts /\ NoFault /\ UNCHANGED pending
        /\ Go(a, IF pc = "detach" /\ config[n] = "none" THEN After(pc) ELSE "idle")
  /\ UNCHANGED <<config, owner>>

(* An operation ends, whoever waits for it; the shared address is given to *)
(* one instance only.                                                      *)
Complete(n) ==
  LET waiters == {a \in Agents : call[a].waits /\ On(a) = n}
      Tell(ok) == call' = [a \in Agents |->
        IF a \notin waiters THEN call[a]
        ELSE [call[a] EXCEPT !.pc = IF ok THEN After(@) ELSE "idle", !.waits = FALSE]]
      possible == pending[n] = "attach" => Holder = {} IN
  /\ pending[n] # "none"
  /\ pending' = [pending EXCEPT ![n] = "none"]
  /\ \/ /\ possible /\ NoFault /\ Tell(TRUE)
        /\ config' = [config EXCEPT ![n] = IF pending[n] = "attach" THEN "shared" ELSE "none"]
     \/ ~ possible /\ NoFault /\ Tell(FALSE) /\ UNCHANGED config
     \/ Fault /\ Tell(FALSE) /\ UNCHANGED config
  /\ UNCHANGED owner

(* A poll fails, or the deadline passes: the operation goes on.            *)
PollFails(a) ==
  /\ call[a].waits
  /\ Fault /\ Go(a, "idle")
  /\ UNCHANGED <<config, pending, owner>>

(* An instance is made again, with an address of its own.                  *)
Replaced(a) ==
  /\ Change
  /\ config' = [config EXCEPT ![a] = "ephemeral"]
  /\ pending' = [pending EXCEPT ![a] = "none"]
  /\ call' = [b \in Agents |->
       IF b = a THEN Idle
       ELSE IF call[b].waits /\ On(b) = a THEN Idle
       ELSE [call[b] EXCEPT !.alone = FALSE]]
  /\ UNCHANGED owner

Next ==
  \E a \in Agents :
    \/ Ensure(a) \/ Activate(a) \/ Transfer(a) \/ Revert(a)
    \/ Inspect(a) \/ Request(a) \/ Complete(a) \/ PollFails(a) \/ Replaced(a)

Spec == Init /\ [][Next]_vars

(* The owner's supervisor repairs, calls go on, and operations end.        *)
Proceed == \E a \in Agents : Ensure(a) \/ Inspect(a) \/ Request(a)
OperationEnds == \E a \in Agents : Complete(a)

FairSpec == Spec /\ WF_vars(Proceed) /\ WF_vars(OperationEnds)

(***************************************************************************)
(* Properties.                                                             *)
(***************************************************************************)

(* Every variable has its type; what a call detaches is another's.         *)
IdentityTypeOK ==
  /\ config \in [Agents -> {"none", "ephemeral", "shared"}]
  /\ pending \in [Agents -> {"none", "delete", "attach"}]
  /\ owner \in Agents
  /\ call \in [Agents ->
       [pc : {"idle", "detach", "inspect", "remove", "attach", "done"},
        from : Agents \cup {Nobody}, waits : BOOLEAN, alone : BOOLEAN]]
  /\ \A a \in Agents : call[a].pc = "detach" => call[a].from \in Agents \ {a}
  /\ used \in [faults : 0..MaxFaults, owners : 0..MaxOwners]

(* AssociateEIP makes its answer up from its arguments.  It is true all    *)
(* the same: whatever halves of earlier calls it starts from, a call that  *)
(* succeeds leaves the shared address at its target, if nothing else was   *)
(* under way meanwhile.                                                    *)
SuccessIsTrue ==
  \A a \in Agents :
    call[a].pc = "done" /\ call[a].alone => config[a] = "shared"

(* The shared address ends up at the owner of the lease, whatever half of  *)
(* a replacement was done and whoever did it.                              *)
Converged == config[owner] = "shared"
Converges == <>[]Converged
=============================================================================

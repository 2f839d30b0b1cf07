------------------------- MODULE GcpIdentityProofs -------------------------
(***************************************************************************)
(* Proofs about GcpIdentity, for any agents and any bounds.                *)
(***************************************************************************)
EXTENDS GcpIdentity, TLAPS

Pcs == {"idle", "detach", "inspect", "remove", "attach", "done"}
CallState ==
  [pc : Pcs, from : Agents \cup {Nobody}, waits : BOOLEAN, alone : BOOLEAN]

(* A call waits in the three steps that ask for an operation.              *)
WaitsForOperation ==
  \A a \in Agents : call[a].waits => call[a].pc \in {"detach", "remove", "attach"}

(* While a call is alone, every other is over, what is under way is what   *)
(* it waits for, and once it has succeeded the address is at its target.   *)
Undisturbed(a) ==
  /\ \A b \in Agents \ {a} : Resting(b)
  /\ \A n \in Agents : pending[n] # "none" =>
       /\ call[a].waits /\ n = On(a)
       /\ pending[n] = IF call[a].pc = "attach" THEN "attach" ELSE "delete"
  /\ call[a].pc = "done" => config[a] = "shared"

AloneIsUndisturbed ==
  \A a \in Agents : call[a].alone /\ call[a].pc # "idle" => Undisturbed(a)

IInv == IdentityTypeOK /\ WaitsForOperation /\ AloneIsUndisturbed

-----------------------------------------------------------------------------
(* A bound that is counted stays within its type.                          *)
LEMMA CountKeeps ==
  ASSUME ConstantsOK, IdentityTypeOK, Fault \/ Change \/ NoFault
  PROVE  used' \in [faults : 0..MaxFaults, owners : 0..MaxOwners]
BY DEF ConstantsOK, IdentityTypeOK, Fault, Change, NoFault, Count

(* What a step may change in the record of a call.                         *)
LEMMA CallUpdate ==
  ASSUME NEW c \in CallState, NEW pc \in Pcs
  PROVE  LET d == [c EXCEPT !.pc = pc, !.waits = FALSE] IN
         /\ d \in CallState
         /\ d.pc = pc /\ ~ d.waits /\ d.from = c.from /\ d.alone = c.alone
BY DEF CallState

(* A call that goes on or ends is the only one that changes.               *)
LEMMA GoMoves ==
  ASSUME IdentityTypeOK, NEW a \in Agents, NEW pc \in Pcs, Go(a, pc)
  PROVE  /\ call' \in [Agents -> CallState]
         /\ call'[a].pc = pc /\ ~ call'[a].waits
         /\ call'[a].from = call[a].from /\ call'[a].alone = call[a].alone
         /\ \A b \in Agents \ {a} : call'[b] = call[b]
<1>1. call \in [Agents -> CallState] /\ call[a] \in CallState
  BY DEF IdentityTypeOK, CallState, Pcs
<1> DEFINE c == [call[a] EXCEPT !.pc = pc, !.waits = FALSE]
<1>2. /\ c \in CallState
      /\ c.pc = pc /\ ~ c.waits /\ c.from = call[a].from /\ c.alone = call[a].alone
  BY <1>1, CallUpdate
<1>3. call' = [call EXCEPT ![a] = c]
  BY DEF Go
<1> HIDE DEF c
<1>4. QED
  BY <1>1, <1>2, <1>3

-----------------------------------------------------------------------------
(* A call begins: it disturbs every other, and nothing disturbs it if the  *)
(* others are over and no operation is under way.                          *)
LEMMA BeginKeeps ==
  ASSUME IInv, NEW a \in Agents, Begin(a), UNCHANGED <<config, pending>>,
         owner' \in Agents, used' \in [faults : 0..MaxFaults, owners : 0..MaxOwners]
  PROVE  IInv'
<1>1. call \in [Agents -> CallState]
  BY DEF IInv, IdentityTypeOK, CallState, Pcs
<1>2. PICK from \in Agents \cup {Nobody} :
        call' = [Disturbed(call) EXCEPT ![a] =
          [pc |-> IF from \in {Nobody, a} THEN "inspect" ELSE "detach",
           from |-> from, waits |-> FALSE,
           alone |-> /\ \A b \in Agents \ {a} : Resting(b)
                     /\ \A b \in Agents : pending[b] = "none"]]
  BY DEF Begin, Holder
<1> DEFINE c == [pc |-> IF from \in {Nobody, a} THEN "inspect" ELSE "detach",
                 from |-> from, waits |-> FALSE,
                 alone |-> /\ \A b \in Agents \ {a} : Resting(b)
                           /\ \A b \in Agents : pending[b] = "none"]
<1>3. /\ c \in CallState /\ ~ c.waits /\ c.pc \in {"inspect", "detach"}
      /\ c.pc = "detach" => c.from \in Agents \ {a}
      /\ c.alone => /\ \A b \in Agents \ {a} : Resting(b)
                    /\ \A b \in Agents : pending[b] = "none"
  BY DEF CallState, Pcs
<1>4. call' = [Disturbed(call) EXCEPT ![a] = c]
  BY <1>2
<1> HIDE DEF c
<1>5. \A b \in Agents :
        /\ Disturbed(call)[b] \in CallState
        /\ ~ Disturbed(call)[b].alone
        /\ Disturbed(call)[b].pc = call[b].pc
        /\ Disturbed(call)[b].waits = call[b].waits
        /\ Disturbed(call)[b].from = call[b].from
  BY <1>1 DEF Disturbed, CallState
<1>6. Disturbed(call) \in [Agents -> CallState]
  BY <1>5 DEF Disturbed
<1>7. /\ call' \in [Agents -> CallState] /\ call'[a] = c
      /\ \A b \in Agents \ {a} : /\ call'[b].pc = call[b].pc
                                 /\ call'[b].waits = call[b].waits
                                 /\ call'[b].from = call[b].from
                                 /\ ~ call'[b].alone
  BY <1>3, <1>4, <1>5, <1>6
<1>8. IdentityTypeOK'
  BY <1>3, <1>7 DEF IInv, IdentityTypeOK, CallState, Pcs
<1>9. WaitsForOperation'
  BY <1>3, <1>7 DEF IInv, WaitsForOperation
<1>10. AloneIsUndisturbed'
  BY <1>3, <1>7 DEF AloneIsUndisturbed, Undisturbed, Resting
<1> QED
  BY <1>8, <1>9, <1>10 DEF IInv

(* A step of a's call that does not ask for an operation.                  *)
LEMMA GoKeeps ==
  ASSUME ConstantsOK, IInv, NEW a \in Agents, NEW pc \in Pcs \ {"detach"}, Go(a, pc),
         ~ Resting(a), UNCHANGED <<config, owner>>,
         used' \in [faults : 0..MaxFaults, owners : 0..MaxOwners],
         pending' \in [Agents -> {"none", "delete", "attach"}],
         call[a].alone /\ pc # "idle" =>
           /\ \A n \in Agents : pending'[n] = "none"
           /\ pc = "done" => config[a] = "shared",
         \A n \in Agents : pending'[n] # pending[n] => n = On(a)
  PROVE  IInv'
<1>1. /\ call' \in [Agents -> CallState]
      /\ call'[a].pc = pc /\ ~ call'[a].waits
      /\ call'[a].from = call[a].from /\ call'[a].alone = call[a].alone
      /\ \A b \in Agents \ {a} : call'[b] = call[b]
  BY GoMoves DEF IInv
<1>2. IdentityTypeOK'
  BY <1>1 DEF IInv, IdentityTypeOK, CallState, Pcs
<1>3. WaitsForOperation'
  BY <1>1 DEF IInv, WaitsForOperation
<1>4. ASSUME NEW b \in Agents, call'[b].alone, call'[b].pc # "idle"
      PROVE  Undisturbed(b)'
  <2>1. CASE b = a
    BY <1>1, <1>4, <2>1 DEF IInv, AloneIsUndisturbed, Undisturbed, Resting, Pcs
  <2>2. CASE b # a
    BY <1>1, <1>4, <2>2 DEF IInv, AloneIsUndisturbed, Undisturbed
  <2> QED
    BY <2>1, <2>2
<1> QED
  BY <1>2, <1>3, <1>4 DEF IInv, AloneIsUndisturbed

LEMMA RequestKeeps ==
  ASSUME ConstantsOK, IInv, NEW a \in Agents, Request(a)
  PROVE  IInv'
<1> DEFINE pc == call[a].pc
           n == On(a)
           accepts == pending[n] = "none" /\ (pc = "attach" <=> config[n] = "none")
           op == IF pc = "attach" THEN "attach" ELSE "delete"
<1>1. /\ call \in [Agents -> CallState] /\ pc \in {"detach", "remove", "attach"}
      /\ ~ call[a].waits /\ ~ Resting(a) /\ UNCHANGED <<config, owner>>
  BY DEF IInv, IdentityTypeOK, CallState, Pcs, Request, Resting
<1>2. n \in Agents
  BY <1>1 DEF IInv, IdentityTypeOK, On
<1>3. used' \in [faults : 0..MaxFaults, owners : 0..MaxOwners]
  BY CountKeeps DEF Request, IInv
<1>4. pending \in [Agents -> {"none", "delete", "attach"}]
  BY DEF IInv, IdentityTypeOK
<1>5. CASE accepts /\ pending' = [pending EXCEPT ![n] = op]
           /\ call' = [call EXCEPT ![a].waits = TRUE]
  <2> DEFINE c == [call[a] EXCEPT !.waits = TRUE]
  <2>1. /\ c \in CallState /\ c.pc = pc /\ c.waits /\ c.from = call[a].from
        /\ c.alone = call[a].alone
    BY <1>1 DEF CallState
  <2>2. call' = [call EXCEPT ![a] = c]
    BY <1>5
  <2> HIDE DEF c
  <2>3. /\ call' \in [Agents -> CallState] /\ call'[a] = c
        /\ \A b \in Agents \ {a} : call'[b] = call[b]
    BY <1>1, <2>1, <2>2
  <2>4. /\ pending' \in [Agents -> {"none", "delete", "attach"}] /\ pending'[n] = op
        /\ \A m \in Agents \ {n} : pending'[m] = pending[m]
    BY <1>2, <1>4, <1>5
  <2>5. IdentityTypeOK'
    BY <1>1, <1>3, <2>1, <2>3, <2>4 DEF IInv, IdentityTypeOK, CallState, Pcs
  <2>6. WaitsForOperation'
    BY <1>1, <2>1, <2>3 DEF IInv, WaitsForOperation
  <2>7. On(a)' = n /\ \A b \in Agents : Resting(b)' = Resting(b)
    BY <2>1, <2>3 DEF On, Resting
  <2>8. ASSUME NEW b \in Agents, call'[b].alone, call'[b].pc # "idle"
        PROVE  Undisturbed(b)'
    BY <1>1, <2>1, <2>3, <2>4, <2>7, <2>8 DEF IInv, AloneIsUndisturbed, Undisturbed
  <2> QED
    BY <2>5, <2>6, <2>8 DEF IInv, AloneIsUndisturbed
<1>6. CASE accepts /\ pending' = [pending EXCEPT ![n] = op] /\ Go(a, "idle")
  <2>1. /\ pending' \in [Agents -> {"none", "delete", "attach"}]
        /\ \A m \in Agents : pending'[m] # pending[m] => m = On(a)
    BY <1>2, <1>4, <1>6
  <2> QED
    BY <1>1, <1>3, <1>6, <2>1, GoKeeps DEF Pcs
<1>7. CASE UNCHANGED pending /\ Go(a, "idle")
  BY <1>1, <1>3, <1>4, <1>7, GoKeeps DEF Pcs
<1>8. CASE UNCHANGED pending /\ pc = "detach" /\ ~ call[a].waits /\ Go(a, "inspect")
  <2>1. call[a].alone => \A m \in Agents : pending'[m] = "none"
    BY <1>1, <1>4, <1>8 DEF IInv, AloneIsUndisturbed, Undisturbed
  <2> QED
    BY <1>1, <1>3, <1>4, <1>8, <2>1, GoKeeps DEF Pcs
<1> QED
  BY <1>1, <1>5, <1>6, <1>7, <1>8 DEF Request, After

LEMMA InspectKeeps ==
  ASSUME ConstantsOK, IInv, NEW a \in Agents, Inspect(a)
  PROVE  IInv'
<1>1. used' \in [faults : 0..MaxFaults, owners : 0..MaxOwners]
  BY CountKeeps DEF Inspect, IInv
<1>2. /\ UNCHANGED <<config, pending, owner>>
      /\ call[a].pc = "inspect" /\ ~ Resting(a) /\ ~ call[a].waits
  BY DEF Inspect, Resting, IInv, WaitsForOperation
<1>3. PICK pc \in {"done", "remove", "attach"} :
        Go(a, pc) /\ (pc = "done" => config[a] = "shared")
  BY DEF Inspect
<1>4. call[a].alone => \A n \in Agents : pending'[n] = "none"
  BY <1>2 DEF IInv, IdentityTypeOK, AloneIsUndisturbed, Undisturbed
<1> QED
  BY <1>1, <1>2, <1>3, <1>4, GoKeeps DEF IInv, IdentityTypeOK, Pcs

LEMMA PollFailsKeeps ==
  ASSUME ConstantsOK, IInv, NEW a \in Agents, PollFails(a)
  PROVE  IInv'
<1>1. used' \in [faults : 0..MaxFaults, owners : 0..MaxOwners]
  BY CountKeeps DEF PollFails, IInv
<1>2. ~ Resting(a) /\ Go(a, "idle") /\ UNCHANGED <<config, pending, owner>>
  BY DEF PollFails, Resting, IInv, WaitsForOperation
<1> QED
  BY <1>1, <1>2, GoKeeps DEF IInv, IdentityTypeOK, Pcs

(* An operation ends.  If a call that is alone waits for one, it is this   *)
(* one, and nobody else waits.                                             *)
LEMMA CompleteKeeps ==
  ASSUME ConstantsOK, IInv, NEW n \in Agents, Complete(n)
  PROVE  IInv'
<1> DEFINE waiters == {a \in Agents : call[a].waits /\ On(a) = n}
           told(ok) == [a \in Agents |->
             IF a \notin waiters THEN call[a]
             ELSE [call[a] EXCEPT !.pc = IF ok THEN After(@) ELSE "idle", !.waits = FALSE]]
           given == [config EXCEPT ![n] = IF pending[n] = "attach" THEN "shared" ELSE "none"]
<1>1. used' \in [faults : 0..MaxFaults, owners : 0..MaxOwners]
  BY CountKeeps DEF Complete, IInv
<1>2. /\ call \in [Agents -> CallState] /\ config \in [Agents -> {"none", "ephemeral", "shared"}]
      /\ pending \in [Agents -> {"none", "delete", "attach"}] /\ owner \in Agents
  BY DEF IInv, IdentityTypeOK, CallState, Pcs
<1>3. /\ pending[n] # "none" /\ UNCHANGED owner
      /\ pending' = [pending EXCEPT ![n] = "none"]
  BY DEF Complete
<1>4. PICK ok \in BOOLEAN :
        /\ call' = told(ok)
        /\ ok => config' = given
        /\ ~ ok => UNCHANGED config
  BY DEF Complete
<1>5. \A a \in waiters : call[a].pc \in {"detach", "remove", "attach"}
  BY DEF IInv, WaitsForOperation
<1>6. ASSUME NEW a \in waiters
      PROVE  LET pc == IF ok THEN After(call[a].pc) ELSE "idle" IN
             /\ call'[a] \in CallState
             /\ call'[a].pc = pc /\ ~ call'[a].waits
             /\ call'[a].from = call[a].from /\ call'[a].alone = call[a].alone
  <2> DEFINE pc == IF ok THEN After(call[a].pc) ELSE "idle"
  <2>1. pc \in Pcs /\ call[a] \in CallState
    BY <1>2, <1>5 DEF After, Pcs
  <2>2. call'[a] = [call[a] EXCEPT !.pc = pc, !.waits = FALSE]
    BY <1>4 DEF told, pc
  <2> HIDE DEF pc
  <2> DEFINE c == [call[a] EXCEPT !.pc = pc, !.waits = FALSE]
  <2>3. /\ c \in CallState
        /\ c.pc = pc /\ ~ c.waits /\ c.from = call[a].from /\ c.alone = call[a].alone
    BY <2>1, CallUpdate
  <2>4. call'[a] = c
    BY <2>2
  <2> HIDE DEF c
  <2> QED
    BY <2>3, <2>4 DEF pc
<1>7. \A a \in Agents \ waiters : call'[a] = call[a]
  BY <1>4
<1>8. call' \in [Agents -> CallState]
  BY <1>2, <1>4, <1>6, <1>7
<1> HIDE DEF told
<1>9. config' \in [Agents -> {"none", "ephemeral", "shared"}]
  BY <1>2, <1>4
<1>10. \A a \in waiters : call'[a].pc \in {"idle", "inspect", "attach", "done"}
  BY <1>4, <1>5, <1>6 DEF After
<1>11. IdentityTypeOK'
  BY <1>1, <1>2, <1>3, <1>7, <1>8, <1>9, <1>10 DEF IInv, IdentityTypeOK, CallState, Pcs
<1>12. WaitsForOperation'
  BY <1>6, <1>7 DEF IInv, WaitsForOperation
<1>13. ASSUME NEW b \in Agents, call'[b].alone, call'[b].pc # "idle"
       PROVE  Undisturbed(b)'
  <2>1. b \in waiters /\ call[b].alone /\ call[b].pc \in {"detach", "remove", "attach"}
    <3>1. call[b].alone /\ call[b].pc # "idle"
      BY <1>5, <1>6, <1>7, <1>13
    <3>2. call[b].waits /\ n = On(b)
      BY <1>3, <3>1 DEF IInv, AloneIsUndisturbed, Undisturbed
    <3> QED
      BY <1>5, <3>1, <3>2
  <2>2. /\ \A a \in Agents \ {b} : Resting(a)
        /\ \A m \in Agents \ {n} : pending[m] = "none"
        /\ pending[n] = IF call[b].pc = "attach" THEN "attach" ELSE "delete"
    BY <1>3, <2>1 DEF IInv, AloneIsUndisturbed, Undisturbed
  <2>3. \A a \in Agents \ {b} : a \notin waiters
    BY <1>5, <2>2 DEF Resting
  <2>4. \A a \in Agents \ {b} : Resting(a)'
    BY <1>7, <2>2, <2>3 DEF Resting
  <2>5. \A m \in Agents : pending'[m] = "none"
    BY <1>2, <1>3, <2>2
  <2>6. call'[b].pc = "done" => config'[b] = "shared"
    <3>1. SUFFICES ASSUME call'[b].pc = "done" PROVE config'[b] = "shared"
      OBVIOUS
    <3>2. ok /\ call[b].pc = "attach"
      BY <1>6, <2>1, <3>1 DEF After
    <3>3. n = b
      BY <2>1, <3>2 DEF On
    <3> QED
      BY <1>2, <1>4, <2>2, <3>2, <3>3
  <2> QED
    BY <2>4, <2>5, <2>6 DEF Undisturbed
<1> QED
  BY <1>11, <1>12, <1>13 DEF IInv, AloneIsUndisturbed

(* A replaced instance loses its call and everybody who waited for it.     *)
LEMMA ReplacedKeeps ==
  ASSUME ConstantsOK, IInv, NEW a \in Agents, Replaced(a)
  PROVE  IInv'
<1>1. used' \in [faults : 0..MaxFaults, owners : 0..MaxOwners]
  BY CountKeeps DEF Replaced, IInv
<1>2. /\ call \in [Agents -> CallState] /\ config \in [Agents -> {"none", "ephemeral", "shared"}]
      /\ pending \in [Agents -> {"none", "delete", "attach"}] /\ owner \in Agents
  BY DEF IInv, IdentityTypeOK, CallState, Pcs
<1>3. Idle \in CallState /\ Idle.pc = "idle" /\ ~ Idle.waits /\ ~ Idle.alone
  BY DEF Idle, CallState, Pcs
<1>4. \A b \in Agents :
        LET c == [call[b] EXCEPT !.alone = FALSE] IN
        /\ c \in CallState /\ ~ c.alone
        /\ c.pc = call[b].pc /\ c.waits = call[b].waits /\ c.from = call[b].from
  BY <1>2 DEF CallState
<1>5. \A b \in Agents : \/ call'[b] = Idle
                        \/ call'[b] = [call[b] EXCEPT !.alone = FALSE]
  BY DEF Replaced
<1>6. \A b \in Agents :
        /\ call'[b] \in CallState /\ ~ call'[b].alone
        /\ \/ call'[b].pc = "idle" /\ ~ call'[b].waits
           \/ /\ call'[b].pc = call[b].pc /\ call'[b].waits = call[b].waits
              /\ call'[b].from = call[b].from
  BY <1>3, <1>4, <1>5
<1>7. call' \in [Agents -> CallState]
  BY <1>6 DEF Replaced
<1>8. /\ config' \in [Agents -> {"none", "ephemeral", "shared"}]
      /\ pending' \in [Agents -> {"none", "delete", "attach"}]
      /\ owner' \in Agents
  BY <1>2 DEF Replaced
<1>9. IdentityTypeOK'
  BY <1>1, <1>6, <1>7, <1>8 DEF IInv, IdentityTypeOK, CallState, Pcs
<1>10. WaitsForOperation' /\ AloneIsUndisturbed'
  BY <1>6 DEF IInv, WaitsForOperation, AloneIsUndisturbed
<1> QED
  BY <1>9, <1>10 DEF IInv

LEMMA InitIInv ==
  ASSUME ConstantsOK, Init
  PROVE  IInv
<1>1. Idle \in CallState /\ Idle.pc = "idle" /\ ~ Idle.waits
  BY DEF Idle, CallState, Pcs
<1> QED
  BY <1>1 DEF ConstantsOK, Init, IInv, IdentityTypeOK, WaitsForOperation,
              AloneIsUndisturbed, CallState, Pcs

LEMMA NextIInv ==
  ASSUME ConstantsOK, IInv, [Next]_vars
  PROVE  IInv'
<1>1. ASSUME NEW a \in Agents, Ensure(a) \/ Activate(a) \/ Revert(a)
      PROVE  IInv'
  <2>1. used' \in [faults : 0..MaxFaults, owners : 0..MaxOwners]
    BY <1>1, CountKeeps DEF Ensure, Activate, Revert, IInv
  <2>2. owner' \in Agents
    BY <1>1 DEF Ensure, Activate, Revert, IInv, IdentityTypeOK
  <2> QED
    BY <1>1, <2>1, <2>2, BeginKeeps DEF Ensure, Activate, Revert
<1>2. ASSUME NEW a \in Agents, Transfer(a)
      PROVE  IInv'
  <2>1. used' \in [faults : 0..MaxFaults, owners : 0..MaxOwners]
    BY <1>2, CountKeeps DEF Transfer, IInv
  <2> QED
    BY <1>2, <2>1 DEF Transfer, IInv, IdentityTypeOK, WaitsForOperation,
                      AloneIsUndisturbed, Undisturbed, Resting, On
<1>3. CASE UNCHANGED vars
  BY <1>3 DEF vars, IInv, IdentityTypeOK, WaitsForOperation,
              AloneIsUndisturbed, Undisturbed, Resting, On
<1> QED
  BY <1>1, <1>2, <1>3, InspectKeeps, RequestKeeps, CompleteKeeps, PollFailsKeeps,
     ReplacedKeeps DEF Next

(* The strengthened invariant, for any number of agents and bounds.        *)
THEOREM IdentityInvariant == ASSUME ConstantsOK PROVE Spec => []IInv
BY InitIInv, NextIInv, PTL DEF Spec

(* Every variable of GcpIdentity keeps its type, and what AssociateEIP     *)
(* detaches first is never its own target.                                 *)
THEOREM IdentityTypeCorrect == ASSUME ConstantsOK PROVE Spec => []IdentityTypeOK
<1>1. IInv => IdentityTypeOK
  BY DEF IInv
<1> QED
  BY <1>1, IdentityInvariant, PTL

(* An AssociateEIP that reports success has moved the shared address,      *)
(* whatever halves of earlier calls it starts from, if nothing else was    *)
(* under way.                                                              *)
THEOREM AssociationIsTrue == ASSUME ConstantsOK PROVE Spec => []SuccessIsTrue
<1>1. IInv => SuccessIsTrue
  BY DEF IInv, AloneIsUndisturbed, Undisturbed, SuccessIsTrue
<1> QED
  BY <1>1, IdentityInvariant, PTL

=============================================================================

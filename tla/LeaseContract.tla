--------------------------- MODULE LeaseContract ---------------------------
(***************************************************************************)
(* What a lease.Manager promises to the HA controllers, without clocks,    *)
(* expiry times, generations or storage: one agent at a time may be the    *)
(* holder, only the holder may be authorised to act, and the holder never  *)
(* changes from one agent to another while anyone is authorised, unless    *)
(* the holder itself hands the lease over.                                 *)
(***************************************************************************)
EXTENDS FiniteSets

CONSTANTS
  Agents,   \* the agents (instance ids) of one HA group
  NoAgent   \* stands for "no owner"

VARIABLES
  holder,     \* the agent the group's lease belongs to, or NoAgent
  authorised  \* the agents entitled to act on a lease they were given

vars == <<holder, authorised>>

Init ==
  /\ holder = NoAgent
  /\ authorised = {}

(* The lease is given to a: it is free, a's already, or nobody is          *)
(* authorised by it any more.  The answer may not reach a.                 *)
Grant(a) ==
  /\ holder \in {NoAgent, a} \/ authorised = {}
  /\ holder' = a
  /\ authorised' \in {{}, {a}}

(* The holder learns, or is told again, that the lease is its own.         *)
Confirm(a) ==
  /\ holder = a
  /\ authorised' = {a}
  /\ UNCHANGED holder

(* Somebody's entitlement ends: by time, by a failed call or by a crash.   *)
Lapse ==
  /\ authorised' \in SUBSET authorised
  /\ UNCHANGED holder

(* The holder gives the lease up, or gives it to another agent, which may  *)
(* not know yet.                                                           *)
Resign(a) ==
  /\ holder = a
  /\ holder' \in Agents \cup {NoAgent}
  /\ authorised' \subseteq {holder'} \cap Agents

Next ==
  \/ \E a \in Agents : Grant(a) \/ Confirm(a) \/ Resign(a)
  \/ Lapse

Spec == Init /\ [][Next]_vars

-----------------------------------------------------------------------------
(* Only the holder is ever authorised, so at most one agent is.            *)
OnlyHolderAuthorised == authorised \subseteq {holder}
=============================================================================

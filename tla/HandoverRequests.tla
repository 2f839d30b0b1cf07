-------------------------- MODULE HandoverRequests --------------------------
(***************************************************************************)
(* Planned handovers as the agents serve them: a request with an id comes  *)
(* from an operator or from an agent that stops, at any agent; it is       *)
(* forwarded to the agent that owns the lease, recorded in the             *)
(* coordination store, prepared with the target and carried out by the HA  *)
(* controller (module Ownership, here one step).  Clients repeat requests, *)
(* answers are lost, agents crash, calls to the store fail, and records    *)
(* expire: whoever reads an expired one deletes it, in a later call.       *)
(*                                                                         *)
(* An execution is one run of the handover handler at one agent, a         *)
(* goroutine that goes on when its caller has given up.                    *)
(***************************************************************************)
EXTENDS Integers, FiniteSets

CONSTANTS
  Agents, NoAgent,
  Requests,      \* request ids
  Execs,         \* bound: executions of the handler at one time
  PeerAPI,       \* control.peer_api is configured
  MaxFaults,     \* bound: failing calls, lost answers, timeouts, crashes,
                 \* stalled owners and records that expire
  MaxCalls       \* bound: requests of clients and of agents that stop

ASSUME HandoverAgents == NoAgent \notin Agents
ASSUME HandoverExecs == Execs \cap {"client", "stop", "nobody", "free"} = {}
ASSUME HandoverSwitches == PeerAPI \in BOOLEAN
ASSUME HandoverBounds == MaxFaults \in Nat /\ MaxCalls \in Nat

VARIABLES
  lease,     \* the stored lease: owner and generation
  record,    \* the status of each request's durable record, or "none"
  expired,   \* the requests whose record is past its time
  listed,    \* the expired records a listing has read and is to delete
  exec,      \* the executions of the handler
  mutex,     \* OwnershipMu of each process: the execution that holds it
  phase,     \* what each agent is doing, see Phases
  moves,     \* history: how often each request moved the lease
  before,    \* history: ... up to the last deletion of its expired record
  struck,    \* history: requests that lost a record which had not expired
  told,      \* history: the requests whose client was told "completed"
  used       \* how much of each bound is used up

vars == <<lease, record, expired, listed, exec, mutex, phase, moves, before, struck,
          told, used>>
world == <<lease, mutex, phase>>
store == <<record, expired, listed, moves, before, struck>>

-----------------------------------------------------------------------------
Terminal == {"completed", "failed", "rejected"}
Statuses == Terminal \cup {"requested", "preparing", "committing"}
Idle == [pc |-> "idle", at |-> NoAgent, req |-> NoAgent, caller |-> "client",
         gen |-> 0, to |-> NoAgent, answer |-> "rejected"]

(* "up"; "noticed", which saw a termination notice; "sigterm", told to     *)
(* stop, its servers closed; "left", its supervisor done and its lease     *)
(* released but its servers open until the instance ends; "down", to be    *)
(* restarted; "gone".                                                      *)
Phases == {"up", "noticed", "sigterm", "left", "down", "gone"}
Supervised(a) == phase[a] \in {"up", "noticed", "sigterm"}
Serving(a) == phase[a] \in {"up", "noticed", "left"}
Enter(a, p) == phase' = [phase EXCEPT ![a] = p]

Fault == used.faults < MaxFaults /\ used' = [used EXCEPT !.faults = @ + 1]
Request == used.calls < MaxCalls /\ used' = [used EXCEPT !.calls = @ + 1]
NoFault == UNCHANGED used

Executing(e, pc) == exec[e].pc = pc
Started(a, q, caller) ==
  [Idle EXCEPT !.pc = "lookup", !.at = a, !.req = q, !.caller = caller]
GoTo(e, pc) == exec' = [exec EXCEPT ![e].pc = pc]
Free == {e \in Execs : exec[e].pc = "idle"}
AFree == CHOOSE e \in Free : TRUE

(* The execution ends: its caller, if it still waits, is told status.      *)
Answer(e, status) ==
  LET c == exec[e].caller IN
  /\ exec' = [x \in Execs |->
       IF x = e
       THEN IF c = "stop"
            THEN [Idle EXCEPT !.pc = "stopped", !.at = exec[e].at, !.req = exec[e].req]
            ELSE Idle
       ELSE IF x = c THEN [exec[x] EXCEPT !.pc = "relay", !.answer = status]
       ELSE IF exec[x].caller = e THEN [exec[x] EXCEPT !.caller = "nobody"]
       ELSE exec[x]]
  /\ told' = IF c = "client" /\ status = "completed"
             THEN told \cup {exec[e].req} ELSE told

(* updateHandover: an upsert without condition, which renews the expiry; a *)
(* failure is only logged.                                                 *)
Write(q, status) ==
  record' = [record EXCEPT ![q] = status] /\ expired' = expired \ {q}
Update(q, status) ==
  \/ Write(q, status) /\ NoFault
  \/ (Write(q, status) \/ UNCHANGED <<record, expired>>) /\ Fault

(* deleteHandoverRecord asks nothing: whatever record is there goes.       *)
Remove(q) ==
  /\ record' = [record EXCEPT ![q] = "none"]
  /\ expired' = expired \ {q}
  /\ before' = IF q \in expired THEN [before EXCEPT ![q] = moves[q]] ELSE before
  /\ struck' = IF record[q] # "none" /\ q \notin expired THEN struck \cup {q} ELSE struck
  /\ UNCHANGED moves

Init ==
  /\ lease = [owner |-> NoAgent, generation |-> 0]
  /\ record = [q \in Requests |-> "none"] /\ expired = {} /\ listed = {}
  /\ exec = [e \in Execs |-> Idle]
  /\ mutex = [a \in Agents |-> "free"]
  /\ phase = [a \in Agents |-> "up"]
  /\ moves = [q \in Requests |-> 0] /\ before = moves
  /\ struck = {} /\ told = {}
  /\ used = [faults |-> 0, calls |-> 0]

(***************************************************************************)
(* The handler.                                                            *)
(***************************************************************************)

(* A client posts a request, perhaps not for the first time.               *)
Call(a, q) ==
  /\ Serving(a)
  /\ Free # {}
  /\ exec' = [exec EXCEPT ![AFree] = Started(a, q, "client")]
  /\ Request
  /\ UNCHANGED <<world, store, told>>

(* existingHandover: a request that is known is answered from its record.  *)
(* The read may fail, and DynamoDB's may lag: a record may be missed.  One *)
(* that expired, by the clock of who reads it, counts as missed and is     *)
(* deleted first.                                                          *)
Known(e) ==
  /\ record[exec[e].req] # "none"
  /\ Answer(e, record[exec[e].req])
ReadExpired(e, pc) == exec[e].req \in expired /\ GoTo(e, pc) /\ UNCHANGED told

Lookup(e) ==
  /\ Executing(e, "lookup")
  /\ Known(e) \/ ReadExpired(e, "sweep") \/ (GoTo(e, "current") /\ UNCHANGED told)
  /\ UNCHANGED <<world, store, used>>

(* The deletion, some time after the read; its error is ignored.           *)
Sweep(e) ==
  /\ \/ Executing(e, "sweep") /\ GoTo(e, "current") /\ UNCHANGED told
     \/ Executing(e, "sweepAgain") /\ Answer(e, "rejected")
  /\ \/ Remove(exec[e].req) /\ UNCHANGED listed /\ NoFault
     \/ UNCHANGED store /\ Fault
  /\ UNCHANGED world

ReadLease(e) ==
  LET mine == lease.owner = exec[e].at IN
  /\ Executing(e, "current")
  /\ \/ /\ NoFault
        /\ mine \/ (PeerAPI /\ lease.owner # NoAgent)
        /\ exec' = [exec EXCEPT ![e].pc = IF mine THEN "create" ELSE "forward",
                                ![e].gen = IF mine THEN lease.generation ELSE 0,
                                ![e].to = IF mine THEN NoAgent ELSE lease.owner]
        /\ UNCHANGED told
     \/ /\ (~ mine /\ ~ (PeerAPI /\ lease.owner # NoAgent) /\ NoFault) \/ Fault
        /\ Answer(e, "rejected")
  /\ UNCHANGED <<world, store>>

(* forwardHandoverToActive: the owner's handler runs as if called there,   *)
(* unless there are Execs executions already.                              *)
Forward(e) ==
  /\ Executing(e, "forward")
  /\ \/ /\ Serving(exec[e].to)
        /\ Free # {}
        /\ exec' = [exec EXCEPT ![e].pc = "wait",
                                ![AFree] = Started(exec[e].to, exec[e].req, e)]
        /\ NoFault /\ UNCHANGED told
     \/ /\ \/ (~ Serving(exec[e].to) \/ Free = {}) /\ NoFault
           \/ Fault
        /\ Answer(e, "rejected")
  /\ UNCHANGED <<world, store>>

Relay(e) ==
  /\ Executing(e, "relay")
  /\ Answer(e, exec[e].answer)
  /\ UNCHANGED <<world, store, used>>

(* The forwarding agent gives up; the owner's execution goes on.           *)
TimeOut(e) ==
  /\ Executing(e, "wait")
  /\ Fault
  /\ Answer(e, "rejected")
  /\ UNCHANGED <<world, store>>

CreateOverwrites(e) ==   \* faulty: not conditional
  /\ Executing(e, "create")
  /\ record' = [record EXCEPT ![exec[e].req] = "requested"]
  /\ NoFault /\ GoTo(e, "select")
  /\ UNCHANGED <<world, told, expired, listed, moves, before, struck>>

(* CreateHandover is conditional: at most one execution records a request, *)
(* and none while an expired record is still there.                        *)
Create(e) ==
  LET q == exec[e].req
      created == [record EXCEPT ![q] = "requested"] IN
  /\ Executing(e, "create")
  /\ \/ /\ record[q] = "none" /\ record' = created
        /\ NoFault /\ GoTo(e, "select")
     \/ /\ \/ record[q] # "none" /\ UNCHANGED record /\ NoFault
           \/ record[q] = "none" /\ record' = created /\ Fault
           \/ UNCHANGED record /\ Fault
        /\ GoTo(e, "existing")
  /\ UNCHANGED <<world, told, expired, listed, moves, before, struck>>

ExistingUnchecked(e) ==   \* faulty: the error of the read is ignored
  /\ Executing(e, "existing")
  /\ Answer(e, record[exec[e].req])
  /\ UNCHANGED <<world, store, used>>

(* The record could not be created: it is looked up once more.             *)
Existing(e) ==
  /\ Executing(e, "existing")
  /\ Known(e) \/ ReadExpired(e, "sweepAgain") \/ Answer(e, "rejected")
  /\ UNCHANGED <<world, store, used>>

(* selectHandoverTarget goes by the registry, whose records outlive their  *)
(* agents for a while; none may be fit.                                    *)
Select(e) ==
  /\ Executing(e, "select")
  /\ \/ \E b \in Agents \ {exec[e].at} :
          exec' = [exec EXCEPT ![e].pc = "preparing", ![e].to = b]
     \/ GoTo(e, "rejected")
  /\ UNCHANGED <<world, store, told, used>>

(* A step that records the status and goes on.                             *)
Record(e) ==
  /\ \/ Executing(e, "preparing") /\ Update(exec[e].req, "preparing")
        /\ GoTo(e, "prepare") /\ UNCHANGED told
     \/ Executing(e, "committing") /\ Update(exec[e].req, "committing")
        /\ GoTo(e, "verify") /\ UNCHANGED told
     \/ \E status \in Terminal :
          /\ Executing(e, status) /\ Update(exec[e].req, status)
          /\ Answer(e, status)
  /\ UNCHANGED <<world, listed, moves, before, struck>>

(* The target checks that the source owns the lease in that generation.    *)
Prepared(e) ==
  /\ Serving(exec[e].to)
  /\ lease = [owner |-> exec[e].at, generation |-> exec[e].gen]

(* Without a peer API the target is not asked.                             *)
Prepare(e) ==
  /\ Executing(e, "prepare")
  /\ \/ /\ Prepared(e) \/ ~ PeerAPI
        /\ NoFault /\ GoTo(e, "committing")
     \/ /\ PeerAPI
        /\ (~ Prepared(e) /\ NoFault) \/ Fault
        /\ GoTo(e, "rejected")
  /\ UNCHANGED <<world, store, told>>

-----------------------------------------------------------------------------
(* Controller.Handover, under the ownership lock of the process.           *)
Owns(e) == lease = [owner |-> exec[e].at, generation |-> exec[e].gen]

Verify(e) ==
  /\ Executing(e, "verify")
  /\ \/ Owns(e) /\ NoFault /\ GoTo(e, "lock")
     \/ ((~ Owns(e) /\ NoFault) \/ Fault) /\ GoTo(e, "failed")
  /\ UNCHANGED <<world, store, told>>

(* The lock has no timeout.                                                *)
Lock(e) ==
  /\ Executing(e, "lock")
  /\ mutex[exec[e].at] = "free"
  /\ mutex' = [mutex EXCEPT ![exec[e].at] = e]
  /\ GoTo(e, "commit")
  /\ UNCHANGED <<lease, phase, store, told, used>>

CommitKeepsLock(e) ==   \* faulty: an error leaves the lock locked
  /\ Executing(e, "commit")
  /\ IF Owns(e)
     THEN /\ lease' = [owner |-> exec[e].to, generation |-> exec[e].gen + 1]
          /\ moves' = [moves EXCEPT ![exec[e].req] = @ + 1]
          /\ NoFault /\ GoTo(e, "completed")
          /\ mutex' = [mutex EXCEPT ![exec[e].at] = "free"]
     ELSE NoFault /\ GoTo(e, "failed") /\ UNCHANGED <<lease, moves, mutex>>
  /\ UNCHANGED <<phase, record, expired, listed, before, struck, told>>

CommitIgnoresError(e) ==   \* faulty: an error counts as success
  /\ Executing(e, "commit")
  /\ UNCHANGED <<lease, moves>>
  /\ Fault /\ GoTo(e, "completed")
  /\ mutex' = [mutex EXCEPT ![exec[e].at] = "free"]
  /\ UNCHANGED <<phase, record, expired, listed, before, struck, told>>

(* The lease moves, or everything stays or is reverted; an error may hide  *)
(* that the lease has moved.                                               *)
Commit(e) ==
  /\ Executing(e, "commit")
  /\ \/ /\ Owns(e)
        /\ lease' = [owner |-> exec[e].to, generation |-> exec[e].gen + 1]
        /\ moves' = [moves EXCEPT ![exec[e].req] = @ + 1]
        /\ (NoFault /\ GoTo(e, "completed")) \/ (Fault /\ GoTo(e, "failed"))
     \/ /\ (~ Owns(e) /\ NoFault) \/ Fault
        /\ GoTo(e, "failed")
        /\ UNCHANGED <<lease, moves>>
  /\ mutex' = [mutex EXCEPT ![exec[e].at] = "free"]
  /\ UNCHANGED <<phase, record, expired, listed, before, struck, told>>

Step(e) ==
  \/ Lookup(e) \/ Sweep(e) \/ ReadLease(e) \/ Forward(e) \/ Relay(e) \/ Create(e)
  \/ Existing(e) \/ Select(e) \/ Record(e) \/ Prepare(e) \/ Verify(e)
  \/ Lock(e) \/ Commit(e)

(***************************************************************************)
(* The agents.                                                             *)
(***************************************************************************)

(* Execution x, without the answer it may be waiting for from agent a.     *)
HearNothing(x, a) ==
  IF exec[x].pc = "wait" /\ exec[x].to = a
  THEN [exec[x] EXCEPT !.pc = "relay", !.answer = "rejected"] ELSE exec[x]

(* The process of a ends, and every execution in it; who waits for one     *)
(* gets an error.                                                          *)
EndProcess(a) ==
  /\ mutex' = [mutex EXCEPT ![a] = "free"]
  /\ exec' = [x \in Execs |->
       IF exec[x].at = a THEN Idle
       ELSE LET y == HearNothing(x, a) IN
            IF exec[x].caller \in Execs /\ exec[exec[x].caller].at = a
            THEN [y EXCEPT !.caller = "nobody"] ELSE y]

Crash(a) ==
  /\ phase[a] \notin {"down", "gone"}
  /\ Fault
  /\ Enter(a, IF phase[a] = "up" THEN "down" ELSE "gone")
  /\ EndProcess(a)
  /\ UNCHANGED <<lease, store, told>>

Restart(a) ==
  /\ phase[a] = "down"
  /\ Enter(a, "up")
  /\ UNCHANGED <<lease, mutex, store, exec, told, used>>

(* An agent that is to stop asks for a handover, from itself if it owns    *)
(* the lease and to any target, under an id of its own.                    *)
AskToLeave(a, q) ==
  /\ record[q] = "none" /\ q \notin listed \cup struck
  /\ \A e \in Execs : exec[e].req # q
  /\ Free # {}
  /\ Request
  /\ UNCHANGED <<lease, mutex, store, told>>

Notice(a, q) ==
  /\ phase[a] = "up"
  /\ Enter(a, "noticed")
  /\ AskToLeave(a, q)
  /\ exec' = [exec EXCEPT ![AFree] = Started(a, q, "stop")]

(* SIGTERM, perhaps while a notice is being handled.  The servers close:   *)
(* their executions go on and nobody gets the answers.                     *)
Signal(a, q) ==
  /\ phase[a] \in {"up", "noticed"}
  /\ Enter(a, "sigterm")
  /\ AskToLeave(a, q)
  /\ exec' = [x \in Execs |->
       IF x = AFree THEN Started(a, q, "stop")
       ELSE IF exec[x].at = a /\ exec[x].caller # "stop"
            THEN [exec[x] EXCEPT !.caller = "nobody"]
            ELSE HearNothing(x, a)]

(* The first such request that is answered, well or not, ends the          *)
(* supervisor, which releases the lease.  After the notice of a scaling    *)
(* group the process waits for the end of the instance.                    *)
Exit(e) ==
  LET a == exec[e].at IN
  /\ Executing(e, "stopped")
  /\ \/ /\ phase[a] = "noticed" /\ Enter(a, "left")
        /\ exec' = [exec EXCEPT ![e] = Idle] /\ UNCHANGED mutex
     \/ /\ Enter(a, IF phase[a] = "sigterm" THEN "down" ELSE "gone")
        /\ EndProcess(a)
  /\ \/ /\ NoFault
        /\ lease' = IF lease.owner = a
                    THEN [owner |-> NoAgent, generation |-> 0] ELSE lease
     \/ Fault /\ UNCHANGED lease
  /\ UNCHANGED <<store, told>>

(* The supervisor of b takes the lease: it is free, nobody renews it, or   *)
(* its owner stalled.                                                      *)
TakeOver(b) ==
  /\ Supervised(b) /\ lease.owner # b
  /\ IF \E a \in Agents : a = lease.owner /\ Supervised(a)
     THEN Fault ELSE NoFault
  /\ lease' = [owner |-> b, generation |-> lease.generation + 1]
  /\ UNCHANGED <<mutex, phase, store, exec, told>>

-----------------------------------------------------------------------------
(* Where an execution carries its request out.                             *)
Carrying ==
  Terminal \cup {"select", "preparing", "prepare", "committing", "verify", "lock", "commit"}

(* A record expires, by default an hour after it was last updated, when    *)
(* whoever carried the request out has long ended.                         *)
Expire(q) ==
  /\ record[q] # "none" /\ q \notin expired
  /\ \A e \in Execs : exec[e].req = q => exec[e].pc \notin Carrying
  /\ Fault
  /\ expired' = expired \cup {q}
  /\ UNCHANGED <<world, exec, record, listed, moves, before, struck, told>>

(* ListHandovers and the inspection of one record, at the command line:    *)
(* what is read as expired is deleted later, if the command gets that far. *)
List(q) ==
  /\ q \in expired \ listed
  /\ listed' = listed \cup {q}
  /\ UNCHANGED <<world, exec, record, expired, moves, before, struck, told, used>>

SweepListed(q) ==
  /\ q \in listed
  /\ listed' = listed \ {q}
  /\ Remove(q) \/ UNCHANGED <<record, expired, moves, before, struck>>
  /\ UNCHANGED <<world, exec, told, used>>

Next ==
  \/ \E e \in Execs : Step(e) \/ TimeOut(e) \/ Exit(e)
  \/ \E a \in Agents :
       \/ \E q \in Requests : Call(a, q) \/ Notice(a, q) \/ Signal(a, q)
       \/ Crash(a) \/ Restart(a) \/ TakeOver(a)
  \/ \E q \in Requests : Expire(q) \/ List(q) \/ SweepListed(q)

Spec == Init /\ [][Next]_vars

(* A handler that runs goes on: every call it makes has a timeout.         *)
FairSpec == Spec /\ \A e \in Execs : WF_vars(Step(e)) /\ WF_vars(Exit(e))

(***************************************************************************)
(* Properties.                                                             *)
(***************************************************************************)

Pcs ==
  Terminal \cup
  {"idle", "lookup", "sweep", "current", "forward", "wait", "relay", "create",
   "existing", "sweepAgain", "select", "preparing", "prepare", "committing",
   "verify", "lock", "commit", "stopped"}

(* Every variable has its type.                                            *)
TypeOK ==
  /\ lease \in [owner : Agents \cup {NoAgent}, generation : Nat]
  /\ record \in [Requests -> Statuses \cup {"none"}]
  /\ exec \in [Execs ->
       [pc : Pcs, at : Agents \cup {NoAgent}, req : Requests \cup {NoAgent},
        caller : Execs \cup {"client", "stop", "nobody"}, gen : Nat,
        to : Agents \cup {NoAgent}, answer : Statuses]]
  /\ mutex \in [Agents -> Execs \cup {"free"}]
  /\ phase \in [Agents -> Phases]
  /\ moves \in [Requests -> Nat] /\ before \in [Requests -> Nat]
  /\ expired \cup listed \cup struck \cup told \subseteq Requests

(* However often a request is made, at whatever agents, and whatever is    *)
(* lost: it moves the lease at most once until its record has expired and  *)
(* is deleted.  Only the deletion of an expired record that arrives late   *)
(* and strikes the next record of the same id can undo that.               *)
AtMostOnce == \A q \in Requests \ struck : moves[q] <= before[q] + 1

(* Duplicate request ids are idempotent, until the record has expired and  *)
(* is deleted: once more, whatever deletions arrive late.                  *)
DuplicatesAreIdempotent == \A q \in Requests : moves[q] <= before[q] + 1

(* Whoever reads "completed" in the record can rely on it: the lease has   *)
(* moved since an earlier record of the id expired.  So can who gets it as *)
(* an answer that came through any number of agents: the lease has moved.  *)
CompletedIsTrue ==
  \A q \in Requests :
    /\ record[q] = "completed" => moves[q] > before[q]
    /\ q \in told => moves[q] > 0

(* The record of a request that is over never changes until it expires and *)
(* is deleted: no second execution gets hold of it.  Again the late        *)
(* deletion is the only exception.                                         *)
TerminalIsFinal ==
  [][\A q \in Requests \ struck' :
       record[q] \in Terminal =>
         record'[q] = record[q] \/ (q \in expired /\ record'[q] = "none")]_vars

(* Requests come to an end, however they are forwarded and whatever fails: *)
(* nobody waits for a lock or for another agent for ever.  (Their number   *)
(* is bounded, so this can ask that all of them end.)                      *)
EveryRequestIsAnswered == <>[](Free = Execs)

(* The stop of an agent that does not own the lease moves nothing.         *)
StandbyStopMovesNothing ==
  [][\A e, c \in Execs :
       /\ exec[e].pc = "commit" /\ exec[e].caller = c
       /\ moves'[exec[e].req] > moves[exec[e].req]
       => exec[c].caller # "stop"]_vars
=============================================================================

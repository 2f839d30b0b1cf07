--------------------------- MODULE AgentRegistry ---------------------------
(***************************************************************************)
(* How an agent learns which others may take the gateway over: three loops *)
(* of every agent, each with a period of its own, put what the supervisor  *)
(* saw of the lease into a record in the coordination store, and the       *)
(* records of all into a cached status, from which a handover selects its  *)
(* target.  Agents stop in three ways, which end the loops one by one.     *)
(*                                                                         *)
(* One tick is the longest period of a loop: between two ticks every loop  *)
(* runs once, in any order.  A record expires by its writer's clock and is *)
(* read by another one.                                                    *)
(***************************************************************************)
EXTENDS Integers

CONSTANTS
  Agents, NoAgent,
  Clouds,        \* "aws", "gcp" or both
  Generations,   \* the scaling groups carry a generation in their names
  TTL,           \* life of a record, in ticks
  Skew,          \* bound on the difference between two agents' clocks
  Settle,        \* ticks until a standby is known, see StandbyIsSelectable
  MaxEvents      \* bound: failing and late calls, datapaths not ready, changes
                 \* of the lease, stops and restarts

ASSUME RegistryAgents == NoAgent \notin Agents
ASSUME RegistryClouds == Clouds \subseteq {"aws", "gcp"} /\ Generations \in BOOLEAN
ASSUME RegistryNumbers ==
  {TTL, Skew, Settle, MaxEvents} \subseteq Nat /\ Skew + 2 <= TTL

VARIABLES
  cloud,     \* where the gateway is
  lease,     \* the stored lease
  phase,     \* what each agent is doing
  hook,      \* the termination hook that holds each agent's instance
  snapshot,  \* the lease each supervisor reported last
  record,    \* the stored record of each agent, or None
  late,      \* puts that will reach the store later
  cache,     \* each agent's cached status: a lease and the records listed
  ran,       \* the loops of each agent that ran since the last tick
  away,      \* history: ticks since each agent's loops ended
  quiet,     \* history: ticks since anything but the loops happened
  events     \* how much of the bound is used up

vars == <<cloud, lease, phase, hook, snapshot, record, late, cache, ran, away, quiet, events>>
-----------------------------------------------------------------------------
None == [generation |-> 0, ready |-> FALSE, left |-> -1 - Skew]
NoLease == [owner |-> NoAgent, generation |-> 0]
Unlisted == [listed |-> FALSE, ready |-> FALSE, generation |-> 0]
NoStatus == [lease |-> NoLease, rows |-> [b \in Agents |-> Unlisted]]
Lifetimes == -1 - Skew .. TTL
MaxAway == TTL + Skew + 2

(* "up"; "noticed", which saw a termination notice; "stopping", told to    *)
(* stop; "left", its supervisor done, waiting for its instance to end;     *)
(* "gone".  The publisher and the refresher end with the process context,  *)
(* the supervisor when the handover of its agent is answered.              *)
Loops(a) ==
  CASE phase[a] \in {"up", "noticed"} -> {"supervise", "publish", "refresh"}
    [] phase[a] = "left" -> {"publish", "refresh"}
    [] phase[a] = "stopping" -> {"supervise"}
    [] OTHER -> {}
Supervised(a) == phase[a] \in {"up", "noticed", "stopping"}
Serving(a) == phase[a] \in {"up", "noticed", "left"}

Run(a, loop) == loop \in Loops(a) \ ran[a] /\ ran' = [ran EXCEPT ![a] = @ \cup {loop}]
Event == events < MaxEvents /\ events' = events + 1 /\ quiet' = 0
NoEvent == UNCHANGED <<events, quiet>>

Row(r) == [listed |-> TRUE, ready |-> r.ready, generation |-> r.generation]
Rows(S) == [b \in Agents |-> IF b \in S THEN Row(record[b]) ELSE Unlisted]

(* Some agent has owned the lease for a while.                             *)
Init ==
  /\ cloud \in Clouds
  /\ \E a \in Agents : lease = [owner |-> a, generation |-> 1]
  /\ phase = [a \in Agents |-> "up"]
  /\ hook = [a \in Agents |-> "none"]
  /\ snapshot = [a \in Agents |-> lease]
  /\ record = [a \in Agents |-> [generation |-> 1, ready |-> TRUE, left |-> TTL]]
  /\ late = {}
  /\ cache = [a \in Agents |-> [lease |-> lease, rows |-> Rows(Agents)]]
  /\ ran = [a \in Agents |-> {}]
  /\ away = [a \in Agents |-> 0]
  /\ quiet = 0
  /\ events = 0

(***************************************************************************)
(* The loops.                                                              *)
(***************************************************************************)

(* The supervisor's step reports the lease it read, or none, unless its    *)
(* own last lease is still good.                                           *)
Supervise(a) ==
  /\ Run(a, "supervise")
  /\ \/ snapshot' = [snapshot EXCEPT ![a] = lease] /\ NoEvent
     \/ /\ snapshot' \in {snapshot, [snapshot EXCEPT ![a] = NoLease]}
        /\ Event
  /\ UNCHANGED <<cloud, lease, phase, hook, record, late, cache, away>>

\* faulty: only the owner knows the generation.
PublishedByOwner(a, ready) ==
  [generation |-> IF snapshot[a].owner = a THEN snapshot[a].generation ELSE 0,
   ready |-> ready, left |-> TTL]

Published(a, ready) ==
  [generation |-> snapshot[a].generation, ready |-> ready, left |-> TTL]

(* The engine that is not ready, or does not answer in time, is reported   *)
(* as not ready.                                                           *)
datapathStatusForRegistry(ready) == IF ready THEN NoEvent ELSE Event

(* publishAgentRecord: the record expires a TTL after it was made.  The    *)
(* put fails, or reaches the store after its caller has given up.          *)
Publish(a) ==
  /\ Run(a, "publish")
  /\ \/ \E ready \in BOOLEAN :
          /\ datapathStatusForRegistry(ready)
          /\ record' = [record EXCEPT ![a] = Published(a, ready)] /\ UNCHANGED late
     \/ UNCHANGED record /\ Event
        /\ late' \in {late, late \cup {[node |-> a, put |-> Published(a, TRUE)]}}
  /\ UNCHANGED <<cloud, lease, phase, hook, snapshot, cache, away>>

\* faulty: the store counts the TTL from the arrival of the put.
ArriveRenewed(l) ==
  /\ l \in late /\ late' = late \ {l}
  /\ record' = [record EXCEPT ![l.node] = [l.put EXCEPT !.left = TTL]]
  /\ quiet' = 0
  /\ UNCHANGED <<cloud, lease, phase, hook, snapshot, cache, ran, away, events>>

(* A late put replaces whatever record there is, or a deleted one.         *)
Arrive(l) ==
  /\ l \in late /\ late' = late \ {l}
  /\ record' = [record EXCEPT ![l.node] = l.put]
  /\ quiet' = 0
  /\ UNCHANGED <<cloud, lease, phase, hook, snapshot, cache, ran, away, events>>

(* ListAgents drops what has expired, by the reader's clock.               *)
MustList(b) == record[b].left >= Skew
MayList(b) == record[b].left > None.left /\ record[b].left + Skew >= 0


(* refreshRegistryStatus: the lease, or the one last reported, and the     *)
(* records; nobody's if they cannot be listed.                             *)
Refresh(a) ==
  LET must == {b \in Agents : MustList(b)}
      may == {b \in Agents : MayList(b)}
      Cache(l, S) == cache' = [cache EXCEPT ![a] = [lease |-> l, rows |-> Rows(S)]] IN
  /\ Run(a, "refresh")
  /\ \/ NoEvent /\ \E S \in SUBSET may : must \subseteq S /\ Cache(lease, S)
     \/ Event /\ \E S \in SUBSET may, l \in {lease, snapshot[a]} : Cache(l, S)
  /\ UNCHANGED <<cloud, lease, phase, hook, snapshot, record, late, away>>

\* faulty: an expired record is kept.
OlderForEver(r) == [r EXCEPT !.left = @ - 1]

Older(r) == [r EXCEPT !.left = IF @ > None.left THEN @ - 1 ELSE @]

(* A tick passes when every loop has run.                                  *)
Tick ==
  /\ \A a \in Agents : Loops(a) \subseteq ran[a]
  /\ record' = [b \in Agents |->
                  IF Older(record[b]).left = None.left THEN None ELSE Older(record[b])]
  /\ late' = {[l EXCEPT !.put = Older(@)] : l \in {k \in late : k.put.left >= -Skew}}
  /\ ran' = [a \in Agents |-> {}]
  /\ away' = [a \in Agents |->
                IF "publish" \in Loops(a) \/ away[a] = MaxAway THEN away[a] ELSE away[a] + 1]
  /\ quiet' = IF quiet < Settle THEN quiet + 1 ELSE quiet
  /\ UNCHANGED <<cloud, lease, phase, hook, snapshot, cache, events>>

(***************************************************************************)
(* Handovers, takeovers and stops.                                         *)
(***************************************************************************)

(* A row of the status that selectHandoverTarget would take.               *)
GenerationFits(l, row) ==
  \/ l.generation = 0
  \/ row.generation = 0 /\ cloud = "aws"
  \/ row.generation = l.generation

Selectable(a) ==
  LET l == cache[a].lease IN
  {b \in Agents \ {a, l.owner} :
     /\ l.owner # NoAgent
     /\ cache[a].rows[b].listed /\ cache[a].rows[b].ready
     /\ GenerationFits(l, cache[a].rows[b])}

Give(b) == lease' = [owner |-> b, generation |-> lease.generation + 1]
Unmoved == UNCHANGED <<cloud, snapshot, cache, record, late, ran>>

(* A handover of the owner, to a target that answers.                      *)
Handover(a, b) ==
  /\ Supervised(a) /\ lease.owner = a
  /\ b \in Selectable(a) /\ Serving(b)
  /\ Event /\ Give(b)
  /\ Unmoved /\ UNCHANGED <<phase, hook, away>>

(* The lease is free, nobody renews it, or its owner stalls.               *)
TakeOver(b) ==
  /\ Supervised(b) /\ lease.owner # b
  /\ Event /\ Give(b)
  /\ Unmoved /\ UNCHANGED <<phase, hook, away>>

(* A notice of the scaling group, whose hook holds the instance, or of     *)
(* Spot.  There are none on GCP.                                           *)
Notice(a) ==
  /\ cloud = "aws" /\ phase[a] = "up"
  /\ Event
  /\ phase' = [phase EXCEPT ![a] = "noticed"]
  /\ hook' \in {hook, [hook EXCEPT ![a] = "waiting"]}
  /\ Unmoved /\ UNCHANGED <<lease, away>>

(* The agent knows its group by gateway and zone; the installer names the  *)
(* group of a generation after all three.                                  *)
AgentGroup == <<"betternat", "gateway", "zone">>
InstalledGroup ==
  IF Generations THEN <<"betternat", "gateway", "zone", "generation">>
  ELSE <<"betternat", "gateway", "zone">>

(* CompleteLifecycleAction succeeds for a group that exists.               *)
Complete(a) ==
  hook' = IF hook[a] = "waiting" /\ AgentGroup = InstalledGroup
          THEN [hook EXCEPT ![a] = "completed"] ELSE hook

Released(a) == lease' = IF lease.owner = a THEN NoLease ELSE lease

(* The handover of a notice is answered: the supervisor ends and releases  *)
(* the lease, the action is completed, and the process waits.              *)
Leave(a) ==
  /\ phase[a] = "noticed"
  /\ Complete(a)
  /\ Released(a)
  /\ phase' = [phase EXCEPT ![a] = "left"]
  /\ quiet' = 0
  /\ Unmoved /\ UNCHANGED <<away, events>>

(* The hook's heartbeat timeout.                                           *)
HookExpires(a) ==
  /\ hook[a] = "waiting"
  /\ Event
  /\ hook' = [hook EXCEPT ![a] = "expired"]
  /\ Unmoved /\ UNCHANGED <<lease, phase, away>>

Signal(a) ==
  /\ phase[a] \in {"up", "noticed"}
  /\ Event
  /\ phase' = [phase EXCEPT ![a] = "stopping"]
  /\ Unmoved /\ UNCHANGED <<lease, hook, away>>

(* runContinuous returns: DeleteAgent.                                     *)
Exit(a) ==
  /\ \/ phase[a] = "stopping" /\ Complete(a)
     \/ phase[a] = "left" /\ hook[a] # "waiting" /\ UNCHANGED hook
  /\ Released(a)
  /\ phase' = [phase EXCEPT ![a] = "gone"]
  /\ \/ record' = [record EXCEPT ![a] = None] /\ quiet' = 0 /\ UNCHANGED events
     \/ UNCHANGED record /\ Event
  /\ UNCHANGED <<cloud, snapshot, cache, late, ran, away>>

Crash(a) ==
  /\ phase[a] # "gone"
  /\ Event
  /\ phase' = [phase EXCEPT ![a] = "gone"]
  /\ Unmoved /\ UNCHANGED <<lease, hook, away>>

(* A new process, or a new instance, of the same name.                     *)
Restart(a) ==
  /\ phase[a] = "gone"
  /\ Event
  /\ phase' = [phase EXCEPT ![a] = "up"]
  /\ hook' = [hook EXCEPT ![a] = "none"]
  /\ snapshot' = [snapshot EXCEPT ![a] = NoLease]
  /\ cache' = [cache EXCEPT ![a] = NoStatus]
  /\ ran' = [ran EXCEPT ![a] = {}]
  /\ away' = [away EXCEPT ![a] = 0]
  /\ UNCHANGED <<cloud, lease, record, late>>

Next ==
  \/ \E a \in Agents :
       \/ Supervise(a) \/ Publish(a) \/ Refresh(a)
       \/ TakeOver(a) \/ Notice(a) \/ Leave(a) \/ HookExpires(a) \/ Signal(a)
       \/ Exit(a) \/ Crash(a) \/ Restart(a)
       \/ \E b \in Agents : Handover(a, b)
  \/ \E l \in late : Arrive(l)
  \/ Tick

Spec == Init /\ [][Next]_vars

(***************************************************************************)
(* Properties.                                                             *)
(***************************************************************************)

Leases == [owner : Agents \cup {NoAgent}, generation : Nat]
Records == [generation : Nat, ready : BOOLEAN, left : Lifetimes]
Statuses ==
  [lease : Leases,
   rows : [Agents -> [listed : BOOLEAN, ready : BOOLEAN, generation : Nat]]]

(* Every variable has its type.                                            *)
TypeOK ==
  /\ cloud \in Clouds
  /\ lease \in Leases
  /\ phase \in [Agents -> {"up", "noticed", "stopping", "left", "gone"}]
  /\ hook \in [Agents -> {"none", "waiting", "completed", "expired"}]
  /\ snapshot \in [Agents -> Leases]
  /\ record \in [Agents -> Records]
  /\ late \subseteq [node : Agents, put : Records]
  /\ cache \in [Agents -> Statuses]
  /\ ran \in [Agents -> SUBSET {"supervise", "publish", "refresh"}]
  /\ away \in [Agents -> 0 .. MaxAway]
  /\ quiet \in 0 .. Settle

(* Nobody hands over to an agent that has been away for longer than a TTL, *)
(* the skew and one refresh: not after a crash, not after a DeleteAgent    *)
(* that failed, and not when a put arrives late and brings it back.        *)
GoneIsNotSelected ==
  \A a \in Agents : Serving(a) =>
    \A b \in Selectable(a) : away[b] <= TTL + Skew + 1

(* When the lease has changed hands, the owner can hand it over to every   *)
(* other agent after Settle quiet ticks: the new generation went through   *)
(* the target's supervisor, its record and the owner's cache.              *)
StandbyIsSelectable ==
  \A a, b \in Agents :
    /\ quiet = Settle
    /\ lease.owner = a /\ a # b /\ phase[a] = "up" /\ phase[b] = "up"
    => b \in Selectable(a)
=============================================================================

------------------------ MODULE AgentRegistryProofs ------------------------
(***************************************************************************)
(* Theorems about AgentRegistry and their proofs.                          *)
(***************************************************************************)
EXTENDS AgentRegistry, TLAPS

(***************************************************************************)
(* Who is gone drops out.  A record, stored or on its way, has lost a tick *)
(* of its life for each tick its agent has been away; a status is one      *)
(* refresh older.                                                          *)
(***************************************************************************)

PublishersAreHere == \A a \in Agents : "publish" \in Loops(a) => away[a] = 0

RecordsAge ==
  \A a \in Agents :
    record[a].left = None.left \/ (record[a].left + away[a] <= TTL)

PutsAge == \A l \in late : l.put.left + away[l.node] <= TTL

StatusesAge ==
  \A a, b \in Agents : Serving(a) /\ cache[a].rows[b].listed =>
    /\ away[b] <= TTL + Skew + 1
    /\ "refresh" \in ran[a] => away[b] <= TTL + Skew

Aging == PublishersAreHere /\ RecordsAge /\ PutsAge /\ StatusesAge

AInv == TypeOK /\ Aging

(***************************************************************************)
(* A change of the lease spreads: in the first quiet tick to every         *)
(* supervisor, in the second to every record, in the third to every        *)
(* status.                                                                 *)
(***************************************************************************)

Here(a) == phase[a] = "up"
Announced(b) ==
  /\ record[b].ready /\ record[b].generation = lease.generation
  /\ record[b].left >= TTL - 1
Knows(a) ==
  /\ cache[a].lease = lease
  /\ \A b \in Agents : Here(b) =>
       /\ cache[a].rows[b].listed /\ cache[a].rows[b].ready
       /\ cache[a].rows[b].generation = lease.generation

ReachesSnapshots ==
  \A a \in Agents : Here(a) /\ (quiet >= 2 \/ (quiet >= 1 /\ "supervise" \in ran[a])) =>
    snapshot[a] = lease

ReachesRecords ==
  \A a \in Agents : Here(a) /\ (quiet >= 3 \/ (quiet >= 2 /\ "publish" \in ran[a])) =>
    Announced(a) /\ ("publish" \in ran[a] => record[a].left = TTL)

ReachesStatuses ==
  \A a \in Agents : Here(a) /\ (quiet >= 4 \/ (quiet >= 3 /\ "refresh" \in ran[a])) =>
    Knows(a)

SInv == TypeOK /\ ReachesSnapshots /\ ReachesRecords /\ ReachesStatuses

-----------------------------------------------------------------------------
(* Numbers, and which loops an agent has in each phase.                    *)

Phases == {"up", "noticed", "stopping", "left", "gone"}

LEMMA Numbers ==
  /\ TTL \in Nat /\ Skew \in Nat /\ Settle \in Nat /\ MaxEvents \in Nat
  /\ Skew + 2 <= TTL
  /\ None \in Records /\ None.left = -1 - Skew
  /\ NoLease \in Leases /\ NoStatus \in Statuses
BY RegistryNumbers, RegistryAgents
   DEF None, Records, Lifetimes, NoLease, Leases, NoStatus, Statuses, Unlisted

LEMMA LoopsAre ==
  ASSUME NEW a \in Agents, phase[a] \in Phases
  PROVE  /\ "publish" \in Loops(a) <=> phase[a] \in {"up", "noticed", "left"}
         /\ "refresh" \in Loops(a) <=> Serving(a)
         /\ "supervise" \in Loops(a) <=> phase[a] \in {"up", "noticed", "stopping"}
         /\ Serving(a) <=> phase[a] \in {"up", "noticed", "left"}
<1>1. CASE phase[a] = "up"        BY <1>1 DEF Loops, Serving
<1>2. CASE phase[a] = "noticed"   BY <1>2 DEF Loops, Serving
<1>3. CASE phase[a] = "stopping"  BY <1>3 DEF Loops, Serving
<1>4. CASE phase[a] = "left"      BY <1>4 DEF Loops, Serving
<1>5. CASE phase[a] = "gone"      BY <1>5 DEF Loops, Serving
<1> QED BY <1>1, <1>2, <1>3, <1>4, <1>5 DEF Phases

LEMMA LoopsAreNext ==
  ASSUME NEW a \in Agents, phase'[a] \in Phases
  PROVE  /\ ("publish" \in Loops(a))' <=> phase'[a] \in {"up", "noticed", "left"}
         /\ ("refresh" \in Loops(a))' <=> Serving(a)'
         /\ ("supervise" \in Loops(a))' <=> phase'[a] \in {"up", "noticed", "stopping"}
         /\ Serving(a)' <=> phase'[a] \in {"up", "noticed", "left"}
<1>1. CASE phase'[a] = "up"        BY <1>1 DEF Loops, Serving
<1>2. CASE phase'[a] = "noticed"   BY <1>2 DEF Loops, Serving
<1>3. CASE phase'[a] = "stopping"  BY <1>3 DEF Loops, Serving
<1>4. CASE phase'[a] = "left"      BY <1>4 DEF Loops, Serving
<1>5. CASE phase'[a] = "gone"      BY <1>5 DEF Loops, Serving
<1> QED BY <1>1, <1>2, <1>3, <1>4, <1>5 DEF Phases

(* What a tick does to a record.                                           *)
LEMMA OlderIs ==
  ASSUME NEW r \in Records
  PROVE  /\ Older(r) \in Records
         /\ r.left > None.left => Older(r).left = r.left - 1
         /\ r.left = None.left => Older(r).left = None.left
         /\ Older(r).ready = r.ready /\ Older(r).generation = r.generation
BY Numbers DEF Older, Records, Lifetimes

LEMMA PublishedIs ==
  ASSUME TypeOK, NEW a \in Agents, NEW ready \in BOOLEAN
  PROVE  /\ Published(a, ready) \in Records
         /\ Published(a, ready).left = TTL
         /\ Published(a, ready).ready = ready
         /\ Published(a, ready).generation = snapshot[a].generation
BY Numbers DEF TypeOK, Published, Records, Lifetimes, Leases

LEMMA RowsAre ==
  ASSUME TypeOK, NEW S
  PROVE  /\ Rows(S) \in [Agents -> [listed : BOOLEAN, ready : BOOLEAN, generation : Nat]]
         /\ \A b \in Agents : Rows(S)[b].listed <=> b \in S
         /\ \A b \in Agents : b \in S =>
              /\ Rows(S)[b].ready = record[b].ready
              /\ Rows(S)[b].generation = record[b].generation
BY DEF TypeOK, Rows, Row, Unlisted, Records

(* What a refresh leaves in the status: the lease, if it was read, and     *)
(* every record that has not expired by any clock.                         *)
LEMMA Refreshed ==
  ASSUME TypeOK, NEW a \in Agents, Refresh(a)
  PROVE  \E l \in Leases, S \in SUBSET {b \in Agents : MayList(b)} :
           /\ cache' = [cache EXCEPT ![a] = [lease |-> l, rows |-> Rows(S)]]
           /\ quiet' # 0 => l = lease /\ {b \in Agents : MustList(b)} \subseteq S
<1> DEFINE Must == {b \in Agents : MustList(b)}
           May == {b \in Agents : MayList(b)}
           Cache(l, S) == cache' = [cache EXCEPT ![a] = [lease |-> l, rows |-> Rows(S)]]
<1>1. \/ \E S \in SUBSET May : Must \subseteq S /\ Cache(lease, S)
      \/ quiet' = 0 /\ \E S \in SUBSET May, l \in {lease, snapshot[a]} : Cache(l, S)
  BY DEF Refresh, Event
<1>2. lease \in Leases /\ snapshot[a] \in Leases  BY DEF TypeOK
<1> HIDE DEF Must, May, Cache
<1>3. CASE \E S \in SUBSET May : Must \subseteq S /\ Cache(lease, S)
  <2>1. \E l \in Leases, S \in SUBSET May :
          Cache(l, S) /\ (quiet' # 0 => l = lease /\ Must \subseteq S)
    BY <1>2, <1>3
  <2> QED BY <2>1 DEF Must, May, Cache
<1>4. CASE quiet' = 0 /\ \E S \in SUBSET May, l \in {lease, snapshot[a]} : Cache(l, S)
  <2>1. \E l \in Leases, S \in SUBSET May :
          Cache(l, S) /\ (quiet' # 0 => l = lease /\ Must \subseteq S)
    BY <1>2, <1>4
  <2> QED BY <2>1 DEF Must, May, Cache
<1> QED BY <1>1, <1>3, <1>4

(* What a tick leaves of the puts on their way.                            *)
LEMMA LateOnes ==
  ASSUME TypeOK, Tick, NEW m \in late'
  PROVE  \E l \in late : /\ m.node = l.node /\ l.put.left >= -Skew
                         /\ m.put = Older(l.put)
                         /\ m \in [node : Agents, put : Records]
<1>1. PICK l \in late : l.put.left >= -Skew /\ m = [l EXCEPT !.put = Older(@)]
  BY DEF Tick
<1>2. l \in [node : Agents, put : Records]  BY DEF TypeOK
<1>3. Older(l.put) \in Records  BY <1>2, OlderIs
<1> QED BY <1>1, <1>2, <1>3

(***************************************************************************)
(* Every variable keeps its type.                                          *)
(***************************************************************************)

LEMMA InitType == Init => TypeOK
<1> SUFFICES ASSUME Init PROVE TypeOK  OBVIOUS
<1>1. PICK a \in Agents : lease = [owner |-> a, generation |-> 1]  BY DEF Init
<1>2. lease \in Leases  BY <1>1 DEF Leases
<1>3. Rows(Agents) \in [Agents -> [listed : BOOLEAN, ready : BOOLEAN, generation : Nat]]
  BY DEF Init, Rows, Row, Unlisted
<1>4. TTL \in Lifetimes  BY Numbers DEF Lifetimes
<1> QED
  BY <1>2, <1>3, <1>4, Numbers DEF Init, TypeOK, Records, Statuses, MaxAway

LEMMA NextType == TypeOK /\ Next => TypeOK'
<1> SUFFICES ASSUME TypeOK, Next PROVE TypeOK'  OBVIOUS
<1> USE Numbers DEF TypeOK
<1>q. ASSUME Event \/ NoEvent PROVE quiet' \in 0 .. Settle
  BY <1>q DEF Event, NoEvent
<1>r. ASSUME NEW a \in Agents, NEW loop \in {"supervise", "publish", "refresh"}, Run(a, loop)
      PROVE ran' \in [Agents -> SUBSET {"supervise", "publish", "refresh"}]
  BY <1>r DEF Run
<1>g. ASSUME NEW b \in Agents, Give(b) PROVE lease' \in Leases
  BY <1>g DEF Give, Leases
<1>e. ASSUME NEW a \in Agents, Released(a) PROVE lease' \in Leases
  BY <1>e DEF Released
<1>c. ASSUME NEW a \in Agents, Complete(a)
      PROVE hook' \in [Agents -> {"none", "waiting", "completed", "expired"}]
  BY <1>c DEF Complete
<1>1. ASSUME NEW a \in Agents, Supervise(a) PROVE TypeOK'
  <2>1. snapshot' \in [Agents -> Leases]  BY <1>1 DEF Supervise
  <2> QED BY <1>1, <2>1, <1>q, <1>r DEF Supervise
<1>2. ASSUME NEW a \in Agents, Publish(a) PROVE TypeOK'
  <2> DEFINE Typed ==
        record' \in [Agents -> Records] /\ late' \subseteq [node : Agents, put : Records]
  <2>1. Typed
    <3>1. \A ready \in BOOLEAN : Published(a, ready) \in Records
      <4>1. TAKE ready \in BOOLEAN
      <4> QED BY PublishedIs
    <3>2. ASSUME NEW ready \in BOOLEAN, UNCHANGED late,
                 record' = [record EXCEPT ![a] = Published(a, ready)]
          PROVE  Typed
      BY <3>1, <3>2
    <3>3. ASSUME UNCHANGED record,
                 late' \in {late, late \cup {[node |-> a, put |-> Published(a, TRUE)]}}
          PROVE  Typed
      <4>1. [node |-> a, put |-> Published(a, TRUE)] \in [node : Agents, put : Records]
        BY <3>1
      <4> QED BY <3>3, <4>1
    <3> QED BY <1>2, <3>2, <3>3 DEF Publish
  <2>2. quiet' \in 0 .. Settle  BY <1>2, <1>q DEF Publish, datapathStatusForRegistry
  <2> QED BY <1>2, <2>1, <2>2, <1>r DEF Publish
<1>3. ASSUME NEW a \in Agents, Refresh(a) PROVE TypeOK'
  <2>1. PICK l \in Leases :
          \E S : cache' = [cache EXCEPT ![a] = [lease |-> l, rows |-> Rows(S)]]
    BY <1>3, Refreshed
  <2>s. PICK S : cache' = [cache EXCEPT ![a] = [lease |-> l, rows |-> Rows(S)]]
    BY <2>1
  <2>2. [lease |-> l, rows |-> Rows(S)] \in Statuses
    <3>1. Rows(S) \in [Agents -> [listed : BOOLEAN, ready : BOOLEAN, generation : Nat]]
      BY RowsAre
    <3> QED BY <3>1 DEF Statuses
  <2>3. cache' \in [Agents -> Statuses]  BY <2>s, <2>2
  <2> QED BY <1>3, <2>3, <1>q, <1>r DEF Refresh
<1>4. ASSUME NEW a \in Agents, TakeOver(a) PROVE TypeOK'
  BY <1>4, <1>q, <1>g DEF TakeOver, Unmoved
<1>5. ASSUME NEW a \in Agents, Notice(a) PROVE TypeOK'
  BY <1>5, <1>q DEF Notice, Unmoved
<1>6. ASSUME NEW a \in Agents, Leave(a) PROVE TypeOK'
  BY <1>6, <1>e, <1>c DEF Leave, Unmoved
<1>7. ASSUME NEW a \in Agents, HookExpires(a) PROVE TypeOK'
  BY <1>7, <1>q DEF HookExpires, Unmoved
<1>8. ASSUME NEW a \in Agents, Signal(a) PROVE TypeOK'
  BY <1>8, <1>q DEF Signal, Unmoved
<1>9. ASSUME NEW a \in Agents, Exit(a) PROVE TypeOK'
  <2>1. hook' \in [Agents -> {"none", "waiting", "completed", "expired"}]
    BY <1>9, <1>c DEF Exit
  <2>2. record' \in [Agents -> Records] /\ quiet' \in 0 .. Settle
    BY <1>9, <1>q DEF Exit
  <2> QED BY <1>9, <2>1, <2>2, <1>e DEF Exit
<1>10. ASSUME NEW a \in Agents, Crash(a) PROVE TypeOK'
  BY <1>10, <1>q DEF Crash, Unmoved
<1>11. ASSUME NEW a \in Agents, Restart(a) PROVE TypeOK'
  BY <1>11, <1>q DEF Restart, MaxAway
<1>12. ASSUME NEW a \in Agents, NEW b \in Agents, Handover(a, b) PROVE TypeOK'
  BY <1>12, <1>q, <1>g DEF Handover, Unmoved
<1>13. ASSUME NEW l \in late, Arrive(l) PROVE TypeOK'
  BY <1>13 DEF Arrive
<1>14. ASSUME Tick PROVE TypeOK'
  <2>1. record' \in [Agents -> Records]  BY <1>14, OlderIs DEF Tick
  <2>2. late' \subseteq [node : Agents, put : Records]
    <3>1. ASSUME NEW m \in late' PROVE m \in [node : Agents, put : Records]
      BY <1>14, LateOnes
    <3> QED BY <3>1
  <2>3. away' \in [Agents -> 0 .. MaxAway]
    <3>1. MaxAway \in Nat  BY DEF MaxAway
    <3>2. ASSUME NEW a \in Agents PROVE away'[a] \in 0 .. MaxAway
      <4>1. away[a] \in 0 .. MaxAway  OBVIOUS
      <4>2. away'[a] = away[a] \/ (away[a] # MaxAway /\ away'[a] = away[a] + 1)
        BY <1>14 DEF Tick
      <4> QED BY ONLY <3>1, <4>1, <4>2
    <3> QED BY <1>14, <3>2 DEF Tick
  <2>4. quiet' \in 0 .. Settle  BY <1>14 DEF Tick
  <2> QED BY <1>14, <2>1, <2>2, <2>3, <2>4 DEF Tick
<1> QED
  BY <1>1, <1>2, <1>3, <1>4, <1>5, <1>6, <1>7, <1>8, <1>9, <1>10, <1>11, <1>12,
     <1>13, <1>14 DEF Next

LEMMA StutterType == TypeOK /\ UNCHANGED vars => TypeOK'
BY DEF TypeOK, vars

(* Every variable keeps its type: a record never lives longer than its     *)
(* TTL, and an expired one is gone.                                        *)
THEOREM RegistryTypeCorrect == Spec => []TypeOK
BY InitType, NextType, StutterType, PTL DEF Spec

(***************************************************************************)
(* Who is gone drops out of every choice.                                  *)
(***************************************************************************)

LEMMA InitAging == Init => Aging
<1> SUFFICES ASSUME Init PROVE Aging  OBVIOUS
<1>1. TypeOK  BY InitType
<1> QED
  BY <1>1, Numbers
  DEF Init, Aging, PublishersAreHere, RecordsAge, PutsAge, StatusesAge

(* Ends, handovers, takeovers and what the scaling group does.             *)
LEMMA EndsKeepAging ==
  ASSUME AInv, TypeOK', UNCHANGED <<away, cache, ran, late>>,
         \A a \in Agents : record'[a] \in {record[a], None},
         \A a \in Agents : phase'[a] \in {"up", "noticed", "left"} =>
           phase[a] \in {"up", "noticed", "left"}
  PROVE  Aging'
<1>1. \A a \in Agents : /\ phase[a] \in Phases /\ phase'[a] \in Phases
                        /\ record[a] \in Records
  BY DEF AInv, TypeOK, Phases
<1>2. PublishersAreHere'
  <2>1. ASSUME NEW a \in Agents, ("publish" \in Loops(a))' PROVE away'[a] = 0
    BY <1>1, <2>1, LoopsAre, LoopsAreNext DEF AInv, Aging, PublishersAreHere
  <2> QED BY <2>1 DEF PublishersAreHere
<1>3. RecordsAge'
  BY <1>1, Numbers DEF AInv, Aging, RecordsAge
<1>4. PutsAge'
  BY DEF AInv, Aging, PutsAge
<1>5. StatusesAge'
  <2>1. \A a \in Agents : Serving(a)' => Serving(a)
    BY <1>1, LoopsAre, LoopsAreNext
  <2> QED BY <2>1 DEF AInv, Aging, StatusesAge
<1> QED BY <1>2, <1>3, <1>4, <1>5 DEF Aging

(* A loop of an agent, which leaves the phases and the clock alone.        *)
LEMMA LoopsKeepAging ==
  ASSUME AInv, TypeOK', UNCHANGED <<away, phase>>
  PROVE  PublishersAreHere' /\ \A a \in Agents : Serving(a)' <=> Serving(a)
<1>1. \A a \in Agents : phase[a] \in Phases /\ phase'[a] \in Phases
  BY DEF AInv, TypeOK, Phases
<1>2. ASSUME NEW a \in Agents, ("publish" \in Loops(a))' PROVE away'[a] = 0
  BY <1>1, <1>2, LoopsAre, LoopsAreNext DEF AInv, Aging, PublishersAreHere
<1> QED BY <1>2 DEF PublishersAreHere, Serving

LEMMA SuperviseKeepsAging ==
  ASSUME AInv, TypeOK', NEW a \in Agents, Supervise(a)
  PROVE  Aging'
<1>1. UNCHANGED <<away, phase, record, late, cache>>  BY DEF Supervise
<1>2. \A b \in Agents : "refresh" \in ran'[b] => "refresh" \in ran[b]
  BY DEF Supervise, Run, AInv, TypeOK
<1>3. RecordsAge' /\ PutsAge'  BY <1>1 DEF AInv, Aging, RecordsAge, PutsAge
<1>4. StatusesAge'
  BY <1>1, <1>2, LoopsKeepAging DEF AInv, Aging, StatusesAge
<1> QED BY <1>1, <1>3, <1>4, LoopsKeepAging DEF Aging

LEMMA PublishKeepsAging ==
  ASSUME AInv, TypeOK', NEW a \in Agents, Publish(a)
  PROVE  Aging'
<1> USE Numbers
<1>1. UNCHANGED <<away, phase, cache>>  BY DEF Publish
<1>2. \A b \in Agents : "refresh" \in ran'[b] => "refresh" \in ran[b]
  BY DEF Publish, Run, AInv, TypeOK
<1>3. away[a] = 0
  BY DEF Publish, Run, AInv, Aging, PublishersAreHere
<1>4. \A ready \in BOOLEAN : Published(a, ready).left = TTL
  BY DEF Published
<1>5. RecordsAge'
  <2>1. CASE record' = record  BY <1>1, <2>1 DEF AInv, Aging, RecordsAge
  <2>2. CASE \E ready \in BOOLEAN : record' = [record EXCEPT ![a] = Published(a, ready)]
    <3>1. ASSUME NEW b \in Agents, b # a PROVE record'[b] = record[b]
      BY <2>2, <3>1 DEF AInv, TypeOK
    <3>2. record'[a].left = TTL  BY <1>4, <2>2 DEF AInv, TypeOK
    <3> QED BY <1>1, <1>3, <3>1, <3>2 DEF AInv, Aging, RecordsAge
  <2> QED BY <2>1, <2>2 DEF Publish
<1>6. PutsAge'
  <2>1. ASSUME NEW m \in late' PROVE m \in late \/ (m.node = a /\ m.put.left = TTL)
    <3>1. Published(a, TRUE).left = TTL  BY <1>4
    <3>2. late' \in {late, late \cup {[node |-> a, put |-> Published(a, TRUE)]}}
      BY DEF Publish
    <3>3. CASE m = [node |-> a, put |-> Published(a, TRUE)]  BY <3>1, <3>3
    <3> QED BY <2>1, <3>2, <3>3
  <2>2. ASSUME NEW m \in late' PROVE m.put.left + away'[m.node] <= TTL
    BY <1>1, <1>3, <2>1 DEF AInv, Aging, PutsAge
  <2> QED BY <2>2 DEF PutsAge
<1>7. StatusesAge'
  BY <1>1, <1>2, LoopsKeepAging DEF AInv, Aging, StatusesAge
<1> QED BY <1>1, <1>5, <1>6, <1>7, LoopsKeepAging DEF Aging

LEMMA RefreshKeepsAging ==
  ASSUME AInv, TypeOK', NEW a \in Agents, Refresh(a)
  PROVE  Aging'
<1> USE Numbers
<1>1. UNCHANGED <<away, phase, record, late>>  BY DEF Refresh
<1>2. RecordsAge' /\ PutsAge'  BY <1>1 DEF AInv, Aging, RecordsAge, PutsAge
<1>3. StatusesAge'
  <2> SUFFICES ASSUME NEW c \in Agents, NEW b \in Agents, Serving(c)',
                      cache'[c].rows[b].listed
               PROVE  /\ away'[b] <= TTL + Skew + 1
                      /\ "refresh" \in ran'[c] => away'[b] <= TTL + Skew
    BY DEF StatusesAge
  <2>1. CASE c # a
    <3>1. cache'[c] = cache[c] /\ ran'[c] = ran[c]
      BY <2>1 DEF Refresh, Run, AInv, TypeOK
    <3> QED BY <1>1, <3>1, LoopsKeepAging DEF AInv, Aging, StatusesAge
  <2>2. CASE c = a
    <3>1. \E l \in Leases, S \in SUBSET {d \in Agents : MayList(d)} :
            cache' = [cache EXCEPT ![a] = [lease |-> l, rows |-> Rows(S)]]
      BY Refreshed DEF AInv
    <3>2. PICK S \in SUBSET {d \in Agents : MayList(d)} : cache'[a].rows = Rows(S)
      BY <3>1 DEF AInv, TypeOK
    <3>3. MayList(b)  BY <2>2, <3>2, RowsAre DEF AInv
    <3>4. record[b] \in Records /\ away[b] \in 0 .. MaxAway  BY DEF AInv, TypeOK
    <3>5. record[b].left + away[b] <= TTL
      BY <3>3 DEF MayList, AInv, Aging, RecordsAge
    <3>6. away[b] <= TTL + Skew
      BY <3>3, <3>4, <3>5 DEF MayList, Records, Lifetimes, MaxAway
    <3> QED BY <1>1, <3>4, <3>6 DEF MaxAway
  <2> QED BY <2>1, <2>2
<1> QED BY <1>1, <1>2, <1>3, LoopsKeepAging DEF Aging

LEMMA RestartKeepsAging ==
  ASSUME AInv, TypeOK', NEW a \in Agents, Restart(a)
  PROVE  Aging'
<1> USE Numbers
<1>1. /\ UNCHANGED <<record, late>>
      /\ phase' = [phase EXCEPT ![a] = "up"] /\ away' = [away EXCEPT ![a] = 0]
      /\ cache' = [cache EXCEPT ![a] = NoStatus] /\ ran' = [ran EXCEPT ![a] = {}]
  BY DEF Restart
<1>2. \A b \in Agents : /\ phase[b] \in Phases /\ phase'[b] \in Phases
                        /\ record[b] \in Records
  BY DEF AInv, TypeOK, Phases
<1>3. \A b \in Agents : away'[b] \in 0 .. away[b] /\ away[b] \in Nat
  BY <1>1 DEF AInv, TypeOK, MaxAway
<1>4. PublishersAreHere'
  <2>1. ASSUME NEW b \in Agents, ("publish" \in Loops(b))' PROVE away'[b] = 0
    <3>1. CASE b = a  BY <1>1, <3>1 DEF AInv, TypeOK
    <3>2. CASE b # a
      <4>1. phase'[b] = phase[b] /\ away'[b] = away[b]  BY <1>1, <3>2 DEF AInv, TypeOK
      <4> QED BY <1>2, <2>1, <4>1, LoopsAre, LoopsAreNext DEF AInv, Aging, PublishersAreHere
    <3> QED BY <3>1, <3>2
  <2> QED BY <2>1 DEF PublishersAreHere
<1>5. RecordsAge'
  BY <1>1, <1>2, <1>3 DEF Records, Lifetimes, AInv, Aging, RecordsAge
<1>6. PutsAge'
  <2>1. ASSUME NEW m \in late PROVE m.put.left \in Int /\ m.node \in Agents
    BY <2>1 DEF AInv, TypeOK, Records, Lifetimes
  <2> QED BY <1>1, <1>3, <2>1 DEF AInv, Aging, PutsAge
<1>7. StatusesAge'
  <2> SUFFICES ASSUME NEW c \in Agents, NEW b \in Agents, Serving(c)',
                      cache'[c].rows[b].listed
               PROVE  /\ away'[b] <= TTL + Skew + 1
                      /\ "refresh" \in ran'[c] => away'[b] <= TTL + Skew
    BY DEF StatusesAge
  <2>1. c # a
    <3>1. cache'[a].rows[b].listed = FALSE
      BY <1>1 DEF AInv, TypeOK, NoStatus, Unlisted
    <3> QED BY <3>1
  <2>2. cache'[c] = cache[c] /\ ran'[c] = ran[c] /\ phase'[c] = phase[c]
    BY <1>1, <2>1 DEF AInv, TypeOK
  <2> QED BY <1>3, <2>2 DEF AInv, Aging, StatusesAge, Serving
<1> QED BY <1>4, <1>5, <1>6, <1>7 DEF Aging

LEMMA ArriveKeepsAging ==
  ASSUME AInv, TypeOK', NEW l \in late, Arrive(l)
  PROVE  Aging'
<1>1. UNCHANGED <<away, phase, cache, ran>> /\ late' = late \ {l}
      /\ record' = [record EXCEPT ![l.node] = l.put]
  BY DEF Arrive
<1>2. RecordsAge'  BY <1>1 DEF AInv, TypeOK, Aging, RecordsAge, PutsAge
<1>3. PutsAge'  BY <1>1 DEF AInv, Aging, PutsAge
<1>4. StatusesAge'  BY <1>1, LoopsKeepAging DEF AInv, Aging, StatusesAge
<1> QED BY <1>1, <1>2, <1>3, <1>4, LoopsKeepAging DEF Aging

(* A tick takes as much from every life as it adds to an absence, and asks *)
(* for another refresh.                                                    *)
LEMMA TickKeepsAging ==
  ASSUME AInv, TypeOK', Tick
  PROVE  Aging'
<1> USE Numbers
<1>1. \A a \in Agents : /\ phase[a] \in Phases /\ phase'[a] \in Phases
                        /\ record[a] \in Records /\ away[a] \in 0 .. MaxAway
  BY DEF AInv, TypeOK, Phases
<1>2. \A a \in Agents : away'[a] = away[a] \/ away'[a] = away[a] + 1
  BY DEF Tick
<1>3. PublishersAreHere'
  <2>1. ASSUME NEW a \in Agents, ("publish" \in Loops(a))' PROVE away'[a] = 0
    <3>1. phase'[a] = phase[a]  BY DEF Tick
    <3>2. "publish" \in Loops(a)  BY <1>1, <2>1, <3>1, LoopsAre, LoopsAreNext
    <3> QED BY <3>2 DEF Tick, AInv, Aging, PublishersAreHere
  <2> QED BY <2>1 DEF PublishersAreHere
<1>4. RecordsAge'
  <2>1. ASSUME NEW a \in Agents, record'[a].left # None.left
        PROVE  record'[a].left + away'[a] <= TTL
    <3>1. record'[a] = Older(record[a])  BY <2>1 DEF Tick
    <3>2. record[a].left # None.left /\ record'[a].left = record[a].left - 1
      BY <1>1, <2>1, <3>1, OlderIs DEF Records, Lifetimes
    <3>3. record[a].left + away[a] <= TTL  BY <3>2 DEF AInv, Aging, RecordsAge
    <3>4. record[a].left \in Int /\ away[a] \in Int  BY <1>1 DEF Records, Lifetimes
    <3> QED BY <1>2, <3>2, <3>3, <3>4
  <2> QED BY <2>1 DEF RecordsAge
<1>5. PutsAge'
  <2>1. ASSUME NEW m \in late' PROVE m.put.left + away'[m.node] <= TTL
    <3>1. PICK l \in late : m.node = l.node /\ l.put.left >= -Skew /\ m.put = Older(l.put)
      BY LateOnes DEF AInv
    <3>2. l.node \in Agents /\ l.put \in Records  BY DEF AInv, TypeOK
    <3>3. m.put.left = l.put.left - 1
      BY <3>1, <3>2, OlderIs DEF Records, Lifetimes
    <3>4. l.put.left + away[l.node] <= TTL  BY DEF AInv, Aging, PutsAge
    <3>5. l.put.left \in Int /\ away[l.node] \in Int
      BY <1>1, <3>2 DEF Records, Lifetimes
    <3> QED BY <1>2, <3>1, <3>2, <3>3, <3>4, <3>5
  <2> QED BY <2>1 DEF PutsAge
<1>6. StatusesAge'
  <2> SUFFICES ASSUME NEW c \in Agents, NEW b \in Agents, Serving(c)',
                      cache'[c].rows[b].listed
               PROVE  /\ away'[b] <= TTL + Skew + 1
                      /\ "refresh" \in ran'[c] => away'[b] <= TTL + Skew
    BY DEF StatusesAge
  <2>1. Serving(c) /\ cache[c].rows[b].listed  BY DEF Tick, Serving
  <2>2. "refresh" \in ran[c]  BY <1>1, <2>1, LoopsAre DEF Tick
  <2>3. away[b] <= TTL + Skew  BY <2>1, <2>2 DEF AInv, Aging, StatusesAge
  <2>4. ran'[c] = {}  BY DEF Tick
  <2> QED BY <1>1, <1>2, <2>3, <2>4
<1> QED BY <1>3, <1>4, <1>5, <1>6 DEF Aging

LEMMA NextAging == AInv /\ Next => AInv'
<1> SUFFICES ASSUME AInv, Next PROVE AInv'  OBVIOUS
<1>t. TypeOK'  BY NextType DEF AInv
<1> USE DEF AInv, TypeOK
<1>1. ASSUME NEW a \in Agents, TakeOver(a) \/ Notice(a) \/ Leave(a) \/ HookExpires(a)
                                 \/ Signal(a) \/ Crash(a)
                                 \/ \E b \in Agents : Handover(a, b)
      PROVE  Aging'
  <2>1. /\ UNCHANGED <<away, cache, ran, late, record>>
        /\ \A b \in Agents : phase'[b] \in {"up", "noticed", "left"} =>
             phase[b] \in {"up", "noticed", "left"}
    BY <1>1 DEF TakeOver, Notice, Leave, HookExpires, Signal, Crash, Handover, Unmoved
  <2> QED BY <1>t, <2>1, EndsKeepAging
<1>2. ASSUME NEW a \in Agents, Exit(a) PROVE Aging'
  <2>1. /\ UNCHANGED <<away, cache, ran, late>>
        /\ \A b \in Agents : record'[b] \in {record[b], None}
        /\ \A b \in Agents : phase'[b] \in {"up", "noticed", "left"} =>
             phase[b] \in {"up", "noticed", "left"}
    BY <1>2 DEF Exit
  <2> QED BY <1>t, <2>1, EndsKeepAging
<1> QED
  BY <1>t, <1>1, <1>2, SuperviseKeepsAging, PublishKeepsAging, RefreshKeepsAging,
     RestartKeepsAging, ArriveKeepsAging, TickKeepsAging DEF Next

LEMMA StutterAging == AInv /\ UNCHANGED vars => AInv'
BY StutterType
DEF AInv, vars, Aging, PublishersAreHere, RecordsAge, PutsAge, StatusesAge, Serving, Loops

(* However records are delayed, put late or left behind, and whatever the  *)
(* clocks show within Skew: nobody hands over to an agent that has been    *)
(* away for longer than a TTL, the skew and one refresh.                   *)
THEOREM GoneDropsOut == Spec => []GoneIsNotSelected
<1>1. AInv => GoneIsNotSelected
  BY DEF AInv, Aging, StatusesAge, GoneIsNotSelected, Selectable
<1>2. Init => AInv  BY InitType, InitAging DEF AInv
<1> QED BY <1>1, <1>2, NextAging, StutterAging, PTL DEF Spec

(***************************************************************************)
(* A new lease spreads to every standby's record and the owner's status.   *)
(***************************************************************************)

LEMMA InitSpread == Init => SInv
BY InitType DEF Init, SInv, ReachesSnapshots, ReachesRecords, ReachesStatuses

(* After anything but a loop that works, nothing is promised.              *)
LEMMA EventsKeepSpread == TypeOK' /\ quiet' = 0 => SInv'
BY DEF SInv, ReachesSnapshots, ReachesRecords, ReachesStatuses

LEMMA SuperviseKeepsSpread ==
  ASSUME SInv, TypeOK', NEW a \in Agents, Supervise(a), quiet' # 0
  PROVE  SInv'
<1>1. /\ UNCHANGED <<lease, phase, record, cache, quiet>>
      /\ snapshot' = [snapshot EXCEPT ![a] = lease]
      /\ ran' = [ran EXCEPT ![a] = @ \cup {"supervise"}]
  BY DEF Supervise, Run, Event, NoEvent
<1>2. \A b \in Agents : snapshot'[b] = snapshot[b] \/ snapshot'[b] = lease
  BY <1>1 DEF SInv, TypeOK
<1>3. snapshot'[a] = lease  BY <1>1 DEF SInv, TypeOK
<1>4. \A b \in Agents : /\ b # a => ran'[b] = ran[b]
                        /\ "publish" \in ran'[b] <=> "publish" \in ran[b]
                        /\ "refresh" \in ran'[b] <=> "refresh" \in ran[b]
  BY <1>1 DEF SInv, TypeOK
<1>5. ReachesSnapshots'
  BY <1>1, <1>2, <1>3, <1>4 DEF SInv, ReachesSnapshots, Here
<1>6. ReachesRecords'
  BY <1>1, <1>4 DEF SInv, ReachesRecords, Announced, Here
<1>7. ReachesStatuses'
  BY <1>1, <1>4 DEF SInv, ReachesStatuses, Knows, Here
<1> QED BY <1>5, <1>6, <1>7 DEF SInv

LEMMA PublishKeepsSpread ==
  ASSUME SInv, TypeOK', NEW a \in Agents, Publish(a), quiet' # 0
  PROVE  SInv'
<1> USE Numbers
<1>1. /\ UNCHANGED <<lease, phase, snapshot, cache, quiet>>
      /\ record' = [record EXCEPT ![a] = Published(a, TRUE)]
      /\ ran' = [ran EXCEPT ![a] = @ \cup {"publish"}]
  BY DEF Publish, Run, datapathStatusForRegistry, Event, NoEvent
<1>2. \A b \in Agents : /\ b # a => ran'[b] = ran[b] /\ record'[b] = record[b]
                        /\ "supervise" \in ran'[b] <=> "supervise" \in ran[b]
                        /\ "refresh" \in ran'[b] <=> "refresh" \in ran[b]
  BY <1>1 DEF SInv, TypeOK
<1>3. record'[a].ready /\ record'[a].generation = snapshot[a].generation
      /\ record'[a].left = TTL
  BY <1>1, PublishedIs DEF SInv, TypeOK
<1>4. ReachesSnapshots'
  BY <1>1, <1>2 DEF SInv, ReachesSnapshots, Here
<1>5. ReachesRecords'
  <2> SUFFICES ASSUME NEW b \in Agents, Here(b),
                      quiet >= 3 \/ (quiet >= 2 /\ "publish" \in ran'[b])
               PROVE  Announced(b)' /\ ("publish" \in ran'[b] => record'[b].left = TTL)
    BY <1>1 DEF ReachesRecords, Here
  <2>1. CASE b = a
    <3>1. quiet >= 2  BY DEF SInv, TypeOK
    <3>2. snapshot[a] = lease  BY <2>1, <3>1 DEF SInv, ReachesSnapshots
    <3>3. record'[a].left >= TTL - 1  BY <1>3
    <3>4. record'[a].generation = lease'.generation  BY <1>1, <1>3, <3>2
    <3> QED BY <1>3, <2>1, <3>3, <3>4 DEF Announced
  <2>2. CASE b # a
    BY <1>1, <1>2, <2>2 DEF SInv, ReachesRecords, Announced
  <2> QED BY <2>1, <2>2
<1>6. ReachesStatuses'
  BY <1>1, <1>2 DEF SInv, ReachesStatuses, Knows, Here
<1> QED BY <1>4, <1>5, <1>6 DEF SInv

LEMMA RefreshKeepsSpread ==
  ASSUME SInv, TypeOK', NEW a \in Agents, Refresh(a), quiet' # 0
  PROVE  SInv'
<1> USE Numbers
<1>1. /\ UNCHANGED <<lease, phase, snapshot, record, quiet>>
      /\ ran' = [ran EXCEPT ![a] = @ \cup {"refresh"}]
  BY DEF Refresh, Run, Event, NoEvent
<1>2. PICK S \in SUBSET {b \in Agents : MayList(b)} :
        /\ cache' = [cache EXCEPT ![a] = [lease |-> lease, rows |-> Rows(S)]]
        /\ {b \in Agents : MustList(b)} \subseteq S
  BY Refreshed DEF SInv
<1>3. \A b \in Agents : /\ b # a => ran'[b] = ran[b] /\ cache'[b] = cache[b]
                        /\ "supervise" \in ran'[b] <=> "supervise" \in ran[b]
                        /\ "publish" \in ran'[b] <=> "publish" \in ran[b]
  BY <1>1, <1>2 DEF SInv, TypeOK
<1>4. cache'[a].lease = lease /\ cache'[a].rows = Rows(S)
  BY <1>2 DEF SInv, TypeOK
<1>5. ReachesSnapshots'
  BY <1>1, <1>3 DEF SInv, ReachesSnapshots, Here
<1>6. ReachesRecords'
  BY <1>1, <1>3 DEF SInv, ReachesRecords, Announced, Here
<1>7. ReachesStatuses'
  <2> SUFFICES ASSUME NEW c \in Agents, Here(c),
                      quiet >= 4 \/ (quiet >= 3 /\ "refresh" \in ran'[c])
               PROVE  Knows(c)'
    BY <1>1 DEF ReachesStatuses, Here
  <2>1. CASE c = a
    <3>1. quiet >= 3  BY DEF SInv, TypeOK
    <3>2. ASSUME NEW b \in Agents, Here(b)
          PROVE  /\ cache'[a].rows[b].listed /\ cache'[a].rows[b].ready
                 /\ cache'[a].rows[b].generation = lease.generation
      <4>1. Announced(b)  BY <3>1, <3>2 DEF SInv, ReachesRecords
      <4>2. b \in S
        <5>1. record[b].left \in Int  BY DEF SInv, TypeOK, Records, Lifetimes
        <5>2. MustList(b)  BY <4>1, <5>1 DEF Announced, MustList
        <5> QED BY <1>2, <5>2
      <4> QED BY <1>4, <4>1, <4>2, RowsAre DEF SInv, Announced
    <3> QED BY <1>1, <1>4, <2>1, <3>2 DEF Knows, Here
  <2>2. CASE c # a
    BY <1>1, <1>3, <2>2 DEF SInv, ReachesStatuses, Knows, Here
  <2> QED BY <2>1, <2>2
<1> QED BY <1>5, <1>6, <1>7 DEF SInv

(* When a tick passes every loop has run: one stage more is reached.       *)
LEMMA TickKeepsSpread ==
  ASSUME SInv, TypeOK', Tick
  PROVE  SInv'
<1> USE Numbers
<1>1. UNCHANGED <<lease, phase, snapshot, cache>>  BY DEF Tick
<1>2. quiet \in Nat /\ quiet' \in Nat /\ quiet' <= quiet + 1
  BY DEF Tick, SInv, TypeOK
<1>3. ASSUME NEW a \in Agents
      PROVE  /\ Here(a) => /\ "supervise" \in ran[a] /\ "publish" \in ran[a]
                           /\ "refresh" \in ran[a]
             /\ ran'[a] = {}
  <2>1. phase[a] \in Phases  BY DEF SInv, TypeOK, Phases
  <2>2. Here(a) => {"supervise", "publish", "refresh"} \subseteq Loops(a)
    BY <2>1, LoopsAre DEF Here
  <2> QED BY <2>2 DEF Tick
<1>4. ReachesSnapshots'
  <2>1. ASSUME NEW a \in Agents, Here(a), quiet' >= 2 PROVE snapshot[a] = lease
    BY <1>2, <1>3, <2>1 DEF SInv, ReachesSnapshots
  <2> QED BY <1>1, <1>3, <2>1 DEF ReachesSnapshots, Here
<1>5. ReachesRecords'
  <2>1. ASSUME NEW a \in Agents, Here(a), quiet' >= 3 PROVE Announced(a)'
    <3>1. Announced(a) /\ record[a].left = TTL
      BY <1>2, <1>3, <2>1 DEF SInv, ReachesRecords
    <3>2. record[a] \in Records  BY DEF SInv, TypeOK
    <3>3. /\ Older(record[a]).left = TTL - 1
          /\ Older(record[a]).ready = record[a].ready
          /\ Older(record[a]).generation = record[a].generation
      BY <3>1, <3>2, OlderIs
    <3>4. record'[a] = Older(record[a])  BY <3>3 DEF Tick
    <3>5. record'[a].left >= TTL - 1  BY <3>3, <3>4
    <3>6. record'[a].ready  BY <3>1, <3>3, <3>4 DEF Announced
    <3>7. record'[a].generation = lease'.generation
      BY <1>1, <3>1, <3>3, <3>4 DEF Announced
    <3> QED BY <3>5, <3>6, <3>7 DEF Announced
  <2> QED BY <1>1, <1>3, <2>1 DEF ReachesRecords, Here
<1>6. ReachesStatuses'
  <2>1. ASSUME NEW a \in Agents, Here(a), quiet' >= 4 PROVE Knows(a)
    BY <1>2, <1>3, <2>1 DEF SInv, ReachesStatuses
  <2> QED BY <1>1, <1>3, <2>1 DEF ReachesStatuses, Knows, Here
<1> QED BY <1>4, <1>5, <1>6 DEF SInv

LEMMA NextSpread == SInv /\ Next => SInv'
<1> SUFFICES ASSUME SInv, Next PROVE SInv'  OBVIOUS
<1>t. TypeOK'  BY NextType DEF SInv
<1>1. CASE quiet' = 0  BY <1>t, <1>1, EventsKeepSpread
<1>2. CASE quiet' # 0
  <2>1. ASSUME NEW a \in Agents,
               TakeOver(a) \/ Notice(a) \/ Leave(a) \/ HookExpires(a) \/ Signal(a)
                 \/ Exit(a) \/ Crash(a) \/ Restart(a) \/ \E b \in Agents : Handover(a, b)
        PROVE  quiet' = 0
    BY <2>1 DEF TakeOver, Notice, Leave, HookExpires, Signal, Exit, Crash, Restart,
                Handover, Event
  <2>2. ASSUME NEW l \in late, Arrive(l) PROVE quiet' = 0  BY <2>2 DEF Arrive
  <2> QED
    BY <1>t, <1>2, <2>1, <2>2, SuperviseKeepsSpread, PublishKeepsSpread,
       RefreshKeepsSpread, TickKeepsSpread DEF Next
<1> QED BY <1>1, <1>2

LEMMA StutterSpread == SInv /\ UNCHANGED vars => SInv'
BY StutterType
DEF SInv, vars, ReachesSnapshots, ReachesRecords, ReachesStatuses, Announced, Knows, Here

(* However the loops of the agents are ordered within each tick, and       *)
(* however old the records read: after a change of the lease and four      *)
(* quiet ticks its owner can hand it over to every other agent.  Three     *)
(* are not enough.                                                         *)
THEOREM StandbysCanBeChosen ==
  ASSUME Settle >= 4 PROVE Spec => []StandbyIsSelectable
<1>1. SInv => StandbyIsSelectable
  <2> SUFFICES ASSUME SInv, NEW a \in Agents, NEW b \in Agents, quiet = Settle,
                      lease.owner = a, a # b, phase[a] = "up", phase[b] = "up"
               PROVE  b \in Selectable(a)
    BY DEF StandbyIsSelectable
  <2>1. Knows(a)  BY Numbers DEF SInv, ReachesStatuses, Here
  <2>2. a # NoAgent  BY RegistryAgents
  <2> QED BY <2>1, <2>2 DEF Knows, Here, Selectable, GenerationFits
<1> QED BY <1>1, InitSpread, NextSpread, StutterSpread, PTL DEF Spec
=============================================================================

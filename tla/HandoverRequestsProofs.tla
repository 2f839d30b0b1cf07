----------------------- MODULE HandoverRequestsProofs -----------------------
(***************************************************************************)
(* Proofs about HandoverRequests, for any agents, requests, executions and *)
(* bounds.                                                                 *)
(***************************************************************************)
EXTENDS HandoverRequests, TLAPS

Callers == Execs \cup {"client", "stop", "nobody"}
Exec ==
  [pc : Pcs, at : Agents \cup {NoAgent}, req : Requests \cup {NoAgent},
   caller : Callers, gen : Nat, to : Agents \cup {NoAgent}, answer : Statuses]

ExecShape == exec \in [Execs -> Exec]
WorldShape ==
  /\ lease \in [owner : Agents \cup {NoAgent}, generation : Nat]
  /\ mutex \in [Agents -> Execs \cup {"free"}]
  /\ phase \in [Agents -> Phases]
RecordShape ==
  /\ record \in [Requests -> Statuses \cup {"none"}]
  /\ moves \in [Requests -> Nat] /\ before \in [Requests -> Nat]
  /\ expired \subseteq Requests /\ listed \subseteq Requests /\ struck \subseteq Requests
ToldShape == told \subseteq Requests

(* An execution that runs has a request, and forwards it to an agent.      *)
RequestKnown ==
  \A e \in Execs :
    /\ exec[e].pc # "idle" => exec[e].req \in Requests
    /\ exec[e].pc = "forward" => exec[e].to \in Agents

(* Whoever is named as a caller waits, for the same request, at the agent  *)
(* of the execution that names it, and for no other execution.             *)
CallerWaits ==
  \A e \in Execs : exec[e].caller \in Execs =>
    LET c == exec[e].caller IN
    /\ exec[e].pc # "idle"
    /\ exec[c].pc = "wait" /\ exec[c].req = exec[e].req
    /\ exec[c].to = exec[e].at
    /\ exec[c].caller # e
    /\ \A f \in Execs : exec[f].caller = c => f = e

ExecInv == ExecShape /\ RequestKnown /\ CallerWaits
IInv == ExecInv /\ WorldShape /\ RecordShape /\ ToldShape

LEMMA InvariantIsType == IInv => TypeOK
BY DEF IInv, ExecInv, ExecShape, WorldShape, RecordShape, ToldShape, TypeOK, Exec, Callers

LEMMA IdleShape == Idle \in Exec /\ Idle.pc = "idle" /\ Idle.caller = "client" /\ Idle.caller \notin Execs
BY HandoverExecs DEF Idle, Exec, Callers, Pcs, Statuses, Terminal

LEMMA StartedShape ==
  ASSUME NEW a \in Agents \cup {NoAgent}, NEW q \in Requests, NEW c \in Callers
  PROVE  LET s == Started(a, q, c) IN
         s \in Exec /\ s.pc = "lookup" /\ s.at = a /\ s.req = q /\ s.caller = c
BY DEF Started, Idle, Exec, Callers, Pcs, Statuses, Terminal

LEMMA FreeIsIdle ==
  ASSUME Free # {} PROVE AFree \in Execs /\ exec[AFree].pc = "idle"
BY DEF AFree, Free

(* An execution after its caller was told, or gave up hearing an answer.   *)
Hears(r, s) == [r EXCEPT !.pc = "relay", !.answer = s]
Forsaken(r) == [r EXCEPT !.caller = "nobody"]
Stopped(r) == [Idle EXCEPT !.pc = "stopped", !.at = r.at, !.req = r.req]

LEMMA HearsShape ==
  ASSUME NEW r \in Exec, NEW s \in Statuses
  PROVE  LET t == Hears(r, s) IN
         /\ t \in Exec /\ t.pc = "relay" /\ t.at = r.at /\ t.req = r.req
         /\ t.to = r.to /\ t.caller = r.caller /\ t.answer = s
BY DEF Hears, Exec, Pcs

LEMMA ForsakenShape ==
  ASSUME NEW r \in Exec
  PROVE  LET t == Forsaken(r) IN
         /\ t \in Exec /\ t.pc = r.pc /\ t.at = r.at /\ t.req = r.req
         /\ t.to = r.to /\ t.caller = "nobody" /\ t.answer = r.answer
BY DEF Forsaken, Exec, Callers

LEMMA StoppedShape ==
  ASSUME NEW r \in Exec
  PROVE  LET t == Stopped(r) IN
         t \in Exec /\ t.pc = "stopped" /\ t.req = r.req /\ t.caller = "client"
BY DEF Stopped, Idle, Exec, Callers, Pcs, Statuses, Terminal

LEMMA MovesOnShape ==
  ASSUME NEW r \in Exec, NEW pc \in Pcs
  PROVE  LET t == [r EXCEPT !.pc = pc] IN
         /\ t \in Exec /\ t.pc = pc /\ t.at = r.at /\ t.req = r.req
         /\ t.to = r.to /\ t.caller = r.caller /\ t.answer = r.answer
BY DEF Exec

LEMMA Pointwise ==
  ASSUME exec' = [x \in Execs |-> exec'[x]], \A x \in Execs : exec'[x] \in Exec
  PROVE  exec' \in [Execs -> Exec]
OBVIOUS

(* A step that names no new caller, and in which those that are named go   *)
(* on waiting, keeps the invariant of the executions.                      *)
LEMMA NoNewCallers ==
  ASSUME ExecInv, exec' \in [Execs -> Exec], RequestKnown',
         \A x \in Execs : exec'[x].caller \in Execs =>
           LET c == exec[x].caller IN
           /\ exec'[x].caller = c /\ exec'[x].pc # "idle"
           /\ exec'[x].at = exec[x].at /\ exec'[x].req = exec[x].req
           /\ exec'[c].pc = "wait" /\ exec'[c].req = exec[c].req
           /\ exec'[c].to = exec[c].to
  PROVE  ExecInv'
<1>1. CallerWaits'
  <2> SUFFICES ASSUME NEW x \in Execs, exec'[x].caller \in Execs
               PROVE  LET c == exec'[x].caller IN
                      /\ exec'[x].pc # "idle"
                      /\ exec'[c].pc = "wait" /\ exec'[c].req = exec'[x].req
                      /\ exec'[c].to = exec'[x].at
                      /\ exec'[c].caller # x
                      /\ \A f \in Execs : exec'[f].caller = c => f = x
    BY DEF CallerWaits
  <2> DEFINE c == exec[x].caller
  <2>1. c \in Execs /\ exec'[x].caller = c
    OBVIOUS
  <2>2. /\ exec[c].pc = "wait" /\ exec[c].req = exec[x].req /\ exec[c].to = exec[x].at
        /\ exec[c].caller # x
        /\ \A f \in Execs : exec[f].caller = c => f = x
    BY <2>1 DEF ExecInv, CallerWaits
  <2>3. \A f \in Execs : exec'[f].caller = c => f = x
    BY <2>1, <2>2
  <2>4. exec'[c].caller # x
    BY <2>1, <2>2
  <2> QED
    BY <2>1, <2>2, <2>3, <2>4
<1> QED
  BY <1>1 DEF ExecInv, ExecShape

(* An execution goes on to a step in which it does not wait.               *)
LEMMA GoesOn ==
  ASSUME ExecInv, NEW e \in Execs, NEW r \in Exec,
         exec[e].pc \notin {"idle", "wait"}, r.pc # "idle",
         r.pc = "forward" => r.to \in Agents,
         r.at = exec[e].at, r.req = exec[e].req, r.caller = exec[e].caller,
         exec' = [exec EXCEPT ![e] = r]
  PROVE  ExecInv'
<1>1. exec' \in [Execs -> Exec] /\ exec'[e] = r
        /\ \A x \in Execs \ {e} : exec'[x] = exec[x]
  BY DEF ExecInv, ExecShape
<1>2. RequestKnown'
  BY <1>1 DEF ExecInv, RequestKnown
<1>3. \A x \in Execs : exec[x].caller \in Execs =>
        exec[x].caller # e /\ exec[x].pc # "idle" /\ exec[exec[x].caller].pc = "wait"
  BY DEF ExecInv, CallerWaits
<1> QED
  BY <1>1, <1>2, <1>3, NoNewCallers

LEMMA GoToIs ==
  ASSUME ExecInv, NEW e \in Execs, NEW pc \in Pcs, GoTo(e, pc)
  PROVE  /\ exec' \in [Execs -> Exec]
         /\ exec' = [exec EXCEPT ![e] = [exec[e] EXCEPT !.pc = pc]]
         /\ exec'[e] = [exec[e] EXCEPT !.pc = pc]
         /\ \A x \in Execs \ {e} : exec'[x] = exec[x]
<1>1. exec[e] \in Exec
  BY DEF ExecInv, ExecShape
<1>2. [exec[e] EXCEPT !.pc = pc] \in Exec
  BY <1>1, MovesOnShape
<1> QED
  BY <1>1, <1>2 DEF GoTo, ExecInv, ExecShape

LEMMA GoToGoesOn ==
  ASSUME ExecInv, NEW e \in Execs, NEW pc \in Pcs, GoTo(e, pc),
         exec[e].pc \notin {"idle", "wait"}, pc \notin {"idle", "forward"}
  PROVE  ExecInv'
<1> DEFINE r == [exec[e] EXCEPT !.pc = pc]
<1>1. exec[e] \in Exec
  BY DEF ExecInv, ExecShape
<1>2. /\ r \in Exec /\ r.pc = pc /\ r.at = exec[e].at /\ r.req = exec[e].req
      /\ r.caller = exec[e].caller
  BY <1>1, MovesOnShape
<1>3. exec' = [exec EXCEPT ![e] = r]
  BY GoToIs
<1> HIDE DEF r
<1> QED
  BY <1>2, <1>3, GoesOn

(* What an answer does to each execution.                                  *)
LEMMA AnswerIs ==
  ASSUME ExecInv, NEW e \in Execs, NEW s \in Statuses, Answer(e, s), exec[e].pc # "idle"
  PROVE  /\ exec' = [x \in Execs |-> exec'[x]]
         /\ exec'[e] \in {Idle, Stopped(exec[e])}
         /\ \A x \in Execs \ {e} :
              \/ x = exec[e].caller /\ exec[x].pc = "wait" /\ exec[x].req = exec[e].req
                 /\ exec'[x] = Hears(exec[x], s)
              \/ x # exec[e].caller /\ exec[x].caller = e /\ exec'[x] = Forsaken(exec[x])
              \/ x # exec[e].caller /\ exec[x].caller # e /\ exec'[x] = exec[x]
<1>1. \A x \in Execs : x = exec[e].caller => exec[x].pc = "wait" /\ exec[x].req = exec[e].req
  BY DEF ExecInv, CallerWaits
<1> QED
  BY <1>1 DEF Answer, Hears, Forsaken, Stopped

(* The execution ends, and whoever waits for it is told.                   *)
LEMMA AnswerEnds ==
  ASSUME ExecInv, ToldShape, NEW e \in Execs, NEW s \in Statuses, Answer(e, s),
         exec[e].pc # "idle"
  PROVE  ExecInv' /\ ToldShape'
<1> DEFINE c == exec[e].caller
<1>0. \A x \in Execs :
        /\ exec[x] \in Exec
        /\ exec[x].pc # "idle" => exec[x].req \in Requests
        /\ exec[x].pc = "forward" => exec[x].to \in Agents
  BY DEF ExecInv, ExecShape, RequestKnown
<1>1. ToldShape'
  BY <1>0 DEF Answer, ToldShape
<1>2. exec'[e] \in Exec /\ exec'[e].caller \notin Execs
        /\ (exec'[e].pc # "idle" => exec'[e].req \in Requests) /\ exec'[e].pc # "forward"
  BY <1>0, AnswerIs, IdleShape, StoppedShape, HandoverExecs
<1>3. ASSUME NEW x \in Execs \ {e}
      PROVE  /\ exec'[x] \in Exec /\ exec'[x].at = exec[x].at
             /\ exec'[x].req = exec[x].req /\ exec'[x].to = exec[x].to
             /\ exec'[x].caller \in Execs => exec'[x].caller = exec[x].caller /\ exec[x].caller # e
             /\ exec'[x].pc = "idle" <=> exec[x].pc = "idle"
             /\ x # c => exec'[x].pc = exec[x].pc
             /\ x = c => exec'[x].pc = "relay"
  <2>1. CASE x = c /\ exec[x].pc = "wait" /\ exec'[x] = Hears(exec[x], s)
    <3>1. exec[x].caller # e
      BY <2>1 DEF ExecInv, CallerWaits
    <3> QED BY <1>0, <2>1, <3>1, HearsShape
  <2>2. CASE x # c /\ exec'[x] = Forsaken(exec[x])
    BY <1>0, <2>2, ForsakenShape, HandoverExecs
  <2>3. CASE x # c /\ exec[x].caller # e /\ exec'[x] = exec[x]
    BY <1>0, <2>3
  <2> QED BY <2>1, <2>2, <2>3, AnswerIs
<1>4. exec' \in [Execs -> Exec]
  BY <1>2, <1>3, AnswerIs, Pointwise
<1>5. RequestKnown'
  BY <1>0, <1>2, <1>3 DEF RequestKnown
<1>6. ASSUME NEW x \in Execs, exec'[x].caller \in Execs
      PROVE  LET d == exec[x].caller IN
             /\ exec'[x].caller = d /\ exec'[x].pc # "idle"
             /\ exec'[x].at = exec[x].at /\ exec'[x].req = exec[x].req
             /\ exec'[d].pc = "wait" /\ exec'[d].req = exec[d].req
             /\ exec'[d].to = exec[d].to
  <2> DEFINE d == exec[x].caller
  <2>1. x # e /\ exec'[x].caller = d /\ d \in Execs /\ d # e
    BY <1>2, <1>3, <1>6
  <2>2. exec[x].pc # "idle" /\ exec[d].pc = "wait" /\ d # c
    BY <2>1 DEF ExecInv, CallerWaits
  <2> QED
    BY <1>3, <2>1, <2>2
<1> QED
  BY <1>1, <1>4, <1>5, <1>6, NoNewCallers

(* An execution starts whose caller is not an execution.                   *)
LEMMA StartsIs ==
  ASSUME ExecInv, Free # {}, NEW a \in Agents, NEW q \in Requests,
         NEW c \in {"client", "stop"},
         exec' = [exec EXCEPT ![AFree] = Started(a, q, c)]
  PROVE  /\ ExecInv'
         /\ exec'[AFree] = Started(a, q, c)
         /\ \A x \in Execs \ {AFree} : exec'[x] = exec[x]
<1> DEFINE r == Started(a, q, c)
<1>1. r \in Exec /\ r.pc = "lookup" /\ r.req = q /\ r.caller = c
  BY StartedShape DEF Callers
<1>2. AFree \in Execs /\ exec[AFree].pc = "idle"
  BY FreeIsIdle
<1>3. exec' \in [Execs -> Exec] /\ exec'[AFree] = r
        /\ \A x \in Execs \ {AFree} : exec'[x] = exec[x]
  BY <1>1, <1>2 DEF ExecInv, ExecShape
<1> HIDE DEF r
<1>4. RequestKnown'
  BY <1>1, <1>3 DEF ExecInv, RequestKnown
<1>5. \A x \in Execs : exec[x].caller \in Execs =>
        exec[x].caller # AFree /\ exec[x].pc # "idle" /\ exec[exec[x].caller].pc = "wait"
  BY <1>2 DEF ExecInv, CallerWaits
<1>6. r.caller \notin Execs
  BY <1>1, HandoverExecs
<1>7. ExecInv'
  BY <1>2, <1>3, <1>4, <1>5, <1>6, NoNewCallers
<1> QED
  BY <1>3, <1>7 DEF r

(* The one step in which an execution begins to wait for another.          *)
LEMMA ForwardsIs ==
  ASSUME ExecInv, Free # {}, NEW e \in Execs, exec[e].pc = "forward",
         exec[e].to \in Agents,
         exec' = [exec EXCEPT ![e].pc = "wait",
                              ![AFree] = Started(exec[e].to, exec[e].req, e)]
  PROVE  /\ ExecInv'
         /\ AFree # e /\ exec'[AFree] = Started(exec[e].to, exec[e].req, e)
         /\ exec'[e] = [exec[e] EXCEPT !.pc = "wait"]
         /\ \A x \in Execs \ {e, AFree} : exec'[x] = exec[x]
<1> DEFINE n == AFree
           r == Started(exec[e].to, exec[e].req, e)
           w == [exec[e] EXCEPT !.pc = "wait"]
<1>1. n \in Execs /\ exec[n].pc = "idle" /\ n # e
  BY FreeIsIdle
<1>2. exec[e] \in Exec /\ exec[e].req \in Requests
  BY DEF ExecInv, ExecShape, RequestKnown
<1>3. r \in Exec /\ r.pc = "lookup" /\ r.at = exec[e].to /\ r.req = exec[e].req /\ r.caller = e
  BY <1>2, StartedShape DEF Callers
<1>4. w \in Exec /\ w.pc = "wait" /\ w.at = exec[e].at /\ w.req = exec[e].req
        /\ w.to = exec[e].to /\ w.caller = exec[e].caller
  BY <1>2, MovesOnShape DEF Pcs
<1>5. /\ exec' \in [Execs -> Exec] /\ exec'[n] = r /\ exec'[e] = w
      /\ \A x \in Execs \ {e, n} : exec'[x] = exec[x]
  <2> HIDE DEF r, n
  <2>1. exec' = [[exec EXCEPT ![e] = w] EXCEPT ![n] = r]
    BY <1>1 DEF r, n, ExecInv, ExecShape
  <2> HIDE DEF w
  <2> QED
    BY <2>1, <1>1, <1>3, <1>4 DEF ExecInv, ExecShape
<1> HIDE DEF r, w, n
<1>6. RequestKnown'
  BY <1>2, <1>3, <1>4, <1>5 DEF ExecInv, RequestKnown
<1>7. \A x \in Execs : exec[x].caller \in Execs =>
        /\ exec[x].caller \notin {e, n} /\ exec[x].pc # "idle"
        /\ exec[exec[x].caller].pc = "wait"
  BY <1>1 DEF ExecInv, CallerWaits
<1>8. CallerWaits'
  <2> SUFFICES ASSUME NEW x \in Execs, exec'[x].caller \in Execs
               PROVE  LET c == exec'[x].caller IN
                      /\ exec'[x].pc # "idle"
                      /\ exec'[c].pc = "wait" /\ exec'[c].req = exec'[x].req
                      /\ exec'[c].to = exec'[x].at
                      /\ exec'[c].caller # x
                      /\ \A f \in Execs : exec'[f].caller = c => f = x
    BY DEF CallerWaits
  <2>1. CASE x = n
    BY <2>1, <1>1, <1>3, <1>4, <1>5, <1>7
  <2>2. CASE x # n
    <3> DEFINE d == exec[x].caller
    <3>1. exec'[x].caller = d /\ d \in Execs /\ d \notin {e, n} /\ x # n
      BY <2>2, <1>4, <1>5, <1>7
    <3>2. /\ exec[x].pc # "idle"
          /\ exec[d].pc = "wait" /\ exec[d].req = exec[x].req
          /\ exec[d].to = exec[x].at /\ exec[d].caller # x
          /\ \A f \in Execs : exec[f].caller = d => f = x
      BY <3>1 DEF ExecInv, CallerWaits
    <3>3. exec'[d] = exec[d]
      BY <3>1, <1>5
    <3>4. exec'[x].pc # "idle" /\ exec'[x].req = exec[x].req /\ exec'[x].at = exec[x].at
      BY <3>1, <3>2, <1>4, <1>5
    <3>5. \A f \in Execs : exec'[f].caller = d => f = x
      BY <3>1, <3>2, <1>3, <1>4, <1>5
    <3> QED
      BY <3>1, <3>2, <3>3, <3>4, <3>5
  <2> QED BY <2>1, <2>2
<1> QED
  BY <1>1, <1>5, <1>6, <1>8 DEF ExecInv, ExecShape, r, w, n

(* What the end of a process does to each execution.                       *)
LEMMA HearNothingShape ==
  ASSUME NEW x, exec[x] \in Exec, NEW a
  PROVE  LET t == HearNothing(x, a) IN
         /\ t \in Exec /\ t.at = exec[x].at /\ t.req = exec[x].req
         /\ t.to = exec[x].to /\ t.caller = exec[x].caller
         /\ \/ t = exec[x] /\ ~ (exec[x].pc = "wait" /\ exec[x].to = a)
            \/ exec[x].pc = "wait" /\ exec[x].to = a /\ t.pc = "relay"
               /\ t.answer = "rejected"
<1>1. HearNothing(x, a) = IF exec[x].pc = "wait" /\ exec[x].to = a
                          THEN Hears(exec[x], "rejected") ELSE exec[x]
  BY DEF HearNothing, Hears
<1>2. "rejected" \in Statuses
  BY DEF Statuses, Terminal
<1> QED
  BY <1>1, <1>2, HearsShape

LEMMA EndProcessIs ==
  ASSUME ExecInv, NEW a \in Agents \cup {NoAgent}, EndProcess(a)
  PROVE  /\ ExecInv'
         /\ \A x \in Execs :
              \/ exec'[x] = Idle
              \/ /\ exec'[x].req = exec[x].req
                 /\ \/ exec'[x].pc = exec[x].pc /\ exec'[x].answer = exec[x].answer
                    \/ exec'[x].pc = "relay" /\ exec'[x].answer = "rejected"
<1> DEFINE orphan(x) == exec[x].caller \in Execs /\ exec[exec[x].caller].at = a
<1>0. \A x \in Execs :
        /\ exec[x] \in Exec
        /\ exec[x].pc # "idle" => exec[x].req \in Requests
        /\ exec[x].pc = "forward" => exec[x].to \in Agents
  BY DEF ExecInv, ExecShape, RequestKnown
<1>1. /\ exec' = [x \in Execs |-> exec'[x]]
      /\ \A x \in Execs : exec'[x] = IF exec[x].at = a THEN Idle
                                     ELSE IF orphan(x) THEN Forsaken(HearNothing(x, a))
                                     ELSE HearNothing(x, a)
  BY DEF EndProcess, Forsaken
<1> HIDE DEF orphan
<1>2. ASSUME NEW x \in Execs, exec[x].at # a
      PROVE  /\ exec'[x] \in Exec /\ exec'[x].at = exec[x].at /\ exec'[x].req = exec[x].req
             /\ exec'[x].to = exec[x].to
             /\ orphan(x) => exec'[x].caller = "nobody"
             /\ ~ orphan(x) => exec'[x].caller = exec[x].caller
             /\ \/ /\ exec'[x].pc = exec[x].pc /\ exec'[x].answer = exec[x].answer
                   /\ ~ (exec[x].pc = "wait" /\ exec[x].to = a)
                \/ /\ exec'[x].pc = "relay" /\ exec'[x].answer = "rejected"
                   /\ exec[x].pc = "wait" /\ exec[x].to = a
  <2> DEFINE t == HearNothing(x, a)
  <2>1. /\ t \in Exec /\ t.at = exec[x].at /\ t.req = exec[x].req
        /\ t.to = exec[x].to /\ t.caller = exec[x].caller
        /\ \/ t = exec[x] /\ ~ (exec[x].pc = "wait" /\ exec[x].to = a)
           \/ exec[x].pc = "wait" /\ exec[x].to = a /\ t.pc = "relay"
              /\ t.answer = "rejected"
    BY <1>0, HearNothingShape
  <2>2. exec'[x] = IF orphan(x) THEN Forsaken(t) ELSE t
    BY <1>1, <1>2
  <2> HIDE DEF t
  <2> QED
    BY <2>1, <2>2, ForsakenShape
<1>3. \A x \in Execs : exec[x].at = a => exec'[x] = Idle
  BY <1>1
<1>4. exec' \in [Execs -> Exec]
  BY <1>1, <1>2, <1>3, IdleShape, Pointwise
<1>5. RequestKnown'
  BY <1>0, <1>2, <1>3, IdleShape DEF RequestKnown
<1>6. ASSUME NEW x \in Execs, exec'[x].caller \in Execs
      PROVE  LET d == exec[x].caller IN
             /\ exec'[x].caller = d /\ exec'[x].pc # "idle"
             /\ exec'[x].at = exec[x].at /\ exec'[x].req = exec[x].req
             /\ exec'[d].pc = "wait" /\ exec'[d].req = exec[d].req
             /\ exec'[d].to = exec[d].to
  <2> DEFINE d == exec[x].caller
  <2>1. exec[x].at # a
    BY <1>3, <1>6, IdleShape
  <2>2. ~ orphan(x) /\ exec'[x].caller = d /\ d \in Execs
    BY <2>1, <1>2, <1>6, HandoverExecs
  <2>3. exec[x].pc # "idle" /\ exec[d].pc = "wait" /\ exec[d].to = exec[x].at
    BY <2>2 DEF ExecInv, CallerWaits
  <2>4. exec[d].at # a /\ exec[d].to # a
    BY <2>1, <2>2, <2>3 DEF orphan
  <2>5. exec'[d].pc = "wait" /\ exec'[d].req = exec[d].req /\ exec'[d].to = exec[d].to
    BY <2>2, <2>3, <2>4, <1>2
  <2>6. exec'[x].pc # "idle"
    BY <2>1, <2>3, <1>2
  <2> QED
    BY <2>1, <2>2, <2>5, <2>6, <1>2
<1>7. ExecInv'
  BY <1>4, <1>5, <1>6, NoNewCallers
<1> QED
  BY <1>2, <1>3, <1>7

(* SIGTERM: one execution starts, the others at a lose their callers.      *)
LEMMA SignalIs ==
  ASSUME ExecInv, NEW a \in Agents, NEW q \in Requests, Signal(a, q)
  PROVE  /\ ExecInv'
         /\ exec'[AFree] = Started(a, q, "stop")
         /\ \A x \in Execs \ {AFree} :
              /\ exec'[x].req = exec[x].req
              /\ \/ exec'[x].pc = exec[x].pc /\ exec'[x].answer = exec[x].answer
                 \/ exec'[x].pc = "relay" /\ exec'[x].answer = "rejected"
<1> DEFINE n == AFree
           r == Started(a, q, "stop")
           cut(x) == exec[x].at = a /\ exec[x].caller # "stop"
<1>0. \A x \in Execs :
        /\ exec[x] \in Exec
        /\ exec[x].pc # "idle" => exec[x].req \in Requests
        /\ exec[x].pc = "forward" => exec[x].to \in Agents
  BY DEF ExecInv, ExecShape, RequestKnown
<1>1. n \in Execs /\ exec[n].pc = "idle"
  BY FreeIsIdle DEF Signal, AskToLeave
<1>2. r \in Exec /\ r.pc = "lookup" /\ r.req = q /\ r.caller = "stop"
  BY StartedShape DEF Callers
<1>3. /\ exec' = [x \in Execs |-> exec'[x]] /\ exec'[n] = r
      /\ \A x \in Execs \ {n} :
           exec'[x] = IF cut(x) THEN Forsaken(exec[x]) ELSE HearNothing(x, a)
  BY <1>1 DEF Signal, Forsaken
<1> HIDE DEF n, r, cut
<1>4. ASSUME NEW x \in Execs \ {n}
      PROVE  /\ exec'[x] \in Exec /\ exec'[x].at = exec[x].at /\ exec'[x].req = exec[x].req
             /\ exec'[x].to = exec[x].to
             /\ cut(x) => exec'[x].caller = "nobody" /\ exec'[x].pc = exec[x].pc
             /\ ~ cut(x) => exec'[x].caller = exec[x].caller
             /\ \/ /\ exec'[x].pc = exec[x].pc /\ exec'[x].answer = exec[x].answer
                   /\ cut(x) \/ ~ (exec[x].pc = "wait" /\ exec[x].to = a)
                \/ /\ exec'[x].pc = "relay" /\ exec'[x].answer = "rejected"
                   /\ exec[x].pc = "wait" /\ exec[x].to = a
  <2>1. CASE cut(x)
    BY <2>1, <1>0, <1>3, ForsakenShape
  <2>2. CASE ~ cut(x)
    <3> DEFINE t == HearNothing(x, a)
    <3>1. /\ t \in Exec /\ t.at = exec[x].at /\ t.req = exec[x].req
          /\ t.to = exec[x].to /\ t.caller = exec[x].caller
          /\ \/ t = exec[x] /\ ~ (exec[x].pc = "wait" /\ exec[x].to = a)
             \/ exec[x].pc = "wait" /\ exec[x].to = a /\ t.pc = "relay"
                /\ t.answer = "rejected"
      BY <1>0, HearNothingShape
    <3>2. exec'[x] = t
      BY <2>2, <1>3
    <3> HIDE DEF t
    <3> QED
      BY <2>2, <3>1, <3>2
  <2> QED BY <2>1, <2>2
<1>5. exec' \in [Execs -> Exec]
  BY <1>2, <1>3, <1>4, Pointwise
<1>6. RequestKnown'
  BY <1>0, <1>2, <1>3, <1>4 DEF RequestKnown
<1>7. ASSUME NEW x \in Execs, exec'[x].caller \in Execs
      PROVE  LET d == exec[x].caller IN
             /\ exec'[x].caller = d /\ exec'[x].pc # "idle"
             /\ exec'[x].at = exec[x].at /\ exec'[x].req = exec[x].req
             /\ exec'[d].pc = "wait" /\ exec'[d].req = exec[d].req
             /\ exec'[d].to = exec[d].to
  <2> DEFINE d == exec[x].caller
  <2>1. x # n
    BY <1>2, <1>3, <1>7, HandoverExecs
  <2>2. ~ cut(x) /\ exec'[x].caller = d /\ d \in Execs /\ d # "stop"
    BY <2>1, <1>4, <1>7, HandoverExecs
  <2>3. exec[x].pc # "idle" /\ exec[d].pc = "wait" /\ exec[d].to = exec[x].at
    BY <2>2 DEF ExecInv, CallerWaits
  <2>4. exec[d].to # a /\ d # n
    BY <2>2, <2>3, <1>1 DEF cut
  <2>5. exec'[d].pc = "wait" /\ exec'[d].req = exec[d].req /\ exec'[d].to = exec[d].to
    BY <2>2, <2>3, <2>4, <1>4
  <2>6. exec'[x].pc # "idle"
    BY <2>1, <2>3, <1>4
  <2> QED
    BY <2>1, <2>2, <2>5, <2>6, <1>4
<1>8. ExecInv'
  BY <1>5, <1>6, <1>7, NoNewCallers
<1> QED
  BY <1>3, <1>4, <1>8 DEF n, r

(* An execution that nobody waits for ends.                                *)
LEMMA BecomesIdle ==
  ASSUME ExecInv, NEW e \in Execs, exec[e].pc # "wait", exec' = [exec EXCEPT ![e] = Idle]
  PROVE  ExecInv' /\ exec'[e] = Idle /\ \A x \in Execs \ {e} : exec'[x] = exec[x]
<1>1. exec' \in [Execs -> Exec] /\ exec'[e] = Idle
        /\ \A x \in Execs \ {e} : exec'[x] = exec[x]
  BY IdleShape DEF ExecInv, ExecShape
<1>2. RequestKnown'
  BY <1>1, IdleShape DEF ExecInv, RequestKnown
<1>3. \A x \in Execs : exec[x].caller \in Execs =>
        exec[x].caller # e /\ exec[x].pc # "idle" /\ exec[exec[x].caller].pc = "wait"
  BY DEF ExecInv, CallerWaits
<1> QED
  BY <1>1, <1>2, <1>3, IdleShape, NoNewCallers

-----------------------------------------------------------------------------
(* Every step keeps the invariant.                                         *)
LEMMA InitInvariant == Init => IInv
<1> SUFFICES ASSUME Init PROVE IInv
  OBVIOUS
<1>1. \A e \in Execs : exec[e] = Idle
  BY DEF Init
<1>2. exec \in [Execs -> Exec]
  BY IdleShape DEF Init
<1>3. RequestKnown /\ CallerWaits
  BY <1>1, IdleShape DEF RequestKnown, CallerWaits
<1>4. WorldShape /\ RecordShape /\ ToldShape
  BY DEF Init, WorldShape, RecordShape, ToldShape, Phases
<1> QED
  BY <1>2, <1>3, <1>4 DEF IInv, ExecInv, ExecShape

LEMMA RemoveShape ==
  ASSUME RecordShape, NEW q \in Requests, Remove(q), listed' \subseteq listed
  PROVE  RecordShape'
BY DEF Remove, RecordShape

LEMMA StepInvariant == ASSUME IInv, NEW e \in Execs, Step(e) \/ TimeOut(e)
                       PROVE  IInv'
<1> USE DEF IInv
<1>0. /\ exec[e] \in Exec
      /\ exec[e].pc # "idle" => exec[e].req \in Requests
      /\ \A q \in Requests : record[q] \in Statuses \cup {"none"}
      /\ {"rejected", "requested", "preparing", "committing"} \cup Terminal \subseteq Statuses
      /\ exec[e].pc = "forward" => exec[e].to \in Agents
  BY DEF ExecInv, ExecShape, RequestKnown, RecordShape, Statuses, Terminal
<1>1. ASSUME NEW st \in Statuses, Answer(e, st), exec[e].pc # "idle"
      PROVE  ExecInv' /\ ToldShape'
  BY <1>1, AnswerEnds
<1>2. ASSUME NEW pc \in Pcs \ {"idle", "forward"}, GoTo(e, pc), exec[e].pc \notin {"idle", "wait"}
      PROVE  ExecInv'
  BY <1>2, GoToGoesOn
<1>3. ASSUME NEW q \in Requests, NEW st \in Statuses, Update(q, st)
      PROVE  record' \in [Requests -> Statuses \cup {"none"}] /\ expired' \subseteq Requests
  BY <1>3 DEF Update, Write, RecordShape
<1>4. ASSUME UNCHANGED world PROVE WorldShape'
  BY <1>4 DEF world, WorldShape
<1>5. ASSUME UNCHANGED store PROVE RecordShape'
  BY <1>5 DEF store, RecordShape
<1>6. ASSUME UNCHANGED told PROVE ToldShape'
  BY <1>6 DEF ToldShape
<1>10. CASE Lookup(e)
  <2>1. CASE Known(e)
    BY <2>1, <1>10, <1>0, <1>1, <1>4, <1>5 DEF Lookup, Known, Executing
  <2>2. CASE GoTo(e, "current") /\ UNCHANGED told
    BY <2>2, <1>10, <1>2, <1>4, <1>5, <1>6 DEF Lookup, Executing, Pcs
  <2>3. CASE ReadExpired(e, "sweep")
    BY <2>3, <1>10, <1>2, <1>4, <1>5, <1>6 DEF Lookup, ReadExpired, Executing, Pcs
  <2> QED BY <2>1, <2>2, <2>3, <1>10 DEF Lookup
<1>9. CASE Sweep(e)
  <2>1. exec[e].pc \notin {"idle", "wait"} /\ exec[e].req \in Requests
    BY <1>9, <1>0 DEF Sweep, Executing
  <2>2. RecordShape'
    BY <2>1, <1>9, <1>5, RemoveShape DEF Sweep
  <2>3. ExecInv' /\ ToldShape'
    BY <2>1, <1>9, <1>0, <1>1, <1>2, <1>6 DEF Sweep, Pcs
  <2> QED
    BY <2>2, <2>3, <1>9, <1>4 DEF Sweep
<1>11. CASE ReadLease(e)
  <2> DEFINE mine == lease.owner = exec[e].at
             r == [exec[e] EXCEPT !.pc = IF mine THEN "create" ELSE "forward",
                                  !.gen = IF mine THEN lease.generation ELSE 0,
                                  !.to = IF mine THEN NoAgent ELSE lease.owner]
  <2>1. CASE (mine \/ lease.owner # NoAgent) /\ exec' = [exec EXCEPT ![e].pc = IF mine THEN "create" ELSE "forward",
                                ![e].gen = IF mine THEN lease.generation ELSE 0,
                                ![e].to = IF mine THEN NoAgent ELSE lease.owner]
             /\ UNCHANGED told
    <3>1. /\ r \in Exec /\ r.pc \in {"create", "forward"} /\ r.at = exec[e].at
          /\ r.req = exec[e].req /\ r.caller = exec[e].caller
          /\ r.pc = "forward" => r.to \in Agents
      BY <1>0, <1>11, <2>1 DEF WorldShape, Exec, Pcs, ReadLease
    <3>2. exec' = [exec EXCEPT ![e] = r]
      BY <2>1 DEF ExecInv, ExecShape
    <3> HIDE DEF r
    <3>3. ExecInv'
      BY <3>1, <3>2, <1>11, GoesOn DEF ReadLease, Executing
    <3> QED
      BY <3>3, <2>1, <1>11, <1>4, <1>5, <1>6 DEF ReadLease
  <2>2. CASE Answer(e, "rejected")
    BY <2>2, <1>11, <1>0, <1>1, <1>4, <1>5 DEF ReadLease, Executing
  <2> QED BY <2>1, <2>2, <1>11 DEF ReadLease
<1>12. CASE Forward(e)
  <2>1. CASE /\ Serving(exec[e].to) /\ Free # {} /\ UNCHANGED told
             /\ exec' = [exec EXCEPT ![e].pc = "wait",
                                     ![AFree] = Started(exec[e].to, exec[e].req, e)]
    <3>1. exec[e].to \in Agents
      BY <1>0, <1>12 DEF Forward, Executing
    <3>2. ExecInv'
      BY <2>1, <3>1, <1>12, ForwardsIs DEF Forward, Executing
    <3> QED
      BY <3>2, <2>1, <1>12, <1>4, <1>5, <1>6 DEF Forward
  <2>2. CASE Answer(e, "rejected")
    BY <2>2, <1>12, <1>0, <1>1, <1>4, <1>5 DEF Forward, Executing
  <2> QED BY <2>1, <2>2, <1>12 DEF Forward
<1>13. CASE Relay(e)
  BY <1>13, <1>0, <1>1, <1>4, <1>5 DEF Relay, Executing, Exec
<1>14. CASE Create(e)
  <2>1. GoTo(e, "select") \/ GoTo(e, "existing")
    BY <1>14 DEF Create
  <2>2. ExecInv'
    BY <2>1, <1>14, <1>2 DEF Create, Executing, Pcs
  <2>3. record' \in {record, [record EXCEPT ![exec[e].req] = "requested"]}
    BY <1>14 DEF Create
  <2>4. RecordShape'
    BY <2>3, <1>0, <1>14 DEF Create, RecordShape, Executing
  <2> QED
    BY <2>2, <2>4, <1>14, <1>4, <1>6 DEF Create
<1>15. CASE Existing(e)
  <2>1. CASE ReadExpired(e, "sweepAgain")
    BY <2>1, <1>15, <1>2, <1>4, <1>5, <1>6 DEF Existing, ReadExpired, Executing, Pcs
  <2>2. CASE Known(e) \/ Answer(e, "rejected")
    BY <2>2, <1>15, <1>0, <1>1, <1>4, <1>5 DEF Existing, Known, Executing
  <2> QED BY <2>1, <2>2, <1>15 DEF Existing
<1>16. CASE Select(e)
  <2>1. CASE \E b \in Agents \ {exec[e].at} :
               exec' = [exec EXCEPT ![e].pc = "preparing", ![e].to = b]
    <3> PICK b \in Agents : exec' = [exec EXCEPT ![e].pc = "preparing", ![e].to = b]
      BY <2>1
    <3> DEFINE r == [exec[e] EXCEPT !.pc = "preparing", !.to = b]
    <3>1. /\ r \in Exec /\ r.pc = "preparing" /\ r.at = exec[e].at
          /\ r.req = exec[e].req /\ r.caller = exec[e].caller
      BY <1>0 DEF Exec, Pcs
    <3>2. exec' = [exec EXCEPT ![e] = r]
      BY <2>1 DEF ExecInv, ExecShape
    <3> HIDE DEF r
    <3>3. ExecInv'
      BY <3>1, <3>2, <1>16, GoesOn DEF Select, Executing
    <3> QED
      BY <3>3, <1>16, <1>4, <1>5, <1>6 DEF Select
  <2>2. CASE GoTo(e, "rejected")
    BY <2>2, <1>16, <1>2, <1>4, <1>5, <1>6 DEF Select, Executing, Pcs, Terminal
  <2> QED BY <2>1, <2>2, <1>16 DEF Select
<1>17. CASE Record(e)
  <2>1. exec[e].pc \notin {"idle", "wait"} /\ exec[e].req \in Requests
    BY <1>17, <1>0 DEF Record, Executing, Terminal
  <2>2. RecordShape'
    BY <2>1, <1>17, <1>0, <1>3 DEF Record, RecordShape
  <2>3. CASE GoTo(e, "prepare") /\ UNCHANGED told
    BY <2>1, <2>2, <2>3, <1>17, <1>2, <1>4, <1>6 DEF Record, Pcs
  <2>4. CASE GoTo(e, "verify") /\ UNCHANGED told
    BY <2>1, <2>2, <2>4, <1>17, <1>2, <1>4, <1>6 DEF Record, Pcs
  <2>5. CASE \E st \in Terminal : Answer(e, st)
    BY <2>1, <2>2, <2>5, <1>17, <1>0, <1>1, <1>4 DEF Record
  <2> QED BY <2>3, <2>4, <2>5, <1>17 DEF Record
<1>18. CASE Prepare(e)
  BY <1>18, <1>2, <1>4, <1>5, <1>6 DEF Prepare, Executing, Pcs, Terminal
<1>19. CASE Verify(e)
  BY <1>19, <1>2, <1>4, <1>5, <1>6 DEF Verify, Executing, Pcs, Terminal
<1>20. CASE Lock(e)
  <2>1. ExecInv'
    BY <1>20, <1>2 DEF Lock, Executing, Pcs
  <2> QED
    BY <2>1, <1>20, <1>5, <1>6 DEF Lock, WorldShape
<1>21. CASE Commit(e)
  <2>1. exec[e].pc = "commit" /\ exec[e].req \in Requests
    BY <1>21, <1>0 DEF Commit, Executing
  <2>2. ExecInv'
    BY <2>1, <1>21, <1>2 DEF Commit, Pcs, Terminal
  <2>3. RecordShape'
    BY <2>1, <1>21 DEF Commit, RecordShape
  <2>4. mutex' \in [Agents -> Execs \cup {"free"}] /\ phase' \in [Agents -> Phases]
    BY <1>21 DEF Commit, WorldShape
  <2>5. lease' \in [owner : Agents \cup {NoAgent}, generation : Nat]
    BY <1>0, <1>21 DEF Commit, WorldShape, Exec
  <2> QED
    BY <2>2, <2>3, <2>4, <2>5, <1>21, <1>6 DEF Commit, WorldShape
<1>22. CASE TimeOut(e)
  BY <1>22, <1>0, <1>1, <1>4, <1>5 DEF TimeOut, Executing
<1> QED
  BY <1>9, <1>10, <1>11, <1>12, <1>13, <1>14, <1>15, <1>16, <1>17, <1>18, <1>19, <1>20,
     <1>21, <1>22 DEF Step

LEMMA AgentInvariant ==
  ASSUME IInv,
         \/ \E a \in Agents :
              \/ \E q \in Requests : Call(a, q) \/ Notice(a, q) \/ Signal(a, q)
              \/ Crash(a) \/ Restart(a) \/ TakeOver(a)
         \/ \E q \in Requests : Expire(q) \/ List(q) \/ SweepListed(q)
  PROVE  IInv'
<1> USE DEF IInv
<1>1. ASSUME NEW b \in Agents, NEW p \in Phases, Enter(b, p)
      PROVE  phase' \in [Agents -> Phases]
  BY <1>1 DEF Enter, WorldShape
<1>3. ASSUME NEW a \in Agents, NEW q \in Requests, Call(a, q) PROVE IInv'
  BY <1>3, StartsIs DEF Call, store, world, WorldShape, RecordShape, ToldShape
<1>4. ASSUME NEW a \in Agents, NEW q \in Requests, Notice(a, q) PROVE IInv'
  BY <1>4, <1>1, StartsIs DEF store, Notice, AskToLeave, WorldShape, RecordShape, ToldShape, Phases
<1>5. ASSUME NEW a \in Agents, NEW q \in Requests, Signal(a, q) PROVE IInv'
  BY <1>5, <1>1, SignalIs DEF store, Signal, AskToLeave, WorldShape, RecordShape, ToldShape, Phases
<1>6. ASSUME NEW a \in Agents, Crash(a) PROVE IInv'
  <2>1. phase' \in [Agents -> Phases]
    BY <1>6, <1>1 DEF Crash, Phases
  <2>2. mutex' \in [Agents -> Execs \cup {"free"}]
    BY <1>6 DEF Crash, EndProcess, WorldShape
  <2> QED
    BY <2>1, <2>2, <1>6, EndProcessIs DEF store, Crash, WorldShape, RecordShape, ToldShape
<1>7. ASSUME NEW a \in Agents, Restart(a) PROVE IInv'
  <2>1. ExecInv'
    BY <1>7 DEF Restart, ExecInv, ExecShape, RequestKnown, CallerWaits
  <2> QED
    BY <2>1, <1>7, <1>1 DEF store, Restart, WorldShape, RecordShape, ToldShape, Phases
<1>8. ASSUME NEW a \in Agents, TakeOver(a) PROVE IInv'
  <2>1. ExecInv'
    BY <1>8 DEF TakeOver, ExecInv, ExecShape, RequestKnown, CallerWaits
  <2> QED
    BY <2>1, <1>8 DEF store, TakeOver, WorldShape, RecordShape, ToldShape
<1>9. ASSUME NEW q \in Requests, Expire(q) \/ List(q) \/ SweepListed(q) PROVE IInv'
  <2>1. ExecInv'
    BY <1>9 DEF Expire, List, SweepListed, ExecInv, ExecShape, RequestKnown, CallerWaits
  <2>2. RecordShape'
    BY <1>9, RemoveShape DEF Expire, List, SweepListed, RecordShape
  <2> QED
    BY <2>1, <2>2, <1>9 DEF Expire, List, SweepListed, world, WorldShape, ToldShape
<1> QED
  BY <1>3, <1>4, <1>5, <1>6, <1>7, <1>8, <1>9

LEMMA ExitInvariant == ASSUME IInv, NEW e \in Execs, Exit(e) PROVE IInv'
<1> USE DEF IInv
<1> DEFINE a == exec[e].at
<1>1. exec[e].pc = "stopped" /\ a \in Agents \cup {NoAgent} /\ UNCHANGED <<store, told>>
  BY DEF Exit, Executing, ExecInv, ExecShape, Exec
<1>2. lease' \in [owner : Agents \cup {NoAgent}, generation : Nat]
  BY DEF Exit, WorldShape
<1>3. phase' \in [Agents -> Phases]
  BY DEF Exit, Enter, WorldShape, Phases
<1>4. CASE exec' = [exec EXCEPT ![e] = Idle] /\ UNCHANGED mutex
  BY <1>1, <1>2, <1>3, <1>4, BecomesIdle DEF store, WorldShape, RecordShape, ToldShape
<1>5. CASE EndProcess(a)
  <2>1. mutex' \in [Agents -> Execs \cup {"free"}]
    BY <1>5 DEF EndProcess, WorldShape
  <2>2. ExecInv'
    BY <1>1, <1>5, EndProcessIs
  <2> QED
    BY <2>1, <2>2, <1>1, <1>2, <1>3 DEF store, WorldShape, RecordShape, ToldShape
<1> QED
  BY <1>4, <1>5 DEF Exit

LEMMA InvariantStep == IInv /\ [Next]_vars => IInv'
<1> SUFFICES ASSUME IInv, [Next]_vars PROVE IInv'
  OBVIOUS
<1>1. CASE Next
  BY <1>1, StepInvariant, AgentInvariant, ExitInvariant DEF Next
<1>2. CASE UNCHANGED vars
  BY <1>2 DEF vars, IInv, ExecInv, ExecShape, RequestKnown, CallerWaits, WorldShape,
              RecordShape, ToldShape
<1> QED
  BY <1>1, <1>2

LEMMA Invariant == Spec => []IInv
BY InitInvariant, InvariantStep, PTL DEF Spec

(* Every variable of HandoverRequests keeps its type, whatever executions  *)
(* call, forward to and wait for each other, and whichever agents end.     *)
THEOREM TypeCorrect == Spec => []TypeOK
BY Invariant, InvariantIsType, PTL

-----------------------------------------------------------------------------
(* A request moves the lease at most once until its record has expired and *)
(* is deleted, and "completed" is true.                                    *)
Open == {"requested", "preparing", "committing"}
Before == {"select", "preparing", "prepare", "committing", "verify", "lock", "commit"}

(* A record that has expired is there, and nobody carries its request out. *)
Past ==
  \A q \in expired :
    /\ record[q] # "none"
    /\ \A e \in Execs : exec[e].req = q => exec[e].pc \notin Carrying

(* Whoever carries a request out does so alone, under a record that is not *)
(* closed; unless a late deletion struck that record.                      *)
Alone ==
  /\ \A e \in Execs :
       exec[e].pc \in Carrying /\ exec[e].req \notin struck => record[exec[e].req] \in Open
  /\ \A e, f \in Execs :
       /\ exec[e].pc \in Carrying /\ exec[f].pc \in Carrying
       /\ exec[e].req = exec[f].req /\ exec[e].req \notin struck
       => e = f

(* How often a request has moved the lease, in all and up to the last      *)
(* deletion of its expired record, can be told from its record and from    *)
(* the execution that carries it out.                                      *)
Counted ==
  /\ \A q \in Requests :
       /\ before[q] <= moves[q]
       /\ q \notin struck => moves[q] <= before[q] + 1
       /\ q \notin struck /\ record[q] = "none" => moves[q] = before[q]
       /\ record[q] = "completed" => moves[q] > before[q]
       /\ q \in told => moves[q] > 0
  /\ \A e \in Execs :
       /\ exec[e].pc \in Before /\ exec[e].req \notin struck
            => moves[exec[e].req] = before[exec[e].req]
       /\ exec[e].pc = "completed" => moves[exec[e].req] > before[exec[e].req]
       /\ exec[e].pc = "relay" /\ exec[e].answer = "completed" => moves[exec[e].req] > 0

MovesInv == IInv /\ Past /\ Alone /\ Counted

(* What a step may do that neither creates nor deletes a record, nor moves *)
(* the lease.                                                              *)
CalmExec ==
  \A x \in Execs :
    /\ exec'[x].pc \in Carrying => exec[x].pc \in Carrying /\ exec'[x].req = exec[x].req
    /\ exec'[x].pc \in Before => exec[x].pc \in Before
    /\ exec'[x].pc = "completed" => exec[x].pc = "completed"
    /\ exec'[x].pc = "relay" /\ exec'[x].answer = "completed" => moves[exec'[x].req] > 0
CalmTold == \A q \in told' : moves[q] > 0
CalmRecord ==
  /\ \A q \in Requests :
       /\ record'[q] = "none" => record[q] = "none"
       /\ record'[q] = "completed" => moves[q] > before[q]
  /\ \A x \in Execs :
       exec'[x].pc \in Carrying /\ exec'[x].req \notin struck => record'[exec'[x].req] \in Open
  /\ expired' \subseteq expired
Calm == CalmExec /\ CalmTold /\ CalmRecord /\ UNCHANGED <<moves, before, struck>>

(* The variables this invariant is about, besides the executions.          *)
kept == <<record, expired, moves, before, struck>>

LEMMA CountsAreNat ==
  ASSUME MovesInv, NEW q \in Requests
  PROVE  moves[q] \in Nat /\ before[q] \in Nat
BY DEF MovesInv, IInv, RecordShape

LEMMA CalmKeeps == ASSUME MovesInv, IInv', Calm PROVE MovesInv'
<1>1. Alone'
  BY DEF MovesInv, Alone, Calm, CalmExec, CalmRecord
<1>2. \A x \in Execs : exec[x].pc # "idle" => exec[x].req \in Requests
  BY DEF MovesInv, IInv, ExecInv, RequestKnown
<1>3. ASSUME NEW x \in Execs
      PROVE
        /\ exec'[x].pc \in Before /\ exec'[x].req \notin struck'
             => moves'[exec'[x].req] = before'[exec'[x].req]
        /\ exec'[x].pc = "completed" => moves'[exec'[x].req] > before'[exec'[x].req]
        /\ exec'[x].pc = "relay" /\ exec'[x].answer = "completed" => moves'[exec'[x].req] > 0
  BY DEF MovesInv, Counted, Calm, CalmExec, Carrying, Before, Terminal
<1>4. \A q \in Requests :
        /\ before'[q] <= moves'[q]
        /\ q \notin struck' => moves'[q] <= before'[q] + 1
        /\ q \notin struck' /\ record'[q] = "none" => moves'[q] = before'[q]
        /\ record'[q] = "completed" => moves'[q] > before'[q]
        /\ q \in told' => moves'[q] > 0
  BY DEF MovesInv, Counted, Calm, CalmTold, CalmRecord
<1>5. Past'
  BY DEF MovesInv, IInv, RecordShape, Past, Calm, CalmExec, CalmRecord
<1> QED
  BY <1>1, <1>3, <1>4, <1>5 DEF MovesInv, Counted

LEMMA SameRecordIsCalm ==
  ASSUME MovesInv, CalmExec, CalmTold, UNCHANGED kept PROVE Calm
BY DEF kept, MovesInv, Alone, Counted, Calm, CalmExec, CalmRecord

LEMMA SameToldIsCalm == ASSUME MovesInv, UNCHANGED told PROVE CalmTold
BY DEF MovesInv, IInv, ToldShape, Counted, CalmTold

(* An answer is calm if "completed" is answered only when it is true.      *)
LEMMA AnswerIsCalm ==
  ASSUME MovesInv, NEW e \in Execs, NEW s \in Statuses, Answer(e, s), exec[e].pc # "idle",
         s = "completed" => moves[exec[e].req] > 0
  PROVE  CalmExec /\ CalmTold /\ exec'[e].pc \notin Carrying
<1>0. \A x \in Execs : exec[x] \in Exec
  BY DEF MovesInv, IInv, ExecInv, ExecShape
<1>1. exec'[e].pc \in {"idle", "stopped"}
  BY <1>0, AnswerIs, IdleShape, StoppedShape DEF MovesInv, IInv
<1>2. CalmTold
  BY DEF Answer, CalmTold, MovesInv, IInv, ToldShape, Counted
<1>3. ASSUME NEW x \in Execs \ {e}
      PROVE  /\ exec'[x].req = exec[x].req
             /\ \/ exec'[x].pc = exec[x].pc /\ exec'[x].answer = exec[x].answer
                \/ exec'[x].pc = "relay" /\ exec'[x].answer = s /\ exec[x].req = exec[e].req
  <2>1. CASE exec'[x] = Hears(exec[x], s) /\ exec[x].req = exec[e].req
    BY <2>1, <1>0, HearsShape
  <2>2. CASE exec'[x] = Forsaken(exec[x])
    BY <2>2, <1>0, ForsakenShape
  <2>3. CASE exec'[x] = exec[x]
    BY <2>3
  <2> QED BY <2>1, <2>2, <2>3, AnswerIs DEF MovesInv, IInv
<1>4. CalmExec
  BY <1>1, <1>3 DEF CalmExec, Carrying, Before, Terminal, MovesInv, Counted
<1> QED
  BY <1>1, <1>2, <1>4 DEF Carrying, Before, Terminal

(* An execution goes on without beginning to carry its request out.        *)
LEMMA GoingOnIsCalm ==
  ASSUME MovesInv, NEW e \in Execs, NEW r, exec'[e] = r,
         \A x \in Execs \ {e} : exec'[x] = exec[x],
         r.req = exec[e].req, r.pc # "relay",
         r.pc \in Carrying => exec[e].pc \in Carrying,
         r.pc \in Before => exec[e].pc \in Before,
         r.pc = "completed" => exec[e].pc = "completed"
  PROVE  CalmExec
BY DEF CalmExec, MovesInv, Counted

LEMMA GoToIsCalm ==
  ASSUME MovesInv, NEW e \in Execs, NEW pc \in Pcs, GoTo(e, pc), pc # "relay",
         pc \in Carrying => exec[e].pc \in Carrying,
         pc \in Before => exec[e].pc \in Before,
         pc = "completed" => exec[e].pc = "completed"
  PROVE  CalmExec
<1>1. exec[e] \in Exec
  BY DEF MovesInv, IInv, ExecInv, ExecShape
<1>2. exec'[e] = [exec[e] EXCEPT !.pc = pc] /\ \A x \in Execs \ {e} : exec'[x] = exec[x]
  BY GoToIs DEF MovesInv, IInv
<1>3. exec'[e].pc = pc /\ exec'[e].req = exec[e].req
  BY <1>1, <1>2, MovesOnShape
<1> QED
  BY <1>2, <1>3, GoingOnIsCalm

(* The steps that are not calm: a record begins, the lease moves, a record *)
(* expires or is deleted.                                                  *)
LEMMA CreateMoves == ASSUME MovesInv, IInv', NEW e \in Execs, Create(e) PROVE MovesInv'
<1> DEFINE q == exec[e].req
<1>0. /\ exec[e].pc = "create" /\ q \in Requests /\ exec[e] \in Exec
      /\ UNCHANGED <<expired, moves, before, struck, told>> /\ {"select", "existing"} \subseteq Pcs
  BY DEF Create, Executing, world, MovesInv, IInv, ExecInv, ExecShape, RequestKnown, Pcs
<1>1. \A x \in Execs : exec[x].pc # "idle" => exec[x].req \in Requests
  BY DEF MovesInv, IInv, ExecInv, RequestKnown
<1>4. \A x \in Execs : exec[x].pc \in Carrying =>
        /\ exec[x].req \in Requests
        /\ exec[x].req \notin struck => record[exec[x].req] \in Open
  BY <1>1 DEF MovesInv, Alone, Carrying, Before, Terminal
<1>2. CASE record[q] = "none" /\ record' = [record EXCEPT ![q] = "requested"] /\ GoTo(e, "select")
  <2>1. exec'[e] = [exec[e] EXCEPT !.pc = "select"] /\ \A x \in Execs \ {e} : exec'[x] = exec[x]
    BY <1>0, <1>2, GoToIs DEF MovesInv, IInv
  <2>2. exec'[e].pc = "select" /\ exec'[e].req = q
    BY <1>0, <2>1, MovesOnShape
  <2>3. record'[q] = "requested" /\ \A p \in Requests \ {q} : record'[p] = record[p]
    BY <1>0, <1>2 DEF MovesInv, IInv, RecordShape
  <2>4. q \notin struck => \A x \in Execs : exec[x].pc \in Carrying => exec[x].req # q
    BY <1>2 DEF MovesInv, Alone, Open
  <2>5. q \notin struck => moves[q] = before[q]
    BY <1>0, <1>2 DEF MovesInv, Counted
  <2>6. Alone'
    <3>1. ASSUME NEW x \in Execs, exec'[x].pc \in Carrying, exec'[x].req \notin struck
          PROVE  record'[exec'[x].req] \in Open
      <4>1. CASE x = e
        BY <4>1, <2>2, <2>3 DEF Open
      <4>2. CASE x # e
        BY <3>1, <4>2, <1>4, <2>1, <2>3, <2>4
      <4> QED BY <4>1, <4>2
    <3>2. q \notin struck =>
            \A x \in Execs \ {e} : exec'[x].pc \in Carrying => exec'[x].req # q
      BY <2>1, <2>4
    <3>3. \A x, y \in Execs \ {e} :
            /\ exec'[x].pc \in Carrying /\ exec'[y].pc \in Carrying
            /\ exec'[x].req = exec'[y].req /\ exec'[x].req \notin struck
            => x = y
      BY <2>1 DEF MovesInv, Alone
    <3> QED
      BY <1>0, <2>2, <3>1, <3>2, <3>3 DEF Alone
  <2>7. Counted'
    <3>1. \A p \in Requests :
            /\ before'[p] <= moves'[p]
            /\ p \notin struck' => moves'[p] <= before'[p] + 1
            /\ p \notin struck' /\ record'[p] = "none" => moves'[p] = before'[p]
            /\ record'[p] = "completed" => moves'[p] > before'[p]
            /\ p \in told' => moves'[p] > 0
      BY <1>0, <2>3 DEF MovesInv, Counted
    <3>2. ASSUME NEW x \in Execs
          PROVE
            /\ exec'[x].pc \in Before /\ exec'[x].req \notin struck'
                 => moves'[exec'[x].req] = before'[exec'[x].req]
            /\ exec'[x].pc = "completed" => moves'[exec'[x].req] > before'[exec'[x].req]
            /\ exec'[x].pc = "relay" /\ exec'[x].answer = "completed"
                 => moves'[exec'[x].req] > 0
      <4>1. CASE x = e
        BY <4>1, <1>0, <2>2, <2>5
      <4>2. CASE x # e
        <5>1. exec'[x] = exec[x]
          BY <4>2, <2>1
        <5> QED
          BY <5>1, <1>0 DEF MovesInv, Counted
      <4> QED BY <4>1, <4>2
    <3> QED BY <3>1, <3>2 DEF Counted
  <2>8. Past'
    <3> SUFFICES ASSUME NEW p \in expired'
                 PROVE  /\ record'[p] # "none"
                        /\ \A x \in Execs : exec'[x].req = p => exec'[x].pc \notin Carrying
      BY DEF Past
    <3>1. p \in expired /\ p \in Requests \ {q}
      BY <1>0, <1>2 DEF MovesInv, IInv, RecordShape, Past
    <3>2. record'[p] # "none"
      BY <3>1, <2>3 DEF MovesInv, Past
    <3>3. ASSUME NEW x \in Execs, exec'[x].req = p PROVE exec'[x].pc \notin Carrying
      <4>1. exec'[x] = exec[x]
        BY <3>1, <3>3, <2>1, <2>2
      <4> QED
        BY <3>1, <3>3, <4>1 DEF MovesInv, Past
    <3> QED
      BY <3>2, <3>3
  <2> QED
    BY <2>6, <2>7, <2>8 DEF MovesInv
<1>3. CASE record' \in {record, [record EXCEPT ![q] = "requested"]} /\ GoTo(e, "existing")
           /\ (record' = record \/ record[q] = "none")
  <2>1. CalmExec
    BY <1>0, <1>3, GoToIsCalm DEF Carrying, Before, Terminal
  <2>2. \A p \in Requests : record'[p] = record[p] \/ record'[p] = "requested"
    BY <1>3 DEF MovesInv, IInv, RecordShape
  <2>3. CalmRecord
    <3>1. \A p \in Requests :
            /\ record'[p] = "none" => record[p] = "none"
            /\ record'[p] = "completed" => moves[p] > before[p]
      BY <2>2 DEF MovesInv, Counted
    <3>2. \A x \in Execs :
            exec'[x].pc \in Carrying /\ exec'[x].req \notin struck
              => record'[exec'[x].req] \in Open
      BY <1>4, <2>1, <2>2 DEF CalmExec, Open
    <3> QED BY <1>0, <3>1, <3>2 DEF CalmRecord
  <2> QED
    BY <1>0, <2>1, <2>3, SameToldIsCalm, CalmKeeps DEF Calm
<1> QED
  BY <1>2, <1>3 DEF Create

LEMMA CommitMoves == ASSUME MovesInv, IInv', NEW e \in Execs, Commit(e) PROVE MovesInv'
<1> DEFINE q == exec[e].req
<1>0. /\ exec[e].pc = "commit" /\ q \in Requests /\ exec[e] \in Exec
      /\ UNCHANGED <<record, expired, before, struck, told>> /\ {"completed", "failed"} \subseteq Pcs
  BY DEF Commit, Executing, MovesInv, IInv, ExecInv, ExecShape, RequestKnown, Pcs, Terminal
<1>1. CASE moves' = [moves EXCEPT ![q] = @ + 1] /\ (GoTo(e, "completed") \/ GoTo(e, "failed"))
  <2>1. PICK pc \in {"completed", "failed"} : GoTo(e, pc)
    BY <1>1
  <2>2. exec'[e] = [exec[e] EXCEPT !.pc = pc] /\ \A x \in Execs \ {e} : exec'[x] = exec[x]
    BY <1>0, <2>1, GoToIs DEF MovesInv, IInv
  <2>3. exec'[e].pc = pc /\ exec'[e].req = q
    BY <1>0, <2>2, MovesOnShape
  <2>4. q \notin struck => moves[q] = before[q] /\ record[q] \in Open
    BY <1>0 DEF MovesInv, Alone, Counted, Carrying, Before
  <2>5. moves'[q] = moves[q] + 1 /\ \A p \in Requests \ {q} : moves'[p] = moves[p]
    BY <1>0, <1>1 DEF MovesInv, IInv, RecordShape
  <2>6. q \notin struck => \A x \in Execs \ {e} : exec[x].pc \in Carrying => exec[x].req # q
    BY <1>0 DEF MovesInv, Alone, Carrying
  <2>7. \A x \in Execs : exec[x].pc # "idle" => exec[x].req \in Requests
    BY DEF MovesInv, IInv, ExecInv, RequestKnown
  <2>8. \A x \in Execs :
          exec'[x].req = exec[x].req /\ (exec'[x].pc \in Carrying => exec[x].pc \in Carrying)
    BY <1>0, <2>2, <2>3 DEF Carrying
  <2>9. Alone' /\ Past'
    BY <1>0, <2>8 DEF MovesInv, Alone, Past
  <2>10. \A p \in Requests :
           /\ before'[p] <= moves'[p]
           /\ p \notin struck' => moves'[p] <= before'[p] + 1
           /\ p \notin struck' /\ record'[p] = "none" => moves'[p] = before'[p]
           /\ record'[p] = "completed" => moves'[p] > before'[p]
           /\ p \in told' => moves'[p] > 0
    <3> SUFFICES ASSUME NEW p \in Requests
                 PROVE  /\ before[p] <= moves'[p]
                        /\ p \notin struck => moves'[p] <= before[p] + 1
                        /\ p \notin struck /\ record[p] = "none" => moves'[p] = before[p]
                        /\ record[p] = "completed" => moves'[p] > before[p]
                        /\ p \in told => moves'[p] > 0
      BY <1>0
    <3>1. moves[p] \in Nat /\ before[p] \in Nat
      BY CountsAreNat
    <3>2. CASE p = q
      BY <3>1, <3>2, <2>4, <2>5 DEF MovesInv, Counted, Open
    <3>3. CASE p # q
      BY <3>3, <2>5 DEF MovesInv, Counted
    <3> QED BY <3>2, <3>3
  <2>11. ASSUME NEW x \in Execs
         PROVE
           /\ exec'[x].pc \in Before /\ exec'[x].req \notin struck'
                => moves'[exec'[x].req] = before'[exec'[x].req]
           /\ exec'[x].pc = "completed" => moves'[exec'[x].req] > before'[exec'[x].req]
           /\ exec'[x].pc = "relay" /\ exec'[x].answer = "completed"
                => moves'[exec'[x].req] > 0
    <3>1. moves[q] \in Nat /\ before[q] \in Nat /\ before[q] <= moves[q]
      BY <1>0, CountsAreNat DEF MovesInv, Counted
    <3>2. CASE x = e
      BY <3>1, <3>2, <1>0, <2>1, <2>3, <2>5 DEF Before
    <3>3. CASE x # e /\ exec[x].req = q
      <4>1. exec'[x] = exec[x]
        BY <3>3, <2>2
      <4>2. exec[x].pc \in Before => q \in struck
        BY <3>3, <2>6 DEF Carrying, Before
      <4> QED
        BY <3>1, <3>3, <4>1, <4>2, <1>0, <2>5 DEF MovesInv, Counted
    <3>4. CASE x # e /\ exec[x].req # q
      <4>1. exec'[x] = exec[x] /\ (exec[x].pc # "idle" => exec[x].req \in Requests \ {q})
        BY <3>4, <2>2, <2>7
      <4> QED
        BY <4>1, <1>0, <2>5 DEF MovesInv, Counted, Before
    <3> QED BY <3>2, <3>3, <3>4
  <2> QED
    BY <2>9, <2>10, <2>11 DEF MovesInv, Counted
<1>2. CASE UNCHANGED moves /\ GoTo(e, "failed")
  <2>1. CalmExec
    BY <1>0, <1>2, GoToIsCalm DEF Carrying, Before, Terminal
  <2> QED
    BY <1>0, <1>2, <2>1, SameToldIsCalm, SameRecordIsCalm, CalmKeeps DEF kept
<1> QED
  BY <1>1, <1>2 DEF Commit

LEMMA ExpireMoves == ASSUME MovesInv, IInv', NEW q \in Requests, Expire(q) PROVE MovesInv'
<1>1. /\ record[q] # "none" /\ expired' = expired \cup {q}
      /\ UNCHANGED <<record, moves, before, struck, told, exec>>
      /\ \A x \in Execs : exec[x].req = q => exec[x].pc \notin Carrying
  BY DEF Expire
<1>2. Alone' /\ Counted'
  BY <1>1 DEF MovesInv, Alone, Counted
<1>3. Past'
  BY <1>1 DEF MovesInv, Past
<1> QED
  BY <1>2, <1>3 DEF MovesInv

(* A deletion leaves a request that moved the lease as often as "before"   *)
(* says and that nobody carries out, or strikes a record that lives.       *)
LEMMA RemoveMoves ==
  ASSUME MovesInv, IInv', NEW q \in Requests, Remove(q), CalmExec, CalmTold PROVE MovesInv'
<1>1. /\ record'[q] = "none" /\ q \notin expired' /\ moves' = moves
      /\ \A p \in Requests \ {q} : record'[p] = record[p] /\ before'[p] = before[p]
      /\ before'[q] \in {before[q], moves[q]} /\ (q \notin expired => before'[q] = before[q])
      /\ expired' \subseteq expired /\ struck \subseteq struck' /\ struck' \subseteq struck \cup {q}
  BY DEF Remove, MovesInv, IInv, RecordShape
<1>2. q \notin struck' =>
        \/ record[q] = "none" /\ moves[q] = before'[q]
        \/ q \in expired /\ moves[q] = before'[q]
  BY DEF Remove, MovesInv, IInv, RecordShape, Counted
<1>3. \A x \in Execs : exec[x].pc # "idle" => exec[x].req \in Requests
  BY DEF MovesInv, IInv, ExecInv, RequestKnown
<1>4. ASSUME q \notin struck'
      PROVE  \A x \in Execs : exec[x].pc \in Carrying => exec[x].req # q
  BY <1>1, <1>2, <1>4 DEF MovesInv, Alone, Past, Open
<1>5. \A x \in Execs : exec'[x].pc \in Carrying =>
        /\ exec[x].pc \in Carrying /\ exec'[x].req = exec[x].req /\ exec[x].req \in Requests
        /\ exec[x].req \notin struck' => exec[x].req # q /\ exec[x].req \notin struck
  BY <1>1, <1>3, <1>4 DEF CalmExec, Carrying, Terminal
<1>6. Alone'
  BY <1>1, <1>5 DEF MovesInv, Alone
<1>7. Past'
  BY <1>1, <1>5 DEF MovesInv, IInv, RecordShape, Past
<1>8. ASSUME NEW p \in Requests
      PROVE  /\ before'[p] <= moves'[p]
             /\ p \notin struck' => moves'[p] <= before'[p] + 1
             /\ p \notin struck' /\ record'[p] = "none" => moves'[p] = before'[p]
             /\ record'[p] = "completed" => moves'[p] > before'[p]
             /\ p \in told' => moves'[p] > 0
  <2>1. moves[p] \in Nat /\ before[p] \in Nat /\ (p \in told' => moves[p] > 0)
    BY CountsAreNat DEF CalmTold
  <2>2. CASE p = q
    BY <2>1, <2>2, <1>1, <1>2 DEF MovesInv, Counted
  <2>3. CASE p # q
    BY <2>1, <2>3, <1>1 DEF MovesInv, Counted
  <2> QED BY <2>2, <2>3
<1>9. ASSUME NEW x \in Execs
      PROVE
        /\ exec'[x].pc \in Before /\ exec'[x].req \notin struck'
             => moves'[exec'[x].req] = before'[exec'[x].req]
        /\ exec'[x].pc = "completed" => moves'[exec'[x].req] > before'[exec'[x].req]
        /\ exec'[x].pc = "relay" /\ exec'[x].answer = "completed" => moves'[exec'[x].req] > 0
  <2>1. CASE exec'[x].pc \in Before /\ exec'[x].req \notin struck'
    <3>1. exec[x].pc \in Before /\ exec'[x].pc \in Carrying
      BY <2>1 DEF CalmExec, Carrying, Before
    <3> QED
      BY <2>1, <3>1, <1>1, <1>5 DEF MovesInv, Counted, Before
  <2>2. CASE exec'[x].pc = "completed"
    <3>1. exec[x].pc = "completed" /\ exec'[x].pc \in Carrying
      BY <2>2 DEF CalmExec, Carrying, Terminal
    <3>2. exec[x].req = q => q \notin expired
      BY <3>1, <1>5 DEF MovesInv, Past
    <3> QED
      BY <2>2, <3>1, <3>2, <1>1, <1>5 DEF MovesInv, Counted, Before
  <2>3. exec'[x].pc = "relay" /\ exec'[x].answer = "completed" => moves'[exec'[x].req] > 0
    BY <1>1 DEF CalmExec
  <2> QED BY <2>1, <2>2, <2>3 DEF Before
<1> QED
  BY <1>6, <1>7, <1>8, <1>9 DEF MovesInv, Counted

LEMMA SweepMoves == ASSUME MovesInv, IInv', NEW e \in Execs, Sweep(e) PROVE MovesInv'
<1>0. exec[e].pc \in {"sweep", "sweepAgain"} /\ exec[e].req \in Requests
        /\ "current" \in Pcs /\ "rejected" \in Statuses
  BY DEF Sweep, Executing, MovesInv, IInv, ExecInv, RequestKnown, Pcs, Statuses, Terminal
<1>1. CalmExec /\ CalmTold
  <2>1. CASE GoTo(e, "current") /\ UNCHANGED told
    BY <1>0, <2>1, GoToIsCalm, SameToldIsCalm DEF Carrying, Before, Terminal
  <2>2. CASE Answer(e, "rejected")
    BY <1>0, <2>2, AnswerIsCalm
  <2> QED BY <2>1, <2>2 DEF Sweep
<1>2. CASE Remove(exec[e].req)
  BY <1>0, <1>1, <1>2, RemoveMoves
<1>3. CASE UNCHANGED store
  BY <1>1, <1>3, SameRecordIsCalm, CalmKeeps DEF store, kept
<1> QED BY <1>2, <1>3 DEF Sweep

(* Every other step is calm.                                               *)
LEMMA RecordIsCalm == ASSUME MovesInv, NEW e \in Execs, Record(e) PROVE Calm
<1> DEFINE q == exec[e].req
<1>0. /\ UNCHANGED <<moves, before, struck>> /\ exec[e].pc \in Carrying /\ exec[e].pc # "idle"
      /\ q \in Requests /\ Terminal \subseteq Statuses
  BY DEF Record, Executing, MovesInv, IInv, ExecInv, RequestKnown, Carrying, Before,
         Terminal, Statuses
<1>1. \A x \in Execs : exec[x].pc # "idle" => exec[x].req \in Requests
  BY DEF MovesInv, IInv, ExecInv, RequestKnown
<1>2. \A s \in Statuses : Update(q, s) =>
        /\ record'[q] \in {record[q], s}
        /\ \A p \in Requests \ {q} : record'[p] = record[p]
        /\ expired' \subseteq expired
  BY <1>0 DEF Update, Write, MovesInv, IInv, RecordShape
<1>3. CASE \E s \in {"preparing", "committing"} :
             /\ Update(q, s) /\ UNCHANGED told /\ exec[e].pc = s
             /\ GoTo(e, IF s = "preparing" THEN "prepare" ELSE "verify")
  <2>1. PICK s \in {"preparing", "committing"} :
             /\ Update(q, s) /\ UNCHANGED told /\ exec[e].pc = s
             /\ GoTo(e, IF s = "preparing" THEN "prepare" ELSE "verify")
    BY <1>3
  <2>2. CalmExec
    BY <2>1, GoToIsCalm DEF Carrying, Before, Terminal, Pcs
  <2>3. /\ \A p \in Requests : record'[p] = record[p] \/ record'[p] \in Open \ {"requested"}
        /\ expired' \subseteq expired
    BY <1>2, <2>1 DEF Open, Statuses
  <2>4. CalmRecord
    BY <1>1, <2>2, <2>3 DEF CalmRecord, CalmExec, MovesInv, Counted, Alone, Open, Carrying,
                            Before, Terminal
  <2> QED
    BY <1>0, <2>1, <2>2, <2>4, SameToldIsCalm DEF Calm
<1>4. CASE \E s \in Terminal : Executing(e, s) /\ Update(q, s) /\ Answer(e, s)
  <2>1. PICK s \in Terminal : Executing(e, s) /\ Update(q, s) /\ Answer(e, s)
    BY <1>4
  <2>2. s = "completed" => moves[q] > before[q] /\ moves[q] > 0
    BY <1>0, <2>1, CountsAreNat DEF Executing, MovesInv, Counted
  <2>3. CalmExec /\ CalmTold /\ exec'[e].pc \notin Carrying
    BY <1>0, <2>1, <2>2, AnswerIsCalm
  <2>4. expired' \subseteq expired /\ \A p \in Requests \ {q} : record'[p] = record[p]
    BY <1>0, <1>2, <2>1
  <2>5. record'[q] \in {record[q], s} /\ s # "none"
    BY <1>0, <1>2, <2>1 DEF Terminal
  <2>6. \A x \in Execs : exec'[x].pc \in Carrying /\ exec'[x].req \notin struck =>
          /\ exec'[x].req = exec[x].req /\ exec[x].req \in Requests \ {q}
          /\ record[exec[x].req] \in Open
    BY <1>0, <1>1, <2>3 DEF CalmExec, MovesInv, Alone, Carrying, Before, Terminal
  <2>7. CalmRecord
    <3>1. \A p \in Requests :
            /\ record'[p] = "none" => record[p] = "none"
            /\ record'[p] = "completed" => moves[p] > before[p]
      BY <2>2, <2>4, <2>5 DEF MovesInv, Counted
    <3>2. \A x \in Execs :
            exec'[x].pc \in Carrying /\ exec'[x].req \notin struck
              => record'[exec'[x].req] \in Open
      BY <2>4, <2>6
    <3> QED BY <2>4, <3>1, <3>2 DEF CalmRecord
  <2> QED
    BY <1>0, <2>3, <2>7 DEF Calm
<1> QED
  BY <1>3, <1>4 DEF Record, Executing

LEMMA StepMoves ==
  ASSUME MovesInv, IInv', NEW e \in Execs, Step(e) \/ TimeOut(e) PROVE MovesInv'
<1>0. /\ exec[e] \in Exec
      /\ exec[e].pc # "idle" => exec[e].req \in Requests
      /\ \A q \in Requests : record[q] \in Statuses \cup {"none"}
      /\ "rejected" \in Statuses
  BY DEF MovesInv, IInv, ExecInv, ExecShape, RequestKnown, RecordShape, Statuses, Terminal
<1>1. ASSUME CalmExec, CalmTold, UNCHANGED store PROVE MovesInv'
  BY <1>1, SameRecordIsCalm, CalmKeeps DEF store, kept
<1>2. ASSUME NEW s \in Statuses, Answer(e, s), exec[e].pc # "idle",
             s = "completed" => moves[exec[e].req] > 0, UNCHANGED store
      PROVE  MovesInv'
  BY <1>1, <1>2, AnswerIsCalm
<1>3. ASSUME CalmExec, UNCHANGED <<store, told>> PROVE MovesInv'
  BY <1>1, <1>3, SameToldIsCalm
<1>4. ASSUME Known(e), exec[e].pc # "idle", UNCHANGED store PROVE MovesInv'
  <2>1. record[exec[e].req] = "completed" => moves[exec[e].req] > 0
    BY <1>0, <1>4, CountsAreNat DEF MovesInv, Counted
  <2> QED
    BY <1>0, <1>2, <1>4, <2>1 DEF Known
<1>5. ASSUME Answer(e, "rejected"), exec[e].pc # "idle", UNCHANGED store
      PROVE  MovesInv'
  BY <1>0, <1>2, <1>5
<1>10. CASE Lookup(e)
  <2>1. CASE GoTo(e, "current") /\ UNCHANGED told
    <3>1. CalmExec
      BY <2>1, GoToIsCalm DEF Pcs, Carrying, Before, Terminal
    <3> QED
      BY <2>1, <3>1, <1>3, <1>10 DEF Lookup
  <2>2. CASE ReadExpired(e, "sweep")
    <3>1. CalmExec
      BY <2>2, GoToIsCalm DEF ReadExpired, Pcs, Carrying, Before, Terminal
    <3> QED
      BY <2>2, <3>1, <1>3, <1>10 DEF Lookup, ReadExpired
  <2> QED
    BY <2>1, <2>2, <1>4, <1>10 DEF Lookup, Executing
<1>9. CASE Sweep(e)
  BY <1>9, SweepMoves
<1>11. CASE ReadLease(e)
  <2> DEFINE mine == lease.owner = exec[e].at
             r == [exec[e] EXCEPT !.pc = IF mine THEN "create" ELSE "forward",
                                  !.gen = IF mine THEN lease.generation ELSE 0,
                                  !.to = IF mine THEN NoAgent ELSE lease.owner]
  <2>1. CASE exec' = [exec EXCEPT ![e].pc = IF mine THEN "create" ELSE "forward",
                                ![e].gen = IF mine THEN lease.generation ELSE 0,
                                ![e].to = IF mine THEN NoAgent ELSE lease.owner]
             /\ UNCHANGED told
    <3>1. r.pc \in {"create", "forward"} /\ r.req = exec[e].req
      BY <1>0 DEF Exec
    <3>2. exec'[e] = r /\ \A x \in Execs \ {e} : exec'[x] = exec[x]
      BY <2>1 DEF MovesInv, IInv, ExecInv, ExecShape
    <3> HIDE DEF r
    <3>3. CalmExec
      BY <3>1, <3>2, GoingOnIsCalm DEF Carrying, Before, Terminal
    <3> QED
      BY <2>1, <3>3, <1>3, <1>11 DEF ReadLease
  <2> QED
    BY <2>1, <1>5, <1>11 DEF ReadLease, Executing
<1>12. CASE Forward(e)
  <2>1. CASE /\ Free # {} /\ UNCHANGED told
             /\ exec' = [exec EXCEPT ![e].pc = "wait",
                                     ![AFree] = Started(exec[e].to, exec[e].req, e)]
    <3>1. exec[e].pc = "forward" /\ exec[e].to \in Agents
      BY <1>12 DEF Forward, Executing, MovesInv, IInv, ExecInv, RequestKnown
    <3>2. /\ exec'[AFree] = Started(exec[e].to, exec[e].req, e)
          /\ exec'[e] = [exec[e] EXCEPT !.pc = "wait"]
          /\ \A x \in Execs \ {e, AFree} : exec'[x] = exec[x]
      BY <2>1, <3>1, ForwardsIs DEF MovesInv, IInv
    <3>3. exec'[AFree].pc = "lookup" /\ exec'[e].pc = "wait"
      BY <1>0, <3>1, <3>2, StartedShape, MovesOnShape DEF Callers, Pcs
    <3>4. CalmExec
      BY <3>2, <3>3 DEF CalmExec, MovesInv, Counted, Carrying, Before, Terminal
    <3> QED
      BY <2>1, <3>4, <1>3, <1>12 DEF Forward
  <2> QED
    BY <2>1, <1>5, <1>12 DEF Forward, Executing
<1>13. CASE Relay(e)
  <2>1. exec[e].answer \in Statuses
    BY <1>0 DEF Exec
  <2>2. exec[e].answer = "completed" => moves[exec[e].req] > 0
    BY <1>13 DEF Relay, Executing, MovesInv, Counted
  <2> QED
    BY <2>1, <2>2, <1>2, <1>13 DEF Relay, Executing
<1>14. CASE Create(e)
  BY <1>14, CreateMoves
<1>15. CASE Existing(e)
  <2>1. CASE ReadExpired(e, "sweepAgain")
    <3>1. CalmExec
      BY <2>1, GoToIsCalm DEF ReadExpired, Pcs, Carrying, Before, Terminal
    <3> QED
      BY <2>1, <3>1, <1>3, <1>15 DEF Existing, ReadExpired
  <2> QED
    BY <2>1, <1>4, <1>5, <1>15 DEF Existing, Executing
<1>16. CASE Select(e)
  <2>1. CASE \E b \in Agents : exec' = [exec EXCEPT ![e].pc = "preparing", ![e].to = b]
    <3> PICK b \in Agents : exec' = [exec EXCEPT ![e].pc = "preparing", ![e].to = b]
      BY <2>1
    <3> DEFINE r == [exec[e] EXCEPT !.pc = "preparing", !.to = b]
    <3>1. r.pc = "preparing" /\ r.req = exec[e].req
      BY <1>0 DEF Exec
    <3>2. exec'[e] = r /\ \A x \in Execs \ {e} : exec'[x] = exec[x]
      BY <2>1 DEF MovesInv, IInv, ExecInv, ExecShape
    <3> HIDE DEF r
    <3>3. CalmExec
      BY <3>1, <3>2, <1>16, GoingOnIsCalm DEF Select, Executing, Carrying, Before, Terminal
    <3> QED
      BY <3>3, <1>3, <1>16 DEF Select
  <2>2. CASE GoTo(e, "rejected")
    <3>1. CalmExec
      BY <2>2, <1>16, GoToIsCalm DEF Select, Executing, Pcs, Carrying, Before, Terminal
    <3> QED
      BY <3>1, <1>3, <1>16 DEF Select
  <2> QED BY <2>1, <2>2, <1>16 DEF Select
<1>17. CASE Record(e)
  BY <1>17, RecordIsCalm, CalmKeeps
<1>18. CASE Prepare(e)
  <2>1. CalmExec
    BY <1>18, GoToIsCalm DEF Prepare, Executing, Pcs, Carrying, Before, Terminal
  <2> QED
    BY <2>1, <1>3, <1>18 DEF Prepare
<1>19. CASE Verify(e)
  <2>1. CalmExec
    BY <1>19, GoToIsCalm DEF Verify, Executing, Pcs, Carrying, Before, Terminal
  <2> QED
    BY <2>1, <1>3, <1>19 DEF Verify
<1>20. CASE Lock(e)
  <2>1. CalmExec
    BY <1>20, GoToIsCalm DEF Lock, Executing, Pcs, Carrying, Before, Terminal
  <2> QED
    BY <2>1, <1>3, <1>20 DEF Lock
<1>21. CASE Commit(e)
  BY <1>21, CommitMoves
<1>22. CASE TimeOut(e)
  BY <1>22, <1>5 DEF TimeOut, Executing
<1> QED
  BY <1>9, <1>10, <1>11, <1>12, <1>13, <1>14, <1>15, <1>16, <1>17, <1>18, <1>19, <1>20,
     <1>21, <1>22 DEF Step

(* A step after which every execution stands where it stood, has just      *)
(* begun or ended, or has heard that its request failed.                   *)
LEMMA QuietIsCalm ==
  ASSUME MovesInv, IInv', UNCHANGED <<kept, told>>,
         \A x \in Execs :
           \/ exec'[x].pc \in {"idle", "lookup"}
           \/ /\ exec'[x].req = exec[x].req
              /\ \/ exec'[x].pc = exec[x].pc /\ exec'[x].answer = exec[x].answer
                 \/ exec'[x].pc = "relay" /\ exec'[x].answer = "rejected"
  PROVE  MovesInv'
<1>1. CalmExec
  BY DEF CalmExec, MovesInv, Counted, Carrying, Before, Terminal
<1> QED
  BY <1>1, SameToldIsCalm, SameRecordIsCalm, CalmKeeps

LEMMA MovesStep == MovesInv /\ [Next]_vars => MovesInv'
<1> SUFFICES ASSUME MovesInv, [Next]_vars PROVE MovesInv'
  OBVIOUS
<1>0. ExecInv /\ IInv'
  BY InvariantStep DEF MovesInv, IInv
<1>1. ASSUME NEW e \in Execs, Step(e) \/ TimeOut(e) PROVE MovesInv'
  BY <1>0, <1>1, StepMoves
<1>2. ASSUME NEW e \in Execs, Exit(e) PROVE MovesInv'
  <2>1. UNCHANGED <<kept, told>> /\ exec[e].pc = "stopped"
          /\ exec[e].at \in Agents \cup {NoAgent}
    BY <1>0, <1>2 DEF store, kept, Exit, Executing, ExecInv, ExecShape, Exec
  <2>2. CASE exec' = [exec EXCEPT ![e] = Idle]
    BY <1>0, <2>1, <2>2, BecomesIdle, IdleShape, QuietIsCalm
  <2>3. CASE EndProcess(exec[e].at)
    BY <1>0, <2>1, <2>3, EndProcessIs, IdleShape, QuietIsCalm
  <2> QED BY <1>2, <2>2, <2>3 DEF Exit
<1>3. ASSUME NEW a \in Agents, NEW q \in Requests, Call(a, q) \/ Notice(a, q) PROVE MovesInv'
  <2>1. PICK c \in {"client", "stop"} :
          /\ Free # {} /\ exec' = [exec EXCEPT ![AFree] = Started(a, q, c)]
          /\ UNCHANGED <<kept, told>>
    BY <1>3 DEF store, kept, Call, Notice, AskToLeave
  <2>2. /\ exec'[AFree] = Started(a, q, c)
        /\ \A x \in Execs \ {AFree} : exec'[x] = exec[x]
    BY <1>0, <2>1, StartsIs
  <2>3. exec'[AFree].pc = "lookup"
    BY <2>2, StartedShape DEF Callers
  <2> QED
    BY <1>0, <2>1, <2>2, <2>3, QuietIsCalm
<1>4. ASSUME NEW a \in Agents, NEW q \in Requests, Signal(a, q) PROVE MovesInv'
  <2>1. exec'[AFree].pc = "lookup"
    BY <1>0, <1>4, SignalIs, StartedShape DEF Callers
  <2>2. UNCHANGED <<kept, told>>
    BY <1>4 DEF store, kept, Signal, AskToLeave
  <2> QED
    BY <1>0, <1>4, <2>1, <2>2, SignalIs, QuietIsCalm
<1>5. ASSUME NEW a \in Agents, Crash(a) PROVE MovesInv'
  BY <1>0, <1>5, EndProcessIs, IdleShape, QuietIsCalm DEF store, kept, Crash
<1>6. ASSUME NEW a \in Agents, Restart(a) \/ TakeOver(a) PROVE MovesInv'
  BY <1>0, <1>6, QuietIsCalm DEF store, kept, Restart, TakeOver
<1>7. ASSUME NEW q \in Requests, Expire(q) PROVE MovesInv'
  BY <1>0, <1>7, ExpireMoves
<1>9. ASSUME NEW q \in Requests, List(q) PROVE MovesInv'
  BY <1>0, <1>9, QuietIsCalm DEF kept, List
<1>10. ASSUME NEW q \in Requests, SweepListed(q) PROVE MovesInv'
  <2>1. UNCHANGED <<exec, told>>
    BY <1>10 DEF SweepListed
  <2>2. CalmExec /\ CalmTold
    BY <2>1, SameToldIsCalm DEF MovesInv, Counted, CalmExec
  <2>3. CASE Remove(q)
    BY <1>0, <2>2, <2>3, RemoveMoves
  <2>4. CASE UNCHANGED kept
    BY <1>0, <2>1, <2>4, QuietIsCalm
  <2> QED BY <1>10, <2>3, <2>4 DEF SweepListed, kept
<1>8. CASE UNCHANGED vars
  BY <1>0, <1>8, QuietIsCalm DEF kept, vars
<1> QED
  BY <1>1, <1>2, <1>3, <1>4, <1>5, <1>6, <1>7, <1>8, <1>9, <1>10 DEF Next

LEMMA InitMoves == Init => MovesInv
<1> SUFFICES ASSUME Init PROVE MovesInv
  OBVIOUS
<1>1. \A x \in Execs : exec[x].pc = "idle"
  BY IdleShape DEF Init
<1>2. Alone
  BY <1>1 DEF Alone, Carrying, Before, Terminal
<1>3. Counted
  BY <1>1 DEF Init, Counted, Before
<1>4. Past
  BY DEF Init, Past
<1> QED
  BY <1>2, <1>3, <1>4, InitInvariant DEF MovesInv

LEMMA MovesInvariant == Spec => []MovesInv
BY InitMoves, MovesStep, PTL DEF Spec

(* For any number of agents, clients and retries: a request moves the      *)
(* lease at most once until its record has expired and is deleted, as long *)
(* as no late deletion strikes a record that has not expired.              *)
THEOREM MovesAtMostOnce == Spec => []AtMostOnce
<1>1. MovesInv => AtMostOnce
  BY DEF MovesInv, Counted, AtMostOnce
<1> QED
  BY <1>1, MovesInvariant, PTL

(* Whoever reads "completed", in a record or in an answer, can rely on it, *)
(* late deletions or not.                                                  *)
THEOREM CompletedCanBeTrusted == Spec => []CompletedIsTrue
<1>1. MovesInv => CompletedIsTrue
  BY DEF MovesInv, Counted, CompletedIsTrue
<1> QED
  BY <1>1, MovesInvariant, PTL

(* No second execution gets hold of the record of a request that is over.  *)
LEMMA TerminalStep ==
  ASSUME MovesInv, [Next]_vars
  PROVE  \A q \in Requests \ struck' :
           record[q] \in Terminal =>
             record'[q] = record[q] \/ (q \in expired /\ record'[q] = "none")
<1> SUFFICES ASSUME NEW q \in Requests \ struck', record[q] \in Terminal
             PROVE  record'[q] = record[q] \/ (q \in expired /\ record'[q] = "none")
  OBVIOUS
<1>0. record \in [Requests -> Statuses \cup {"none"}] /\ record[q] \notin Open \cup {"none"}
  BY DEF MovesInv, IInv, RecordShape, Open, Terminal
<1>1. CASE UNCHANGED record
  BY <1>1
<1>2. ASSUME NEW e \in Execs, Create(e) PROVE record'[q] = record[q]
  BY <1>0, <1>2 DEF Create
<1>3. ASSUME NEW e \in Execs, Record(e) PROVE record'[q] = record[q]
  <2>1. exec[e].pc \in Carrying /\ struck' = struck
    BY <1>3 DEF Record, Executing, Carrying
  <2>2. exec[e].req # q
    BY <1>0, <2>1 DEF MovesInv, Alone
  <2> QED
    BY <1>0, <1>3, <2>2 DEF Record, Update, Write
<1>4. ASSUME NEW p \in Requests, Remove(p)
      PROVE  record'[q] = record[q] \/ (q \in expired /\ record'[q] = "none")
  <2>1. CASE p = q
    BY <1>0, <1>4, <2>1 DEF Remove
  <2>2. CASE p # q
    BY <1>0, <1>4, <2>2 DEF Remove
  <2> QED BY <2>1, <2>2
<1>5. ASSUME NEW e \in Execs, Step(e) \/ TimeOut(e) \/ Exit(e)
      PROVE  UNCHANGED record \/ Create(e) \/ Record(e) \/ Sweep(e)
  BY <1>5 DEF Step, Lookup, ReadLease, Forward, Relay, Existing, Select, Prepare, Verify,
              Lock, Commit, TimeOut, Exit, store
<1>6. ASSUME NEW e \in Execs, Sweep(e)
      PROVE  UNCHANGED record \/ \E p \in Requests : Remove(p)
  <2>1. exec[e].req \in Requests
    BY <1>6 DEF Sweep, Executing, MovesInv, IInv, ExecInv, RequestKnown
  <2> QED
    BY <1>6, <2>1 DEF Sweep, store
<1>7. ASSUME NEW a \in Agents,
             \/ \E p \in Requests : Call(a, p) \/ Notice(a, p) \/ Signal(a, p)
             \/ Crash(a) \/ Restart(a) \/ TakeOver(a)
      PROVE  UNCHANGED record
  BY <1>7 DEF Call, Notice, Signal, AskToLeave, Crash, Restart, TakeOver, store
<1>8. ASSUME NEW p \in Requests, Expire(p) \/ List(p) \/ SweepListed(p)
      PROVE  UNCHANGED record \/ Remove(p)
  BY <1>8 DEF Expire, List, SweepListed
<1>9. CASE UNCHANGED vars
  BY <1>9 DEF vars
<1> QED
  BY <1>1, <1>2, <1>3, <1>4, <1>5, <1>6, <1>7, <1>8, <1>9 DEF Next

(* What a record says once its request is over, it says until it expires   *)
(* and is deleted, but for a late deletion.                                *)
THEOREM TerminalStays == Spec => TerminalIsFinal
<1>1. MovesInv /\ [Next]_vars =>
        [\A q \in Requests \ struck' :
           record[q] \in Terminal =>
             record'[q] = record[q] \/ (q \in expired /\ record'[q] = "none")]_vars
  BY TerminalStep
<1> QED
  BY <1>1, MovesInvariant, PTL DEF Spec, TerminalIsFinal

=============================================================================

------------------------- MODULE GcpGatewayProofs -------------------------
(***************************************************************************)
(* Proofs about GcpGateway, for any number of instances and any bounds.    *)
(***************************************************************************)
EXTENDS GcpGateway, SequenceTheorems, TLAPS

(* The calls of a sequence, and that those of A come before those of B.    *)
Elements(s) == {s[i] : i \in DOMAIN s}
Precedes(s, A, B) == \A i, j \in DOMAIN s : i < j => ~ (s[i] \in B /\ s[j] \in A)

OfGateway == {c \in CallType : c.what \in GatewayParts}
OfOthers == CallType \ OfGateway
Starts == {c \in CallType : c.do = "insert" /\ c.what \in {"instance", "group"}}
Stops == {c \in CallType : c.do = "delete" /\ c.what \in {"instance", "group"}}
Makes(x) == {c \in CallType : (c.do = "ensure" /\ c.what = x) \/ (c.do = "bind" /\ x = "binding")}
Removes(x) ==
  {c \in CallType : (c.do = "delete" /\ c.what = x) \/ (c.do = "unbind" /\ x = "binding")}
StopsInstance(i) ==
  {c \in CallType : c.do = "delete" /\ (c.what = "group" \/ (c.what = "instance" /\ c.slot = i))}

CreateCalls ==
  {c \in CallType : \/ c.do \in {"read", "bind"} /\ c.what = "policy"
                    \/ c.do = "ensure" /\ c.what \in {"database", "account", "role"}
                    \/ c.do = "await" /\ c.what \in GatewayParts
                    \/ /\ c.do = "insert" /\ c.what \in GatewayParts
                       /\ c.what = "instance" => c.slot \in Slots
                       /\ c.what \in {"template", "group"} => repair = "mig"}
RemoveCalls ==
  {c \in CallType : \/ c.do \in {"read", "unbind"} /\ c.what = "policy"
                    \/ c.do = "delete"}

Store == {"database", "role", "binding"}
NoInstances == instances = {} /\ "group" \notin exists

(* Nothing is asked to go that the gateway does not manage itself.         *)
SparesGiven ==
  job # NoJob => \A c \in Elements(job.todo), x \in Given : c \notin Removes(x)

(* The calls of a create: first what others use as well, then the gateway  *)
(* itself; what its agents need is made before its instances.              *)
CreateShape ==
  job.kind = "create" =>
    /\ Elements(job.todo) \subseteq CreateCalls
    /\ ~ job.failed
    /\ Precedes(job.todo, OfOthers, OfGateway)
    /\ ~ lost /\ Elements(job.todo) \cap OfOthers # {} => NoInstances
    /\ ~ lost => \A x \in Store \ exists :
         /\ Precedes(job.todo, Makes(x), Starts)
         /\ Elements(job.todo) \cap Starts # {} => Elements(job.todo) \cap Makes(x) # {}

(* An undo that knows of everything finds no instances.                    *)
UndoShape ==
  job.kind = "undo" =>
    /\ Elements(job.todo) \subseteq RemoveCalls
    /\ ~ job.failed
    /\ ~ lost => NoInstances

(* A destroy that met no error still has to remove all that is left; the   *)
(* gateway goes before what its agents need, and the route after them.     *)
DeleteShape ==
  job.kind = "delete" =>
    /\ managed
    /\ Elements(job.todo) \subseteq RemoveCalls
    /\ ~ job.failed =>
         /\ \A x \in exists \ (Given \cup Kept) : Elements(job.todo) \cap Removes(x) # {}
         /\ \A i \in instances : Elements(job.todo) \cap StopsInstance(i) # {}
         /\ Precedes(job.todo, OfGateway, OfOthers)
         /\ Precedes(job.todo, Stops, Removes("route"))
         /\ Elements(job.todo) \cap Stops # {} => Elements(job.todo) \cap Removes("route") # {}

(* What holds between the operations as well.                              *)
KnownIsSafe ==
  ~ lost =>
    /\ Store \subseteq exists \/ NoInstances
    /\ job = NoJob /\ ~ managed => NoInstances

Unmanaged == repair = "unmanaged" => exists \cap {"template", "group"} = {}

IInv ==
  /\ GcpTypeOK /\ SharedIsKept /\ SparesGiven /\ Unmanaged
  /\ CreateShape /\ UndoShape /\ DeleteShape /\ KnownIsSafe

-----------------------------------------------------------------------------
(* Sequences of calls.                                                     *)
LEMMA ElementsOfEmpty ==
  <<>> \in Seq(CallType) /\ Elements(<<>>) = {} /\ (\A A, B : Precedes(<<>>, A, B))
BY DEF Elements, Precedes

LEMMA ElementsOfConcat ==
  ASSUME NEW s \in Seq(CallType), NEW t \in Seq(CallType)
  PROVE  s \o t \in Seq(CallType) /\ Elements(s \o t) = Elements(s) \cup Elements(t)
<1>1. /\ s \o t \in Seq(CallType) /\ Len(s \o t) = Len(s) + Len(t)
      /\ \A i \in 1 .. Len(s) + Len(t) :
           (s \o t)[i] = IF i <= Len(s) THEN s[i] ELSE t[i - Len(s)]
  BY ConcatProperties
<1>2. ASSUME NEW c \in Elements(s) \cup Elements(t)
      PROVE  c \in Elements(s \o t)
  <2>1. CASE c \in Elements(s)
    BY <1>1, <2>1 DEF Elements
  <2>2. CASE c \in Elements(t)
    <3>1. PICK i \in 1 .. Len(t) : c = t[i]
      BY <2>2 DEF Elements
    <3>2. /\ Len(s) + i \in 1 .. Len(s) + Len(t) /\ ~ (Len(s) + i <= Len(s))
          /\ Len(s) + i - Len(s) = i
      OBVIOUS
    <3>3. (s \o t)[Len(s) + i] = t[i] /\ Len(s) + i \in DOMAIN (s \o t)
      BY <1>1, <3>2
    <3> QED
      BY <3>1, <3>3 DEF Elements
  <2> QED
    BY <1>2, <2>1, <2>2
<1>3. ASSUME NEW c \in Elements(s \o t)
      PROVE  c \in Elements(s) \cup Elements(t)
  <2>1. PICK i \in 1 .. Len(s) + Len(t) : c = (s \o t)[i]
    BY <1>1, <1>3 DEF Elements
  <2>2. CASE i <= Len(s)
    BY <1>1, <2>1, <2>2 DEF Elements
  <2>3. CASE i > Len(s)
    <3>1. i - Len(s) \in 1 .. Len(t) /\ c = t[i - Len(s)]
      BY <1>1, <2>1, <2>3
    <3> QED
      BY <3>1 DEF Elements
  <2> QED
    BY <2>2, <2>3
<1> QED
  BY <1>1, <1>2, <1>3

LEMMA PrecedesInConcat ==
  ASSUME NEW s \in Seq(CallType), NEW t \in Seq(CallType), NEW A, NEW B,
         Precedes(s, A, B), Precedes(t, A, B),
         Elements(s) \cap B = {} \/ Elements(t) \cap A = {}
  PROVE  Precedes(s \o t, A, B)
<1>1. /\ s \o t \in Seq(CallType) /\ Len(s \o t) = Len(s) + Len(t)
      /\ \A i \in 1 .. Len(s) + Len(t) :
           (s \o t)[i] = IF i <= Len(s) THEN s[i] ELSE t[i - Len(s)]
  BY ConcatProperties
<1> SUFFICES ASSUME NEW i \in 1 .. Len(s) + Len(t), NEW j \in 1 .. Len(s) + Len(t), i < j
             PROVE  ~ ((s \o t)[i] \in B /\ (s \o t)[j] \in A)
  BY <1>1 DEF Precedes
<1>2. CASE j <= Len(s)
  BY <1>1, <1>2 DEF Precedes
<1>3. CASE i > Len(s)
  BY <1>1, <1>3 DEF Precedes
<1>4. CASE i <= Len(s) /\ j > Len(s)
  BY <1>1, <1>4 DEF Elements
<1> QED
  BY <1>2, <1>3, <1>4

LEMMA HeadAndTail ==
  ASSUME NEW s \in Seq(CallType), s # <<>>
  PROVE  /\ Head(s) \in CallType /\ Tail(s) \in Seq(CallType)
         /\ Elements(s) = {Head(s)} \cup Elements(Tail(s))
         /\ \A A, B : Precedes(s, A, B) =>
              /\ Precedes(Tail(s), A, B)
              /\ Head(s) \in B => Elements(Tail(s)) \cap A = {}
<1>1. /\ Len(s) \in Nat \ {0} /\ DOMAIN s = 1 .. Len(s) /\ Head(s) = s[1]
      /\ Head(s) \in CallType /\ Tail(s) \in Seq(CallType) /\ Len(Tail(s)) = Len(s) - 1
      /\ DOMAIN Tail(s) = 1 .. Len(s) - 1
      /\ \A i \in 1 .. Len(s) - 1 : Tail(s)[i] = s[i + 1]
  BY HeadTailProperties, EmptySeq, LenProperties
<1>2. Elements(s) = {Head(s)} \cup Elements(Tail(s))
  <2>1. ASSUME NEW c \in Elements(s) PROVE c \in {Head(s)} \cup Elements(Tail(s))
    <3>1. PICK i \in 1 .. Len(s) : c = s[i]
      BY <1>1, <2>1 DEF Elements
    <3>2. CASE i # 1
      <4>1. i - 1 \in 1 .. Len(s) - 1 /\ Tail(s)[i - 1] = s[i]
        BY <1>1, <3>2
      <4> QED
        BY <1>1, <3>1, <4>1 DEF Elements
    <3> QED
      BY <1>1, <3>1, <3>2
  <2>2. Head(s) \in Elements(s)
    BY <1>1 DEF Elements
  <2>3. Elements(Tail(s)) \subseteq Elements(s)
    BY <1>1 DEF Elements
  <2> QED
    BY <2>1, <2>2, <2>3
<1>3. ASSUME NEW A, NEW B, Precedes(s, A, B)
      PROVE  /\ Precedes(Tail(s), A, B)
             /\ Head(s) \in B => Elements(Tail(s)) \cap A = {}
  <2>1. Precedes(Tail(s), A, B)
    <3> SUFFICES ASSUME NEW i \in 1 .. Len(s) - 1, NEW j \in 1 .. Len(s) - 1, i < j
                 PROVE  ~ (Tail(s)[i] \in B /\ Tail(s)[j] \in A)
      BY <1>1 DEF Precedes
    <3>1. /\ i + 1 \in DOMAIN s /\ j + 1 \in DOMAIN s /\ i + 1 < j + 1
          /\ Tail(s)[i] = s[i + 1] /\ Tail(s)[j] = s[j + 1]
      BY <1>1
    <3> QED
      BY <1>3, <3>1 DEF Precedes
  <2>2. ASSUME Head(s) \in B, NEW c \in Elements(Tail(s)) PROVE c \notin A
    <3>1. PICK i \in 1 .. Len(s) - 1 : c = s[i + 1]
      BY <1>1, <2>2 DEF Elements
    <3>2. 1 \in DOMAIN s /\ i + 1 \in DOMAIN s /\ 1 < i + 1
      BY <1>1
    <3> QED
      BY <1>1, <1>3, <2>2, <3>1, <3>2 DEF Precedes
  <2> QED
    BY <2>1, <2>2
<1> QED
  BY <1>1, <1>2, <1>3

-----------------------------------------------------------------------------
(* The sequences of the operations.                                        *)
Call(do, what) == [do |-> do, what |-> what, slot |-> 0]

LEMMA CallsElements ==
  ASSUME NEW do, NEW n \in Nat, NEW whats, DOMAIN whats = 1 .. n,
         \A i \in 1 .. n : Call(do, whats[i]) \in CallType
  PROVE  /\ Calls(do, whats) \in Seq(CallType) /\ DOMAIN Calls(do, whats) = 1 .. n
         /\ \A i \in 1 .. n : Calls(do, whats)[i] = Call(do, whats[i])
<1>1. Calls(do, whats) \in [1 .. n -> CallType]
  BY DEF Calls, Call
<1>2. Calls(do, whats) \in Seq(CallType)
  BY <1>1, IsASeq
<1> QED
  BY <1>1, <1>2 DEF Calls, Call

LEMMA OneCall ==
  ASSUME NEW do, NEW w, Call(do, w) \in CallType
  PROVE  /\ Calls(do, <<w>>) \in Seq(CallType)
         /\ Elements(Calls(do, <<w>>)) = {Call(do, w)}
         /\ \A A, B : Precedes(Calls(do, <<w>>), A, B)
<1> DEFINE s == Calls(do, <<w>>)
<1>1. DOMAIN <<w>> = 1 .. 1 /\ <<w>>[1] = w
  OBVIOUS
<1>2. s \in Seq(CallType) /\ DOMAIN s = 1 .. 1 /\ s[1] = Call(do, w)
  <2> DEFINE whats == <<w>>
  <2>1. DOMAIN whats = 1 .. 1 /\ \A i \in 1 .. 1 : whats[i] = w
    BY <1>1
  <2> HIDE DEF whats
  <2>2. /\ \A i \in 1 .. 1 : Call(do, whats[i]) \in CallType
        /\ 1 \in Nat /\ DOMAIN whats = 1 .. 1
    BY <2>1
  <2>3. /\ Calls(do, whats) \in Seq(CallType) /\ DOMAIN Calls(do, whats) = 1 .. 1
        /\ \A i \in 1 .. 1 : Calls(do, whats)[i] = Call(do, whats[i])
    BY <2>2, CallsElements, Zenon
  <2> QED
    BY <2>1, <2>3 DEF whats
<1> HIDE DEF s
<1>3. ASSUME NEW A, NEW B PROVE Precedes(s, A, B)
  BY <1>2 DEF Precedes
<1>4. Elements(s) = {Call(do, w)}
  BY <1>2 DEF Elements
<1> QED
  BY <1>2, <1>3, <1>4 DEF s

LEMMA TwoCalls ==
  ASSUME NEW do, NEW v, NEW w, Call(do, v) \in CallType, Call(do, w) \in CallType
  PROVE  LET s == Calls(do, <<v, w>>) IN
         /\ s \in Seq(CallType)
         /\ Elements(s) = {Call(do, v), Call(do, w)}
         /\ \A A, B : Call(do, v) \notin B \/ Call(do, w) \notin A => Precedes(s, A, B)
<1> DEFINE s == Calls(do, <<v, w>>)
<1>2. s \in Seq(CallType) /\ DOMAIN s = 1 .. 2 /\ s[1] = Call(do, v) /\ s[2] = Call(do, w)
  <2> DEFINE whats == <<v, w>>
  <2>1. DOMAIN whats = 1 .. 2 /\ whats[1] = v /\ whats[2] = w
    OBVIOUS
  <2> HIDE DEF whats
  <2>2. \A i \in 1 .. 2 : Call(do, whats[i]) \in CallType
    <3> SUFFICES ASSUME NEW i \in 1 .. 2 PROVE Call(do, whats[i]) \in CallType
      OBVIOUS
    <3>1. i = 1 \/ i = 2
      OBVIOUS
    <3> QED
      BY <2>1, <3>1
  <2>3. 2 \in Nat
    OBVIOUS
  <2>4. /\ Calls(do, whats) \in Seq(CallType) /\ DOMAIN Calls(do, whats) = 1 .. 2
        /\ \A i \in 1 .. 2 : Calls(do, whats)[i] = Call(do, whats[i])
    BY <2>1, <2>2, <2>3, CallsElements, Zenon
  <2> QED
    BY <2>1, <2>4 DEF whats
<1> HIDE DEF s
<1>3. ASSUME NEW A, NEW B, Call(do, v) \notin B \/ Call(do, w) \notin A
      PROVE  Precedes(s, A, B)
  <2> SUFFICES ASSUME NEW i \in 1 .. 2, NEW j \in 1 .. 2, i < j
               PROVE  ~ (s[i] \in B /\ s[j] \in A)
    BY <1>2 DEF Precedes
  <2>1. i = 1 /\ j = 2
    OBVIOUS
  <2> QED
    BY <1>2, <1>3, <2>1
<1>4. Elements(s) = {Call(do, v), Call(do, w)}
  <2>1. \A i : i \in 1 .. 2 <=> i = 1 \/ i = 2
    OBVIOUS
  <2> QED
    BY <1>2, <2>1 DEF Elements
<1> QED
  BY <1>2, <1>3, <1>4 DEF s

LEMMA InstanceCalls ==
  ASSUME ConstantsOK, NEW do \in {"insert", "delete"}
  PROVE  /\ EachInstance(do) \in Seq(CallType)
         /\ Elements(EachInstance(do)) = {[do |-> do, what |-> "instance", slot |-> i] : i \in Slots}
<1>1. EachInstance(do) \in [1 .. GatewayCount -> CallType]
  BY DEF ConstantsOK, EachInstance, Slots, CallType
<1>2. EachInstance(do) \in Seq(CallType)
  BY <1>1, IsASeq DEF ConstantsOK
<1> QED
  BY <1>1, <1>2 DEF EachInstance, Elements, Slots

LEMMA ElementsAreTyped ==
  ASSUME NEW s \in Seq(CallType)
  PROVE  Elements(s) \subseteq CallType
BY DEF Elements

LEMMA PrecedesTrivially ==
  ASSUME NEW s, NEW A, NEW B, Elements(s) \cap A = {} \/ Elements(s) \cap B = {}
  PROVE  Precedes(s, A, B)
BY DEF Elements, Precedes

LEMMA CallsAreTyped ==
  ASSUME ConstantsOK,
         NEW do \in {"ensure", "read", "bind", "unbind", "await", "insert", "delete"},
         NEW what \in Parts \cup {"policy", "instance"}
  PROVE  Call(do, what) \in CallType
BY DEF ConstantsOK, CallType, Call

LEMMA CleanupDatabase ==
  ASSUME ConstantsOK
  PROVE  /\ cleanupGCPFirestoreDatabase \in Seq(CallType)
         /\ Elements(cleanupGCPFirestoreDatabase)
              = IF "database" \in owned THEN {Call("delete", "database")} ELSE {}
<1>1. /\ Calls("delete", <<"database">>) \in Seq(CallType)
      /\ Elements(Calls("delete", <<"database">>)) = {Call("delete", "database")}
  BY OneCall, CallsAreTyped DEF Parts
<1>2. cleanupGCPFirestoreDatabase
        = IF "database" \in owned THEN Calls("delete", <<"database">>) ELSE <<>>
  BY DEF cleanupGCPFirestoreDatabase, IfOwned
<1> QED
  BY <1>1, <1>2, ElementsOfEmpty

LEMMA CleanupIAM ==
  ASSUME ConstantsOK
  PROVE  /\ cleanupGCPRuntimeIAM \in Seq(CallType)
         /\ Elements(cleanupGCPRuntimeIAM)
              = IF "iam" \in owned
                THEN {Call("read", "policy"), Call("unbind", "policy"), Call("delete", "role")}
                ELSE {}
<1>1. /\ Calls("read", <<"policy">>) \in Seq(CallType)
      /\ Elements(Calls("read", <<"policy">>)) = {Call("read", "policy")}
      /\ Calls("unbind", <<"policy">>) \in Seq(CallType)
      /\ Elements(Calls("unbind", <<"policy">>)) = {Call("unbind", "policy")}
      /\ Calls("delete", <<"role">>) \in Seq(CallType)
      /\ Elements(Calls("delete", <<"role">>)) = {Call("delete", "role")}
  BY OneCall, CallsAreTyped DEF Parts
<1> DEFINE r == Calls("read", <<"policy">>)
           u == Calls("unbind", <<"policy">>)
           d == Calls("delete", <<"role">>)
<1>2. cleanupGCPRuntimeIAM = IF "iam" \in owned THEN r \o u \o d ELSE <<>>
  BY DEF cleanupGCPRuntimeIAM, IfOwned
<1>3. /\ r \in Seq(CallType) /\ Elements(r) = {Call("read", "policy")}
      /\ u \in Seq(CallType) /\ Elements(u) = {Call("unbind", "policy")}
      /\ d \in Seq(CallType) /\ Elements(d) = {Call("delete", "role")}
  BY <1>1
<1> HIDE DEF r, u, d
<1>4. r \o u \in Seq(CallType) /\ Elements(r \o u) = Elements(r) \cup Elements(u)
  BY <1>3, ElementsOfConcat
<1>5. /\ r \o u \o d \in Seq(CallType)
      /\ Elements(r \o u \o d) = Elements(r \o u) \cup Elements(d)
  BY <1>3, <1>4, ElementsOfConcat
<1> QED
  BY <1>2, <1>3, <1>4, <1>5, ElementsOfEmpty

(* A destroy stops all instances, and removes the route after that.        *)
LEMMA CleanupCalls ==
  ASSUME ConstantsOK, GcpTypeOK
  PROVE  /\ Cleanup \in Seq(CallType)
         /\ Elements(Cleanup)
              = IF repair = "mig"
                THEN {Call("delete", "group"), Call("delete", "route"), Call("delete", "template")}
                ELSE {[do |-> "delete", what |-> "instance", slot |-> i] : i \in Slots}
                       \cup {Call("delete", "route")}
         /\ Precedes(Cleanup, Stops, Removes("route"))
<1>1. /\ Call("delete", "group") \in CallType /\ Call("delete", "route") \in CallType
      /\ Call("delete", "template") \in CallType
  BY CallsAreTyped DEF Parts
<1>2. /\ Call("delete", "route") \notin Stops /\ Call("delete", "template") \notin Stops
      /\ Call("delete", "group") \notin Removes("route")
      /\ \A i : [do |-> "delete", what |-> "instance", slot |-> i] \notin Removes("route")
  BY DEF Call, Stops, Removes
<1>3. CASE repair = "mig"
  <2> DEFINE whats == <<"group", "route", "template">>
             s == Calls("delete", whats)
  <2>1. /\ DOMAIN whats = 1 .. 3 /\ whats[1] = "group" /\ whats[2] = "route"
        /\ whats[3] = "template"
    OBVIOUS
  <2>2. Cleanup = s
    BY <1>3 DEF Cleanup
  <2> HIDE DEF whats
  <2>3. \A i : i \in 1 .. 3 <=> i = 1 \/ i = 2 \/ i = 3
    OBVIOUS
  <2>4. 3 \in Nat /\ \A i \in 1 .. 3 : Call("delete", whats[i]) \in CallType
    BY <1>1, <2>1, <2>3
  <2>5. /\ s \in Seq(CallType) /\ DOMAIN s = 1 .. 3
        /\ \A i \in 1 .. 3 : s[i] = Call("delete", whats[i])
    BY <2>1, <2>4, CallsElements, Zenon
  <2> HIDE DEF s
  <2>6. s[1] = Call("delete", "group") /\ s[2] = Call("delete", "route")
        /\ s[3] = Call("delete", "template")
    BY <2>1, <2>3, <2>5
  <2>7. Elements(s) = {Call("delete", "group"), Call("delete", "route"), Call("delete", "template")}
    BY <2>3, <2>5, <2>6 DEF Elements
  <2>8. Precedes(s, Stops, Removes("route"))
    <3> SUFFICES ASSUME NEW i \in 1 .. 3, NEW j \in 1 .. 3, i < j
                 PROVE  ~ (s[i] \in Removes("route") /\ s[j] \in Stops)
      BY <2>5 DEF Precedes
    <3>1. j = 2 \/ j = 3
      OBVIOUS
    <3> QED
      BY <1>2, <2>6, <3>1
  <2> QED
    BY <1>3, <2>2, <2>5, <2>7, <2>8
<1>4. CASE repair # "mig"
  <2> DEFINE s == EachInstance("delete")
             t == Calls("delete", <<"route">>)
  <2>1. /\ s \in Seq(CallType)
        /\ Elements(s) = {[do |-> "delete", what |-> "instance", slot |-> i] : i \in Slots}
    BY InstanceCalls
  <2>2. t \in Seq(CallType) /\ Elements(t) = {Call("delete", "route")}
    BY <1>1, OneCall
  <2>3. Cleanup = s \o t
    BY <1>4 DEF Cleanup
  <2> HIDE DEF s, t
  <2>4. Elements(s) \cap Removes("route") = {} /\ Elements(t) \cap Stops = {}
    BY <1>2, <2>1, <2>2
  <2>5. Precedes(s \o t, Stops, Removes("route"))
    BY <2>1, <2>2, <2>4, PrecedesTrivially, PrecedesInConcat
  <2> QED
    BY <1>4, <2>1, <2>2, <2>3, <2>5, ElementsOfConcat
<1> QED
  BY <1>3, <1>4

(* A destroy removes all that the gateway may have made but what it keeps. *)
LEMMA DestroyCalls ==
  ASSUME ConstantsOK, GcpTypeOK, NEW todo,
         todo = Cleanup \o cleanupGCPRuntimeIAM \o cleanupGCPFirestoreDatabase
  PROVE  /\ todo \in Seq(CallType) /\ Elements(todo) \subseteq RemoveCalls
         /\ \A c \in Elements(todo), x \in Given : c \notin Removes(x)
         /\ \A x \in Parts \ (Given \cup Kept) :
              (repair = "unmanaged" => x \notin {"template", "group"})
                => Elements(todo) \cap Removes(x) # {}
         /\ \A i \in Slots : Elements(todo) \cap StopsInstance(i) # {}
         /\ Precedes(todo, OfGateway, OfOthers)
         /\ Precedes(todo, Stops, Removes("route"))
         /\ Elements(todo) \cap Removes("route") # {}
<1> DEFINE g == Cleanup
           m == cleanupGCPRuntimeIAM
           d == cleanupGCPFirestoreDatabase
           slots == {[do |-> "delete", what |-> "instance", slot |-> i] : i \in Slots}
<1>1. /\ g \in Seq(CallType) /\ m \in Seq(CallType) /\ d \in Seq(CallType)
      /\ Elements(g) =
           IF repair = "mig"
           THEN {Call("delete", "group"), Call("delete", "route"), Call("delete", "template")}
           ELSE slots \cup {Call("delete", "route")}
      /\ Elements(m) =
           IF "iam" \in owned
           THEN {Call("read", "policy"), Call("unbind", "policy"), Call("delete", "role")}
           ELSE {}
      /\ Elements(d) = IF "database" \in owned THEN {Call("delete", "database")} ELSE {}
      /\ Precedes(g, Stops, Removes("route"))
  BY CleanupCalls, CleanupIAM, CleanupDatabase
<1> HIDE DEF g, m, d
<1>2. g \o m \in Seq(CallType) /\ Elements(g \o m) = Elements(g) \cup Elements(m)
  BY <1>1, ElementsOfConcat
<1>3. todo = (g \o m) \o d
  BY DEF g, m, d
<1>4. /\ todo \in Seq(CallType)
      /\ Elements(todo) = Elements(g) \cup Elements(m) \cup Elements(d)
  BY <1>1, <1>2, <1>3, ElementsOfConcat
<1>5. /\ Elements(g) \subseteq OfGateway /\ Elements(g) \subseteq RemoveCalls
      /\ \A x \in Given : Elements(g) \cap Removes(x) = {}
  <2>1. \A c \in Elements(g) : /\ c \in CallType /\ c.do = "delete"
                             /\ c.what \in {"instance", "group", "route", "template"}
    BY <1>1, ElementsAreTyped DEF Call
  <2> QED
    BY <2>1 DEF OfGateway, GatewayParts, RemoveCalls, Removes, Given
<1>6. /\ (Elements(m) \cup Elements(d)) \cap OfGateway = {}
      /\ (Elements(m) \cup Elements(d)) \cap Stops = {}
      /\ (Elements(m) \cup Elements(d)) \subseteq RemoveCalls
      /\ \A x \in Given : (Elements(m) \cup Elements(d)) \cap Removes(x) = {}
  <2>1. \A c \in Elements(m) \cup Elements(d) :
          /\ c \in CallType
          /\ \/ "iam" \in owned /\ c.do \in {"read", "unbind"} /\ c.what = "policy"
             \/ "iam" \in owned /\ c.do = "delete" /\ c.what = "role"
             \/ "database" \in owned /\ c.do = "delete" /\ c.what = "database"
    BY <1>1, ElementsAreTyped DEF Call
  <2> QED
    BY <2>1 DEF OfGateway, GatewayParts, Stops, RemoveCalls, Removes, Given
<1>7. Precedes(todo, OfGateway, OfOthers)
  <2>1. Precedes(g, OfGateway, OfOthers)
    BY <1>5, PrecedesTrivially DEF OfOthers
  <2>2. Precedes(m, OfGateway, OfOthers) /\ Precedes(d, OfGateway, OfOthers)
    BY <1>6, PrecedesTrivially
  <2>3. Elements(m) \cap OfGateway = {} /\ Elements(d) \cap OfGateway = {}
    BY <1>6
  <2>4. Precedes(g \o m, OfGateway, OfOthers)
    BY <1>1, <2>1, <2>2, <2>3, PrecedesInConcat
  <2> QED
    BY <1>1, <1>2, <1>3, <2>2, <2>3, <2>4, PrecedesInConcat
<1>8. Precedes(todo, Stops, Removes("route"))
  <2>1. Precedes(m, Stops, Removes("route")) /\ Precedes(d, Stops, Removes("route"))
    BY <1>6, PrecedesTrivially
  <2>2. Elements(m) \cap Stops = {} /\ Elements(d) \cap Stops = {}
    BY <1>6
  <2>3. Precedes(g \o m, Stops, Removes("route"))
    BY <1>1, <2>1, <2>2, PrecedesInConcat
  <2> QED
    BY <1>1, <1>2, <1>3, <2>1, <2>2, <2>3, PrecedesInConcat
<1>9. Call("delete", "route") \in Elements(todo) \cap Removes("route")
  BY <1>1, <1>4, CallsAreTyped DEF Removes, Parts, Call
<1>10. ASSUME NEW i \in Slots
       PROVE  Elements(todo) \cap StopsInstance(i) # {}
  <2>1. CASE repair = "mig"
    <3>1. Call("delete", "group") \in Elements(todo) \cap StopsInstance(i)
      BY <1>1, <1>4, <2>1, CallsAreTyped DEF StopsInstance, Parts, Call
    <3> QED
      BY <3>1
  <2>2. CASE repair # "mig"
    <3> DEFINE c == [do |-> "delete", what |-> "instance", slot |-> i]
    <3>1. c \in Elements(todo)
      BY <1>1, <1>4, <2>2
    <3>2. c \in StopsInstance(i)
      BY DEF StopsInstance, CallType, Slots, ConstantsOK
    <3> QED
      BY <3>1, <3>2
  <2> QED
    BY <2>1, <2>2
<1>11. ASSUME NEW x \in Parts \ (Given \cup Kept),
              repair = "unmanaged" => x \notin {"template", "group"}
       PROVE  Elements(todo) \cap Removes(x) # {}
  <2>1. CASE x \in {"database", "role"}
    <3>1. Call("delete", x) \in Elements(todo)
      BY <1>1, <1>4, <1>11, <2>1 DEF Given
    <3>2. Call("delete", x) \in Removes(x)
      BY <2>1, CallsAreTyped DEF Removes, Parts, Call
    <3> QED
      BY <3>1, <3>2
  <2>2. CASE x = "binding"
    <3>1. Call("unbind", "policy") \in Elements(todo)
      BY <1>1, <1>4, <1>11, <2>2 DEF Given
    <3>2. Call("unbind", "policy") \in Removes(x)
      BY <2>2, CallsAreTyped DEF Removes, Call
    <3> QED
      BY <3>1, <3>2
  <2>3. CASE x \in {"template", "group", "route"}
    <3>1. repair = "mig" \/ x = "route"
      BY <1>11, <2>3 DEF GcpTypeOK
    <3>2. Call("delete", x) \in Elements(todo)
      BY <1>1, <1>4, <2>3, <3>1
    <3>3. Call("delete", x) \in Removes(x)
      BY <2>3, CallsAreTyped DEF Removes, Parts, Call
    <3> QED
      BY <3>2, <3>3
  <2> QED
    BY <2>1, <2>2, <2>3 DEF Parts, Kept
<1> QED
  BY <1>4, <1>5, <1>6, <1>7, <1>8, <1>9, <1>10, <1>11

LEMMA PrepareCalls ==
  ASSUME ConstantsOK, NEW todo,
         todo = applyGCPFirestoreDatabase \o applyGCPRuntimeServiceAccount \o applyGCPRuntimeIAM
  PROVE  /\ todo \in Seq(CallType)
         /\ Elements(todo) =
              (IF "database" \in owned THEN {Call("ensure", "database")} ELSE {})
              \cup (IF "account" \in owned THEN {Call("ensure", "account")} ELSE {})
              \cup (IF "iam" \in owned
                    THEN {Call("ensure", "role"), Call("read", "policy"), Call("bind", "policy")}
                    ELSE {})
<1> DEFINE d == Calls("ensure", <<"database">>)
           a == Calls("ensure", <<"account">>)
           r == Calls("ensure", <<"role">>)
           p == Calls("read", <<"policy">>)
           b == Calls("bind", <<"policy">>)
           d0 == applyGCPFirestoreDatabase
           a0 == applyGCPRuntimeServiceAccount
           m0 == applyGCPRuntimeIAM
<1>1. /\ d \in Seq(CallType) /\ Elements(d) = {Call("ensure", "database")}
      /\ a \in Seq(CallType) /\ Elements(a) = {Call("ensure", "account")}
      /\ r \in Seq(CallType) /\ Elements(r) = {Call("ensure", "role")}
      /\ p \in Seq(CallType) /\ Elements(p) = {Call("read", "policy")}
      /\ b \in Seq(CallType) /\ Elements(b) = {Call("bind", "policy")}
  BY OneCall, CallsAreTyped DEF Parts
<1>2. /\ d0 = IF "database" \in owned THEN d ELSE <<>>
      /\ a0 = IF "account" \in owned THEN a ELSE <<>>
      /\ m0 = IF "iam" \in owned THEN r \o p \o b ELSE <<>>
  BY DEF applyGCPFirestoreDatabase, applyGCPRuntimeServiceAccount, applyGCPRuntimeIAM, IfOwned
<1>3. todo = (d0 \o a0) \o m0
  OBVIOUS
<1> HIDE DEF d, a, r, p, b, d0, a0, m0
<1>4. r \o p \in Seq(CallType) /\ Elements(r \o p) = Elements(r) \cup Elements(p)
  BY <1>1, ElementsOfConcat
<1>5. /\ r \o p \o b \in Seq(CallType)
      /\ Elements(r \o p \o b) = Elements(r \o p) \cup Elements(b)
  BY <1>1, <1>4, ElementsOfConcat
<1>6. /\ d0 \in Seq(CallType)
      /\ Elements(d0) = IF "database" \in owned THEN {Call("ensure", "database")} ELSE {}
      /\ a0 \in Seq(CallType)
      /\ Elements(a0) = IF "account" \in owned THEN {Call("ensure", "account")} ELSE {}
      /\ m0 \in Seq(CallType)
      /\ Elements(m0) =
           IF "iam" \in owned
           THEN {Call("ensure", "role"), Call("read", "policy"), Call("bind", "policy")} ELSE {}
  BY <1>1, <1>2, <1>4, <1>5, ElementsOfEmpty
<1>7. d0 \o a0 \in Seq(CallType) /\ Elements(d0 \o a0) = Elements(d0) \cup Elements(a0)
  BY <1>6, ElementsOfConcat
<1>8. todo \in Seq(CallType) /\ Elements(todo) = Elements(d0 \o a0) \cup Elements(m0)
  BY <1>3, <1>6, <1>7, ElementsOfConcat
<1> QED
  BY <1>6, <1>7, <1>8

LEMMA ApplyCalls ==
  ASSUME ConstantsOK, GcpTypeOK
  PROVE  /\ Apply \in Seq(CallType)
         /\ Elements(Apply) =
              (IF repair = "mig"
               THEN {Call("insert", "template"), Call("insert", "group"), Call("await", "instance")}
               ELSE {[do |-> "insert", what |-> "instance", slot |-> i] : i \in Slots})
              \cup {Call("insert", "route"), Call("await", "route")}
<1> DEFINE g == Calls("insert", <<"template", "group">>)
           w == Calls("await", <<"instance">>)
           e == EachInstance("insert")
           r == Calls("insert", <<"route">>)
           b == Calls("await", <<"route">>)
           f == IF repair = "mig" THEN g \o w ELSE e
<1>1. /\ g \in Seq(CallType)
      /\ Elements(g) = {Call("insert", "template"), Call("insert", "group")}
  BY TwoCalls, CallsAreTyped DEF Parts
<1>2. /\ w \in Seq(CallType) /\ Elements(w) = {Call("await", "instance")}
      /\ r \in Seq(CallType) /\ Elements(r) = {Call("insert", "route")}
      /\ b \in Seq(CallType) /\ Elements(b) = {Call("await", "route")}
  BY OneCall, CallsAreTyped DEF Parts
<1>3. /\ e \in Seq(CallType)
      /\ Elements(e) = {[do |-> "insert", what |-> "instance", slot |-> i] : i \in Slots}
  BY InstanceCalls
<1>4. Apply = (f \o r) \o b
  BY DEF Apply, readBack
<1> HIDE DEF g, w, e, r, b
<1>5. g \o w \in Seq(CallType) /\ Elements(g \o w) = Elements(g) \cup Elements(w)
  BY <1>1, <1>2, ElementsOfConcat
<1>6. /\ f \in Seq(CallType)
      /\ Elements(f) = IF repair = "mig" THEN Elements(g) \cup Elements(w) ELSE Elements(e)
  BY <1>3, <1>5
<1> HIDE DEF f
<1>7. f \o r \in Seq(CallType) /\ Elements(f \o r) = Elements(f) \cup Elements(r)
  BY <1>2, <1>6, ElementsOfConcat
<1>8. Apply \in Seq(CallType) /\ Elements(Apply) = Elements(f \o r) \cup Elements(b)
  BY <1>2, <1>4, <1>7, ElementsOfConcat
<1>9. Elements(f) = IF repair = "mig"
        THEN {Call("insert", "template"), Call("insert", "group"), Call("await", "instance")}
        ELSE {[do |-> "insert", what |-> "instance", slot |-> i] : i \in Slots}
  BY <1>1, <1>2, <1>3, <1>6
<1> QED
  BY <1>2, <1>7, <1>8, <1>9

(* A create makes what its agents need before it starts any instance.      *)
LEMMA MakeCalls ==
  ASSUME ConstantsOK, GcpTypeOK, NEW todo,
         todo = applyGCPFirestoreDatabase \o applyGCPRuntimeServiceAccount
                \o applyGCPRuntimeIAM \o Apply
  PROVE  /\ todo \in Seq(CallType) /\ Elements(todo) \subseteq CreateCalls
         /\ Precedes(todo, OfOthers, OfGateway)
         /\ \A x \in Store : Precedes(todo, Makes(x), Starts)
         /\ \A x \in Store \ Given : Elements(todo) \cap Makes(x) # {}
<1> DEFINE s == applyGCPFirestoreDatabase \o applyGCPRuntimeServiceAccount \o applyGCPRuntimeIAM
           t == Apply
<1>1. /\ s \in Seq(CallType)
      /\ Elements(s) =
           (IF "database" \in owned THEN {Call("ensure", "database")} ELSE {})
           \cup (IF "account" \in owned THEN {Call("ensure", "account")} ELSE {})
           \cup (IF "iam" \in owned
                 THEN {Call("ensure", "role"), Call("read", "policy"), Call("bind", "policy")}
                 ELSE {})
  BY PrepareCalls
<1>2. /\ t \in Seq(CallType)
      /\ Elements(t) =
           (IF repair = "mig"
            THEN {Call("insert", "template"), Call("insert", "group"), Call("await", "instance")}
            ELSE {[do |-> "insert", what |-> "instance", slot |-> i] : i \in Slots})
           \cup {Call("insert", "route"), Call("await", "route")}
  BY ApplyCalls
<1>3. todo = s \o t
  OBVIOUS
<1> HIDE DEF s, t
<1>4. todo \in Seq(CallType) /\ Elements(todo) = Elements(s) \cup Elements(t)
  BY <1>1, <1>2, <1>3, ElementsOfConcat
<1>5. \A c \in Elements(s) :
        /\ c \in CallType
        /\ \/ c.do \in {"read", "bind"} /\ c.what = "policy"
           \/ c.do = "ensure" /\ c.what \in {"database", "account", "role"}
  BY <1>1, ElementsAreTyped DEF Call
<1>6. \A c \in Elements(t) :
        /\ c \in CallType
        /\ \/ c.do = "await" /\ c.what \in {"route", "instance"}
           \/ c.do = "insert" /\ c.what = "route"
           \/ c.do = "insert" /\ c.what = "instance" /\ c.slot \in Slots
           \/ repair = "mig" /\ c.do = "insert" /\ c.what \in {"template", "group"}
  BY <1>2, ElementsAreTyped DEF Call
<1>7. Elements(todo) \subseteq CreateCalls
  BY <1>4, <1>5, <1>6 DEF CreateCalls, GatewayParts
<1>8. Elements(s) \cap OfGateway = {} /\ Elements(s) \cap Starts = {}
  BY <1>5 DEF OfGateway, GatewayParts, Starts
<1>9. Elements(t) \cap OfOthers = {} /\ (\A x \in Store : Elements(t) \cap Makes(x) = {})
  BY <1>6 DEF OfOthers, OfGateway, GatewayParts, Makes
<1>10. Precedes(todo, OfOthers, OfGateway)
  BY <1>1, <1>2, <1>3, <1>8, <1>9, PrecedesTrivially, PrecedesInConcat
<1>11. ASSUME NEW x \in Store PROVE Precedes(todo, Makes(x), Starts)
  BY <1>1, <1>2, <1>3, <1>8, <1>9, PrecedesTrivially, PrecedesInConcat
<1>12. ASSUME NEW x \in Store \ Given PROVE Elements(todo) \cap Makes(x) # {}
  <2>1. CASE x \in {"database", "role"}
    <3>1. Call("ensure", x) \in Elements(todo) /\ Call("ensure", x) \in Makes(x)
      BY <1>1, <1>4, <2>1, CallsAreTyped DEF Given, Makes, Parts, Call
    <3> QED
      BY <3>1
  <2>2. CASE x = "binding"
    <3>1. Call("bind", "policy") \in Elements(todo) /\ Call("bind", "policy") \in Makes(x)
      BY <1>1, <1>4, <2>2, CallsAreTyped DEF Given, Makes, Parts, Call
    <3> QED
      BY <3>1
  <2> QED
    BY <2>1, <2>2 DEF Store
<1> QED
  BY <1>4, <1>7, <1>10, <1>11, <1>12

-----------------------------------------------------------------------------
(* What a call that was answered, or that failed half way, has done.       *)
Attempt(c) == UNCHANGED project \/ (~ Refused(c) /\ Effect(c))

LEMMA NextIsTyped ==
  ASSUME GcpTypeOK, Busy
  PROVE  /\ job \in JobType /\ job # NoJob /\ job.todo \in Seq(CallType) /\ job.todo # <<>>
         /\ NextCall = Head(job.todo) /\ NextCall \in CallType /\ Tail(job.todo) \in Seq(CallType)
         /\ NextCall \in OfOthers => ~ job.failed
         /\ Elements(job.todo) = {NextCall} \cup Elements(Tail(job.todo))
<1>1. job \in JobType /\ job # NoJob /\ job.todo # <<>>
  BY DEF GcpTypeOK, Busy, Over
<1>2. job.todo \in Seq(CallType)
  BY <1>1 DEF JobType
<1>3. /\ NextCall \in CallType /\ Tail(job.todo) \in Seq(CallType)
      /\ Elements(job.todo) = {NextCall} \cup Elements(Tail(job.todo))
  BY <1>1, <1>2, HeadAndTail, Zenon DEF NextCall
<1>4. NextCall \in OfOthers => ~ job.failed
  BY <1>1 DEF Busy, Over, NextCall, OfOthers, OfGateway
<1> QED
  BY <1>1, <1>2, <1>3, <1>4 DEF NextCall

LEMMA NextComesFirst ==
  ASSUME GcpTypeOK, Busy, NEW A, NEW B, Precedes(job.todo, A, B)
  PROVE  /\ Precedes(Tail(job.todo), A, B)
         /\ NextCall \in B => Elements(Tail(job.todo)) \cap A = {}
<1>1. job.todo \in Seq(CallType) /\ job.todo # <<>>
  BY NextIsTyped
<1> QED
  BY <1>1, HeadAndTail, Zenon DEF NextCall

LEMMA AttemptToCreate ==
  ASSUME ConstantsOK, GcpTypeOK, NEW c \in CreateCalls, Attempt(c)
  PROVE  /\ exists \subseteq exists' /\ exists' \subseteq Parts
         /\ instances \subseteq instances' /\ instances' \subseteq Slots
         /\ edits' = edits
         /\ Unmanaged /\ UNCHANGED fixed => Unmanaged'
         /\ c \notin Starts /\ NoInstances => NoInstances'
<1>1. CASE UNCHANGED project
  BY <1>1 DEF project, GcpTypeOK, Unmanaged, NoInstances, fixed
<1>2. CASE ~ Refused(c) /\ Effect(c)
  <2>1. CASE EnsureObject(c)
    BY <1>2, <2>1 DEF EnsureObject, CreateCalls, GcpTypeOK, Unmanaged, NoInstances, fixed, Parts
  <2>2. CASE InsertObject(c)
    <3>1. CASE c.what = "instance"
      BY <2>2, <3>1 DEF InsertObject, CreateCalls, GcpTypeOK, Unmanaged, NoInstances, fixed,
         Starts
    <3>2. CASE c.what = "group"
      BY <2>2, <3>2 DEF InsertObject, CreateCalls, GcpTypeOK, Unmanaged, NoInstances, fixed,
         Starts, Parts
    <3>3. CASE c.what \notin {"instance", "group"}
      BY <2>2, <3>3 DEF InsertObject, CreateCalls, GcpTypeOK, Unmanaged, NoInstances, fixed,
         Parts, GatewayParts
    <3> QED
      BY <3>1, <3>2, <3>3
  <2>3. CASE addBindingMember(c)
    <3>1. job.edits = edits
      BY <1>2, <2>3 DEF addBindingMember, Refused
    <3> QED
      BY <2>3, <3>1 DEF addBindingMember, CreateCalls, GcpTypeOK, Unmanaged, NoInstances, fixed,
         Parts
  <2>4. CASE OtherCall(c)
    BY <2>4 DEF OtherCall, project, GcpTypeOK, Unmanaged, NoInstances, fixed
  <2>5. ~ DeleteObject(c) /\ ~ removeBindingMember(c)
    BY DEF DeleteObject, removeBindingMember, CreateCalls
  <2> QED
    BY <1>2, <2>1, <2>2, <2>3, <2>4, <2>5 DEF Effect
<1> QED
  BY <1>1, <1>2 DEF Attempt

(* What a call makes exists after it.                                      *)
LEMMA MadeThen ==
  ASSUME NEW c \in CreateCalls, Effect(c), NEW x \in Store, c \in Makes(x)
  PROVE  x \in exists'
<1>1. CASE c.do = "ensure"
  BY <1>1 DEF Effect, EnsureObject, InsertObject, DeleteObject, addBindingMember,
     removeBindingMember, OtherCall, Makes
<1>2. CASE c.do = "bind"
  BY <1>2 DEF Effect, EnsureObject, InsertObject, DeleteObject, addBindingMember,
     removeBindingMember, OtherCall, Makes
<1> QED
  BY <1>1, <1>2 DEF Makes

LEMMA AttemptToRemove ==
  ASSUME GcpTypeOK, NEW c \in RemoveCalls, Attempt(c)
  PROVE  /\ exists' \subseteq exists /\ instances' \subseteq instances
         /\ edits' = edits
         /\ \A x \in exists \ exists' : c \in Removes(x)
<1>1. CASE UNCHANGED project
  BY <1>1 DEF project
<1>2. CASE ~ Refused(c) /\ Effect(c)
  <2>1. CASE DeleteObject(c)
    <3>1. CASE c.what = "instance"
      BY <2>1, <3>1 DEF DeleteObject, RemoveCalls, Removes
    <3>2. CASE c.what = "group"
      BY <2>1, <3>2 DEF DeleteObject, RemoveCalls, Removes
    <3>3. CASE c.what \notin {"instance", "group"}
      BY <2>1, <3>3 DEF DeleteObject, RemoveCalls, Removes
    <3> QED
      BY <3>1, <3>2, <3>3
  <2>2. CASE removeBindingMember(c)
    <3>1. job.edits = edits
      BY <1>2, <2>2 DEF removeBindingMember, Refused
    <3> QED
      BY <2>2, <3>1 DEF removeBindingMember, RemoveCalls, Removes
  <2>3. CASE OtherCall(c)
    BY <2>3 DEF OtherCall, project
  <2>4. ~ EnsureObject(c) /\ ~ InsertObject(c) /\ ~ addBindingMember(c)
    BY DEF EnsureObject, InsertObject, addBindingMember, RemoveCalls
  <2> QED
    BY <1>2, <2>1, <2>2, <2>3, <2>4 DEF Effect
<1> QED
  BY <1>1, <1>2 DEF Attempt

(* What a call removes is gone after it.                                   *)
LEMMA RemovedThen ==
  ASSUME NEW c \in RemoveCalls, Effect(c)
  PROVE  /\ \A x : c \in Removes(x) => x \notin exists'
         /\ \A i \in Slots : c \in StopsInstance(i) => i \notin instances'
<1>1. CASE c.do = "delete"
  BY <1>1 DEF Effect, EnsureObject, InsertObject, DeleteObject, addBindingMember,
     removeBindingMember, OtherCall, Removes, StopsInstance
<1>2. CASE c.do = "unbind"
  BY <1>2 DEF Effect, EnsureObject, InsertObject, DeleteObject, addBindingMember,
     removeBindingMember, OtherCall, Removes, StopsInstance
<1>3. CASE c.do = "read"
  BY <1>3 DEF Removes, StopsInstance
<1> QED
  BY <1>1, <1>2, <1>3 DEF RemoveCalls

LEMMA GivenIsShared ==
  /\ Given \subseteq {"database", "account", "role", "binding"}
  /\ "group" \notin Given \cup Kept
  /\ \A x \in Store : Removes(x) \cap RemoveCalls \subseteq OfOthers
  /\ Removes("group") \subseteq Stops
  /\ \A i : StopsInstance(i) \subseteq Stops /\ Removes("group") \subseteq StopsInstance(i)
  /\ Starts \subseteq OfGateway /\ Stops \subseteq OfGateway
  /\ \A x \in Store : Makes(x) \cap Starts = {}
<1>1. /\ Given \subseteq {"database", "account", "role", "binding"}
      /\ "group" \notin Given \cup Kept
  BY DEF Given, Kept
<1>2. ASSUME NEW x \in Store PROVE Removes(x) \cap RemoveCalls \subseteq OfOthers
  BY <1>2 DEF Store, Removes, RemoveCalls, OfOthers, OfGateway, GatewayParts
<1>3. Removes("group") \subseteq Stops
  BY DEF Removes, Stops
<1>4. ASSUME NEW i
      PROVE  StopsInstance(i) \subseteq Stops /\ Removes("group") \subseteq StopsInstance(i)
  BY DEF Removes, Stops, StopsInstance
<1>5. Starts \subseteq OfGateway /\ Stops \subseteq OfGateway
  BY DEF Starts, Stops, OfGateway, GatewayParts
<1>6. ASSUME NEW x \in Store PROVE Makes(x) \cap Starts = {}
  BY DEF Makes, Starts
<1> QED
  BY <1>1, <1>2, <1>3, <1>4, <1>5, <1>6

-----------------------------------------------------------------------------
(* Every attempt keeps what is not the gateway's own, and leaves its       *)
(* agents their store or no instance.                                      *)
LEMMA AttemptIsSafe ==
  ASSUME ConstantsOK, IInv, Busy, Attempt(NextCall), UNCHANGED fixed
  PROVE  /\ exists' \subseteq Parts /\ instances' \subseteq Slots /\ edits' = edits
         /\ Unmanaged' /\ SharedIsKept'
         /\ ~ lost => Store \subseteq exists' \/ NoInstances'
<1> DEFINE c == NextCall
           rest == Tail(job.todo)
<1>1. /\ job \in JobType /\ job # NoJob /\ job.todo \in Seq(CallType)
      /\ c \in CallType /\ rest \in Seq(CallType)
      /\ c \in OfOthers => ~ job.failed
      /\ Elements(job.todo) = {c} \cup Elements(rest)
  BY NextIsTyped DEF IInv
<1>5. ASSUME NEW A, NEW B, Precedes(job.todo, A, B), c \in B
      PROVE  Elements(rest) \cap A = {}
  BY <1>5, NextIsTyped, NextComesFirst DEF IInv, c, rest
<1>2. Given' = Given
  BY DEF Given, fixed
<1> HIDE DEF c, rest
<1>3. CASE job.kind = "create"
  <2>1. c \in CreateCalls
    BY <1>1, <1>3 DEF IInv, CreateShape
  <2>2. /\ exists \subseteq exists' /\ exists' \subseteq Parts
        /\ instances' \subseteq Slots /\ edits' = edits /\ Unmanaged'
        /\ c \notin Starts /\ NoInstances => NoInstances'
    BY <2>1, AttemptToCreate DEF IInv, c
  <2>3. SharedIsKept'
    BY <1>2, <2>2 DEF IInv, SharedIsKept
  <2>4. ASSUME ~ lost PROVE Store \subseteq exists' \/ NoInstances'
    <3>1. CASE c \in Starts
      <4> SUFFICES ASSUME NEW x \in Store \ exists PROVE FALSE
        BY <2>2
      <4>1. /\ Precedes(job.todo, Makes(x), Starts)
            /\ Elements(job.todo) \cap Starts # {} => Elements(job.todo) \cap Makes(x) # {}
        BY <1>3, <2>4 DEF IInv, CreateShape
      <4>2. Elements(rest) \cap Makes(x) = {}
        BY <1>5, <3>1, <4>1
      <4>3. c \notin Makes(x)
        BY <3>1, GivenIsShared
      <4> QED
        BY <1>1, <3>1, <4>1, <4>2, <4>3
    <3>2. CASE c \notin Starts
      <4>1. Store \subseteq exists \/ NoInstances
        BY <2>4 DEF IInv, KnownIsSafe
      <4> QED
        BY <2>2, <3>2, <4>1
    <3> QED
      BY <3>1, <3>2
  <2> QED
    BY <2>2, <2>3, <2>4
<1>4. CASE job.kind \in {"undo", "delete"}
  <2>1. c \in RemoveCalls
    BY <1>1, <1>4 DEF IInv, UndoShape, DeleteShape
  <2>2. /\ exists' \subseteq exists /\ instances' \subseteq instances /\ edits' = edits
        /\ \A x \in exists \ exists' : c \in Removes(x)
    BY <2>1, AttemptToRemove DEF IInv, c
  <2>3. SharedIsKept'
    <3>1. \A x \in Given : c \notin Removes(x)
      BY <1>1 DEF IInv, SparesGiven
    <3> QED
      BY <1>2, <2>2, <3>1 DEF IInv, SharedIsKept
  <2>4. Unmanaged'
    BY <2>2 DEF IInv, Unmanaged, fixed
  <2>5. exists' \subseteq Parts /\ instances' \subseteq Slots
    BY <2>2 DEF IInv, GcpTypeOK
  <2>6. NoInstances => NoInstances'
    BY <2>2 DEF NoInstances
  <2>7. ASSUME ~ lost PROVE Store \subseteq exists' \/ NoInstances'
    <3>1. Store \subseteq exists \/ NoInstances
      BY <2>7 DEF IInv, KnownIsSafe
    <3>2. CASE job.kind = "undo"
      BY <2>6, <2>7, <3>2 DEF IInv, UndoShape
    <3>3. CASE job.kind = "delete" /\ c \in OfOthers
      <4>1. ~ job.failed
        BY <1>1, <3>3
      <4>2. /\ \A x \in exists \ (Given \cup Kept) :
                 Elements(job.todo) \cap Removes(x) # {}
            /\ \A i \in instances : Elements(job.todo) \cap StopsInstance(i) # {}
            /\ Precedes(job.todo, OfGateway, OfOthers)
        BY <3>3, <4>1 DEF IInv, DeleteShape
      <4>3. Elements(rest) \cap OfGateway = {}
        BY <1>5, <3>3, <4>2
      <4>4. Elements(job.todo) \cap OfGateway = {}
        BY <1>1, <3>3, <4>3 DEF OfOthers
      <4>5. Elements(job.todo) \cap Stops = {}
        BY <4>4, GivenIsShared
      <4>6. instances = {}
        BY <4>2, <4>5, GivenIsShared
      <4>7. "group" \notin exists
        BY <4>2, <4>5, GivenIsShared
      <4> QED
        BY <2>6, <4>6, <4>7 DEF NoInstances
    <3>4. CASE job.kind = "delete" /\ c \notin OfOthers
      <4>1. \A x \in Store : c \notin Removes(x)
        BY <2>1, <3>4, GivenIsShared
      <4>2. Store \cap exists \subseteq exists'
        BY <2>2, <4>1
      <4> QED
        BY <2>6, <3>1, <4>2
    <3> QED
      BY <1>4, <3>2, <3>3, <3>4
  <2> QED
    BY <2>2, <2>3, <2>4, <2>5, <2>7
<1> QED
  BY <1>1, <1>3, <1>4 DEF JobType

-----------------------------------------------------------------------------
(* The steps.                                                              *)
LEMMA NoJobHasShape ==
  ASSUME job = NoJob
  PROVE  SparesGiven /\ CreateShape /\ UndoShape /\ DeleteShape
BY DEF NoJob, SparesGiven, CreateShape, UndoShape, DeleteShape

LEMMA InitIInv == ASSUME ConstantsOK, Init PROVE IInv
<1>1. SparesGiven /\ CreateShape /\ UndoShape /\ DeleteShape
  BY NoJobHasShape DEF Init
<1>2. Given \subseteq {"database", "account", "role", "binding"}
  BY GivenIsShared
<1>3. GcpTypeOK
  <2>1. exists \subseteq Parts /\ instances \subseteq Slots
    BY <1>2 DEF Init, Parts
  <2>2. edits \in 0 .. MaxEdits /\ faults \in 0 .. MaxFaults /\ crashes \in 0 .. MaxCrashes
    BY DEF Init, ConstantsOK
  <2> QED
    BY <2>1, <2>2 DEF Init, GcpTypeOK
<1>4. SharedIsKept /\ Unmanaged /\ KnownIsSafe
  BY <1>2 DEF Init, SharedIsKept, Unmanaged, KnownIsSafe, NoInstances
<1> QED
  BY <1>1, <1>3, <1>4 DEF IInv

LEMMA CreateKeepsIInv == ASSUME ConstantsOK, IInv, Create PROVE IInv'
<1> DEFINE todo == applyGCPFirestoreDatabase \o applyGCPRuntimeServiceAccount
                   \o applyGCPRuntimeIAM \o Apply
<1>1. /\ todo \in Seq(CallType) /\ Elements(todo) \subseteq CreateCalls
      /\ Precedes(todo, OfOthers, OfGateway)
      /\ \A x \in Store : Precedes(todo, Makes(x), Starts)
      /\ \A x \in Store \ Given : Elements(todo) \cap Makes(x) # {}
  BY MakeCalls DEF IInv
<1>2. job' = [kind |-> "create", todo |-> todo, failed |-> FALSE, edits |-> 0]
  BY DEF Create, Job
<1> HIDE DEF todo
<1>3. job' \in JobType
  BY <1>1, <1>2 DEF JobType, ConstantsOK
<1>4. UNCHANGED <<fixed, project, managed, wanted, faults, crashes, lost>>
  BY DEF Create
<1>5. Given' = Given /\ NoInstances' = NoInstances
  BY <1>4 DEF Given, fixed, NoInstances, project
<1>6. GcpTypeOK'
  BY <1>3, <1>4 DEF IInv, GcpTypeOK, fixed, project
<1>7. SharedIsKept' /\ Unmanaged' /\ KnownIsSafe'
  <2>1. job' # NoJob
    BY <1>2 DEF NoJob
  <2> QED
    BY <2>1, <1>4, <1>5
       DEF IInv, SharedIsKept, Unmanaged, KnownIsSafe, fixed, project
<1>8. SparesGiven'
  BY <1>1, <1>2 DEF SparesGiven, CreateCalls, Removes
<1>9. CreateShape'
  <2>1. ~ lost => NoInstances
    BY DEF Create, IInv, KnownIsSafe
  <2>2. \A x \in Store \ exists :
          Precedes(todo, Makes(x), Starts) /\ Elements(todo) \cap Makes(x) # {}
    BY <1>1 DEF IInv, SharedIsKept
  <2>3. job'.todo = todo /\ job'.failed = FALSE /\ exists' = exists /\ lost' = lost
    BY <1>2, <1>4 DEF project
  <2>4. ~ lost' => \A x \in Store \ exists' :
          /\ Precedes(todo, Makes(x), Starts)
          /\ Elements(todo) \cap Starts # {} => Elements(todo) \cap Makes(x) # {}
    BY <2>2, <2>3
  <2>5. ~ lost' /\ Elements(todo) \cap OfOthers # {} => NoInstances'
    BY <1>5, <2>1, <2>3
  <2>6. CreateCalls' = CreateCalls
    BY <1>4 DEF CreateCalls, fixed
  <2> QED
    BY <1>1, <2>3, <2>4, <2>5, <2>6 DEF CreateShape
<1>10. UndoShape' /\ DeleteShape'
  BY <1>2 DEF UndoShape, DeleteShape
<1> QED
  BY <1>6, <1>7, <1>8, <1>9, <1>10 DEF IInv

LEMMA DeleteKeepsIInv == ASSUME ConstantsOK, IInv, Delete PROVE IInv'
<1> DEFINE todo == Cleanup \o cleanupGCPRuntimeIAM \o cleanupGCPFirestoreDatabase
<1>1. /\ todo \in Seq(CallType) /\ Elements(todo) \subseteq RemoveCalls
      /\ \A c \in Elements(todo), x \in Given : c \notin Removes(x)
      /\ \A x \in Parts \ (Given \cup Kept) :
           (repair = "unmanaged" => x \notin {"template", "group"})
             => Elements(todo) \cap Removes(x) # {}
      /\ \A i \in Slots : Elements(todo) \cap StopsInstance(i) # {}
      /\ Precedes(todo, OfGateway, OfOthers)
      /\ Precedes(todo, Stops, Removes("route"))
      /\ Elements(todo) \cap Removes("route") # {}
  BY DestroyCalls DEF IInv
<1>2. job' = [kind |-> "delete", todo |-> todo, failed |-> FALSE, edits |-> 0]
  BY DEF Delete, Job
<1> HIDE DEF todo
<1>3. job' \in JobType
  BY <1>1, <1>2 DEF JobType, ConstantsOK
<1>4. UNCHANGED <<fixed, project, managed, wanted, faults, crashes, lost>> /\ managed
  BY DEF Delete
<1>5. Given' = Given /\ NoInstances' = NoInstances
  BY <1>4 DEF Given, fixed, NoInstances, project
<1>6. GcpTypeOK'
  BY <1>3, <1>4 DEF IInv, GcpTypeOK, fixed, project
<1>7. SharedIsKept' /\ Unmanaged' /\ KnownIsSafe'
  <2>1. job' # NoJob
    BY <1>2 DEF NoJob
  <2> QED
    BY <2>1, <1>4, <1>5
       DEF IInv, SharedIsKept, Unmanaged, KnownIsSafe, fixed, project
<1>8. SparesGiven'
  BY <1>1, <1>2, <1>5 DEF SparesGiven
<1>9. CreateShape' /\ UndoShape'
  BY <1>2 DEF CreateShape, UndoShape
<1>10. DeleteShape'
  <2>1. \A x \in exists \ (Given \cup Kept) : Elements(todo) \cap Removes(x) # {}
    BY <1>1 DEF IInv, GcpTypeOK, Unmanaged
  <2>2. \A i \in instances : Elements(todo) \cap StopsInstance(i) # {}
    BY <1>1 DEF IInv, GcpTypeOK
  <2> QED
    BY <1>1, <1>2, <1>4, <1>5, <2>1, <2>2 DEF DeleteShape, project
<1> QED
  BY <1>6, <1>7, <1>8, <1>9, <1>10 DEF IInv

LEMMA ReadKeepsIInv == ASSUME ConstantsOK, IInv, Read PROVE IInv'
<1>1. GcpTypeOK' /\ SharedIsKept' /\ Unmanaged' /\ KnownIsSafe'
  BY DEF Read, IInv, GcpTypeOK, SharedIsKept, Unmanaged, KnownIsSafe, Given, fixed, project,
     NoJob
<1>2. job' = NoJob
  BY DEF Read
<1>3. SparesGiven' /\ CreateShape' /\ UndoShape' /\ DeleteShape'
  BY <1>2 DEF NoJob, SparesGiven, CreateShape, UndoShape, DeleteShape
<1> QED
  BY <1>1, <1>3 DEF IInv

LEMMA CrashKeepsIInv == ASSUME ConstantsOK, IInv, Crash PROVE IInv'
<1>1. job' = NoJob /\ UNCHANGED <<fixed, project, managed, wanted, faults>>
  BY DEF Crash
<1>2. job \in JobType
  BY DEF Crash, IInv, GcpTypeOK
<1>3. Given' = Given /\ NoInstances' = NoInstances
  BY <1>1 DEF Given, fixed, NoInstances, project
<1>4. GcpTypeOK'
  <2>1. crashes' \in 0 .. MaxCrashes /\ lost' \in BOOLEAN
    BY DEF Crash, IInv, GcpTypeOK, ConstantsOK
  <2> QED
    BY <1>1, <2>1 DEF IInv, GcpTypeOK, fixed, project
<1>5. SharedIsKept' /\ Unmanaged'
  BY <1>1, <1>3 DEF IInv, SharedIsKept, Unmanaged, fixed, project
<1>6. KnownIsSafe'
  <2> SUFFICES ASSUME ~ lost'
               PROVE  (Store \subseteq exists \/ NoInstances) /\ managed
    BY <1>1, <1>3 DEF KnownIsSafe, project
  <2>1. ~ lost /\ job.kind = "delete"
    BY DEF Crash
  <2> QED
    BY <2>1 DEF IInv, KnownIsSafe, DeleteShape
<1>7. SparesGiven' /\ CreateShape' /\ UndoShape' /\ DeleteShape'
  BY <1>1 DEF NoJob, SparesGiven, CreateShape, UndoShape, DeleteShape
<1> QED
  BY <1>4, <1>5, <1>6, <1>7 DEF IInv

LEMMA FinishKeepsIInv == ASSUME ConstantsOK, IInv, Finish PROVE IInv'
<1>1. job' = NoJob /\ UNCHANGED <<fixed, project, wanted, faults, crashes, lost>>
  BY DEF Finish
<1>2. job \in JobType
  BY DEF Finish, IInv, GcpTypeOK
<1>3. Given' = Given /\ NoInstances' = NoInstances
  BY <1>1 DEF Given, fixed, NoInstances, project
<1>4. managed' \in BOOLEAN
  BY <1>2 DEF Finish, JobType
<1>5. GcpTypeOK'
  BY <1>1, <1>4 DEF IInv, GcpTypeOK, fixed, project
<1>6. SharedIsKept' /\ Unmanaged'
  BY <1>1, <1>3 DEF IInv, SharedIsKept, Unmanaged, fixed, project
<1>7. KnownIsSafe'
  <2>1. ~ lost => Store \subseteq exists \/ NoInstances
    BY DEF IInv, KnownIsSafe
  <2>2. ASSUME ~ lost, ~ managed' PROVE NoInstances
    <3>1. CASE job.kind = "undo"
      BY <2>2, <3>1 DEF IInv, UndoShape
    <3>2. CASE job.kind = "delete"
      <4>1. ~ job.failed
        BY <1>2, <2>2, <3>2 DEF Finish, JobType
      <4>2. job.todo = <<>>
        BY <4>1 DEF Finish, Over
      <4>3. Elements(job.todo) = {}
        BY <4>2, ElementsOfEmpty
      <4>4. /\ \A x \in exists : x \in Given \cup Kept
            /\ instances = {}
        BY <3>2, <4>1, <4>3 DEF IInv, DeleteShape
      <4> QED
        BY <4>4, GivenIsShared DEF NoInstances
    <3>3. job.kind # "create"
      BY <2>2 DEF Finish
    <3> QED
      BY <1>2, <3>1, <3>2, <3>3 DEF JobType
  <2> QED
    BY <1>1, <1>3, <2>1, <2>2 DEF KnownIsSafe, project
<1>8. SparesGiven' /\ CreateShape' /\ UndoShape' /\ DeleteShape'
  BY <1>1 DEF NoJob, SparesGiven, CreateShape, UndoShape, DeleteShape
<1> QED
  BY <1>5, <1>6, <1>7, <1>8 DEF IInv

LEMMA CallAnsweredKeepsIInv == ASSUME ConstantsOK, IInv, CallAnswered PROVE IInv'
<1> DEFINE c == NextCall
           rest == Tail(job.todo)
<1>1. /\ job \in JobType /\ job # NoJob /\ c \in CallType /\ rest \in Seq(CallType)
      /\ Elements(job.todo) = {c} \cup Elements(rest)
  BY NextIsTyped DEF IInv, CallAnswered
<1>2. ASSUME NEW A, NEW B, Precedes(job.todo, A, B)
      PROVE  Precedes(rest, A, B) /\ (c \in B => Elements(rest) \cap A = {})
  BY <1>2, NextComesFirst DEF IInv, CallAnswered
<1>3. ~ Refused(c) /\ Effect(c) /\ Attempt(c)
      /\ UNCHANGED <<fixed, managed, wanted, faults, crashes, lost>>
  BY DEF CallAnswered, Attempt
<1>4. /\ exists' \subseteq Parts /\ instances' \subseteq Slots /\ edits' = edits
      /\ Unmanaged' /\ SharedIsKept'
      /\ ~ lost => Store \subseteq exists' \/ NoInstances'
  BY <1>3, AttemptIsSafe DEF CallAnswered
<1>5. /\ job' \in JobType /\ job'.kind = job.kind /\ job'.failed = job.failed
      /\ job'.todo = rest
  <2>1. edits \in 0 .. MaxEdits
    BY DEF IInv, GcpTypeOK
  <2>2. CASE c.do = "read"
    <3> DEFINE j == [kind |-> job.kind, todo |-> rest, failed |-> job.failed, edits |-> edits]
    <3>1. job' = j /\ j \in JobType
      BY <1>1, <2>1, <2>2 DEF CallAnswered, JobType
    <3> QED
      BY <3>1
  <2>3. CASE c.do # "read"
    <3> DEFINE j == [kind |-> job.kind, todo |-> rest, failed |-> job.failed,
                     edits |-> job.edits]
    <3>1. job' = j /\ j \in JobType
      BY <1>1, <2>3 DEF CallAnswered, JobType
    <3> QED
      BY <3>1
  <2> QED
    BY <2>2, <2>3
<1>6. Given' = Given /\ CreateCalls' = CreateCalls
  BY <1>3 DEF Given, CreateCalls, fixed
<1> HIDE DEF c, rest
<1>7. job' # NoJob
  BY <1>1, <1>5 DEF JobType, NoJob
<1>8. GcpTypeOK'
  BY <1>3, <1>4, <1>5 DEF IInv, GcpTypeOK, fixed
<1>9. KnownIsSafe'
  BY <1>3, <1>4, <1>7 DEF KnownIsSafe
<1>10. SparesGiven'
  <2>1. \A d \in Elements(job.todo), x \in Given : d \notin Removes(x)
    BY <1>1 DEF IInv, SparesGiven
  <2> QED
    BY <1>1, <1>5, <1>6, <2>1 DEF SparesGiven
<1>11. CreateShape'
  <2> SUFFICES ASSUME job.kind = "create"
               PROVE  CreateShape'
    BY <1>5 DEF CreateShape
  <2>1. /\ Elements(job.todo) \subseteq CreateCalls /\ ~ job.failed
        /\ Precedes(job.todo, OfOthers, OfGateway)
        /\ ~ lost /\ Elements(job.todo) \cap OfOthers # {} => NoInstances
    BY DEF IInv, CreateShape
  <2>2. /\ exists \subseteq exists' /\ (c \notin Starts /\ NoInstances => NoInstances')
        /\ c \in CreateCalls
    BY <1>1, <1>3, <2>1, AttemptToCreate DEF IInv
  <2>3. Precedes(rest, OfOthers, OfGateway) /\ (c \in OfGateway => Elements(rest) \cap OfOthers = {})
    BY <1>2, <2>1
  <2>4. ~ lost /\ Elements(rest) \cap OfOthers # {} => NoInstances'
    BY <1>1, <2>1, <2>2, <2>3, GivenIsShared
  <2>5. ASSUME ~ lost, NEW x \in Store \ exists'
        PROVE  /\ Precedes(rest, Makes(x), Starts)
               /\ Elements(rest) \cap Starts # {} => Elements(rest) \cap Makes(x) # {}
    <3>1. /\ Precedes(job.todo, Makes(x), Starts)
          /\ Elements(job.todo) \cap Starts # {} => Elements(job.todo) \cap Makes(x) # {}
      BY <2>2, <2>5 DEF IInv, CreateShape
    <3>2. c \notin Makes(x)
      BY <1>3, <2>2, <2>5, MadeThen
    <3> QED
      BY <1>1, <1>2, <3>1, <3>2
  <2>6. lost' = lost
    BY <1>3
  <2> QED
    BY <1>1, <1>5, <1>6, <2>1, <2>3, <2>4, <2>5, <2>6 DEF CreateShape
<1>12. UndoShape'
  <2> SUFFICES ASSUME job.kind = "undo"
               PROVE  UndoShape'
    BY <1>5 DEF UndoShape
  <2>1. Elements(job.todo) \subseteq RemoveCalls /\ ~ job.failed /\ (~ lost => NoInstances)
    BY DEF IInv, UndoShape
  <2>2. exists' \subseteq exists /\ instances' \subseteq instances
    BY <1>1, <1>3, <2>1, AttemptToRemove DEF IInv
  <2>3. ~ lost' => NoInstances'
    BY <1>3, <2>1, <2>2 DEF NoInstances
  <2> QED
    BY <1>1, <1>5, <2>1, <2>3 DEF UndoShape
<1>13. DeleteShape'
  <2> SUFFICES ASSUME job.kind = "delete"
               PROVE  DeleteShape'
    BY <1>5 DEF DeleteShape
  <2>1. managed' /\ Elements(rest) \subseteq RemoveCalls /\ c \in RemoveCalls
    BY <1>1, <1>3 DEF IInv, DeleteShape
  <2>2. exists' \subseteq exists /\ instances' \subseteq instances
    BY <1>3, <2>1, AttemptToRemove DEF IInv
  <2>3. ASSUME ~ job.failed
        PROVE  /\ \A x \in exists' \ (Given' \cup Kept) :
                    Elements(rest) \cap Removes(x) # {}
               /\ \A i \in instances' : Elements(rest) \cap StopsInstance(i) # {}
               /\ Precedes(rest, OfGateway, OfOthers)
               /\ Precedes(rest, Stops, Removes("route"))
               /\ Elements(rest) \cap Stops # {} => Elements(rest) \cap Removes("route") # {}
    <3>1. /\ \A x \in exists \ (Given \cup Kept) : Elements(job.todo) \cap Removes(x) # {}
          /\ \A i \in instances : Elements(job.todo) \cap StopsInstance(i) # {}
          /\ Precedes(job.todo, OfGateway, OfOthers)
          /\ Precedes(job.todo, Stops, Removes("route"))
          /\ Elements(job.todo) \cap Stops # {} => Elements(job.todo) \cap Removes("route") # {}
      BY <2>3 DEF IInv, DeleteShape
    <3>2. /\ Precedes(rest, OfGateway, OfOthers) /\ Precedes(rest, Stops, Removes("route"))
          /\ c \in Removes("route") => Elements(rest) \cap Stops = {}
      BY <1>2, <3>1
    <3>3. ASSUME NEW x \in exists' \ (Given' \cup Kept)
          PROVE  Elements(rest) \cap Removes(x) # {}
      BY <1>1, <1>3, <1>6, <2>1, <2>2, <3>1, RemovedThen
    <3>4. ASSUME NEW i \in instances'
          PROVE  Elements(rest) \cap StopsInstance(i) # {}
      BY <1>1, <1>3, <1>4, <2>1, <2>2, <3>1, RemovedThen
    <3> QED
      BY <1>1, <3>1, <3>2, <3>3, <3>4
  <2> QED
    BY <1>5, <2>1, <2>3 DEF DeleteShape
<1> QED
  BY <1>4, <1>8, <1>9, <1>10, <1>11, <1>12, <1>13 DEF IInv

(* What a failed create or undo goes on with.                              *)
LEMMA UndoCalls ==
  ASSUME ConstantsOK, NEW c \in CallType, c \in CreateCalls
  PROVE  /\ Undo(c) \in Seq(CallType) /\ Elements(Undo(c)) \subseteq RemoveCalls
         /\ \A d \in Elements(Undo(c)), x \in Given : d \notin Removes(x)
<1> DEFINE m == cleanupGCPRuntimeIAM
           f == cleanupGCPFirestoreDatabase
<1>1. /\ m \in Seq(CallType) /\ f \in Seq(CallType)
      /\ Elements(m) = IF "iam" \in owned
           THEN {Call("read", "policy"), Call("unbind", "policy"), Call("delete", "role")}
           ELSE {}
      /\ Elements(f) = IF "database" \in owned THEN {Call("delete", "database")} ELSE {}
  BY CleanupIAM, CleanupDatabase
<1> HIDE DEF m, f
<1>2. /\ Elements(m) \cup Elements(f) \subseteq RemoveCalls
      /\ \A d \in Elements(m) \cup Elements(f), x \in Given : d \notin Removes(x)
  <2>1. \A d \in Elements(m) \cup Elements(f) :
          /\ d \in CallType
          /\ \/ "iam" \in owned /\ d.do \in {"read", "unbind"} /\ d.what = "policy"
             \/ "iam" \in owned /\ d.do = "delete" /\ d.what = "role"
             \/ "database" \in owned /\ d.do = "delete" /\ d.what = "database"
    BY <1>1, ElementsAreTyped DEF Call
  <2> QED
    BY <2>1 DEF RemoveCalls, Removes, Given
<1>3. m \o f \in Seq(CallType) /\ Elements(m \o f) = Elements(m) \cup Elements(f)
  BY <1>1, ElementsOfConcat
<1>4. CASE c.what \in GatewayParts
  <2>1. Undo(c) = m \o f
    BY <1>4 DEF Undo, m, f, GatewayParts, IAMParts
  <2> QED
    BY <1>2, <1>3, <2>1
<1>5. CASE c.what \in IAMParts \cup {"account"}
  <2>1. Undo(c) = f
    BY <1>5 DEF Undo, f, GatewayParts, IAMParts
  <2> QED
    BY <1>1, <1>2, <2>1
<1>6. CASE c.what = "database"
  <2>1. Undo(c) = <<>>
    BY <1>6 DEF Undo, GatewayParts, IAMParts
  <2> QED
    BY <2>1, ElementsOfEmpty
<1> QED
  BY <1>4, <1>5, <1>6 DEF CreateCalls, IAMParts

LEMMA CleanupDatabaseSpares ==
  ASSUME ConstantsOK
  PROVE  /\ Elements(cleanupGCPFirestoreDatabase) \subseteq RemoveCalls
         /\ \A d \in Elements(cleanupGCPFirestoreDatabase), x \in Given : d \notin Removes(x)
<1>1. \A d \in Elements(cleanupGCPFirestoreDatabase) :
        d \in CallType /\ "database" \in owned /\ d.do = "delete" /\ d.what = "database"
  BY CleanupDatabase, ElementsAreTyped DEF Call
<1> QED
  BY <1>1 DEF RemoveCalls, Removes, Given

LEMMA ErrorKeepsIInv ==
  ASSUME ConstantsOK, IInv, Busy, Attempt(NextCall), AfterError(NextCall),
         lost' = (lost \/ Forgets(NextCall)), UNCHANGED <<fixed, managed, wanted>>,
         faults' \in 0 .. MaxFaults, crashes' \in 0 .. MaxCrashes
  PROVE  IInv'
<1> DEFINE c == NextCall
           rest == Tail(job.todo)
<1>1. /\ job \in JobType /\ job # NoJob /\ c \in CallType /\ rest \in Seq(CallType)
      /\ Elements(job.todo) = {c} \cup Elements(rest)
  BY NextIsTyped DEF IInv
<1>2. /\ exists' \subseteq Parts /\ instances' \subseteq Slots /\ edits' = edits
      /\ Unmanaged' /\ SharedIsKept'
      /\ ~ lost => Store \subseteq exists' \/ NoInstances'
  BY AttemptIsSafe
<1>3. Given' = Given
  BY DEF Given, fixed
<1>4. lost' \in BOOLEAN /\ (lost => lost')
  BY DEF IInv, GcpTypeOK, Forgets
<1>5. /\ AfterError(c) /\ lost' = (lost \/ Forgets(c)) /\ Attempt(c)
      /\ rest = Tail(job.todo)
  OBVIOUS
<1> HIDE DEF c, rest
<1>6. ASSUME job' \in JobType, SparesGiven', CreateShape', UndoShape', DeleteShape'
      PROVE  IInv'
  <2>1. job' # NoJob
    BY <1>6 DEF JobType, NoJob
  <2>2. KnownIsSafe'
    BY <1>2, <1>4, <2>1 DEF KnownIsSafe
  <2>3. GcpTypeOK'
    BY <1>2, <1>4, <1>6 DEF IInv, GcpTypeOK, fixed
  <2> QED
    BY <1>2, <1>6, <2>2, <2>3 DEF IInv
<1>7. CASE job.kind = "create"
  <2>1. c \in CreateCalls
    BY <1>1, <1>7 DEF IInv, CreateShape
  <2>2. /\ Undo(c) \in Seq(CallType) /\ Elements(Undo(c)) \subseteq RemoveCalls
        /\ \A d \in Elements(Undo(c)), x \in Given : d \notin Removes(x)
    BY <1>1, <2>1, UndoCalls
  <2>3. job' = [kind |-> "undo", todo |-> Undo(c), failed |-> FALSE, edits |-> 0]
    BY <1>5, <1>7 DEF AfterError, Job
  <2>4. job' \in JobType
    BY <2>2, <2>3 DEF JobType, ConstantsOK
  <2>5. ~ lost' => NoInstances'
    <3> SUFFICES ASSUME ~ lost' PROVE NoInstances'
      OBVIOUS
    <3>1. ~ lost /\ c.what \notin GatewayParts
      BY <1>5, <1>7 DEF Forgets
    <3>2. c \in OfOthers
      BY <1>1, <3>1 DEF OfOthers, OfGateway
    <3>3. NoInstances /\ c \notin Starts
      BY <1>1, <1>7, <3>1, <3>2, GivenIsShared DEF IInv, CreateShape, OfOthers
    <3> QED
      BY <1>5, <2>1, <3>3, AttemptToCreate DEF IInv
  <2>6. UndoShape' /\ CreateShape' /\ DeleteShape'
    BY <2>2, <2>3, <2>5 DEF UndoShape, CreateShape, DeleteShape
  <2>7. SparesGiven'
    BY <1>3, <2>2, <2>3 DEF SparesGiven
  <2> QED
    BY <1>6, <2>4, <2>6, <2>7
<1>8. \A d \in Elements(rest), x \in Given : d \notin Removes(x)
  BY <1>1 DEF IInv, SparesGiven
<1>9. CASE job.kind = "undo"
  <2> DEFINE todo == IF c.what \in IAMParts THEN cleanupGCPFirestoreDatabase ELSE rest
  <2>1. /\ todo \in Seq(CallType) /\ Elements(todo) \subseteq RemoveCalls
        /\ \A d \in Elements(todo), x \in Given : d \notin Removes(x)
    <3>1. CASE c.what \in IAMParts
      BY <3>1, CleanupDatabase, CleanupDatabaseSpares
    <3>2. CASE c.what \notin IAMParts
      BY <1>1, <1>8, <1>9, <3>2 DEF IInv, UndoShape
    <3> QED
      BY <3>1, <3>2
  <2>2. job' = [job EXCEPT !.todo = todo]
    BY <1>5, <1>9 DEF AfterError
  <2> HIDE DEF todo
  <2>3. job' \in JobType /\ job'.kind = "undo" /\ job'.todo = todo /\ job'.failed = job.failed
    BY <1>1, <1>9, <2>1, <2>2 DEF JobType
  <2>4. lost' /\ ~ job.failed
    BY <1>5, <1>9 DEF Forgets, IInv, UndoShape
  <2>5. UndoShape' /\ CreateShape' /\ DeleteShape'
    BY <2>1, <2>3, <2>4 DEF UndoShape, CreateShape, DeleteShape
  <2>6. SparesGiven'
    BY <1>3, <2>1, <2>3 DEF SparesGiven
  <2> QED
    BY <1>6, <2>3, <2>5, <2>6
<1>10. CASE job.kind = "delete"
  <2>1. job' = [job EXCEPT !.failed = TRUE, !.todo = rest]
    BY <1>5, <1>10 DEF AfterError
  <2>2. job' \in JobType /\ job'.kind = "delete" /\ job'.todo = rest /\ job'.failed
    BY <1>1, <1>10, <2>1 DEF JobType
  <2>3. managed' /\ Elements(rest) \subseteq RemoveCalls
    BY <1>1, <1>10 DEF IInv, DeleteShape
  <2>4. UndoShape' /\ CreateShape' /\ DeleteShape'
    BY <2>2, <2>3 DEF UndoShape, CreateShape, DeleteShape
  <2>5. SparesGiven'
    BY <1>3, <1>8, <2>2 DEF SparesGiven
  <2> QED
    BY <1>6, <2>2, <2>4, <2>5
<1> QED
  BY <1>1, <1>7, <1>9, <1>10 DEF JobType

LEMMA CallRefusedKeepsIInv == ASSUME ConstantsOK, IInv, CallRefused PROVE IInv'
<1>1. Attempt(NextCall)
  BY DEF CallRefused, Attempt
<1>2. faults' \in 0 .. MaxFaults /\ crashes' \in 0 .. MaxCrashes
  BY DEF CallRefused, IInv, GcpTypeOK
<1> QED
  BY <1>1, <1>2, ErrorKeepsIInv DEF CallRefused

LEMMA CallFailsKeepsIInv == ASSUME ConstantsOK, IInv, CallFails PROVE IInv'
<1>1. Attempt(NextCall)
  BY DEF CallFails, Attempt
<1>2. faults' \in 0 .. MaxFaults /\ crashes' \in 0 .. MaxCrashes
  BY DEF CallFails, IInv, GcpTypeOK, ConstantsOK
<1> QED
  BY <1>1, <1>2, ErrorKeepsIInv DEF CallFails

(* What others do: the calls of the operation under way stay as they are.  *)
LEMMA RetireKeepsIInv == ASSUME ConstantsOK, IInv, Retire \/ UNCHANGED gcpVars PROVE IInv'
<1>1. UNCHANGED <<fixed, project, managed, job, faults, crashes, lost>> /\ wanted' \in BOOLEAN
  BY DEF Retire, gcpVars, IInv, GcpTypeOK
<1>2. UNCHANGED <<repair, owned, exists, instances, edits>>
  BY <1>1 DEF fixed, project
<1>3. GcpTypeOK' /\ SharedIsKept' /\ SparesGiven' /\ Unmanaged' /\ KnownIsSafe'
  BY <1>1, <1>2
     DEF IInv, GcpTypeOK, SharedIsKept, SparesGiven, Unmanaged, KnownIsSafe, Given, NoInstances
<1>4. CreateShape' /\ UndoShape' /\ DeleteShape'
  BY <1>1, <1>2 DEF IInv, CreateShape, UndoShape, DeleteShape, Given, NoInstances, CreateCalls
<1> QED
  BY <1>3, <1>4 DEF IInv

LEMMA PolicyEditedKeepsIInv == ASSUME ConstantsOK, IInv, PolicyEdited PROVE IInv'
<1>1. UNCHANGED <<repair, owned, exists, instances, managed, job, wanted, faults, crashes, lost>>
  BY DEF PolicyEdited, fixed
<1>2. edits' \in 0 .. MaxEdits
  BY DEF PolicyEdited, IInv, GcpTypeOK, ConstantsOK
<1>3. GcpTypeOK' /\ SharedIsKept' /\ SparesGiven' /\ Unmanaged' /\ KnownIsSafe'
  BY <1>1, <1>2
     DEF IInv, GcpTypeOK, SharedIsKept, SparesGiven, Unmanaged, KnownIsSafe, Given, NoInstances
<1>4. CreateShape' /\ UndoShape' /\ DeleteShape'
  BY <1>1 DEF IInv, CreateShape, UndoShape, DeleteShape, Given, NoInstances, CreateCalls
<1> QED
  BY <1>3, <1>4 DEF IInv

(* An agent that inserts a route has an instance, which a destroy still    *)
(* stops before it removes the route; the shadow it does not look for.     *)
LEMMA AgentRoutesKeepIInv ==
  ASSUME ConstantsOK, IInv,
         AgentInsertsRoute \/ \E part \in {"route", "shadow"} : AgentDeletesRoute(part)
  PROVE  IInv'
<1>1. /\ UNCHANGED <<repair, owned, instances, edits, managed, job, wanted, faults, crashes, lost>>
      /\ instances # {}
      /\ \E part \in {"route", "shadow"} : exists' \in {exists \cup {part}, exists \ {part}}
  BY DEF AgentInsertsRoute, AgentDeletesRoute, AgentCanRun, fixed
<1>2. /\ Given' = Given /\ CreateCalls' = CreateCalls /\ NoInstances' = NoInstances
      /\ Store \ exists' = Store \ exists /\ Given \cap {"route", "shadow"} = {}
  BY <1>1 DEF Given, CreateCalls, NoInstances, Store
<1>3. GcpTypeOK' /\ SharedIsKept' /\ SparesGiven' /\ Unmanaged' /\ KnownIsSafe'
  <2>1. GcpTypeOK' /\ SharedIsKept' /\ SparesGiven' /\ Unmanaged'
    BY <1>1, <1>2 DEF IInv, GcpTypeOK, SharedIsKept, SparesGiven, Unmanaged, Parts
  <2>2. Store \subseteq exists => Store \subseteq exists'
    BY <1>2
  <2> QED
    BY <1>1, <1>2, <2>1, <2>2 DEF IInv, KnownIsSafe
<1>4. CreateShape' /\ UndoShape'
  BY <1>1, <1>2 DEF IInv, CreateShape, UndoShape
<1>5. DeleteShape'
  <2>1. job.kind = "delete" /\ ~ job.failed => Elements(job.todo) \cap Removes("route") # {}
    BY <1>1, GivenIsShared DEF IInv, DeleteShape
  <2>2. exists' \ (Given \cup Kept) \subseteq (exists \ (Given \cup Kept)) \cup {"route"}
    BY <1>1 DEF Kept
  <2> QED
    BY <1>1, <1>2, <2>1, <2>2 DEF IInv, DeleteShape, Kept
<1> QED
  BY <1>3, <1>4, <1>5 DEF IInv

LEMMA InstanceLostKeepsIInv ==
  ASSUME ConstantsOK, IInv, NEW i \in Slots, InstanceLost(i) PROVE IInv'
<1>1. /\ UNCHANGED <<repair, owned, exists, edits, managed, job, wanted, crashes, lost>>
      /\ instances' \subseteq instances
  BY DEF InstanceLost, fixed
<1>2. faults' \in 0 .. MaxFaults
  BY DEF InstanceLost, IInv, GcpTypeOK, ConstantsOK
<1>3. Given' = Given /\ CreateCalls' = CreateCalls /\ (NoInstances => NoInstances')
  BY <1>1 DEF Given, CreateCalls, NoInstances
<1>4. GcpTypeOK' /\ SharedIsKept' /\ SparesGiven' /\ Unmanaged' /\ KnownIsSafe'
  BY <1>1, <1>2, <1>3
     DEF IInv, GcpTypeOK, SharedIsKept, SparesGiven, Unmanaged, KnownIsSafe
<1>5. CreateShape' /\ UndoShape' /\ DeleteShape'
  BY <1>1, <1>3 DEF IInv, CreateShape, UndoShape, DeleteShape
<1> QED
  BY <1>4, <1>5 DEF IInv

(* A group that repairs an instance exists, and a destroy still deletes it.*)
LEMMA InstanceRepairedKeepsIInv ==
  ASSUME ConstantsOK, IInv, NEW i \in Slots, InstanceRepaired(i) PROVE IInv'
<1>1. /\ UNCHANGED <<repair, owned, exists, edits, managed, job, wanted, faults, crashes, lost>>
      /\ instances' = instances \cup {i} /\ "group" \in exists /\ ~ NoInstances
  BY DEF InstanceRepaired, fixed, NoInstances
<1>2. Given' = Given /\ CreateCalls' = CreateCalls
  BY <1>1 DEF Given, CreateCalls
<1>3. GcpTypeOK' /\ SharedIsKept' /\ SparesGiven' /\ Unmanaged' /\ KnownIsSafe'
  BY <1>1, <1>2
     DEF IInv, GcpTypeOK, SharedIsKept, SparesGiven, Unmanaged, KnownIsSafe
<1>4. CreateShape' /\ UndoShape'
  BY <1>1, <1>2 DEF IInv, CreateShape, UndoShape
<1>5. DeleteShape'
  <2>1. job.kind = "delete" /\ ~ job.failed =>
          \A k : Elements(job.todo) \cap StopsInstance(k) # {}
    BY <1>1, GivenIsShared DEF IInv, DeleteShape
  <2> QED
    BY <1>1, <1>2, <2>1 DEF IInv, DeleteShape
<1> QED
  BY <1>3, <1>4, <1>5 DEF IInv

LEMMA NextKeepsIInv == ASSUME ConstantsOK, IInv, [Next]_gcpVars PROVE IInv'
<1>1. CASE Create BY <1>1, CreateKeepsIInv
<1>2. CASE Delete BY <1>2, DeleteKeepsIInv
<1>3. CASE Read BY <1>3, ReadKeepsIInv
<1>4. CASE CallAnswered BY <1>4, CallAnsweredKeepsIInv
<1>5. CASE CallRefused BY <1>5, CallRefusedKeepsIInv
<1>6. CASE CallFails BY <1>6, CallFailsKeepsIInv
<1>7. CASE Finish BY <1>7, FinishKeepsIInv
<1>8. CASE Crash BY <1>8, CrashKeepsIInv
<1>9. CASE Retire \/ UNCHANGED gcpVars BY <1>9, RetireKeepsIInv
<1>10. CASE PolicyEdited BY <1>10, PolicyEditedKeepsIInv
<1>11. CASE AgentInsertsRoute \/ \E part \in {"route", "shadow"} : AgentDeletesRoute(part)
  BY <1>11, AgentRoutesKeepIInv
<1>12. ASSUME NEW i \in Slots, InstanceLost(i) \/ InstanceRepaired(i) PROVE IInv'
  BY <1>12, InstanceLostKeepsIInv, InstanceRepairedKeepsIInv
<1> QED
  BY <1>1, <1>2, <1>3, <1>4, <1>5, <1>6, <1>7, <1>8, <1>9, <1>10, <1>11, <1>12 DEF Next

(* The strengthened invariant, for any number of instances and bounds.     *)
THEOREM GcpInvariant == ASSUME ConstantsOK PROVE Spec => []IInv
<1>1. Init => IInv
  BY InitIInv
<1>2. IInv /\ [Next]_gcpVars => IInv'
  BY NextKeepsIInv
<1> QED
  BY <1>1, <1>2, PTL DEF Spec

(* Every variable keeps its type: the operations are sequences of the      *)
(* calls that exist.                                                       *)
THEOREM GcpTypeCorrect == ASSUME ConstantsOK PROVE Spec => []GcpTypeOK
<1>1. IInv => GcpTypeOK
  BY DEF IInv
<1> QED
  BY <1>1, GcpInvariant, PTL

(* As long as Terraform knows of all that exists, whatever calls failed    *)
(* and however often the provider crashed, no instance runs without the    *)
(* database, role and binding its agent needs.                             *)
THEOREM StoreOutlivesAgents == ASSUME ConstantsOK PROVE Spec => []AgentsKeepTheirStore
<1>1. IInv => AgentsKeepTheirStore
  BY DEF IInv, KnownIsSafe, AgentsKeepTheirStore, NoInstances, Store
<1> QED
  BY <1>1, GcpInvariant, PTL

(* What somebody else made and the gateway only uses is never removed.     *)
THEOREM GivenIsKept == ASSUME ConstantsOK PROVE Spec => []SharedIsKept
<1>1. IInv => SharedIsKept
  BY DEF IInv
<1> QED
  BY <1>1, GcpInvariant, PTL

(* No write of the IAM policy takes back an edit that others made after    *)
(* the provider read it.                                                   *)
THEOREM EditsAreKept == ASSUME ConstantsOK PROVE Spec => OthersEditsAreKept
<1>1. ASSUME IInv, [Next]_gcpVars PROVE [edits' >= edits]_gcpVars
  <2>1. edits \in Int
    BY <1>1 DEF IInv, GcpTypeOK
  <2>2. CASE edits' = edits
    BY <2>1, <2>2
  <2>3. CASE Busy /\ Attempt(NextCall) /\ UNCHANGED fixed
    BY <1>1, <2>1, <2>3, AttemptIsSafe
  <2>4. CASE PolicyEdited
    BY <2>1, <2>4 DEF PolicyEdited
  <2>5. CASE CallAnswered \/ CallRefused \/ CallFails
    BY <2>3, <2>5 DEF CallAnswered, CallRefused, CallFails, Attempt
  <2>6. CASE \/ Create \/ Delete \/ Read \/ Finish \/ Crash \/ Retire \/ AgentInsertsRoute
             \/ \E part \in {"route", "shadow"} : AgentDeletesRoute(part)
             \/ \E i \in Slots : InstanceLost(i) \/ InstanceRepaired(i)
             \/ UNCHANGED gcpVars
    BY <2>2, <2>6 DEF Create, Delete, Read, Finish, Crash, Retire, AgentInsertsRoute, AgentDeletesRoute,
       InstanceLost, InstanceRepaired, project, gcpVars
  <2> QED
    BY <1>1, <2>4, <2>5, <2>6 DEF Next
<1> QED
  BY <1>1, GcpInvariant, PTL DEF Spec, OthersEditsAreKept

(* A destroy that reports success has removed all that the gateway and its *)
(* agents made but the service account and a shadow route that an agent    *)
(* left behind, and no instance is there; the route, which agents put back *)
(* while one of them is, is not.                                           *)
THEOREM DestroyLeavesOnlyKept == ASSUME ConstantsOK PROVE Spec => GcpDestroyIsComplete
<1>1. ASSUME IInv, Finish, job.kind = "delete", ~ job.failed
      PROVE  exists \subseteq Given \cup Kept /\ instances = {}
  <2>1. job.todo = <<>>
    BY <1>1 DEF Finish, Over
  <2>2. Elements(job.todo) = {}
    BY <2>1, ElementsOfEmpty
  <2> QED
    BY <1>1, <2>2 DEF IInv, DeleteShape
<1>2. IInv /\ [Next]_gcpVars =>
        [ Finish /\ job.kind = "delete" /\ ~ job.failed =>
            exists \subseteq (Given \cup Kept) /\ instances = {} ]_gcpVars
  BY <1>1
<1> QED
  BY <1>2, GcpInvariant, PTL DEF Spec, GcpDestroyIsComplete

=============================================================================

----------------------------- MODULE GcpGateway -----------------------------
(***************************************************************************)
(* The betternat_gcp_gateway resource of the Terraform provider and the    *)
(* installer below it (tfprovider/gcp_gateway_resource.go and _lifecycle,  *)
(* install/gcp): one gateway in one zone, with its Firestore database,     *)
(* runtime service account, custom role and project binding, created and   *)
(* destroyed by calls of which any may fail or be the provider's last.     *)
(*                                                                         *)
(* Other people edit the project's IAM policy, the agents of running       *)
(* instances replace the route and for a handover insert a second one, the *)
(* shadow, and a managed instance group replaces instances.                *)
(***************************************************************************)
EXTENDS Integers, Sequences

CONSTANTS
  GatewayCount,   \* instances 1 .. GatewayCount
  MaxFaults,      \* calls that fail and instances that are lost
  MaxCrashes,     \* crashes of the provider process
  MaxEdits        \* edits of the IAM policy by others

ConstantsOK ==
  /\ GatewayCount \in Nat \ {0}
  /\ MaxFaults \in Nat /\ MaxCrashes \in Nat /\ MaxEdits \in Nat

VARIABLES
  repair,     \* capacity_repair_mode: "unmanaged" or "mig"; an update is refused
  owned,      \* which of "database", "account", "iam" the gateway manages itself
  exists,     \* what exists in the project for this gateway
  instances,  \* the gateway instances that exist
  edits,      \* what others' edits of the IAM policy are in force
  managed,    \* whether Terraform's state has the gateway
  job,        \* the provider's operation under way
  wanted,    \* whether the user still wants the gateway
  faults, crashes,
  lost        \* history: Terraform may not know of all that exists

project == <<exists, instances, edits>>
fixed == <<repair, owned>>
gcpVars == <<fixed, project, managed, job, wanted, faults, crashes, lost>>

(* What somebody else made, and the gateway only uses.                     *)
Given ==
  ({"database", "account"} \ owned) \cup (IF "iam" \in owned THEN {} ELSE {"role", "binding"})

(* What no operation of the provider deletes.                              *)
Kept == {"account", "shadow"}

NoJob == [kind |-> "none"]
Slots == 1 .. GatewayCount

(***************************************************************************)
(* The operations, as the calls they make in the order of the code.        *)
(***************************************************************************)

Calls(do, whats) == [i \in DOMAIN whats |-> [do |-> do, what |-> whats[i], slot |-> 0]]
EachInstance(do) == [i \in Slots |-> [do |-> do, what |-> "instance", slot |-> i]]

IfOwned(part, calls) == IF part \in owned THEN calls ELSE <<>>

applyGCPFirestoreDatabase == IfOwned("database", Calls("ensure", <<"database">>))
applyGCPRuntimeServiceAccount == IfOwned("account", Calls("ensure", <<"account">>))
applyGCPRuntimeIAM ==
  IfOwned("iam", Calls("ensure", <<"role">>) \o Calls("read", <<"policy">>)
                 \o Calls("bind", <<"policy">>))
readBack == Calls("await", <<"route">>)
Apply ==
  (IF repair = "mig"
   THEN Calls("insert", <<"template", "group">>) \o Calls("await", <<"instance">>)
   ELSE EachInstance("insert"))
  \o Calls("insert", <<"route">>) \o readBack

\* faulty: the route goes first, while agents may put it back.
CleanupRouteFirst ==
  IF repair = "mig" THEN Calls("delete", <<"route", "group", "template">>)
  ELSE Calls("delete", <<"route">>) \o EachInstance("delete")

Cleanup ==
  IF repair = "mig" THEN Calls("delete", <<"group", "route", "template">>)
  ELSE EachInstance("delete") \o Calls("delete", <<"route">>)
cleanupGCPRuntimeIAM ==
  IfOwned("iam", Calls("read", <<"policy">>) \o Calls("unbind", <<"policy">>)
                 \o Calls("delete", <<"role">>))

\* faulty: the database is deleted whoever made it.
cleanupAnyDatabase == Calls("delete", <<"database">>)

cleanupGCPFirestoreDatabase == IfOwned("database", Calls("delete", <<"database">>))

GatewayParts == {"instance", "template", "group", "route"}
IAMParts == {"role", "policy"}

(* What a Create that failed at a call undoes: the parts before the one    *)
(* that failed, and of the gateway itself nothing. The service account is  *)
(* kept for a later gateway.                                               *)
Undo(call) ==
  CASE call.what \in GatewayParts -> cleanupGCPRuntimeIAM \o cleanupGCPFirestoreDatabase
    [] call.what \in IAMParts \cup {"account"} -> cleanupGCPFirestoreDatabase
    [] call.what = "database" -> <<>>

(***************************************************************************)
(* What a call does in the project.                                        *)
(***************************************************************************)

\* faulty: the etag of the policy is not sent back.
RefusedUnlessEdited(call) ==
  call.do = "insert"
  /\ IF call.what = "instance" THEN call.slot \in instances ELSE call.what \in exists

\* faulty: "not found" fails a deletion, and "already exists" a preparation.
RefusedNotFound(call) ==
  \/ RefusedUnlessEdited(call)
  \/ call.do = "delete"
     /\ IF call.what = "instance" THEN call.slot \notin instances ELSE call.what \notin exists
RefusedExisting(call) ==
  RefusedUnlessEdited(call) \/ (call.do = "ensure" /\ call.what \in exists)

(* The insertion of what exists is refused, and a policy that was edited   *)
(* since it was read.                                                      *)
Refused(call) ==
  \/ call.do = "insert"
     /\ IF call.what = "instance" THEN call.slot \in instances ELSE call.what \in exists
  \/ call.do \in {"bind", "unbind"} /\ job.edits # edits

EnsureObject(call) ==
  /\ call.do = "ensure" /\ exists' = exists \cup {call.what}
  /\ UNCHANGED <<instances, edits>>

\* faulty: an instance is recorded as a part of the gateway.
InsertObjectTwice(call) ==
  /\ call.do = "insert" /\ exists' = exists \cup {call.what}
  /\ UNCHANGED <<instances, edits>>

InsertObject(call) ==
  /\ call.do = "insert"
  /\ exists' = IF call.what = "instance" THEN exists ELSE exists \cup {call.what}
  /\ instances' = CASE call.what = "instance" -> instances \cup {call.slot}
                    [] call.what = "group"    -> Slots
                    [] OTHER                  -> instances
  /\ UNCHANGED edits

DeleteObject(call) ==
  /\ call.do = "delete"
  /\ exists' = exists \ {call.what}
  /\ instances' = CASE call.what = "instance" -> instances \ {call.slot}
                    [] call.what = "group"    -> {}
                    [] OTHER                  -> instances
  /\ UNCHANGED edits

(* The policy that was read is written, with the member added or removed;  *)
(* nothing is written when that changes nothing.                           *)
addBindingMember(call) ==
  /\ call.do = "bind" /\ exists' = exists \cup {"binding"}
  /\ UNCHANGED instances
  /\ IF "binding" \in exists THEN UNCHANGED edits
     ELSE edits' = job.edits

removeBindingMember(call) ==
  /\ call.do = "unbind" /\ exists' = exists \ {"binding"}
  /\ UNCHANGED instances
  /\ IF "binding" \in exists THEN edits' = job.edits
     ELSE UNCHANGED edits

OtherCall(call) == call.do \in {"read", "await"} /\ UNCHANGED project

Effect(call) ==
  \/ EnsureObject(call) \/ InsertObject(call) \/ DeleteObject(call)
  \/ addBindingMember(call) \/ removeBindingMember(call) \/ OtherCall(call)

(***************************************************************************)
(* The provider.                                                           *)
(***************************************************************************)

Job(kind, todo) ==
  job' = [kind |-> kind, todo |-> todo, failed |-> FALSE, edits |-> 0]

Create ==
  /\ job = NoJob /\ wanted /\ ~managed
  /\ Job("create", applyGCPFirestoreDatabase \o applyGCPRuntimeServiceAccount
                   \o applyGCPRuntimeIAM \o Apply)
  /\ UNCHANGED <<fixed, project, managed, wanted, faults, crashes, lost>>

Delete ==
  /\ job = NoJob /\ managed /\ ~wanted
  /\ Job("delete", Cleanup \o cleanupGCPRuntimeIAM \o cleanupGCPFirestoreDatabase)
  /\ UNCHANGED <<fixed, project, managed, wanted, faults, crashes, lost>>

(* A refresh that finds no instance takes the gateway out of the state.    *)
Read ==
  /\ job = NoJob /\ managed /\ instances = {}
  /\ managed' = FALSE /\ lost' = TRUE
  /\ UNCHANGED <<fixed, project, job, wanted, faults, crashes>>

\* faulty: a destroy goes on to the last part whatever failed.
OverAtTheEnd == job.todo = <<>>

(* Nothing is left to do; or a destroy, which goes through all of the      *)
(* gateway's parts, met an error and stops before the others.              *)
Over == job.todo # <<>> => job.failed /\ Head(job.todo).what \notin GatewayParts

Busy == job # NoJob /\ ~Over
NextCall == Head(job.todo)

CallAnswered ==
  /\ Busy /\ ~Refused(NextCall) /\ Effect(NextCall)
  /\ job' = IF NextCall.do = "read"
            THEN [job EXCEPT !.todo = Tail(@), !.edits = edits]
            ELSE [job EXCEPT !.todo = Tail(@)]
  /\ UNCHANGED <<fixed, managed, wanted, faults, crashes, lost>>

(* A failed create is undone. An error of an undo is noted and the next    *)
(* part undone.                                                            *)
AfterError(call) ==
  CASE job.kind = "create" -> Job("undo", Undo(call))
    [] job.kind = "undo" ->
         job' = [job EXCEPT !.todo =
           IF call.what \in IAMParts THEN cleanupGCPFirestoreDatabase ELSE Tail(@)]
    [] job.kind = "delete" -> job' = [job EXCEPT !.failed = TRUE, !.todo = Tail(@)]

(* A failed create forgets the parts of the gateway or the database, a     *)
(* failed undo what it did not undo.                                       *)
Forgets(call) ==
  \/ job.kind = "create" /\ call.what \in GatewayParts \cup {"database"}
  \/ job.kind = "undo"

CallRefused ==
  /\ Busy /\ Refused(NextCall) /\ AfterError(NextCall)
  /\ lost' = (lost \/ Forgets(NextCall))
  /\ UNCHANGED <<fixed, project, managed, wanted, faults, crashes>>

CallFails ==
  /\ Busy /\ faults < MaxFaults /\ faults' = faults + 1
  /\ UNCHANGED project \/ (~Refused(NextCall) /\ Effect(NextCall))
  /\ AfterError(NextCall)
  /\ lost' = (lost \/ Forgets(NextCall))
  /\ UNCHANGED <<fixed, managed, wanted, crashes>>

Finish ==
  /\ job # NoJob /\ Over /\ job' = NoJob
  /\ managed' = CASE job.kind = "create" -> TRUE
                  [] job.kind = "undo"   -> FALSE
                  [] job.kind = "delete" -> job.failed
  /\ UNCHANGED <<fixed, project, wanted, faults, crashes, lost>>

Crash ==
  /\ job # NoJob /\ crashes < MaxCrashes
  /\ crashes' = crashes + 1 /\ job' = NoJob
  /\ lost' = (lost \/ job.kind # "delete")
  /\ UNCHANGED <<fixed, project, managed, wanted, faults>>

(***************************************************************************)
(* Around the provider.                                                    *)
(***************************************************************************)

Retire ==
  /\ job = NoJob /\ wanted /\ wanted' = FALSE
  /\ UNCHANGED <<fixed, project, managed, job, faults, crashes, lost>>

PolicyEdited ==
  /\ edits < MaxEdits /\ edits' = edits + 1
  /\ UNCHANGED <<fixed, exists, instances, managed, job, wanted, faults, crashes, lost>>

AgentCanRun == {"database", "role", "binding"} \subseteq exists /\ instances # {}

(* ReplaceRoute of an agent: the owner of the lease deletes and inserts the*)
(* route; handing over to another instance it inserts that one's shadow    *)
(* while there is a route, and deletes it again unless something fails.    *)
AgentInsertsRoute ==
  /\ AgentCanRun
  /\ \/ "route" \notin exists /\ exists' = exists \cup {"route"}
     \/ /\ "route" \in exists /\ \E i, j \in instances : i # j
        /\ exists' = exists \cup {"shadow"}
  /\ UNCHANGED <<fixed, instances, edits, managed, job, wanted, faults, crashes, lost>>

AgentDeletesRoute(part) ==
  /\ AgentCanRun /\ part \in exists /\ exists' = exists \ {part}
  /\ UNCHANGED <<fixed, instances, edits, managed, job, wanted, faults, crashes, lost>>

InstanceLost(i) ==
  /\ i \in instances /\ faults < MaxFaults
  /\ instances' = instances \ {i} /\ faults' = faults + 1
  /\ UNCHANGED <<fixed, exists, edits, managed, job, wanted, crashes, lost>>

InstanceRepaired(i) ==
  /\ "group" \in exists /\ i \in Slots \ instances
  /\ instances' = instances \cup {i}
  /\ UNCHANGED <<fixed, exists, edits, managed, job, wanted, faults, crashes, lost>>

Init ==
  /\ repair \in {"unmanaged", "mig"}
  /\ owned \in SUBSET {"database", "account", "iam"}
  /\ exists = Given /\ instances = {} /\ edits = 0
  /\ managed = FALSE /\ job = NoJob /\ wanted = TRUE
  /\ faults = 0 /\ crashes = 0 /\ lost = FALSE

Next ==
  \/ Create \/ Delete \/ Read
  \/ CallAnswered \/ CallRefused \/ CallFails \/ Finish \/ Crash
  \/ Retire \/ PolicyEdited \/ AgentInsertsRoute
  \/ \E part \in {"route", "shadow"} : AgentDeletesRoute(part)
  \/ \E i \in Slots : InstanceLost(i) \/ InstanceRepaired(i)

(* Calls return, groups repair their instances, and Terraform is run again *)
(* until the user has what he wants.                                       *)
Proceed == CallAnswered \/ CallRefused \/ Finish
Repaired == \E i \in Slots : InstanceRepaired(i)
RunAgain == Create \/ Delete

Fairness == WF_gcpVars(Proceed) /\ WF_gcpVars(Repaired) /\ WF_gcpVars(RunAgain)

Spec == Init /\ [][Next]_gcpVars
FairSpec == Spec /\ Fairness

(***************************************************************************)
(* Properties.                                                             *)
(***************************************************************************)

Parts == {"database", "account", "role", "binding", "template", "group", "route", "shadow"}
CallType ==
  [do : {"ensure", "read", "bind", "unbind", "await", "insert", "delete"},
   what : Parts \cup {"policy", "instance"}, slot : 0 .. GatewayCount]
JobType ==
  [kind : {"create", "undo", "delete"}, todo : Seq(CallType), failed : BOOLEAN,
   edits : 0 .. MaxEdits]

GcpTypeOK ==
  /\ repair \in {"unmanaged", "mig"} /\ owned \subseteq {"database", "account", "iam"}
  /\ exists \subseteq Parts /\ instances \subseteq Slots /\ edits \in 0 .. MaxEdits
  /\ managed \in BOOLEAN /\ wanted \in BOOLEAN /\ lost \in BOOLEAN
  /\ job = NoJob \/ job \in JobType
  /\ faults \in 0 .. MaxFaults /\ crashes \in 0 .. MaxCrashes

(* While Terraform knows of all that exists, no instance runs without the  *)
(* lease database and the role its agent needs.                            *)
AgentsKeepTheirStore ==
  ~lost /\ instances # {} => {"database", "role", "binding"} \subseteq exists

(* What the gateway does not manage stays as it is, whatever fails.        *)
SharedIsKept == Given \subseteq exists

(* Others' edits of the project's policy are never undone.                 *)
OthersEditsAreKept == [][edits' >= edits]_gcpVars

(* A destroy that reports success leaves no instance, and nothing of the   *)
(* gateway's but the service account and a shadow route that its agents    *)
(* did not delete: in particular not the route, which they may put back    *)
(* until the last of them is gone.                                         *)
GcpDestroyIsComplete ==
  [][ (Finish /\ job.kind = "delete" /\ ~job.failed) =>
        exists \subseteq Given \cup Kept /\ instances = {} ]_gcpVars

(* As long as the user wants a gateway, applying again ends with one; once *)
(* he does not, destroying it ends and leaves what every destroy leaves    *)
(* and what a create that failed at the IAM setup made of it. Neither is   *)
(* promised once parts of a gateway were forgotten.                        *)
Settled ==
  IF wanted THEN managed \/ lost
  ELSE ~managed /\ (lost \/ exists \subseteq Given \cup Kept \cup {"role", "binding"})
Converges == []<>Settled
=============================================================================

---------------------------- MODULE MCGateways ----------------------------
(* What is made in the cloud: a Terraform project with one gateway, on AWS *)
(* or on GCP; or, on GCP, the route or the address that the agents of a    *)
(* gateway give to its owner.  A behaviour has one of the four.            *)
EXTENDS AwsGateway

CONSTANTS
  GatewayCount, MaxEdits, MaxGcpFaults,
  Agents, AddressAgents, None, Canonical, Attempts,
  MaxFailures, MaxUnknowns, MaxAddressFaults, MaxOwners

VARIABLES
  what,   \* "aws", "gcp", "route" or "address"
  repair, owned, exists, instances, edits, managed, job, lost,
  gcpWanted, gcpFaults, gcpCrashes,
  nextHop, pending, owner, call, clean, used,
  config, changing, holder, calls, spent

Gcp == INSTANCE GcpGateway WITH
  MaxFaults <- MaxGcpFaults,
  wanted <- gcpWanted, faults <- gcpFaults, crashes <- gcpCrashes
Routes == INSTANCE GcpRoutes WITH route <- nextHop
Identity == INSTANCE GcpIdentity WITH
  Agents <- AddressAgents, Nobody <- None, MaxFaults <- MaxAddressFaults,
  pending <- changing, owner <- holder, call <- calls, used <- spent

ASSUME CloudConstants ==
  /\ Gcp!ConstantsOK /\ Routes!ConstantsOK /\ Identity!ConstantsOK
  /\ AddressAgents \subseteq Agents

TwoZones == <<"a", "b">>

gcpVars == <<repair, owned, exists, instances, edits, managed, job, lost,
             gcpWanted, gcpFaults, gcpCrashes>>
routeVars == <<nextHop, pending, owner, call, clean, used>>
addressVars == <<config, changing, holder, calls, spent>>
allVars == <<what, vars, gcpVars, routeVars, addressVars>>

OnAws(A) == what = "aws" /\ A /\ UNCHANGED <<what, gcpVars, routeVars, addressVars>>
OnGcp(A) == what = "gcp" /\ A /\ UNCHANGED <<what, vars, routeVars, addressVars>>
OnRoute(A) == what = "route" /\ A /\ UNCHANGED <<what, vars, gcpVars, addressVars>>
OnAddress(A) == what = "address" /\ A /\ UNCHANGED <<what, vars, gcpVars, routeVars>>

(* The three that a behaviour does not have start in one of their states.  *)
FirstAgent == CHOOSE a \in AddressAgents : TRUE

MCInit ==
  /\ what \in {"aws", "gcp", "route", "address"}
  /\ Init /\ Gcp!Init /\ Routes!Init /\ Identity!Init
  /\ what # "gcp" => repair = "mig" /\ owned = {}
  /\ what # "route" => owner = FirstAgent
  /\ what # "address" => holder = FirstAgent

MCNext ==
  OnAws(Next) \/ OnGcp(Gcp!Next) \/ OnRoute(Routes!Next) \/ OnAddress(Identity!Next)

(* The fairness of each, for its own behaviours.                           *)
MCFairness ==
  /\ WF_allVars(\/ OnAws(Proceed) \/ OnGcp(Gcp!Proceed)
                \/ OnRoute(Routes!Proceed) \/ OnAddress(Identity!Proceed))
  /\ WF_allVars(\/ OnAws(InstancesGo) \/ OnGcp(Gcp!Repaired)
                \/ OnRoute(Routes!OperationEnds) \/ OnAddress(Identity!OperationEnds))
  /\ WF_allVars(OnAws(DestroyAgain) \/ OnGcp(Gcp!RunAgain))

MCSpec == MCInit /\ [][MCNext]_allVars /\ MCFairness

(* Every variable of GcpGateway, GcpRoutes and GcpIdentity has its type.   *)
GcpTypeOK == Gcp!GcpTypeOK
RoutesTypeOK == Routes!RoutesTypeOK
IdentityTypeOK == Identity!IdentityTypeOK

(* On GCP, whatever halves of creates and destroys were done: agents that  *)
(* still run keep their database and the right to use it, what the user or *)
(* another project made stays, others' edits of the IAM policy are not     *)
(* undone, and a destroy that succeeds leaves no instance, no route that   *)
(* agents put back and nothing else of the gateway's but the service       *)
(* account and a shadow route that an agent did not delete.                *)
AgentsKeepTheirStore == Gcp!AgentsKeepTheirStore
SharedIsKept == Gcp!SharedIsKept
OthersEditsAreKept == Gcp!OthersEditsAreKept
GcpDestroyIsComplete == Gcp!GcpDestroyIsComplete

(* Terraform run again and again ends up with the gateway the user wants,  *)
(* or with none.                                                           *)
GatewayConverges ==
  []<>(CASE what = "aws" -> Settled [] what = "gcp" -> Gcp!Settled [] OTHER -> TRUE)

(* One failure of a replacement costs clients no route, and a fast one     *)
(* never interrupts them.                                                  *)
OneFailureKeepsRoute == Routes!OneFailureKeepsRoute
FastNeverInterrupts == Routes!FastNeverInterrupts

(* An AssociateEIP that succeeds has moved the address.                    *)
SuccessIsTrue == Identity!SuccessIsTrue

(* The owner of the lease ends up with the route, and with the address.    *)
OwnerGetsAll == <>[](Routes!Converged /\ Identity!Converged)
=============================================================================

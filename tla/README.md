# BetterNAT in TLA+

BetterNAT replaces a cloud NAT gateway by two or more small instances. Each runs
`betternat-agent`; one agent at a time owns a *lease* in DynamoDB or Firestore, and
with it the right to point the private route tables (and, in stable mode, a shared
public address) at its own instance. This directory models the parts of that program
whose correctness depends on order: the lease, the control loop that mutates the cloud
behind it, planned handovers between two agents and who may be chosen for one, the moves of
a route and of an address on GCP, which take several calls each, and the Terraform provider
that makes and destroys a gateway call by call. Source paths below are relative to
`internal/` of the repository.

## Inventory

| Component | State it keeps | Operations | Interacts with | Hard behaviour | What makes it correct |
| --- | --- | --- | --- | --- | --- |
| Lease managers (`lease`, `coordination/dynamodb`, `coordination/firestore`) | one record: owner, generation, expiry | Acquire, Renew, Release, Transfer, Current | called by every agent's controller | agents' clocks, eventually consistent reads, lost answers, late requests | at most one agent authorised; a takeover waits out the owner |
| HA controller (`ha/controller*.go`) | none but the process-wide `OwnershipMu` | Activate, ensureOwnership, VerifyLease, Handover, revert | lease manager, cloud provider, datapath, probe | lease lost between fence and mutation, half-done takeovers and handovers, two goroutines | one mutator; the lease follows the traffic; split ownership is repaired |
| HA supervisor (`ha/supervisor.go`) | previous report, last owned lease | Run, Step, release on shutdown | controller, status | crash and restart, stalled loop, failed reads | one agent ends up owning everything |
| Coordination records (`coordination/*`) | agent records and handover records, with expiry | Put/Delete/ListAgents, Create/Update/Get/ListHandovers | agent runtime, control API, CLI | expiry, failed updates, conditional create | one operation per request id |
| Control API (`agent/control.go`, `agent/handover_target.go`) | status cache | handover, prepare, forward to the active agent | records, registry, controller, peers | concurrent and repeated requests, lost answers, crash of the active agent, forwarding | a request moves ownership at most once; "completed" is true |
| Agent registry (`agent/registry.go`, `agent/handover_target.go`) | own record in the store, cached status of all | publish, delete on exit, list, select a target | control API of the peers | stale and revived records, clocks, loops out of step | who is gone is not chosen; a standby can be |
| Start, stop, termination (`agent/agent.go`, `agent/termination.go`, `cloud/aws/termination.go`) | channels and contexts | run, SIGTERM, IMDS notice, lifecycle completion | supervisor, control API, ASG | two stop paths at once, hook never completed | ownership handed over before the agent ends; the hook is completed |
| AWS provider (`cloud/aws/provider.go`) | none | ReplaceRoute, AssociateEIP, Describe | EC2 | error after effect | a mutation is one call |
| GCP provider (`cloud/gcp/provider.go`) | none; routes by name | ReplaceRoute (shadow route, or delete and insert), AssociateEIP | Compute API | failure between two of its calls | never without a route; traffic follows the described route |
| AWS installer (`install/aws`, `installplan`) | none; resources by tag | Apply, UpdatePools, RestoreRoutes, Cleanup | EC2, IAM, ASG, DynamoDB | partial apply and cleanup | no leak; routes restored before cleanup |
| GCP installer (`install/gcp`) | none; resources by name | Apply, Cleanup, IAM policy | Compute, IAM, Firestore | partial apply, read-modify-write of the policy | no leak; only own resources deleted |
| Terraform provider (`tfprovider`) | resource state | Create, Read, Update, Delete | installers | state lost on error, superseded generations | state describes what exists |
| Datapath (`datapath/*`) | kernel and LoxiLB rules | Reconcile, Status, Counters | nft, loxicmd, sysctl | partial rules | rules equal the configuration |
| Configuration, bootstrap, rendering (`config`, `bootstrap`, `provider`) | none | load, validate, render | files | none over time | defaults and validation |
| CLI, doctor, probe, IAM check, cost, metrics, rollback | none | print, check | control API, cloud | none over time | wording and arithmetic |

The agents share nothing but the store and the cloud; inside one agent the supervisor, the
request handlers and the stop watchers are goroutines that share `OwnershipMu` and the
reported status.

## Modules

| Module | Models | State and actions |
| --- | --- | --- |
| `LeaseContract` | what a `lease.Manager` promises, without clocks or storage | `holder`, `authorised`; Grant, Confirm, Lapse, Resign |
| `Lease` | the three lease managers | the record, a lagging replica, each agent's clock, the record each agent has in hand, late Release requests; one action per call, lost answers as `answered = FALSE` |
| `Ownership` | `ha`: supervisor, controller, handover, lock; the AWS provider as atomic mutations | `sup[a]` and `hand[a]` are the program counters of the two goroutines; one action per store or cloud call; `target` is what the cloud describes; `used.cloud` says which of the two handover orders a behaviour has; of the history variables, `released` says whether the lease's record was ever deleted and `strayed` what agents without the lease have moved |
| `HandoverRequests` | `agent`: handover, prepare and forwarding handlers, records, the two ways to stop an agent | `exec[e]` is one run of the handler with its caller; `record` the durable records, `expired` those past their time and `listed` those a listing is about to delete; `phase` what each agent is doing; `Ownership`'s handover is one step (`Commit`) |
| `AgentRegistry` | `agent/registry.go`, the cached status, the choice of a target, the ends of an agent and its life cycle hook | three loops per agent (`Supervise`, `Publish`, `Refresh`), each once per tick and in any order; `record` with the life it has left, `late` puts, `cache`; `Notice`, `Leave`, `Signal`, `Exit`, `Crash`, `Restart` |
| `GcpRoutes` | `cloud/gcp`: replacing a route by operations that outlive their caller | `route` and `pending` per route name, `call` the `ReplaceRoute` under way and the handover whose attempt it is |
| `GcpIdentity` | `cloud/gcp`: moving the shared address | the access configuration of each instance, its pending operation, one `AssociateEIP` per agent |
| `AwsGateway` | `betternat_aws_gateway` in `tfprovider`, `install/aws`, `installplan` | `objects`, `pool`, `route` in the account; `state` of Terraform by generation; `op` is the operation under way, a sequence of calls that `CallAnswered`, `CallRefused`, `CallFails` or `Crash` take one by one |
| `GcpGateway` | `betternat_gcp_gateway` in `tfprovider`, `install/gcp` | `exists`, which has the routes agents insert (the gateway's and shadow routes), `instances`, `edits` of the policy; `managed`; `job`, as `op` above |
| `MCLease`, `MCOwnership`, `MCHandoverRequests`, `MCAgentRegistry`, `MCGateways` | | instances for TLC; `MCLease` takes a lease in Firestore or one in DynamoDB; a behaviour of `MCGateways` is one of `AwsGateway`, `GcpGateway`, `GcpRoutes` or `GcpIdentity` and leaves the variables of the others alone |
| `LeaseProofs`, `OwnershipProofs`, `HandoverRequestsProofs`, `AgentRegistryProofs`, `GcpRoutesProofs`, `GcpIdentityProofs`, `GcpGatewayProofs` | | theorems about the module each is named after |
| `GatewaysProofs` | | the same results for the composition `MCGateways`, and the theorems about `AwsGateway` |

`Lease` implements `LeaseContract` (a refinement with `holder <- lease.owner` and
`authorised <-` the agents `VerifyLease` would accept). `Ownership` assumes of the lease what
the contract promises: `live` stands for the clocks, and only a lease that is not live is taken
over. Its property `LiveLeaseIsTheOwners` is the agents' part of that agreement.
`HandoverRequests`, `AgentRegistry`, `GcpRoutes` and `GcpIdentity` each open one box of
`Ownership`: who starts a handover and what is said about it, who may be its target, and what
one mutation consists of on GCP. The two gateway modules model what happens before and after
the agents run, and the agents only as far as they get in the way: they take routes back, leave
shadow routes and keep network interfaces in use.

What the models merge or leave out, module by module:

- `Lease`: the three managers are one module with switches (`ConsistentReads`,
  `TakeoverGrace`, `RenewGrace`, ...), since their conditional writes differ in little else.
  The present of a condition (`:now`, `coordination/dynamodb/backend.go:92`) is computed before
  the request is sent; the model evaluates it when the write happens, and only a Release may
  arrive late. An Acquire with an old `:now` takes over later than it could, never earlier. A Renew
  that arrived behind a later one of its agent would shorten the expiry that one was told; the
  model takes the renewals of an agent to arrive in their order.
- `Ownership`: reads and the conditional writes of the store are single steps; a failing call
  may or may not have taken effect. Handover attempts are counted, not timed.
- `HandoverRequests`: the lease is read current (lagging reads are the subject of `Lease` and
  `Ownership`); the target of a handover may be any other agent, because the registry's
  records and the status page outlive the agents they describe. An agent that is told to stop
  by a notice keeps its servers, one that got SIGTERM has closed them. Whoever reads an expired
  record (`Lookup`, `List`) deletes the record of that id in a later call that asks nothing
  (`Sweep`, `SweepListed`), whatever has happened to it since. An expired record may still be
  answered, by a clock that is behind, or missed: that is also what a lagging read of it gives.
  A record expires (`Expire`) only when no execution is carrying its request out. This is an
  assumption: the default life is one hour and an execution ends within 100 seconds, but
  `HandoverTTLSeconds` has no lower limit.
- `AgentRegistry`: a tick is the longest period of a loop, so that the loops' order is free and
  their number is not. A record carries its remaining life by its writer's clock; a reader's
  clock may differ by `Skew`. Handovers and takeovers are single steps.
- `GcpRoutes`: a handover makes up to `Attempts` (in the code four) `ReplaceRoute`s, each
  of which deletes an old shadow first, and describes the route after each. A fence or a renewal
  of the lease that fails between them ends the handover (`GiveUp`), `verifyTargetOwnership` is
  the last `Describe`, and the revert after the last attempt is `Ensure`. Back-offs are not timed.
- `GcpRoutes`, `GcpIdentity`: one route name and one `ReplaceRoute` at a time; one
  `AssociateEIP` per agent, overlapping. What an operation works on looks as before, and
  requests on it are refused; this is how the code under `cloud/gcp` treats the Compute API
  (`resourceNotReady`, already exists, 404).
- `AwsGateway`: one route table per zone, names in place of tags, an iteration over a Go map
  as any order of the zones. A failing call may have taken effect. Waiting loops (terminated
  instances, free network interfaces) are calls that are refused until what they wait for has
  happened, or fail.
- `GcpGateway`: the policy is a counter of others' edits; a stale etag refuses the write. The
  shadow routes are one part. What an agent asks of a route is over at once: an insertion that
  outlives the last instance is a matter of `GcpRoutes` alone. No run of Terraform finds a
  database or role of the gateway's that exists already. A database that Apply adopts is deleted
  by Cleanup like one it made (`install/gcp/firestore_database.go:46-48`, `:75`), so that
  `SharedIsKept` says no more than that the `manage_` switches are heeded.

## Runs

| Run | Instance | Shows |
| --- | --- | --- |
| `lease` | Firestore: three agents, clocks up to 2 s apart. DynamoDB: two agents, lagging reads, late Release | mutual exclusion, its inductive invariant, `Lease` implements `LeaseContract`; a takeover in DynamoDB waits for the owner although reads lag |
| `lease_stale_read` | lagging reads | *violated*: two agents authorised at once |
| `ownership_lagging_reads` | two agents, one route, the identity; lagging reads, one failing call, one crash, no handover | nobody but the owner ends or passes on a live lease; a takeover that reports ACTIVE owns everything |
| `handover` | two routes, the identity, one handover. AWS order with a failing call and a crash, GCP order with a stalled owner | one mutator per process; a lost lease costs at most the mutation in flight; the lease follows the traffic; an owner that reports ACTIVE has it; convergence |
| `fence_reused_generation` | two agents, two routes, one handover, one fault of each kind but stalls | *violated*: the fence lets an earlier lease's handover mutate under a later one |
| `handover_stale_revert` | a handover and a stalled owner | *violated*: a revert after the lease was lost |
| `handover_requests` | two agents, two request ids, two requests, one fault of any kind, an expired record among them | a request moves the lease at most once before its expired record is deleted; "completed" is true; a record that is over stays, until it expires or the late deletion of an expired one strikes it; every request ends |
| `handover_expired_record` | one request, posted three times; its record expires | *violated*: the late deletion of the expired record strikes the new one, and a duplicate moves the lease again |
| `handover_standby_stop` | one request, of an agent that stops; no fault | *violated*: the stop of a standby moves the lease |
| `agent_registry` | two agents on AWS or GCP, two events | who is gone drops out of everybody's choice within TTL + skew + 1 ticks; after a change of the lease every standby can be chosen within four quiet ticks |
| `gateways` | AWS: two zones, two generations, one update, one failure, one crash. GCP: two instances, two failures, one crash, two edits. Route: three agents. Address: two | see below |
| `gcp_shadow_leak` | two agents, one handover of up to four attempts and one takeover, one failed operation | *violated*: packets do not follow the described route |

`gateways` asks, of a gateway on AWS: a generation in Terraform's state has all its objects;
the pools are as the state says; no pool is unknown to the state but those of a lost create; a
destroy that succeeds leaves nothing and restores the routes. On GCP: agents that run have
their database and role; what others made stays, and their policy edits too; a destroy that
succeeds leaves no instance, no route that agents put back, and of the rest only
the service account, which no call deletes, and a shadow route an agent left. Of both: Terraform run again and again ends. Of the route: one
failure leaves clients a route, a fast replacement never interrupts them. Of the address: a
call that succeeds has moved it. Of both: the owner ends up with it.

Three properties of `handover` carry conditions, since without them they fail once there are
more agents or handovers than TLC can take: the fences compare generations, so they bound the
damage until the record of the lease is deleted (`~ released`) and generations begin again; and
"everything points to the new owner" leaves out what an agent that had lost the lease has moved
with the one mutation the fences let through (`strayed`).

Faulty variants of single operators (`...Only`, `...TooEarly`, `...Unfenced`, marked "faulty")
stand beside the operators they replace; each property fails for at least one of them.

### Bounds

Two agents are enough for every race between an owner and a contender; the lease and the routes
have three where the state space allows. Clocks run for two lease lifetimes and more, so a lease
expires, is taken over and expires again. Two routes and the identity make "part of the
ownership moved" possible in every order. One failing call, one stalled owner and one crash
reach every error path; `MaxTries` is 2 instead of 4 attempts of a handover mutation, since an
attempt leaves no trace but the counter. The DynamoDB lease of `lease` keeps the clocks equal:
a renewal by a slower clock may shorten the expiry while a replica still shows the longer one,
and that part is about lag alone.

`ownership_lagging_reads` (2.2 million states) has no handover: lagging reads times a handover
are out of reach, and a failed handover may revert routes under a takeover, as
`handover_stale_revert` shows. Generations are bounded by `MaxGen`; in that run the bound ends
the behaviours, which is why it does not look for deadlocks. `handover` (601,000 states) divides
its faults between the clouds, because they multiply: failing calls and crashes on AWS, an
expiry under a running owner on GCP.

`MaxCalls = 2` in `handover_requests` (907,000 states) is a request and its repetition, or two
different requests, or a request and a stop, or the two ways to stop at once; with three
execution slots each can be forwarded, and a forward that finds no slot counts as refused.
`MaxFaults = 1` is one of a failing call, a lost answer, a crash, a stall and a record that
expires. `handover_expired_record` needs three requests: the first makes the record that
expires, two look-ups read it, and one more request finds the new record gone.

In `agent_registry` (1.2 million states) the two bounds in its properties are tight: with
`Settle = 3`, or without the one tick beyond TTL + skew, TLC finds a violation. Two events are
a crash and a late put, or a change of the lease and one of anything else. The agents are
symmetric.

In `gateways` (988,000 states) two zones make "some zones done" possible and two generations a
replacement; `MaxUpdated = 1` lets only the first be updated, and the second is made and
destroyed. One failure and one crash interrupt any operation and then its cleanup. Two failures
on GCP include the failed cleanup of a failed create. Of the route: two
failures and two unknown outcomes are more than one replacement and its restore can meet, and
two owner changes are a handover, of up to four attempts as in the code, and a takeover behind
it. A gateway nobody
wants any more is destroyed and that is the end, so this run does not look for deadlocks; nor do
the runs of `HandoverRequests` and `GcpRoutes`, where nothing happens once nobody asks.

### Fairness

`Ownership!Fairness` asks that a running agent goes on with its supervisor step and its
handover (both are loops of a process with timeouts on every call), that time passes (the lease
of a process that is down expires, an agent's own snapshot expires) and that DynamoDB's
replicas catch up. Nothing is assumed of failing calls, crashes, stalls or handover requests.
`HandoverRequests!FairSpec` asks that an execution that can take a step takes one (every call
it makes has a timeout) and that a stopped agent exits; that forwarding times out is not
assumed. `GcpRoutes` and `GcpIdentity` ask that operations end and that a call goes on, which
includes that the owner's supervisor looks again, as its ticker makes it do. `AwsGateway` and
`GcpGateway` ask that calls return, that instances of a deleted pool go away or a managed group
repairs them, and that a user runs Terraform again until there is what he wants: the provider
itself never retries, and without that step nothing is promised. `MCGateways` joins the four,
each for its own behaviours.

## Proofs

`LeaseProofs` proves type correctness for every backend. Its safety results assume consistent
reads, no late Release and `MaxSkew <= TakeoverGrace`. `HeldIsCurrent` is the inductive
strengthening of `MutualExclusion`: whoever is authorised has the very record in hand that is
stored. Mutual exclusion alone is not inductive, because it says nothing of the record a second
agent will write. From it follow `LeaseMutualExclusion`, `AuthorisedHoldsRecord` and, action by
action, `LeaseImplementsContract`: every step of the manager is a step of `LeaseContract` or
leaves it unchanged. Without these assumptions mutual exclusion is false, as `lease_stale_read`
shows. `TakeoverWaits` is what remains then: for any agents and bounds and every backend, lagging
reads and late Releases included, if only the clocks agree (`MaxSkew = 0`), no conditional write
takes the lease from an agent that is entitled by it. Its invariant compares what anybody has
been shown with what is stored: no record expires later than a new grant would, and none later
than the stored one of the same owner and generation (`Granted`), which also holds when a
Release has made a generation start again. The DynamoDB lease of `MCLease`, whose
`TakeoverWaitsInDynamo` the run checks, is the instance with two agents.

`OwnershipProofs` proves every safety property of `Ownership` that a passing run checks, for any
agents, routes, clouds and bounds. Four invariants, each on top of the ones before:

- `IInv` has the shape of the records and who holds each process's mutex, from the two program
  counters: `OneMutator`, and `OwnerKeepsLiveLease` (with lagging reads too, no step ends or
  passes on a live lease of another agent). `TInv` adds the types and that a handover's index
  stays within what it moves (`MovesInOrder`): `OwnershipTypeCorrect`.
- `GInv`: until a record is deleted, generations only grow, and nobody remembers one later than
  the lease's (`GenerationsHeld`). So an agent that has lost the lease of its generation has lost
  it for good; if it moved something since, its next fence stops it (`StraysAreLate`):
  `StrayMutationIsTheLast`.
- `VInv`: what a handover has read back points to its target, and what a takeover has read back
  points to the agent, unless it was strayed or the lease was lost meanwhile, since only an
  agent whose fence passed can have moved it (`HandoverReadBack`, `TakenOver`):
  `TrafficMovesFirst` and `ActiveOwnerHasTraffic`.
- `QInv`: without stalls and handovers, an agent that has got or renewed the lease in its
  present step owns it and it is live (`QuietOwners`), so nobody else mutates:
  `QuietTakeoverIsComplete`, with lagging reads.

`HandoverRequestsProofs` proves for any agents, clients, requests, executions and bounds:

- `TypeCorrect`. The type of an execution's caller is what is hard: an answer is handed to
  whoever is named as the caller, so the invariant has to say that a caller named by another
  execution waits, for the same request, and for nobody else (`CallerWaits`), and that a
  forwarded request knows where it goes (`RequestKnown`).
- `MovesAtMostOnce` and `CompletedCanBeTrusted`. A request may move the lease again once its
  expired record is deleted, so `AtMostOnce` counts from the last such deletion (`before`), and
  it says nothing of a request that has lost a record which had not expired (`struck`). That
  this can happen is what `handover_expired_record` shows. The strengthening, for all other
  requests: of all executions at most one is carrying it out, and the record is open as long
  (`Alone`); and how often the lease was moved for the request can be told from the record and
  from where that execution is (`Counted`, with `Past` for what earlier records have moved).
  Steps that neither create or delete a record nor commit are "calm" and keep these by one lemma.
- `TerminalStays`: from the same invariant, because only the execution that carries a request
  out updates its record, and it finds it open; what ends a final record is a deletion, of an
  expired record or, late, of the one that came after it.

`AgentRegistryProofs` proves both bounds of `AgentRegistry`, for any agents, TTL, skew and
number of events:

- `RegistryTypeCorrect` and `GoneDropsOut`. The strengthening `Aging` adds up the life a record
  has left and the time since its agent could last have written it: for the record in the
  store, for puts still under way, for every cached status and for every publisher's own
  snapshot the sum never exceeds the TTL.
- `StandbysCanBeChosen`, for `Settle >= 4`: a change of the lease travels one stage per quiet
  tick, to every supervisor's snapshot, from there to every record, from there to every cached
  status (`ReachesSnapshots`, `ReachesRecords`, `ReachesStatuses`); the invariant says that the
  loops which ran in the present tick are one stage ahead.

`GcpRoutesProofs` proves `RouteSurvivesOneFailure` (what the call is at tells what each route
name carries; as long as at most one operation failed, the name that carries the traffic has
nothing pending; between the attempts of a handover nothing is under way that the call has not
heard of) and `FastKeepsTraffic` (in fast mode there is always a name that carries it).
`GcpIdentityProofs` proves `AssociationIsTrue`: while a call has run alone, every other is over
and what is under way is the operation it waits for (`AloneIsUndisturbed`, `WaitsForOperation`).
`GcpGatewayProofs` proves `StoreOutlivesAgents`, `GivenIsKept`, `EditsAreKept` and `DestroyLeavesOnlyKept` for any number of instances: the invariant says of
the calls a job still has to make that they name everything that exists but the service account
and the shadow routes (`Kept`), that the instances come before the database and the role, and that nothing somebody else made is among them
(`CreateShape`, `UndoShape`, `DeleteShape`, `SparesGiven`).

`GatewaysProofs` takes these results to `MCGateways`: a step of the composition is a step of
one part or leaves that part's variables unchanged, so each part's inductive invariant is one
of the composition. It also proves all six safety properties of `AwsGateway`, for any zones,
generations, capacities, faults and crashes, every source of addresses and either retention,
under the default life cycle (`~CreateFirst`; with `create_before_destroy` two generations share
what has no generation in its name, and `LiveGatewayIsWhole` is false). The invariant `AwsInv`:

- what an operation has not done yet is among the calls it still has to make: a create's objects
  and pools (`CreateMakes`), an update's capacities and user data (`UpdateChanges`), everything
  that exists of a gateway being cleaned up (`CleanupRemoves`), the routes a destroy has to put
  back (`DeleteRestores`). With no call left these are `LiveGatewayIsWhole` for a new gateway,
  `CleanupCompletes` and `DestroyRestores`. This needs the set of calls each operation consists
  of (`OperationsConsist`), whatever order Go iterates in.
- an address is allocated before it is tagged, for every zone (`TagsFollow`): else the count of
  untagged addresses would not stay a natural number. It is the one place where the order of the
  calls matters to these properties, and why `InEach` computes the call at each position rather
  than concatenating: concatenation of any number of sequences is induction over data.
- one generation is in the state at a time and an operation is about that one or, creating,
  about none of it (`OneGeneration`); a pool of any other is left by a create that was lost
  (`Accounted`: `PoolsAccounted`); an update that is not over, or has failed, is the only reason
  for the state to differ from the pools (`SizeDescribed`, `ConfigDescribed`: `StateDescribes`).

Only model-checked: everything that depends on time passing or calls succeeding eventually
(`Converges`, `EveryRequestIsAnswered`, `GatewayConverges`, `OwnerGetsAll`), since liveness is
out of the prover's reach. `TakeoverWaitsInDynamo` is proved of `Lease`, not of the instance in
`MCLease`.

## Findings

1. **A lagging read passes the fence** (`lease_stale_read`). `Current` of the DynamoDB backend is
   an eventually consistent read, and `VerifyLease` is a `Current`. After a Transfer, or a
   Release and an Acquire, the old owner may still be told that it owns the lease. The
   conditional writes keep the *lease* safe all the same (`TakeoverWaitsInDynamo`,
   `OwnerKeepsLiveLease`); it is the cloud mutations behind the fence that are not.
2. **A generation used twice** (`fence_reused_generation`). Release deletes the record and with
   it the generation, so after two releases an agent may own the lease under a generation it
   lost before, and a handover of the earlier lease passes its fences again. Until a
   record is deleted the fences hold, however often the lease is lost (`FenceBoundsLosses`).
3. **A revert without the lease** (`handover_stale_revert`). A handover that loses its
   lease while the routes move reverts routes the new owner may have taken over.
4. **A stopping standby takes the lease** (`handover_standby_stop`). The termination notice of a
   standby is forwarded to the active agent as a handover to "auto", and with two agents the
   only target is the standby that is about to end. With SIGTERM the peer server is closed and
   the target refuses; a third agent would still be handed the lease.
5. **A leaked shadow route** (`gcp_shadow_leak`). The last operation of a fast replacement deletes
   the shadow. If it fails, `ReplaceRoute` fails, but the handover describes the route, which is
   the canonical one and in place, and counts the attempt as a success. The attempts that would
   have deleted the shadow first are not made. The shadow stays, and after the next takeover it
   still draws clients' packets to the former owner, while the new one sees its route in place.
6. **A handover carried out twice** (`handover_expired_record`). Whoever reads an expired record
   deletes the record of its id in a later call without a condition. A slow one deletes the
   record that was created meanwhile for the same id, and the next duplicate finds none.

Met on the way, and true of the models, without a run of their own:

- a late Release of an earlier lease ends the present one of the same owner and generation;
  skew beyond two seconds breaks Firestore's exclusion (the theorems' assumption);
- a handover whose agent crashes leaves its record at a status that is not final until it
  expires, and repeating the request only reads it; a termination notice followed by SIGTERM
  runs two handovers, and the first to end stops the process under the other;
- a GCP destroy that succeeds leaves a shadow route that an agent did not delete: `Cleanup` knows
  the gateway's route by its one name (`install/gcp/applier.go:92`), and the shadow has another
  (`cloud/gcp/provider.go:142`);
- an agent on AWS names its scaling group and hook without the generation that the installer
  appends to both (`installplan/plan.go:239`, `install/aws/applier.go:1131`), so that completing
  the life cycle action fails and the instance waits for the hook to time out, while
  `docs/user/operations/FAILURE_MODES.md:110` expects it to be completed;
- an agent that has left goes on publishing itself, as fresh, until its instance ends
  (`docs/research/038-agent-registry-control-plane-plan.md:476` expects it to stop);
- with `create_before_destroy` only pools, templates and hooks carry the generation: a failed
  create of the new one, or the delete of the deposed one, removes the role, the table and the
  security group both share (`docs/user/releases/v0.2/v0.2.3.md:12`). `AwsGateway` has the
  switch `CreateFirst` and is checked without it;
- on GCP an apply repeated after a partial failure inserts instances that exist and is refused
  (`docs/user/operations/FAILURE_MODES.md:427` tells the user to repeat it); `GatewayConverges`
  leaves these histories out by `lost`.

## Not modelled, and the plan

Done so far: the lease, the control loop, the handover requests, the registry, the ends of an
agent, the GCP mutations, the two Terraform resources. Left, in this order:

1. Theorems: type correctness of `AwsGateway` with `CreateFirst` too.
2. `AwsGateway` with `CreateFirst`, as an abstract specification of which generation owns what.
3. Handovers in `ownership_lagging_reads`, with a smaller module for the routes.

Not modelled, and why:

- the datapath engines, bootstrap, metrics, probes, the doctor and the cost model render or run
  commands and keep no state whose order matters; `Ownership` and `AgentRegistry` know only
  whether the datapath is ready;
- configuration is checked once at start-up, and ids are looked up and the source/destination
  check is switched off there: the models begin after it;
- the command line prints, and posts the requests `HandoverRequests!Call` stands for; of
  `ListHandovers` only what it deletes is modelled (`List`, `SweepListed`);
- the refresh of `betternat_aws_gateway` reads attributes and changes neither the state's
  generations nor the cloud; schemas and validation of both resources are pure;
- launching appliances outside a pool (`launchAppliance`): every plan `Build` makes has pools;
- times are modelled by their order, except in `Lease` and `AgentRegistry`, where the clocks
  are the point.

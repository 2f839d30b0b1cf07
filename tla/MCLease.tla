------------------------------ MODULE MCLease ------------------------------
(* The lease as Lease has it in the configuration, or the lease of two     *)
(* agents in DynamoDB, with reads that lag and a Release that is late.     *)
EXTENDS Lease, TLC

CONSTANT Pair    \* the two agents

VARIABLES inDynamo, dLease, dReplica, dClock, dHeld, dLate

dVars == <<dLease, dReplica, dClock, dHeld, dLate>>

Dynamo == INSTANCE Lease WITH
  Agents <- Pair, Backend <- "dynamodb",
  TTL <- 2, MaxSkew <- 0, MaxTime <- 4, MaxGen <- 3, MaxLate <- 1,
  lease <- dLease, replica <- dReplica, clock <- dClock, held <- dHeld, late <- dLate

MCInit == inDynamo \in BOOLEAN /\ Init /\ Dynamo!Init

MCNext ==
  /\ UNCHANGED inDynamo
  /\ \/ ~ inDynamo /\ Next /\ UNCHANGED dVars
     \/ inDynamo /\ Dynamo!Next /\ UNCHANGED vars

MCSpec == MCInit /\ [][MCNext]_<<inDynamo, vars, dVars>>

Symmetry == Permutations(Agents) \cup Permutations(Pair)

(* DynamoDB's conditional writes alone, without the clocks and the reads,  *)
(* never take the lease from an agent that is authorised by it.            *)
TakeoverWaitsInDynamo == Dynamo!TakeoverWaitsForOwner
=============================================================================

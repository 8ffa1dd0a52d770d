------------------------------- MODULE MCRelay -------------------------------
(***************************************************************************)
(* Small instances of the relay: the calls of its handlers, which share a  *)
(* peer, and the pool that keeps the peers.  A behaviour is of one part;   *)
(* the fairness of each asks nothing of the other.                         *)
(***************************************************************************)
EXTENDS RelayBroadcast

CONSTANTS
  b1, b2, q1, p1, p2,          \* calls and connections
  Nodes, Unreliable, n1, n2, n3  \* the pool

VARIABLES gone, state, node, retired, cooled, faults
VARIABLE part

Pool == INSTANCE RelayPool WITH
  MaxPeers <- 3, TargetPeers <- 2, MaxFaults <- 2, Tasks <- 1 .. 3

ASSUME Pool!PoolAssumption

pool == <<gone, state, node, retired, cooled, faults>>
vars == <<broadcastVars, pool, part>>

\* The parts that are away stand where nothing is left to do.
BroadcastAway == BroadcastInit /\ echoIds
PoolAway ==
  /\ gone = {} /\ retired = {} /\ cooled = {} /\ faults = 0
  /\ state = <<"fed", "fed", "fed">> /\ node = <<n1, n2, n3>>

Init ==
  \/ part = "broadcast" /\ BroadcastInit /\ PoolAway
  \/ part = "pool" /\ Pool!PoolInit /\ BroadcastAway

Next ==
  \/ part = "broadcast" /\ BroadcastNext /\ UNCHANGED <<pool, part>>
  \/ part = "pool" /\ Pool!PoolNext /\ UNCHANGED <<broadcastVars, part>>

FairSpec ==
  /\ Init /\ [][Next]_vars
  /\ BroadcastFairness /\ Pool!PoolFairness

-----------------------------------------------------------------------------
(* Properties of the pool; those of RelayBroadcast speak for themselves.   *)

(* RelayPool's: a relay that lost every connection gets one again, as long *)
(* as every node answers (PeerManager's refill loop).                      *)
PoolComesBack == Pool!PoolComesBack
=============================================================================

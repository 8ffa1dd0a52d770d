----------------------------- MODULE RelayPool -----------------------------
(***************************************************************************)
(* The relay's pool of full-node connections (relay/peer.py, PeerManager). *)
(* One maintainer task per candidate node connects, waits for the          *)
(* connection to close and backs off; the watchdog retires nodes that stop *)
(* announcing peaks; the refill loop starts further maintainers.  All of   *)
(* them run on one event loop and share the list of peers and the table of *)
(* retired nodes.                                                          *)
(*                                                                         *)
(* Time is what it decides: Quiet is 600 s without a peak, Cool is the end *)
(* of a retirement's hour, WakeUp is the end of a back-off.  What goes     *)
(* wrong outside (hang-ups, silence, a node that does not answer although  *)
(* it is there) is bounded by MaxFaults, so that a run has a good ending.  *)
(***************************************************************************)
EXTENDS Naturals, FiniteSets

CONSTANTS
  Nodes,        \* the addresses that discovery can return
  Unreliable,   \* those that may turn out never to answer
  MaxPeers,     \* RELAY_MAX_PEERS
  TargetPeers,  \* ManagerConfig.target_peers
  MaxFaults,    \* bound on what goes wrong outside
  Tasks         \* slots for maintainer tasks; a finished one is used again

PoolAssumption ==
  /\ Unreliable \subseteq Nodes
  /\ MaxPeers \in Nat \ {0}
  /\ TargetPeers \in Nat
  /\ MaxFaults \in Nat
  /\ IsFiniteSet(Tasks)

VARIABLES
  gone,     \* the nodes that never answer
  state,    \* where each maintainer task is
  node,     \* the node it maintains
  retired,  \* PeerManager._retired
  cooled,   \* the retired nodes whose cooldown has lapsed
  faults    \* what went wrong outside so far

poolVars == <<gone, state, node, retired, cooled, faults>>

\* "mute" is connected with last_peak_at still None.
Up == {"mute", "fed", "stale"}
States == {"off", "asleep", "connecting"} \cup Up
Alive == {t \in Tasks : state[t] # "off"}
Peers == {t \in Tasks : state[t] \in Up}

\* start(): a maintainer for each resolved address, at most MaxPeers of them;
\* the lookup may find fewer, or nothing.
PoolInit ==
  /\ gone \in SUBSET Unreliable
  /\ state \in [Tasks -> {"off", "asleep"}]
  /\ node \in [Tasks -> Nodes]
  /\ Cardinality(Alive) <= MaxPeers
  /\ \A t, u \in Alive : node[t] = node[u] => t = u
  /\ \A t \in Tasks \ Alive : node[t] = CHOOSE n \in Nodes : TRUE
  /\ retired = {}
  /\ cooled = {}
  /\ faults = 0

Goes(t, s) == state' = [state EXCEPT ![t] = s]

Fault ==
  /\ faults < MaxFaults
  /\ faults' = faults + 1

\* _is_retired drops an entry whose cooldown has lapsed.
Retired == retired \ cooled

\* The maintainer's loop begins: it stands down if its node is retired.
WakeUp(t) ==
  /\ state[t] = "asleep"
  /\ Goes(t, IF node[t] \in Retired THEN "off" ELSE "connecting")
  /\ IF node[t] \in cooled
     THEN /\ retired' = retired \ {node[t]}
          /\ cooled' = cooled \ {node[t]}
     ELSE UNCHANGED <<retired, cooled>>
  /\ UNCHANGED <<gone, node, faults>>

ConnectSucceeds(t) ==
  /\ state[t] = "connecting"
  /\ node[t] \notin gone
  /\ Goes(t, "mute")
  /\ UNCHANGED <<gone, node, retired, cooled, faults>>

ConnectFails(t) ==
  /\ state[t] = "connecting"
  /\ IF node[t] \in gone THEN UNCHANGED faults ELSE Fault
  /\ Goes(t, "asleep")
  /\ UNCHANGED <<gone, node, retired, cooled>>

\* NewPeakWallet or CoinStateUpdate: last_peak_at is now.
Announce(t) ==
  /\ state[t] \in {"mute", "stale"}
  /\ Goes(t, "fed")
  /\ UNCHANGED <<gone, node, retired, cooled, faults>>

Quiet(t) ==
  /\ state[t] = "fed"
  /\ Fault
  /\ Goes(t, "stale")
  /\ UNCHANGED <<gone, node, retired, cooled>>

HangUp(t) ==
  /\ state[t] \in Up
  /\ Fault
  /\ Goes(t, "asleep")
  /\ UNCHANGED <<gone, node, retired, cooled>>

\* One pass of _watchdog_loop: every connection without a recent peak is
\* closed and its node retired, then lapsed retirements are dropped.  The
\* maintainer of a closed connection falls asleep.
Watchdog ==
  LET stale == {t \in Tasks : state[t] = "stale"}
      quiet == {node[t] : t \in stale} IN
  /\ quiet # {} \/ cooled # {}
  /\ state' = [t \in Tasks |-> IF t \in stale THEN "asleep" ELSE state[t]]
  /\ retired' = (retired \ cooled) \cup quiet
  /\ cooled' = {}
  /\ UNCHANGED <<gone, node, faults>>

Cool(n) ==
  /\ n \in retired \ cooled
  /\ cooled' = cooled \cup {n}
  /\ UNCHANGED <<gone, state, node, retired, faults>>

\* A mutation of Room: tasks that are done count too.
RoomWithDone == Cardinality(Peers) + (Cardinality(Tasks) + 2) < MaxPeers + 1

\* The room _refill_loop sees: the tasks it counts are every task of
\* _maintainers that is not done, itself and the watchdog included.
Room == Cardinality(Peers) + (Cardinality(Alive) + 2) < MaxPeers + 1

\* One round of _refill_loop that starts a maintainer: for an address that is
\* neither connected nor retired, while there is room.
Refill(n) ==
  /\ Cardinality(Peers) < TargetPeers
  /\ n \notin {node[t] : t \in Peers}
  /\ n \notin Retired
  /\ Room
  /\ \E t \in Tasks \ Alive :
       /\ Goes(t, "asleep")
       /\ node' = [node EXCEPT ![t] = n]
  /\ retired' = retired \ (cooled \cap {n})
  /\ cooled' = cooled \ {n}
  /\ UNCHANGED <<gone, faults>>

\* A round of a loop that finds nothing to do.
IdleRound == UNCHANGED poolVars

PoolNext ==
  \/ \E t \in Tasks : WakeUp(t) \/ ConnectSucceeds(t) \/ ConnectFails(t)
                      \/ Announce(t) \/ Quiet(t) \/ HangUp(t)
  \/ \E n \in Nodes : Cool(n) \/ Refill(n)
  \/ Watchdog
  \/ IdleRound

\* The loops keep running (each sleeps and wakes), a node that is there
\* answers, and an hour passes.
PoolFairness ==
  /\ \A t \in Tasks : WF_poolVars(WakeUp(t)) /\ WF_poolVars(ConnectSucceeds(t))
  /\ \A n \in Nodes : WF_poolVars(Cool(n)) /\ WF_poolVars(Refill(n))
  /\ WF_poolVars(Watchdog)

-----------------------------------------------------------------------------
(* Properties                                                              *)

\* A relay that lost every connection gets one again, as long as every node
\* answers (the refill loop replaces the retired ones).  With nodes that never
\* answer it need not: their maintainers take all the room there is.
PoolComesBack == gone = {} /\ Peers = {} ~> Peers # {}
=============================================================================

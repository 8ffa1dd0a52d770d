------------------------------- MODULE MCSeeds -------------------------------
(***************************************************************************)
(* Small instances of Custody and SealedSeed in one run.  A behaviour is   *)
(* of one part or the other, each with files of its own; the state spaces  *)
(* add up.                                                                 *)
(***************************************************************************)
EXTENDS Custody, SealedSeed, TLC

VARIABLE part

SeedsAssumption == CustodyAssumption /\ SealedSeedAssumption

CustodyAway ==
  /\ split = FALSE /\ kind = None /\ own = None /\ public = None /\ meta = None
  /\ legacy = None /\ envelope = NoEnvelope /\ seals = 0 /\ record = NoRecord
  /\ daemon = Nothing /\ hand = [p \in Procs |-> Idle] /\ shown = {} /\ kills = 0
  /\ overlap = FALSE /\ crossed = FALSE
SealAway ==
  /\ mode = None /\ disk = NoFiles /\ seal = NoSeal
  /\ doing = [p \in Shells |-> Resting]
  /\ troubles = 0

SeedsInit ==
  \/ part = "custody" /\ CustodyInit /\ SealAway
  \/ part = "seal" /\ SealInit /\ CustodyAway

SeedsNext ==
  \/ part = "custody" /\ CustodyNext /\ UNCHANGED <<sealVars, part>>
  \/ part = "seal" /\ SealNext /\ UNCHANGED <<custodyVars, part>>

seedsVars == <<custodyVars, sealVars, part>>

SeedsSpec == SeedsInit /\ [][SeedsNext]_seedsVars

(* The keys and the seeds are interchangeable. *)
Symmetric == Permutations(Generated) \cup Permutations(Seeds)

(* SealedSeed's, of the whole wallet: the standard seed in the seal stays. *)
SealKeepsStandard == [][StandardStays]_sealVars
=============================================================================

------------------------------ MODULE MintGate ------------------------------
(***************************************************************************)
(* The mint gate of spellbookd (daemon.py `_check_mint_gate`): minting and *)
(* issuing need, on top of the queue approval, a file the human writes     *)
(* that names the exact digest of the approved params.  One grant is good  *)
(* for one execution attempt: the digest goes into a file of consumed      *)
(* digests before the execution starts.                                    *)
(*                                                                         *)
(* Both files can change under the daemon between its reads, and it can    *)
(* die between any two of its steps; it keeps no memory of either file.    *)
(***************************************************************************)
EXTENDS Naturals, Sequences, FiniteSets

CONSTANTS
  Digests,         \* approved params, by their canonical digest
  Networks,
  NetworkOf,       \* the network a digest's params are for
  NoGate,          \* mint_gate.json is missing or has a problem of shape
  Corrupt,         \* mint_gate_consumed.json does not parse
  MaxApprovals, MaxGates, MaxMintClock, MaxMintCrashes, MaxReadErrors, MaxMintWriteErrors

MintGateAssumption ==
  /\ NetworkOf \in [Digests -> Networks]
  /\ \A D \in SUBSET Digests : Corrupt # D
  /\ {MaxApprovals, MaxGates, MaxMintClock, MaxMintCrashes, MaxReadErrors,
      MaxMintWriteErrors}
       \subseteq Nat

VARIABLES
  mintPc, digest,  \* the approved item in execution
  seen,            \* the gate as the check has read it
  gate, consumed,  \* the two files
  mintLedger,
  mintClock, approvals, gates, mintCrashes, readErrors, mintWriteErrors,
  \* history, read by the properties only
  standing,        \* every gate that stood while this item was executed
  unreadable,      \* reading the consumed digests failed for this item
  attempts

files == <<gate, consumed, mintLedger>>
mintBounds == <<mintClock, approvals, gates, mintCrashes, readErrors, mintWriteErrors>>
mintHistory == <<standing, unreadable, attempts>>
mintVars == <<mintPc, digest, seen, files, mintBounds, mintHistory>>

Gates == [digests : SUBSET Digests \ {{}}, network : Networks, expires : 0 .. MaxMintClock,
          attested : BOOLEAN]
GateFiles == Gates \cup {NoGate}
Pcs == {"idle", "readGate", "readConsumed", "consume", "recordOpen",
        "recordRefusal", "execute"}
Attempts == [digest : Digests, at : Nat, standing : SUBSET GateFiles, unreadable : BOOLEAN]

MintInit ==
  /\ mintPc = "idle" /\ digest \in Digests /\ seen = NoGate
  /\ gate = NoGate /\ consumed = {} /\ mintLedger = <<>>
  /\ mintClock = 0 /\ approvals = 0 /\ gates = 0
  /\ mintCrashes = 0 /\ readErrors = 0 /\ mintWriteErrors = 0
  /\ standing = {} /\ unreadable = FALSE /\ attempts = <<>>

-----------------------------------------------------------------------------
(* The check, one action per read or write of a file. *)

ApproveMint(d) ==
  /\ mintPc = "idle" /\ approvals < MaxApprovals
  /\ approvals' = approvals + 1
  /\ digest' = d /\ mintPc' = "readGate"
  /\ standing' = {gate} /\ unreadable' = FALSE
  /\ UNCHANGED <<seen, files, mintClock, gates, mintCrashes, readErrors, mintWriteErrors,
                 attempts>>

(* Mutant: the gate file is read once and kept. *)
ReadGateOnce ==
  /\ mintPc = "readGate"
  /\ seen' = IF seen = NoGate THEN gate ELSE seen
  /\ mintPc' = IF seen' = NoGate THEN "recordRefusal" ELSE "readConsumed"
  /\ UNCHANGED <<digest, files, mintBounds, mintHistory>>

ReadGate ==
  /\ mintPc = "readGate"
  /\ seen' = gate
  /\ mintPc' = IF gate = NoGate \/ ~gate.attested THEN "recordRefusal" ELSE "readConsumed"
  /\ UNCHANGED <<digest, files, mintBounds, mintHistory>>

Names(g, d) == d \in g.digests /\ g.network = NetworkOf[d]

(* Mutant: the consumed digests are not looked at. *)
ReadConsumedBlindly ==
  /\ mintPc = "readConsumed"
  /\ mintPc' = IF Names(seen, digest) /\ mintClock <= seen.expires
               THEN "consume" ELSE "recordRefusal"
  /\ UNCHANGED <<digest, seen, files, mintBounds, mintHistory>>

ReadConsumed ==
  /\ mintPc = "readConsumed"
  /\ mintPc' = IF /\ consumed # Corrupt /\ digest \notin consumed
                  /\ Names(seen, digest) /\ mintClock <= seen.expires
               THEN "consume" ELSE "recordRefusal"
  /\ UNCHANGED <<digest, seen, files, mintBounds, mintHistory>>

(* _mint_consumed_digests takes any OSError for "nothing consumed yet".   *)
ReadConsumedFails ==
  /\ mintPc = "readConsumed" /\ readErrors < MaxReadErrors
  /\ readErrors' = readErrors + 1 /\ unreadable' = TRUE
  /\ mintPc' = IF Names(seen, digest) /\ mintClock <= seen.expires
               THEN "consume" ELSE "recordRefusal"
  /\ UNCHANGED <<digest, seen, files, mintClock, approvals, gates, mintCrashes,
                 mintWriteErrors,
                 standing, attempts>>

(* _mint_consume_digest: reads the file again, writes it back with the    *)
(* digest.  A file that became corrupt in between ends the handler.       *)
Consume ==
  /\ mintPc = "consume"
  /\ IF consumed = Corrupt THEN mintPc' = "idle" /\ UNCHANGED consumed
     ELSE mintPc' = "recordOpen" /\ consumed' = consumed \cup {digest}
  /\ UNCHANGED <<digest, seen, gate, mintLedger, mintBounds, mintHistory>>

(* The second read fails: the digest replaces every one consumed before. *)
ConsumeForgetful ==
  /\ mintPc = "consume" /\ readErrors < MaxReadErrors
  /\ readErrors' = readErrors + 1 /\ unreadable' = TRUE
  /\ mintPc' = "recordOpen" /\ consumed' = {digest}
  /\ UNCHANGED <<digest, seen, gate, mintLedger, mintClock, approvals, gates, mintCrashes,
                 mintWriteErrors, standing, attempts>>

Row(decision) == [decision |-> decision, digest |-> digest]

RecordOpen ==
  /\ mintPc = "recordOpen" /\ mintPc' = "execute"
  /\ mintLedger' = Append(mintLedger, Row("mint-gate-open"))
  /\ UNCHANGED <<digest, seen, gate, consumed, mintBounds, mintHistory>>

RecordRefusal ==
  /\ mintPc = "recordRefusal" /\ mintPc' = "idle"
  /\ mintLedger' = Append(mintLedger, Row("mint-gate-refused"))
  /\ UNCHANGED <<digest, seen, gate, consumed, mintBounds, mintHistory>>

(* The wallet is asked to mint; what comes of it is not the gate's matter. *)
Execute ==
  /\ mintPc = "execute" /\ mintPc' = "idle"
  /\ attempts' = Append(attempts, [digest |-> digest, at |-> mintClock,
                                   standing |-> standing, unreadable |-> unreadable])
  /\ UNCHANGED <<digest, seen, files, mintBounds, standing, unreadable>>

-----------------------------------------------------------------------------
(* The human's tooling, the disk, the clock. *)

HumanWritesGate(g) ==
  /\ gates < MaxGates
  /\ gates' = gates + 1
  /\ gate' = g /\ standing' = standing \cup {g}
  /\ UNCHANGED <<mintPc, digest, seen, consumed, mintLedger, mintClock, approvals,
                 mintCrashes,
                 readErrors, mintWriteErrors, unreadable, attempts>>

HumanRemovesGate ==
  /\ gate # NoGate /\ gate' = NoGate
  /\ UNCHANGED <<mintPc, digest, seen, consumed, mintLedger, mintBounds, mintHistory>>

(* Something outside of the daemon damages the consumed digests. *)
ConsumedDamaged ==
  /\ mintWriteErrors < MaxMintWriteErrors
  /\ mintWriteErrors' = mintWriteErrors + 1
  /\ consumed' = Corrupt
  /\ UNCHANGED <<mintPc, digest, seen, gate, mintLedger, mintClock, approvals, gates,
                 mintCrashes,
                 readErrors, mintHistory>>

MintWriteFails ==
  /\ mintWriteErrors < MaxMintWriteErrors
  /\ mintWriteErrors' = mintWriteErrors + 1
  /\ mintPc \in {"consume", "recordOpen", "recordRefusal"} /\ mintPc' = "idle"
  /\ UNCHANGED <<digest, seen, files, mintClock, approvals, gates, mintCrashes,
                 readErrors, mintHistory>>

(* The check keeps nothing in memory, so a restart needs no step. *)
MintCrash ==
  /\ mintCrashes < MaxMintCrashes
  /\ mintCrashes' = mintCrashes + 1
  /\ mintPc # "idle" /\ mintPc' = "idle"
  /\ UNCHANGED <<digest, seen, files, mintClock, approvals, gates, readErrors,
                 mintWriteErrors, mintHistory>>

MintTick ==
  /\ mintClock < MaxMintClock
  /\ mintClock' = mintClock + 1
  /\ UNCHANGED <<mintPc, digest, seen, files, approvals, gates, mintCrashes, readErrors,
                 mintWriteErrors, mintHistory>>

MintNext ==
  \/ \E d \in Digests : ApproveMint(d)
  \/ ReadGate \/ ReadConsumed \/ ReadConsumedFails
  \/ Consume \/ ConsumeForgetful \/ RecordOpen \/ RecordRefusal \/ Execute
  \/ \E g \in Gates : HumanWritesGate(g)
  \/ HumanRemovesGate \/ ConsumedDamaged \/ MintWriteFails \/ MintCrash \/ MintTick

MintSpec == MintInit /\ [][MintNext]_mintVars

-----------------------------------------------------------------------------
(* "Each digest is one-shot": however often the human approves equal       *)
(* params, rewrites the gate or restarts the daemon, they execute once, as *)
(* long as the record of consumed digests can be read.                     *)
OneAttemptPerGrant ==
  readErrors = 0 =>
  \A i, j \in DOMAIN attempts : attempts[i].digest = attempts[j].digest => i = j

(* The gate is "read fresh every time": an attempt was granted by a gate   *)
(* that stood during its own execution, not by one withdrawn before.       *)
AttemptWasGranted ==
  \A i \in DOMAIN attempts :
    \E g \in attempts[i].standing \ {NoGate} :
      Names(g, attempts[i].digest) /\ g.attested

(* "Fail closed: an unreadable consumption record refuses every mint." *)
UnreadableRecordRefuses == \A i \in DOMAIN attempts : ~attempts[i].unreadable
=============================================================================

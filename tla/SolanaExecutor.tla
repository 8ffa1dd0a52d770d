--------------------------- MODULE SolanaExecutor ---------------------------
(***************************************************************************)
(* The execution of an approved SOL transfer (daemon.py,                   *)
(* _execute_solana_spend; solana.py): the RPC node proves its network by   *)
(* its genesis hash, gives a blockhash, takes the signed transaction and   *)
(* is asked for its status until it is confirmed.  A transaction is its    *)
(* content: the same transfer over the same blockhash is the same          *)
(* transaction, and a cluster executes it once.                            *)
(*                                                                         *)
(* One execution at a time.  Any call to the node may fail, before or      *)
(* after the node acted on it; a status that is not confirmed may be of a  *)
(* fork that is left.                                                      *)
(***************************************************************************)
EXTENDS Naturals, Sequences, FiniteSets

CONSTANTS
  Chains,       \* solana-devnet, solana-mainnet
  Mainnets,     \* those that are not a testnet
  Transfers,    \* what may be approved: chain, to, lamports and foreign amounts
  Addresses,    \* destinations that decode to 32 bytes
  MaxExecuted,  \* bound on executions
  MaxTip,       \* bound on the blockhashes of a cluster
  MaxSolanaTrouble \* bound on failures of the node

SolanaAssumption ==
  /\ Mainnets \subseteq Chains
  /\ \A p \in Transfers : p.chain \in Chains /\ p.lamports \in Nat
  /\ {MaxExecuted, MaxTip, MaxSolanaTrouble} \subseteq Nat

VARIABLES
  config,        \* the active chain, the mainnet flag, whether a seed is there
  node,          \* the cluster that the configured URL leads to
  solanaPc,      \* where the execution is
  built,         \* the transaction in hand
  runs,          \* the executions, in order: transfer, row, transaction
  solanaCounted, \* those that velocity counts
  cluster,       \* what became of each transaction sent
  tip,           \* the latest blockhash
  solanaTrouble,
  blind,         \* history: executions that failed without a final answer
  stale          \* history: a blockhash was given twice

solanaExec == <<solanaPc, built, runs, solanaCounted, blind>>
solanaVars == <<config, node, solanaExec, cluster, tip, solanaTrouble, stale>>

NoTx == [net |-> "none"]
BadName == "none"   \* solana.network holds neither of the two names
Configs == [active : Chains \cup {BadName}, mainnetFlag : BOOLEAN, seeded : BOOLEAN]
SolanaSent == DOMAIN cluster

SolanaInit ==
  /\ config \in Configs
  /\ node \in Chains
  /\ solanaPc = "idle" /\ built = NoTx
  /\ runs = <<>> /\ solanaCounted = {}
  /\ cluster = [t \in {} |-> "pending"]
  /\ tip = 0 /\ solanaTrouble = 0 /\ blind = {} /\ stale = FALSE

Now == Len(runs)
Transfer == runs[Now].p

SolanaEnded(row) ==
  /\ solanaPc' = "idle" /\ built' = NoTx
  /\ runs' = [runs EXCEPT ![Now].row = row, ![Now].tx = built]
  /\ solanaCounted' = IF row = "failed" THEN solanaCounted ELSE solanaCounted \cup {Now}

\* solana.SolanaError
SolanaFail(answered) ==
  /\ SolanaEnded("failed")
  /\ blind' = IF answered THEN blind ELSE blind \cup {Now}

-----------------------------------------------------------------------------
(* The execution                                                           *)

\* The approved transfer begins to run: "executing" is in the ledger.
BeginTransfer(p) ==
  /\ solanaPc = "idle" /\ Now < MaxExecuted
  /\ runs' = Append(runs, [p |-> p, row |-> "executing", tx |-> NoTx])
  /\ solanaPc' = "guard"
  /\ UNCHANGED <<config, node, built, solanaCounted, cluster, tip, solanaTrouble, blind,
                 stale>>

\* _active_solana_chain: a name that is none of the two is refused.
IsActive(chain) == config.active # BadName /\ chain = config.active

\* _solana_keypair: the seed of the active derivation, and never the other.
HasKey == config.seeded

\* The configured network, the mainnet flag, the amount in lamports, the key.
Guarded(p) ==
  /\ IsActive(p.chain)
  /\ p.chain \in Mainnets => config.mainnetFlag
  /\ ~p.misused
  /\ HasKey

\* check_network: the genesis hash.
NodeIs == node = Transfer.chain

Guard ==
  /\ solanaPc = "guard"
  /\ \/ Guarded(Transfer) /\ NodeIs /\ solanaPc' = "sign"
        /\ UNCHANGED <<built, runs, solanaCounted, blind>>
     \/ SolanaFail(TRUE)
  /\ UNCHANGED <<config, node, cluster, tip, solanaTrouble, stale>>

\* _check_address and the check of the amount in build_transfer.
Transferable(p) == p.lamports > 0 /\ p.to \in Addresses

\* build_transfer: one instruction, and what it carries is the transfer.
Transaction(p, h) == [net |-> node, to |-> p.to, lamports |-> p.lamports, hash |-> h]

\* Mutant: the first blockhash serves for every transfer.
SignOverFirst ==
  /\ solanaPc = "sign"
  /\ \/ /\ Transferable(Transfer)
        /\ built' = Transaction(Transfer, 0)
        /\ solanaPc' = "send"
        /\ UNCHANGED <<runs, solanaCounted, blind, stale>>
     \/ SolanaFail(TRUE) /\ UNCHANGED stale
  /\ UNCHANGED <<config, node, cluster, tip, solanaTrouble>>

\* get_latest_blockhash and build_transfer.  A blockhash a transaction of ours
\* already has is an answer of a node that is behind.
SignTransfer ==
  /\ solanaPc = "sign"
  /\ \/ /\ Transferable(Transfer)
        /\ \E h \in 0 .. tip :
             /\ built' = Transaction(Transfer, h)
             /\ stale' = (stale \/ \E t \in SolanaSent : t.hash = h)
        /\ solanaPc' = "send"
        /\ UNCHANGED <<runs, solanaCounted, blind>>
     \/ SolanaFail(TRUE) /\ UNCHANGED stale
  /\ UNCHANGED <<config, node, cluster, tip, solanaTrouble>>

\* The node takes the transaction; one the cluster knows stays what it is.
Taken ==
  cluster' = [t \in SolanaSent \cup {built} |-> IF t \in SolanaSent THEN cluster[t] ELSE "pending"]

\* sendTransaction: taken; refused by the node's simulation; or the answer is
\* lost, whether or not the node took it.
SendTransfer ==
  /\ solanaPc = "send"
  /\ \/ Taken /\ solanaPc' = "wait" /\ UNCHANGED <<built, runs, solanaCounted, blind,
                                                   solanaTrouble>>
     \/ SolanaFail(TRUE) /\ UNCHANGED <<cluster, solanaTrouble>>
     \/ /\ solanaTrouble < MaxSolanaTrouble /\ solanaTrouble' = solanaTrouble + 1
        /\ Taken \/ UNCHANGED cluster
        /\ SolanaFail(FALSE)
  /\ UNCHANGED <<config, node, tip, stale>>

\* wait_signature sees confirmed or finalized.
Confirmed ==
  /\ solanaPc = "wait" /\ cluster[built] = "confirmed"
  /\ SolanaEnded("approved")
  /\ UNCHANGED <<config, node, cluster, tip, solanaTrouble, blind, stale>>

\* It sees an error, of a fork or of the cluster.
Erred ==
  /\ solanaPc = "wait" /\ cluster[built] \in {"err", "failed"}
  /\ SolanaFail(cluster[built] = "failed")
  /\ UNCHANGED <<config, node, cluster, tip, solanaTrouble, stale>>

\* A poll fails: SolanaError as well.
PollFails ==
  /\ solanaPc = "wait" /\ solanaTrouble < MaxSolanaTrouble /\ solanaTrouble' = solanaTrouble + 1
  /\ SolanaFail(FALSE)
  /\ UNCHANGED <<config, node, cluster, tip, stale>>

\* Mutant: a wait that is over is a failure.
TimeoutIsFailure ==
  /\ solanaPc = "wait" /\ SolanaFail(TRUE)
  /\ UNCHANGED <<config, node, cluster, tip, solanaTrouble, stale>>

\* BroadcastUnknown: the 90 s are over.
SolanaTimeout ==
  /\ solanaPc = "wait" /\ SolanaEnded("unknown")
  /\ UNCHANGED <<config, node, cluster, tip, solanaTrouble, blind, stale>>

-----------------------------------------------------------------------------
(* The cluster and the operator                                            *)

Becomes(t, s) ==
  /\ cluster' = [cluster EXCEPT ![t] = s]
  /\ UNCHANGED <<config, node, solanaExec, tip, solanaTrouble, stale>>

\* Included in a block, with or without success; the block confirmed, or left
\* for another fork; or never included before its blockhash is too old.
Process(t) == cluster[t] = "pending" /\ \E s \in {"ok", "err"} : Becomes(t, s)
Confirm(t) == \/ cluster[t] = "ok" /\ Becomes(t, "confirmed")
              \/ cluster[t] = "err" /\ Becomes(t, "failed")
Fork(t) == cluster[t] \in {"ok", "err"} /\ Becomes(t, "pending")
Forget(t) == cluster[t] = "pending" /\ Becomes(t, "dropped")

NewBlock ==
  /\ tip < MaxTip /\ tip' = tip + 1
  /\ UNCHANGED <<config, node, solanaExec, cluster, solanaTrouble, stale>>

\* The operator edits the configuration and restarts the daemon; the URL and
\* the network it names are two entries.
ConfigureSolana ==
  /\ solanaPc = "idle" /\ solanaTrouble < MaxSolanaTrouble /\ solanaTrouble' = solanaTrouble + 1
  /\ \/ config' \in Configs
        /\ UNCHANGED node
     \/ node' \in Chains /\ UNCHANGED config
  /\ UNCHANGED <<solanaExec, cluster, tip, stale>>

SolanaNext ==
  \/ (\E p \in Transfers : BeginTransfer(p)) \/ Guard \/ SignTransfer \/ SendTransfer
  \/ Confirmed \/ Erred \/ PollFails \/ SolanaTimeout
  \/ \E t \in SolanaSent : Process(t) \/ Confirm(t) \/ Fork(t) \/ Forget(t)
  \/ NewBlock \/ ConfigureSolana

SolanaSpec == SolanaInit /\ [][SolanaNext]_solanaVars

-----------------------------------------------------------------------------
(* Properties                                                              *)

\* Two transfers on record as approved are two transactions that the cluster
\* confirmed, as long as the node's blockhashes are fresh (sign_transfer).
RowsNameTheirOwn ==
  stale \/ \A i, j \in DOMAIN runs :
    runs[i].row = "approved" =>
      /\ cluster[runs[i].tx] = "confirmed"
      /\ i # j /\ runs[j].row \in {"approved", "unknown"} => runs[j].tx # runs[i].tx

\* What the cluster carries out is counted or still executing, unless its
\* execution failed without a final answer (wait_signature).
LandedIsCounted ==
  \A t \in SolanaSent :
    cluster[t] = "confirmed" =>
      \/ solanaPc = "wait" /\ built = t
      \/ \E i \in solanaCounted \cup blind : runs[i].tx = t
=============================================================================

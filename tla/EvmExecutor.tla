---------------------------- MODULE EvmExecutor ----------------------------
(***************************************************************************)
(* The execution of an approved EVM intent (daemon.py, _execute_spend and  *)
(* the _execute_evm_* functions): a few transactions signed one after the  *)
(* other with one account, each broadcast to a JSON-RPC node and waited    *)
(* for, and the account's chain as the node shows it.                      *)
(*                                                                         *)
(* A plain transfer, a deployment and a contract call are one transaction, *)
(* "main"; a swap or a liquidity intent first raises each allowance it     *)
(* needs that is short.  The daemon runs one execution at a time.  A       *)
(* timeout may fire whenever the receipt is outstanding; a transport error *)
(* may hit any call to the node, before or after the node acted on it.     *)
(***************************************************************************)
EXTENDS Naturals, Sequences, FiniteSets

CONSTANTS
  Spends,      \* approved intents
  Keys,        \* allowances: a token and the contract that may spend it
  Needs,       \* the keys an intent draws on, in order
  Amount,      \* how much it draws from each
  Rechecks     \* intents that look at the receipt again (call, deploy)

SpendsAssumption ==
  /\ IsFiniteSet(Spends) /\ IsFiniteSet(Keys)
  /\ "main" \notin Keys
  /\ Needs \in [Spends -> Seq(Keys)]
  /\ Amount \in [Spends -> Nat \ {0}]
  /\ Rechecks \subseteq Spends

VARIABLES
  running,   \* the intents in execution, at most one
  evmPc,     \* where its execution is
  leg,       \* the index of its next transaction; main comes after the needs
  nonce,     \* the nonce that transaction will carry
  outcome,   \* what the daemon makes of each intent
  fate,      \* what became of each transaction
  txNonce,   \* the nonce each was signed with
  mined,     \* the account's nonce on the chain
  allowance  \* the allowances on the chain

exec == <<running, evmPc, leg, nonce, outcome>>
chain == <<fate, txNonce, mined, allowance>>
evmVars == <<running, evmPc, leg, nonce, outcome, fate, txNonce, mined, allowance>>

Txs == Spends \X (Keys \cup {"main"})
MaxNonce == Cardinality(Txs)

EvmInit ==
  /\ running = {}
  /\ evmPc = "idle"
  /\ leg = 1
  /\ nonce = 0
  /\ outcome = [s \in Spends |-> "none"]
  /\ fate = [t \in Txs |-> "unsent"]
  /\ txNonce = [t \in Txs |-> 0]
  /\ mined = 0
  /\ allowance = [k \in Keys |-> 0]

IsMain(s) == leg > Len(Needs[s])
Tx(s) == <<s, IF IsMain(s) THEN "main" ELSE Needs[s][leg]>>

Pending(n) == {t \in Txs : fate[t] = "pending" /\ txNonce[t] = n}

\* A mutation of PendingNonce: the nonce of the latest block.
LatestNonce == mined

\* eth_getTransactionCount(.., "pending"): the first nonce from the chain's on
\* that no pending transaction has.
PendingNonce ==
  CHOOSE n \in mined .. mined + MaxNonce :
    Pending(n) = {} /\ \A k \in mined .. n - 1 : Pending(k) # {}

\* The execution ends and the daemon records o.
End(s, o) ==
  /\ running' = {}
  /\ evmPc' = "idle"
  /\ outcome' = [outcome EXCEPT ![s] = o]
  /\ UNCHANGED <<leg, nonce>>

-----------------------------------------------------------------------------
(* The execution                                                           *)

\* Guards, quote, bounds and pins hold and the node gives a nonce.
BeginIntent(s) ==
  /\ running = {}
  /\ outcome[s] = "none"
  /\ running' = {s}
  /\ evmPc' = "check"
  /\ leg' = 1
  /\ nonce' = PendingNonce
  /\ UNCHANGED <<outcome, chain>>

\* One of them does not: nothing was signed.
Refuse(s) ==
  /\ running = {}
  /\ outcome[s] = "none"
  /\ End(s, "failed")
  /\ UNCHANGED chain

\* _evm_ensure_allowance: an allowance that covers the amount is left alone.
Check(s) ==
  /\ s \in running
  /\ evmPc = "check"
  /\ IF ~IsMain(s) /\ allowance[Needs[s][leg]] >= Amount[s]
     THEN leg' = leg + 1 /\ UNCHANGED evmPc
     ELSE evmPc' = "send" /\ UNCHANGED leg
  /\ UNCHANGED <<running, nonce, outcome, chain>>

\* What a signed transaction does to the others of its nonce in the pool.
Accepted(t) ==
  /\ nonce >= mined
  /\ fate' = [u \in Txs |-> IF u = t THEN "pending"
                            ELSE IF u \in Pending(nonce) THEN "replaced"
                            ELSE fate[u]]
  /\ txNonce' = [txNonce EXCEPT ![t] = nonce]
  /\ UNCHANGED <<mined, allowance>>

\* send_raw_tx returns a hash.
SendTx(s) ==
  /\ s \in running
  /\ evmPc = "send"
  /\ Accepted(Tx(s))
  /\ evmPc' = "wait"
  /\ UNCHANGED <<running, leg, nonce, outcome>>

\* Any call to the node raises EvmError: it was not reached, it refuses (gas
\* estimate, nonce too low, underpriced), or it accepts a transaction and the
\* answer is lost.
NodeFails(s) ==
  /\ s \in running
  /\ evmPc \in {"check", "send", "wait", "recheck"}
  /\ End(s, "failed")
  /\ UNCHANGED chain \/ (evmPc = "send" /\ Accepted(Tx(s)))

\* wait_receipt finds the receipt of a transaction that succeeded.
Receipt(s) ==
  /\ s \in running
  /\ evmPc = "wait"
  /\ fate[Tx(s)] = "mined"
  /\ IF ~IsMain(s)
     THEN /\ evmPc' = "check"
          /\ leg' = leg + 1
          /\ nonce' = nonce + 1
          /\ UNCHANGED <<running, outcome>>
     ELSE IF s \in Rechecks
     THEN evmPc' = "recheck" /\ UNCHANGED <<running, leg, nonce, outcome>>
     ELSE End(s, "submitted")
  /\ UNCHANGED chain

\* .. or of one that did not.
Reverted(s) ==
  /\ s \in running
  /\ evmPc = "wait"
  /\ fate[Tx(s)] = "reverted"
  /\ End(s, "failed")
  /\ UNCHANGED chain

\* wait_receipt's 90 s are over without a receipt seen.
EvmTimeout(s) ==
  /\ s \in running
  /\ evmPc = "wait"
  /\ End(s, "unknown")
  /\ UNCHANGED chain

\* _execute_contract_call reads the receipt once more, the deployment checks
\* the address in it.
Recheck(s) ==
  /\ s \in running
  /\ evmPc = "recheck"
  /\ End(s, "submitted")
  /\ UNCHANGED chain

-----------------------------------------------------------------------------
(* The chain, outside the code                                             *)

\* A mutation of Approved: the amount is added to what is left.
ApprovedOnTop(s, k) == allowance[k] + Amount[s]

\* What the approve that the daemon signs sets the allowance to.
Approved(s, k) == Amount[s]

NeededBy(s) == {Needs[s][i] : i \in DOMAIN Needs[s]}
Covered(s) == \A k \in NeededBy(s) : allowance[k] >= Amount[s]

\* The next transaction of the account is executed; main draws on every
\* allowance it needs and reverts without them.
Mine(t) ==
  /\ t \in Pending(mined)
  /\ mined' = mined + 1
  /\ \/ /\ fate' = [fate EXCEPT ![t] = "reverted"]
        /\ UNCHANGED allowance
     \/ /\ t[2] = "main" => Covered(t[1])
        /\ fate' = [fate EXCEPT ![t] = "mined"]
        /\ allowance' = [k \in Keys |->
             IF t[2] = k THEN Approved(t[1], k)
             ELSE IF t[2] = "main" /\ k \in NeededBy(t[1])
             THEN allowance[k] - Amount[t[1]]
             ELSE allowance[k]]
  /\ UNCHANGED <<exec, txNonce>>

DropTx(t) ==
  /\ fate[t] = "pending"
  /\ fate' = [fate EXCEPT ![t] = "dropped"]
  /\ UNCHANGED <<exec, txNonce, mined, allowance>>

Finished ==
  /\ \A s \in Spends : outcome[s] # "none"
  /\ UNCHANGED evmVars

EvmNext ==
  \/ \E s \in Spends :
       \/ BeginIntent(s) \/ Refuse(s) \/ Check(s) \/ SendTx(s) \/ NodeFails(s)
       \/ Receipt(s) \/ Reverted(s) \/ EvmTimeout(s) \/ Recheck(s)
  \/ \E t \in Txs : Mine(t) \/ DropTx(t)
  \/ Finished

EvmSpec == EvmInit /\ [][EvmNext]_evmVars

-----------------------------------------------------------------------------
(* Properties                                                              *)

\* No contract is ever allowed more than one approved intent asked for,
\* whatever failed or is still pending ("exact amount, never unlimited").
AllowanceIsExact ==
  \A k \in Keys :
    allowance[k] > 0 =>
      \E s \in Spends : /\ s \in running \/ outcome[s] # "none"
                        /\ k \in NeededBy(s)
                        /\ allowance[k] <= Amount[s]

\* As long as the node forgets nothing it accepted, a new transaction never
\* takes the place of one that is still pending (Rpc.nonce asks for the
\* pending count).
NothingReplaced ==
  (\A t \in Txs : fate[t] # "dropped") => \A t \in Txs : fate[t] # "replaced"

\* What is recorded as failed was never broadcast, or has been executed in
\* vain: it can be asked for again.
FailedIsNotPending ==
  \A s \in Spends :
    outcome[s] = "failed" => fate[<<s, "main">>] \notin {"pending", "mined"}
=============================================================================

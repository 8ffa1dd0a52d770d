----------------------------- MODULE SageWallet -----------------------------
(***************************************************************************)
(* Spending through the Sage wallet (daemon.py, _ensure_sage_rpc,          *)
(* _chia_wallet, _execute_..._via_sage; chia.py, wait_for_...): the daemon *)
(* checks who listens on Sage's port, logs in to its own wallet, has Sage  *)
(* build, sign and submit, and watches the wallet's transactions for what  *)
(* it asked for.                                                           *)
(*                                                                         *)
(* The daemon serves one request at a time.  Around it, Sage dies or is    *)
(* replaced, other tools log in elsewhere, before the daemon's login,      *)
(* between it and the call, and while the daemon watches; the wallet       *)
(* changes hands with the chain, and an answer of Sage may get lost after  *)
(* it has submitted.  What a route reads before it queues an intent it     *)
(* reads with its login, in one step.                                      *)
(***************************************************************************)
EXTENDS SageIntents

CONSTANTS
  Bodies,           \* requests
  FirstHoldings,    \* what the wallet may hold at first
  Slack,            \* the 60 s before the call that wait_for_* looks back
  Patience,         \* chia.sage_wait_timeout_s
  RuntimeImport,    \* chia.sage_runtime_key_import
  MaxAsked,         \* bound on requests
  MaxTrouble,       \* bound on what happens to Sage and the wallet
  MaxClock          \* bound on the clock

SageWalletAssumption ==
  /\ {Slack, Patience, MaxAsked, MaxTrouble, MaxClock} \subseteq Nat
  /\ RuntimeImport \in BOOLEAN
  /\ Bodies \subseteq RequestShape
  /\ FirstHoldings \subseteq WalletShape

VARIABLES
  listener,  \* who answers on the RPC port: "none", "pinned", "stranger"
  imported,  \* Sage holds the daemon's key
  selected,  \* the wallet Sage is logged in to
  wallet,    \* what the daemon's wallet holds
  pc, job,   \* the handler: what it does next, for which intent
  queue,     \* intents that wait for the human
  txs,       \* what Sage has submitted, with when it was confirmed
  ledger,    \* the rows that end an execution; history: since when each
             \* had watched
  overtaken, \* history: the executions between whose login and call another
             \* tool logged in
  clock, asked, trouble

sage == <<listener, imported, selected>>
handler == <<pc, job>>
bounds == <<clock, asked, trouble>>
sageVars == <<sage, wallet, handler, queue, txs, ledger, overtaken, bounds>>

Never == -1
NoJob == [p |-> [intent |-> "none"], since |-> 0, tx |-> 0]
Job(p) == [NoJob EXCEPT !.p = p]
This == job.p

\* One execution at a time, and every execution ends in one row.
Attempt == Len(ledger) + 1

SageInit ==
  /\ listener \in {"none", "pinned"} /\ imported \in BOOLEAN
  /\ selected = "other"
  /\ wallet \in FirstHoldings
  /\ pc = "idle" /\ job = NoJob
  /\ queue = {} /\ txs = <<>> /\ ledger = <<>> /\ overtaken = {}
  /\ clock = 0 /\ asked = 0 /\ trouble = 0

-----------------------------------------------------------------------------
(* Reaching the daemon's wallet                                            *)

\* _ensure_sage_rpc and SageRpc.probe: whoever answers has the pinned
\* certificate; when nobody answers, Sage is started.
Trusted == listener # "stranger"

\* Mutant: the wallet that happens to be selected is good enough.
StaySelected ==
  /\ Trusted
  /\ imported \/ RuntimeImport
  /\ listener' = "pinned" /\ imported' = TRUE
  /\ UNCHANGED selected

\* _chia_sage_rpc, _chia_wallet, _sage_import_key
SelectOwn ==
  /\ Trusted
  /\ imported \/ RuntimeImport
  /\ listener' = "pinned" /\ imported' = TRUE
  /\ selected' = "own"

\* sage_provision
Provision ==
  /\ pc = "idle" /\ ~imported /\ Trusted
  /\ listener' = "pinned" /\ imported' = TRUE /\ selected' = "own"
  /\ UNCHANGED <<wallet, handler, queue, txs, ledger, overtaken, bounds>>

-----------------------------------------------------------------------------
(* Requests                                                                *)

\* Requests whose route asks Sage before the intent is queued.
ReadsWallet == {"offer_make", "offer_take", "offer_cancel", "option_exercise"}

\* _run_fund_intent, _queue_tx_intent, rt_offer_cancel.  What policy says is
\* left open; Policy and SpendDaemon have that.
Request(p) ==
  /\ pc = "idle" /\ asked < MaxAsked
  /\ asked' = asked + 1
  /\ IF p.intent \in ReadsWallet THEN SelectOwn ELSE UNCHANGED sage
  /\ \E q \in Ask(p, wallet) :
       \/ /\ queue' = queue \cup {[id |-> asked', intent |-> q]}
          /\ UNCHANGED handler
       \/ /\ q.intent \notin AlwaysQueued
          /\ pc' = "select" /\ job' = Job(q)
          /\ UNCHANGED queue
  /\ UNCHANGED <<wallet, txs, ledger, overtaken, clock, trouble>>

\* rt_queue_approve
Approve ==
  /\ pc = "idle"
  /\ \E item \in queue :
       /\ queue' = queue \ {item}
       /\ pc' = "select" /\ job' = Job(item.intent)
  /\ UNCHANGED <<sage, wallet, txs, ledger, overtaken, bounds>>

-----------------------------------------------------------------------------
(* Executions                                                              *)

Ended(decision, ref) ==
  /\ pc' = "idle" /\ job' = NoJob
  /\ ledger' = Append(ledger, [intent |-> This, decision |-> decision, ref |-> ref,
                               since |-> job.since])

Fail == Ended("failed", 0)

Select ==
  /\ pc = "select"
  /\ \/ /\ SelectOwn
        /\ pc' = "call"
        /\ UNCHANGED <<job, ledger>>
     \/ /\ Fail
        /\ UNCHANGED sage
  /\ UNCHANGED <<wallet, queue, txs, overtaken, bounds>>

\* What the wallet holds once Sage has carried out p.
Spent(p) ==
  LET out == Outgoing(p, wallet)
      Gone == IF p.intent \in {"did_transfer", "option_transfer", "option_exercise"}
              THEN ToSet(p.ids) ELSE {}
      After(o) == CASE p.intent = "offer_cancel" /\ o \in ToSet(p.ids) -> "cancelled"
                    [] p.intent = "offer_take" /\ o = p.offer -> "completed"
                    [] OTHER -> wallet.offers[o].status
  IN  IF p.intent = "offer_make" THEN wallet
      ELSE [wallet EXCEPT
              !.xch = @ - TotalOf(out, "native"),
              !.cats = [c \in Cats |-> @[c] - TotalOf(out, c)],
              !.nfts = IF p.intent \in {"transfer", "offer_take"}
                       THEN @ \ {Launcher[a] : a \in AssetsOf(out) \cap DOMAIN Launcher}
                       ELSE @,
              !.dids = @ \ Gone, !.options = @ \ Gone,
              !.offers = [o \in OfferIds |-> [@[o] EXCEPT !.status = After(o)]]]

\* Sage builds, signs and submits, from the wallet it is logged in to.
Submits(out) ==
  txs' = Append(txs, [attempt |-> Attempt, intent |-> This, from |-> selected,
                      out |-> out, confirmed |-> Never])

CallOwn ==
  /\ selected = "own"
  /\ Runs(This, wallet) /\ Payable(Outgoing(This, wallet), wallet)
  /\ Submits(Outgoing(This, wallet))
  /\ wallet' = Spent(This)

\* Each request to Sage is of its own, so the checks may have read either
\* wallet; what another one holds is left open.
CallOther ==
  /\ selected # "own"
  /\ Submits(<<>>)
  /\ UNCHANGED wallet

\* The checks, then the call.  A transport failure is a SageError whether or
\* not Sage had submitted by then.
Call ==
  /\ pc = "call"
  /\ \/ /\ listener = "pinned"
        /\ CallOwn \/ CallOther
        /\ \/ /\ pc' = "watch" /\ job' = [job EXCEPT !.since = clock,
                                                     !.tx = Len(txs')]
              /\ UNCHANGED ledger
           \/ Fail
     \/ Fail /\ UNCHANGED <<wallet, txs>>
  /\ UNCHANGED <<sage, queue, overtaken, bounds>>

OnChain(t) == txs[t].confirmed # Never

\* Sage shows the transactions of the wallet it is logged in to, of which
\* wait_for_* drops those from long before the call.
Recent(t) ==
  /\ OnChain(t) /\ txs[t].from = selected
  /\ txs[t].confirmed >= job.since - Slack

\* Mutant: the created coin's asset is not compared.
PaymentOfAnyAsset(t) ==
  Recent(t) /\ \E c \in CoinsOf(txs[t].intent) : c.to = This.to /\ c.amount = This.amount

\* wait_for_outgoing: a transaction with a coin for the destination, of the
\* amount and, unless XCH is sent, of the asset.
PaymentSeen(t) ==
  /\ Recent(t)
  /\ \E c \in CoinsOf(txs[t].intent) :
       /\ c.to = This.to /\ c.amount = This.amount
       /\ AssetKind(This.asset) = "cat" => c.asset = CoinAsset(This.asset)

\* wait_for_nft_transfer: the NFT is spent and goes to the destination.
NftSeen(t) ==
  /\ Recent(t)
  /\ \E c \in CoinsOf(txs[t].intent) : c.to = This.to /\ c.asset = CoinAsset(This.asset)

\* wait_for_tx_by_inputs, _wait_pending_tx, the loop of
\* _execute_offer_cancel_via_sage, get_offer.
Seen(t) ==
  CASE Watches(This) = "payment" -> PaymentSeen(t)
    [] Watches(This) = "nft" -> NftSeen(t)
    [] Watches(This) = "inputs" -> t = job.tx /\ Recent(t)
    [] Watches(This) = "nothing" -> t = job.tx
    [] OTHER -> t = job.tx /\ txs[t].from = selected

\* The newest transaction that fits is the reference of the row.
See ==
  /\ pc = "watch"
  /\ \E t \in DOMAIN txs :
       /\ Seen(t)
       /\ \A u \in DOMAIN txs : Seen(u) => txs[u].confirmed <= txs[t].confirmed
       /\ Ended("approved", t)
  /\ UNCHANGED <<sage, wallet, queue, txs, overtaken, bounds>>

\* chia.BroadcastUnknown
GiveUp ==
  /\ pc = "watch" /\ clock >= job.since + Patience
  /\ Ended("unknown", 0)
  /\ UNCHANGED <<sage, wallet, queue, txs, overtaken, bounds>>

\* A request to Sage fails while the transaction is watched.
WatchFails ==
  /\ pc = "watch" /\ Watches(This) # "nothing"
  /\ trouble < MaxTrouble /\ trouble' = trouble + 1
  /\ Fail
  /\ UNCHANGED <<sage, wallet, queue, txs, overtaken, clock, asked>>

-----------------------------------------------------------------------------
(* Around the daemon                                                       *)

Trouble == trouble < MaxTrouble /\ trouble' = trouble + 1

\* Sage dies, or something else takes its port.
LoseSage ==
  /\ Trouble
  /\ listener' \in {"none", "stranger"} \ {listener}
  /\ UNCHANGED <<imported, selected, wallet, handler, queue, txs, ledger, overtaken,
                 clock, asked>>

\* Another tool logs in to its wallet.
OtherTool ==
  /\ Trouble /\ selected = "own"
  /\ selected' = "other"
  /\ overtaken' = overtaken \cup {n \in {Attempt} : pc = "call"}
  /\ UNCHANGED <<listener, imported, wallet, handler, queue, txs, ledger, clock, asked>>

\* Coins and singletons leave, offers close, and Sage corrects what it had
\* recorded of an option or an offer.
WalletChanges ==
  /\ Trouble /\ pc = "idle" /\ queue # {}
  /\ \/ wallet' = [wallet EXCEPT !.xch = 0]
     \/ \E c \in Cats : wallet' = [wallet EXCEPT !.cats[c] = 0]
     \/ wallet' = [wallet EXCEPT !.nfts = {}, !.dids = {}]
     \/ wallet' = [wallet EXCEPT !.options = {}]
     \/ \E o \in Options : wallet' = [wallet EXCEPT !.strikes[o].amount = @ + 1]
     \/ \E o \in OfferIds :
          \/ wallet' = [wallet EXCEPT !.offers[o].status = "expired"]
          \/ wallet' = [wallet EXCEPT !.offers[o].taker[1].royalty = @ + 1]
  /\ UNCHANGED <<sage, handler, queue, txs, ledger, overtaken, clock, asked>>

ChainConfirms ==
  /\ \E t \in DOMAIN txs :
       /\ ~OnChain(t) /\ Watches(txs[t].intent) # "nothing"
       /\ txs' = [txs EXCEPT ![t].confirmed = clock]
  /\ UNCHANGED <<sage, wallet, handler, queue, ledger, overtaken, bounds>>

Tick ==
  /\ clock < MaxClock
  /\ clock' = clock + 1
  /\ UNCHANGED <<sage, wallet, handler, queue, txs, ledger, overtaken, asked, trouble>>

Execution == Select \/ Call \/ See \/ GiveUp \/ WatchFails

SageNext ==
  \/ Provision \/ (\E p \in Bodies : Request(p)) \/ Approve
  \/ Execution
  \/ LoseSage \/ OtherTool \/ WalletChanges \/ ChainConfirms \/ Tick

SageSpec == SageInit /\ [][SageNext]_sageVars

-----------------------------------------------------------------------------
(* Properties                                                              *)

\* The largest leg, under one of these names.
Judged(legs, names) ==
  Max({0} \cup {legs[i].amount : i \in {j \in DOMAIN legs : legs[j].asset \in names}})

Spellings(a) == {a} \cup {s \in DOMAIN Lower : Lower[s] = a}

\* The XCH that no leg counts: the network fee of a transfer, which is set in
\* the daemon's configuration, the fee of a cancellation, and what becomes
\* the coins that a creation makes.
UncountedXch(p, a) ==
  IF a # "native" THEN 0
  ELSE CASE p.intent = "transfer" -> ConfiguredFee
         [] p.intent = "offer_cancel" -> p.fee
         [] OTHER -> Created(p)

JudgedAs(t, a, names) ==
  TotalOf(txs[t].out, a) <= Judged(Legs(txs[t].intent), names) + UncountedXch(txs[t].intent, a)

\* Policy judges legs one by one, so for each asset that leaves the wallet one
\* leg of the approved intent, under any spelling of that asset, was as large
\* as all that leaves but for the XCH that no leg counts, whatever Sage reports
\* between the request and the execution (_velocity_entries, _merge_legs, the
\* re-reading of strikes and offer terms).
JudgedAtTotal ==
  \A t \in DOMAIN txs :
    \A a \in AssetsOf(txs[t].out) : JudgedAs(t, a, Spellings(a))

\* Every spend is paid by the daemon's wallet, whichever wallet other tools
\* left selected, unless one of them logged in between the daemon's login and
\* its call (_chia_wallet).
OwnWalletPays ==
  \A t \in DOMAIN txs : txs[t].from # "own" => txs[t].attempt \in overtaken

\* A CAT or NFT transfer on record as submitted names a transaction that
\* created that coin for that destination, and that was not on chain already
\* when the watch looked back (SPEC_V1.md 3b, asset-aware verification).
RecordedMoveIsReal ==
  \A i \in DOMAIN ledger :
    LET row == ledger[i] IN
    /\ row.decision = "approved" /\ row.intent.intent = "transfer"
    /\ AssetKind(row.intent.asset) # "native"
    => /\ txs[row.ref].confirmed >= row.since - Slack
       /\ \E c \in CoinsOf(txs[row.ref].intent) :
            /\ c.asset = CoinAsset(row.intent.asset) /\ c.to = row.intent.to
            /\ AssetKind(row.intent.asset) = "cat" => c.amount = row.intent.amount
=============================================================================

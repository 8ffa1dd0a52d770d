---------------------------- MODULE NativeOffers ----------------------------
(***************************************************************************)
(* Native XCH offers (daemon.py, _execute_offer_make_native, _take_native, *)
(* _cancel_native) beside ordinary relay transfers.  An offer is a signed  *)
(* spend of our coins that anybody may complete; the daemon keeps a record *)
(* of it in config_dir/offers and treats the coins of open records as      *)
(* encumbered.  What the chain does with a coin and what the record says   *)
(* are written at different times, by different parties, and the daemon    *)
(* may stop in between.                                                    *)
(*                                                                         *)
(* The daemon executes one approved intent at a time.  Change coins and    *)
(* amounts are left out: an intent needs some non-empty set of coins.  The *)
(* relay's answer to a broadcast is as RelayBroadcast has it: a bundle may *)
(* reach a mempool whatever the daemon is told.                            *)
(***************************************************************************)
EXTENDS Naturals, FiniteSets

CONSTANTS
  Coins,        \* our coins
  Offers,       \* approved intents to make an offer
  Payments,     \* approved transfers, and takes of other people's offers
  MaxInFlight,  \* bound on the bundles in the mempool
  MaxOfferCrashes

OffersAssumption ==
  /\ Offers \cap Payments = {}
  /\ MaxInFlight \in Nat
  /\ MaxOfferCrashes \in Nat

VARIABLES
  record,    \* status of the stored record of each offer
  backing,   \* the maker coins of each offer that was signed
  hand,      \* the execution in hand, none or one
  done,      \* intents that were executed
  mempool,   \* bundles that may still be included
  spentBy,   \* the bundles included, for each coin
  offerCrashes,
  misread    \* history: an open record could not be read when coins were selected

offerVars == <<record, backing, hand, done, mempool, spentBy, offerCrashes, misread>>

Unspent == {c \in Coins : spentBy[c] = {}}
Open == {o \in Offers : record[o] = "open"}
CoinsOf(os) == UNION {backing[o] : o \in os}

OffersInit ==
  /\ record = [o \in Offers |-> "none"]
  /\ backing = [o \in Offers |-> {}]
  /\ hand = {}
  /\ done = {}
  /\ mempool = {}
  /\ spentBy = [c \in Coins |-> {}]
  /\ offerCrashes = 0
  /\ misread = FALSE

\* Mutations of Encumbered: every coin the relay calls unspent is free; one
\* open record, not each, is looked at.
NothingEncumbered(readable) == {}
OneRecordEncumbers(readable) ==
  IF readable = {} THEN {} ELSE backing[CHOOSE o \in readable : TRUE]

\* _open_offer_coin_ids, from the open records that can be read.
Encumbered(readable) == CoinsOf(readable)

\* _native_relay_coins and _native_select, or _execute_chia_spend_via_relay:
\* unspent by the relay's account, not encumbered, and enough of them.  A
\* record that cannot be read or parsed is skipped.
Selected(cs) ==
  /\ cs # {} /\ cs \subseteq Unspent
  /\ \E readable \in SUBSET Open :
       /\ cs \cap Encumbered(readable) = {}
       /\ misread' = (misread \/ readable # Open)

Submit(b) ==
  /\ mempool' = mempool \cup {b}
  /\ Cardinality(mempool') <= MaxInFlight

TakeCoins(op, i, cs) == hand' = {[op |-> op, id |-> i, coins |-> cs, todo |-> {}]}

-----------------------------------------------------------------------------
(* Executions                                                              *)

\* An execution begins: it selects its coins.
Select(op, i) ==
  /\ hand = {}
  /\ i \notin done
  /\ op = IF i \in Offers THEN "make" ELSE "pay"
  /\ \E cs \in SUBSET Coins : Selected(cs) /\ TakeCoins(op, i, cs)
  /\ done' = done \cup {i}
  /\ UNCHANGED <<record, backing, mempool, spentBy, offerCrashes>>

\* make_offer signs the bundle and _offer_store records it.
Store ==
  \E h \in hand :
    /\ h.op = "make"
    /\ record' = [record EXCEPT ![h.id] = "open"]
    /\ backing' = [backing EXCEPT ![h.id] = h.coins]
    /\ hand' = {}
    /\ UNCHANGED <<done, mempool, spentBy, offerCrashes, misread>>

\* offer_take of an offer of our own: its coins are spent with our inputs.
SelectSettle(o) ==
  /\ hand = {}
  /\ backing[o] # {}
  /\ \E cs \in SUBSET Coins : Selected(cs) /\ TakeCoins("settle", o, cs \cup backing[o])
  /\ UNCHANGED <<record, backing, done, mempool, spentBy, offerCrashes>>

\* offer_cancel of some offers: the unspent coins are read once, before the
\* first of them.
SelectCancel(os) ==
  /\ hand = {}
  /\ \E o \in os :
       hand' = {[op |-> "cancel", id |-> o, coins |-> Unspent, todo |-> os \ {o}]}
  /\ UNCHANGED <<record, backing, done, mempool, spentBy, offerCrashes, misread>>

Cancellable(h) == record[h.id] = "open" /\ backing[h.id] \cap h.coins # {}

\* The bundles that an execution may sign: a cancellation spends one coin of
\* its offer.
Signs(h) ==
  IF h.op = "cancel"
  THEN {[kind |-> "cancel", for |-> h.id, coins |-> {c}] :
          c \in backing[h.id] \cap h.coins}
  ELSE {[kind |-> h.op, for |-> h.id, coins |-> h.coins]}

\* _relay_broadcast_strict fails or does not know; the bundle may be out, and
\* the record stays as it is.
BroadcastFails ==
  \E h \in hand :
    /\ h.op \in {"pay", "settle", "cancel"}
    /\ h.op = "cancel" => Cancellable(h)
    /\ UNCHANGED mempool \/ \E b \in Signs(h) : Submit(b)
    /\ hand' = {}
    /\ UNCHANGED <<record, backing, done, spentBy, offerCrashes, misread>>

\* It succeeds: a mempool took the bundle, the record is next.
Broadcast ==
  \E h \in hand :
    /\ h.op \in {"pay", "settle", "cancel"}
    /\ h.op = "cancel" => Cancellable(h)
    /\ \E b \in Signs(h) : Submit(b)
    /\ hand' = IF h.op = "pay" THEN {} ELSE
         {[h EXCEPT !.op = IF h.op = "settle" THEN "taken" ELSE "cancelled"]}
    /\ UNCHANGED <<record, backing, done, spentBy, offerCrashes, misread>>

\* The loop refuses an offer that is not open or has no coin left.
CancelRefused ==
  \E h \in hand :
    /\ h.op = "cancel"
    /\ ~Cancellable(h)
    /\ hand' = {}
    /\ UNCHANGED <<record, backing, done, mempool, spentBy, offerCrashes, misread>>

\* _offer_mark, and the next offer of a cancellation.
MarkOffer ==
  \E h \in hand :
    /\ h.op \in {"taken", "cancelled"}
    /\ record' = [record EXCEPT ![h.id] = h.op]
    /\ IF h.todo = {}
       THEN hand' = {}
       ELSE \E o \in h.todo :
              hand' = {[h EXCEPT !.op = "cancel", !.id = o, !.todo = @ \ {o}]}
    /\ UNCHANGED <<backing, done, mempool, spentBy, offerCrashes, misread>>

OfferCrash ==
  /\ hand # {}
  /\ offerCrashes < MaxOfferCrashes
  /\ offerCrashes' = offerCrashes + 1
  /\ hand' = {}
  /\ UNCHANGED <<record, backing, done, mempool, spentBy, misread>>

-----------------------------------------------------------------------------
(* The chain and the others, outside the code                              *)

\* An offer can be completed by whoever has it while its coins are unspent,
\* whatever our record says and however late it is: the expiry that was
\* approved is not among make_offer's arguments.
Takeable(o) == backing[o] # {} /\ backing[o] \subseteq Unspent

FillOffer(o) ==
  /\ Takeable(o)
  /\ Submit([kind |-> "fill", for |-> o, coins |-> backing[o]])
  /\ UNCHANGED <<record, backing, hand, done, spentBy, offerCrashes, misread>>

Include(b) ==
  /\ b.coins \subseteq Unspent
  /\ spentBy' = [c \in Coins |-> IF c \in b.coins THEN {b} ELSE spentBy[c]]
  /\ mempool' = {x \in mempool : x.coins \cap b.coins = {}}
  /\ UNCHANGED <<record, backing, hand, done, offerCrashes, misread>>

DropBundle(b) ==
  /\ mempool' = mempool \ {b}
  /\ UNCHANGED <<record, backing, hand, done, spentBy, offerCrashes, misread>>

OffersEnded == hand = {} /\ UNCHANGED offerVars

OffersNext ==
  \/ \E i \in Offers \cup Payments, op \in {"make", "pay"} : Select(op, i)
  \/ \E o \in Offers : SelectSettle(o) \/ FillOffer(o)
  \/ \E os \in SUBSET Offers : SelectCancel(os)
  \/ Store \/ BroadcastFails \/ Broadcast \/ CancelRefused \/ MarkOffer \/ OfferCrash
  \/ \E b \in mempool : Include(b) \/ DropBundle(b)
  \/ OffersEnded

OffersSpec == OffersInit /\ [][OffersNext]_offerVars

-----------------------------------------------------------------------------
(* Properties                                                              *)

\* A coin backs one open offer at a time (_execute_offer_make_native), as long
\* as the records can be read.
OneOpenOfferPerCoin ==
  misread \/ \A o1, o2 \in Open : o1 # o2 => backing[o1] \cap backing[o2] = {}

\* The coins that the daemon selects for a payment or a take back no open
\* offer when they are broadcast.
SendsFreeCoins ==
  misread \/ \A b \in mempool' \ mempool :
       b.kind \in {"pay", "settle"} =>
         LET own == IF b.for \in Offers THEN backing[b.for] ELSE {} IN
         (b.coins \ own) \cap CoinsOf(Open) = {}

\* "Never spend a coin committed to an open offer"
\* (_execute_chia_spend_via_relay), as long as the records can be read.
OpenOffersAreLeftAlone == [][SendsFreeCoins]_offerVars
=============================================================================

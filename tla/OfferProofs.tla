---------------------------- MODULE OfferProofs -----------------------------
(***************************************************************************)
(* The offers that the daemon lets stand, for every set of coins, assets,  *)
(* routers and routes and every bound: NativeOffers, whose offers anyone   *)
(* may take, and ForgeSwap, whose offers a router fills.                   *)
(*                                                                         *)
(* NativeOffers: no coin backs two open offers, and no payment is sent     *)
(* with a coin that backs one. Both rest on HandIsFree: what was free when *)
(* an execution selected its coins is free until it broadcasts or stores   *)
(* its offer, because one execution runs at a time and nothing else opens  *)
(* an offer.                                                               *)
(*                                                                         *)
(* ForgeSwap: one unexpired offer of a pair can be filled at a time, what  *)
(* is filled is what the human approved, and it is on record. The daemon   *)
(* cannot see who fills an offer, so each rests on what the records say    *)
(* from the moment the offer leaves: it has its entry in forge_open.json,  *)
(* where no other offer has its pair (FileAgrees); it is the only offer of *)
(* its request (IdsOnce, LastIsOwn); and its row says "executing" until    *)
(* velocity counts it (SentIsOnRecord).                                    *)
(***************************************************************************)
EXTENDS NativeOffers, ForgeSwap, SequenceTheorems, TLAPS

-----------------------------------------------------------------------------
(* NativeOffers                                                            *)

Ops == {"make", "pay", "settle", "cancel", "taken", "cancelled"}
Hands == [op : Ops, id : Offers \cup Payments, coins : SUBSET Coins, todo : SUBSET Offers]

OfferTypes ==
  /\ record \in [Offers -> {"none", "open", "taken", "cancelled"}]
  /\ backing \in [Offers -> SUBSET Coins]
  /\ \A h \in hand : h \in Hands /\ (h.op # "pay" => h.id \in Offers)
  /\ \A g, h \in hand : g = h
  /\ misread \in BOOLEAN

(* The coins that an execution selected, without those of the offer it     *)
(* settles.                                                                *)
Own(h) == CASE h.op \in {"make", "pay"} -> h.coins
          []   h.op = "settle" -> h.coins \ backing[h.id]
          []   OTHER -> {}

HandIsFree == misread \/ \A h \in hand : Own(h) \cap CoinsOf(Open) = {}

OfferInv == OfferTypes /\ HandIsFree /\ OneOpenOfferPerCoin

-----------------------------------------------------------------------------
LEMMA OfferInvInit == OffersInit => OfferInv
BY DEF OffersInit, OfferInv, OfferTypes, HandIsFree, OneOpenOfferPerCoin, Open

LEMMA TakeType ==
  ASSUME NEW op \in Ops, NEW i \in Offers \cup Payments, op # "pay" => i \in Offers,
         NEW cs \in SUBSET Coins, TakeCoins(op, i, cs)
  PROVE  /\ \A h \in hand' : h \in Hands /\ (h.op # "pay" => h.id \in Offers)
         /\ \A g, h \in hand' : g = h
         /\ \A h \in hand' : h.op = op /\ h.id = i /\ h.coins = cs
BY DEF TakeCoins, Hands

LEMMA SelectedIsFree ==
  ASSUME NEW cs, Selected(cs), misread \in BOOLEAN
  PROVE  /\ misread' \in BOOLEAN
         /\ misread => misread'
         /\ misread' \/ cs \cap CoinsOf(Open) = {}
BY DEF Selected, Encumbered

(* A step that opens no offer and takes nothing new in hand.               *)
LEMMA QuietStep ==
  ASSUME OfferInv, UNCHANGED <<backing, misread>>,
         record' \in [Offers -> {"none", "open", "taken", "cancelled"}],
         \A o \in Offers : record'[o] = "open" => record[o] = "open",
         \A h \in hand' : /\ h \in Hands /\ (h.op # "pay" => h.id \in Offers)
                          /\ h \in hand \/ h.op \in {"cancel", "taken", "cancelled"},
         \A g, h \in hand' : g = h
  PROVE  OfferInv'
<1>1. OfferTypes'
  BY DEF OfferInv, OfferTypes
<1>2. Open' \subseteq Open
  BY DEF Open
<1>3. CoinsOf(Open)' \subseteq CoinsOf(Open)
  BY <1>2 DEF CoinsOf
<1>4. \A h \in hand' : Own(h)' = {} \/ (h \in hand /\ Own(h)' = Own(h))
  BY DEF Own
<1>5. HandIsFree'
  BY <1>3, <1>4 DEF OfferInv, HandIsFree
<1>6. OneOpenOfferPerCoin'
  BY <1>2 DEF OfferInv, OneOpenOfferPerCoin
<1>7. QED BY <1>1, <1>5, <1>6 DEF OfferInv

LEMMA OfferInvStep == OfferInv /\ [OffersNext]_offerVars => OfferInv'
<1> SUFFICES ASSUME OfferInv, [OffersNext]_offerVars PROVE OfferInv'
  OBVIOUS
<1>1. ASSUME NEW i \in Offers \cup Payments, NEW op \in {"make", "pay"}, Select(op, i)
      PROVE  OfferInv'
  <2>1. PICK cs \in SUBSET Coins : Selected(cs) /\ TakeCoins(op, i, cs)
    BY <1>1 DEF Select
  <2>2. UNCHANGED <<record, backing>> /\ (op # "pay" => i \in Offers)
    BY <1>1 DEF Select
  <2>3. /\ misread' \in BOOLEAN /\ (misread => misread')
        /\ misread' \/ cs \cap CoinsOf(Open) = {}
    BY <2>1, SelectedIsFree DEF OfferInv, OfferTypes
  <2>4. OfferTypes'
    BY <2>1, <2>2, <2>3, TakeType DEF OfferInv, OfferTypes, Ops
  <2>5. \A h \in hand' : Own(h)' = cs
    BY <2>1, <2>2, TakeType DEF Own, Ops
  <2>6. HandIsFree'
    BY <2>2, <2>3, <2>5 DEF HandIsFree, CoinsOf, Open
  <2>7. OneOpenOfferPerCoin'
    BY <2>2, <2>3 DEF OfferInv, OneOpenOfferPerCoin, Open
  <2>8. QED BY <2>4, <2>6, <2>7 DEF OfferInv
<1>2. ASSUME NEW o \in Offers, SelectSettle(o)
      PROVE  OfferInv'
  <2>1. PICK cs \in SUBSET Coins : Selected(cs) /\ TakeCoins("settle", o, cs \cup backing[o])
    BY <1>2 DEF SelectSettle
  <2>2. UNCHANGED <<record, backing>> /\ backing[o] \in SUBSET Coins
    BY <1>2 DEF SelectSettle, OfferInv, OfferTypes
  <2>3. /\ misread' \in BOOLEAN /\ (misread => misread')
        /\ misread' \/ cs \cap CoinsOf(Open) = {}
    BY <2>1, SelectedIsFree DEF OfferInv, OfferTypes
  <2>4. cs \cup backing[o] \in SUBSET Coins
    BY <2>2
  <2>5. OfferTypes'
    BY <2>1, <2>2, <2>3, <2>4, TakeType DEF OfferInv, OfferTypes, Ops
  <2>6. \A h \in hand' : Own(h)' \subseteq cs
    BY <2>1, <2>2, <2>4, TakeType DEF Own, Ops
  <2>7. HandIsFree'
    BY <2>2, <2>3, <2>6 DEF HandIsFree, CoinsOf, Open
  <2>8. OneOpenOfferPerCoin'
    BY <2>2, <2>3 DEF OfferInv, OneOpenOfferPerCoin, Open
  <2>9. QED BY <2>5, <2>7, <2>8 DEF OfferInv
<1>3. ASSUME NEW os \in SUBSET Offers, SelectCancel(os)
      PROVE  OfferInv'
  <2>1. PICK o \in os :
          hand' = {[op |-> "cancel", id |-> o, coins |-> Unspent, todo |-> os \ {o}]}
    BY <1>3 DEF SelectCancel
  <2>2. UNCHANGED <<record, backing, misread>>
    BY <1>3 DEF SelectCancel
  <2>3. [op |-> "cancel", id |-> o, coins |-> Unspent, todo |-> os \ {o}] \in Hands
    BY DEF Hands, Ops, Unspent
  <2>4. QED BY <2>1, <2>2, <2>3, QuietStep DEF OfferInv, OfferTypes
<1>4. CASE Store
  <2>1. PICK h \in hand : /\ h.op = "make" /\ hand' = {}
                          /\ record' = [record EXCEPT ![h.id] = "open"]
                          /\ backing' = [backing EXCEPT ![h.id] = h.coins]
                          /\ UNCHANGED misread
    BY <1>4 DEF Store
  <2>2. h.id \in Offers /\ h.coins \in SUBSET Coins
    BY <2>1 DEF OfferInv, OfferTypes, Hands
  <2>3. OfferTypes'
    BY <2>1, <2>2 DEF OfferInv, OfferTypes
  <2>4. misread \/ h.coins \cap CoinsOf(Open) = {}
    BY <2>1 DEF OfferInv, HandIsFree, Own
  <2>5. /\ Open' = Open \cup {h.id}
        /\ backing'[h.id] = h.coins
        /\ \A o \in Open \ {h.id} : backing'[o] = backing[o]
    BY <2>1, <2>2 DEF OfferInv, OfferTypes, Open
  <2>6. \A o \in Open : backing[o] \subseteq CoinsOf(Open)
    BY DEF CoinsOf
  <2>7. OneOpenOfferPerCoin'
    BY <2>1, <2>4, <2>5, <2>6 DEF OfferInv, OneOpenOfferPerCoin
  <2>8. QED BY <2>1, <2>3, <2>7 DEF OfferInv, HandIsFree
<1>5. CASE BroadcastFails \/ CancelRefused \/ OfferCrash
  BY <1>5, QuietStep DEF BroadcastFails, CancelRefused, OfferCrash, OfferInv, OfferTypes
<1>6. CASE Broadcast
  <2>1. PICK h \in hand :
          /\ UNCHANGED <<record, backing, misread>>
          /\ \/ hand' = {}
             \/ /\ h.op \in {"settle", "cancel"}
                /\ hand' = {[h EXCEPT !.op = IF h.op = "settle" THEN "taken"
                                             ELSE "cancelled"]}
    BY <1>6 DEF Broadcast
  <2>2. h \in Hands /\ (h.op # "pay" => h.id \in Offers)
    BY DEF OfferInv, OfferTypes
  <2>3. \A g \in hand' : /\ g \in Hands /\ g.op \in {"taken", "cancelled"}
                         /\ g.id \in Offers
    BY <2>1, <2>2 DEF Hands, Ops
  <2>4. QED BY <2>1, <2>3, QuietStep DEF OfferInv, OfferTypes
<1>7. CASE MarkOffer
  <2>1. PICK h \in hand :
          /\ h.op \in {"taken", "cancelled"}
          /\ record' = [record EXCEPT ![h.id] = h.op]
          /\ UNCHANGED <<backing, misread>>
          /\ \/ hand' = {}
             \/ \E o \in h.todo :
                  hand' = {[h EXCEPT !.op = "cancel", !.id = o, !.todo = @ \ {o}]}
    BY <1>7 DEF MarkOffer
  <2>2. h \in Hands
    BY DEF OfferInv, OfferTypes
  <2>3. \A o \in h.todo :
          /\ [h EXCEPT !.op = "cancel", !.id = o, !.todo = @ \ {o}] \in Hands
          /\ [h EXCEPT !.op = "cancel", !.id = o, !.todo = @ \ {o}].op = "cancel"
          /\ [h EXCEPT !.op = "cancel", !.id = o, !.todo = @ \ {o}].id \in Offers
    BY <2>2 DEF Hands, Ops
  <2>4. \A g \in hand' : g \in Hands /\ g.op = "cancel" /\ g.id \in Offers
    <3>1. CASE hand' = {}
      BY <3>1
    <3>2. ASSUME NEW o \in h.todo,
                 hand' = {[h EXCEPT !.op = "cancel", !.id = o, !.todo = @ \ {o}]}
          PROVE  \A g \in hand' : g \in Hands /\ g.op = "cancel" /\ g.id \in Offers
      BY <2>3, <3>2
    <3>3. QED BY <2>1, <3>1, <3>2
  <2>5. /\ record' \in [Offers -> {"none", "open", "taken", "cancelled"}]
        /\ \A o \in Offers : record'[o] = "open" => record[o] = "open"
    BY <2>1 DEF OfferInv, OfferTypes
  <2>6. QED BY <2>1, <2>4, <2>5, QuietStep
<1>8. ASSUME NEW o \in Offers, FillOffer(o) PROVE OfferInv'
  BY <1>8, QuietStep DEF FillOffer, OfferInv, OfferTypes
<1>9. ASSUME NEW b \in mempool, Include(b) \/ DropBundle(b) PROVE OfferInv'
  BY <1>9, QuietStep DEF Include, DropBundle, OfferInv, OfferTypes
<1>10. CASE OffersEnded \/ UNCHANGED offerVars
  BY <1>10, QuietStep DEF OffersEnded, offerVars, OfferInv, OfferTypes
<1>11. QED
  BY <1>1, <1>2, <1>3, <1>4, <1>5, <1>6, <1>7, <1>8, <1>9, <1>10 DEF OffersNext

THEOREM OfferInvAlways == OffersSpec => []OfferInv
BY OfferInvInit, OfferInvStep, PTL DEF OffersSpec

(* _execute_offer_make_native: as long as the records can be read, a coin  *)
(* backs at most one open offer, for any number of offers, crashes and     *)
(* broadcasts that failed or did not.                                      *)
THEOREM OneOpenOfferPerCoinAlways == OffersSpec => []OneOpenOfferPerCoin
<1>1. OfferInv => OneOpenOfferPerCoin
  BY DEF OfferInv
<1>2. QED BY <1>1, OfferInvAlways, PTL

-----------------------------------------------------------------------------
(* A bundle that goes out is signed by the execution in hand, or is a      *)
(* stranger's.                                                             *)
LEMMA SentByHand ==
  ASSUME OfferInv, [OffersNext]_offerVars, NEW b \in mempool' \ mempool, b.kind \in {"pay", "settle"}
  PROVE  \E h \in hand : b \in Signs(h) /\ h.op \in {"pay", "settle", "cancel"}
<1>1. CASE Broadcast \/ BroadcastFails
  <2>1. PICK h \in hand : /\ h.op \in {"pay", "settle", "cancel"}
                          /\ \/ UNCHANGED mempool
                             \/ \E x \in Signs(h) : mempool' = mempool \cup {x}
    BY <1>1 DEF Broadcast, BroadcastFails, Submit
  <2>2. QED BY <2>1
<1>2. ASSUME NEW o \in Offers, FillOffer(o) PROVE FALSE
  BY <1>2 DEF FillOffer, Submit
<1>3. ASSUME NEW c \in mempool, Include(c) \/ DropBundle(c) PROVE FALSE
  BY <1>3 DEF Include, DropBundle
<1>4. ASSUME UNCHANGED mempool PROVE FALSE
  BY <1>4
<1>5. QED
  BY <1>1, <1>2, <1>3, <1>4
     DEF OffersNext, Select, SelectSettle, SelectCancel, Store, CancelRefused, MarkOffer,
         OfferCrash,
         OffersEnded, offerVars

LEMMA SendsFreeStep == OfferInv /\ [OffersNext]_offerVars => SendsFreeCoins
<1> SUFFICES ASSUME OfferInv, [OffersNext]_offerVars, ~misread,
                    NEW b \in mempool' \ mempool, b.kind \in {"pay", "settle"}
             PROVE  LET own == IF b.for \in Offers THEN backing[b.for] ELSE {} IN
                    (b.coins \ own) \cap CoinsOf(Open) = {}
  BY DEF SendsFreeCoins
<1>1. PICK h \in hand : b \in Signs(h) /\ h.op \in {"pay", "settle", "cancel"}
  BY SentByHand
<1>2. h.op \in {"pay", "settle"} /\ b = [kind |-> h.op, for |-> h.id, coins |-> h.coins]
  BY <1>1 DEF Signs
<1>3. Own(h) \cap CoinsOf(Open) = {}
  BY DEF OfferInv, HandIsFree
<1>4. CASE h.op = "pay"
  BY <1>2, <1>3, <1>4 DEF Own
<1>5. CASE h.op = "settle"
  <2>1. h.id \in Offers
    BY <1>5 DEF OfferInv, OfferTypes
  <2>2. Own(h) = h.coins \ backing[h.id]
    BY <1>5 DEF Own
  <2>3. QED BY <1>2, <1>3, <2>1, <2>2
<1>6. QED BY <1>2, <1>4, <1>5

(* _execute_chia_spend_via_relay, "never spend a coin committed to an open *)
(* offer": as long as the records can be read, no payment and no take goes *)
(* out with a coin that the daemon selected and that backs an open offer.  *)
THEOREM OpenOffersAreLeftAloneAlways == OffersSpec => OpenOffersAreLeftAlone
<1>1. OfferInv /\ [OffersNext]_offerVars => [SendsFreeCoins]_offerVars
  BY SendsFreeStep
<1>2. QED BY <1>1, OfferInvAlways, PTL DEF OffersSpec, OpenOffersAreLeftAlone

-----------------------------------------------------------------------------
(* ForgeSwap                                                               *)

Outs == UNION {RoutesFor[a] : a \in Amounts}
Ids == Nat \ {0}
Item == [id : Ids, s : Swaps, shown : Routers]
Quoted == [id : Ids, s : Swaps, shown : Routers, out : Outs]
Offer == [id : Ids, give : Assets, take : Assets, amount : Amounts, ask : Outs,
          expires : Nat, sentTo : SUBSET Routers, state : {"open", "filled", "cancelled"}]
Entry == [offer : Nat, give : Assets, take : Assets, expires : Nat]

(* The executions in which a route was accepted. *)
Offering == {"make", "mark", "rehearse", "settle"}

SwapTypes ==
  /\ router \in Routers
  /\ \/ forgePc = "idle" /\ swap = NoSwap
     \/ forgePc = "quote" /\ swap \in Item
     \/ forgePc \in Offering /\ swap \in Quoted
  /\ queue \subseteq Item
  /\ offers \in Seq(Offer)
  /\ openFile \subseteq Entry
  /\ forgeClock \in Nat /\ asked \in Nat

(* A request is in one place: it waits, or is executed, or made an offer.  *)
IdsOnce ==
  /\ \A i \in queue : /\ i.id <= asked
                      /\ \A j \in queue : i.id = j.id => i = j
                      /\ i.id # swap.id
                      /\ \A o \in DOMAIN offers : offers[o].id # i.id
  /\ swap.id <= asked
  /\ \A o \in DOMAIN offers : offers[o].id <= asked
  /\ forgePc \in {"quote", "make"} => \A o \in DOMAIN offers : offers[o].id # swap.id

(* The offer in the hands of the execution is its own.                     *)
LastIsOwn ==
  forgePc \in {"mark", "rehearse", "settle"} =>
    /\ Last \in DOMAIN offers
    /\ \A o \in DOMAIN offers : offers[o].id = swap.id <=> o = Last
    /\ offers[Last].give = This.give /\ offers[Last].take = This.take
    /\ offers[Last].amount = This.amount
    /\ offers[Last].ask = swap.out
    /\ forgePc # "settle" => offers[Last].sentTo = {}

(* The quote was accepted against the minimum and the router configured.   *)
QuoteHolds == forgePc \in Offering => swap.out >= This.min /\ swap.shown = router

SwapInv == SwapTypes /\ IdsOnce /\ LastIsOwn /\ QuoteHolds

(* forge_open.json as an offer's entry, its pairs, and the offers that     *)
(* can be filled or are about to leave.                                    *)
EntryOf(o) == [offer |-> o, give |-> offers[o].give, take |-> offers[o].take,
               expires |-> offers[o].expires]

Live(o) ==
  /\ offers[o].expires > forgeClock
  /\ \/ offers[o].state = "open" /\ offers[o].sentTo # {}
     \/ forgePc = "rehearse" /\ o = Last

LiveIsOnFile == lost \/ \A o \in DOMAIN offers : Live(o) => EntryOf(o) \in openFile

OnePerPair ==
  /\ \A e, f \in Unexpired(openFile) :
       e.give = f.give /\ e.take = f.take => e.offer = f.offer
  /\ forgePc \in {"make", "mark"} => PairIsFree(This)

FileAgrees == LiveIsOnFile /\ OnePerPair

(* An offer is sent while its row says "executing", until it is counted.   *)
Executing(i) == i \in DOMAIN rows /\ rows[i] = "executing"

SentIsOnRecord ==
  /\ forgePc # "idle" => Executing(swap.id)
  /\ \A o \in DOMAIN offers :
       /\ offers[o].state = "filled" => offers[o].sentTo # {}
       /\ offers[o].sentTo # {} => offers[o].id \in forgeCounted \/ Executing(offers[o].id)

-----------------------------------------------------------------------------
(* What the steps do to the offers. *)

(* The terms of an offer stand from the moment it is made. *)
SameTerms(o) ==
  /\ offers'[o].id = offers[o].id
  /\ offers'[o].give = offers[o].give /\ offers'[o].take = offers[o].take
  /\ offers'[o].amount = offers[o].amount /\ offers'[o].ask = offers[o].ask
  /\ offers'[o].expires = offers[o].expires

LEMMA OffersType ==
  ASSUME SwapTypes
  PROVE  /\ Len(offers) \in Nat /\ DOMAIN offers = 1 .. Len(offers)
         /\ \A o \in DOMAIN offers : offers[o] \in Offer
<1>1. offers \in Seq(Offer)
  BY DEF SwapTypes
<1>2. Len(offers) \in Nat /\ DOMAIN offers = 1 .. Len(offers)
  BY <1>1, LenProperties
<1>3. QED BY <1>1, <1>2, ElementOfSeq

LEMMA SentFields ==
  ASSUME SwapTypes, Last \in DOMAIN offers, swap.shown \in Routers, ForgeSent
  PROVE  /\ offers' \in Seq(Offer) /\ Len(offers') = Len(offers)
         /\ DOMAIN offers' = DOMAIN offers
         /\ \A o \in DOMAIN offers : SameTerms(o) /\ offers'[o].state = offers[o].state
         /\ \A o \in DOMAIN offers \ {Last} : offers'[o].sentTo = offers[o].sentTo
         /\ offers'[Last].sentTo = offers[Last].sentTo \cup {swap.shown}
<1> DEFINE r == [offers[Last] EXCEPT !.sentTo = @ \cup {swap.shown}]
<1>1. /\ Len(offers) \in Nat /\ DOMAIN offers = 1 .. Len(offers)
      /\ offers[Last] \in Offer /\ offers \in Seq(Offer)
  BY OffersType DEF SwapTypes
<1>2. /\ r \in Offer /\ r.sentTo = offers[Last].sentTo \cup {swap.shown}
      /\ r.id = offers[Last].id /\ r.give = offers[Last].give /\ r.take = offers[Last].take
      /\ r.amount = offers[Last].amount /\ r.ask = offers[Last].ask
      /\ r.expires = offers[Last].expires /\ r.state = offers[Last].state
  BY <1>1 DEF Offer
<1>3. offers' = [offers EXCEPT ![Last] = r]
  BY DEF ForgeSent
<1> HIDE DEF r
<1>4. /\ offers' \in Seq(Offer) /\ Len(offers') = Len(offers)
      /\ \A o \in DOMAIN offers : offers'[o] = IF o = Last THEN r ELSE offers[o]
  BY <1>1, <1>2, <1>3, ExceptSeq
<1>5. DOMAIN offers' = DOMAIN offers
  BY <1>3
<1>6. \A o \in DOMAIN offers : SameTerms(o) /\ offers'[o].state = offers[o].state
  BY <1>2, <1>4 DEF SameTerms
<1>7. QED BY <1>2, <1>4, <1>5, <1>6

LEMMA ClosedFields ==
  ASSUME SwapTypes, NEW o \in DOMAIN offers, NEW state \in {"filled", "cancelled"},
         Close(o, state)
  PROVE  /\ offers' \in Seq(Offer) /\ Len(offers') = Len(offers)
         /\ DOMAIN offers' = DOMAIN offers
         /\ \A p \in DOMAIN offers : SameTerms(p) /\ offers'[p].sentTo = offers[p].sentTo
         /\ \A p \in DOMAIN offers \ {o} : offers'[p].state = offers[p].state
         /\ offers'[o].state = state
<1> DEFINE r == [offers[o] EXCEPT !.state = state]
<1>1. /\ Len(offers) \in Nat /\ DOMAIN offers = 1 .. Len(offers)
      /\ offers[o] \in Offer /\ offers \in Seq(Offer)
  BY OffersType DEF SwapTypes
<1>2. /\ r \in Offer /\ r.sentTo = offers[o].sentTo
      /\ r.id = offers[o].id /\ r.give = offers[o].give /\ r.take = offers[o].take
      /\ r.amount = offers[o].amount /\ r.ask = offers[o].ask
      /\ r.expires = offers[o].expires /\ r.state = state
  BY <1>1 DEF Offer
<1>3. offers' = [offers EXCEPT ![o] = r]
  BY DEF Close
<1> HIDE DEF r
<1>4. /\ offers' \in Seq(Offer) /\ Len(offers') = Len(offers)
      /\ \A p \in DOMAIN offers : offers'[p] = IF p = o THEN r ELSE offers[p]
  BY <1>1, <1>2, <1>3, ExceptSeq
<1>5. DOMAIN offers' = DOMAIN offers
  BY <1>3
<1>6. \A p \in DOMAIN offers : SameTerms(p) /\ offers'[p].sentTo = offers[p].sentTo
  BY <1>2, <1>4 DEF SameTerms
<1>7. QED BY <1>2, <1>4, <1>5, <1>6

(* The offer that Sage made for the execution in hand. *)
IsMade(r) ==
  /\ r \in Offer
  /\ r.id = swap.id /\ r.give = This.give /\ r.take = This.take
  /\ r.amount = This.amount /\ r.ask = swap.out
  /\ r.sentTo = {} /\ r.state = "open"

LEMMA MadeFields ==
  ASSUME ForgeSwapAssumption, SwapTypes, forgePc = "make", Make
  PROVE  \/ UNCHANGED offers /\ ForgeFail
         \/ /\ (forgePc' = "mark" /\ UNCHANGED <<swap, records>>) \/ ForgeFail
            /\ offers' \in Seq(Offer) /\ Len(offers') = Len(offers) + 1
            /\ DOMAIN offers' = DOMAIN offers \cup {Len(offers) + 1}
            /\ \A o \in DOMAIN offers : offers'[o] = offers[o]
            /\ IsMade(offers'[Len(offers) + 1])
<1> DEFINE made == [id |-> swap.id, give |-> This.give, take |-> This.take,
                    amount |-> This.amount, ask |-> swap.out, expires |-> forgeClock + Ttl,
                    sentTo |-> {}, state |-> "open"]
<1>1. IsMade(made)
  <2>1. swap \in Quoted /\ forgeClock \in Nat /\ Ttl \in Nat
    BY DEF SwapTypes, Offering, ForgeSwapAssumption
  <2>2. swap.id \in Ids /\ swap.s \in Swaps /\ swap.out \in Outs
    BY <2>1 DEF Quoted
  <2>3. QED BY <2>1, <2>2 DEF IsMade, Offer, This, Swaps
<1>2. \/ UNCHANGED offers /\ ForgeFail
      \/ /\ (forgePc' = "mark" /\ UNCHANGED <<swap, records>>) \/ ForgeFail
         /\ offers' = Append(offers, made)
  BY DEF Make
<1>3. ASSUME offers' = Append(offers, made)
      PROVE  /\ offers' \in Seq(Offer) /\ Len(offers') = Len(offers) + 1
             /\ DOMAIN offers' = DOMAIN offers \cup {Len(offers) + 1}
             /\ \A o \in DOMAIN offers : offers'[o] = offers[o]
             /\ IsMade(offers'[Len(offers) + 1])
  <2> HIDE DEF made
  <2>1. /\ offers \in Seq(Offer) /\ made \in Offer
        /\ Len(offers) \in Nat /\ DOMAIN offers = 1 .. Len(offers)
    BY <1>1, OffersType DEF SwapTypes, IsMade
  <2>2. /\ offers' \in Seq(Offer) /\ Len(offers') = Len(offers) + 1
        /\ \A o \in DOMAIN offers : offers'[o] = offers[o]
        /\ offers'[Len(offers) + 1] = made
    BY <1>3, <2>1, AppendProperties
  <2>3. DOMAIN offers' = 1 .. Len(offers) + 1
    BY <2>1, <2>2, LenProperties
  <2>4. DOMAIN offers' = DOMAIN offers \cup {Len(offers) + 1}
    BY <2>1, <2>3
  <2>5. QED BY <1>1, <2>2, <2>4
<1>4. QED BY <1>2, <1>3

-----------------------------------------------------------------------------
(* Types, and whose the offers are. *)

LEMMA IdsKept ==
  ASSUME SwapTypes, IdsOnce, UNCHANGED <<queue, asked>>,
         swap'.id = swap.id \/ swap' = NoSwap,
         DOMAIN offers' = DOMAIN offers,
         \A o \in DOMAIN offers : offers'[o].id = offers[o].id,
         forgePc' \in {"quote", "make"} => forgePc \in {"quote", "make"} /\ swap'.id = swap.id
  PROVE  IdsOnce'
<1>1. swap'.id \in {swap.id, 0}
  BY DEF NoSwap
<1>2. asked \in Nat /\ \A i \in queue : i.id \in Ids
  BY DEF SwapTypes, Item
<1>3. \A i \in queue : i.id # swap'.id
  BY <1>1, <1>2 DEF IdsOnce, Ids
<1>4. swap'.id <= asked
  BY <1>1, <1>2 DEF IdsOnce
<1>5. QED BY <1>3, <1>4 DEF IdsOnce

(* The execution ends, and the offers keep their names. *)
LEMMA IdleInv ==
  ASSUME SwapInv, forgePc' = "idle", swap' = NoSwap, UNCHANGED <<queue, asked, router,
                                                             forgeClock>>,
         openFile' \subseteq Entry, offers' \in Seq(Offer),
         DOMAIN offers' = DOMAIN offers,
         \A o \in DOMAIN offers : offers'[o].id = offers[o].id
  PROVE  SwapInv'
<1>1. SwapTypes'
  BY DEF SwapInv, SwapTypes
<1>2. IdsOnce'
  BY IdsKept DEF SwapInv
<1>3. LastIsOwn' /\ QuoteHolds'
  BY DEF LastIsOwn, QuoteHolds, Offering
<1>4. QED BY <1>1, <1>2, <1>3 DEF SwapInv

(* A step of somebody else: the execution in hand is where it was, and the *)
(* offers have the terms they had.                                         *)
LEMMA ElsewhereInv ==
  ASSUME SwapInv, UNCHANGED <<daemon, queue, asked, router>>, forgeClock' \in Nat,
         openFile' \subseteq Entry, offers' \in Seq(Offer), Len(offers') = Len(offers),
         DOMAIN offers' = DOMAIN offers,
         \A o \in DOMAIN offers : SameTerms(o) /\ offers'[o].sentTo = offers[o].sentTo
  PROVE  SwapInv'
<1> USE DEF daemon
<1>1. SwapTypes'
  BY DEF SwapInv, SwapTypes
<1>2. IdsOnce'
  BY IdsKept DEF SwapInv, SameTerms
<1>3. LastIsOwn'
  BY DEF SwapInv, LastIsOwn, Last, This, SameTerms
<1>4. QuoteHolds'
  BY DEF SwapInv, QuoteHolds, This
<1>5. QED BY <1>1, <1>2, <1>3, <1>4 DEF SwapInv

LEMMA SameOffers ==
  ASSUME SwapInv, UNCHANGED offers
  PROVE  /\ offers' \in Seq(Offer) /\ Len(offers') = Len(offers)
         /\ DOMAIN offers' = DOMAIN offers
         /\ \A o \in DOMAIN offers : SameTerms(o) /\ offers'[o].sentTo = offers[o].sentTo
BY DEF SwapInv, SwapTypes, SameTerms

LEMMA SwapInvInit == ForgeSwapAssumption /\ ForgeInit => SwapInv
<1> SUFFICES ASSUME ForgeInit PROVE SwapInv
  OBVIOUS
<1>1. offers = <<>> /\ DOMAIN offers = {} /\ offers \in Seq(Offer)
  BY DEF ForgeInit
<1>2. QED BY <1>1 DEF ForgeInit, SwapInv, SwapTypes, IdsOnce, LastIsOwn, QuoteHolds, NoSwap,
                      Offering

LEMMA SwapInvRequest ==
  ASSUME SwapInv, NEW s \in Swaps, Request(s)
  PROVE  SwapInv'
<1>1. /\ forgePc = "idle" /\ asked' = asked + 1 /\ UNCHANGED <<forgePc, swap, offers,
                                                               router, forgeClock>>
      /\ queue' = queue \cup {[id |-> asked + 1, s |-> s, shown |-> router]}
      /\ openFile' \subseteq openFile
  BY DEF Request, daemon, world, Unexpired
<1>2. asked \in Nat /\ router \in Routers
  BY DEF SwapInv, SwapTypes
<1>3. [id |-> asked + 1, s |-> s, shown |-> router] \in Item
  BY <1>2 DEF Item, Ids
<1>4. SwapTypes'
  BY <1>1, <1>2, <1>3 DEF SwapInv, SwapTypes
<1>5. IdsOnce'
  <2>1. \A i \in queue : i.id \in Nat /\ i.id <= asked
    BY DEF SwapInv, SwapTypes, IdsOnce, Item, Ids
  <2>2. swap = NoSwap
    BY <1>1 DEF SwapInv, SwapTypes, Offering
  <2>3. \A o \in DOMAIN offers : offers[o].id \in Nat /\ offers[o].id <= asked
    BY OffersType DEF SwapInv, IdsOnce, Offer, Ids
  <2>4. \A i, j \in queue' : i.id = j.id => i = j
    BY <1>1, <1>2, <2>1 DEF SwapInv, IdsOnce
  <2>5. \A i \in queue' : i.id <= asked'
    BY <1>1, <1>2, <2>1
  <2>6. \A i \in queue' : i.id # swap'.id
    BY <1>1, <1>2, <2>1, <2>2 DEF NoSwap, SwapInv, IdsOnce
  <2>7. \A i \in queue' : \A o \in DOMAIN offers' : offers'[o].id # i.id
    BY <1>1, <1>2, <2>3 DEF SwapInv, IdsOnce
  <2>8. swap'.id <= asked' /\ \A o \in DOMAIN offers' : offers'[o].id <= asked'
    BY <1>1, <1>2, <2>2, <2>3 DEF NoSwap
  <2>9. forgePc' \notin {"quote", "make"}
    BY <1>1
  <2>10. QED BY <2>4, <2>5, <2>6, <2>7, <2>8, <2>9 DEF IdsOnce
<1>6. LastIsOwn' /\ QuoteHolds'
  BY <1>1 DEF LastIsOwn, QuoteHolds, Offering
<1>7. QED BY <1>4, <1>5, <1>6 DEF SwapInv

LEMMA SwapInvApprove ==
  ASSUME SwapInv, ApproveSwap
  PROVE  SwapInv'
<1>1. PICK item \in queue : queue' = queue \ {item} /\ swap' = item
  BY DEF ApproveSwap
<1>2. forgePc' = "quote" /\ UNCHANGED <<offers, openFile, asked, router, forgeClock>>
  BY DEF ApproveSwap, world
<1>3. SwapTypes'
  BY <1>1, <1>2 DEF SwapInv, SwapTypes
<1>4. IdsOnce'
  BY <1>1, <1>2 DEF SwapInv, IdsOnce
<1>5. LastIsOwn' /\ QuoteHolds'
  BY <1>2 DEF LastIsOwn, QuoteHolds, Offering
<1>6. QED BY <1>3, <1>4, <1>5 DEF SwapInv

LEMMA FailInv ==
  ASSUME SwapInv, ForgeEnded("failed") \/ ForgeEnded("unknown") \/ ForgeEnded("approved"),
         UNCHANGED <<queue, asked, router, forgeClock, openFile>>, offers' \in Seq(Offer),
         DOMAIN offers' = DOMAIN offers,
         \A o \in DOMAIN offers : offers'[o].id = offers[o].id
  PROVE  SwapInv'
<1>1. forgePc' = "idle" /\ swap' = NoSwap
  BY DEF ForgeEnded
<1>2. openFile' \subseteq Entry
  BY DEF SwapInv, SwapTypes
<1>3. QED BY <1>1, <1>2, IdleInv

LEMMA SwapInvQuote ==
  ASSUME SwapInv, Quote
  PROVE  SwapInv'
<1>1. forgePc = "quote" /\ UNCHANGED <<queue, offers, asked, router, forgeClock>>
  BY DEF Quote, world
<1>2. CASE ForgeFail
  BY <1>1, <1>2, FailInv, SameOffers DEF ForgeFail
<1>3. ASSUME NEW out \in RoutesFor[This.amount], MayOffer(out),
             swap' = [id |-> swap.id, s |-> This, shown |-> swap.shown, out |-> out],
             forgePc' = "make", UNCHANGED records
      PROVE  SwapInv'
  <2>1. swap \in Item
    BY <1>1 DEF SwapInv, SwapTypes, Offering
  <2>2. swap.id \in Ids /\ swap.s \in Swaps /\ swap.shown \in Routers
    BY <2>1 DEF Item
  <2>3. This.amount \in Amounts
    BY <2>2 DEF This, Swaps
  <2>4. swap' \in Quoted
    BY <1>3, <2>2, <2>3 DEF Quoted, Outs, This
  <2>5. SwapTypes'
    BY <1>1, <1>3, <2>4 DEF SwapInv, SwapTypes, Offering, records
  <2>6. IdsOnce'
    BY <1>1, <1>3 DEF SwapInv, IdsOnce
  <2>7. LastIsOwn'
    BY <1>3 DEF LastIsOwn
  <2>8. QuoteHolds'
    BY <1>1, <1>3 DEF QuoteHolds, MayOffer, This
  <2>9. QED BY <2>5, <2>6, <2>7, <2>8 DEF SwapInv
<1>4. QED BY <1>2, <1>3 DEF Quote

LEMMA SwapInvMake ==
  ASSUME ForgeSwapAssumption, SwapInv, Make
  PROVE  SwapInv'
<1>1. forgePc = "make" /\ UNCHANGED <<queue, asked, router, forgeClock>>
  BY DEF Make, world
<1>2. CASE UNCHANGED offers /\ ForgeFail
  BY <1>1, <1>2, FailInv, SameOffers DEF ForgeFail, SameTerms
<1>3. ASSUME (forgePc' = "mark" /\ UNCHANGED <<swap, records>>) \/ ForgeFail,
             offers' \in Seq(Offer), Len(offers') = Len(offers) + 1,
             DOMAIN offers' = DOMAIN offers \cup {Len(offers) + 1},
             \A o \in DOMAIN offers : offers'[o] = offers[o],
             IsMade(offers'[Len(offers) + 1])
      PROVE  SwapInv'
  <2>1. /\ swap \in Quoted /\ Len(offers) \in Nat /\ DOMAIN offers = 1 .. Len(offers)
        /\ swap.id \in Ids
    BY <1>1, OffersType DEF SwapInv, SwapTypes, Offering, Quoted
  <2>2. UNCHANGED openFile /\ ((forgePc' = "mark" /\ UNCHANGED swap) \/ (forgePc' = "idle" /\ swap' = NoSwap))
    <3>1. CASE ForgeFail
      BY <3>1 DEF ForgeFail, ForgeEnded
    <3>2. CASE forgePc' = "mark" /\ UNCHANGED <<swap, records>>
      BY <3>2 DEF records
    <3>3. QED BY <1>3, <3>1, <3>2
  <2>3. SwapTypes'
    BY <1>1, <1>3, <2>1, <2>2 DEF SwapInv, SwapTypes, Offering
  <2>4. offers'[Len(offers) + 1].id = swap.id
    BY <1>3 DEF IsMade
  <2>5. IdsOnce'
    <3>1. swap'.id \in {swap.id, 0}
      BY <2>2 DEF NoSwap
    <3>2. \A i \in queue : i.id \in Ids
      BY DEF SwapInv, SwapTypes, Item
    <3>3. \A i \in queue : /\ i.id # swap'.id
                           /\ \A o \in DOMAIN offers' : offers'[o].id # i.id
      BY <1>3, <2>4, <3>1, <3>2 DEF SwapInv, IdsOnce, Ids
    <3>4. asked \in Nat /\ swap'.id <= asked
      BY <2>1, <3>1 DEF SwapInv, SwapTypes, IdsOnce
    <3>5. \A o \in DOMAIN offers' : offers'[o].id <= asked
      BY <1>3, <2>4 DEF SwapInv, IdsOnce
    <3>6. forgePc' \notin {"quote", "make"}
      BY <2>2
    <3>7. QED BY <1>1, <3>3, <3>4, <3>5, <3>6 DEF SwapInv, IdsOnce
  <2>6. LastIsOwn'
    <3> SUFFICES ASSUME forgePc' = "mark", UNCHANGED swap PROVE LastIsOwn'
      BY <2>2 DEF LastIsOwn
    <3>1. Last' = Len(offers) + 1 /\ Last' \in DOMAIN offers'
      BY <1>3 DEF Last
    <3>2. \A o \in DOMAIN offers : offers'[o].id # swap.id /\ o # Len(offers) + 1
      BY <1>1, <1>3, <2>1 DEF SwapInv, IdsOnce
    <3>3. \A o \in DOMAIN offers' : offers'[o].id = swap'.id <=> o = Last'
      BY <1>3, <2>4, <3>1, <3>2
    <3>4. QED BY <1>3, <3>1, <3>3 DEF LastIsOwn, IsMade, This, Last
  <2>7. QuoteHolds'
    BY <1>1, <2>2 DEF SwapInv, QuoteHolds, Offering, This
  <2>8. QED BY <2>3, <2>5, <2>6, <2>7 DEF SwapInv
<1>4. QED BY <1>1, <1>2, <1>3, MadeFields, Zenon DEF SwapInv

LEMMA SwapInvMark ==
  ASSUME SwapInv, MarkOpen
  PROVE  SwapInv'
<1>1. forgePc = "mark" /\ UNCHANGED <<queue, offers, asked, router, forgeClock>>
  BY DEF MarkOpen, world
<1>2. CASE forgePc' = "idle" /\ swap' = NoSwap /\ UNCHANGED openFile
  <2>1. openFile' \subseteq Entry
    BY <1>2 DEF SwapInv, SwapTypes
  <2>2. QED BY <1>1, <1>2, <2>1, IdleInv, SameOffers DEF SameTerms
<1>3. CASE /\ openFile' = Unexpired(openFile) \cup
                {[offer |-> Last, give |-> This.give, take |-> This.take,
                  expires |-> offers[Last].expires]}
           /\ forgePc' = "rehearse" /\ UNCHANGED swap
  <2>1. Last \in Nat /\ Last \in DOMAIN offers /\ offers[Last] \in Offer
    BY <1>1, OffersType DEF SwapInv, LastIsOwn, Last
  <2>2. /\ This.give = offers[Last].give /\ This.take = offers[Last].take
        /\ offers[Last].give \in Assets /\ offers[Last].take \in Assets
        /\ offers[Last].expires \in Nat
    BY <1>1, <2>1 DEF SwapInv, LastIsOwn, Offer
  <2>3. openFile' \subseteq Entry
    BY <1>3, <2>1, <2>2 DEF SwapInv, SwapTypes, Entry, Unexpired
  <2>4. SwapTypes'
    BY <1>1, <1>3, <2>3 DEF SwapInv, SwapTypes, Offering
  <2>5. IdsOnce'
    BY <1>1, <1>3, IdsKept DEF SwapInv
  <2>6. LastIsOwn'
    BY <1>1, <1>3 DEF SwapInv, LastIsOwn, This, Last
  <2>7. QuoteHolds'
    BY <1>1, <1>3 DEF SwapInv, QuoteHolds, Offering, This
  <2>8. QED BY <2>4, <2>5, <2>6, <2>7 DEF SwapInv
<1>4. QED BY <1>2, <1>3 DEF MarkOpen

(* What leaves the machine is the execution's own offer. *)
LEMMA SentIsOwn ==
  ASSUME SwapInv, Rehearse
  PROVE  /\ forgePc = "rehearse" /\ swap \in Quoted
         /\ Last \in DOMAIN offers /\ swap.shown \in Routers /\ ForgeSent
         /\ UNCHANGED <<queue, openFile, asked, world>>
         /\ \/ forgePc' = "settle" /\ UNCHANGED <<swap, rows, forgeCounted>>
            \/ ForgeEnded("unknown")
BY DEF Rehearse, SwapInv, SwapTypes, LastIsOwn, Offering, Quoted

LEMMA SwapInvRehearse ==
  ASSUME SwapInv, Rehearse
  PROVE  SwapInv'
<1>1. UNCHANGED <<queue, openFile, asked, router, forgeClock>> /\ forgePc = "rehearse"
  BY SentIsOwn DEF world
<1>2. /\ offers' \in Seq(Offer) /\ Len(offers') = Len(offers)
      /\ DOMAIN offers' = DOMAIN offers
      /\ \A o \in DOMAIN offers : SameTerms(o)
  BY SentIsOwn, SentFields DEF SwapInv
<1>3. CASE ForgeEnded("unknown")
  BY <1>1, <1>2, <1>3, FailInv DEF SameTerms
<1>4. CASE forgePc' = "settle" /\ UNCHANGED swap
  <2>1. SwapTypes'
    BY <1>1, <1>2, <1>4 DEF SwapInv, SwapTypes, Offering
  <2>2. IdsOnce'
    BY <1>1, <1>2, <1>4, IdsKept DEF SwapInv, SameTerms
  <2>3. LastIsOwn'
    BY <1>1, <1>2, <1>4 DEF SwapInv, LastIsOwn, This, Last, SameTerms
  <2>4. QuoteHolds'
    BY <1>1, <1>4 DEF SwapInv, QuoteHolds, Offering, This
  <2>5. QED BY <2>1, <2>2, <2>3, <2>4 DEF SwapInv
<1>5. QED BY <1>3, <1>4, SentIsOwn

(* The offers stay as they are, or one of them closes. *)
LEMMA SwapInvElsewhere ==
  ASSUME SwapInv,
         \/ \E o \in DOMAIN offers : Status(o) \/ FillSwap(o) \/ CancelOnChain(o)
         \/ LoseFile \/ ForgeTick
         \/ UNCHANGED forgeVars
  PROVE  SwapInv'
<1>1. openFile \subseteq Entry /\ forgeClock \in Nat
  BY DEF SwapInv, SwapTypes
<1>2. /\ UNCHANGED <<daemon, queue, asked, router>>
      /\ openFile' \subseteq openFile /\ forgeClock' \in Nat
  <2>1. ASSUME NEW o \in DOMAIN offers, Status(o)
        PROVE  /\ UNCHANGED <<daemon, queue, asked, router, forgeClock>>
               /\ openFile' \subseteq openFile
    BY <2>1 DEF Status, world, MarkSettled, Unexpired
  <2>2. ASSUME NEW o \in DOMAIN offers, FillSwap(o) \/ CancelOnChain(o)
        PROVE  UNCHANGED <<daemon, queue, asked, router, openFile, forgeClock>>
    BY <2>2 DEF FillSwap, CancelOnChain, world, records
  <2>3. QED BY <1>1, <2>1, <2>2 DEF LoseFile, ForgeTick, forgeVars, world, records
<1>3. /\ offers' \in Seq(Offer) /\ Len(offers') = Len(offers)
      /\ DOMAIN offers' = DOMAIN offers
      /\ \A o \in DOMAIN offers : SameTerms(o) /\ offers'[o].sentTo = offers[o].sentTo
  <2>1. CASE UNCHANGED offers
    BY <2>1, SameOffers
  <2>2. ASSUME NEW o \in DOMAIN offers, NEW state \in {"filled", "cancelled"}, Close(o, state)
        PROVE  /\ offers' \in Seq(Offer) /\ Len(offers') = Len(offers)
               /\ DOMAIN offers' = DOMAIN offers
               /\ \A p \in DOMAIN offers :
                    SameTerms(p) /\ offers'[p].sentTo = offers[p].sentTo
    BY <2>2, ClosedFields DEF SwapInv
  <2>3. QED
    BY <2>1, <2>2 DEF Status, FillSwap, CancelOnChain, LoseFile, ForgeTick, forgeVars
<1>4. openFile' \subseteq Entry
  BY <1>1, <1>2
<1>5. QED BY <1>2, <1>3, <1>4, ElsewhereInv

LEMMA SwapInvStep ==
  ASSUME ForgeSwapAssumption, SwapInv, [ForgeNext]_forgeVars
  PROVE  SwapInv'
<1>1. CASE Settle
  <2>1. /\ UNCHANGED <<queue, asked, router, forgeClock, openFile, offers>>
        /\ ForgeEnded("approved") \/ ForgeEnded("unknown")
    BY <1>1 DEF Settle, world
  <2>2. QED BY <2>1, FailInv, SameOffers DEF SameTerms
<1>2. CASE ForgeCrash
  <2>1. /\ UNCHANGED <<queue, asked, router, forgeClock, openFile, offers>>
        /\ forgePc' = "idle" /\ swap' = NoSwap
    BY <1>2 DEF ForgeCrash, records
  <2>2. openFile' \subseteq Entry
    BY <2>1 DEF SwapInv, SwapTypes
  <2>3. QED BY <2>1, <2>2, IdleInv, SameOffers DEF SameTerms
<1>3. CASE ConfigureRouter
  <2>1. /\ UNCHANGED <<forgePc, swap, queue, asked, forgeClock, openFile, offers>>
        /\ forgePc = "idle" /\ router' \in Routers
    BY <1>3 DEF ConfigureRouter, records, daemon
  <2>2. SwapTypes' /\ IdsOnce'
    BY <2>1 DEF SwapInv, SwapTypes, IdsOnce
  <2>3. LastIsOwn' /\ QuoteHolds'
    BY <2>1 DEF LastIsOwn, QuoteHolds, Offering
  <2>4. QED BY <2>2, <2>3 DEF SwapInv
<1>4. QED
  BY <1>1, <1>2, <1>3, SwapInvRequest, SwapInvApprove, SwapInvQuote, SwapInvMake, SwapInvMark, SwapInvRehearse,
     SwapInvElsewhere, Zenon DEF ForgeNext

LEMMA SwapInvAlways == ASSUME ForgeSwapAssumption PROVE ForgeSpec => []SwapInv
<1>1. SwapInv /\ [ForgeNext]_forgeVars => SwapInv'
  BY SwapInvStep
<1>2. ForgeInit => SwapInv
  BY SwapInvInit
<1>3. QED BY <1>1, <1>2, PTL DEF ForgeSpec

-----------------------------------------------------------------------------
(* What leaves the machine. *)

(* No offer leaves in this step. *)
NoneSent ==
  \A o \in DOMAIN offers' :
    \/ offers'[o].sentTo = {}
    \/ o \in DOMAIN offers /\ offers'[o].sentTo = offers[o].sentTo

LEMMA OnlyRehearseSends ==
  ASSUME ForgeSwapAssumption, SwapInv, [ForgeNext]_forgeVars, ~Rehearse
  PROVE  NoneSent
<1>1. CASE UNCHANGED offers
  BY <1>1 DEF NoneSent
<1>2. CASE Make
  <2>1. CASE /\ DOMAIN offers' = DOMAIN offers \cup {Len(offers) + 1}
             /\ \A o \in DOMAIN offers : offers'[o] = offers[o]
             /\ IsMade(offers'[Len(offers) + 1])
    BY <2>1 DEF NoneSent, IsMade
  <2>2. forgePc = "make"
    BY <1>2 DEF Make
  <2>3. QED BY <1>1, <1>2, <2>1, <2>2, MadeFields DEF SwapInv
<1>3. ASSUME NEW o \in DOMAIN offers, FillSwap(o) \/ CancelOnChain(o)
      PROVE  NoneSent
  <2>1. PICK state \in {"filled", "cancelled"} : Close(o, state)
    BY <1>3 DEF FillSwap, CancelOnChain
  <2>2. QED BY <2>1, ClosedFields DEF SwapInv, NoneSent
<1>4. UNCHANGED offers \/ Make \/ \E o \in DOMAIN offers : FillSwap(o) \/ CancelOnChain(o)
  <2>1. ASSUME NEW o \in DOMAIN offers, Status(o) PROVE UNCHANGED offers
    BY <2>1 DEF Status
  <2>2. ASSUME NEW s \in Swaps, Request(s) PROVE UNCHANGED offers
    BY <2>2 DEF Request
  <2>3. ApproveSwap \/ Quote \/ MarkOpen \/ Settle \/ ForgeCrash \/ ConfigureRouter \/ LoseFile \/ ForgeTick
        \/ UNCHANGED forgeVars => UNCHANGED offers
    BY DEF ApproveSwap, Quote, MarkOpen, Settle, ForgeCrash, ConfigureRouter, LoseFile,
           ForgeTick, forgeVars
  <2>4. QED BY <2>1, <2>2, <2>3, Zenon DEF ForgeNext
<1>5. QED BY <1>1, <1>2, <1>3, <1>4

LEMMA SendsWhatWasApproved ==
  ASSUME ForgeSwapAssumption, SwapInv, [ForgeNext]_forgeVars
  PROVE  FillsWhatWasApproved
<1>1. CASE ~Rehearse
  BY <1>1, OnlyRehearseSends DEF NoneSent, FillsWhatWasApproved
<1>2. CASE Rehearse
  <2>1. /\ forgePc = "rehearse" /\ Last \in DOMAIN offers /\ swap.shown \in Routers /\ ForgeSent
    BY <1>2, SentIsOwn
  <2>2. /\ DOMAIN offers' = DOMAIN offers
        /\ \A o \in DOMAIN offers : SameTerms(o)
        /\ \A o \in DOMAIN offers \ {Last} : offers'[o].sentTo = offers[o].sentTo
        /\ offers'[Last].sentTo = offers[Last].sentTo \cup {swap.shown}
    BY <2>1, SentFields DEF SwapInv
  <2>3. /\ \A o \in DOMAIN offers : offers[o].id = swap.id <=> o = Last
        /\ offers[Last].amount = This.amount /\ offers[Last].ask = swap.out
        /\ offers[Last].sentTo = {}
        /\ swap.out >= This.min /\ swap.shown = router
    BY <2>1 DEF SwapInv, LastIsOwn, QuoteHolds, Offering
  <2> SUFFICES ASSUME NEW o \in DOMAIN offers', offers'[o].sentTo # {},
                      o \notin DOMAIN offers \/ offers[o].sentTo = {}
               PROVE  /\ offers'[o].sentTo = {swap.shown} /\ swap.shown = router
                      /\ offers'[o].amount = This.amount /\ offers'[o].ask >= This.min
                      /\ \A p \in DOMAIN offers \ {o} :
                           offers[p].id # swap.id \/ offers[p].sentTo = {}
    BY DEF FillsWhatWasApproved
  <2>4. o = Last
    BY <2>2
  <2>5. QED BY <2>1, <2>2, <2>3, <2>4 DEF SameTerms
<1>3. QED BY <1>1, <1>2

(* _execute_forge_swap: an offer that leaves the machine is of the swap    *)
(* that the human approved, at its amount, for at least its minimum, at    *)
(* the router that was shown and is still configured, and it is the only   *)
(* offer that ever leaves for that approval.                               *)
THEOREM FilledAsApprovedAlways ==
  ASSUME ForgeSwapAssumption PROVE ForgeSpec => FilledAsApproved
<1>1. SwapInv /\ [ForgeNext]_forgeVars => [FillsWhatWasApproved]_forgeVars
  BY SendsWhatWasApproved
<1>2. QED BY <1>1, SwapInvAlways, PTL DEF ForgeSpec, FilledAsApproved

-----------------------------------------------------------------------------
(* The file of open offers. *)

LEMMA SameEntry ==
  ASSUME NEW o, SameTerms(o)
  PROVE  EntryOf(o)' = EntryOf(o)
BY DEF SameTerms, EntryOf

(* A step that adds no live offer, and takes no entry of one away. *)
LEMMA FileKept ==
  ASSUME SwapInv, FileAgrees, openFile' \subseteq openFile, lost => lost',
         forgeClock' \in Nat, forgeClock' >= forgeClock,
         \A o \in DOMAIN offers' : Live(o)' =>
           /\ o \in DOMAIN offers /\ Live(o) /\ SameTerms(o)
           /\ lost' \/ (EntryOf(o) \in openFile => EntryOf(o) \in openFile'),
         forgePc' \in {"make", "mark"} => forgePc \in {"make", "mark"} /\ This' = This
  PROVE  FileAgrees'
<1>1. LiveIsOnFile'
  <2> SUFFICES ASSUME ~lost', NEW o \in DOMAIN offers', Live(o)'
               PROVE  EntryOf(o)' \in openFile'
    BY DEF LiveIsOnFile
  <2>1. /\ o \in DOMAIN offers /\ Live(o) /\ SameTerms(o)
        /\ EntryOf(o) \in openFile => EntryOf(o) \in openFile'
    OBVIOUS
  <2>2. EntryOf(o) \in openFile
    BY <2>1 DEF FileAgrees, LiveIsOnFile
  <2>3. QED BY <2>1, <2>2, SameEntry
<1>2. OnePerPair'
  <2>1. \A e \in Unexpired(openFile)' : e \in Unexpired(openFile)
    <3>1. forgeClock \in Nat /\ \A e \in openFile : e.expires \in Nat
      BY DEF SwapInv, SwapTypes, Entry
    <3>2. QED BY <3>1 DEF Unexpired
  <2>2. ASSUME forgePc' \in {"make", "mark"} PROVE PairIsFree(This)'
    <3>1. PairIsFree(This) /\ This' = This
      BY <2>2 DEF FileAgrees, OnePerPair
    <3>2. QED BY <2>1, <3>1 DEF PairIsFree
  <2>3. QED BY <2>1, <2>2 DEF FileAgrees, OnePerPair
<1>3. QED BY <1>1, <1>2 DEF FileAgrees

LEMMA FileAgreesMark ==
  ASSUME SwapInv, FileAgrees, MarkOpen
  PROVE  FileAgrees'
<1>1. /\ forgePc = "mark" /\ UNCHANGED <<offers, forgeClock, lost>>
      /\ forgeClock \in Nat /\ Last \in DOMAIN offers
  BY DEF MarkOpen, world, SwapInv, SwapTypes, LastIsOwn
<1>2. \A o : SameTerms(o)
  BY <1>1 DEF SameTerms
<1>3. CASE forgePc' = "idle" /\ UNCHANGED openFile
  <2>1. \A o \in DOMAIN offers' : Live(o)' => o \in DOMAIN offers /\ Live(o)
    BY <1>1, <1>3 DEF Live
  <2>2. QED BY <1>1, <1>2, <1>3, <2>1, FileKept
<1>4. CASE /\ openFile' = Unexpired(openFile) \cup
                {[offer |-> Last, give |-> This.give, take |-> This.take,
                  expires |-> offers[Last].expires]}
           /\ forgePc' = "rehearse" /\ UNCHANGED swap
  <2> DEFINE new == EntryOf(Last)
  <2>1. /\ openFile' = Unexpired(openFile) \cup {new}
        /\ new.offer = Last /\ new.give = This.give /\ new.take = This.take
    BY <1>1, <1>4 DEF SwapInv, LastIsOwn, EntryOf
  <2> HIDE DEF new
  <2>2. LiveIsOnFile'
    <3> SUFFICES ASSUME ~lost, NEW o \in DOMAIN offers, Live(o)'
                 PROVE  EntryOf(o) \in openFile'
      BY <1>1, <1>2, SameEntry DEF LiveIsOnFile
    <3>1. CASE o = Last
      BY <2>1, <3>1 DEF new
    <3>2. CASE o # Last
      <4>1. Live(o) /\ offers[o].expires > forgeClock
        BY <1>1, <3>2 DEF Live, Last
      <4>2. EntryOf(o) \in openFile /\ EntryOf(o).expires = offers[o].expires
        BY <4>1 DEF FileAgrees, LiveIsOnFile, EntryOf
      <4>3. QED BY <2>1, <4>1, <4>2 DEF Unexpired
    <3>3. QED BY <3>1, <3>2
  <2>3. OnePerPair'
    <3>1. \A e \in Unexpired(openFile) : ~(e.give = This.give /\ e.take = This.take)
      BY <1>1 DEF FileAgrees, OnePerPair, PairIsFree
    <3>2. \A e \in Unexpired(openFile)' : e \in Unexpired(openFile) \/ e = new
      BY <1>1, <2>1 DEF Unexpired
    <3>3. \A e, f \in Unexpired(openFile)' :
            e.give = f.give /\ e.take = f.take => e.offer = f.offer
      BY <2>1, <3>1, <3>2 DEF FileAgrees, OnePerPair
    <3>4. forgePc' \notin {"make", "mark"}
      BY <1>4
    <3>5. QED BY <3>3, <3>4 DEF OnePerPair
  <2>4. QED BY <2>2, <2>3 DEF FileAgrees
<1>5. QED BY <1>3, <1>4 DEF MarkOpen

(* The quote, the offer, and what comes after the file is written. *)
LEMMA FileAgreesExecution ==
  ASSUME ForgeSwapAssumption, SwapInv, FileAgrees,
         ApproveSwap \/ Quote \/ Make \/ Rehearse \/ Settle \/ ForgeCrash \/ ConfigureRouter
  PROVE  FileAgrees'
<1>1. UNCHANGED <<openFile, forgeClock, lost>> /\ forgeClock \in Nat
  BY DEF ApproveSwap, Quote, Make, Rehearse, Settle, ForgeCrash, ConfigureRouter,
         ForgeFail, ForgeEnded, records,
         world, SwapInv, SwapTypes
<1>2. CASE ApproveSwap \/ Settle \/ ForgeCrash \/ ConfigureRouter
  <2>1. UNCHANGED offers /\ forgePc' \notin {"make", "mark", "rehearse"}
    BY <1>2 DEF ApproveSwap, Settle, ForgeEnded, ForgeCrash, ConfigureRouter, records,
                daemon, SwapInv, SwapTypes
  <2>2. \A o \in DOMAIN offers' : Live(o)' => o \in DOMAIN offers /\ Live(o) /\ SameTerms(o)
    BY <1>1, <2>1 DEF Live, SameTerms
  <2>3. QED BY <1>1, <2>1, <2>2, FileKept
<1>3. CASE Quote
  <2>1. UNCHANGED offers /\ forgePc' # "rehearse"
    BY <1>3 DEF Quote, ForgeFail, ForgeEnded
  <2>2. LiveIsOnFile'
    BY <1>1, <2>1 DEF FileAgrees, LiveIsOnFile, Live, EntryOf
  <2>3. forgePc' \in {"make", "mark"} => PairIsFree(This) /\ This' = This
    BY <1>3 DEF Quote, ForgeFail, ForgeEnded, MayOffer, This
  <2>4. OnePerPair'
    BY <1>1, <2>3 DEF FileAgrees, OnePerPair, PairIsFree, Unexpired
  <2>5. QED BY <2>2, <2>4 DEF FileAgrees
<1>4. CASE Make
  <2>1. forgePc = "make" /\ forgePc' \in {"mark", "idle"} /\ (forgePc' = "mark" => This' = This)
    BY <1>4 DEF Make, ForgeFail, ForgeEnded, This
  <2>2. \A o \in DOMAIN offers' :
          \/ o \in DOMAIN offers /\ offers'[o] = offers[o]
          \/ IsMade(offers'[o])
    BY <1>4, <2>1, MadeFields DEF SwapInv
  <2>3. \A o \in DOMAIN offers' : Live(o)' => o \in DOMAIN offers /\ Live(o) /\ SameTerms(o)
    BY <1>1, <2>1, <2>2 DEF Live, SameTerms, IsMade
  <2>4. QED BY <1>1, <2>1, <2>3, FileKept
<1>5. CASE Rehearse
  <2>1. /\ forgePc = "rehearse" /\ forgePc' \in {"settle", "idle"} /\ Last \in DOMAIN offers
        /\ swap.shown \in Routers /\ ForgeSent
    BY <1>5, SentIsOwn DEF ForgeEnded
  <2>2. /\ DOMAIN offers' = DOMAIN offers
        /\ \A o \in DOMAIN offers : SameTerms(o) /\ offers'[o].state = offers[o].state
        /\ \A o \in DOMAIN offers \ {Last} : offers'[o].sentTo = offers[o].sentTo
    BY <2>1, SentFields DEF SwapInv
  <2>3. \A o \in DOMAIN offers' : Live(o)' => o \in DOMAIN offers /\ Live(o) /\ SameTerms(o)
    BY <1>1, <2>1, <2>2 DEF Live, SameTerms
  <2>4. QED BY <1>1, <2>1, <2>3, FileKept
<1>6. QED BY <1>2, <1>3, <1>4, <1>5

LEMMA FileAgreesStep ==
  ASSUME ForgeSwapAssumption, SwapInv, FileAgrees, [ForgeNext]_forgeVars
  PROVE  FileAgrees'
<1>0. forgeClock \in Nat
  BY DEF SwapInv, SwapTypes
<1>1. ASSUME NEW s \in Swaps, Request(s) PROVE FileAgrees'
  <2>1. forgePc = "idle" /\ UNCHANGED <<forgePc, offers, forgeClock,
                                        lost>> /\ openFile' = Unexpired(openFile)
    BY <1>1 DEF Request, daemon, world
  <2>2. \A o \in DOMAIN offers' : Live(o)' =>
          /\ o \in DOMAIN offers /\ Live(o) /\ SameTerms(o)
          /\ EntryOf(o) \in openFile => EntryOf(o) \in openFile'
    BY <2>1 DEF Live, SameTerms, EntryOf, Unexpired
  <2>3. QED BY <1>0, <2>1, <2>2, FileKept DEF Unexpired
<1>2. ASSUME NEW o \in DOMAIN offers, Status(o) PROVE FileAgrees'
  <2>1. /\ forgePc = "idle" /\ UNCHANGED <<forgePc, offers, forgeClock, lost>>
        /\ openFile' = openFile \/ openFile' = MarkSettled(o)
    BY <1>2 DEF Status, daemon, world
  <2>2. Live(o) => SageStatus(o) = {"active"}
    BY <1>0, <2>1, OffersType DEF Live, SageStatus, SwapInv, Offer
  <2>3. Live(o) => openFile' = openFile
    BY <1>2, <2>2 DEF Status
  <2>4. \A p \in DOMAIN offers' : Live(p)' =>
          /\ p \in DOMAIN offers /\ Live(p) /\ SameTerms(p)
          /\ EntryOf(p) \in openFile => EntryOf(p) \in openFile'
    BY <2>1, <2>3 DEF Live, SameTerms, EntryOf, MarkSettled, Unexpired
  <2>5. QED BY <1>0, <2>1, <2>4, FileKept DEF MarkSettled, Unexpired
<1>3. ASSUME NEW o \in DOMAIN offers, FillSwap(o) \/ CancelOnChain(o) PROVE FileAgrees'
  <2>1. UNCHANGED <<forgePc, swap, openFile, forgeClock, lost>>
    BY <1>3 DEF FillSwap, CancelOnChain, daemon, world, records
  <2>2. PICK state \in {"filled", "cancelled"} : Close(o, state)
    BY <1>3 DEF FillSwap, CancelOnChain
  <2>3. /\ DOMAIN offers' = DOMAIN offers /\ Len(offers') = Len(offers)
        /\ \A p \in DOMAIN offers : SameTerms(p) /\ offers'[p].sentTo = offers[p].sentTo
        /\ \A p \in DOMAIN offers \ {o} : offers'[p].state = offers[p].state
        /\ offers'[o].state = state
    BY <2>2, ClosedFields DEF SwapInv
  <2>4. \A p \in DOMAIN offers' : Live(p)' => p \in DOMAIN offers /\ Live(p) /\ SameTerms(p)
    BY <2>1, <2>2, <2>3 DEF Live, SameTerms, Last
  <2>5. QED BY <1>0, <2>1, <2>4, FileKept DEF This
<1>4. CASE LoseFile
  BY <1>4 DEF LoseFile, daemon, FileAgrees, LiveIsOnFile, OnePerPair, PairIsFree, Unexpired
<1>5. CASE ForgeTick \/ UNCHANGED forgeVars
  <2>1. /\ UNCHANGED <<forgePc, swap, offers, openFile, lost>>
        /\ forgeClock' \in Nat /\ forgeClock' >= forgeClock
    BY <1>0, <1>5 DEF ForgeTick, daemon, records, forgeVars, world
  <2>2. \A o \in DOMAIN offers : offers[o].expires \in Nat
    BY OffersType DEF SwapInv, Offer
  <2>3. \A o \in DOMAIN offers' : Live(o)' => o \in DOMAIN offers /\ Live(o) /\ SameTerms(o)
    BY <1>0, <2>1, <2>2 DEF Live, SameTerms, Last
  <2>4. QED BY <2>1, <2>3, FileKept DEF This
<1>6. QED
  BY <1>1, <1>2, <1>3, <1>4, <1>5, FileAgreesMark, FileAgreesExecution, Zenon DEF ForgeNext

(* _forge_refuse_if_open and _forge_mark_open: as long as forge_open.json  *)
(* can be read, two offers of one pair can be filled at the same time only *)
(* when one of them is past its expiry.                                    *)
THEOREM OneOpenOfferPerPairAlways ==
  ASSUME ForgeSwapAssumption PROVE ForgeSpec => []OneOpenOfferPerPair
<1>1. ForgeInit => FileAgrees
  BY DEF ForgeInit, FileAgrees, LiveIsOnFile, OnePerPair, Unexpired
<1>2. SwapInv /\ FileAgrees /\ [ForgeNext]_forgeVars => FileAgrees'
  BY FileAgreesStep
<1>3. SwapInv /\ FileAgrees => OneOpenOfferPerPair
  <2> SUFFICES ASSUME SwapInv, FileAgrees, ~lost,
                      NEW o1 \in DOMAIN offers, NEW o2 \in DOMAIN offers,
                      Fillable(o1), Fillable(o2),
                      offers[o1].give = offers[o2].give, offers[o1].take = offers[o2].take,
                      ~(offers[o1].expires <= forgeClock), ~(offers[o2].expires <= forgeClock)
               PROVE  o1 = o2
    BY DEF OneOpenOfferPerPair
  <2>1. forgeClock \in Nat /\ offers[o1].expires \in Nat /\ offers[o2].expires \in Nat
    BY OffersType DEF SwapInv, SwapTypes, Offer
  <2>2. Live(o1) /\ Live(o2)
    BY <2>1 DEF Live, Fillable
  <2>3. EntryOf(o1) \in Unexpired(openFile) /\ EntryOf(o2) \in Unexpired(openFile)
    BY <2>1, <2>2 DEF FileAgrees, LiveIsOnFile, Unexpired, EntryOf
  <2>4. EntryOf(o1).offer = EntryOf(o2).offer
    BY <2>3 DEF FileAgrees, OnePerPair, EntryOf
  <2>5. QED BY <2>4 DEF EntryOf
<1>4. QED BY <1>1, <1>2, <1>3, SwapInvAlways, PTL DEF ForgeSpec

-----------------------------------------------------------------------------
(* The ledger, and what velocity counts. *)

LEMMA EndedRecords ==
  ASSUME NEW row, ForgeEnded(row)
  PROVE  /\ forgePc' = "idle" /\ forgeCounted \subseteq forgeCounted'
         /\ \A i : i # swap.id /\ Executing(i) => Executing(i)'
         /\ row # "failed" => swap.id \in forgeCounted'
<1>1. /\ forgePc' = "idle" /\ rows' = [rows EXCEPT ![swap.id] = row]
      /\ forgeCounted' = IF row = "failed" THEN forgeCounted ELSE forgeCounted \cup {swap.id}
  BY DEF ForgeEnded
<1>2. /\ DOMAIN rows' = DOMAIN rows
      /\ \A i \in DOMAIN rows : i # swap.id => rows'[i] = rows[i]
  BY <1>1
<1>3. QED BY <1>1, <1>2 DEF Executing

LEMMA SentIsOnRecordStep ==
  ASSUME ForgeSwapAssumption, SwapInv, SentIsOnRecord, [ForgeNext]_forgeVars
  PROVE  SentIsOnRecord'
<1>1. CASE ApproveSwap
  <2>1. PICK item \in queue :
          /\ swap' = item
          /\ rows' = [i \in DOMAIN rows \cup {item.id} |->
                        IF i = item.id THEN "executing" ELSE rows[i]]
    BY <1>1 DEF ApproveSwap
  <2>2. UNCHANGED <<offers, forgeCounted>>
    BY <1>1 DEF ApproveSwap
  <2>3. \A i : Executing(i) \/ i = item.id => Executing(i)'
    BY <2>1 DEF Executing
  <2>4. QED BY <2>1, <2>2, <2>3 DEF SentIsOnRecord
<1>2. CASE Quote
  <2>1. UNCHANGED offers /\ forgePc = "quote"
    BY <1>2 DEF Quote
  <2>2. CASE ForgeFail
    <3>1. \A o \in DOMAIN offers : offers[o].id # swap.id
      BY <2>1 DEF SwapInv, IdsOnce
    <3>2. QED BY <2>1, <2>2, <3>1, EndedRecords DEF ForgeFail, SentIsOnRecord
  <2>3. CASE swap'.id = swap.id /\ UNCHANGED records
    BY <2>1, <2>3 DEF SentIsOnRecord, Executing, records
  <2>4. QED BY <1>2, <2>2, <2>3 DEF Quote
<1>3. CASE Make
  <2>1. forgePc = "make" /\ \A o \in DOMAIN offers : offers[o].id # swap.id
    BY <1>3 DEF Make, SwapInv, IdsOnce
  <2>2. \A o \in DOMAIN offers' : \/ o \in DOMAIN offers /\ offers'[o] = offers[o]
                                  \/ IsMade(offers'[o])
    BY <1>3, <2>1, MadeFields DEF SwapInv
  <2>3. CASE ForgeFail
    <3>1. forgePc' = "idle"
      BY <2>3 DEF ForgeFail, ForgeEnded
    <3>2. \A i : i # swap.id /\ Executing(i) => Executing(i)'
      BY <2>3, EndedRecords DEF ForgeFail
    <3>3. forgeCounted' = forgeCounted
      BY <2>3 DEF ForgeFail, ForgeEnded
    <3>4. QED BY <2>1, <2>2, <3>1, <3>2, <3>3 DEF SentIsOnRecord, IsMade
  <2>4. CASE UNCHANGED swap /\ UNCHANGED records
    BY <2>1, <2>2, <2>4 DEF SentIsOnRecord, Executing, records, IsMade
  <2>5. QED BY <1>3, <2>1, <2>3, <2>4, MadeFields DEF SwapInv
<1>4. CASE Rehearse
  <2>1. /\ forgePc = "rehearse" /\ Last \in DOMAIN offers /\ swap.shown \in Routers /\ ForgeSent
        /\ offers[Last].id = swap.id
        /\ (forgePc' = "settle" /\ UNCHANGED <<swap, rows,
                                               forgeCounted>>) \/ ForgeEnded("unknown")
    BY <1>4, SentIsOwn DEF SwapInv, LastIsOwn
  <2>2. /\ DOMAIN offers' = DOMAIN offers
        /\ \A o \in DOMAIN offers : offers'[o].id = offers[o].id
        /\ \A o \in DOMAIN offers : offers'[o].state = offers[o].state
        /\ \A o \in DOMAIN offers \ {Last} : offers'[o].sentTo = offers[o].sentTo
        /\ offers'[Last].sentTo # {}
    BY <2>1, SentFields DEF SwapInv, SameTerms
  <2>3. Executing(swap.id)
    BY <2>1 DEF SentIsOnRecord
  <2>4. \A o \in DOMAIN offers : offers'[o].state = "filled" => offers'[o].sentTo # {}
    BY <2>2 DEF SentIsOnRecord
  <2>5. CASE forgePc' = "settle" /\ UNCHANGED <<swap, rows, forgeCounted>>
    BY <2>1, <2>2, <2>3, <2>4, <2>5 DEF SentIsOnRecord, Executing
  <2>6. CASE ForgeEnded("unknown")
    <3>1. /\ forgePc' = "idle" /\ forgeCounted \subseteq forgeCounted' /\ swap.id \in forgeCounted'
          /\ \A i : i # swap.id /\ Executing(i) => Executing(i)'
      BY <2>6, EndedRecords
    <3>2. QED BY <2>1, <2>2, <2>4, <3>1 DEF SentIsOnRecord
  <2>7. QED BY <2>1, <2>5, <2>6
<1>5. CASE Settle
  <2>1. PICK row \in {"approved", "unknown"} : ForgeEnded(row) /\ UNCHANGED offers
    BY <1>5 DEF Settle
  <2>2. /\ forgePc' = "idle" /\ forgeCounted \subseteq forgeCounted' /\ swap.id \in forgeCounted'
        /\ \A i : i # swap.id /\ Executing(i) => Executing(i)'
    BY <2>1, EndedRecords
  <2>3. QED BY <2>1, <2>2 DEF SentIsOnRecord
<1>6. ASSUME UNCHANGED <<rows, forgeCounted, offers>>,
             forgePc' = "idle" \/ UNCHANGED daemon \/ (UNCHANGED swap /\ forgePc # "idle")
      PROVE  SentIsOnRecord'
  BY <1>6 DEF SentIsOnRecord, Executing, daemon
<1>7. ASSUME NEW s \in Swaps, Request(s) PROVE SentIsOnRecord'
  BY <1>6, <1>7 DEF Request
<1>8. CASE MarkOpen \/ ForgeCrash \/ ConfigureRouter \/ LoseFile \/ ForgeTick \/ UNCHANGED forgeVars
  <2>1. /\ UNCHANGED <<rows, forgeCounted, offers>>
        /\ forgePc' = "idle" \/ UNCHANGED daemon \/ (UNCHANGED swap /\ forgePc # "idle")
    BY <1>8 DEF MarkOpen, ForgeCrash, ConfigureRouter, LoseFile, ForgeTick, records,
                forgeVars
  <2>2. QED BY <1>6, <2>1
<1>9. ASSUME NEW o \in DOMAIN offers, Status(o) PROVE SentIsOnRecord'
  BY <1>6, <1>9 DEF Status
<1>10. ASSUME NEW o \in DOMAIN offers, FillSwap(o) \/ CancelOnChain(o) PROVE SentIsOnRecord'
  <2>1. UNCHANGED <<forgePc, swap, rows, forgeCounted>>
    BY <1>10 DEF FillSwap, CancelOnChain, daemon, records
  <2>2. PICK state \in {"filled", "cancelled"} :
          Close(o, state) /\ (state = "filled" => offers[o].sentTo # {})
    BY <1>10 DEF FillSwap, CancelOnChain, Fillable
  <2>3. /\ DOMAIN offers' = DOMAIN offers
        /\ \A p \in DOMAIN offers : offers'[p].id = offers[p].id
        /\ \A p \in DOMAIN offers : offers'[p].sentTo = offers[p].sentTo
        /\ \A p \in DOMAIN offers \ {o} : offers'[p].state = offers[p].state
        /\ offers'[o].state = state
    BY <2>2, ClosedFields DEF SwapInv, SameTerms
  <2>4. QED BY <2>1, <2>2, <2>3 DEF SentIsOnRecord, Executing
<1>11. QED
  BY <1>1, <1>2, <1>3, <1>4, <1>5, <1>7, <1>8, <1>9, <1>10, Zenon DEF ForgeNext

(* _execute_forge_swap, where every outcome short of a proven settle is    *)
(* BroadcastUnknown: a swap that a router fills is counted for velocity,   *)
(* or its row still says "executing".                                      *)
THEOREM FilledIsOnRecordAlways ==
  ASSUME ForgeSwapAssumption PROVE ForgeSpec => []FilledIsOnRecord
<1>1. ForgeInit => SentIsOnRecord
  <2>1. ForgeInit => forgePc = "idle" /\ offers = <<>>
    BY DEF ForgeInit
  <2>2. QED BY <2>1 DEF SentIsOnRecord
<1>2. SwapInv /\ SentIsOnRecord /\ [ForgeNext]_forgeVars => SentIsOnRecord'
  BY SentIsOnRecordStep
<1>3. SentIsOnRecord => FilledIsOnRecord
  BY DEF SentIsOnRecord, FilledIsOnRecord, Executing
<1>4. QED BY <1>1, <1>2, <1>3, SwapInvAlways, PTL DEF ForgeSpec
=============================================================================

---------------------------- MODULE SageIntents ----------------------------
(***************************************************************************)
(* The intents that the Sage wallet executes (daemon.py, rt_offer_* to     *)
(* rt_multi_send and _execute_*_via_sage): what a request is checked for   *)
(* when it arrives, the legs policy judges and velocity counts, what the   *)
(* execution checks again, and what Sage then takes out of the wallet.     *)
(*                                                                         *)
(* A request is a record with an intent and the fields that intent has.    *)
(* Checking it gives the empty set (refused) or the one intent that is     *)
(* queued.  An asset is "native", a CAT id in some spelling, a reference   *)
(* to an NFT, or a string that names nothing.                              *)
(***************************************************************************)
EXTENDS Integers, Sequences, FiniteSets, SequencesExt, FiniteSetsExt

CONSTANTS
  Lower,            \* the CAT id that each spelling of 64 hex digits names
  Launcher,         \* the NFT that each coin id, launcher id or nft1 id names
  Dids, Options,    \* strings of the form did:chia:1..., option1...
  Coins,            \* coin ids
  OfferIds,         \* Sage's offers, ours and others'
  OwnAddresses,     \* addresses of the daemon's wallet
  NetworkAddresses, \* strings that begin with the network's address prefix
  MaxFee,           \* chia.max_offer_fee_mojos
  ConfiguredFee     \* chia.fee_mojos, the fee of plain transfers

SageIntentsAssumption ==
  /\ {MaxFee, ConfiguredFee} \subseteq Nat
  /\ \A s \in DOMAIN Lower : Lower[Lower[s]] = Lower[s]
  /\ DOMAIN Lower \cap DOMAIN Launcher = {}
  /\ "native" \notin DOMAIN Lower

Cats == {Lower[s] : s \in DOMAIN Lower}
Nfts == {Launcher[r] : r \in DOMAIN Launcher}

Open == {"pending", "active"}

Transfers == {"transfer"}
Moves == [option_transfer |-> Options, did_transfer |-> Dids,
          nft_assign_did |-> DOMAIN Launcher]
FeeOnly == {"nft_mint", "did_create", "did_normalize", "cat_issue",
            "clawback_finalize", "coin_combine", "coin_split", "coin_autocombine"}
AlwaysQueued == {"option_exercise", "option_transfer", "did_transfer",
                 "nft_assign_did", "offer_cancel"}
Intents == Transfers \cup DOMAIN Moves \cup FeeOnly \cup AlwaysQueued \cup
           {"offer_make", "offer_take", "option_mint", "bulk_send", "multi_send"}

-----------------------------------------------------------------------------
(* The fields of the requests, as their routes read them, and of a wallet. *)
(* The legs of an offer that is taken and of the options' strikes are      *)
(* filled in by the route.                                                 *)

LegShape == [asset : STRING, amount : Int]
PaymentShape == [asset : STRING, amount : Int, to : STRING]
Ids == Seq(STRING)

RequestShape ==
  [intent : {"transfer"}, fee : Int, asset : STRING, amount : Int, to : STRING]
  \cup [intent : {"offer_make"}, fee : Int, offered : Seq(LegShape),
        requested : Seq(LegShape), receive : STRING]
  \cup [intent : {"offer_take"}, fee : Int, offer : OfferIds, give : {<<>>}, get : {<<>>}]
  \cup [intent : {"offer_cancel"}, fee : Int, ids : Seq(OfferIds)]
  \cup [intent : {"nft_mint"}, fee : Int, did : STRING,
        mints : Seq([royalty : Int, unknownField : BOOLEAN])]
  \cup [intent : {"nft_assign_did"}, fee : Int, ids : Ids, did : STRING]
  \cup [intent : {"did_transfer", "did_normalize", "option_transfer"},
        fee : Int, ids : Ids, clawback : Int]
  \cup [intent : {"option_mint"}, fee : Int, underlying : LegShape,
        strike : LegShape, expiration : Int]
  \cup [intent : {"option_exercise"}, fee : Int, ids : Ids, strikeLegs : {<<>>}]
  \cup [intent : {"did_create"}, fee : Int, name : STRING]
  \cup [intent : {"cat_issue"}, fee : Int, name : STRING, amount : Int]
  \cup [intent : {"clawback_finalize", "coin_combine"}, fee : Int, ids : Ids]
  \cup [intent : {"coin_split"}, fee : Int, ids : Ids, count : Int]
  \cup [intent : {"coin_autocombine"}, fee : Int, asset : STRING, count : Int]
  \cup [intent : {"bulk_send"}, fee : Int, asset : STRING, amount : Int, addresses : Ids]
  \cup [intent : {"multi_send"}, fee : Int, payments : Seq(PaymentShape)]

SideShape == Seq([asset : STRING, amount : Int, royalty : Int, kind : STRING])

WalletShape ==
  [xch : Nat, cats : [Cats -> Nat], nfts : SUBSET Nfts, dids : SUBSET Dids,
   options : SUBSET Options, strikes : [Options -> LegShape],
   offers : [OfferIds -> [status : STRING, maker : SideShape, taker : SideShape]]]

-----------------------------------------------------------------------------
(* Assets and legs                                                         *)

AssetKind(a) == CASE a = "native" -> "native"
                  [] a \in DOMAIN Lower -> "cat"
                  [] a \in DOMAIN Launcher -> "nft"
                  [] OTHER -> "malformed"

\* The asset as an intent names it, and as the chain does.
Named(a) == IF AssetKind(a) = "cat" THEN Lower[a] ELSE a
Actual(a) == IF a \in DOMAIN Lower THEN Lower[a] ELSE a

Leg(a, n) == [asset |-> a, amount |-> n]
FeeLeg(fee) == IF fee = 0 THEN <<>> ELSE <<Leg("native", fee)>>

AssetsOf(legs) == {legs[i].asset : i \in DOMAIN legs}
TotalOf(legs, a) ==
  SumFunction([i \in {j \in DOMAIN legs : legs[j].asset = a} |-> legs[i].amount])

\* _merge_legs
Merge(legs) == LET assets == SetToSeq(AssetsOf(legs))
               IN  [i \in DOMAIN assets |-> Leg(assets[i], TotalOf(legs, assets[i]))]

NoneTwice(legs) == Cardinality(AssetsOf(legs)) = Len(legs)

\* _validate_offer_legs
OfferLegs(asked) ==
  LET legs == [i \in DOMAIN asked |-> Leg(Named(asked[i].asset), asked[i].amount)]
      Fits(l) == /\ AssetKind(l.asset) # "malformed"
                 /\ l.amount > 0
                 /\ AssetKind(l.asset) = "nft" => l.amount = 1
  IN  {ls \in {legs} : /\ ls # <<>>
                       /\ \A i \in DOMAIN ls : Fits(ls[i])
                       /\ NoneTwice(ls)}

\* _resolve_offer_nft_legs
Resolved(legs, w) ==
  LET Refs == {a \in AssetsOf(legs) : AssetKind(a) = "nft"}
      Owned == \A r \in Refs : Launcher[r] \in w.nfts
  IN  {[i \in DOMAIN ls |-> Leg(IF ls[i].asset \in Refs THEN Launcher[ls[i].asset]
                                ELSE ls[i].asset, ls[i].amount)] :
         ls \in {x \in {legs} : Owned}}

\* _summary_legs: a side of an offer as Sage reports it.
SummaryLegs(legs, side) ==
  LET Pays(l) == IF side = "taker" THEN l.amount + l.royalty ELSE l.amount
  IN  {ls \in {[i \in DOMAIN legs |-> Leg(legs[i].asset, Pays(legs[i]))]} :
         /\ \A i \in DOMAIN legs : /\ legs[i].kind \in {"token", "nft"}
                                   /\ ls[i].amount > 0
         /\ NoneTwice(ls)}

\* _check_offer_balances
Funded(legs, fee, w) ==
  /\ \A a \in AssetsOf(legs) : a \in Nfts => a \in w.nfts
  /\ \A a \in AssetsOf(legs) \cap Cats : TotalOf(legs, a) <= w.cats[a]
  /\ TotalOf(legs, "native") + fee <= w.xch

\* _option_strike_legs: what exercising the options costs, by Sage's records.
StrikeLegs(ids, w) ==
  LET legs == [i \in DOMAIN ids |-> w.strikes[ids[i]]]
  IN  {Merge([i \in DOMAIN ls |-> Leg(ls[i].asset, ls[i].amount)]) :
         ls \in {x \in {legs} : \A i \in DOMAIN ids :
                   /\ ids[i] \in w.options
                   /\ x[i].asset \in Cats \cup {"native"}
                   /\ x[i].amount > 0}}

-----------------------------------------------------------------------------
(* What a request is checked for                                           *)

\* _chia_offer_guards
Guards(p) == p.fee \in 0 .. MaxFee

ListOf(xs, Set) == xs # <<>> /\ ToSet(xs) \subseteq Set

\* _validate_nft_mint
ValidMint(m) == m.royalty \in 0 .. 10000 /\ ~m.unknownField

\* _validated_did_ids, _validated_option_ids, _validated_coin_ids
DidIds(p) == ListOf(p.ids, Dids)
OptionIds(p) == ListOf(p.ids, Options)
CoinIds(p) == ListOf(p.ids, Coins)

Fungible(leg) == AssetKind(leg.asset) \in {"native", "cat"} /\ leg.amount > 0

\* The own checks of rt_nft_mint to rt_multi_send.
NftMint(p) == /\ p.mints # <<>>
              /\ \A i \in DOMAIN p.mints : ValidMint(p.mints[i])
              /\ p.did \in Dids
NftAssignDid(p) == ListOf(p.ids, DOMAIN Launcher) /\ p.did \in Dids \cup {"none"}
DidCreate(p) == p.name # ""
DidTransfer(p) == DidIds(p) /\ p.clawback > 0
DidNormalize(p) == DidIds(p)
OptionMint(p) == Fungible(p.underlying) /\ Fungible(p.strike) /\ p.expiration > 0
OptionTransfer(p) == OptionIds(p) /\ p.clawback > 0
OptionExercise(p) == OptionIds(p)
CatIssue(p) == p.name # "" /\ p.amount > 0
ClawbackFinalize(p) == CoinIds(p)
CoinCombine(p) == CoinIds(p)
CoinSplit(p) == CoinIds(p) /\ p.count >= 2
CoinAutocombine(p) == AssetKind(p.asset) \in {"native", "cat"} /\ p.count >= 2
BulkSend(p) == p.addresses # <<>> /\ Fungible(p)
MultiSend(p) == /\ p.payments # <<>>
                /\ \A i \in DOMAIN p.payments : Fungible(p.payments[i])

Shaped(p) ==
  CASE p.intent = "nft_mint" -> NftMint(p)
    [] p.intent = "nft_assign_did" -> NftAssignDid(p)
    [] p.intent = "did_create" -> DidCreate(p)
    [] p.intent = "did_transfer" -> DidTransfer(p)
    [] p.intent = "did_normalize" -> DidNormalize(p)
    [] p.intent = "option_mint" -> OptionMint(p)
    [] p.intent = "option_transfer" -> OptionTransfer(p)
    [] p.intent = "cat_issue" -> CatIssue(p)
    [] p.intent = "clawback_finalize" -> ClawbackFinalize(p)
    [] p.intent = "coin_combine" -> CoinCombine(p)
    [] p.intent = "coin_split" -> CoinSplit(p)
    [] p.intent = "coin_autocombine" -> CoinAutocombine(p)
    [] p.intent = "bulk_send" -> BulkSend(p)
    [] p.intent = "multi_send" -> MultiSend(p)

\* rt_request_spend on a Chia chain.  The asset stays as it was spelled.
AskTransfer(p) ==
  {q \in {p} : /\ p.amount > 0
               /\ AssetKind(p.asset) # "malformed"
               /\ AssetKind(p.asset) = "nft" => p.amount = 1}

\* rt_offer_make, an offer that is not of XCH on both sides.
Offering(p, o, r) == [p EXCEPT !.offered = o, !.requested = r]

AskOfferMake(p, w) ==
  LET Side(asked) == UNION {Resolved(ls, w) : ls \in OfferLegs(asked)}
  IN  {Offering(p, sides[1], sides[2]) : sides \in Side(p.offered) \X Side(p.requested)}

MakeIsOurs(p) ==
  /\ Guards(p)
  /\ p.receive \in OwnAddresses
  /\ AssetsOf(p.offered) \cup AssetsOf(p.requested) # {"native"}

\* rt_offer_take, an offer that is not of XCH on both sides.
Taking(p, g, r) == [p EXCEPT !.give = g, !.get = r]

AskOfferTake(p, w) ==
  LET o == w.offers[p.offer]
  IN  {Taking(p, g, r) :
         g \in {x \in SummaryLegs(o.taker, "taker") :
                  Guards(p) /\ o.status \in Open /\ Funded(x, p.fee, w)},
         r \in SummaryLegs(o.maker, "maker")}

\* rt_offer_cancel, offers that Sage made.
AskOfferCancel(p, w) ==
  {q \in {p} : /\ Guards(p)
               /\ \A i \in DOMAIN p.ids :
                    /\ w.offers[p.ids[i]].status \in Open
                    /\ SummaryLegs(w.offers[p.ids[i]].maker, "maker") # {}}

\* rt_option_exercise
AskExercise(p, w) ==
  {[p EXCEPT !.strikeLegs = s] :
     s \in UNION {StrikeLegs(ids, w) : ids \in {x \in {p.ids} : Guards(p) /\ OptionExercise(p)}}}

\* The intent as it is queued names every CAT by its id in lower case.
NamedLegs(legs) == [i \in DOMAIN legs |-> [legs[i] EXCEPT !.asset = Named(@)]]
Normalized(p) ==
  CASE p.intent \in {"coin_autocombine", "bulk_send"} -> [p EXCEPT !.asset = Named(@)]
    [] p.intent = "option_mint" -> [p EXCEPT !.underlying.asset = Named(@),
                                             !.strike.asset = Named(@)]
    [] p.intent = "multi_send" -> [p EXCEPT !.payments = NamedLegs(@)]
    [] OTHER -> p

\* What a request is queued as: at most one intent.
Ask(p, w) ==
  CASE p.intent = "transfer" -> AskTransfer(p)
    [] p.intent = "offer_make" -> {q \in AskOfferMake(p, w) : MakeIsOurs(p)}
    [] p.intent = "offer_take" -> AskOfferTake(p, w)
    [] p.intent = "offer_cancel" -> AskOfferCancel(p, w)
    [] p.intent = "option_exercise" -> AskExercise(p, w)
    [] OTHER -> {Normalized(q) : q \in {x \in {p} : Guards(p) /\ Shaped(p)}}

-----------------------------------------------------------------------------
(* What policy judges and velocity counts: _velocity_entries               *)

Singles(ids) == [i \in DOMAIN ids |-> Leg(ids[i], 1)]
Paid(payments) == [i \in DOMAIN payments |-> Leg(payments[i].asset, payments[i].amount)]

Legs(p) ==
  LET fee == FeeLeg(p.fee)
      always == <<Leg("native", p.fee)>>
  IN  CASE p.intent = "offer_make" -> Merge(p.offered \o fee)
        [] p.intent = "offer_take" -> Merge(p.give \o fee)
        [] p.intent = "offer_cancel" -> <<>>
        [] p.intent = "option_exercise" -> Merge(fee \o p.strikeLegs \o Singles(p.ids))
        [] p.intent \in DOMAIN Moves -> Merge(fee \o Singles(p.ids))
        [] p.intent = "option_mint" -> Merge(always \o <<p.underlying>>)
        [] p.intent = "bulk_send" ->
             Merge(<<Leg(p.asset, Len(p.addresses) * p.amount)>> \o always)
        [] p.intent = "multi_send" -> Merge(Paid(p.payments) \o always)
        [] p.intent \in FeeOnly -> always
        [] p.intent = "transfer" -> <<Leg(p.asset, p.amount)>>

-----------------------------------------------------------------------------
(* What the execution checks again: _execute_*_via_sage, up to the call    *)

\* Mutant: the strike is not read again.
ExerciseUnread(p, w) == OptionIds(p) /\ ToSet(p.ids) \subseteq w.options

\* _execute_option_exercise_via_sage
ExerciseRuns(p, w) ==
  /\ OptionIds(p) /\ ToSet(p.ids) \subseteq w.options
  /\ \E now \in StrikeLegs(p.ids, w) : ToSet(now) = ToSet(p.strikeLegs)

\* _execute_offer_make_via_sage
MakeRuns(p, w) ==
  /\ OfferLegs(p.offered) # {} /\ OfferLegs(p.requested) # {}
  /\ Funded(p.offered, p.fee, w)

\* _execute_offer_take_via_sage
TakeRuns(p, w) ==
  /\ w.offers[p.offer].status \in Open
  /\ SummaryLegs(w.offers[p.offer].taker, "taker") = {p.give}
  /\ SummaryLegs(w.offers[p.offer].maker, "maker") = {p.get}
  /\ Funded(p.give, p.fee, w)

\* _execute_offer_cancel_via_sage
CancelRuns(p, w) == \A i \in DOMAIN p.ids : w.offers[p.ids[i]].status \in Open

\* _execute_chia_cat_spend_via_sage
CatTransferRuns(p, w) == w.cats[Lower[p.asset]] >= p.amount /\ w.xch >= ConfiguredFee

\* _execute_chia_nft_spend_via_sage.  The NFT is not looked for: Sage refuses
\* one that it does not have.
NftTransferRuns(p, w) == p.amount = 1 /\ w.xch >= ConfiguredFee

\* _execute_chia_spend_via_sage, _chia_sage_guards
TransferRuns(p, w) ==
  /\ p.to \in NetworkAddresses
  /\ CASE AssetKind(p.asset) = "native" -> w.xch >= p.amount + ConfiguredFee
       [] AssetKind(p.asset) = "cat" -> CatTransferRuns(p, w)
       [] AssetKind(p.asset) = "nft" -> NftTransferRuns(p, w)

\* The other executions: _execute_nft_mint_via_sage and those after it.
NftMintRuns(p, w) == NftMint(p) /\ p.did \in w.dids
NftAssignDidRuns(p, w) == /\ \A i \in DOMAIN p.ids : Launcher[p.ids[i]] \in w.nfts
                          /\ p.did \in w.dids \cup {"none"}
DidTransferRuns(p, w) == DidIds(p) /\ ToSet(p.ids) \subseteq w.dids
DidNormalizeRuns(p, w) == DidIds(p) /\ ToSet(p.ids) \subseteq w.dids
OptionTransferRuns(p, w) == OptionIds(p) /\ ToSet(p.ids) \subseteq w.options
OptionMintRuns(p, w) == OptionMint(p)
DidCreateRuns(p, w) == DidCreate(p)
CatIssueRuns(p, w) == CatIssue(p)
ClawbackRuns(p, w) == ClawbackFinalize(p)
CombineRuns(p, w) == CoinCombine(p)
SplitRuns(p, w) == CoinSplit(p)
AutocombineRuns(p, w) == CoinAutocombine(p)
BulkSendRuns(p, w) == BulkSend(p)
MultiSendRuns(p, w) == MultiSend(p)

\* _execute_chia_spend, without the mint gate: MintGate has that.
Runs(p, w) ==
  /\ p.intent # "transfer" => Guards(p)
  /\ CASE p.intent = "transfer" -> TransferRuns(p, w)
       [] p.intent = "offer_make" -> MakeRuns(p, w)
       [] p.intent = "offer_take" -> TakeRuns(p, w)
       [] p.intent = "offer_cancel" -> CancelRuns(p, w)
       [] p.intent = "nft_mint" -> NftMintRuns(p, w)
       [] p.intent = "nft_assign_did" -> NftAssignDidRuns(p, w)
       [] p.intent = "did_create" -> DidCreateRuns(p, w)
       [] p.intent = "did_transfer" -> DidTransferRuns(p, w)
       [] p.intent = "did_normalize" -> DidNormalizeRuns(p, w)
       [] p.intent = "option_mint" -> OptionMintRuns(p, w)
       [] p.intent = "option_transfer" -> OptionTransferRuns(p, w)
       [] p.intent = "option_exercise" -> ExerciseRuns(p, w)
       [] p.intent = "cat_issue" -> CatIssueRuns(p, w)
       [] p.intent = "clawback_finalize" -> ClawbackRuns(p, w)
       [] p.intent = "coin_combine" -> CombineRuns(p, w)
       [] p.intent = "coin_split" -> SplitRuns(p, w)
       [] p.intent = "coin_autocombine" -> AutocombineRuns(p, w)
       [] p.intent = "bulk_send" -> BulkSendRuns(p, w)
       [] p.intent = "multi_send" -> MultiSendRuns(p, w)

-----------------------------------------------------------------------------
(* What Sage takes out of the wallet for a call it carries out             *)

\* The mojos of XCH that become the coins a creation makes: those of an issued
\* CAT, and one of every singleton.
Created(p) == CASE p.intent = "cat_issue" -> p.amount
                [] p.intent = "nft_mint" -> Len(p.mints)
                [] p.intent \in {"did_create", "option_mint"} -> 1
                [] OTHER -> 0

\* An NFT leaves under the reference by which it was asked for.
Outgoing(p, w) ==
  LET fee == FeeLeg(p.fee)
      made == FeeLeg(p.fee + Created(p))
      Strikes == [i \in DOMAIN p.ids |-> w.strikes[p.ids[i]]]
      Asked(o) == [i \in DOMAIN o.taker |-> Leg(o.taker[i].asset,
                                                 o.taker[i].amount + o.taker[i].royalty)]
  IN  CASE p.intent = "transfer" -> <<Leg(Actual(p.asset), p.amount)>> \o FeeLeg(ConfiguredFee)
        [] p.intent = "offer_make" -> p.offered \o fee
        [] p.intent = "offer_take" -> Asked(w.offers[p.offer]) \o fee
        [] p.intent = "option_exercise" -> Strikes \o Singles(p.ids) \o fee
        [] p.intent \in DOMAIN Moves -> Singles(p.ids) \o fee
        [] p.intent = "option_mint" ->
             <<Leg(Actual(p.underlying.asset), p.underlying.amount)>> \o made
        [] p.intent = "bulk_send" ->
             [i \in DOMAIN p.addresses |-> Leg(Actual(p.asset), p.amount)] \o fee
        [] p.intent = "multi_send" ->
             [i \in DOMAIN p.payments |-> Leg(Actual(p.payments[i].asset),
                                              p.payments[i].amount)] \o fee
        [] OTHER -> made

\* The coins that a transaction of p creates for the addresses p names, by the
\* id of the CAT or NFT; the change that goes back to the wallet is left out.
CoinAsset(a) == IF a \in DOMAIN Launcher THEN Launcher[a] ELSE Actual(a)
Coin(a, n, to) == [asset |-> CoinAsset(a), amount |-> n, to |-> to]
CoinsOf(p) ==
  CASE p.intent = "transfer" -> {Coin(p.asset, p.amount, p.to)}
    [] p.intent = "bulk_send" -> {Coin(p.asset, p.amount, to) : to \in ToSet(p.addresses)}
    [] p.intent = "multi_send" ->
         {Coin(p.payments[i].asset, p.payments[i].amount, p.payments[i].to) :
            i \in DOMAIN p.payments}
    [] p.intent = "nft_assign_did" ->
         {Coin(r, 1, to) : r \in ToSet(p.ids), to \in OwnAddresses}
    [] OTHER -> {}

\* Sage refuses what the wallet does not hold.
Payable(legs, w) ==
  /\ TotalOf(legs, "native") <= w.xch
  /\ \A a \in AssetsOf(legs) \cap Cats : TotalOf(legs, a) <= w.cats[a]
  /\ \A a \in AssetsOf(legs) \cap DOMAIN Launcher : Launcher[a] \in w.nfts
  /\ AssetsOf(legs) \cap Options \subseteq w.options
  /\ AssetsOf(legs) \cap Dids \subseteq w.dids

\* How an execution learns that its transaction is on chain.
Watches(p) == CASE p.intent = "transfer" -> IF AssetKind(p.asset) = "nft" THEN "nft" ELSE "payment"
                [] p.intent = "offer_make" -> "nothing"
                [] p.intent = "offer_take" -> "pending"
                [] p.intent = "offer_cancel" -> "offers"
                [] OTHER -> "inputs"
=============================================================================

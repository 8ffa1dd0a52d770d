------------------------------ MODULE MCWallets ------------------------------
(***************************************************************************)
(* Small instances of the wallets: the seeds of MCSeeds, and SageWallet,   *)
(* to which the seed is imported.  A behaviour is of one part.             *)
(***************************************************************************)
EXTENDS SageWallet, MCSeeds

(***************************************************************************)
(* Sage: a small wallet, two CATs, one of them in two spellings, one of    *)
(* every singleton, and a request of every intent, with those that differ  *)
(* in what its guards look at.                                             *)
(***************************************************************************)
MCLower == [c |-> "c", C |-> "c", d |-> "d"]
MCLauncher == [nft |-> "nft", coinOfNft |-> "nft"]

Xch(n) == Leg("native", n)
Pay(a, n, to) == [asset |-> a, amount |-> n, to |-> to]
OfferOf(maker, taker, royalty) ==
  [status |-> "active",
   maker |-> <<[asset |-> maker, amount |-> 1, royalty |-> 0, kind |-> "token"]>>,
   taker |-> <<[asset |-> taker, amount |-> 1, royalty |-> royalty, kind |-> "token"]>>]

MCHoldings ==
  {[xch |-> 4, cats |-> [c |-> 4, d |-> 0], nfts |-> {"nft"}, dids |-> {"did"},
    options |-> {"option"}, strikes |-> [option |-> Leg("c", 1)],
    offers |-> [ours |-> OfferOf("c", "native", 0), theirs |-> OfferOf("c", "native", 1)]]}

Fee == {0, 1, 2}
Transfer(a, n, to) == [intent |-> "transfer", asset |-> a, amount |-> n, to |-> to, fee |-> 0]

Payments == {Transfer(a, 1, "payee") : a \in {"native", "c", "C", "d", "coinOfNft", "junk"}}
            \cup {Transfer(a, 0, "payee") : a \in {"native", "nft"}}
            \cup {Transfer("native", 1, "elsewhere"), Transfer("nft", 1, "own")}

Surface ==
  {[intent |-> "offer_make", fee |-> 1, offered |-> <<Leg("c", 1), Leg(a, 1)>>,
    requested |-> <<Xch(1)>>, receive |-> "own"] : a \in {"native", "C", "nft"}}
  \cup {[intent |-> "offer_make", fee |-> 1, offered |-> <<Leg("c", 1)>>,
         requested |-> <<Xch(1)>>, receive |-> "payee"]}
  \cup {[intent |-> "offer_take", fee |-> f, offer |-> "theirs", give |-> <<>>, get |-> <<>>] :
       f \in Fee}
  \cup {[intent |-> "offer_cancel", fee |-> f, ids |-> <<"ours">>] : f \in {1, 2}}
  \cup {[intent |-> "nft_mint", fee |-> 1, did |-> "did",
         mints |-> <<[royalty |-> n, unknownField |-> FALSE]>>] : n \in {10000, 10001}}
  \cup {[intent |-> "nft_assign_did", fee |-> 1, ids |-> <<"coinOfNft">>, did |-> d] :
       d \in {"did", "none", "junk"}}
  \cup {[intent |-> "did_transfer", fee |-> 1, ids |-> ids, clawback |-> 1] :
       ids \in {<<>>, <<"did">>}}
  \cup {[intent |-> "did_normalize", fee |-> 1, ids |-> <<"did">>, clawback |-> 1]}
  \cup {[intent |-> "option_transfer", fee |-> 1, ids |-> <<"option">>, clawback |-> n] :
       n \in {0, 1}}
  \cup {[intent |-> "option_exercise", fee |-> f, ids |-> <<"option">>, strikeLegs |-> <<>>] :
       f \in {0, 1}}
  \cup {[intent |-> "option_mint", fee |-> 1, underlying |-> u, strike |-> Leg("d", 1), expiration |-> 1] :
       u \in {Xch(1), Leg("C", 1), Leg("nft", 1)}}
  \cup {[intent |-> "cat_issue", fee |-> 1, name |-> "n", amount |-> 2], [intent |-> "did_create", fee |-> 1, name |-> "n"],
        [intent |-> "clawback_finalize", fee |-> 1, ids |-> <<"coin">>],
        [intent |-> "coin_combine", fee |-> 1, ids |-> <<"coin">>],
        [intent |-> "coin_split", fee |-> 1, ids |-> <<"coin">>, count |-> 1],
        [intent |-> "coin_split", fee |-> 1, ids |-> <<"coin">>, count |-> 2]}
  \cup {[intent |-> "coin_autocombine", fee |-> 1, asset |-> a, count |-> 2] : a \in {"native", "C"}}
  \cup {[intent |-> "bulk_send", fee |-> 1, asset |-> a, addresses |-> <<"payee", "own">>,
         amount |-> 1] : a \in {"native", "C", "nft"}}
  \cup {[intent |-> "multi_send", fee |-> 1,
         payments |-> <<Pay("C", 1, "payee"), Pay("c", 1, "payee"), Pay("native", 1, "own")>>]}

MCBodies == Payments \cup Surface

-----------------------------------------------------------------------------
ASSUME SageIntentsAssumption /\ SageWalletAssumption /\ SeedsAssumption

SageAway ==
  /\ listener = "none" /\ imported = FALSE /\ selected = "none" /\ wallet = "none"
  /\ pc = "idle" /\ job = NoJob /\ queue = {} /\ txs = <<>> /\ ledger = <<>>
  /\ overtaken = {}
  /\ clock = 0 /\ asked = 0 /\ trouble = 0

Init == \/ SeedsInit /\ SageAway
        \/ part = "sage" /\ SageInit /\ CustodyAway /\ SealAway

Next == \/ SeedsNext /\ UNCHANGED sageVars
        \/ part = "sage" /\ SageNext /\ UNCHANGED seedsVars

Spec == Init /\ [][Next]_<<seedsVars, sageVars>>
=============================================================================

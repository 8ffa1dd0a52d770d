------------------------------ MODULE ForgeSwap ------------------------------
(***************************************************************************)
(* forge_swap and forge_status (daemon.py, rt_forge_swap,                  *)
(* _execute_forge_swap, rt_forge_status; forge.py).  The daemon quotes     *)
(* from the router in its configuration, waits for the human, quotes       *)
(* again, has Sage make an offer, writes forge_open.json, and posts the    *)
(* offer twice: as a rehearsal, then live.  From the rehearsal on the      *)
(* offer is in the hands of the router, which fills it when it likes.      *)
(*                                                                         *)
(* Around the daemon the operator changes the configured router, the human *)
(* cancels offers, the file may become unreadable, and the daemon may stop *)
(* between any two steps.                                                  *)
(***************************************************************************)
EXTENDS Integers, Sequences, FiniteSets

CONSTANTS
  Assets,        \* what a request may name
  Kind,          \* the kind of each: "native", "cat" or "nft"
  Amounts, Fees, Costs,
  Routers,       \* origins the operator may configure
  RoutesFor,     \* what a route may pay for an amount (ForgeRoutes)
  MaxFee,        \* chia.forge_max_fee_mojos
  Ttl,           \* _forge_offer_ttl
  Lag,           \* how far the clock of the chain is behind the daemon's
  MaxAsked, MaxOffers, MaxForgeClock, MaxForgeTrouble  \* bounds

ForgeSwapAssumption ==
  /\ Kind \in [Assets -> {"native", "cat", "nft"}]
  /\ Ttl \in Nat \ {0}
  /\ {MaxFee, Lag, MaxAsked, MaxOffers, MaxForgeClock, MaxForgeTrouble} \subseteq Nat

VARIABLES
  router,        \* the origin configured now
  forgePc, swap, \* the handler: what it does next, for which approved swap
  queue,         \* requests that wait for the human
  offers,        \* what Sage made
  openFile,      \* forge_open.json
  rows,          \* the last ledger row of each request that was approved
  forgeCounted,  \* requests that velocity counts
  forgeClock, asked, forgeTrouble,
  lost           \* history: forge_open.json could not be read

daemon == <<forgePc, swap>>
records == <<openFile, rows, forgeCounted>>
world == <<router, forgeClock, forgeTrouble, lost>>
forgeVars == <<daemon, queue, offers, records, asked, world>>

NoSwap == [id |-> 0]

ForgeInit ==
  /\ router \in Routers
  /\ forgePc = "idle" /\ swap = NoSwap
  /\ queue = {} /\ offers = <<>> /\ openFile = {}
  /\ rows = <<>> /\ forgeCounted = {}
  /\ forgeClock = 0 /\ asked = 0 /\ forgeTrouble = 0 /\ lost = FALSE

-----------------------------------------------------------------------------
(* forge_open.json                                                         *)

Unexpired(entries) == {e \in entries : e.expires > forgeClock}

\* _forge_refuse_if_open
PairIsFree(s) ==
  \A e \in Unexpired(openFile) : <<e.give, e.take>> # <<s.give, s.take>>

\* _forge_mark_settled
MarkSettled(o) == {e \in Unexpired(openFile) : e.offer # o}

-----------------------------------------------------------------------------
(* The request                                                             *)

\* _forge_asset
Tradeable(a) == Kind[a] # "nft"

\* _chia_offer_guards(forge=True) and the checks of rt_forge_swap.
Guards(s) ==
  /\ s.fee <= MaxFee /\ s.fee > 0
  /\ Tradeable(s.give) /\ Tradeable(s.take) /\ s.give # s.take
  /\ s.amount > 0 /\ s.min > 0

Swaps == [give : Assets, take : Assets, amount : Amounts, min : Amounts, fee : Fees]

\* rt_forge_swap.  Policy may deny it, and never lets it run without the human.
Request(s) ==
  /\ forgePc = "idle" /\ asked < MaxAsked
  /\ Guards(s) /\ PairIsFree(s)
  /\ \E out \in RoutesFor[s.amount] : out >= s.min
  /\ asked' = asked + 1
  /\ queue' = queue \cup {[id |-> asked', s |-> s, shown |-> router]}
  /\ openFile' = Unexpired(openFile)
  /\ UNCHANGED <<daemon, offers, rows, forgeCounted, world>>

\* rt_queue_approve: the item leaves the queue, the ledger says "executing".
ApproveSwap ==
  /\ forgePc = "idle"
  /\ \E item \in queue :
       /\ queue' = queue \ {item}
       /\ swap' = item
       /\ rows' = [i \in DOMAIN rows \cup {item.id} |->
                     IF i = item.id THEN "executing" ELSE rows[i]]
  /\ forgePc' = "quote"
  /\ UNCHANGED <<offers, openFile, forgeCounted, asked, world>>

-----------------------------------------------------------------------------
(* The execution                                                           *)

This == swap.s

ForgeEnded(row) ==
  /\ forgePc' = "idle" /\ swap' = NoSwap
  /\ rows' = [rows EXCEPT ![swap.id] = row]
  /\ forgeCounted' = IF row = "failed" THEN forgeCounted ELSE forgeCounted \cup {swap.id}

\* chia.SageError: nothing left the machine.
ForgeFail == ForgeEnded("failed") /\ UNCHANGED openFile

\* Mutant: what the second quote pays is not compared with the minimum.
MayOfferAtAnyPrice(out) == PairIsFree(This) /\ router = swap.shown

\* No open offer of the pair; the router of the moment is the one that was
\* shown, and still pays the minimum.
MayOffer(out) == PairIsFree(This) /\ router = swap.shown /\ out >= This.min

\* _execute_forge_swap up to the offer: a fresh route, or a refusal.
Quote ==
  /\ forgePc = "quote"
  /\ \/ /\ \E out \in RoutesFor[This.amount] :
             /\ MayOffer(out)
             /\ swap' = [id |-> swap.id, s |-> This, shown |-> swap.shown, out |-> out]
        /\ forgePc' = "make"
        /\ UNCHANGED records
     \/ ForgeFail
  /\ UNCHANGED <<queue, offers, asked, world>>

\* _check_offer_balances, then Sage's make_offer: it makes the offer and the
\* answer arrives, or the answer is lost, or it makes none.
Make ==
  LET made == [id |-> swap.id, give |-> This.give, take |-> This.take,
               amount |-> This.amount, ask |-> swap.out, expires |-> forgeClock + Ttl,
               sentTo |-> {}, state |-> "open"]
  IN
  /\ forgePc = "make"
  /\ \/ /\ Len(offers) < MaxOffers
        /\ offers' = Append(offers, made)
        /\ \/ forgePc' = "mark" /\ UNCHANGED <<swap, records>>
           \/ ForgeFail
     \/ ForgeFail /\ UNCHANGED offers
  /\ UNCHANGED <<queue, asked, world>>

Last == Len(offers)

\* _forge_mark_open, before the offer leaves.  When the file cannot be
\* written the handler dies of it, and the row stays "executing".
MarkOpen ==
  /\ forgePc = "mark"
  /\ \/ /\ openFile' = Unexpired(openFile) \cup
             {[offer |-> Last, give |-> This.give, take |-> This.take,
               expires |-> offers[Last].expires]}
        /\ forgePc' = "rehearse" /\ UNCHANGED swap
     \/ forgePc' = "idle" /\ swap' = NoSwap /\ UNCHANGED openFile
  /\ UNCHANGED <<queue, offers, rows, forgeCounted, asked, world>>

\* The offer is in the hands of the router that was quoted.
ForgeSent == offers' = [offers EXCEPT ![Last].sentTo = @ \cup {swap.shown}]

\* Mutant: a refusal of the router is a definite failure.
RehearseRefusedIsFailed ==
  /\ forgePc = "rehearse"
  /\ ForgeSent
  /\ \/ /\ \E cost \in Costs : This.fee >= 5 * cost
        /\ forgePc' = "settle"
        /\ UNCHANGED <<swap, rows, forgeCounted>>
     \/ ForgeEnded("failed")
  /\ UNCHANGED <<queue, openFile, asked, world>>

\* settle(dry_run=True): accepted at a cost that the fee covers, or unknown().
Rehearse ==
  /\ forgePc = "rehearse"
  /\ ForgeSent
  /\ \/ /\ \E cost \in Costs : This.fee >= 5 * cost
        /\ forgePc' = "settle"
        /\ UNCHANGED <<swap, rows, forgeCounted>>
     \/ ForgeEnded("unknown")
  /\ UNCHANGED <<queue, openFile, asked, world>>

\* settle(dry_run=False), once: a transaction id, or unknown().
Settle ==
  /\ forgePc = "settle"
  /\ \E row \in {"approved", "unknown"} : ForgeEnded(row)
  /\ UNCHANGED <<queue, offers, openFile, asked, world>>

ForgeCrash ==
  /\ forgePc # "idle"
  /\ forgeTrouble < MaxForgeTrouble /\ forgeTrouble' = forgeTrouble + 1
  /\ forgePc' = "idle" /\ swap' = NoSwap
  /\ UNCHANGED <<queue, offers, records, asked, router, forgeClock, lost>>

-----------------------------------------------------------------------------
(* forge_status                                                            *)

\* What Sage says of an offer: it may be behind the chain.
SageStatus(o) ==
  {"active"} \cup CASE offers[o].state = "filled" -> {"completed"}
                    [] offers[o].state = "cancelled" -> {"cancelled"}
                    [] offers[o].expires <= forgeClock -> {"expired"}
                    [] OTHER -> {}

\* Mutant: the pool coins that the router watched are spent, by any trader.
StatusByTips(o) ==
  /\ forgePc = "idle"
  /\ \E tipsSpent \in BOOLEAN, status \in SageStatus(o) :
       openFile' = IF tipsSpent \/ status # "active" THEN MarkSettled(o) ELSE openFile
  /\ UNCHANGED <<daemon, queue, offers, rows, forgeCounted, asked, world>>

\* rt_forge_status: Sage's status decides; what the router says of the pools is
\* passed on.
Status(o) ==
  /\ forgePc = "idle"
  /\ \E tipsSpent \in BOOLEAN, status \in SageStatus(o) :
       openFile' = IF status # "active" THEN MarkSettled(o) ELSE openFile
  /\ UNCHANGED <<daemon, queue, offers, rows, forgeCounted, asked, world>>

-----------------------------------------------------------------------------
(* The others                                                              *)

Close(o, state) == offers' = [offers EXCEPT ![o].state = state]

\* The chain refuses an offer at its expiry, by its own clock.
Fillable(o) ==
  /\ offers[o].state = "open" /\ offers[o].sentTo # {}
  /\ forgeClock - Lag < offers[o].expires

\* A router, or whoever it showed the offer to, takes it.
FillSwap(o) ==
  /\ Fillable(o)
  /\ Close(o, "filled")
  /\ UNCHANGED <<daemon, queue, records, asked, world>>

\* offer_cancel, which knows nothing of forge_open.json.
CancelOnChain(o) ==
  /\ forgePc = "idle" /\ offers[o].state = "open"
  /\ Close(o, "cancelled")
  /\ UNCHANGED <<daemon, queue, records, asked, world>>

\* The operator edits chia.forge_responders and restarts the daemon.
ConfigureRouter ==
  /\ forgePc = "idle"
  /\ forgeTrouble < MaxForgeTrouble /\ forgeTrouble' = forgeTrouble + 1
  /\ router' \in Routers \ {router}
  /\ UNCHANGED <<daemon, queue, offers, records, asked, forgeClock, lost>>

\* An unreadable file counts as empty (_forge_open_offers).
LoseFile ==
  /\ forgeTrouble < MaxForgeTrouble /\ forgeTrouble' = forgeTrouble + 1
  /\ openFile # {} /\ openFile' = {} /\ lost' = TRUE
  /\ UNCHANGED <<daemon, queue, offers, rows, forgeCounted, asked, router, forgeClock>>

ForgeTick ==
  /\ forgeClock < MaxForgeClock /\ forgeClock' = forgeClock + 1
  /\ UNCHANGED <<daemon, queue, offers, records, asked, router, forgeTrouble, lost>>

ForgeNext ==
  \/ (\E s \in Swaps : Request(s)) \/ ApproveSwap
  \/ Quote \/ Make \/ MarkOpen \/ Rehearse \/ Settle \/ ForgeCrash
  \/ \E o \in DOMAIN offers : Status(o) \/ FillSwap(o) \/ CancelOnChain(o)
  \/ ConfigureRouter \/ LoseFile \/ ForgeTick

ForgeSpec == ForgeInit /\ [][ForgeNext]_forgeVars

-----------------------------------------------------------------------------
(* Properties                                                              *)

\* One unexpired offer of a pair can be filled at a time, as long as the file
\* can be read ("a second swap of the same pair is refused until it expires or
\* the human cancels it": the comment over _forge_open_offers).  An expired
\* one may be filled for as long as the chain's clock is behind.
OneOpenOfferPerPair ==
  lost \/ \A o1, o2 \in DOMAIN offers :
    /\ o1 # o2 /\ Fillable(o1) /\ Fillable(o2)
    /\ offers[o1].give = offers[o2].give /\ offers[o1].take = offers[o2].take
    => offers[o1].expires <= forgeClock \/ offers[o2].expires <= forgeClock

\* What leaves for a router is what was approved: its amount, at least its
\* minimum, at the router that was shown, and no other offer of it before.
\* What was approved is in swap while the execution runs, and the offer keeps
\* it from then on.
FillsWhatWasApproved ==
  \A o \in DOMAIN offers' :
    /\ offers'[o].sentTo # {} /\ (o \notin DOMAIN offers \/ offers[o].sentTo = {})
    => /\ offers'[o].sentTo = {swap.shown} /\ swap.shown = router
       /\ offers'[o].amount = This.amount /\ offers'[o].ask >= This.min
       /\ \A p \in DOMAIN offers \ {o} : offers[p].id # swap.id \/ offers[p].sentTo = {}

\* A swap that is filled is one that a human approved, on its terms and once
\* (_execute_forge_swap).
FilledAsApproved == [][FillsWhatWasApproved]_forgeVars

\* A swap that is filled is counted, or the ledger shows an execution that did
\* not end (_execute_forge_swap: every outcome short of a proven settle is
\* BroadcastUnknown).
FilledIsOnRecord ==
  \A o \in DOMAIN offers :
    offers[o].state = "filled" =>
      \/ offers[o].id \in forgeCounted
      \/ rows[offers[o].id] = "executing"
=============================================================================

---------------------------- MODULE SwapDecode ----------------------------
(***************************************************************************)
(* What the daemon makes of a venue's firm quote before it signs: the      *)
(* transaction is decoded and bound to the approved intent (dex.py,        *)
(* validate_swap_intent_against_quote and decode_swap_tx), and what the    *)
(* contracts then do with it.                                              *)
(*                                                                         *)
(* Calldata is the tree it decodes to.  Encodings that are not canonical   *)
(* are refused by the code and are no inputs here.  An intent is a record  *)
(* [venue, sell, buy, amount, min, deadline]; the wallet is the same.      *)
(***************************************************************************)
EXTENDS DexPins, Sequences, FiniteSets, SequencesExt

CONSTANTS
  Wrapped,   \* the token that wraps the native coin
  Settlers,  \* the genuine 0x settlers among Contracts
  MaxHops,   \* most hops of a decoded v4 swap
  Balance,   \* the amount that means "all the router holds"
  Slack      \* how much more than its minimum a pool may pay

ASSUME SwapAssumption ==
  /\ {"allowance_holder", "universal_router", "permit2"} \subseteq Roles
  /\ Wrapped \in Tokens /\ Settlers \subseteq Contracts
  /\ MaxHops \in Nat /\ Balance \in Nat /\ Slack \in Nat

Sender == "msg.sender"    \* the router's words for the wallet and for itself
Router == "address(this)"
ToWallet == {Sender, "wallet"}

-----------------------------------------------------------------------------
(* The intent                                                              *)

TargetRole(venue) ==
  IF venue = "uniswap" THEN "universal_router" ELSE "allowance_holder"
SpenderRole(venue) ==
  IF venue = "uniswap" THEN "permit2" ELSE "allowance_holder"

\* A key is needed where the venue has none of its own.
KeyAtHand(venue, keys) == venue \in {"matcha", "cast"} \cup keys

\* _validate_dex_swap, on requests of the right shape: a venue that serves
\* the chain, has its key and its target pinned; two tokens, positive bounds.
ValidSwap(p, venues, keys, over) ==
  /\ p.venue \in venues
  /\ KeyAtHand(p.venue, keys)
  /\ Primary(TargetRole(p.venue), over) # {}
  /\ p.sell # p.buy
  /\ p.amount > 0 /\ p.min > 0

\* rt_dex_swap: the one leg that policy and velocity see.
SwapLegs(p) == <<[asset |-> AssetKey(p.sell), amount |-> p.amount]>>

\* _dex_swap_checks: what the queue shows of the bounds, refusals as {}.
SwapChecks(p, over) ==
  [targets |-> IF Primary(TargetRole(p.venue), over) = {} THEN {}
               ELSE PinnedSet(TargetRole(p.venue), over),
   spender |-> IF IsNative(p.sell) THEN {}
               ELSE Primary(SpenderRole(p.venue), over)]

-----------------------------------------------------------------------------
(* The 0x AllowanceHolder                                                  *)

\* _decode_settler_execute
SettlerBound(c, p) ==
  /\ c.selector = "execute"
  /\ c.recipient = "wallet"
  /\ SameToken(c.buy, p.buy)
  /\ c.min >= p.min

\* _decode_allowance_holder: operator, token, amount, target and inner call.
\* Any other contract may be the target: the settler is not pinned.
HolderBound(c, p, to) ==
  /\ IF IsNative(p.sell)
     THEN IsNative(c.token) /\ c.amount \in {0, p.amount}
     ELSE c.token = p.sell /\ c.amount = p.amount
  /\ c.operator = c.target
  /\ c.target \notin ({p.sell, p.buy} \ Natives) \cup {"wallet", to, Zero}
  /\ SettlerBound(c.inner, p)

-----------------------------------------------------------------------------
(* The Universal Router                                                    *)

\* _v4_exact_in_single and _v4_exact_in: the ends of a swap.
V4In(a) == IF a.act = "multi" THEN a.from
           ELSE IF a.zeroForOne THEN a.c0 ELSE a.c1
V4Out(a) == IF a.act = "multi" THEN Last(a.path)
            ELSE IF a.zeroForOne THEN a.c1 ELSE a.c0
V4Swaps == {"single", "multi"}
V4Settles == {"settle", "settle_all"}
V4Takes == {"take", "take_all"}

SumOf(s, Value(_)) == SumFunction([i \in DOMAIN s |-> Value(s[i])])
SwapsOf(acts) == {i \in DOMAIN acts : acts[i].act \in V4Swaps}
V4AmountIn(acts) == SumFunction([i \in SwapsOf(acts) |-> acts[i].amount])
V4Minimum(acts) ==
  LET least == SumFunction([i \in SwapsOf(acts) |-> acts[i].min])
      all == {acts[i].min : i \in {j \in DOMAIN acts : acts[j].act = "take_all"}}
  IN  CHOOSE m \in {least} \cup all : \A n \in {least} \cup all : m >= n

\* Exact-input swaps first, then one settle and one take in either order.
V4Shape(acts) ==
  LET n == Len(acts) - 2 IN
  /\ n >= 1
  /\ \A i \in 1..n : acts[i].act \in V4Swaps
  /\ {acts[n + 1].act, acts[n + 2].act} \cap V4Settles # {}
  /\ {acts[n + 1].act, acts[n + 2].act} \cap V4Takes # {}

\* What each action of a V4_SWAP is held to.
V4ActBound(a, p, totalIn) ==
  CASE a.act \in V4Swaps ->
         /\ SameToken(V4In(a), p.sell) /\ SameToken(V4Out(a), p.buy)
         /\ a.amount # 0
         /\ a.act = "multi" => Len(a.path) \in 1..MaxHops
    [] a.act = "settle" ->
         /\ a.amount \in {0, totalIn}
         /\ IsNative(p.sell) \/ a.payerIsUser
         /\ SameToken(a.currency, p.sell)
    [] a.act = "settle_all" -> SameToken(a.currency, p.sell)
    [] a.act = "take" ->
         /\ a.recipient \in ToWallet
         /\ a.amount = 0
         /\ SameToken(a.currency, p.buy)
    [] a.act = "take_all" -> SameToken(a.currency, p.buy)
    [] OTHER -> FALSE

\* _decode_ur_v4_swap
V4Bound(acts, p) ==
  V4Shape(acts) /\ \A i \in DOMAIN acts : V4ActBound(acts[i], p, V4AmountIn(acts))

\* The commands that can be bounded, each with its conditions.
CommandBound(c, p) ==
  CASE c.op = "wrap" -> IsNative(p.sell) /\ c.recipient = Router
    [] c.op \in {"v2", "v3"} ->
         /\ Len(c.path) >= 2
         /\ c.payerIsUser => /\ ~IsNative(p.sell)
                             /\ c.path[1] = p.sell
                             /\ c.amount # Balance
         /\ c.recipient \in ToWallet => ~IsNative(p.buy) /\ Last(c.path) = p.buy
         /\ c.recipient \in ToWallet \cup {Router}
    [] c.op = "v4" -> V4Bound(c.acts, p)
    [] c.op = "sweep" ->
         c.recipient \in ToWallet /\ ~IsNative(p.buy) /\ c.token = p.buy
    [] c.op = "unwrap" -> c.recipient \in ToWallet /\ IsNative(p.buy)
    [] OTHER -> FALSE

\* What a command pulls from the wallet, takes of the tx value, guarantees.
Pulls(c, p) ==
  CASE c.op \in {"v2", "v3"} -> IF c.payerIsUser THEN c.amount ELSE 0
    [] c.op = "v4" -> IF IsNative(p.sell) THEN 0 ELSE V4AmountIn(c.acts)
    [] OTHER -> 0
Uses(c, p) ==
  CASE c.op = "wrap" -> c.amount
    [] c.op = "v4" -> IF IsNative(p.sell) THEN V4AmountIn(c.acts) ELSE 0
    [] OTHER -> 0
\* A mutation of Delivers: what goes to the router counts as delivered, and
\* again when it is swept.
DeliversTwice(c, p) ==
  CASE c.op \in {"v2", "v3"} -> c.min
    [] c.op = "v4" -> V4Minimum(c.acts)
    [] c.op \in {"sweep", "unwrap"} -> c.min
    [] OTHER -> 0

Delivers(c, p) ==
  CASE c.op \in {"v2", "v3"} -> IF c.recipient \in ToWallet THEN c.min ELSE 0
    [] c.op = "v4" -> V4Minimum(c.acts)
    [] c.op \in {"sweep", "unwrap"} -> c.min
    [] OTHER -> 0

\* A mutation of RouterBound: what is pulled may be less than the sell.
RouterBoundAtMost(cmds, p, value) ==
  /\ cmds # <<>>
  /\ \A i \in DOMAIN cmds : ~cmds[i].allowRevert /\ CommandBound(cmds[i], p)
  /\ SumOf(cmds, LAMBDA c : Uses(c, p) + Pulls(c, p)) <= p.amount
  /\ SumOf(cmds, LAMBDA c : Delivers(c, p)) >= p.min

\* _decode_universal_router
RouterBound(cmds, p, value) ==
  /\ cmds # <<>>
  /\ \A i \in DOMAIN cmds : ~cmds[i].allowRevert /\ CommandBound(cmds[i], p)
  /\ IF IsNative(p.sell)
     THEN /\ SumOf(cmds, LAMBDA c : Uses(c, p)) = p.amount
          /\ value = p.amount
     ELSE SumOf(cmds, LAMBDA c : Pulls(c, p)) = p.amount
  /\ SumOf(cmds, LAMBDA c : Delivers(c, p)) >= p.min

-----------------------------------------------------------------------------
(* The quote                                                               *)

\* decode_swap_tx: target, value, entry point, and the call itself.
TxBound(tx, p, over) ==
  /\ tx.to \in PinnedSet(TargetRole(p.venue), over)
  /\ tx.value = IF IsNative(p.sell) THEN p.amount ELSE 0
  /\ IF p.venue = "uniswap"
     THEN tx.call.selector \in {"ur.execute", "ur.execute.deadline"}
          /\ RouterBound(tx.call.commands, p, tx.value)
     ELSE tx.call.selector = "holder.exec" /\ HolderBound(tx.call, p, tx.to)

\* check_swap_approval and check_permit2_approval: exact, to a pinned
\* contract, of the sell token.
SwapApproval(spender, n, p, over) ==
  /\ spender \in Primary(SpenderRole(p.venue), over)
  /\ ~IsNative(p.sell) /\ n \in 1 .. p.amount
Permit2Approval(spender, n, p, over) ==
  /\ spender \in PinnedSet("universal_router", over)
  /\ ~IsNative(p.sell) /\ n \in 1 .. p.amount

\* The spender of a token sell: Uniswap need not name it.
QuotedSpender(q, p, over) ==
  IF p.venue = "uniswap" /\ q.spender = "none" THEN Primary("permit2", over)
  ELSE {q.spender}

\* validate_swap_intent_against_quote: the plan, {} for a refusal.
Plan(q, p, over) ==
  IF ~(/\ q.sell = p.sell /\ q.buy = p.buy
       /\ q.sellAmount = p.amount /\ q.buyAmount >= p.min
       /\ TxBound(q.tx, p, over))
  THEN {}
  ELSE IF IsNative(p.sell)
  THEN {[to |-> q.tx.to, value |-> q.tx.value, approve |-> {}, permit2 |-> {}]}
  ELSE {[to |-> q.tx.to, value |-> q.tx.value,
         approve |-> {[spender |-> s, amount |-> p.amount]},
         permit2 |-> IF p.venue = "uniswap"
                     THEN {[spender |-> q.tx.to, amount |-> p.amount]} ELSE {}] :
          s \in {t \in QuotedSpender(q, p, over) :
                   /\ SwapApproval(t, p.amount, p, over)
                   /\ p.venue = "uniswap" =>
                        Permit2Approval(q.tx.to, p.amount, p, over)}}

\* The tokens of a Uniswap quote are written over with those of the intent.
Normalized(q, p) ==
  IF p.venue = "uniswap" THEN [q EXCEPT !.sell = p.sell, !.buy = p.buy] ELSE q

\* _execute_evm_swap: the intent is checked again, the quote fetched, which
\* may take until q.at, and the plan's allowances are checked once more.
ExecuteSwap(q, p, venues, keys, over) ==
  IF /\ p.venue \in venues /\ KeyAtHand(p.venue, keys)
     /\ Primary(TargetRole(p.venue), over) # {}
     /\ p.deadline # 0 => q.at <= p.deadline
  THEN {plan \in Plan(Normalized(q, p), p, over) :
          /\ \A a \in plan.approve : SwapApproval(a.spender, a.amount, p, over)
          /\ \A a \in plan.permit2 :
               Permit2Approval(a.spender, a.amount, p, over) /\ a.spender = plan.to}
  ELSE {}

-----------------------------------------------------------------------------
(* The contracts, outside the code: every way the call may end that does   *)
(* not revert.  A state has what the wallet paid and got and what the      *)
(* router holds; the other spelling of the native coin is no contract.     *)

Live(t) == t = Zero \/ ~IsNative(t)
Start(value) ==
  [paid |-> [t \in Tokens |-> IF t = Zero THEN value ELSE 0],
   got |-> [t \in Tokens |-> 0],
   held |-> [t \in Tokens |-> IF t = Zero THEN value ELSE 0]]

\* n of token t goes to r, out of thin air or out of what the router holds.
Credit(s, t, n, r) ==
  IF r \in ToWallet THEN [s EXCEPT !.got[t] = @ + n]
  ELSE IF r = Router THEN [s EXCEPT !.held[t] = @ + n] ELSE s
Debit(s, t, n) == [s EXCEPT !.held[t] = @ - n]
Pull(s, t, n) == [s EXCEPT !.paid[t] = @ + n]

SwapOutcomes(s, in, out, n, min, user, r) ==
  IF ~Live(in) \/ ~Live(out) \/ (~user /\ n > s.held[in]) THEN {}
  ELSE {Credit(IF user THEN Pull(s, in, n) ELSE Debit(s, in, n), out, m, r) :
          m \in min .. min + Slack}

\* A V4_SWAP leaves no debt: its settle pays for all swaps, its take gets
\* all that they yield.
V4Outcomes(s, acts) ==
  LET some == acts[CHOOSE i \in SwapsOf(acts) : TRUE]
      in == V4In(some)
      out == V4Out(some)
      settle == CHOOSE a \in ToSet(acts) : a.act \in V4Settles
      user == in # Zero /\ (settle.act = "settle_all" \/ settle.payerIsUser)
      take == CHOOSE a \in ToSet(acts) : a.act \in V4Takes
  IN  IF \E i \in SwapsOf(acts) : {V4In(acts[i]), V4Out(acts[i])} # {in, out}
      THEN {}
      ELSE SwapOutcomes(s, in, out, V4AmountIn(acts), V4Minimum(acts), user,
                        IF take.act = "take" THEN take.recipient ELSE Sender)

CommandOutcomes(s, c) ==
  CASE c.op = "wrap" ->
         IF c.amount > s.held[Zero] THEN {}
         ELSE {Credit(Debit(s, Zero, c.amount), Wrapped, c.amount, c.recipient)}
    [] c.op \in {"v2", "v3"} ->
         LET n == IF c.amount = Balance THEN s.held[c.path[1]] ELSE c.amount
         IN  SwapOutcomes(s, c.path[1], Last(c.path), n, c.min, c.payerIsUser, c.recipient)
    [] c.op = "v4" -> V4Outcomes(s, c.acts)
    [] c.op = "sweep" ->
         IF ~Live(c.token) \/ s.held[c.token] < c.min THEN {}
         ELSE {Credit(Debit(s, c.token, s.held[c.token]), c.token,
                      s.held[c.token], c.recipient)}
    [] c.op = "unwrap" ->
         IF s.held[Wrapped] < c.min THEN {}
         ELSE {Credit(Debit(s, Wrapped, s.held[Wrapped]), Zero,
                      s.held[Wrapped], c.recipient)}

RouterOutcomes(cmds, value) ==
  LET after[k \in 0 .. Len(cmds)] ==
        IF k = 0 THEN {Start(value)}
        ELSE UNION {CommandOutcomes(s, cmds[k]) : s \in after[k - 1]}
  IN  after[Len(cmds)]

\* A settler enforces its minimum; the pair (operator, token, amount) is all
\* that another contract in its place may take.
HolderOutcomes(c, value) ==
  LET taken(n) == IF Live(c.token) /\ c.token # Zero
                  THEN Pull(Start(value), c.token, n) ELSE Start(value)
      coin == IF IsNative(c.inner.buy) THEN Zero ELSE c.inner.buy
  IN  {Credit(taken(n), coin, c.inner.min,
              IF c.target \in Settlers THEN c.inner.recipient ELSE "other") :
         n \in 0 .. c.amount}

Outcomes(tx) ==
  IF tx.call.selector = "holder.exec" THEN HolderOutcomes(tx.call, tx.value)
  ELSE RouterOutcomes(tx.call.commands, tx.value)

-----------------------------------------------------------------------------
(* Properties of a quote q for an intent p                                 *)

\* The contract that the call leaves the minimum to keeps minimums: a router
\* that is pinned, or a genuine settler.  The code pins no settler, and what
\* another contract in its place pays is up to that contract
\* (dex.SETTLER_REGISTRY; SPEC_V1.md S-20).
MinimumIsKept(q, p) == p.venue = "uniswap" \/ q.tx.call.target \in Settlers

\* Whatever pools and contracts do, an accepted transaction costs the wallet
\* the sell that was counted at most and nothing else; and where the contract
\* it calls keeps minimums, it reverts or pays the wallet the approved minimum
\* of what it buys (decode_swap_tx).
KeepsBounds(q, p, venues, keys, over) ==
  ExecuteSwap(q, p, venues, keys, over) # {} =>
    \A o \in Outcomes(q.tx) :
      /\ \A leg \in ToSet(SwapLegs(p)), t \in Tokens :
           o.paid[t] <= IF AssetKey(t) = leg.asset THEN leg.amount ELSE 0
      /\ MinimumIsKept(q, p) =>
           \E t \in Tokens : SameToken(t, p.buy) /\ o.got[t] >= p.min

\* The allowances raised for a swap go to the contracts that the queue shows.
\* The swap never draws more than was raised, of the token it sells; a router
\* draws the allowance to the last unit, the 0x holder may leave a part of it
\* to itself (validate_swap_intent_against_quote, check_swap_approval).
AllowancesFit(q, p, venues, keys, over) ==
  \A plan \in ExecuteSwap(q, p, venues, keys, over) :
    /\ plan.to \in SwapChecks(p, over).targets
    /\ \A a \in plan.approve :
         /\ a.spender \in SwapChecks(p, over).spender
         /\ \A o \in Outcomes(q.tx) :
              /\ o.paid[p.sell] <= a.amount
              /\ p.venue = "uniswap" => o.paid[p.sell] = a.amount
=============================================================================

----------------------------- MODULE EvmIntents -----------------------------
(***************************************************************************)
(* Liquidity and contract intents (daemon.py, _validate_dex_lp_* and       *)
(* _execute_evm_lp_*; dex.py, their builders and decoders): what a request *)
(* is checked for when it is queued, what it counts as in policy and       *)
(* velocity, and the approvals and the call that its execution, possibly   *)
(* hours and a restart later, makes of it.                                 *)
(*                                                                         *)
(* A refusal is the empty set, an acceptance a singleton.  Calldata is the *)
(* record it decodes to.  A request says which optional fields it carries  *)
(* beyond those its kind takes (extra) and has every other field.          *)
(***************************************************************************)
EXTENDS DexPins, Integers, Sequences

CONSTANTS
  U24, U48, U128, U256,  \* the least numbers too large for each width
  I24,                   \* ticks are representable in -I24 .. I24 - 1
  V3Fees,                \* the fee tiers of v3
  Soon, Lifetime         \* least time left for a call; time given by default

ASSUME WidthAssumption ==
  /\ {U24, U48, U128, U256, I24, Soon, Lifetime} \subseteq Nat
  /\ U128 <= U256 /\ Soon < Lifetime

LpRole(protocol) ==
  CASE protocol = "v2" -> "v2_router"
    [] protocol = "v3" -> "v3_position_manager"
    [] protocol = "v4" -> "v4_position_manager"

Sorted(a, b) == Rank[a] < Rank[b]
Tick(t) == t >= -I24 /\ t < I24

-----------------------------------------------------------------------------
(* What is queued                                                          *)

\* Optional fields that an operation refuses.
Foreign(op, protocol) ==
  CASE op = "add" /\ protocol = "v2" ->
         {"position_manager", "permit2", "tick_spacing", "hooks", "liquidity",
          "fee", "ticks"}
    [] op = "add" /\ protocol = "v3" ->
         {"position_manager", "permit2", "tick_spacing", "hooks", "liquidity"}
    [] op = "add" /\ protocol = "v4" -> {"router", "mins"}
    [] op = "remove" /\ protocol = "v2" -> {"position_manager", "token_id"}
    [] op = "remove" /\ protocol = "v3" -> {"position_manager", "pair"}
    [] op = "remove" /\ protocol = "v4" -> {"router", "pair"}
    [] op = "claim" /\ protocol = "v3" -> {"position_manager"}
    [] op = "claim" /\ protocol = "v4" -> {"router"}

\* _validate_dex_lp_add, its v2 and v3 branch.
AddBounds(r) ==
  /\ ~IsNative(r.a) /\ ~IsNative(r.b)
  /\ r.amountA > 0 /\ r.amountB > 0
  /\ r.minA \in 0 .. r.amountA /\ r.minB \in 0 .. r.amountB
  /\ r.protocol = "v3" => r.fee \in V3Fees /\ r.lower < r.upper

\* _validate_dex_lp_add_v4
AddBoundsV4(r) ==
  /\ r.amountA < U128 /\ r.amountB < U128
  /\ r.amountA > 0 \/ r.a = Zero
  /\ r.amountB > 0 \/ r.b = Zero
  /\ r.liquidity > 0
  /\ r.fee < U24
  /\ r.spacing # 0 /\ r.spacing < I24
  /\ r.hooks = Zero
  /\ r.lower < r.upper
  /\ r.lower % r.spacing = 0 /\ r.upper % r.spacing = 0
  /\ Sorted(r.a, r.b)

\* _validate_dex_lp_remove
RemoveBounds(r) ==
  /\ r.liquidity > 0
  /\ r.burn => r.protocol = "v4"
  /\ r.protocol \in {"v3", "v4"} => r.id > 0 /\ Sorted(r.a, r.b)

\* _validate_dex_lp_claim; v2 has no claim.
ClaimBounds(r) == r.protocol # "v2" /\ Sorted(r.a, r.b) /\ r.id > 0

LpBounds(r) ==
  /\ r.a # r.b
  /\ CASE r.op = "add" -> IF r.protocol = "v4" THEN AddBoundsV4(r) ELSE AddBounds(r)
       [] r.op = "remove" -> RemoveBounds(r)
       [] r.op = "claim" -> ClaimBounds(r)

\* The contracts an operation needs, each the pinned one (_lp_pin).
Managers(r, over) == Resolve(LpRole(r.protocol), r.manager, over)
Permit2s(r, over) ==
  IF r.op = "add" /\ r.protocol = "v4" THEN Resolve("permit2", r.permit2, over)
  ELSE {"none"}

\* The request as it is queued: with the contracts it resolved to.
WithContracts(r, m, p) == [r EXCEPT !.manager = m, !.permit2 = p]
Queued(r, over) ==
  IF LpBounds(r) /\ r.extra \cap Foreign(r.op, r.protocol) = {}
  THEN {WithContracts(r, m, p) : m \in Managers(r, over), p \in Permit2s(r, over)}
  ELSE {}

\* rt_dex_lp_add: both legs, under the keys that policy and velocity use; a
\* removal or claim has none and always waits for a human.
Legs(q) ==
  IF q.op = "add" THEN <<[asset |-> AssetKey(q.a), amount |-> q.amountA],
                         [asset |-> AssetKey(q.b), amount |-> q.amountB]>>
  ELSE <<>>

\* _dex_lp_checks: the contracts the queue shows.
LpChecks(q, over) ==
  [role \in {LpRole(q.protocol)} \cup
            (IF q.protocol = "v4" THEN {"permit2"} ELSE {}) |->
     Primary(role, over)]

-----------------------------------------------------------------------------
(* The call, built from the queued intent; a number that its words cannot  *)
(* hold refuses                                                            *)

Call(fn, pair, deadline) ==
  [fn |-> fn, pair |-> pair, recipient |-> "wallet", deadline |-> deadline,
   id |-> 0, liquidity |-> 0, max0 |-> 0, max1 |-> 0, min0 |-> 0, min1 |-> 0,
   burn |-> FALSE]

\* A v3 call on a position names no tokens: they are those of the position.
OfPosition == <<>>

\* build_v2_add_liquidity_calldata
BuildV2Add(a, b, amountA, amountB, minA, minB, deadline) ==
  IF {amountA, amountB} \subseteq 1 .. U256 - 1 /\ {minA, minB} \subseteq 0 .. U256 - 1
  THEN {[Call("addLiquidity", <<a, b>>, deadline) EXCEPT
           !.max0 = amountA, !.max1 = amountB, !.min0 = minA, !.min1 = minB]}
  ELSE {}

\* build_v3_mint_calldata
BuildV3Mint(t0, t1, q, max0, max1, min0, min1, deadline) ==
  IF /\ Sorted(t0, t1)
     /\ q.fee \in V3Fees /\ q.lower < q.upper /\ Tick(q.lower) /\ Tick(q.upper)
     /\ {max0, max1} \subseteq 1 .. U256 - 1 /\ {min0, min1} \subseteq 0 .. U256 - 1
  THEN {[Call("mint", <<t0, t1>>, deadline) EXCEPT
           !.max0 = max0, !.max1 = max1, !.min0 = min0, !.min1 = min1]}
  ELSE {}

\* _require_v4_currencies
V4Currencies(c0, c1, native) ==
  /\ Zero \in {c0, c1} => native /\ c0 = Zero
  /\ Sorted(c0, c1)

\* _require_v4_pool_key_args
V4PoolKeyArgs(q) ==
  /\ q.fee < U24 /\ q.spacing # 0 /\ q.spacing < I24
  /\ Tick(q.lower) /\ Tick(q.upper) /\ q.lower < q.upper
  /\ q.lower % q.spacing = 0 /\ q.upper % q.spacing = 0

\* build_v4_mint_params
V4MintParams(q, native) ==
  /\ V4Currencies(q.a, q.b, native) /\ V4PoolKeyArgs(q)
  /\ q.liquidity \in 1 .. U256 - 1
  /\ {q.amountA, q.amountB} \subseteq 0 .. U128 - 1

\* build_v4_lp_add_calldata: mint, then settle the pair.
BuildV4Add(q, deadline) ==
  IF V4MintParams(q, q.a = Zero)
  THEN {[Call("modifyLiquidities.mint", <<q.a, q.b>>, deadline) EXCEPT
           !.liquidity = q.liquidity, !.max0 = q.amountA, !.max1 = q.amountB]}
  ELSE {}

\* build_v2_remove_liquidity_calldata
BuildV2Remove(q, deadline) ==
  IF q.liquidity \in 1 .. U256 - 1 /\ {q.minA, q.minB} \subseteq 0 .. U256 - 1
  THEN {[Call("removeLiquidity", <<q.a, q.b>>, deadline) EXCEPT
           !.liquidity = q.liquidity, !.min0 = q.minA, !.min1 = q.minB]}
  ELSE {}

\* build_v3_remove_and_collect_calldata: decrease, then collect everything.
BuildV3Remove(q, deadline) ==
  IF q.liquidity \in 1 .. U128 - 1 /\ {q.minA, q.minB} \subseteq 0 .. U256 - 1
  THEN {[Call("multicall", OfPosition, deadline) EXCEPT
           !.id = q.id, !.liquidity = q.liquidity, !.min0 = q.minA, !.min1 = q.minB]}
  ELSE {}

\* build_v3_collect_calldata
BuildV3Claim(q) == {[Call("collect", OfPosition, 0) EXCEPT !.id = q.id]}

\* build_v4_decrease_params
V4DecreaseParams(id, liquidity, min0, min1) ==
  id > 0 /\ liquidity \in 0 .. U256 - 1 /\ {min0, min1} \subseteq 0 .. U128 - 1

\* build_v4_lp_remove_calldata: decrease, take the pair, burn on a full exit.
BuildV4Remove(q, deadline) ==
  IF /\ q.liquidity > 0
     /\ V4DecreaseParams(q.id, q.liquidity, q.minA, q.minB)
     /\ V4Currencies(q.a, q.b, q.a = Zero)
  THEN {[Call("modifyLiquidities.decrease", <<q.a, q.b>>, deadline) EXCEPT
           !.id = q.id, !.liquidity = q.liquidity, !.min0 = q.minA,
           !.min1 = q.minB, !.burn = q.burn]}
  ELSE {}

\* build_v4_lp_claim_calldata: a decrease by nothing credits the fees.
BuildV4Claim(q, deadline) ==
  IF V4DecreaseParams(q.id, 0, 0, 0) /\ V4Currencies(q.a, q.b, q.a = Zero)
  THEN {[Call("modifyLiquidities.decrease", <<q.a, q.b>>, deadline) EXCEPT
           !.id = q.id]}
  ELSE {}

-----------------------------------------------------------------------------
(* The call, decoded again and bound to the intent                         *)

ForWallet(call) == call.recipient = "wallet"
Erc20Legs(q) == ~IsNative(q.a) /\ ~IsNative(q.b)
AtLeast(call, min0, min1) == call.min0 >= min0 /\ call.min1 >= min1
AtMost(call, max0, max1) == call.max0 <= max0 /\ call.max1 <= max1

\* decode_v2_add_liquidity_calldata
DecodedV2Add(call, q) ==
  /\ Erc20Legs(q)
  /\ call.fn = "addLiquidity" /\ call.pair = <<q.a, q.b>>
  /\ AtMost(call, q.amountA, q.amountB) /\ AtLeast(call, q.minA, q.minB)
  /\ ForWallet(call)

\* A mutation of DecodedV3Mint: the pair is expected as the request has it.
DecodedV3MintAsAsked(call, q, t0, t1, max0, max1, min0, min1) ==
  /\ Erc20Legs(q)
  /\ call.fn = "mint" /\ call.pair = <<q.a, q.b>>
  /\ ForWallet(call)

\* decode_v3_mint_calldata
DecodedV3Mint(call, q, t0, t1, max0, max1, min0, min1) ==
  /\ Erc20Legs(q)
  /\ call.fn = "mint" /\ call.pair = <<t0, t1>>
  /\ AtMost(call, max0, max1) /\ AtLeast(call, min0, min1)
  /\ ForWallet(call)

\* decode_v4_lp_add_calldata
DecodedV4Add(call, q, value) ==
  /\ call.fn = "modifyLiquidities.mint" /\ call.pair = <<q.a, q.b>>
  /\ ForWallet(call)
  /\ AtMost(call, q.amountA, q.amountB)
  /\ IF q.a = Zero THEN value \in call.max0 .. q.amountA ELSE value = 0

\* decode_v2_remove_liquidity_calldata
DecodedV2Remove(call, q) ==
  /\ Erc20Legs(q)
  /\ call.fn = "removeLiquidity" /\ call.pair = <<q.a, q.b>>
  /\ call.liquidity = q.liquidity /\ AtLeast(call, q.minA, q.minB)
  /\ ForWallet(call)

\* decode_v3_remove_calldata
DecodedV3Remove(call, q) ==
  /\ call.fn = "multicall" /\ call.id = q.id
  /\ call.liquidity = q.liquidity /\ AtLeast(call, q.minA, q.minB)
  /\ ForWallet(call)

\* decode_v3_collect_calldata
DecodedV3Collect(call, q) ==
  call.fn = "collect" /\ call.id = q.id /\ ForWallet(call)

\* decode_v4_lp_take_calldata, of a removal and of a claim.
DecodedV4Take(call, q, liquidity, min0, min1, burn) ==
  /\ call.fn = "modifyLiquidities.decrease" /\ call.burn = burn
  /\ call.id = q.id /\ call.liquidity = liquidity
  /\ AtLeast(call, min0, min1)
  /\ call.pair = <<q.a, q.b>> /\ ForWallet(call)

-----------------------------------------------------------------------------
(* The execution                                                           *)

CallDeadline(q, now) == IF q.deadline = 0 THEN now + Lifetime ELSE q.deadline
NotExpired(q, now) == q.deadline = 0 \/ now <= q.deadline
InTime(q, now) == NotExpired(q, now) /\ CallDeadline(q, now) > now + Soon

\* An exact allowance of n for the spender, of the token or inside Permit2;
\* it must be encodable, and the token a contract.
Approve(token, spender, n, in) ==
  [token |-> token, spender |-> spender, amount |-> n, in |-> in]
Encodable(a, deadline) ==
  /\ a.amount > 0 /\ ~IsNative(a.token)
  /\ a.in = "permit2" => deadline < U48

\* What is signed, when nothing is approved yet.  An execution that stops at an
\* approval which cannot be encoded leaves those before it, of the same amounts
\* for the same spenders; that is left out.
Signed(to, approvals, value, call) ==
  [to |-> to, approvals |-> approvals, value |-> value, call |-> call]
Checked(plan) ==
  IF \A a \in plan.approvals : Encodable(a, plan.call.deadline) THEN {plan} ELSE {}

\* A mutation of ExecuteAdd: the tokens are sorted for v3, the amounts are
\* not; the decoder is given the same.
ExecuteAddUnsorted(q, m, now) ==
  LET deadline == CallDeadline(q, now)
      swap == q.protocol = "v3" /\ ~Sorted(q.a, q.b)
  IN  IF ~InTime(q, now) THEN {}
      ELSE {Signed(m, {Approve(q.a, m, q.amountA, "token"),
                       Approve(q.b, m, q.amountB, "token")}, 0, c) :
              c \in IF q.protocol = "v2"
                    THEN BuildV2Add(q.a, q.b, q.amountA, q.amountB, q.minA, q.minB,
                                    deadline)
                    ELSE BuildV3Mint(IF swap THEN q.b ELSE q.a,
                                     IF swap THEN q.a ELSE q.b, q, q.amountA,
                                     q.amountB, q.minA, q.minB, deadline)}

\* _execute_evm_lp_add: v3 is given tokens, amounts and minimums in the
\* order of the pool.
ExecuteAdd(q, m, now) ==
  LET deadline == CallDeadline(q, now)
      swap == q.protocol = "v3" /\ ~Sorted(q.a, q.b)
      t0 == IF swap THEN q.b ELSE q.a             t1 == IF swap THEN q.a ELSE q.b
      max0 == IF swap THEN q.amountB ELSE q.amountA
      max1 == IF swap THEN q.amountA ELSE q.amountB
      min0 == IF swap THEN q.minB ELSE q.minA     min1 == IF swap THEN q.minA ELSE q.minB
      calls == IF q.protocol = "v2"
               THEN {c \in BuildV2Add(t0, t1, max0, max1, min0, min1, deadline) :
                       DecodedV2Add(c, q)}
               ELSE {c \in BuildV3Mint(t0, t1, q, max0, max1, min0, min1, deadline) :
                       DecodedV3Mint(c, q, t0, t1, max0, max1, min0, min1)}
  IN  IF ~InTime(q, now) THEN {}
      ELSE UNION {Checked(Signed(m, {Approve(q.a, m, q.amountA, "token"),
                                     Approve(q.b, m, q.amountB, "token")}, 0, c)) :
                    c \in calls}

\* The pool manager is the one pinned along with this position manager.
PoolManagerFits(w, over) ==
  \/ "v4_position_manager" \in DOMAIN over /\ "v4_pool_manager" \notin DOMAIN over
  \/ Primary("v4_pool_manager", over) \in {{}, {w.poolManager}}

\* _execute_evm_lp_add_v4: each token is approved to Permit2 and there to the
\* position manager, the native coin travels as the value.  The code decodes the
\* call only once the approvals are signed, which comes to the same: what it
\* builds always decodes (DexProofs, V4AddDecodes).
ExecuteAddV4(q, m, permit2, w, over, now) ==
  LET deadline == CallDeadline(q, now)
      value == IF q.a = Zero THEN q.amountA ELSE 0
      legs == {l \in {<<q.a, q.amountA>>, <<q.b, q.amountB>>} : l[1] # Zero}
  IN  IF ~InTime(q, now) \/ ~PoolManagerFits(w, over) \/ ~w.initialized THEN {}
      ELSE UNION {Checked(Signed(m,
                    UNION {{Approve(l[1], permit2, l[2], "token"),
                            Approve(l[1], m, l[2], "permit2")} : l \in legs},
                    value, c)) :
                    c \in {d \in BuildV4Add(q, deadline) : DecodedV4Add(d, q, value)}}

\* _execute_evm_lp_remove: the pair must be that of the tokens before it is
\* approved, a position the wallet's.
ExecuteRemove(q, m, w, now) ==
  LET deadline == CallDeadline(q, now)
      calls ==
        CASE q.protocol = "v2" /\ w.pair = {q.a, q.b} ->
               {c \in BuildV2Remove(q, deadline) : DecodedV2Remove(c, q)}
          [] q.protocol = "v3" /\ w.owner = "wallet" ->
               {c \in BuildV3Remove(q, deadline) : DecodedV3Remove(c, q)}
          [] q.protocol = "v4" /\ w.owner = "wallet" ->
               {c \in BuildV4Remove(q, deadline) :
                  DecodedV4Take(c, q, q.liquidity, q.minA, q.minB, q.burn)}
          [] OTHER -> {}
      approvals == IF q.protocol = "v2"
                   THEN {Approve("pair", m, q.liquidity, "token")} ELSE {}
  IN  IF ~InTime(q, now) THEN {}
      ELSE UNION {Checked(Signed(m, approvals, 0, c)) : c \in calls}

\* _execute_evm_lp_claim; the v3 call has no deadline.
ExecuteClaim(q, m, w, now) ==
  LET calls ==
        CASE w.owner # "wallet" \/ ~NotExpired(q, now) -> {}
          [] q.protocol = "v3" -> {c \in BuildV3Claim(q) : DecodedV3Collect(c, q)}
          [] q.protocol = "v4" ->
               IF InTime(q, now)
               THEN {c \in BuildV4Claim(q, CallDeadline(q, now)) :
                       DecodedV4Take(c, q, 0, 0, 0, FALSE)}
               ELSE {}
  IN  {Signed(m, {}, 0, c) : c \in calls}

ExecuteWith(q, m, permit2, w, over, now) ==
  CASE q.op = "add" /\ q.protocol = "v4" -> ExecuteAddV4(q, m, permit2, w, over, now)
    [] q.op = "add" /\ q.protocol # "v4" -> ExecuteAdd(q, m, now)
    [] q.op = "remove" -> ExecuteRemove(q, m, w, now)
    [] q.op = "claim" -> ExecuteClaim(q, m, w, now)

\* The contracts are looked up again, and must still be the queued ones.
Execute(q, w, over, now) ==
  UNION {ExecuteWith(q, m, p, w, over, now) :
           m \in Managers(q, over), p \in Permit2s(q, over)}

-----------------------------------------------------------------------------
(* Contract intents                                                        *)

\* _validate_contract_deploy and _validate_contract_call; args say whether
\* the arguments encode under the ABI that comes with them.
ValidContract(r) ==
  /\ r.args = "encode"
  /\ r.kind = "deploy" => r.code \in {"some"}
  /\ r.kind = "call" => r.mutability \notin {"view", "pure"}
  /\ r.kind = "view" => r.mutability \in {"view", "pure", "none"}
  /\ r.kind # "view" => r.value >= 0 /\ r.gas \in {"none", "ok"}

\* rt_contract_deploy and rt_contract_call: what velocity sees of them.
ContractLegs(r) ==
  IF r.kind = "call" /\ r.value > 0
  THEN <<[asset |-> "native", amount |-> r.value]>> ELSE <<>>

\* _execute_contract_deploy and _execute_contract_call: the value that the
\* signed transaction carries.  rt_contract_call_view signs nothing.
ContractValue(r) == IF r.kind = "view" THEN 0 ELSE r.value

-----------------------------------------------------------------------------
(* Properties of a request r                                               *)

\* What the legs count for a token of the wallet.
Counted(legs, token) ==
  LET of == {i \in DOMAIN legs : legs[i].asset = AssetKey(token)}
  IN  IF of = {} THEN 0 ELSE legs[CHOOSE i \in of : TRUE].amount

\* Whatever happened between the request and its execution, the calls that
\* are signed stay inside what was approved: the contract is the one that the
\* queue showed and is still pinned, each token is allowed and spent for no
\* more than its
\* counted leg, what comes back goes to the wallet, and the minimums are
\* those of their own tokens.  A v3 position of other tokens than the request
\* names is not told apart: there the minimums are those of the position.
LpKeepsBounds(r, w, over, later, now) ==
  \A q \in Queued(r, over) : \A plan \in Execute(q, w, later, now) :
    /\ plan.to \in LpChecks(q, over)[LpRole(r.protocol)] \cap Primary(LpRole(r.protocol), later)
    /\ \A a \in plan.approvals :
         /\ a.amount = (IF a.token = "pair" THEN q.liquidity ELSE Counted(Legs(q), a.token))
         /\ a.spender \in {plan.to} \cup Primary("permit2", later)
    /\ plan.value = (IF r.op = "add" THEN Counted(Legs(q), Zero) ELSE 0)
    /\ plan.call.recipient = "wallet"
    /\ r.op = "add" => /\ plan.call.max0 <= Counted(Legs(q), plan.call.pair[1])
                       /\ plan.call.max1 <= Counted(Legs(q), plan.call.pair[2])
    /\ (r.op = "add" /\ r.protocol # "v4") \/ r.op = "remove" =>
         LET pair == IF plan.call.pair = OfPosition THEN w.position ELSE plan.call.pair
         IN  {pair[1], pair[2]} = {r.a, r.b} =>
               {<<pair[1], plan.call.min0>>, <<pair[2], plan.call.min1>>}
               = {<<r.a, r.minA>>, <<r.b, r.minB>>}

\* The chain shows what the execution of q asks it for.
Cooperative(q, w, over) ==
  w.owner = "wallet" /\ w.pair = {q.a, q.b} /\ w.initialized /\ PoolManagerFits(w, over)

\* Numbers that a call of the kind can carry.
Representable(r) ==
  /\ {r.amountA, r.amountB, r.liquidity} \subseteq 0 .. U128 - 1
  /\ {r.minA, r.minB} \subseteq 0 .. U128 - 1
  /\ Tick(r.lower) /\ Tick(r.upper)
  /\ r.deadline < U48

\* No approval is wasted on the daemon's own checks: a queued request whose
\* numbers can be encoded and whose tokens are contracts (or native, where
\* the pool takes it) is executed, while the pins stand, the deadline is not
\* close and the chain is as it must be.
NoApprovalWasted(r, w, over, now) ==
  \A q \in Queued(r, over) :
    (/\ Representable(r) /\ Cooperative(q, w, over) /\ InTime(q, now)
     /\ \A t \in {r.a, r.b} :
          ~IsNative(t) \/ (t = Zero /\ r.protocol # "v2"))
    => Execute(q, w, over, now) # {}

\* Every wei of the native coin that a contract call sends was counted.  The
\* value of a deployment never is ("A deploy moves no asset, so no velocity leg
\* is recorded"), though the signed transaction carries it.
ValueIsCounted(r) ==
  ValidContract(r) /\ r.kind # "deploy" => ContractValue(r) = Counted(ContractLegs(r), Zero)
=============================================================================

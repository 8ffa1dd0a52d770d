------------------------------ MODULE DexCheck ------------------------------
(***************************************************************************)
(* A walk over what requesters and venues may send to SwapDecode and       *)
(* EvmIntents.  A swap starts from an honest quote and a liquidity intent  *)
(* from a request, a configuration and a chain that fit; the walk then     *)
(* adds commands to the router's call and changes a few fields to          *)
(* anything, those of the configuration between request and execution      *)
(* included.                                                               *)
(***************************************************************************)
EXTENDS SwapDecode, EvmIntents

CONSTANTS MaxCommands,  \* longest call to the router
          MaxEdits,     \* most fields that are changed
          Requesters    \* the kinds of intents the walk visits

WalkAssumption == MaxCommands \in Nat /\ MaxEdits \in Nat /\ 1 + Lifetime < U48

VARIABLES kind, request, context, edits

dexVars == <<kind, request, context, edits>>

NoPins == [r \in {} |-> Zero]
Amounts == 0 .. 2

\* Overrides of one role at most, as the configuration may hold them.
OneOverride ==
  UNION {ParseOverrides(raw) : raw \in {{}} \cup
           {{[role |-> role, address |-> a]} : role \in Roles, a \in Contracts \cup {Zero}}}

-----------------------------------------------------------------------------
(* Swaps                                                                   *)

Venues == {"matcha", "uniswap"}
ApiKeys == {"uniswap"}

SwapRequests ==
  {p \in [venue : {"matcha", "uniswap"}, sell : Tokens, buy : Tokens,
          amount : {2}, min : {2}, deadline : {2}] :
     /\ p.venue = "uniswap" => p.sell \notin Natives \ {Zero}
     /\ ValidSwap(p, Venues, ApiKeys, NoPins)}

Honest(p) ==
  [sell |-> p.sell, buy |-> p.buy, sellAmount |-> p.amount, buyAmount |-> p.min,
   spender |-> IF p.venue = "uniswap" THEN "none" ELSE Builtin["allowance_holder"],
   over |-> NoPins, at |-> 1,
   tx |-> [to |-> Builtin[TargetRole(p.venue)],
           value |-> IF IsNative(p.sell) THEN p.amount ELSE 0,
           call |-> IF p.venue = "uniswap"
             THEN [selector |-> "ur.execute", commands |-> <<>>]
             ELSE [selector |-> "holder.exec", token |-> p.sell,
                   amount |-> p.amount,
                   operator |-> CHOOSE s \in Settlers : TRUE,
                   target |-> CHOOSE s \in Settlers : TRUE,
                   inner |-> [selector |-> "execute", recipient |-> "wallet",
                              buy |-> p.buy, min |-> p.min]]]]

Recipients == {Sender, Router, "other"}
Least == 1 .. 2
Paths == {path \in (Tokens \ Natives) \X (Tokens \ Natives) : path[1] # path[2]}
Currencies == Tokens \ {Wrapped}
V4Acts ==
  [act : {"single"}, c0 : {Zero}, c1 : Currencies \ Natives, zeroForOne : BOOLEAN,
   amount : 1 .. 2, min : Least]
  \X ([act : {"settle"}, amount : {0}, payerIsUser : BOOLEAN, currency : Currencies]
      \cup [act : {"settle_all"}, currency : Currencies])
  \X ([act : {"take"}, recipient : Recipients, amount : {0}, currency : Currencies]
      \cup [act : {"take_all"}, min : {2}, currency : Currencies])

\* The payer is the router for all that it holds, or the wallet for a part.
Commands ==
  UNION {[op : {"wrap"}, allowRevert : {FALSE}, recipient : Recipients, amount : 1 .. 2],
         {c \in [op : {"v3"}, allowRevert : {FALSE}, recipient : Recipients,
                 amount : {1, 2, Balance}, min : Least, path : Paths,
                 payerIsUser : BOOLEAN] :
            c.payerIsUser <=> c.amount # Balance},
         [op : {"v4"}, allowRevert : {FALSE}, acts : V4Acts],
         [op : {"sweep"}, allowRevert : {FALSE}, recipient : Recipients, token : Tokens,
          min : Least],
         [op : {"unwrap"}, allowRevert : {FALSE}, recipient : Recipients, min : Least]}

\* One more command.  A call is given up as soon as it cannot pass any more.
AddCommand ==
  /\ kind = "swap" /\ request.venue = "uniswap"
  /\ Len(context.tx.call.commands) < MaxCommands
  /\ edits = 0
  /\ \E c \in Commands :
       /\ CommandBound(c, request)
       /\ LET cmds == Append(context.tx.call.commands, c)
          IN  SumOf(cmds, LAMBDA d : Pulls(d, request) + Uses(d, request)) <= request.amount
       /\ context' = [context EXCEPT !.tx.call.commands = Append(@, c)]
  /\ UNCHANGED <<kind, request, edits>>

\* One field of the quote, or the pins, are not what they should be; a call
\* of the router is edited when it could pass.
Edit(c) ==
  /\ edits < MaxEdits
  /\ edits' = edits + 1
  /\ context' = c
  /\ UNCHANGED <<kind, request>>

EditQuote ==
  /\ kind = "swap"
  /\ request.venue = "uniswap" =>
       /\ edits = 0
       /\ Len(context.tx.call.commands) < MaxCommands
       /\ ExecuteSwap(context, request, Venues, ApiKeys, context.over) # {}
  /\ \/ \E t \in Tokens : \/ Edit([context EXCEPT !.sell = t])
                          \/ Edit([context EXCEPT !.buy = t])
     \/ \E n \in Amounts : \/ Edit([context EXCEPT !.sellAmount = n])
                           \/ Edit([context EXCEPT !.buyAmount = n])
                           \/ Edit([context EXCEPT !.tx.value = n])
     \/ \E c \in Contracts : \/ Edit([context EXCEPT !.spender = c])
                             \/ Edit([context EXCEPT !.tx.to = c])
     \/ \E o \in OneOverride : Edit([context EXCEPT !.over = o])
     \/ Edit([context EXCEPT !.at = 3])

EditHolderCall ==
  /\ kind = "swap" /\ context.tx.call.selector = "holder.exec"
  /\ \/ \E t \in Tokens : \/ Edit([context EXCEPT !.tx.call.token = t])
                          \/ Edit([context EXCEPT !.tx.call.inner.buy = t])
     \/ \E n \in Amounts : \/ Edit([context EXCEPT !.tx.call.amount = n])
                           \/ Edit([context EXCEPT !.tx.call.inner.min = n])
     \/ \E c \in Contracts \cup Tokens : \/ Edit([context EXCEPT !.tx.call.operator = c])
                                         \/ Edit([context EXCEPT !.tx.call.target = c])
     \/ \E r \in {"wallet", "other"} : Edit([context EXCEPT !.tx.call.inner.recipient = r])

-----------------------------------------------------------------------------
(* Liquidity                                                               *)

LpRequests ==
  {r \in [op : {"add", "remove", "claim"}, protocol : {"v2", "v3", "v4"},
          a : Tokens, b : Tokens, amountA : {1}, amountB : {2}, minA : 0 .. 1,
          minB : {0, 2}, liquidity : {1}, fee : {1}, spacing : {1}, lower : {0},
          upper : {1}, hooks : {Zero}, manager : {"none"}, permit2 : {"none"},
          id : {1}, burn : {FALSE}, extra : {{}}, deadline : {0}] :
     /\ <<r.minA, r.minB>> = IF r.protocol = "v4" /\ r.op = "add" THEN <<0, 0>>
                             ELSE <<1, 2>>
     /\ Queued(r, NoPins) # {}}

\* A position has its tokens in the order of its pool.
Fitting(r) ==
  [over |-> NoPins, later |-> NoPins, now |-> 1,
   world |-> [owner |-> "wallet", pair |-> {r.a, r.b},
              position |-> IF Sorted(r.a, r.b) THEN <<r.a, r.b>> ELSE <<r.b, r.a>>,
              initialized |-> TRUE, poolManager |-> Builtin["v4_pool_manager"]]]

EditRequest(r) ==
  /\ edits < MaxEdits
  /\ edits' = edits + 1
  /\ request' = r
  /\ UNCHANGED <<kind, context>>

\* The request has any number, token or contract in one of its fields.
EditLp ==
  /\ kind = "lp"
  /\ \/ \E n \in {0, U128, U256} : \/ EditRequest([request EXCEPT !.amountA = n])
                                   \/ EditRequest([request EXCEPT !.amountB = n])
                                   \/ EditRequest([request EXCEPT !.minA = n])
                                   \/ EditRequest([request EXCEPT !.liquidity = n])
     \/ \E n \in {-I24 - 1, 0, I24} : \/ EditRequest([request EXCEPT !.lower = n])
                                      \/ EditRequest([request EXCEPT !.upper = n])
     \/ \E n \in {1, 3, U48} : EditRequest([request EXCEPT !.deadline = n])
     \/ \E t \in Tokens : \/ EditRequest([request EXCEPT !.a = t])
                          \/ EditRequest([request EXCEPT !.b = t])
     \/ \E c \in Contracts : EditRequest([request EXCEPT !.manager = c])
     \/ EditRequest([request EXCEPT !.burn = TRUE])

\* The pins, or the chain, are not as they should be.
EditConfiguration ==
  /\ kind = "lp"
  /\ \/ \E o \in OneOverride : \/ Edit([context EXCEPT !.over = o])
                               \/ Edit([context EXCEPT !.later = o])
     \/ Edit([context EXCEPT !.world.owner = "other"])
     \/ Edit([context EXCEPT !.world.initialized = FALSE])
     \/ \E t \in Tokens : Edit([context EXCEPT !.world.pair = {t, request.b}])
     \/ \E t \in Tokens :
          Sorted(t, request.b) /\ Edit([context EXCEPT !.world.position = <<t, request.b>>])
     \/ \E c \in Contracts : Edit([context EXCEPT !.world.poolManager = c])

-----------------------------------------------------------------------------
(* Deployments and contract calls                                          *)

ContractRequests ==
  [kind : {"deploy", "call", "view"}, args : {"encode", "refused"},
   code : {"none", "some"}, mutability : {"none", "view", "payable"},
   value : Amounts, gas : {"none", "ok", "too much"}]

DexInit ==
  /\ edits = 0
  /\ kind \in Requesters
  /\ request \in (CASE kind = "swap" -> SwapRequests
                    [] kind = "lp" -> LpRequests
                    [] kind = "contract" -> ContractRequests)
  /\ context = (CASE kind = "swap" -> Honest(request)
                  [] kind = "lp" -> Fitting(request)
                  [] kind = "contract" -> NoPins)

DexNext == AddCommand \/ EditQuote \/ EditHolderCall \/ EditLp \/ EditConfiguration

DexSpec == DexInit /\ [][DexNext]_dexVars

-----------------------------------------------------------------------------
(* Properties                                                              *)

\* Whatever pools and contracts do, a quote that passes the decoder costs the
\* wallet the approved sell at most and nothing else.  It reverts or pays the
\* approved minimum too, except where a 0x or Cast quote names a target that
\* is no genuine settler, which the code does not pin (decode_swap_tx).
SwapKeepsBounds ==
  kind = "swap" => KeepsBounds(context, request, Venues, ApiKeys, context.over)

\* The allowances raised for a swap go to the pinned spender, and the swap
\* draws no more than was raised; on Uniswap it draws all of it, so that
\* nothing can be taken afterwards.  At the 0x holder a part may stay
\* (validate_swap_intent_against_quote).
SwapAllowancesFit ==
  kind = "swap" => AllowancesFit(context, request, Venues, ApiKeys, context.over)

\* Whatever changed between request and execution, a liquidity call stays
\* inside what was approved and counted, and a contract call sends no native
\* coin that was not counted (LpKeepsBounds, ValueIsCounted).
IntentKeepsBounds ==
  /\ kind = "lp" => LpKeepsBounds(request, context.world, context.over,
                                  context.later, context.now)
  /\ kind = "contract" => ValueIsCounted(request)

\* An approval is not wasted on the daemon's own checks: what the validators
\* let through is built and decoded again (NoApprovalWasted).
LiquidityNotWasted ==
  kind = "lp" => NoApprovalWasted(request, context.world, context.over, context.now)
=============================================================================

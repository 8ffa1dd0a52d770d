--------------------------- MODULE MCSpendDaemon ---------------------------
(* Small instances of SpendDaemon: one capped key and four request bodies. *)
EXTENDS SpendDaemon

CONSTANTS xch, cat, small, large, offer, swap, claim,
          DailyCap   \* the daily cap of xch

Leg(key, amount) == [key |-> key, amount |-> amount]
Body(kind, legs) == [kind |-> kind, legs |-> legs, destination |-> NoDestination]

(* cat has no daily cap and no limit per spend. *)
MCPolicy ==
  [perSpendCap          |-> [k \in Keys |-> IF k = xch THEN 2 ELSE Unset],
   dailyVelocityCap     |-> [k \in Keys |-> IF k = xch THEN DailyCap ELSE Unset],
   destinationAllowlist |-> [k \in Keys |-> Unset],
   autoApproveBelow     |-> [k \in Keys |-> 1]]

(* Policy approves small and offer and queues large, until the cap denies  *)
(* them; swap always asks the human; claim spends nothing.                 *)
MCRequest ==
  [p \in Params |->
     CASE p = small -> Body("transfer", <<Leg(xch, 1)>>)
     []   p = large -> Body("transfer", <<Leg(xch, 2)>>)
     []   p = offer -> Body("intent", <<Leg(cat, 1), Leg(xch, 1)>>)
     []   p = swap  -> Body("humanOnly", <<Leg(xch, 1)>>)
     []   p = claim -> Body("forced", <<>>)]
=============================================================================

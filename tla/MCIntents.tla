------------------------------ MODULE MCIntents ------------------------------
(***************************************************************************)
(* A small instance of what is decided about an intent: the walk of        *)
(* PolicyCheck over amounts and caps, and that of DexCheck over a token, a *)
(* wrapped coin and both spellings of the native one.  A behaviour is of   *)
(* one walk.                                                               *)
(***************************************************************************)
EXTENDS DexCheck, PolicyCheck

ASSUME WalkAssumption /\ BoundsAssumption

McRoles == {"allowance_holder", "universal_router", "permit2", "v2_router",
            "v3_position_manager", "v4_position_manager", "v4_pool_manager"}
McContracts == {"holder", "router", "router2", "permit", "v2", "v3", "v4",
                "pool", "settler"}
McBuiltin ==
  [r \in McRoles |->
     CASE r = "allowance_holder" -> "holder" [] r = "universal_router" -> "router"
       [] r = "permit2" -> "permit" [] r = "v2_router" -> "v2"
       [] r = "v3_position_manager" -> "v3" [] r = "v4_position_manager" -> "v4"
       [] r = "v4_pool_manager" -> "pool"]
McAlternates == [r \in McRoles |-> IF r = "universal_router" THEN {"router2"} ELSE {}]
McTokens == {"0x0", "usd", "weth", "0xe"}
McRank == [t \in McTokens |-> CASE t = "0x0" -> 0 [] t = "usd" -> 1
                                [] t = "weth" -> 2 [] t = "0xe" -> 3]

PolicyAway == limits = Unset /\ wanted = <<>> /\ used = <<>>
DexAway == kind = "none" /\ request = Unset /\ context = Unset /\ edits = 0

Init == \/ DexInit /\ PolicyAway
        \/ PolicyInit /\ DexAway

Next == \/ DexNext /\ UNCHANGED policyVars
        \/ kind = "none" /\ PolicyNext /\ UNCHANGED dexVars

Spec == Init /\ [][Next]_<<dexVars, policyVars>>
=============================================================================

--------------------------- MODULE MCEvmExecutor ---------------------------
(***************************************************************************)
(* Small instances of EvmExecutor: two swaps that share an allowance, the  *)
(* second of which needs another one as well, and a contract call.         *)
(***************************************************************************)
EXTENDS EvmExecutor

CONSTANTS s1, s2, call, erc20, permit2

MCNeeds == [s \in Spends |-> IF s = s1 THEN <<erc20>>
                             ELSE IF s = s2 THEN <<erc20, permit2>> ELSE <<>>]
MCAmount == [s \in Spends |-> IF s = s1 THEN 2 ELSE 1]
=============================================================================

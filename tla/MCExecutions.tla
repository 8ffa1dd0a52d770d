---------------------------- MODULE MCExecutions ----------------------------
(***************************************************************************)
(* Small instances of what the daemon does with an approved item, by kind: *)
(* the mint gate, message signatures, EVM intents, Solana transfers,       *)
(* native offers and Forge swaps.  A behaviour is of one part: the daemon  *)
(* executes one item at a time, and the parts share no state but the       *)
(* ledger.  The other parts stay as they start, so the state spaces add up *)
(* and do not multiply, and each property is the module's own.             *)
(***************************************************************************)
EXTENDS MintGate, SignRef, EvmExecutor, SolanaExecutor, NativeOffers, ForgeSwap, TLC

CONSTANTS
  nft, cat, mainnet, testnet,     \* mints
  chia, evm,                      \* messages
  s1, s2, call, erc20, permit2,   \* EVM: two swaps share an allowance
  c1, c2, o1, o2, pay             \* coins, offers, a payment

VARIABLE part

MCNetworkOf == [d \in Digests |-> IF d = nft THEN testnet ELSE mainnet]
MCAllowedType == [m \in Messages |-> IF m = chia THEN "plain" ELSE "personal"]

MCNeeds == [s \in Spends |-> IF s = s1 THEN <<erc20>>
                             ELSE IF s = s2 THEN <<erc20, permit2>> ELSE <<>>]
MCAmount == [s \in Spends |-> IF s = s1 THEN 2 ELSE 1]

Sol(c, to, n, bad) == [chain |-> c, to |-> to, lamports |-> n, misused |-> bad]

MCTransfers ==
  {Sol("dev", "payee", 1, FALSE), Sol("main", "payee", 1, FALSE),
   Sol("dev", "junk", 1, FALSE), Sol("dev", "payee", 0, FALSE), Sol("dev", "payee", 1, TRUE)}

MCKind == [xch |-> "native", cat |-> "cat", nft |-> "nft"]

MCQuotes ==
  {[usable |-> TRUE, give |-> g, out |-> o, sizedGive |-> n, sizedOut |-> z] :
     g, n \in {2, 3}, o \in {1, 2}, z \in {1, 2}}
  \cup {[usable |-> FALSE, give |-> 2, out |-> 3, sizedGive |-> 2, sizedOut |-> 2]}

Forge == INSTANCE ForgeRoutes WITH Quotes <- MCQuotes, SizeAttempts <- 2
MCRoutes == Forge!Routes

ASSUME /\ MintGateAssumption /\ SignRefAssumption /\ SpendsAssumption
       /\ SolanaAssumption /\ OffersAssumption /\ ForgeSwapAssumption

-----------------------------------------------------------------------------
mintAndSign == <<mintVars, signVars>>
chains == <<evmVars, solanaVars>>
offersAndSwaps == <<offerVars, forgeVars>>
vars == <<part, mintAndSign, chains, offersAndSwaps>>

Starts == MintInit /\ SignInit /\ EvmInit /\ SolanaInit /\ OffersInit /\ ForgeInit

\* What a part that does not run starts with makes no difference.
Init ==
  /\ part \in {"mint", "sign", "evm", "solana", "offers", "forge"}
  /\ Starts
  /\ part # "mint" => digest = CHOOSE d \in Digests : TRUE
  /\ part # "sign" => request = CHOOSE r \in Canonical : TRUE
  /\ part # "solana" => /\ config = CHOOSE c \in Configs : TRUE
                        /\ node = CHOOSE c \in Chains : TRUE
  /\ part # "forge" => router = CHOOSE r \in Routers : TRUE

Next ==
  \/ part = "mint" /\ MintNext /\ UNCHANGED <<part, signVars, chains, offersAndSwaps>>
  \/ part = "sign" /\ SignNext /\ UNCHANGED <<part, mintVars, chains, offersAndSwaps>>
  \/ part = "evm" /\ EvmNext /\ UNCHANGED <<part, mintAndSign, solanaVars, offersAndSwaps>>
  \/ part = "solana" /\ SolanaNext /\ UNCHANGED <<part, mintAndSign, evmVars, offersAndSwaps>>
  \/ part = "offers" /\ OffersNext /\ UNCHANGED <<part, mintAndSign, chains, forgeVars>>
  \/ part = "forge" /\ ForgeNext /\ UNCHANGED <<part, mintAndSign, chains, offerVars>>

Spec == Init /\ [][Next]_vars

(* Our two coins are interchangeable. *)
CoinSymmetry == Permutations({c1, c2})
=============================================================================

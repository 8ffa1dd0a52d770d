----------------------------- MODULE MCMintGate -----------------------------
(* Small instances of MintGate: two mints on two networks. *)
EXTENDS MintGate

CONSTANTS nft, cat, mainnet, testnet

MCNetworkOf == [d \in Digests |-> IF d = nft THEN testnet ELSE mainnet]
=============================================================================

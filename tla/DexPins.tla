------------------------------ MODULE DexPins ------------------------------
(***************************************************************************)
(* The table of pinned contracts (dex.py): every contract that a swap or a *)
(* liquidity call is sent to, or that may draw on an allowance, is looked  *)
(* up by its role.  The built-in table may list alternates of a role; the  *)
(* operator's overrides replace a role as a whole.  One chain; a chain     *)
(* that is not listed is a table without entries.                          *)
(***************************************************************************)
EXTENDS Naturals

CONSTANTS
  Roles,       \* what a contract is pinned as
  Contracts,   \* addresses of contracts
  Builtin,     \* the built-in primary pin of each role that has one
  Alternates,  \* further official addresses of a role
  Tokens,      \* token addresses, in the order the pools sort them by
  Rank,        \* that order; the zero address comes first
  Natives,     \* the spellings of the native coin among them
  Zero         \* the zero address, one of the spellings

ASSUME PinAssumption ==
  /\ \E D \in SUBSET Roles : Builtin \in [D -> Contracts]
  /\ Alternates \in [Roles -> SUBSET Contracts]
  /\ "none" \notin Contracts
  /\ Rank \in [Tokens -> Nat]
  /\ \A t, u \in Tokens : Rank[t] = Rank[u] => t = u
  /\ \A t \in Tokens : Rank[Zero] <= Rank[t]
  /\ Natives \subseteq Tokens /\ Zero \in Natives
  /\ Tokens \cap {"native", "pair"} = {}

IsNative(t) == t \in Natives
SameToken(t, u) == t = u \/ (IsNative(t) /\ IsNative(u))

\* The one key under which policy and velocity know a token.
AssetKey(t) == IF IsNative(t) THEN "native" ELSE t

\* The operator's entries, or a refusal to start over an unknown role or an
\* address that is none.
ParseOverrides(raw) ==
  IF \A e \in raw : e.role \in Roles /\ e.address \in Contracts
  THEN {[r \in {e.role : e \in raw} |-> (CHOOSE e \in raw : e.role = r).address]}
  ELSE {}

\* {} when the role is not pinned, so that every use of it refuses.
Primary(role, over) ==
  IF role \in DOMAIN over THEN {over[role]}
  ELSE IF role \in DOMAIN Builtin THEN {Builtin[role]} ELSE {}

PinnedSet(role, over) ==
  IF role \in DOMAIN over \/ Primary(role, over) = {}
  THEN Primary(role, over)
  ELSE Primary(role, over) \cup Alternates[role]

\* A supplied address is accepted only when it is the pinned one.
Resolve(role, supplied, over) ==
  {a \in Primary(role, over) : supplied \in {"none", a}}
=============================================================================

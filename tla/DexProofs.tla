----------------------------- MODULE DexProofs ------------------------------
(***************************************************************************)
(* What the EVM intents are bound to, for every request, quote, table of   *)
(* pins and chain (SwapDecode, EvmIntents), and so in every state of the   *)
(* walk that DexCheck takes over them.                                     *)
(*                                                                         *)
(* Swaps: a quote that the decoder lets through costs the wallet the sell  *)
(* that was counted at most, and reverts or pays the approved minimum,     *)
(* whatever its pools do; an allowance raised for it is used up. The       *)
(* argument is a ledger: what each command takes from the wallet and pays  *)
(* it (Kept) is summed up along every way the router may go.               *)
(*                                                                         *)
(* Liquidity: the calls that are signed stay inside what was approved, and *)
(* what was approved can be signed. What a queued request keeps until its  *)
(* execution is PlanBounds.                                                *)
(***************************************************************************)
EXTENDS DexCheck, SumTheorems

-----------------------------------------------------------------------------
(* DexPins: tables of pins                                                 *)

PinTables == UNION {[D -> Contracts] : D \in SUBSET Roles}

LEMMA NoPinsIsTable == NoPins \in PinTables
<1>1. NoPins \in [{} -> Contracts]
  BY DEF NoPins
<1>2. QED BY <1>1 DEF PinTables

LEMMA OverridesAreTables == OneOverride \subseteq PinTables
<1> SUFFICES ASSUME NEW raw, NEW over \in ParseOverrides(raw) PROVE over \in PinTables
  BY DEF OneOverride
<1>1. \A e \in raw : e.role \in Roles /\ e.address \in Contracts
  BY DEF ParseOverrides
<1> DEFINE D == {e.role : e \in raw}
<1>2. over = [x \in D |-> (CHOOSE e \in raw : e.role = x).address]
  BY <1>1 DEF ParseOverrides
<1>3. D \in SUBSET Roles
  BY <1>1
<1>4. \A x \in D : (CHOOSE e \in raw : e.role = x) \in raw
  OBVIOUS
<1>5. over \in [D -> Contracts]
  BY <1>1, <1>2, <1>4
<1> HIDE DEF D
<1>6. QED BY <1>3, <1>5 DEF PinTables

-----------------------------------------------------------------------------
(* SwapDecode: what a quote may carry                                      *)

Payees == {Sender, Router, "wallet", "other"}

V4ActSet ==
  [act : {"single"}, c0 : Tokens, c1 : Tokens, zeroForOne : BOOLEAN, amount : Nat, min : Nat]
  \cup [act : {"multi"}, from : Tokens, path : Seq(Tokens), amount : Nat, min : Nat]
  \cup [act : {"settle"}, currency : Tokens, amount : Nat, payerIsUser : BOOLEAN]
  \cup [act : {"settle_all"}, currency : Tokens]
  \cup [act : {"take"}, currency : Tokens, recipient : Payees, amount : Nat]
  \cup [act : {"take_all"}, currency : Tokens, min : Nat]
  \cup [act : {"other"}]

CommandSet ==
  [op : {"wrap"}, allowRevert : BOOLEAN, recipient : Payees, amount : Nat]
  \cup [op : {"v2", "v3"}, allowRevert : BOOLEAN, recipient : Payees, amount : Nat, min : Nat,
        path : Seq(Tokens), payerIsUser : BOOLEAN]
  \cup [op : {"v4"}, allowRevert : BOOLEAN, acts : Seq(V4ActSet)]
  \cup [op : {"sweep"}, allowRevert : BOOLEAN, recipient : Payees, token : Tokens, min : Nat]
  \cup [op : {"unwrap"}, allowRevert : BOOLEAN, recipient : Payees, min : Nat]
  \cup [op : {"other"}, allowRevert : BOOLEAN]

KnownVenues == {"matcha", "uniswap", "cast"}
SwapShape ==
  [venue : KnownVenues, sell : Tokens, buy : Tokens, amount : Nat, min : Nat, deadline : Nat]

(* What the wallet paid and got and what the router holds.                 *)
Ledgers ==
  [paid : [Tokens -> Int], got : [Tokens -> Int], held : [Tokens -> Int]]

(* The token that the wallet is to receive, as the chain knows it.         *)
Coin(p) == IF IsNative(p.buy) THEN Zero ELSE p.buy

LEMMA CoinIs ==
  ASSUME NEW p \in SwapShape
  PROVE  /\ Coin(p) \in Tokens /\ SameToken(Coin(p), p.buy)
         /\ \A t \in Tokens : SameToken(t, p.buy) /\ Live(t) => t = Coin(p)
BY PinAssumption DEF Coin, SameToken, Live, IsNative, SwapShape

(* A command takes pulled of the sell token from the wallet, and nothing   *)
(* else, and pays it at least delivered of what it buys.                   *)
Kept(s, o, p, pulled, delivered) ==
  /\ o \in Ledgers
  /\ o.got[Coin(p)] >= s.got[Coin(p)] + delivered
  /\ \A t \in Tokens :
       o.paid[t] = s.paid[t] + (IF t = p.sell /\ ~IsNative(t) THEN pulled ELSE 0)

LEMMA CreditKeeps ==
  ASSUME NEW s \in Ledgers, NEW t \in Tokens, NEW n \in Nat, NEW r
  PROVE  /\ Credit(s, t, n, r) \in Ledgers
         /\ Credit(s, t, n, r).paid = s.paid
         /\ \A c \in Tokens : Credit(s, t, n, r).got[c] >= s.got[c]
         /\ r \in ToWallet => Credit(s, t, n, r).got[t] = s.got[t] + n
<1>1. CASE r \in ToWallet
  BY <1>1 DEF Credit, Ledgers
<1>2. CASE r \notin ToWallet /\ r = Router
  BY <1>2 DEF Credit, Ledgers
<1>3. CASE r \notin ToWallet /\ r # Router
  BY <1>3 DEF Credit, Ledgers
<1>4. QED BY <1>1, <1>2, <1>3

LEMMA DebitKeeps ==
  ASSUME NEW s \in Ledgers, NEW t \in Tokens, NEW n \in Int
  PROVE  /\ Debit(s, t, n) \in Ledgers
         /\ Debit(s, t, n).paid = s.paid /\ Debit(s, t, n).got = s.got
BY DEF Debit, Ledgers

LEMMA PullKeeps ==
  ASSUME NEW s \in Ledgers, NEW t \in Tokens, NEW n \in Int
  PROVE  /\ Pull(s, t, n) \in Ledgers /\ Pull(s, t, n).got = s.got
         /\ \A u \in Tokens : Pull(s, t, n).paid[u] = s.paid[u] + (IF u = t THEN n ELSE 0)
BY DEF Pull, Ledgers

(* A swap: from the wallet it takes what it is given of the token it       *)
(* sells, to the wallet it pays what it guarantees.                        *)
LEMMA SwapKeeps ==
  ASSUME NEW s \in Ledgers, NEW in \in Tokens, NEW out \in Tokens, NEW n \in Int,
         NEW min \in Nat, NEW user \in BOOLEAN, NEW r,
         NEW o \in SwapOutcomes(s, in, out, n, min, user, r)
  PROVE  /\ o \in Ledgers /\ Live(in) /\ Live(out)
         /\ \A c \in Tokens : o.got[c] >= s.got[c]
         /\ r \in ToWallet => o.got[out] >= s.got[out] + min
         /\ \A t \in Tokens : o.paid[t] = s.paid[t] + (IF user /\ t = in THEN n ELSE 0)
<1> DEFINE before == IF user THEN Pull(s, in, n) ELSE Debit(s, in, n)
<1>1. Live(in) /\ Live(out)
  BY DEF SwapOutcomes
<1>2. PICK m \in min .. min + Slack : o = Credit(before, out, m, r)
  BY DEF SwapOutcomes
<1>3. m \in Nat /\ m >= min
  BY SwapAssumption
<1>4. /\ before \in Ledgers /\ before.got = s.got
      /\ \A t \in Tokens : before.paid[t] = s.paid[t] + (IF user /\ t = in THEN n ELSE 0)
  <2>1. CASE user
    BY <2>1, PullKeeps
  <2>2. CASE ~user
    <3>1. \A t \in Tokens : s.paid[t] \in Int /\ s.paid[t] = s.paid[t] + 0
      BY DEF Ledgers
    <3>2. before = Debit(s, in, n)
      BY <2>2
    <3> HIDE DEF before
    <3>3. before \in Ledgers /\ before.got = s.got /\ before.paid = s.paid
      BY <3>2, DebitKeeps
    <3>4. QED BY <2>2, <3>1, <3>3
  <2>3. QED BY <2>1, <2>2
<1> HIDE DEF before
<1>5. /\ o \in Ledgers /\ o.paid = before.paid
      /\ \A c \in Tokens : o.got[c] >= before.got[c]
      /\ r \in ToWallet => o.got[out] = before.got[out] + m
  BY <1>2, <1>3, <1>4, CreditKeeps
<1>6. s.got[out] \in Int
  BY DEF Ledgers
<1>7. r \in ToWallet => o.got[out] >= s.got[out] + min
  BY <1>3, <1>4, <1>5, <1>6
<1>8. \A t \in Tokens : o.paid[t] = before.paid[t]
  BY <1>5
<1>9. QED BY <1>1, <1>4, <1>5, <1>7, <1>8, Zenon

LEMMA ActShapes ==
  ASSUME NEW a \in V4ActSet
  PROVE  /\ a.act \in V4Swaps => a.amount \in Nat /\ a.min \in Nat
         /\ a.act = "take_all" => a.min \in Nat
         /\ a.act \in V4Swaps => V4In(a) \in Tokens
         /\ a.act \in V4Swaps /\ (a.act = "multi" => Len(a.path) \in 1 .. MaxHops) =>
              V4Out(a) \in Tokens
         /\ a.act = "settle" => a.payerIsUser \in BOOLEAN
<1>1. CASE a \in [act : {"single"}, c0 : Tokens, c1 : Tokens, zeroForOne : BOOLEAN,
                  amount : Nat, min : Nat]
  BY <1>1 DEF V4Swaps, V4In, V4Out
<1>2. CASE a \in [act : {"multi"}, from : Tokens, path : Seq(Tokens), amount : Nat, min : Nat]
  <2>1. Len(a.path) \in 1 .. MaxHops => Last(a.path) \in Tokens
    BY <1>2, SwapAssumption DEF Last
  <2>2. QED BY <1>2, <2>1 DEF V4Swaps, V4In, V4Out
<1>3. CASE a.act \notin V4Swaps
  <2>1. a.act = "take_all" => a.min \in Nat
    BY <1>3 DEF V4ActSet, V4Swaps
  <2>2. a.act = "settle" => a.payerIsUser \in BOOLEAN
    BY <1>3 DEF V4ActSet, V4Swaps
  <2>3. QED BY <1>3, <2>1, <2>2
<1>4. QED BY <1>1, <1>2, <1>3 DEF V4ActSet, V4Swaps

LEMMA V4Sums ==
  ASSUME NEW acts \in Seq(V4ActSet)
  PROVE  V4AmountIn(acts) \in Nat /\ V4Minimum(acts) \in Nat
<1> DEFINE amounts == [i \in SwapsOf(acts) |-> acts[i].amount]
           mins == [i \in SwapsOf(acts) |-> acts[i].min]
           last == {j \in DOMAIN acts : acts[j].act = "take_all"}
           all == {acts[i].min : i \in last}
<1>1. DOMAIN acts = 1 .. Len(acts) /\ Len(acts) \in Nat
  OBVIOUS
<1>2. IsFiniteSet(DOMAIN acts)
  BY <1>1, FS_Interval
<1>3. /\ IsFiniteSet(SwapsOf(acts)) /\ SwapsOf(acts) \subseteq DOMAIN acts
      /\ IsFiniteSet(last) /\ last \subseteq DOMAIN acts
  BY <1>2, FS_Subset DEF SwapsOf
<1>4. \A i \in DOMAIN acts : acts[i] \in V4ActSet
  OBVIOUS
<1>5. Summable(amounts) /\ Summable(mins)
  BY <1>3, <1>4, ActShapes DEF Summable, Naturals, SwapsOf
<1>6. all \subseteq Nat
  BY <1>4, ActShapes
<1>7. IsFiniteSet(all)
  <2> DEFINE h == [i \in last |-> acts[i].min]
  <2>1. h \in Surjection(last, all)
    BY DEF Surjection
  <2> HIDE DEF h, all, last
  <2>2. QED BY <1>3, <2>1, FS_Surjection
<1>8. SumFunction(amounts) \in Nat /\ SumFunction(mins) \in Nat
  BY <1>5, SumOfCells
<1> DEFINE T == {SumFunction(mins)} \cup all
<1>9. IsFiniteSet(T) /\ T \subseteq Nat /\ T # {}
  BY <1>6, <1>7, <1>8, FS_Singleton, FS_Union
<1> HIDE DEF T
<1>10. \E m \in T : \A n \in T : m >= n
  BY <1>9, LargestOf
<1>11. V4Minimum(acts) = CHOOSE m \in T : \A n \in T : m >= n
  BY DEF V4Minimum, T
<1>12. V4Minimum(acts) \in T
  BY <1>10, <1>11
<1>13. QED BY <1>8, <1>9, <1>12 DEF V4AmountIn

LEMMA V4Keeps ==
  ASSUME NEW p \in SwapShape, NEW acts \in Seq(V4ActSet), V4Bound(acts, p),
         NEW s \in Ledgers, NEW o \in V4Outcomes(s, acts)
  PROVE  Kept(s, o, p, IF IsNative(p.sell) THEN 0 ELSE V4AmountIn(acts), V4Minimum(acts))
<1> DEFINE n == V4AmountIn(acts)
           min == V4Minimum(acts)
           some == acts[CHOOSE i \in SwapsOf(acts) : TRUE]
           in == V4In(some)
           out == V4Out(some)
           settle == CHOOSE a \in ToSet(acts) : a.act \in V4Settles
           user == in # Zero /\ (settle.act = "settle_all" \/ settle.payerIsUser)
           take == CHOOSE a \in ToSet(acts) : a.act \in V4Takes
           r == IF take.act = "take" THEN take.recipient ELSE Sender
<1>1. n \in Nat /\ min \in Nat
  BY V4Sums
<1>2. /\ DOMAIN acts = 1 .. Len(acts) /\ Len(acts) \in Nat
      /\ \A i \in DOMAIN acts : acts[i] \in V4ActSet
  OBVIOUS
<1>3. \A i \in DOMAIN acts : V4ActBound(acts[i], p, n)
  BY DEF V4Bound
<1>4. /\ Len(acts) - 2 >= 1 /\ \A i \in 1 .. Len(acts) - 2 : acts[i].act \in V4Swaps
      /\ {acts[Len(acts) - 1].act, acts[Len(acts)].act} \cap V4Settles # {}
      /\ {acts[Len(acts) - 1].act, acts[Len(acts)].act} \cap V4Takes # {}
  BY <1>2 DEF V4Bound, V4Shape
<1>5. some \in V4ActSet /\ some.act \in V4Swaps /\ V4ActBound(some, p, n)
  <2>1. 1 \in SwapsOf(acts)
    BY <1>2, <1>4 DEF SwapsOf
  <2>2. (CHOOSE i \in SwapsOf(acts) : TRUE) \in SwapsOf(acts)
    BY <2>1
  <2>3. QED BY <1>2, <1>3, <2>2 DEF SwapsOf
<1>6. /\ SameToken(in, p.sell) /\ SameToken(out, p.buy)
      /\ some.act = "multi" => Len(some.path) \in 1 .. MaxHops
  BY <1>5 DEF V4ActBound, V4Swaps
<1>7. in \in Tokens /\ out \in Tokens
  BY <1>5, <1>6, ActShapes
<1>8. settle \in ToSet(acts) /\ settle.act \in V4Settles
  <2>1. \E a \in ToSet(acts) : a.act \in V4Settles
    BY <1>2, <1>4 DEF ToSet
  <2>2. QED BY <2>1
<1>9. take \in ToSet(acts) /\ take.act \in V4Takes
  <2>1. \E a \in ToSet(acts) : a.act \in V4Takes
    BY <1>2, <1>4 DEF ToSet
  <2>2. QED BY <2>1
<1>10. /\ settle \in V4ActSet /\ V4ActBound(settle, p, n)
       /\ take \in V4ActSet /\ V4ActBound(take, p, n)
  BY <1>2, <1>3, <1>8, <1>9 DEF ToSet
<1> HIDE DEF some, settle, take
<1>11. IsNative(p.sell) \/ settle.act = "settle_all" \/ settle.payerIsUser
  BY <1>8, <1>10 DEF V4ActBound, V4Settles, V4Swaps
<1>12. r \in ToWallet
  BY <1>9, <1>10 DEF V4ActBound, V4Takes, V4Swaps, ToWallet, Sender
<1>13. user \in BOOLEAN
  BY <1>8, <1>10, ActShapes DEF V4Settles
<1>14. o \in SwapOutcomes(s, in, out, n, min, user, r)
  BY DEF V4Outcomes, some, settle, take
<1> HIDE DEF n, min, in, out, r
<1>15. Coin(p) \in Tokens
  BY CoinIs
<1> DEFINE b == user
<1>16. b \in BOOLEAN /\ o \in SwapOutcomes(s, in, out, n, min, b, r)
  BY <1>13, <1>14
<1>17. b <=> in # Zero /\ (settle.act = "settle_all" \/ settle.payerIsUser)
  OBVIOUS
<1> HIDE DEF user, b
<1>18. /\ o \in Ledgers /\ Live(in) /\ Live(out)
       /\ o.got[out] >= s.got[out] + min
       /\ \A t \in Tokens : o.paid[t] = s.paid[t] + (IF b /\ t = in THEN n ELSE 0)
  BY <1>1, <1>7, <1>12, <1>16, SwapKeeps
<1>19. out = Coin(p)
  BY <1>6, <1>7, <1>18, CoinIs
<1>20. \A t \in Tokens : (b /\ t = in) <=> (t = p.sell /\ ~IsNative(t))
  BY <1>6, <1>11, <1>17, <1>18, PinAssumption DEF Live, SameToken, IsNative
<1>21. \A t \in Tokens :
         o.paid[t] = s.paid[t] + (IF t = p.sell /\ ~IsNative(t)
                                  THEN IF IsNative(p.sell) THEN 0 ELSE n ELSE 0)
  BY <1>18, <1>20
<1>22. QED BY <1>18, <1>19, <1>21 DEF Kept, n, min

(* The commands that the decoder lets through, each with what it pulls and *)
(* what it delivers.                                                       *)
LEMMA CommandKeeps ==
  ASSUME NEW p \in SwapShape, NEW c \in CommandSet, CommandBound(c, p),
         NEW s \in Ledgers, NEW o \in CommandOutcomes(s, c)
  PROVE  Kept(s, o, p, Pulls(c, p), Delivers(c, p))
<1>1. c.op \in {"wrap", "v2", "v3", "v4", "sweep", "unwrap"}
  BY DEF CommandBound
<1>2. Coin(p) \in Tokens /\ Wrapped \in Tokens /\ Zero \in Tokens
  BY CoinIs, SwapAssumption, PinAssumption
<1>3. \A t \in Tokens : s.paid[t] \in Int /\ s.got[t] \in Int /\ s.held[t] \in Int
                        /\ s.paid[t] + 0 = s.paid[t] /\ s.got[t] + 0 = s.got[t]
  BY DEF Ledgers
<1>4. CASE c.op = "wrap"
  <2>1. c.amount \in Nat
    BY <1>4 DEF CommandSet
  <2>2. o = Credit(Debit(s, Zero, c.amount), Wrapped, c.amount, c.recipient)
    BY <1>4 DEF CommandOutcomes
  <2> DEFINE n == c.amount
             r == c.recipient
             before == Debit(s, Zero, n)
  <2>3. before \in Ledgers /\ before.paid = s.paid /\ before.got = s.got
    BY <1>2, <2>1, DebitKeeps
  <2>7. n \in Nat /\ o = Credit(before, Wrapped, n, r)
    BY <2>1, <2>2
  <2> HIDE DEF before, n, r
  <2>4. o \in Ledgers /\ o.paid = s.paid /\ o.got[Coin(p)] >= s.got[Coin(p)]
    <3>1. /\ Credit(before, Wrapped, n, r) \in Ledgers
          /\ Credit(before, Wrapped, n, r).paid = before.paid
          /\ \A t \in Tokens : Credit(before, Wrapped, n, r).got[t] >= before.got[t]
      <4>1. before \in Ledgers
        BY <2>3
      <4>2. Wrapped \in Tokens
        BY <1>2
      <4>3. n \in Nat
        BY <2>7
      <4>4. Credit(before, Wrapped, n, r) \in Ledgers
        BY <4>1, <4>2, <4>3, CreditKeeps
      <4>5. Credit(before, Wrapped, n, r).paid = before.paid
        BY <4>1, <4>2, <4>3, CreditKeeps
      <4>6. \A t \in Tokens : Credit(before, Wrapped, n, r).got[t] >= before.got[t]
        BY <4>1, <4>2, <4>3, CreditKeeps
      <4>7. QED BY <4>4, <4>5, <4>6
    <3>2. QED BY <1>2, <2>3, <2>7, <3>1
  <2>5. Pulls(c, p) = 0 /\ Delivers(c, p) = 0
    BY <1>4 DEF Pulls, Delivers
  <2>6. QED BY <1>2, <1>3, <2>4, <2>5 DEF Kept
<1>5. CASE c.op \in {"v2", "v3"}
  <2> DEFINE n == IF c.amount = Balance THEN s.held[c.path[1]] ELSE c.amount
             in == c.path[1]
             out == Last(c.path)
             r == c.recipient
             user == c.payerIsUser
             min == c.min
             coin == Coin(p)
  <2>1. /\ c.amount \in Nat /\ c.min \in Nat /\ c.path \in Seq(Tokens)
        /\ c.payerIsUser \in BOOLEAN
    BY <1>5 DEF CommandSet
  <2>2. /\ Len(c.path) >= 2
        /\ c.payerIsUser => ~IsNative(p.sell) /\ in = p.sell /\ c.amount # Balance
        /\ c.recipient \in ToWallet => ~IsNative(p.buy) /\ out = p.buy
    BY <1>5 DEF CommandBound
  <2>3. in \in Tokens /\ out \in Tokens
    BY <2>1, <2>2 DEF Last
  <2>4. n \in Int
    BY <1>3, <2>1, <2>3
  <2>5. o \in SwapOutcomes(s, in, out, n, c.min, c.payerIsUser, c.recipient)
    BY <1>5 DEF CommandOutcomes
  <2>6. c.payerIsUser => n = c.amount
    BY <2>2
  <2>12. min \in Nat /\ user \in BOOLEAN /\ coin \in Tokens
    BY <1>2, <2>1
  <2>13. o \in SwapOutcomes(s, in, out, n, min, user, r)
    BY <2>5
  <2> HIDE DEF n, in, out, r, user, min, coin
  <2>14. /\ o \in Ledgers
         /\ o.got[coin] >= s.got[coin]
         /\ r \in ToWallet => o.got[out] >= s.got[out] + min
         /\ \A t \in Tokens : o.paid[t] = s.paid[t] + (IF user /\ t = in THEN n ELSE 0)
    BY <2>3, <2>4, <2>12, <2>13, SwapKeeps
  <2>7. /\ o \in Ledgers
        /\ o.got[Coin(p)] >= s.got[Coin(p)]
        /\ c.recipient \in ToWallet => o.got[out] >= s.got[out] + c.min
        /\ \A t \in Tokens : o.paid[t] = s.paid[t] + (IF c.payerIsUser /\ t = in THEN n ELSE 0)
    BY <2>14 DEF r, user, min, coin
  <2>8. /\ Pulls(c, p) = IF c.payerIsUser THEN c.amount ELSE 0
        /\ Delivers(c, p) = IF c.recipient \in ToWallet THEN c.min ELSE 0
    BY <1>5 DEF Pulls, Delivers
  <2>9. o.got[Coin(p)] >= s.got[Coin(p)] + Delivers(c, p)
    <3>1. CASE c.recipient \in ToWallet
      <4>1. out = Coin(p)
        BY <2>2, <3>1 DEF Coin
      <4>2. QED BY <2>7, <2>8, <3>1, <4>1
    <3>2. CASE c.recipient \notin ToWallet
      BY <1>2, <1>3, <2>7, <2>8, <3>2
    <3>3. QED BY <3>1, <3>2
  <2>10. ASSUME NEW t \in Tokens
         PROVE  o.paid[t] = s.paid[t] + (IF t = p.sell /\ ~IsNative(t) THEN Pulls(c, p) ELSE 0)
    <3>1. CASE c.payerIsUser
      BY <2>2, <2>6, <2>7, <2>8, <3>1
    <3>2. CASE ~c.payerIsUser
      BY <2>7, <2>8, <3>2
    <3>3. QED BY <3>1, <3>2
  <2>11. QED BY <2>7, <2>9, <2>10 DEF Kept
<1>6. CASE c.op = "v4"
  <2>1. c.acts \in Seq(V4ActSet)
    BY <1>6 DEF CommandSet
  <2>2. V4Bound(c.acts, p)
    BY <1>6 DEF CommandBound
  <2>3. o \in V4Outcomes(s, c.acts)
    BY <1>6 DEF CommandOutcomes
  <2>4. /\ Pulls(c, p) = IF IsNative(p.sell) THEN 0 ELSE V4AmountIn(c.acts)
        /\ Delivers(c, p) = V4Minimum(c.acts)
    BY <1>6 DEF Pulls, Delivers
  <2>5. QED BY <2>1, <2>2, <2>3, <2>4, V4Keeps
<1>7. CASE c.op \in {"sweep", "unwrap"}
  <2> DEFINE t == IF c.op = "sweep" THEN c.token ELSE Wrapped
             n == s.held[t]
  <2>1. /\ c.min \in Nat /\ t \in Tokens
    BY <1>2, <1>7 DEF CommandSet
  <2>2. n >= c.min /\ n \in Nat
    BY <1>3, <1>7, <2>1 DEF CommandOutcomes
  <2>3. o = Credit(Debit(s, t, n), Coin(p), n, c.recipient) /\ c.recipient \in ToWallet
    BY <1>7 DEF CommandOutcomes, CommandBound, Coin
  <2>4. Pulls(c, p) = 0 /\ Delivers(c, p) = c.min
    BY <1>7 DEF Pulls, Delivers
  <2> HIDE DEF t, n
  <2>5. Debit(s, t, n) \in Ledgers /\ Debit(s, t, n).got = s.got /\ Debit(s, t, n).paid = s.paid
    BY <2>1, <2>2, DebitKeeps
  <2>6. o \in Ledgers /\ o.paid = s.paid /\ o.got[Coin(p)] = s.got[Coin(p)] + n
    BY <1>2, <2>2, <2>3, <2>5, CreditKeeps
  <2>7. o.got[Coin(p)] >= s.got[Coin(p)] + c.min
    BY <1>2, <1>3, <2>1, <2>2, <2>6
  <2>8. QED BY <1>2, <1>3, <2>4, <2>6, <2>7 DEF Kept
<1>8. QED BY <1>1, <1>4, <1>5, <1>6, <1>7

LEMMA CommandNumbers ==
  ASSUME NEW p, NEW c \in CommandSet, CommandBound(c, p)
  PROVE  Pulls(c, p) \in Nat /\ Delivers(c, p) \in Nat
<1>1. c.op \in {"wrap", "v2", "v3", "v4", "sweep", "unwrap"}
  BY DEF CommandBound
<1>2. CASE c.op = "wrap"
  BY <1>2 DEF Pulls, Delivers
<1>3. CASE c.op \in {"v2", "v3"}
  <2>1. c.amount \in Nat /\ c.min \in Nat
    BY <1>3 DEF CommandSet
  <2>2. QED BY <1>3, <2>1 DEF Pulls, Delivers
<1>4. CASE c.op = "v4"
  <2>1. c.acts \in Seq(V4ActSet)
    BY <1>4 DEF CommandSet
  <2>2. QED BY <1>4, <2>1, V4Sums DEF Pulls, Delivers
<1>5. CASE c.op \in {"sweep", "unwrap"}
  <2>1. c.min \in Nat
    BY <1>5 DEF CommandSet
  <2>2. QED BY <1>5, <2>1 DEF Pulls, Delivers
<1>6. QED BY <1>1, <1>2, <1>3, <1>4, <1>5

(* The sums of the first k values of f.                                    *)
FirstOf(f, k) == [i \in 1 .. k |-> f[i]]

LEMMA SumOfFirst ==
  ASSUME NEW n \in Nat, NEW f \in [1 .. n -> Nat]
  PROVE  /\ SumFunction(FirstOf(f, 0)) = 0
         /\ SumFunction(FirstOf(f, n)) = SumFunction(f)
         /\ \A k \in 1 .. n :
              SumFunction(FirstOf(f, k)) = f[k] + SumFunction(FirstOf(f, k - 1))
         /\ \A k \in 0 .. n : SumFunction(FirstOf(f, k)) \in Nat
<1>1. \A k \in 0 .. n : Summable(FirstOf(f, k)) /\ DOMAIN FirstOf(f, k) = 1 .. k
  <2> SUFFICES ASSUME NEW k \in 0 .. n
               PROVE  Summable(FirstOf(f, k)) /\ DOMAIN FirstOf(f, k) = 1 .. k
    OBVIOUS
  <2>1. IsFiniteSet(1 .. k)
    BY FS_Interval
  <2>2. QED BY <2>1 DEF FirstOf, Summable, Naturals
<1>2. SumFunction(FirstOf(f, 0)) = 0
  <2>1. CellsOf(FirstOf(f, 0)) = {}
    BY <1>1 DEF CellsOf, Cells
  <2>2. 0 \in 0 .. n
    OBVIOUS
  <2>3. SumFunction(FirstOf(f, 0)) = Cardinality(CellsOf(FirstOf(f, 0)))
    BY <1>1, <2>2, SumOfCells
  <2>4. QED BY <2>1, <2>3, FS_EmptySet
<1>3. FirstOf(f, n) = f
  BY DEF FirstOf
<1>4. ASSUME NEW k \in 1 .. n
      PROVE  SumFunction(FirstOf(f, k)) = f[k] + SumFunction(FirstOf(f, k - 1))
  <2> DEFINE g == FirstOf(f, k)
             h == FirstOf(f, k - 1)
  <2>1. k \in 0 .. n /\ k - 1 \in 0 .. n
    OBVIOUS
  <2>2. Summable(g) /\ Summable(h) /\ DOMAIN g = 1 .. k /\ DOMAIN h = 1 .. k - 1
    BY <1>1, <2>1
  <2>3. g[k] = f[k] /\ \A y \in DOMAIN h : h[y] = g[y]
    BY <2>2 DEF FirstOf
  <2>4. k \notin DOMAIN h /\ \A y : y \in DOMAIN g <=> y \in DOMAIN h \/ y = k
    BY <2>2
  <2> HIDE DEF g, h
  <2>5. SumFunction(g) = g[k] + SumFunction(h)
    BY <2>2, <2>3, <2>4, SumWithOneMore
  <2>6. QED BY <2>3, <2>5 DEF g, h
<1>5. \A k \in 0 .. n : SumFunction(FirstOf(f, k)) \in Nat
  BY <1>1, SumOfCells
<1>6. QED BY <1>2, <1>3, <1>4, <1>5

(* The states that the router may be in after each of its commands.        *)
IsRun(f, cmds, value, n) ==
  f = [k \in 0 .. n |->
         IF k = 0 THEN {Start(value)}
         ELSE UNION {CommandOutcomes(s, cmds[k]) : s \in f[k - 1]}]

LEMMA RunExists ==
  ASSUME NEW cmds, NEW value, NEW n \in Nat
  PROVE  \E f : IsRun(f, cmds, value, n)
<1> DEFINE After(S, k) == UNION {CommandOutcomes(s, cmds[k]) : s \in S}
           Bad == {m \in Nat : ~ \E f : IsRun(f, cmds, value, m)}
<1>1. ASSUME Bad # {} PROVE FALSE
  <2>1. PICK m \in Bad : \A k \in Bad : m <= k
    <3>1. Bad \subseteq Nat
      OBVIOUS
    <3> HIDE DEF Bad
    <3>2. QED BY <1>1, <3>1, LeastOf
  <2>2. CASE m = 0
    <3> DEFINE f == [k \in 0 .. 0 |-> {Start(value)}]
    <3>1. f = [k \in 0 .. 0 |-> IF k = 0 THEN {Start(value)} ELSE After(f[k - 1], k)]
      OBVIOUS
    <3>2. IsRun(f, cmds, value, 0)
      BY <3>1 DEF IsRun
    <3>3. QED BY <2>1, <2>2, <3>2
  <2>3. CASE m # 0
    <3>1. m - 1 \in Nat /\ m \in Nat
      BY <2>1, <2>3
    <3>2. m - 1 \notin Bad
      <4> HIDE DEF Bad
      <4>1. QED BY <2>1, <3>1
    <3>3. PICK f : IsRun(f, cmds, value, m - 1)
      BY <3>1, <3>2
    <3> DEFINE g == [k \in 0 .. m |-> IF k = m THEN After(f[m - 1], m) ELSE f[k]]
    <3>4. f = [k \in 0 .. m - 1 |-> IF k = 0 THEN {Start(value)} ELSE After(f[k - 1], k)]
      BY <3>3 DEF IsRun
    <3> HIDE DEF After
    <3>5. \A k \in 0 .. m : g[k] = IF k = 0 THEN {Start(value)} ELSE After(g[k - 1], k)
      <4>1. ASSUME NEW k \in 0 .. m, k # m
            PROVE  g[k] = IF k = 0 THEN {Start(value)} ELSE After(g[k - 1], k)
        <5>1. k \in 0 .. m - 1 /\ g[k] = f[k]
          BY <3>1, <4>1
        <5>2. k # 0 => k - 1 \in 0 .. m /\ k - 1 # m /\ g[k - 1] = f[k - 1]
          BY <3>1, <4>1
        <5>3. f[k] = IF k = 0 THEN {Start(value)} ELSE After(f[k - 1], k)
          BY <3>4, <5>1
        <5> HIDE DEF g
        <5>4. QED BY <5>1, <5>2, <5>3
      <4>2. g[m] = After(g[m - 1], m)
        BY <2>3, <3>1
      <4>3. QED BY <2>3, <4>1, <4>2
    <3>6. g = [k \in 0 .. m |-> g[k]]
      OBVIOUS
    <3> HIDE DEF g
    <3>7. g = [k \in 0 .. m |-> IF k = 0 THEN {Start(value)} ELSE After(g[k - 1], k)]
      BY <3>5, <3>6
    <3>8. IsRun(g, cmds, value, m)
      BY <3>7 DEF IsRun, After
    <3>9. QED BY <2>1, <3>8
  <2>4. QED BY <2>2, <2>3
<1>2. QED BY <1>1

LEMMA RouterOutcomesAre ==
  ASSUME NEW cmds \in Seq(CommandSet), NEW value
  PROVE  \E f : IsRun(f, cmds, value, Len(cmds)) /\ RouterOutcomes(cmds, value) = f[Len(cmds)]
<1> DEFINE f == CHOOSE g : IsRun(g, cmds, value, Len(cmds))
<1>1. RouterOutcomes(cmds, value) = f[Len(cmds)]
  BY Zenon DEF RouterOutcomes, IsRun
<1>2. \E g : IsRun(g, cmds, value, Len(cmds))
  <2>1. Len(cmds) \in Nat
    OBVIOUS
  <2>2. QED BY <2>1, RunExists
<1>3. IsRun(f, cmds, value, Len(cmds))
  BY <1>2
<1>4. QED BY <1>1, <1>3

LEMMA StartIs ==
  ASSUME NEW value \in Nat
  PROVE  /\ Start(value) \in Ledgers
         /\ \A t \in Tokens : /\ Start(value).got[t] = 0
                              /\ Start(value).paid[t] = IF t = Zero THEN value ELSE 0
BY DEF Start, Ledgers

(* A call that the decoder lets through costs the sell, all of it, and     *)
(* pays the minimum, when it does not revert.                              *)
LEMMA RouterKeeps ==
  ASSUME NEW p \in SwapShape, NEW cmds \in Seq(CommandSet), NEW value \in Nat,
         RouterBound(cmds, p, value), NEW o \in RouterOutcomes(cmds, value)
  PROVE  /\ o.got[Coin(p)] >= p.min
         /\ IsNative(p.sell) => value = p.amount
         /\ \A t \in Tokens :
              o.paid[t] = (IF t = Zero THEN value ELSE 0)
                          + (IF t = p.sell /\ ~IsNative(t) THEN p.amount ELSE 0)
<1> DEFINE n == Len(cmds)
           pulls == [i \in DOMAIN cmds |-> Pulls(cmds[i], p)]
           gains == [i \in DOMAIN cmds |-> Delivers(cmds[i], p)]
           pulled(k) == SumFunction(FirstOf(pulls, k))
           gained(k) == SumFunction(FirstOf(gains, k))
           Good(s, k) ==
             /\ s \in Ledgers
             /\ s.got[Coin(p)] >= gained(k)
             /\ \A t \in Tokens :
                  s.paid[t] = (IF t = Zero THEN value ELSE 0)
                              + (IF t = p.sell /\ ~IsNative(t) THEN pulled(k) ELSE 0)
<1>1. n \in Nat /\ DOMAIN cmds = 1 .. n /\ \A i \in 1 .. n : cmds[i] \in CommandSet
  OBVIOUS
<1>2. \A i \in 1 .. n : CommandBound(cmds[i], p)
  BY <1>1 DEF RouterBound
<1>3. pulls \in [1 .. n -> Nat] /\ gains \in [1 .. n -> Nat]
  BY <1>1, <1>2, CommandNumbers
<1>4. /\ pulled(0) = 0 /\ gained(0) = 0
      /\ pulled(n) = SumFunction(pulls) /\ gained(n) = SumFunction(gains)
      /\ \A k \in 1 .. n : /\ pulled(k) = pulls[k] + pulled(k - 1)
                           /\ gained(k) = gains[k] + gained(k - 1)
      /\ \A k \in 0 .. n : pulled(k) \in Nat /\ gained(k) \in Nat
  <2> HIDE DEF pulls, gains, n
  <2>1. QED BY <1>1, <1>3, SumOfFirst
<1>5. \A k \in 1 .. n : pulls[k] = Pulls(cmds[k], p) /\ gains[k] = Delivers(cmds[k], p)
  BY <1>1
<1>6. /\ SumFunction(gains) >= p.min
      /\ IsNative(p.sell) => value = p.amount
      /\ ~IsNative(p.sell) => SumFunction(pulls) = p.amount
  <2>1. SumFunction(gains) >= p.min
    BY Zenon DEF RouterBound, SumOf
  <2>2. IsNative(p.sell) => value = p.amount
    BY Zenon DEF RouterBound
  <2>3. ~IsNative(p.sell) => SumFunction(pulls) = p.amount
    BY Zenon DEF RouterBound, SumOf
  <2>4. QED BY <2>1, <2>2, <2>3
<1> HIDE DEF n, pulls, gains
<1>7. PICK f : IsRun(f, cmds, value, n) /\ RouterOutcomes(cmds, value) = f[n]
  BY RouterOutcomesAre DEF n
<1>8. f[0] = {Start(value)}
  BY <1>1, <1>7 DEF IsRun
<1>9. ASSUME NEW k \in 1 .. n, NEW u \in f[k]
      PROVE  \E s \in f[k - 1] : u \in CommandOutcomes(s, cmds[k])
  <2>1. k \in 0 .. n /\ k # 0
    BY <1>1
  <2>2. f[k] = IF k = 0 THEN {Start(value)}
               ELSE UNION {CommandOutcomes(s, cmds[k]) : s \in f[k - 1]}
    BY <1>7, <2>1, Zenon DEF IsRun
  <2>3. f[k] = UNION {CommandOutcomes(s, cmds[k]) : s \in f[k - 1]}
    BY <2>1, <2>2, Zenon
  <2>4. QED BY <2>3, Zenon
<1>10. Coin(p) \in Tokens
  BY CoinIs
<1>11. ASSUME NEW s, s = Start(value) PROVE Good(s, 0)
  <2> HIDE DEF pulled, gained
  <2>1. s \in Ledgers
    BY <1>11, StartIs
  <2>2. s.got[Coin(p)] = 0
    BY <1>10, <1>11, StartIs
  <2>3. s.got[Coin(p)] >= gained(0)
    BY <1>4, <2>2
  <2>4. \A t \in Tokens : s.paid[t] = (IF t = Zero THEN value ELSE 0)
                                       + (IF t = p.sell /\ ~IsNative(t) THEN pulled(0) ELSE 0)
    <3> SUFFICES ASSUME NEW t \in Tokens
                 PROVE  s.paid[t] = (IF t = Zero THEN value ELSE 0)
                                    + (IF t = p.sell /\ ~IsNative(t) THEN pulled(0) ELSE 0)
      OBVIOUS
    <3>1. s.paid[t] = (IF t = Zero THEN value ELSE 0)
      BY <1>11, StartIs
    <3>2. pulled(0) = 0
      BY <1>4
    <3>3. QED BY <3>1, <3>2
  <2>5. QED BY <2>1, <2>3, <2>4
<1>12. ASSUME NEW k \in 1 .. n, NEW s, Good(s, k - 1), NEW u \in CommandOutcomes(s, cmds[k])
       PROVE  Good(u, k)
  <2>1. s \in Ledgers
    BY <1>12
  <2>2. Kept(s, u, p, Pulls(cmds[k], p), Delivers(cmds[k], p))
    BY <1>1, <1>2, <2>1, CommandKeeps
  <2>3. Kept(s, u, p, pulls[k], gains[k])
    BY <1>5, <2>2
  <2>4. /\ k - 1 \in 0 .. n /\ k \in 0 .. n
    BY <1>1
  <2> DEFINE pk == pulled(k)   pb == pulled(k - 1)   gk == gained(k)   gb == gained(k - 1)
  <2>5. /\ pk = pulls[k] + pb /\ gk = gains[k] + gb
        /\ {pk, pb, gk, gb, pulls[k], gains[k]} \subseteq Nat
    BY <1>3, <1>4, <2>4
  <2>6. /\ s.got[Coin(p)] >= gb
        /\ \A t \in Tokens :
             s.paid[t] = (IF t = Zero THEN value ELSE 0)
                         + (IF t = p.sell /\ ~IsNative(t) THEN pb ELSE 0)
    BY <1>12
  <2> HIDE DEF pulled, gained, pk, pb, gk, gb
  <2>7. /\ u \in Ledgers
        /\ u.got[Coin(p)] >= s.got[Coin(p)] + gains[k]
        /\ \A t \in Tokens :
             u.paid[t] = s.paid[t] + (IF t = p.sell /\ ~IsNative(t) THEN pulls[k] ELSE 0)
    BY <2>3 DEF Kept
  <2>8. s.got[Coin(p)] \in Int /\ u.got[Coin(p)] \in Int
    BY <1>10, <2>1, <2>7 DEF Ledgers
  <2>9. u.got[Coin(p)] >= gk
    BY <2>5, <2>6, <2>7, <2>8
  <2>10. \A t \in Tokens :
           u.paid[t] = (IF t = Zero THEN value ELSE 0)
                       + (IF t = p.sell /\ ~IsNative(t) THEN pk ELSE 0)
    BY <2>5, <2>6, <2>7
  <2>11. QED BY <2>7, <2>9, <2>10 DEF pk, gk
<1> HIDE DEF Good
<1> DEFINE Bad == {k \in 0 .. n : \E s \in f[k] : ~Good(s, k)}
<1>13. ASSUME Bad # {} PROVE FALSE
  <2>1. PICK k \in Bad : \A j \in Bad : k <= j
    <3>1. Bad \subseteq Nat
      BY <1>1
    <3> HIDE DEF Bad
    <3>2. QED BY <1>13, <3>1, LeastOf
  <2>2. PICK u \in f[k] : ~Good(u, k)
    BY <2>1
  <2>3. k \in 0 .. n
    BY <2>1
  <2>4. k # 0
    BY <1>8, <1>11, <2>2
  <2>5. k \in 1 .. n /\ k - 1 \in 0 .. n
    BY <1>1, <2>3, <2>4
  <2>6. PICK s \in f[k - 1] : u \in CommandOutcomes(s, cmds[k])
    BY <1>9, <2>2, <2>5
  <2>7. ~Good(s, k - 1)
    BY <1>12, <2>2, <2>5, <2>6
  <2>8. k - 1 \in Bad
    BY <2>5, <2>6, <2>7
  <2> HIDE DEF Bad
  <2>9. QED BY <2>1, <2>3, <2>8
<1>14. Good(o, n)
  <2>1. n \in 0 .. n /\ o \in f[n]
    BY <1>1, <1>7
  <2>2. QED BY <1>13, <2>1
<1>15. /\ o.got[Coin(p)] >= gained(n) /\ o.got[Coin(p)] \in Int
       /\ \A t \in Tokens :
            o.paid[t] = (IF t = Zero THEN value ELSE 0)
                        + (IF t = p.sell /\ ~IsNative(t) THEN pulled(n) ELSE 0)
  BY <1>10, <1>14 DEF Good, Ledgers
<1>16. n \in 0 .. n
  BY <1>1
<1>17. gained(n) \in Nat /\ gained(n) = SumFunction(gains) /\ pulled(n) = SumFunction(pulls)
  BY <1>4, <1>16
<1> HIDE DEF gained, pulled
<1>18. p.min \in Nat
  BY DEF SwapShape
<1>19. o.got[Coin(p)] >= p.min
  BY <1>6, <1>15, <1>17, <1>18
<1>20. QED BY <1>6, <1>15, <1>17, <1>19

-----------------------------------------------------------------------------
(* SwapDecode: the quotes                                                  *)

Parties == Contracts \cup Tokens \cup {CHOOSE s \in Settlers : TRUE}
HolderCalls ==
  [selector : {"holder.exec"}, token : Tokens, amount : Nat, operator : Parties,
   target : Parties,
   inner : [selector : {"execute"}, recipient : {"wallet", "other"}, buy : Tokens, min : Nat]]
RouterCalls ==
  [selector : {"ur.execute", "ur.execute.deadline"}, commands : Seq(CommandSet)]
SwapQuotes ==
  [sell : Tokens, buy : Tokens, sellAmount : Nat, buyAmount : Nat,
   spender : Contracts \cup {"none"}, over : PinTables, at : Nat,
   tx : [to : Contracts, value : Nat, call : HolderCalls \cup RouterCalls]]

(* What a quote was held to when it comes to an execution.                 *)
LEMMA PlanIs ==
  ASSUME NEW p \in SwapShape, NEW q \in SwapQuotes, NEW venues, NEW keys, NEW over,
         NEW plan \in ExecuteSwap(q, p, venues, keys, over)
  PROVE  /\ Primary(TargetRole(p.venue), over) # {}
         /\ TxBound(q.tx, p, over) /\ plan.to = q.tx.to
         /\ \A a \in plan.approve : /\ a.amount = p.amount /\ ~IsNative(p.sell)
                                    /\ a.spender \in Primary(SpenderRole(p.venue), over)
<1> DEFINE r == Normalized(q, p)
<1>1. r.tx = q.tx
  BY DEF Normalized, SwapQuotes
<1> HIDE DEF r
<1>2. /\ Primary(TargetRole(p.venue), over) # {}
      /\ plan \in Plan(r, p, over)
      /\ \A a \in plan.approve : SwapApproval(a.spender, a.amount, p, over)
  BY DEF ExecuteSwap, r
<1>3. TxBound(q.tx, p, over) /\ plan.to = q.tx.to /\ \A a \in plan.approve : a.amount = p.amount
  <2>1. TxBound(q.tx, p, over)
    BY <1>1, <1>2 DEF Plan
  <2>2. CASE IsNative(p.sell)
    BY <1>1, <1>2, <2>2 DEF Plan
  <2>3. CASE ~IsNative(p.sell)
    <3>1. PICK s : plan = [to |-> r.tx.to, value |-> r.tx.value,
                           approve |-> {[spender |-> s, amount |-> p.amount]},
                           permit2 |-> IF p.venue = "uniswap"
                                       THEN {[spender |-> r.tx.to, amount |-> p.amount]}
                                       ELSE {}]
      BY <1>2, <2>3 DEF Plan
    <3>2. QED BY <1>1, <2>1, <3>1
  <2>4. QED BY <2>1, <2>2, <2>3
<1>4. QED BY <1>2, <1>3 DEF SwapApproval

(* What an accepted call makes of the two sides.                           *)
LEMMA SwapOutcomeIs ==
  ASSUME NEW p \in SwapShape, NEW q \in SwapQuotes, NEW over, TxBound(q.tx, p, over),
         NEW o \in Outcomes(q.tx)
  PROVE  /\ \A t \in Tokens :
              o.paid[t] <= IF AssetKey(t) = AssetKey(p.sell) THEN p.amount ELSE 0
         /\ p.venue = "uniswap" /\ ~IsNative(p.sell) => o.paid[p.sell] = p.amount
         /\ MinimumIsKept(q, p) =>
              \E t \in Tokens : SameToken(t, p.buy) /\ o.got[t] >= p.min
<1> DEFINE value == q.tx.value
           c == q.tx.call
<1>1. /\ value \in Nat /\ c \in HolderCalls \cup RouterCalls
      /\ p.amount \in Nat /\ p.min \in Nat /\ p.sell \in Tokens /\ p.buy \in Tokens
  BY DEF SwapQuotes, SwapShape
<1>2. value = IF IsNative(p.sell) THEN p.amount ELSE 0
  BY DEF TxBound
<1>3. Zero \in Tokens /\ IsNative(Zero)
  BY PinAssumption DEF IsNative
<1>4. \A t \in Tokens : /\ t = Zero /\ IsNative(p.sell) => AssetKey(t) = AssetKey(p.sell)
                        /\ t = p.sell => AssetKey(t) = AssetKey(p.sell)
  BY <1>3 DEF AssetKey
<1>5. CASE p.venue = "uniswap"
  <2>1. c.selector \in {"ur.execute", "ur.execute.deadline"} /\ RouterBound(c.commands, p, value)
    BY <1>5 DEF TxBound
  <2>2. c \in RouterCalls
    BY <1>1, <2>1 DEF HolderCalls, RouterCalls
  <2>3. c.commands \in Seq(CommandSet)
    BY <2>2 DEF RouterCalls
  <2>4. o \in RouterOutcomes(c.commands, value)
    BY <2>1 DEF Outcomes
  <2> HIDE DEF value, c
  <2>5. /\ o.got[Coin(p)] >= p.min
        /\ \A t \in Tokens :
             o.paid[t] = (IF t = Zero THEN value ELSE 0)
                         + (IF t = p.sell /\ ~IsNative(t) THEN p.amount ELSE 0)
    BY <1>1, <2>1, <2>3, <2>4, RouterKeeps
  <2>6. Coin(p) \in Tokens /\ SameToken(Coin(p), p.buy)
    BY CoinIs
  <2>7. \A t \in Tokens :
          o.paid[t] <= IF AssetKey(t) = AssetKey(p.sell) THEN p.amount ELSE 0
    BY <1>1, <1>2, <1>3, <1>4, <2>5
  <2>8. ~IsNative(p.sell) => o.paid[p.sell] = p.amount
    BY <1>1, <1>2, <1>3, <2>5
  <2>9. QED BY <2>5, <2>6, <2>7, <2>8
<1>6. CASE p.venue # "uniswap"
  <2>1. c.selector = "holder.exec" /\ HolderBound(c, p, q.tx.to)
    BY <1>6 DEF TxBound
  <2>2. c \in HolderCalls
    BY <1>1, <2>1 DEF HolderCalls, RouterCalls
  <2>3. /\ c.token \in Tokens /\ c.amount \in Nat /\ c.inner.buy \in Tokens /\ c.inner.min \in Nat
    BY <2>2 DEF HolderCalls
  <2>4. /\ c.inner.recipient = "wallet" /\ SameToken(c.inner.buy, p.buy) /\ c.inner.min >= p.min
        /\ IF IsNative(p.sell) THEN IsNative(c.token)
           ELSE c.token = p.sell /\ c.amount = p.amount
    BY <2>1 DEF HolderBound, SettlerBound
  <2> DEFINE coin == IF IsNative(c.inner.buy) THEN Zero ELSE c.inner.buy
             r == IF c.target \in Settlers THEN c.inner.recipient ELSE "other"
             min == c.inner.min
             taken(n) == IF Live(c.token) /\ c.token # Zero
                         THEN Pull(Start(value), c.token, n) ELSE Start(value)
  <2>5. o \in HolderOutcomes(c, value)
    BY <2>1 DEF Outcomes
  <2>6. PICK n \in 0 .. c.amount : o = Credit(taken(n), coin, min, r)
    BY <2>5 DEF HolderOutcomes
  <2>7. coin \in Tokens /\ SameToken(coin, p.buy) /\ min \in Nat /\ min >= p.min
    BY <1>3, <2>3, <2>4 DEF SameToken
  <2>8. c.target \in Settlers => r \in ToWallet
    BY <2>4 DEF ToWallet
  <2> DEFINE before == taken(n)
  <2>9. /\ before \in Ledgers
        /\ \A t \in Tokens :
             /\ before.got[t] = 0
             /\ before.paid[t] = (IF t = Zero THEN value ELSE 0)
                                 + (IF Live(c.token) /\ c.token # Zero /\ t = c.token THEN n ELSE 0)
    <3> DEFINE start == Start(value)
               token == c.token
    <3>1. /\ start \in Ledgers
          /\ \A t \in Tokens : start.got[t] = 0 /\ start.paid[t] = IF t = Zero THEN value ELSE 0
      BY <1>1, StartIs
    <3>2. n \in Int /\ token \in Tokens
      BY <2>3
    <3>3. before = IF Live(token) /\ token # Zero THEN Pull(start, token, n) ELSE start
      OBVIOUS
    <3> HIDE DEF start, before, value, c, token
    <3>4. CASE Live(token) /\ token # Zero
      <4>1. /\ Pull(start, token, n) \in Ledgers /\ Pull(start, token, n).got = start.got
            /\ \A u \in Tokens : Pull(start, token, n).paid[u] =
                                    start.paid[u] + (IF u = token THEN n ELSE 0)
        BY <3>1, <3>2, PullKeeps
      <4>2. QED BY <3>1, <3>3, <3>4, <4>1 DEF token
    <3>5. CASE ~(Live(token) /\ token # Zero)
      <4>1. \A t \in Tokens : start.paid[t] + 0 = start.paid[t]
        BY <3>1 DEF Ledgers
      <4>2. QED BY <3>1, <3>3, <3>5, <4>1 DEF token
    <3>6. QED BY <3>4, <3>5
  <2>10. o = Credit(before, coin, min, r)
    BY <2>6
  <2> HIDE DEF before, coin, r, min
  <2>11. /\ Credit(before, coin, min, r).paid = before.paid
         /\ r \in ToWallet => Credit(before, coin, min, r).got[coin] = before.got[coin] + min
    BY <2>7, <2>9, CreditKeeps
  <2>12. c.target \in Settlers => o.got[coin] >= p.min
    BY <1>1, <2>7, <2>8, <2>9, <2>10, <2>11
  <2>13. \A t \in Tokens :
           o.paid[t] = (IF t = Zero THEN value ELSE 0)
                       + (IF Live(c.token) /\ c.token # Zero /\ t = c.token THEN n ELSE 0)
    BY <2>9, <2>10, <2>11
  <2>14. Live(c.token) /\ c.token # Zero => c.token = p.sell /\ n <= p.amount /\ ~IsNative(p.sell)
    BY <2>4 DEF Live
  <2> HIDE DEF value, c
  <2>15. \A t \in Tokens :
           o.paid[t] <= IF AssetKey(t) = AssetKey(p.sell) THEN p.amount ELSE 0
    BY <1>1, <1>2, <1>3, <1>4, <2>13, <2>14
  <2>16. QED BY <1>6, <2>7, <2>12, <2>15 DEF c, MinimumIsKept
<1>7. QED BY <1>5, <1>6

(* Every quote, every intent, every table of pins: what the decoder lets   *)
(* through costs the wallet at most the sell it counted; and it pays what  *)
(* it bounds, or reverts, where a pinned router or a genuine settler keeps *)
(* the minimum.                                                            *)
THEOREM EverySwapKeepsBounds ==
  ASSUME NEW p \in SwapShape, NEW q \in SwapQuotes, NEW venues, NEW keys, NEW over
  PROVE  KeepsBounds(q, p, venues, keys, over)
<1> SUFFICES ASSUME ExecuteSwap(q, p, venues, keys, over) # {}, NEW o \in Outcomes(q.tx)
             PROVE  /\ \A leg \in ToSet(SwapLegs(p)), t \in Tokens :
                         o.paid[t] <= IF AssetKey(t) = leg.asset THEN leg.amount ELSE 0
                    /\ MinimumIsKept(q, p) =>
                         \E t \in Tokens : SameToken(t, p.buy) /\ o.got[t] >= p.min
  BY Zenon DEF KeepsBounds
<1>1. TxBound(q.tx, p, over)
  BY PlanIs
<1>2. \A leg \in ToSet(SwapLegs(p)) : leg.asset = AssetKey(p.sell) /\ leg.amount = p.amount
  BY DEF ToSet, SwapLegs
<1>3. QED BY <1>1, <1>2, SwapOutcomeIs

(* Every allowance is to a contract that the queue showed, and the swap    *)
(* draws on it for no more than it is; on Uniswap to the last unit.        *)
THEOREM EverySwapAllowanceFits ==
  ASSUME NEW p \in SwapShape, NEW q \in SwapQuotes, NEW venues, NEW keys, NEW over
  PROVE  AllowancesFit(q, p, venues, keys, over)
<1> SUFFICES ASSUME NEW plan \in ExecuteSwap(q, p, venues, keys, over)
             PROVE  /\ plan.to \in SwapChecks(p, over).targets
                    /\ \A a \in plan.approve :
                         /\ a.spender \in SwapChecks(p, over).spender
                         /\ \A o \in Outcomes(q.tx) :
                              /\ o.paid[p.sell] <= a.amount
                              /\ p.venue = "uniswap" => o.paid[p.sell] = a.amount
  BY Zenon DEF AllowancesFit
<1>1. /\ Primary(TargetRole(p.venue), over) # {}
      /\ TxBound(q.tx, p, over) /\ plan.to = q.tx.to
      /\ \A a \in plan.approve : /\ a.amount = p.amount /\ ~IsNative(p.sell)
                                 /\ a.spender \in Primary(SpenderRole(p.venue), over)
  BY PlanIs
<1>2. plan.to \in SwapChecks(p, over).targets
  BY <1>1 DEF SwapChecks, TxBound
<1>3. ASSUME NEW a \in plan.approve PROVE a.spender \in SwapChecks(p, over).spender
  BY <1>1 DEF SwapChecks
<1>4. ASSUME NEW a \in plan.approve, NEW o \in Outcomes(q.tx)
      PROVE  /\ o.paid[p.sell] <= a.amount
             /\ p.venue = "uniswap" => o.paid[p.sell] = a.amount
  <2>1. p.sell \in Tokens /\ AssetKey(p.sell) = AssetKey(p.sell)
    BY DEF SwapShape
  <2>2. QED BY <1>1, <2>1, SwapOutcomeIs
<1>5. QED BY <1>2, <1>3, <1>4

-----------------------------------------------------------------------------
(* DexCheck: the quotes it visits                                          *)

SwapTypes ==
  kind = "swap" =>
    /\ request \in SwapShape /\ context \in SwapQuotes
    /\ request.venue = "uniswap" => context.tx.call \in RouterCalls

LEMMA HonestIsQuote ==
  ASSUME NEW p \in SwapRequests
  PROVE  /\ p \in SwapShape /\ Honest(p) \in SwapQuotes
         /\ p.venue = "uniswap" => Honest(p).tx.call \in RouterCalls
<1>1. /\ p.venue \in {"matcha", "uniswap"} /\ p.sell \in Tokens /\ p.buy \in Tokens
      /\ p.amount = 2 /\ p.min = 2 /\ p.deadline = 2
      /\ p = [venue |-> p.venue, sell |-> p.sell, buy |-> p.buy, amount |-> p.amount,
              min |-> p.min, deadline |-> p.deadline]
      /\ ValidSwap(p, Venues, ApiKeys, NoPins)
  BY DEF SwapRequests
<1>2. p \in SwapShape
  <2>1. p.venue \in KnownVenues
    BY <1>1 DEF KnownVenues
  <2>2. p.amount \in Nat /\ p.min \in Nat /\ p.deadline \in Nat
    BY <1>1
  <2>3. QED BY <1>1, <2>1, <2>2 DEF SwapShape
<1>3. Primary(TargetRole(p.venue), NoPins) # {}
  BY <1>1 DEF ValidSwap
<1>4. TargetRole(p.venue) \in DOMAIN Builtin
  BY <1>3 DEF Primary, NoPins
<1>5. Builtin[TargetRole(p.venue)] \in Contracts
  BY <1>4, PinAssumption
<1> DEFINE some == CHOOSE s \in Settlers : TRUE
           value == IF IsNative(p.sell) THEN p.amount ELSE 0
<1>6. value \in Nat /\ some \in Parties /\ <<>> \in Seq(CommandSet)
  <2>1. value \in Nat
    BY <1>1
  <2>2. some \in Parties
    BY DEF Parties
  <2> HIDE DEF CommandSet
  <2>3. <<>> \in Seq(CommandSet)
    OBVIOUS
  <2>4. QED BY <2>1, <2>2, <2>3
<1> HIDE DEF some
<1>7. CASE p.venue = "uniswap"
  <2> DEFINE call == [selector |-> "ur.execute", commands |-> <<>>]
  <2>1. call \in RouterCalls
    BY <1>6 DEF RouterCalls
  <2> HIDE DEF call, value
  <2>2. [to |-> Builtin[TargetRole(p.venue)], value |-> value, call |-> call]
          \in [to : Contracts, value : Nat, call : HolderCalls \cup RouterCalls]
    BY <1>5, <1>6, <2>1
  <2>3. Honest(p) =
          [sell |-> p.sell, buy |-> p.buy, sellAmount |-> p.amount, buyAmount |-> p.min,
           spender |-> "none", over |-> NoPins, at |-> 1,
           tx |-> [to |-> Builtin[TargetRole(p.venue)], value |-> value, call |-> call]]
    BY <1>7, Zenon DEF Honest, call, value
  <2>4. QED BY <1>1, <1>2, <2>1, <2>2, <2>3, NoPinsIsTable DEF SwapQuotes
<1>8. CASE p.venue = "matcha"
  <2> DEFINE call ==
        [selector |-> "holder.exec", token |-> p.sell, amount |-> p.amount,
         operator |-> some, target |-> some,
         inner |-> [selector |-> "execute", recipient |-> "wallet", buy |-> p.buy,
                    min |-> p.min]]
  <2>1. call \in HolderCalls
    BY <1>1, <1>6 DEF HolderCalls
  <2> HIDE DEF call, value
  <2>2. [to |-> Builtin[TargetRole(p.venue)], value |-> value, call |-> call]
          \in [to : Contracts, value : Nat, call : HolderCalls \cup RouterCalls]
    BY <1>5, <1>6, <2>1
  <2>3. Honest(p) =
          [sell |-> p.sell, buy |-> p.buy, sellAmount |-> p.amount, buyAmount |-> p.min,
           spender |-> Builtin["allowance_holder"], over |-> NoPins, at |-> 1,
           tx |-> [to |-> Builtin[TargetRole(p.venue)], value |-> value, call |-> call]]
    BY <1>8 DEF Honest, call, value, some
  <2>4. Builtin["allowance_holder"] \in Contracts
    BY <1>5, <1>8 DEF TargetRole
  <2>5. QED BY <1>1, <1>2, <1>8, <2>2, <2>3, <2>4, NoPinsIsTable DEF SwapQuotes
<1>9. QED BY <1>1, <1>7, <1>8

LEMMA CommandsHaveShape == Commands \subseteq CommandSet
<1> SUFFICES ASSUME NEW c \in Commands PROVE c \in CommandSet
  OBVIOUS
<1>1. Recipients \subseteq Payees /\ Least \subseteq Nat /\ 1 .. 2 \subseteq Nat
      /\ {1, 2, Balance} \subseteq Nat /\ FALSE \in BOOLEAN
  <2>1. Recipients \subseteq Payees
    BY DEF Recipients, Payees
  <2>2. 1 .. 2 \subseteq Nat /\ {1, 2, Balance} \subseteq Nat /\ FALSE \in BOOLEAN
    BY SwapAssumption
  <2>3. QED BY <2>1, <2>2 DEF Least
<1>2. Paths \subseteq Seq(Tokens)
  <2> SUFFICES ASSUME NEW path \in (Tokens \ Natives) \X (Tokens \ Natives)
               PROVE  path \in Seq(Tokens)
    BY DEF Paths
  <2>1. PICK t \in Tokens, u \in Tokens : path = <<t, u>>
    OBVIOUS
  <2>2. QED BY <2>1
<1>3. V4Acts \subseteq Seq(V4ActSet)
  <2> SUFFICES ASSUME NEW acts \in V4Acts PROVE acts \in Seq(V4ActSet)
    OBVIOUS
  <2>1. Zero \in Tokens /\ Currencies \subseteq Tokens
    BY PinAssumption DEF Currencies
  <2> DEFINE S == [act : {"single"}, c0 : {Zero}, c1 : Currencies \ Natives,
                   zeroForOne : BOOLEAN, amount : 1 .. 2, min : Least]
             X == [act : {"settle"}, amount : {0}, payerIsUser : BOOLEAN, currency : Currencies]
                  \cup [act : {"settle_all"}, currency : Currencies]
             Y == [act : {"take"}, recipient : Recipients, amount : {0}, currency : Currencies]
                  \cup [act : {"take_all"}, min : {2}, currency : Currencies]
  <2>2. S \subseteq V4ActSet
    BY <1>1, <2>1 DEF V4ActSet
  <2>3. X \subseteq V4ActSet
    BY <2>1 DEF V4ActSet
  <2>4. Y \subseteq V4ActSet
    BY <1>1, <2>1 DEF V4ActSet
  <2>5. acts \in S \X X \X Y
    BY DEF V4Acts
  <2> HIDE DEF V4ActSet, S, X, Y
  <2>6. PICK s \in S, x \in X, y \in Y : acts = <<s, x, y>>
    BY <2>5
  <2>7. QED BY <2>2, <2>3, <2>4, <2>6
<1>4. CASE c \in [op : {"wrap"}, allowRevert : {FALSE}, recipient : Recipients, amount : 1 .. 2]
  BY <1>1, <1>4 DEF CommandSet
<1>5. CASE c \in [op : {"v3"}, allowRevert : {FALSE}, recipient : Recipients,
                  amount : {1, 2, Balance}, min : Least, path : Paths, payerIsUser : BOOLEAN]
  BY <1>1, <1>2, <1>5 DEF CommandSet
<1>6. CASE c \in [op : {"v4"}, allowRevert : {FALSE}, acts : V4Acts]
  BY <1>1, <1>3, <1>6 DEF CommandSet
<1>7. CASE c \in [op : {"sweep"}, allowRevert : {FALSE}, recipient : Recipients,
                  token : Tokens, min : Least]
  BY <1>1, <1>7 DEF CommandSet
<1>8. CASE c \in [op : {"unwrap"}, allowRevert : {FALSE}, recipient : Recipients, min : Least]
  BY <1>1, <1>8 DEF CommandSet
<1>9. QED BY <1>4, <1>5, <1>6, <1>7, <1>8 DEF Commands

LEMMA AddCommandStep ==
  ASSUME SwapTypes, AddCommand PROVE SwapTypes'
<1>1. /\ kind = "swap" /\ request.venue = "uniswap" /\ request' = request
      /\ \E c \in Commands : context' = [context EXCEPT !.tx.call.commands = Append(@, c)]
  BY DEF AddCommand
<1>2. PICK c \in CommandSet : context' = [context EXCEPT !.tx.call.commands = Append(@, c)]
  BY <1>1, CommandsHaveShape
<1>3. request \in SwapShape /\ context \in SwapQuotes /\ context.tx.call \in RouterCalls
  BY <1>1 DEF SwapTypes
<1> DEFINE call == context.tx.call
           new == [call EXCEPT !.commands = Append(@, c)]
<1>4. new \in RouterCalls
  <2> DEFINE cmds == Append(call.commands, c)
  <2>1. call.commands \in Seq(CommandSet)
    BY <1>3 DEF RouterCalls
  <2> HIDE DEF CommandSet
  <2>2. cmds \in Seq(CommandSet)
    BY <2>1
  <2>3. new = [call EXCEPT !.commands = cmds]
    BY <1>3 DEF RouterCalls
  <2> HIDE DEF cmds
  <2>4. QED BY <1>3, <2>2, <2>3 DEF RouterCalls
<1>5. context' = [context EXCEPT !.tx = [context.tx EXCEPT !.call = new]]
  BY <1>2, <1>3 DEF SwapQuotes
<1> HIDE DEF new
<1>6. context' \in SwapQuotes /\ context'.tx.call = new
  <2> DEFINE tx == [context.tx EXCEPT !.call = new]
  <2>1. /\ tx \in [to : Contracts, value : Nat, call : HolderCalls \cup RouterCalls]
        /\ tx.call = new
    BY <1>3, <1>4 DEF SwapQuotes
  <2> HIDE DEF tx
  <2>2. QED BY <1>3, <1>5, <2>1 DEF SwapQuotes, tx
<1>7. QED BY <1>1, <1>3, <1>4, <1>6 DEF SwapTypes

LEMMA EditQuoteStep ==
  ASSUME SwapTypes, EditQuote PROVE SwapTypes'
<1>1. kind = "swap" /\ request' = request
  BY DEF EditQuote, Edit
<1>2. /\ request \in SwapShape /\ context \in SwapQuotes
      /\ request.venue = "uniswap" => context.tx.call \in RouterCalls
  BY <1>1 DEF SwapTypes
<1>3. \/ \E t \in Tokens : \/ context' = [context EXCEPT !.sell = t]
                           \/ context' = [context EXCEPT !.buy = t]
      \/ \E n \in Nat : \/ context' = [context EXCEPT !.sellAmount = n]
                        \/ context' = [context EXCEPT !.buyAmount = n]
                        \/ context' = [context EXCEPT !.tx.value = n]
                        \/ context' = [context EXCEPT !.at = n]
      \/ \E c \in Contracts : \/ context' = [context EXCEPT !.spender = c]
                              \/ context' = [context EXCEPT !.tx.to = c]
      \/ \E o \in PinTables : context' = [context EXCEPT !.over = o]
  <2>1. Amounts \subseteq Nat /\ 3 \in Nat
    BY DEF Amounts
  <2>2. QED BY <2>1, OverridesAreTables DEF EditQuote, Edit
<1>4. ASSUME NEW n \in Nat, \/ context' = [context EXCEPT !.sellAmount = n]
                            \/ context' = [context EXCEPT !.buyAmount = n]
                            \/ context' = [context EXCEPT !.at = n]
      PROVE  context' \in SwapQuotes /\ context'.tx.call = context.tx.call
  BY <1>2, <1>4 DEF SwapQuotes
<1>5. ASSUME NEW t \in Tokens, \/ context' = [context EXCEPT !.sell = t]
                               \/ context' = [context EXCEPT !.buy = t]
      PROVE  context' \in SwapQuotes /\ context'.tx.call = context.tx.call
  BY <1>2, <1>5 DEF SwapQuotes
<1>6. ASSUME NEW c \in Contracts, context' = [context EXCEPT !.spender = c]
      PROVE  context' \in SwapQuotes /\ context'.tx.call = context.tx.call
  BY <1>2, <1>6 DEF SwapQuotes
<1>7. ASSUME NEW o \in PinTables, context' = [context EXCEPT !.over = o]
      PROVE  context' \in SwapQuotes /\ context'.tx.call = context.tx.call
  BY <1>2, <1>7 DEF SwapQuotes
<1>8. ASSUME NEW n \in Nat, context' = [context EXCEPT !.tx.value = n]
      PROVE  context' \in SwapQuotes /\ context'.tx.call = context.tx.call
  BY <1>2, <1>8 DEF SwapQuotes
<1>9. ASSUME NEW c \in Contracts, context' = [context EXCEPT !.tx.to = c]
      PROVE  context' \in SwapQuotes /\ context'.tx.call = context.tx.call
  BY <1>2, <1>9 DEF SwapQuotes
<1>10. context' \in SwapQuotes /\ context'.tx.call = context.tx.call
  BY <1>3, <1>4, <1>5, <1>6, <1>7, <1>8, <1>9
<1>11. QED BY <1>1, <1>2, <1>10 DEF SwapTypes

LEMMA EditHolderCallStep ==
  ASSUME SwapTypes, EditHolderCall PROVE SwapTypes'
<1>1. kind = "swap" /\ request' = request /\ context.tx.call.selector = "holder.exec"
  BY DEF EditHolderCall, Edit
<1>2. /\ request \in SwapShape /\ context \in SwapQuotes
      /\ request.venue = "uniswap" => context.tx.call \in RouterCalls
  BY <1>1 DEF SwapTypes
<1>3. context.tx.call \in HolderCalls /\ request.venue # "uniswap"
  <2>1. context.tx.call \in HolderCalls \cup RouterCalls
    BY <1>2 DEF SwapQuotes
  <2>2. QED BY <1>1, <1>2, <2>1 DEF RouterCalls
<1> DEFINE call == context.tx.call
<1>4. \E new \in HolderCalls : context' = [context EXCEPT !.tx.call = new]
  <2>1. /\ Amounts \subseteq Nat /\ Contracts \cup Tokens \subseteq Parties
    BY DEF Amounts, Parties
  <2>2. call.inner \in [selector : {"execute"}, recipient : {"wallet", "other"},
                        buy : Tokens, min : Nat]
    BY <1>3 DEF HolderCalls
  <2>3. CASE \E t \in Tokens : context' = [context EXCEPT !.tx.call.token = t]
    <3>1. PICK t \in Tokens : context' = [context EXCEPT !.tx.call.token = t]
      BY <2>3
    <3> DEFINE new == [call EXCEPT !.token = t]
    <3>2. new \in HolderCalls
      BY <1>3 DEF HolderCalls
    <3>3. context' = [context EXCEPT !.tx.call = new]
      BY <1>2, <3>1 DEF SwapQuotes
    <3>4. QED BY <3>2, <3>3
  <2>4. CASE \E n \in Amounts : context' = [context EXCEPT !.tx.call.amount = n]
    <3>1. PICK n \in Nat : context' = [context EXCEPT !.tx.call.amount = n]
      BY <2>1, <2>4
    <3> DEFINE new == [call EXCEPT !.amount = n]
    <3>2. new \in HolderCalls
      BY <1>3 DEF HolderCalls
    <3>3. context' = [context EXCEPT !.tx.call = new]
      BY <1>2, <3>1 DEF SwapQuotes
    <3>4. QED BY <3>2, <3>3
  <2>5. CASE \E c \in Contracts \cup Tokens : \/ context' = [context EXCEPT !.tx.call.operator = c]
                                              \/ context' = [context EXCEPT !.tx.call.target = c]
    <3>1. PICK c \in Parties : \/ context' = [context EXCEPT !.tx.call.operator = c]
                               \/ context' = [context EXCEPT !.tx.call.target = c]
      BY <2>1, <2>5
    <3>2. /\ [call EXCEPT !.operator = c] \in HolderCalls
          /\ [call EXCEPT !.target = c] \in HolderCalls
      BY <1>3 DEF HolderCalls
    <3>3. \/ context' = [context EXCEPT !.tx.call = [call EXCEPT !.operator = c]]
          \/ context' = [context EXCEPT !.tx.call = [call EXCEPT !.target = c]]
      BY <1>2, <3>1 DEF SwapQuotes
    <3>4. QED BY <3>2, <3>3
  <2>6. ASSUME NEW inner \in [selector : {"execute"}, recipient : {"wallet", "other"},
                              buy : Tokens, min : Nat],
               context' = [context EXCEPT !.tx.call.inner = inner]
        PROVE  \E new \in HolderCalls : context' = [context EXCEPT !.tx.call = new]
    <3> DEFINE new == [call EXCEPT !.inner = inner]
    <3>1. new \in HolderCalls
      BY <1>3 DEF HolderCalls
    <3>2. context' = [context EXCEPT !.tx.call = new]
      BY <1>2, <2>6 DEF SwapQuotes
    <3>3. QED BY <3>1, <3>2
  <2>7. CASE \E t \in Tokens : context' = [context EXCEPT !.tx.call.inner.buy = t]
    <3>1. PICK t \in Tokens : context' = [context EXCEPT !.tx.call.inner.buy = t]
      BY <2>7
    <3> DEFINE inner == [call.inner EXCEPT !.buy = t]
    <3>2. inner \in [selector : {"execute"}, recipient : {"wallet", "other"},
                     buy : Tokens, min : Nat]
      BY <2>2
    <3>3. context' = [context EXCEPT !.tx.call.inner = inner]
      BY <1>2, <3>1 DEF SwapQuotes
    <3> HIDE DEF inner
    <3>4. QED BY <2>6, <3>2, <3>3
  <2>8. CASE \E n \in Amounts : context' = [context EXCEPT !.tx.call.inner.min = n]
    <3>1. PICK n \in Nat : context' = [context EXCEPT !.tx.call.inner.min = n]
      BY <2>1, <2>8
    <3> DEFINE inner == [call.inner EXCEPT !.min = n]
    <3>2. inner \in [selector : {"execute"}, recipient : {"wallet", "other"},
                     buy : Tokens, min : Nat]
      BY <2>2
    <3>3. context' = [context EXCEPT !.tx.call.inner = inner]
      BY <1>2, <3>1 DEF SwapQuotes
    <3> HIDE DEF inner
    <3>4. QED BY <2>6, <3>2, <3>3
  <2>9. CASE \E r \in {"wallet", "other"} :
               context' = [context EXCEPT !.tx.call.inner.recipient = r]
    <3>1. PICK r \in {"wallet", "other"} : context' = [context EXCEPT !.tx.call.inner.recipient = r]
      BY <2>9
    <3> DEFINE inner == [call.inner EXCEPT !.recipient = r]
    <3>2. inner \in [selector : {"execute"}, recipient : {"wallet", "other"},
                     buy : Tokens, min : Nat]
      BY <2>2
    <3>3. context' = [context EXCEPT !.tx.call.inner = inner]
      BY <1>2, <3>1 DEF SwapQuotes
    <3> HIDE DEF inner
    <3>4. QED BY <2>6, <3>2, <3>3
  <2>10. QED
    <3>1. \/ \E t \in Tokens : \/ context' = [context EXCEPT !.tx.call.token = t]
                               \/ context' = [context EXCEPT !.tx.call.inner.buy = t]
          \/ \E n \in Amounts : \/ context' = [context EXCEPT !.tx.call.amount = n]
                                \/ context' = [context EXCEPT !.tx.call.inner.min = n]
          \/ \E c \in Contracts \cup Tokens : \/ context' = [context EXCEPT !.tx.call.operator = c]
                                              \/ context' = [context EXCEPT !.tx.call.target = c]
          \/ \E r \in {"wallet", "other"} :
               context' = [context EXCEPT !.tx.call.inner.recipient = r]
      BY DEF EditHolderCall, Edit
    <3>2. QED BY <2>3, <2>4, <2>5, <2>7, <2>8, <2>9, <3>1
<1>5. context' \in SwapQuotes
  BY <1>2, <1>4 DEF SwapQuotes
<1>6. QED BY <1>1, <1>2, <1>3, <1>5 DEF SwapTypes

LEMMA SwapTypesAlways == DexSpec => []SwapTypes
<1>1. DexInit => SwapTypes
  <2> SUFFICES ASSUME DexInit, kind = "swap"
               PROVE  request \in SwapRequests /\ context = Honest(request)
    BY HonestIsQuote DEF SwapTypes
  <2>1. QED BY DEF DexInit
<1>2. SwapTypes /\ [DexNext]_dexVars => SwapTypes'
  <2> SUFFICES ASSUME SwapTypes, [DexNext]_dexVars PROVE SwapTypes'
    OBVIOUS
  <2>1. CASE UNCHANGED dexVars
    BY <2>1 DEF SwapTypes, dexVars
  <2>2. CASE EditLp \/ EditConfiguration
    <3>1. kind' = "lp"
      BY <2>2 DEF EditLp, EditConfiguration, EditRequest, Edit
    <3>2. QED BY <3>1 DEF SwapTypes
  <2>3. QED
    BY <2>1, <2>2, AddCommandStep, EditQuoteStep, EditHolderCallStep DEF DexNext
<1>3. QED BY <1>1, <1>2, PTL DEF DexSpec

(* In every state of the walk, whatever the requester asked for, the venue *)
(* sent and the operator pinned: the cost is bounded, and so is the yield  *)
(* wherever the contract that is called keeps minimums.                    *)
THEOREM SwapKeepsBoundsAlways == DexSpec => []SwapKeepsBounds
<1>1. SwapTypes => SwapKeepsBounds
  BY EverySwapKeepsBounds DEF SwapTypes, SwapKeepsBounds
<1>2. QED BY <1>1, SwapTypesAlways, PTL

(* Likewise: the allowances of a swap go to pinned spenders, are never     *)
(* overdrawn, and are used up on Uniswap.                                  *)
THEOREM SwapAllowancesFitAlways == DexSpec => []SwapAllowancesFit
<1>1. SwapTypes => SwapAllowancesFit
  BY EverySwapAllowanceFits DEF SwapTypes, SwapAllowancesFit
<1>2. QED BY <1>1, SwapTypesAlways, PTL

-----------------------------------------------------------------------------
(* EvmIntents: liquidity                                                   *)

Named == Contracts \cup {"none"}
LpShape ==
  [op : {"add", "remove", "claim"}, protocol : {"v2", "v3", "v4"}, a : Tokens, b : Tokens,
   amountA : Nat, amountB : Nat, minA : Nat, minB : Nat, liquidity : Nat, fee : Nat,
   spacing : Int, lower : Int, upper : Int, hooks : Tokens, manager : Named,
   permit2 : Named, id : Nat, burn : BOOLEAN, extra : SUBSET STRING, deadline : Nat]

LEMMA PrimaryIsContract ==
  ASSUME NEW role, NEW over \in PinTables
  PROVE  Primary(role, over) \subseteq Contracts
BY PinAssumption DEF Primary, PinTables

(* A queued request is the request, with contracts in its two fields.      *)
LEMMA QueuedIs ==
  ASSUME NEW r \in LpShape, NEW over \in PinTables, NEW q \in Queued(r, over)
  PROVE  /\ q \in LpShape
         /\ LpBounds(q)
         /\ q.op = r.op /\ q.protocol = r.protocol /\ q.a = r.a /\ q.b = r.b
         /\ q.amountA = r.amountA /\ q.amountB = r.amountB
         /\ q.minA = r.minA /\ q.minB = r.minB
         /\ q.liquidity = r.liquidity /\ q.lower = r.lower /\ q.upper = r.upper
         /\ q.deadline = r.deadline
         /\ q.manager \in Primary(LpRole(q.protocol), over)
         /\ q.permit2 \in Permit2s(r, over)
<1>1. LpBounds(r)
  BY DEF Queued
<1>2. PICK m \in Managers(r, over), p \in Permit2s(r, over) : q = WithContracts(r, m, p)
  BY DEF Queued
<1>3. m \in Primary(LpRole(r.protocol), over) /\ m \in Named
  BY PrimaryIsContract DEF Managers, Resolve, Named
<1>4. p \in Named
  BY PrimaryIsContract DEF Permit2s, Resolve, Named
<1>5. /\ q \in LpShape
      /\ q.op = r.op /\ q.protocol = r.protocol /\ q.a = r.a /\ q.b = r.b
      /\ q.amountA = r.amountA /\ q.amountB = r.amountB
      /\ q.minA = r.minA /\ q.minB = r.minB /\ q.liquidity = r.liquidity
      /\ q.fee = r.fee /\ q.spacing = r.spacing /\ q.lower = r.lower /\ q.upper = r.upper
      /\ q.hooks = r.hooks /\ q.id = r.id /\ q.burn = r.burn /\ q.deadline = r.deadline
      /\ q.manager = m /\ q.permit2 = p
  BY <1>2, <1>3, <1>4 DEF LpShape, WithContracts
<1>6. LpBounds(q)
  BY <1>1, <1>5 DEF LpBounds, AddBounds, AddBoundsV4, RemoveBounds, ClaimBounds
<1>7. QED BY <1>2, <1>3, <1>5, <1>6

(* The contract of the execution is the one that was queued.               *)
LEMMA SameManager ==
  ASSUME NEW q \in LpShape, NEW over \in PinTables, NEW later,
         q.manager \in Primary(LpRole(q.protocol), over),
         NEW m \in Managers(q, later)
  PROVE  m = q.manager /\ m \in Primary(LpRole(q.protocol), later)
BY PrimaryIsContract, PinAssumption DEF Managers, Resolve

LEMMA CountedOfPair ==
  ASSUME NEW q \in LpShape, q.op = "add", q.a # q.b
  PROVE  /\ ~IsNative(q.a) /\ ~IsNative(q.b) =>
              Counted(Legs(q), q.a) = q.amountA /\ Counted(Legs(q), Zero) = 0
         /\ ~IsNative(q.a) \/ ~IsNative(q.b) =>
              Counted(Legs(q), q.a) = q.amountA /\ Counted(Legs(q), q.b) = q.amountB
<1> DEFINE legs == Legs(q)
           of(t) == {i \in DOMAIN legs : legs[i].asset = AssetKey(t)}
<1>1. /\ DOMAIN legs = {1, 2}
      /\ legs[1].asset = AssetKey(q.a) /\ legs[1].amount = q.amountA
      /\ legs[2].asset = AssetKey(q.b) /\ legs[2].amount = q.amountB
  BY DEF Legs
<1>2. q.a \in Tokens /\ q.b \in Tokens /\ Zero \in Natives
  BY PinAssumption DEF LpShape
<1>3. ASSUME NEW t, NEW n, of(t) = {n} PROVE Counted(legs, t) = legs[n].amount
  BY <1>3 DEF Counted
<1>4. ASSUME NEW t, of(t) = {} PROVE Counted(legs, t) = 0
  BY <1>4 DEF Counted
<1> HIDE DEF legs
<1>5. ASSUME ~IsNative(q.a) \/ ~IsNative(q.b) PROVE of(q.a) = {1} /\ of(q.b) = {2}
  BY <1>1, <1>2, <1>5, PinAssumption DEF AssetKey, IsNative
<1>6. ASSUME ~IsNative(q.a) /\ ~IsNative(q.b) PROVE of(Zero) = {}
  BY <1>1, <1>2, <1>6, PinAssumption DEF AssetKey, IsNative
<1> HIDE DEF of
<1>7. QED BY <1>1, <1>3, <1>4, <1>5, <1>6 DEF legs


(* What LpKeepsBounds asks of a plan, in terms of the queued request.      *)
MinimumsOfTheirOwn(call, q, w) ==
  LET pair == IF call.pair = OfPosition THEN w.position ELSE call.pair
  IN  {pair[1], pair[2]} = {q.a, q.b} =>
        {<<pair[1], call.min0>>, <<pair[2], call.min1>>}
        = {<<q.a, q.minA>>, <<q.b, q.minB>>}

PlanBounds(plan, q, w, m, later) ==
  /\ plan.to = m
  /\ \A a \in plan.approvals :
       /\ a.amount = (IF a.token = "pair" THEN q.liquidity ELSE Counted(Legs(q), a.token))
       /\ a.spender \in {m} \cup Primary("permit2", later)
  /\ plan.value = (IF q.op = "add" THEN Counted(Legs(q), Zero) ELSE 0)
  /\ plan.call.recipient = "wallet"
  /\ q.op = "add" => /\ plan.call.max0 <= Counted(Legs(q), plan.call.pair[1])
                     /\ plan.call.max1 <= Counted(Legs(q), plan.call.pair[2])
  /\ (q.op = "add" /\ q.protocol # "v4") \/ q.op = "remove" =>
       MinimumsOfTheirOwn(plan.call, q, w)

(* A plan that was checked is the plan.                                    *)
LEMMA CheckedIs ==
  ASSUME NEW plan, NEW signed, plan \in Checked(signed)
  PROVE  plan = signed /\ \A a \in plan.approvals : Encodable(a, plan.call.deadline)
BY DEF Checked

LEMMA V2AddIs ==
  ASSUME NEW q \in LpShape, NEW t0, NEW t1, NEW max0, NEW max1, NEW min0, NEW min1,
         NEW deadline, NEW c \in BuildV2Add(t0, t1, max0, max1, min0, min1, deadline)
  PROVE  /\ c.pair = <<t0, t1>> /\ c.pair # OfPosition
         /\ c.max0 = max0 /\ c.max1 = max1 /\ c.min0 = min0 /\ c.min1 = min1
         /\ c.recipient = "wallet" /\ c.deadline = deadline
<1>1. c = [Call("addLiquidity", <<t0, t1>>, deadline) EXCEPT
             !.max0 = max0, !.max1 = max1, !.min0 = min0, !.min1 = min1]
  BY DEF BuildV2Add
<1>2. QED BY <1>1 DEF Call, OfPosition

LEMMA V3MintIs ==
  ASSUME NEW q \in LpShape, NEW t0, NEW t1, NEW max0, NEW max1, NEW min0, NEW min1,
         NEW deadline, NEW c \in BuildV3Mint(t0, t1, q, max0, max1, min0, min1, deadline)
  PROVE  /\ c.pair = <<t0, t1>> /\ c.pair # OfPosition
         /\ c.max0 = max0 /\ c.max1 = max1 /\ c.min0 = min0 /\ c.min1 = min1
         /\ c.recipient = "wallet" /\ c.deadline = deadline
<1>1. c = [Call("mint", <<t0, t1>>, deadline) EXCEPT
             !.max0 = max0, !.max1 = max1, !.min0 = min0, !.min1 = min1]
  BY DEF BuildV3Mint
<1>2. QED BY <1>1 DEF Call, OfPosition

(* _execute_evm_lp_add: v3 is given everything in the order of the pool.   *)
LEMMA AddPlan ==
  ASSUME NEW q \in LpShape, q.op = "add", q.protocol \in {"v2", "v3"}, q.a # q.b,
         NEW m, NEW now, NEW w, NEW later, NEW plan \in ExecuteAdd(q, m, now)
  PROVE  PlanBounds(plan, q, w, m, later)
<1> DEFINE deadline == CallDeadline(q, now)
           swap == q.protocol = "v3" /\ ~Sorted(q.a, q.b)
           t0 == IF swap THEN q.b ELSE q.a
           t1 == IF swap THEN q.a ELSE q.b
           max0 == IF swap THEN q.amountB ELSE q.amountA
           max1 == IF swap THEN q.amountA ELSE q.amountB
           min0 == IF swap THEN q.minB ELSE q.minA
           min1 == IF swap THEN q.minA ELSE q.minB
           calls == IF q.protocol = "v2"
                    THEN {c \in BuildV2Add(t0, t1, max0, max1, min0, min1, deadline) :
                            DecodedV2Add(c, q)}
                    ELSE {c \in BuildV3Mint(t0, t1, q, max0, max1, min0, min1, deadline) :
                            DecodedV3Mint(c, q, t0, t1, max0, max1, min0, min1)}
           raised == {Approve(q.a, m, q.amountA, "token"), Approve(q.b, m, q.amountB, "token")}
<1>1. plan \in UNION {Checked(Signed(m, raised, 0, c)) : c \in calls}
  BY Zenon DEF ExecuteAdd
<1>2. PICK c \in calls : plan \in Checked(Signed(m, raised, 0, c))
  BY <1>1
<1>3. plan = Signed(m, raised, 0, c)
  BY <1>2, CheckedIs
<1>4. /\ c.pair = <<t0, t1>> /\ c.pair # OfPosition
      /\ c.max0 = max0 /\ c.max1 = max1 /\ c.min0 = min0 /\ c.min1 = min1
      /\ c.recipient = "wallet"
  <2> HIDE DEF t0, t1, max0, max1, min0, min1, deadline
  <2>1. CASE q.protocol = "v2"
    BY <2>1, V2AddIs
  <2>2. CASE q.protocol # "v2"
    BY <2>2, V3MintIs
  <2>3. QED BY <2>1, <2>2
<1>5. ~IsNative(q.a) /\ ~IsNative(q.b)
  BY DEF DecodedV2Add, DecodedV3Mint, Erc20Legs
<1> HIDE DEF calls
<1>6. /\ Counted(Legs(q), q.a) = q.amountA /\ Counted(Legs(q), q.b) = q.amountB
      /\ Counted(Legs(q), Zero) = 0
  BY <1>5, CountedOfPair
<1>7. /\ plan.to = m /\ plan.approvals = raised /\ plan.value = 0 /\ plan.call = c
  BY <1>3 DEF Signed
<1>8. \A a \in raised : /\ a.token \in Tokens /\ a.amount = Counted(Legs(q), a.token)
                        /\ a.spender = m
  BY <1>6 DEF Approve, LpShape
<1>9. \A a \in plan.approvals :
        /\ a.amount = (IF a.token = "pair" THEN q.liquidity ELSE Counted(Legs(q), a.token))
        /\ a.spender \in {m} \cup Primary("permit2", later)
  <2> HIDE DEF raised
  <2>1. QED BY <1>7, <1>8, PinAssumption
<1>10. /\ c.max0 <= Counted(Legs(q), c.pair[1])
       /\ c.max1 <= Counted(Legs(q), c.pair[2])
  BY <1>4, <1>6 DEF LpShape
<1>11. MinimumsOfTheirOwn(c, q, w)
  BY <1>4 DEF MinimumsOfTheirOwn
<1> HIDE DEF raised
<1>12. QED BY <1>4, <1>6, <1>7, <1>9, <1>10, <1>11 DEF PlanBounds

LEMMA V4AddIs ==
  ASSUME NEW q \in LpShape, NEW deadline, NEW c \in BuildV4Add(q, deadline)
  PROVE  /\ c.pair = <<q.a, q.b>> /\ c.pair # OfPosition
         /\ c.max0 = q.amountA /\ c.max1 = q.amountB
         /\ c.recipient = "wallet" /\ c.deadline = deadline
         /\ Sorted(q.a, q.b) /\ (Zero \in {q.a, q.b} => q.a = Zero)
<1>1. c = [Call("modifyLiquidities.mint", <<q.a, q.b>>, deadline) EXCEPT
             !.liquidity = q.liquidity, !.max0 = q.amountA, !.max1 = q.amountB]
  BY DEF BuildV4Add
<1>2. Sorted(q.a, q.b) /\ (Zero \in {q.a, q.b} => q.a = Zero)
  BY DEF BuildV4Add, V4MintParams, V4Currencies
<1>3. QED BY <1>1, <1>2 DEF Call, OfPosition

(* Decoding after the approvals refuses nothing that was built, so they    *)
(* are never signed for a call that then is not.                           *)
LEMMA V4AddDecodes ==
  ASSUME NEW q \in LpShape, NEW deadline, NEW c \in BuildV4Add(q, deadline)
  PROVE  DecodedV4Add(c, q, IF q.a = Zero THEN q.amountA ELSE 0)
<1>1. c = [Call("modifyLiquidities.mint", <<q.a, q.b>>, deadline) EXCEPT
             !.liquidity = q.liquidity, !.max0 = q.amountA, !.max1 = q.amountB]
  BY DEF BuildV4Add
<1>2. /\ c.fn = "modifyLiquidities.mint" /\ c.pair = <<q.a, q.b>>
      /\ c.recipient = "wallet" /\ c.max0 = q.amountA /\ c.max1 = q.amountB
  BY <1>1 DEF Call
<1>3. q.amountA \in Int /\ q.amountB \in Int
  BY DEF LpShape
<1>4. QED BY <1>2, <1>3 DEF DecodedV4Add, AtMost, ForWallet

(* _execute_evm_lp_add_v4: what is not the native coin is a contract, or   *)
(* its approval would have been refused.                                   *)
LEMMA AddV4Plan ==
  ASSUME NEW q \in LpShape, q.op = "add", q.protocol = "v4", q.a # q.b,
         NEW m, NEW now, NEW w, NEW over, NEW later, NEW permit2 \in Primary("permit2", later),
         NEW plan \in ExecuteAddV4(q, m, permit2, w, over, now)
  PROVE  PlanBounds(plan, q, w, m, later)
<1> DEFINE deadline == CallDeadline(q, now)
           value == IF q.a = Zero THEN q.amountA ELSE 0
           legs == {l \in {<<q.a, q.amountA>>, <<q.b, q.amountB>>} : l[1] # Zero}
           raised == UNION {{Approve(l[1], permit2, l[2], "token"),
                             Approve(l[1], m, l[2], "permit2")} : l \in legs}
           calls == {d \in BuildV4Add(q, deadline) : DecodedV4Add(d, q, value)}
<1>1. plan \in UNION {Checked(Signed(m, raised, value, c)) : c \in calls}
  BY Zenon DEF ExecuteAddV4
<1>2. PICK c \in calls : plan \in Checked(Signed(m, raised, value, c))
  BY <1>1
<1>3. /\ plan = Signed(m, raised, value, c)
      /\ \A a \in plan.approvals : Encodable(a, plan.call.deadline)
  BY <1>2, CheckedIs
<1>4. /\ plan.to = m /\ plan.approvals = raised /\ plan.value = value /\ plan.call = c
  BY <1>3 DEF Signed
<1>5. /\ c.pair = <<q.a, q.b>> /\ c.max0 = q.amountA /\ c.max1 = q.amountB
      /\ c.recipient = "wallet" /\ (Zero \in {q.a, q.b} => q.a = Zero)
  BY V4AddIs
<1> HIDE DEF calls
<1>6. \A l \in legs : Approve(l[1], permit2, l[2], "token") \in raised
  OBVIOUS
<1>7. \A l \in legs : ~IsNative(l[1])
  <2> HIDE DEF raised, legs
  <2> SUFFICES ASSUME NEW l \in legs PROVE ~IsNative(l[1])
    OBVIOUS
  <2>1. Encodable(Approve(l[1], permit2, l[2], "token"), plan.call.deadline)
    BY <1>3, <1>4, <1>6
  <2>2. QED BY <2>1 DEF Encodable, Approve
<1>8. (q.a # Zero => ~IsNative(q.a)) /\ ~IsNative(q.b)
  <2>1. q.b # Zero
    BY <1>5
  <2>2. <<q.b, q.amountB>> \in legs /\ (q.a # Zero => <<q.a, q.amountA>> \in legs)
    BY <2>1
  <2> HIDE DEF legs
  <2>3. QED BY <1>7, <2>2
<1>9. Counted(Legs(q), q.a) = q.amountA /\ Counted(Legs(q), q.b) = q.amountB
  BY <1>8, CountedOfPair
<1>10. Counted(Legs(q), Zero) = value
  BY <1>8, <1>9, CountedOfPair
<1>11. \A a \in raised : /\ a.token \in Tokens /\ a.amount = Counted(Legs(q), a.token)
                         /\ a.spender \in {m, permit2}
  <2> SUFFICES ASSUME NEW l \in legs, NEW a, a = Approve(l[1], permit2, l[2], "token")
                                             \/ a = Approve(l[1], m, l[2], "permit2")
               PROVE  /\ a.token \in Tokens /\ a.amount = Counted(Legs(q), a.token)
                      /\ a.spender \in {m, permit2}
    OBVIOUS
  <2>1. l[1] \in Tokens /\ l[2] = Counted(Legs(q), l[1])
    BY <1>9 DEF LpShape
  <2>2. a.token = l[1] /\ a.amount = l[2] /\ a.spender \in {m, permit2}
    BY DEF Approve
  <2>3. QED BY <2>1, <2>2
<1>12. \A a \in plan.approvals :
         /\ a.amount = (IF a.token = "pair" THEN q.liquidity ELSE Counted(Legs(q), a.token))
         /\ a.spender \in {m} \cup Primary("permit2", later)
  <2> HIDE DEF raised
  <2>1. QED BY <1>4, <1>11, PinAssumption
<1>13. /\ c.max0 <= Counted(Legs(q), c.pair[1])
       /\ c.max1 <= Counted(Legs(q), c.pair[2])
  BY <1>5, <1>9 DEF LpShape
<1> HIDE DEF raised, value
<1>14. QED BY <1>4, <1>5, <1>10, <1>12, <1>13 DEF PlanBounds

(* _execute_evm_lp_remove: the tokens of a v3 position are in the order of *)
(* its pool, as those of the request are.                                  *)
LEMMA RemovePlan ==
  ASSUME NEW q \in LpShape, q.op = "remove", LpBounds(q),
         NEW m, NEW now, NEW later, NEW w, w.position \in Tokens \X Tokens,
         Sorted(w.position[1], w.position[2]),
         NEW plan \in ExecuteRemove(q, m, w, now)
  PROVE  PlanBounds(plan, q, w, m, later)
<1> DEFINE deadline == CallDeadline(q, now)
           calls ==
             CASE q.protocol = "v2" /\ w.pair = {q.a, q.b} ->
                    {c \in BuildV2Remove(q, deadline) : DecodedV2Remove(c, q)}
               [] q.protocol = "v3" /\ w.owner = "wallet" ->
                    {c \in BuildV3Remove(q, deadline) : DecodedV3Remove(c, q)}
               [] q.protocol = "v4" /\ w.owner = "wallet" ->
                    {c \in BuildV4Remove(q, deadline) :
                       DecodedV4Take(c, q, q.liquidity, q.minA, q.minB, q.burn)}
               [] OTHER -> {}
           raised == IF q.protocol = "v2"
                     THEN {Approve("pair", m, q.liquidity, "token")} ELSE {}
<1>1. plan \in UNION {Checked(Signed(m, raised, 0, c)) : c \in calls}
  BY Zenon DEF ExecuteRemove
<1>2. PICK c \in calls : plan \in Checked(Signed(m, raised, 0, c))
  BY <1>1
<1>3. plan = Signed(m, raised, 0, c)
  BY <1>2, CheckedIs
<1>4. plan.to = m /\ plan.approvals = raised /\ plan.value = 0 /\ plan.call = c
  BY <1>3 DEF Signed
<1>5. \/ /\ q.protocol = "v2"
         /\ c = [Call("removeLiquidity", <<q.a, q.b>>, deadline) EXCEPT
                   !.liquidity = q.liquidity, !.min0 = q.minA, !.min1 = q.minB]
      \/ /\ q.protocol = "v3"
         /\ c = [Call("multicall", OfPosition, deadline) EXCEPT
                   !.id = q.id, !.liquidity = q.liquidity, !.min0 = q.minA, !.min1 = q.minB]
      \/ /\ q.protocol = "v4"
         /\ c = [Call("modifyLiquidities.decrease", <<q.a, q.b>>, deadline) EXCEPT
                   !.id = q.id, !.liquidity = q.liquidity, !.min0 = q.minA,
                   !.min1 = q.minB, !.burn = q.burn]
  <2>1. CASE q.protocol = "v2"
    BY <2>1 DEF BuildV2Remove
  <2>2. CASE q.protocol = "v3"
    BY <2>2 DEF BuildV3Remove
  <2>3. CASE q.protocol = "v4"
    BY <2>3 DEF BuildV4Remove
  <2>4. QED BY <2>1, <2>2, <2>3 DEF LpShape
<1> HIDE DEF calls
<1>6. /\ c.recipient = "wallet" /\ c.min0 = q.minA /\ c.min1 = q.minB
      /\ c.pair = <<q.a, q.b>> \/ (c.pair = OfPosition /\ q.protocol = "v3")
  BY <1>5 DEF Call, OfPosition
<1>7. MinimumsOfTheirOwn(c, q, w)
  <2>1. CASE c.pair = <<q.a, q.b>>
    BY <1>6, <2>1 DEF MinimumsOfTheirOwn, OfPosition
  <2>2. CASE c.pair = OfPosition /\ q.protocol = "v3"
    <3>1. Sorted(q.a, q.b)
      BY <2>2 DEF LpBounds, RemoveBounds
    <3>2. ASSUME {w.position[1], w.position[2]} = {q.a, q.b}
          PROVE  w.position[1] = q.a /\ w.position[2] = q.b
      BY <3>1, <3>2, PinAssumption DEF Sorted, LpShape
    <3>3. QED BY <1>6, <2>2, <3>2 DEF MinimumsOfTheirOwn
  <2>3. QED BY <1>6, <2>1, <2>2
<1>8. \A a \in raised : a.token = "pair" /\ a.amount = q.liquidity /\ a.spender = m
  BY DEF Approve
<1> HIDE DEF raised
<1>9. QED BY <1>4, <1>6, <1>7, <1>8 DEF PlanBounds

(* _execute_evm_lp_claim                                                   *)
LEMMA ClaimPlan ==
  ASSUME NEW q \in LpShape, q.op = "claim", LpBounds(q), NEW m, NEW now, NEW w, NEW later,
         NEW plan \in ExecuteClaim(q, m, w, now)
  PROVE  PlanBounds(plan, q, w, m, later)
<1> DEFINE calls ==
             CASE w.owner # "wallet" \/ ~NotExpired(q, now) -> {}
               [] q.protocol = "v3" -> {c \in BuildV3Claim(q) : DecodedV3Collect(c, q)}
               [] q.protocol = "v4" ->
                    IF InTime(q, now)
                    THEN {c \in BuildV4Claim(q, CallDeadline(q, now)) :
                            DecodedV4Take(c, q, 0, 0, 0, FALSE)}
                    ELSE {}
<1>1. PICK c \in calls : plan = Signed(m, {}, 0, c)
  BY DEF ExecuteClaim
<1>2. plan.to = m /\ plan.approvals = {} /\ plan.value = 0 /\ plan.call = c
  BY <1>1 DEF Signed
<1>3. c.recipient = "wallet"
  <2>1. q.protocol \in {"v3", "v4"}
    BY DEF LpBounds, ClaimBounds, LpShape
  <2>2. QED BY <2>1 DEF DecodedV3Collect, DecodedV4Take, ForWallet
<1>4. QED BY <1>2, <1>3 DEF PlanBounds

(* What the chain may show: a v3 position has its tokens in the order of   *)
(* the pool.                                                               *)
Worlds(w) ==
  w.position \in Tokens \X Tokens /\ Sorted(w.position[1], w.position[2])

(* _execute_evm_lp_*: for every request, every number in it, and whatever  *)
(* the pins, the chain and the clock are at its execution, the calls that  *)
(* are signed stay inside what was approved and counted.                   *)
THEOREM EveryLpKeepsBounds ==
  ASSUME NEW r \in LpShape, NEW w, Worlds(w), NEW over \in PinTables, NEW later \in PinTables,
         NEW now
  PROVE  LpKeepsBounds(r, w, over, later, now)
<1> SUFFICES ASSUME NEW q \in Queued(r, over), NEW plan \in Execute(q, w, later, now)
             PROVE  /\ plan.to \in LpChecks(q, over)[LpRole(r.protocol)]
                                     \cap Primary(LpRole(r.protocol), later)
                    /\ PlanBounds(plan, r, w, plan.to, later)
  <2>1. \A plan, q : Legs(q) = Legs(r) /\ q.liquidity = r.liquidity
                     /\ PlanBounds(plan, r, w, plan.to, later)
                     => /\ \A a \in plan.approvals :
                             /\ a.amount = (IF a.token = "pair" THEN q.liquidity
                                            ELSE Counted(Legs(q), a.token))
                             /\ a.spender \in {plan.to} \cup Primary("permit2", later)
                        /\ plan.value = (IF r.op = "add" THEN Counted(Legs(q), Zero) ELSE 0)
                        /\ r.op = "add" =>
                             /\ plan.call.max0 <= Counted(Legs(q), plan.call.pair[1])
                             /\ plan.call.max1 <= Counted(Legs(q), plan.call.pair[2])
    BY DEF PlanBounds
  <2>2. \A q \in Queued(r, over) : Legs(q) = Legs(r) /\ q.liquidity = r.liquidity
    BY QueuedIs DEF Legs
  <2>3. QED BY <2>1, <2>2 DEF LpKeepsBounds, PlanBounds, MinimumsOfTheirOwn
<1>1. /\ q \in LpShape /\ LpBounds(q)
      /\ q.op = r.op /\ q.protocol = r.protocol /\ q.a = r.a /\ q.b = r.b
      /\ q.amountA = r.amountA /\ q.amountB = r.amountB
      /\ q.minA = r.minA /\ q.minB = r.minB /\ q.liquidity = r.liquidity
      /\ q.manager \in Primary(LpRole(q.protocol), over)
  BY QueuedIs
<1>2. PICK m \in Managers(q, later), p \in Permit2s(q, later) :
        plan \in ExecuteWith(q, m, p, w, later, now)
  BY DEF Execute
<1>3. m = q.manager /\ m \in Primary(LpRole(q.protocol), later)
  BY <1>1, SameManager
<1>4. q.a # q.b
  BY <1>1 DEF LpBounds
<1>5. PlanBounds(plan, q, w, m, later)
  <2>1. CASE q.op = "add" /\ q.protocol = "v4"
    <3>1. p \in Primary("permit2", later)
      BY <2>1 DEF Permit2s, Resolve
    <3>2. plan \in ExecuteAddV4(q, m, p, w, later, now)
      BY <1>2, <2>1 DEF ExecuteWith
    <3>3. QED BY <1>1, <1>4, <2>1, <3>1, <3>2, AddV4Plan
  <2>2. CASE q.op = "add" /\ q.protocol # "v4"
    <3>1. q.protocol \in {"v2", "v3"}
      BY <1>1, <2>2 DEF LpShape
    <3>2. plan \in ExecuteAdd(q, m, now)
      BY <1>2, <2>2 DEF ExecuteWith
    <3>3. QED BY <1>1, <1>4, <2>2, <3>1, <3>2, AddPlan
  <2>3. CASE q.op = "remove"
    <3>1. plan \in ExecuteRemove(q, m, w, now)
      BY <1>2, <2>3 DEF ExecuteWith
    <3>2. QED BY <1>1, <2>3, <3>1, RemovePlan DEF Worlds
  <2>4. CASE q.op = "claim"
    <3>1. plan \in ExecuteClaim(q, m, w, now)
      BY <1>2, <2>4 DEF ExecuteWith
    <3>2. QED BY <1>1, <2>4, <3>1, ClaimPlan
  <2>5. QED BY <1>1, <2>1, <2>2, <2>3, <2>4 DEF LpShape
<1>6. Legs(q) = Legs(r)
  BY <1>1 DEF Legs
<1>7. plan.to = m
  BY <1>5 DEF PlanBounds
<1>8. PlanBounds(plan, r, w, plan.to, later)
  BY <1>1, <1>5, <1>6, <1>7 DEF PlanBounds, MinimumsOfTheirOwn
<1>9. LpChecks(q, over)[LpRole(q.protocol)] = Primary(LpRole(q.protocol), over)
  BY DEF LpChecks
<1>10. QED BY <1>1, <1>3, <1>7, <1>8, <1>9

-----------------------------------------------------------------------------
(* DexCheck: the requests and the chains it visits                         *)

LpWorlds ==
  [owner : {"wallet", "other"}, pair : SUBSET Tokens, position : Tokens \X Tokens,
   initialized : BOOLEAN, poolManager : Contracts \cup {Builtin["v4_pool_manager"]}]
LpContexts == [over : PinTables, later : PinTables, now : {1}, world : LpWorlds]

DexTypes ==
  /\ kind = "lp" => /\ request \in LpShape /\ context \in LpContexts
                    /\ Worlds(context.world)
  /\ kind = "contract" => request \in ContractRequests

LEMMA LpRequestsHaveShape ==
  ASSUME NEW r \in LpRequests PROVE r \in LpShape /\ r.a # r.b
<1>1. r \in LpShape
  <2>1. Zero \in Tokens
    BY PinAssumption
  <2>2. {0, 1, 2} \subseteq Nat /\ {0, 1} \subseteq Int /\ 0 .. 1 \subseteq Nat
    OBVIOUS
  <2>3. r \in [op : {"add", "remove", "claim"}, protocol : {"v2", "v3", "v4"},
          a : Tokens, b : Tokens, amountA : {1}, amountB : {2}, minA : 0 .. 1,
          minB : {0, 2}, liquidity : {1}, fee : {1}, spacing : {1}, lower : {0},
          upper : {1}, hooks : {Zero}, manager : {"none"}, permit2 : {"none"},
          id : {1}, burn : {FALSE}, extra : {{}}, deadline : {0}]
    BY DEF LpRequests
  <2>4. QED BY <2>1, <2>2, <2>3 DEF LpShape, Named
<1>2. Queued(r, NoPins) # {}
  BY DEF LpRequests
<1>3. LpBounds(r)
  BY <1>2 DEF Queued
<1>4. QED BY <1>1, <1>3 DEF LpBounds

LEMMA FittingIsContext ==
  ASSUME NEW r \in LpShape, r.a # r.b
  PROVE  Fitting(r) \in LpContexts /\ Worlds(Fitting(r).world)
<1>1. r.a \in Tokens /\ r.b \in Tokens
  BY DEF LpShape
<1>2. Sorted(r.a, r.b) \/ Sorted(r.b, r.a)
  BY <1>1, PinAssumption DEF Sorted
<1>3. QED BY <1>1, <1>2, NoPinsIsTable DEF Fitting, LpContexts, LpWorlds, Worlds

LEMMA EditLpStep ==
  ASSUME DexTypes, EditLp PROVE DexTypes'
<1>1. kind = "lp" /\ kind' = "lp" /\ context' = context
  BY DEF EditLp, EditRequest
<1>2. request \in LpShape /\ context \in LpContexts /\ Worlds(context.world)
  BY <1>1 DEF DexTypes
<1>3. {0, U128, U256, 1, 3, U48} \subseteq Nat /\ {-I24 - 1, 0, I24} \subseteq Int
  BY WidthAssumption
<1>4. request' \in LpShape
  <2>1. \/ \E n \in Nat : \/ request' = [request EXCEPT !.amountA = n]
                          \/ request' = [request EXCEPT !.amountB = n]
                          \/ request' = [request EXCEPT !.minA = n]
                          \/ request' = [request EXCEPT !.liquidity = n]
                          \/ request' = [request EXCEPT !.deadline = n]
        \/ \E n \in Int : \/ request' = [request EXCEPT !.lower = n]
                          \/ request' = [request EXCEPT !.upper = n]
        \/ \E t \in Tokens : \/ request' = [request EXCEPT !.a = t]
                             \/ request' = [request EXCEPT !.b = t]
        \/ \E c \in Contracts : request' = [request EXCEPT !.manager = c]
        \/ request' = [request EXCEPT !.burn = TRUE]
    BY <1>3 DEF EditLp, EditRequest
  <2>2. CASE \E n \in Nat : \/ request' = [request EXCEPT !.amountA = n]
                            \/ request' = [request EXCEPT !.amountB = n]
                            \/ request' = [request EXCEPT !.minA = n]
                            \/ request' = [request EXCEPT !.liquidity = n]
                            \/ request' = [request EXCEPT !.deadline = n]
    BY <1>2, <2>2 DEF LpShape
  <2>3. CASE \E n \in Int : \/ request' = [request EXCEPT !.lower = n]
                            \/ request' = [request EXCEPT !.upper = n]
    BY <1>2, <2>3 DEF LpShape
  <2>4. CASE \E t \in Tokens : \/ request' = [request EXCEPT !.a = t]
                               \/ request' = [request EXCEPT !.b = t]
    BY <1>2, <2>4 DEF LpShape
  <2>5. CASE \E c \in Contracts : request' = [request EXCEPT !.manager = c]
    BY <1>2, <2>5 DEF LpShape, Named
  <2>6. CASE request' = [request EXCEPT !.burn = TRUE]
    BY <1>2, <2>6 DEF LpShape
  <2>7. QED BY <2>1, <2>2, <2>3, <2>4, <2>5, <2>6
<1>5. QED BY <1>1, <1>2, <1>4 DEF DexTypes

LEMMA EditConfigurationStep ==
  ASSUME DexTypes, EditConfiguration PROVE DexTypes'
<1>1. kind = "lp" /\ kind' = "lp" /\ request' = request
  BY DEF EditConfiguration, Edit
<1>2. request \in LpShape /\ context \in LpContexts /\ Worlds(context.world)
  BY <1>1 DEF DexTypes
<1>3. request.b \in Tokens
  BY <1>2 DEF LpShape
<1>4. context' \in LpContexts /\ Worlds(context'.world)
  <2>1. \/ \E o \in PinTables : \/ context' = [context EXCEPT !.over = o]
                                \/ context' = [context EXCEPT !.later = o]
        \/ context' = [context EXCEPT !.world.owner = "other"]
        \/ context' = [context EXCEPT !.world.initialized = FALSE]
        \/ \E t \in Tokens : context' = [context EXCEPT !.world.pair = {t, request.b}]
        \/ \E t \in Tokens : /\ Sorted(t, request.b)
                             /\ context' = [context EXCEPT !.world.position = <<t, request.b>>]
        \/ \E c \in Contracts : context' = [context EXCEPT !.world.poolManager = c]
    BY OverridesAreTables DEF EditConfiguration, Edit
  <2>2. CASE \E o \in PinTables : \/ context' = [context EXCEPT !.over = o]
                                  \/ context' = [context EXCEPT !.later = o]
    BY <1>2, <2>2 DEF LpContexts
  <2>3. ASSUME NEW new \in LpWorlds, context' = [context EXCEPT !.world = new], Worlds(new)
        PROVE  context' \in LpContexts /\ Worlds(context'.world)
    BY <1>2, <2>3 DEF LpContexts
  <2>4. context.world \in LpWorlds
    BY <1>2 DEF LpContexts
  <2>5. CASE context' = [context EXCEPT !.world.owner = "other"]
    <3> DEFINE new == [context.world EXCEPT !.owner = "other"]
    <3>1. new \in LpWorlds /\ Worlds(new)
      BY <1>2, <2>4 DEF LpWorlds, Worlds
    <3>2. QED BY <2>3, <2>5, <3>1
  <2>6. CASE context' = [context EXCEPT !.world.initialized = FALSE]
    <3> DEFINE new == [context.world EXCEPT !.initialized = FALSE]
    <3>1. new \in LpWorlds /\ Worlds(new)
      BY <1>2, <2>4 DEF LpWorlds, Worlds
    <3>2. QED BY <2>3, <2>6, <3>1
  <2>7. CASE \E c \in Contracts : context' = [context EXCEPT !.world.poolManager = c]
    <3>1. PICK c \in Contracts : context' = [context EXCEPT !.world.poolManager = c]
      BY <2>7
    <3> DEFINE new == [context.world EXCEPT !.poolManager = c]
    <3>2. new \in LpWorlds /\ Worlds(new)
      BY <1>2, <2>4 DEF LpWorlds, Worlds
    <3>3. QED BY <2>3, <3>1, <3>2
  <2>8. CASE \E t \in Tokens : context' = [context EXCEPT !.world.pair = {t, request.b}]
    BY <1>2, <1>3, <2>8 DEF LpContexts, LpWorlds, Worlds
  <2>9. CASE \E t \in Tokens : /\ Sorted(t, request.b)
                               /\ context' = [context EXCEPT !.world.position =
                                                <<t, request.b>>]
    BY <1>2, <1>3, <2>9 DEF LpContexts, LpWorlds, Worlds
  <2>10. QED BY <2>1, <2>2, <2>5, <2>6, <2>7, <2>8, <2>9
<1>5. QED BY <1>1, <1>2, <1>4 DEF DexTypes

LEMMA DexTypesAlways == DexSpec => []DexTypes
<1>1. DexInit => DexTypes
  <2> SUFFICES ASSUME DexInit PROVE DexTypes
    OBVIOUS
  <2>1. ASSUME kind = "lp" PROVE request \in LpRequests /\ context = Fitting(request)
    BY <2>1 DEF DexInit
  <2>2. ASSUME kind = "contract" PROVE request \in ContractRequests
    BY <2>2 DEF DexInit
  <2>3. QED BY <2>1, <2>2, LpRequestsHaveShape, FittingIsContext DEF DexTypes
<1>2. DexTypes /\ [DexNext]_dexVars => DexTypes'
  <2> SUFFICES ASSUME DexTypes, [DexNext]_dexVars PROVE DexTypes'
    OBVIOUS
  <2>1. CASE UNCHANGED dexVars
    BY <2>1 DEF DexTypes, dexVars
  <2>2. CASE AddCommand \/ EditQuote \/ EditHolderCall
    <3>1. kind' = "swap"
      BY <2>2 DEF AddCommand, EditQuote, EditHolderCall, Edit
    <3>2. QED BY <3>1 DEF DexTypes
  <2>3. QED BY <2>1, <2>2, EditLpStep, EditConfigurationStep DEF DexNext
<1>3. QED BY <1>1, <1>2, PTL DEF DexSpec

(* rt_contract_call: every wei that a call sends was counted.              *)
LEMMA EveryValueIsCounted ==
  ASSUME NEW r \in ContractRequests PROVE ValueIsCounted(r)
<1> SUFFICES ASSUME ValidContract(r), r.kind # "deploy"
             PROVE  ContractValue(r) = Counted(ContractLegs(r), Zero)
  BY DEF ValueIsCounted
<1>1. r.kind \in {"call", "view"} /\ r.value \in Nat
  <2>1. r.kind \in {"deploy", "call", "view"} /\ r.value \in 0 .. 2
    BY DEF ContractRequests, Amounts
  <2>2. QED BY <2>1
<1>2. CASE r.kind = "call" /\ r.value > 0
  <2> DEFINE legs == ContractLegs(r)
  <2>1. DOMAIN legs = {1} /\ legs[1].asset = "native" /\ legs[1].amount = r.value
    BY <1>2 DEF ContractLegs
  <2>2. AssetKey(Zero) = "native"
    BY PinAssumption DEF AssetKey, IsNative
  <2> HIDE DEF legs
  <2>3. Counted(legs, Zero) = r.value
    BY <2>1, <2>2 DEF Counted
  <2>4. QED BY <1>2, <2>3 DEF legs, ContractValue
<1>3. CASE ~(r.kind = "call" /\ r.value > 0)
  <2>1. ContractLegs(r) = <<>> /\ ContractValue(r) = 0
    BY <1>1, <1>3 DEF ContractLegs, ContractValue
  <2>2. QED BY <2>1 DEF Counted
<1>4. QED BY <1>2, <1>3

(* For every configuration and every chain: a liquidity call stays inside  *)
(* what was approved and counted, and a contract call sends no native coin *)
(* that was not counted.                                                   *)
THEOREM IntentKeepsBoundsAlways == DexSpec => []IntentKeepsBounds
<1>1. DexTypes => IntentKeepsBounds
  <2> SUFFICES ASSUME DexTypes PROVE IntentKeepsBounds
    OBVIOUS
  <2>1. ASSUME kind = "lp"
        PROVE  LpKeepsBounds(request, context.world, context.over, context.later, context.now)
    BY <2>1, EveryLpKeepsBounds DEF DexTypes, LpContexts
  <2>2. QED BY <2>1, EveryValueIsCounted DEF DexTypes, IntentKeepsBounds
<1>2. QED BY <1>1, DexTypesAlways, PTL

-----------------------------------------------------------------------------
(* EvmIntents and DexCheck: no approval is wasted                          *)

(* What an approval must not be wasted on: the numbers can be encoded, the *)
(* tokens are contracts or what the pool takes for the native coin.        *)
Approvable(q, now) ==
  /\ Representable(q) /\ InTime(q, now)
  /\ \A t \in {q.a, q.b} : ~IsNative(t) \/ (t = Zero /\ q.protocol # "v2")

LEMMA EncodableIs ==
  ASSUME NEW signed, \A a \in signed.approvals : Encodable(a, signed.call.deadline)
  PROVE  Checked(signed) = {signed}
BY DEF Checked

LEMMA DeadlineFits ==
  ASSUME NEW q \in LpShape, Representable(q), NEW now \in Nat, now + Lifetime < U48
  PROVE  CallDeadline(q, now) < U48
BY DEF CallDeadline, Representable, LpShape

(* Sorted tokens have the native coin first, if at all.                    *)
LEMMA NativeIsFirst ==
  ASSUME NEW t \in Tokens, NEW u \in Tokens, Sorted(t, u)
  PROVE  V4Currencies(t, u, t = Zero)
BY PinAssumption DEF Sorted, V4Currencies

LEMMA AddNotWasted ==
  ASSUME NEW q \in LpShape, q.op = "add", q.protocol \in {"v2", "v3"}, LpBounds(q),
         NEW m, NEW now \in Nat, Approvable(q, now)
  PROVE  ExecuteAdd(q, m, now) # {}
<1> DEFINE deadline == CallDeadline(q, now)
           swap == q.protocol = "v3" /\ ~Sorted(q.a, q.b)
           t0 == IF swap THEN q.b ELSE q.a
           t1 == IF swap THEN q.a ELSE q.b
           max0 == IF swap THEN q.amountB ELSE q.amountA
           max1 == IF swap THEN q.amountA ELSE q.amountB
           min0 == IF swap THEN q.minB ELSE q.minA
           min1 == IF swap THEN q.minA ELSE q.minB
           calls == IF q.protocol = "v2"
                    THEN {c \in BuildV2Add(t0, t1, max0, max1, min0, min1, deadline) :
                            DecodedV2Add(c, q)}
                    ELSE {c \in BuildV3Mint(t0, t1, q, max0, max1, min0, min1, deadline) :
                            DecodedV3Mint(c, q, t0, t1, max0, max1, min0, min1)}
           raised == {Approve(q.a, m, q.amountA, "token"), Approve(q.b, m, q.amountB, "token")}
<1>1. ExecuteAdd(q, m, now) = UNION {Checked(Signed(m, raised, 0, c)) : c \in calls}
  BY Zenon DEF ExecuteAdd, Approvable
<1>2. /\ q.a # q.b /\ ~IsNative(q.a) /\ ~IsNative(q.b)
      /\ q.amountA > 0 /\ q.amountB > 0
      /\ q.protocol = "v3" => q.fee \in V3Fees /\ q.lower < q.upper
  BY DEF LpBounds, AddBounds
<1>3. /\ {q.amountA, q.amountB} \subseteq 1 .. U256 - 1
      /\ {q.minA, q.minB} \subseteq 0 .. U256 - 1
      /\ Tick(q.lower) /\ Tick(q.upper)
  BY <1>2, WidthAssumption DEF Approvable, Representable, LpShape
<1>4. q.protocol = "v3" => Sorted(t0, t1)
  BY <1>2, PinAssumption DEF Sorted, LpShape
<1>5. /\ {max0, max1} \subseteq 1 .. U256 - 1
      /\ {min0, min1} \subseteq 0 .. U256 - 1
  BY <1>3
<1>6. {max0, max1, min0, min1} \subseteq Int
  BY <1>5, WidthAssumption
<1>7. calls # {}
  <2>1. CASE q.protocol = "v2"
    <3> DEFINE c == [Call("addLiquidity", <<t0, t1>>, deadline) EXCEPT
                       !.max0 = max0, !.max1 = max1, !.min0 = min0, !.min1 = min1]
    <3>1. c \in BuildV2Add(t0, t1, max0, max1, min0, min1, deadline)
      BY <1>5 DEF BuildV2Add
    <3>2. /\ c.fn = "addLiquidity" /\ c.pair = <<q.a, q.b>> /\ c.recipient = "wallet"
          /\ c.max0 = q.amountA /\ c.max1 = q.amountB /\ c.min0 = q.minA /\ c.min1 = q.minB
      BY <2>1 DEF Call
    <3>3. DecodedV2Add(c, q)
      BY <1>2, <1>3, <3>2 DEF DecodedV2Add, Erc20Legs, AtMost, AtLeast, ForWallet, LpShape
    <3>4. QED BY <2>1, <3>1, <3>3
  <2>2. CASE q.protocol = "v3"
    <3> HIDE DEF t0, t1, max0, max1, min0, min1
    <3> DEFINE c == [Call("mint", <<t0, t1>>, deadline) EXCEPT
                       !.max0 = max0, !.max1 = max1, !.min0 = min0, !.min1 = min1]
    <3>1. c \in BuildV3Mint(t0, t1, q, max0, max1, min0, min1, deadline)
      BY <1>2, <1>3, <1>4, <1>5, <2>2 DEF BuildV3Mint
    <3>2. /\ c.fn = "mint" /\ c.pair = <<t0, t1>> /\ c.recipient = "wallet"
          /\ c.max0 = max0 /\ c.max1 = max1 /\ c.min0 = min0 /\ c.min1 = min1
      BY DEF Call
    <3>3. AtMost(c, max0, max1) /\ AtLeast(c, min0, min1)
      BY <1>6, <3>2 DEF AtMost, AtLeast
    <3>4. DecodedV3Mint(c, q, t0, t1, max0, max1, min0, min1)
      BY <1>2, <3>2, <3>3 DEF DecodedV3Mint, Erc20Legs, ForWallet
    <3>5. QED BY <2>2, <3>1, <3>4
  <2>3. QED BY <2>1, <2>2
<1>8. \A a \in raised : \A d : Encodable(a, d)
  BY <1>2 DEF Approve, Encodable
<1>9. PICK c \in calls : TRUE
  BY <1>7
<1> HIDE DEF calls, raised
<1>10. Signed(m, raised, 0, c).approvals = raised
  BY DEF Signed
<1>11. Checked(Signed(m, raised, 0, c)) = {Signed(m, raised, 0, c)}
  BY <1>8, <1>10, EncodableIs
<1>12. QED BY <1>1, <1>9, <1>11

LEMMA AddV4NotWasted ==
  ASSUME NEW q \in LpShape, q.op = "add", q.protocol = "v4", LpBounds(q),
         NEW m, NEW permit2, NEW w, NEW over, Cooperative(q, w, over),
         NEW now \in Nat, now + Lifetime < U48, Approvable(q, now)
  PROVE  ExecuteAddV4(q, m, permit2, w, over, now) # {}
<1> DEFINE deadline == CallDeadline(q, now)
           value == IF q.a = Zero THEN q.amountA ELSE 0
           legs == {l \in {<<q.a, q.amountA>>, <<q.b, q.amountB>>} : l[1] # Zero}
           raised == UNION {{Approve(l[1], permit2, l[2], "token"),
                             Approve(l[1], m, l[2], "permit2")} : l \in legs}
           calls == {d \in BuildV4Add(q, deadline) : DecodedV4Add(d, q, value)}
<1>1. ExecuteAddV4(q, m, permit2, w, over, now)
        = UNION {Checked(Signed(m, raised, value, c)) : c \in calls}
  BY Zenon DEF ExecuteAddV4, Approvable, Cooperative
<1>2. AddBoundsV4(q)
  BY DEF LpBounds
<1>3. V4Currencies(q.a, q.b, q.a = Zero)
  BY <1>2, NativeIsFirst DEF AddBoundsV4, LpShape
<1>4. V4MintParams(q, q.a = Zero)
  BY <1>2, <1>3, WidthAssumption
  DEF V4MintParams, V4PoolKeyArgs, AddBoundsV4, Approvable, Representable, LpShape
<1>5. calls # {}
  <2>1. \E c : c \in BuildV4Add(q, deadline)
    BY <1>4 DEF BuildV4Add
  <2>2. QED BY <2>1, V4AddDecodes
<1>6. \A l \in legs : l[2] > 0 /\ ~IsNative(l[1])
  BY <1>2 DEF AddBoundsV4, Approvable
<1>7. deadline < U48
  BY DeadlineFits DEF Approvable
<1>8. \A a \in raised : Encodable(a, deadline)
  <2> SUFFICES ASSUME NEW l \in legs, NEW a, a = Approve(l[1], permit2, l[2], "token")
                                             \/ a = Approve(l[1], m, l[2], "permit2")
               PROVE  Encodable(a, deadline)
    OBVIOUS
  <2> HIDE DEF legs
  <2>1. l[2] > 0 /\ ~IsNative(l[1])
    BY <1>6
  <2>2. a.token = l[1] /\ a.amount = l[2]
    BY DEF Approve
  <2>3. QED BY <1>7, <2>1, <2>2 DEF Encodable
<1>9. PICK c \in calls : TRUE
  BY <1>5
<1>10. c.deadline = deadline
  BY V4AddIs
<1> HIDE DEF calls, raised, value, deadline
<1>11. /\ Signed(m, raised, value, c).approvals = raised
       /\ Signed(m, raised, value, c).call = c
  BY DEF Signed
<1>12. Checked(Signed(m, raised, value, c)) = {Signed(m, raised, value, c)}
  BY <1>8, <1>10, <1>11, EncodableIs
<1>13. QED BY <1>1, <1>9, <1>12

LEMMA RemoveNotWasted ==
  ASSUME NEW q \in LpShape, q.op = "remove", LpBounds(q),
         NEW m, NEW w, NEW over, Cooperative(q, w, over), NEW now \in Nat, Approvable(q, now)
  PROVE  ExecuteRemove(q, m, w, now) # {}
<1> DEFINE deadline == CallDeadline(q, now)
           calls ==
             CASE q.protocol = "v2" /\ w.pair = {q.a, q.b} ->
                    {c \in BuildV2Remove(q, deadline) : DecodedV2Remove(c, q)}
               [] q.protocol = "v3" /\ w.owner = "wallet" ->
                    {c \in BuildV3Remove(q, deadline) : DecodedV3Remove(c, q)}
               [] q.protocol = "v4" /\ w.owner = "wallet" ->
                    {c \in BuildV4Remove(q, deadline) :
                       DecodedV4Take(c, q, q.liquidity, q.minA, q.minB, q.burn)}
               [] OTHER -> {}
           raised == IF q.protocol = "v2"
                     THEN {Approve("pair", m, q.liquidity, "token")} ELSE {}
<1>1. ExecuteRemove(q, m, w, now) = UNION {Checked(Signed(m, raised, 0, c)) : c \in calls}
  BY Zenon DEF ExecuteRemove, Approvable
<1>2. /\ q.liquidity > 0
      /\ q.protocol \in {"v3", "v4"} => q.id > 0 /\ Sorted(q.a, q.b)
  BY DEF LpBounds, RemoveBounds
<1>3. w.pair = {q.a, q.b} /\ w.owner = "wallet"
  BY DEF Cooperative
<1>4. /\ q.liquidity \in 1 .. U128 - 1 /\ q.liquidity \in 1 .. U256 - 1
      /\ {q.minA, q.minB} \subseteq 0 .. U128 - 1 /\ {q.minA, q.minB} \subseteq 0 .. U256 - 1
      /\ q.minA \in Int /\ q.minB \in Int
  BY <1>2, WidthAssumption DEF Approvable, Representable, LpShape
<1>5. calls # {}
  <2>1. CASE q.protocol = "v2"
    <3> DEFINE c == [Call("removeLiquidity", <<q.a, q.b>>, deadline) EXCEPT
                       !.liquidity = q.liquidity, !.min0 = q.minA, !.min1 = q.minB]
    <3>1. c \in BuildV2Remove(q, deadline)
      BY <1>4 DEF BuildV2Remove
    <3>2. /\ c.fn = "removeLiquidity" /\ c.pair = <<q.a, q.b>> /\ c.recipient = "wallet"
          /\ c.liquidity = q.liquidity /\ c.min0 = q.minA /\ c.min1 = q.minB
      BY DEF Call
    <3>3. Erc20Legs(q)
      BY <2>1 DEF Approvable, Erc20Legs
    <3>4. DecodedV2Remove(c, q)
      BY <1>4, <3>2, <3>3 DEF DecodedV2Remove, AtLeast, ForWallet
    <3>5. QED BY <1>3, <2>1, <3>1, <3>4
  <2>2. CASE q.protocol = "v3"
    <3> DEFINE c == [Call("multicall", OfPosition, deadline) EXCEPT
                       !.id = q.id, !.liquidity = q.liquidity, !.min0 = q.minA,
                       !.min1 = q.minB]
    <3>1. c \in BuildV3Remove(q, deadline)
      BY <1>4 DEF BuildV3Remove
    <3>2. /\ c.fn = "multicall" /\ c.id = q.id /\ c.recipient = "wallet"
          /\ c.liquidity = q.liquidity /\ c.min0 = q.minA /\ c.min1 = q.minB
      BY DEF Call
    <3>3. DecodedV3Remove(c, q)
      BY <1>4, <3>2 DEF DecodedV3Remove, AtLeast, ForWallet
    <3>4. QED BY <1>3, <2>2, <3>1, <3>3
  <2>3. CASE q.protocol = "v4"
    <3> DEFINE c == [Call("modifyLiquidities.decrease", <<q.a, q.b>>, deadline) EXCEPT
                       !.id = q.id, !.liquidity = q.liquidity, !.min0 = q.minA,
                       !.min1 = q.minB, !.burn = q.burn]
    <3>1. V4Currencies(q.a, q.b, q.a = Zero)
      BY <1>2, <2>3, NativeIsFirst DEF LpShape
    <3>2. V4DecreaseParams(q.id, q.liquidity, q.minA, q.minB)
      BY <1>2, <1>4, <2>3 DEF V4DecreaseParams
    <3>3. c \in BuildV4Remove(q, deadline)
      BY <1>2, <3>1, <3>2 DEF BuildV4Remove
    <3>4. /\ c.fn = "modifyLiquidities.decrease" /\ c.id = q.id /\ c.recipient = "wallet"
          /\ c.pair = <<q.a, q.b>> /\ c.burn = q.burn
          /\ c.liquidity = q.liquidity /\ c.min0 = q.minA /\ c.min1 = q.minB
      BY DEF Call
    <3>5. DecodedV4Take(c, q, q.liquidity, q.minA, q.minB, q.burn)
      BY <1>4, <3>4 DEF DecodedV4Take, AtLeast, ForWallet
    <3>6. QED BY <1>3, <2>3, <3>3, <3>5
  <2>4. QED BY <2>1, <2>2, <2>3 DEF LpShape
<1>6. \A a \in raised : \A d : Encodable(a, d)
  BY <1>2, PinAssumption DEF Approve, Encodable, IsNative
<1>7. PICK c \in calls : TRUE
  BY <1>5
<1> HIDE DEF calls, raised
<1>8. Signed(m, raised, 0, c).approvals = raised
  BY DEF Signed
<1>9. Checked(Signed(m, raised, 0, c)) = {Signed(m, raised, 0, c)}
  BY <1>6, <1>8, EncodableIs
<1>10. QED BY <1>1, <1>7, <1>9

LEMMA ClaimNotWasted ==
  ASSUME NEW q \in LpShape, q.op = "claim", LpBounds(q),
         NEW m, NEW w, NEW over, Cooperative(q, w, over), NEW now \in Nat, Approvable(q, now)
  PROVE  ExecuteClaim(q, m, w, now) # {}
<1> DEFINE calls ==
             CASE w.owner # "wallet" \/ ~NotExpired(q, now) -> {}
               [] q.protocol = "v3" -> {c \in BuildV3Claim(q) : DecodedV3Collect(c, q)}
               [] q.protocol = "v4" ->
                    IF InTime(q, now)
                    THEN {c \in BuildV4Claim(q, CallDeadline(q, now)) :
                            DecodedV4Take(c, q, 0, 0, 0, FALSE)}
                    ELSE {}
<1>1. ExecuteClaim(q, m, w, now) = {Signed(m, {}, 0, c) : c \in calls}
  BY Zenon DEF ExecuteClaim
<1>2. /\ q.protocol \in {"v3", "v4"} /\ Sorted(q.a, q.b) /\ q.id > 0
      /\ w.owner = "wallet" /\ InTime(q, now) /\ NotExpired(q, now)
  BY DEF LpBounds, ClaimBounds, Cooperative, Approvable, InTime, LpShape
<1>3. calls # {}
  <2>1. CASE q.protocol = "v3"
    <3> DEFINE c == [Call("collect", OfPosition, 0) EXCEPT !.id = q.id]
    <3>1. c \in BuildV3Claim(q)
      BY DEF BuildV3Claim
    <3>2. DecodedV3Collect(c, q)
      BY DEF DecodedV3Collect, ForWallet, Call
    <3>3. QED BY <1>2, <2>1, <3>1, <3>2
  <2>2. CASE q.protocol = "v4"
    <3> DEFINE c == [Call("modifyLiquidities.decrease", <<q.a, q.b>>, CallDeadline(q, now))
                       EXCEPT !.id = q.id]
    <3>1. V4Currencies(q.a, q.b, q.a = Zero)
      BY <1>2, NativeIsFirst DEF LpShape
    <3>2. 0 \in 0 .. U256 - 1 /\ 0 \in 0 .. U128 - 1
      BY WidthAssumption DEF Approvable, Representable, LpShape
    <3>3. V4DecreaseParams(q.id, 0, 0, 0)
      BY <1>2, <3>2 DEF V4DecreaseParams
    <3>4. c \in BuildV4Claim(q, CallDeadline(q, now))
      BY <3>1, <3>3 DEF BuildV4Claim
    <3>5. DecodedV4Take(c, q, 0, 0, 0, FALSE)
      BY DEF DecodedV4Take, AtLeast, ForWallet, Call
    <3>6. QED BY <1>2, <2>2, <3>4, <3>5
  <2>3. QED BY <1>2, <2>1, <2>2
<1> HIDE DEF calls
<1>4. QED BY <1>1, <1>3

(* _validate_dex_lp_* and _execute_evm_lp_*: no approval is wasted on the  *)
(* daemon's own checks, whatever is pinned: what the validators let        *)
(* through is built, decoded again and signed, unless its numbers or       *)
(* tokens cannot be encoded, its deadline is close or the chain refuses.   *)
THEOREM NoApprovalIsWasted ==
  ASSUME NEW r \in LpShape, NEW w, NEW over \in PinTables,
         NEW now \in Nat, now + Lifetime < U48
  PROVE  NoApprovalWasted(r, w, over, now)
<1> SUFFICES ASSUME NEW q \in Queued(r, over),
                    Representable(r), Cooperative(q, w, over), InTime(q, now),
                    \A t \in {r.a, r.b} : ~IsNative(t) \/ (t = Zero /\ r.protocol # "v2")
             PROVE  Execute(q, w, over, now) # {}
  BY DEF NoApprovalWasted
<1>1. /\ q \in LpShape /\ LpBounds(q)
      /\ q.op = r.op /\ q.protocol = r.protocol /\ q.a = r.a /\ q.b = r.b
      /\ q.amountA = r.amountA /\ q.amountB = r.amountB
      /\ q.minA = r.minA /\ q.minB = r.minB
      /\ q.liquidity = r.liquidity /\ q.lower = r.lower /\ q.upper = r.upper
      /\ q.deadline = r.deadline
      /\ q.manager \in Primary(LpRole(q.protocol), over)
      /\ q.permit2 \in Permit2s(r, over)
  BY QueuedIs
<1>2. Approvable(q, now)
  BY <1>1 DEF Approvable, Representable
<1>3. q.manager \in Managers(q, over)
  BY <1>1 DEF Managers, Resolve
<1>4. q.permit2 \in Permit2s(q, over)
  BY <1>1 DEF Permit2s, Resolve
<1>5. ExecuteWith(q, q.manager, q.permit2, w, over, now) # {}
  <2>1. CASE q.op = "add" /\ q.protocol = "v4"
    BY <1>1, <1>2, <2>1, AddV4NotWasted DEF ExecuteWith
  <2>2. CASE q.op = "add" /\ q.protocol # "v4"
    <3>1. q.protocol \in {"v2", "v3"}
      BY <1>1, <2>2 DEF LpShape
    <3>2. QED BY <1>1, <1>2, <2>2, <3>1, AddNotWasted DEF ExecuteWith
  <2>3. CASE q.op = "remove"
    BY <1>1, <1>2, <2>3, RemoveNotWasted DEF ExecuteWith
  <2>4. CASE q.op = "claim"
    BY <1>1, <1>2, <2>4, ClaimNotWasted DEF ExecuteWith
  <2>5. QED BY <1>1, <2>1, <2>2, <2>3, <2>4 DEF LpShape
<1>6. QED BY <1>3, <1>4, <1>5 DEF Execute

(* For every configuration and every chain: an approval is not wasted on   *)
(* the daemon's own checks.                                                *)
THEOREM LiquidityNotWastedAlways == ASSUME WalkAssumption PROVE DexSpec => []LiquidityNotWasted
<1>1. WalkAssumption /\ DexTypes => LiquidityNotWasted
  <2> SUFFICES ASSUME WalkAssumption, DexTypes, kind = "lp"
               PROVE  NoApprovalWasted(request, context.world, context.over, context.now)
    BY DEF LiquidityNotWasted
  <2>1. request \in LpShape /\ context \in LpContexts
    BY DEF DexTypes
  <2>2. context.over \in PinTables /\ context.now = 1
    BY <2>1 DEF LpContexts
  <2>3. QED BY <2>1, <2>2, NoApprovalIsWasted DEF WalkAssumption
<1>2. QED BY <1>1, DexTypesAlways, PTL
=============================================================================

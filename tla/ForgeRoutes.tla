---------------------------- MODULE ForgeRoutes ----------------------------
(***************************************************************************)
(* How a route of a Forge swap is chosen (forge.py, _forge_route): of the  *)
(* quotes in a router's answer, the best that gives exactly the amount.    *)
(***************************************************************************)
EXTENDS Naturals, FiniteSets

CONSTANTS
  Amounts,
  Quotes,        \* what a router may answer, two at a time
  SizeAttempts   \* forge.SIZE_ATTEMPTS

\* candidates: executable quotes of one wallet venue, from the asset given to
\* the asset taken, that give no more than the amount.
Candidates(answer, amount) == {q \in answer : q.usable /\ q.give <= amount}

\* size: the answer gives exactly the amount.
Sizes(q, amount) == q.sizedGive = amount

\* pick_sized: of the best candidates, the first that sizes.
PickSized(answer, amount) ==
  LET found == Candidates(answer, amount)
      Better(c) == {d \in found : d.out > c.out}
      tried == {c \in found : Cardinality(Better(c)) < SizeAttempts}
  IN  {c.sizedOut : c \in {d \in tried :
         /\ Sizes(d, amount)
         /\ \A e \in Better(d) : ~Sizes(e, amount)}}

\* _forge_route: what the offer would ask for.  The answers are the router's.
Routes ==
  [amount \in Amounts |->
     UNION {PickSized({q, r}, amount) : q, r \in Quotes}]
=============================================================================

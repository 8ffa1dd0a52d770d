----------------------------- MODULE PolicyCheck -----------------------------
(***************************************************************************)
(* A walk over the inputs of Policy.  A behaviour fixes a policy (limits)  *)
(* and lets the amounts of two legs (wanted) and the spend of the last 24  *)
(* hours (used) grow, which is what a requester who splits, repeats or     *)
(* raises a spend can do to them.                                          *)
(***************************************************************************)
EXTENDS Policy, TLC

CONSTANTS PolicyKeys, PolicyDestinations,
          LeastLimit,  \* least limit a policy of the walk may set
          MaxAmount    \* bound on every amount, limit and spend of the walk

BoundsAssumption == LeastLimit \in Nat /\ MaxAmount \in Nat \ {0}

VARIABLES limits, wanted, used

SmallLimits == (LeastLimit .. MaxAmount) \cup {Unset}

SmallPolicies ==
  [perSpendCap          : [PolicyKeys -> SmallLimits],
   dailyVelocityCap     : [PolicyKeys -> SmallLimits],
   destinationAllowlist : [PolicyKeys -> SUBSET PolicyDestinations \cup {Unset}],
   autoApproveBelow     : [PolicyKeys -> SmallLimits]]

PolicyInit ==
  /\ limits \in SmallPolicies
  /\ wanted \in [1 .. 2 -> [key : PolicyKeys, amount : {1}]]
  /\ used = [k \in PolicyKeys |-> 0]

RaiseAmount(i) ==
  /\ wanted[i].amount < MaxAmount
  /\ wanted' = [wanted EXCEPT ![i].amount = @ + 1]
  /\ UNCHANGED <<limits, used>>

SpendMore(key) ==
  /\ used[key] < MaxAmount
  /\ used' = [used EXCEPT ![key] = @ + 1]
  /\ UNCHANGED <<limits, wanted>>

PolicyNext == \/ \E i \in 1 .. 2 : RaiseAmount(i)
              \/ \E key \in PolicyKeys : SpendMore(key)

policyVars == <<limits, wanted, used>>

PolicySpec == PolicyInit /\ [][PolicyNext]_policyVars

(* The two keys of an instance are interchangeable. *)
KeySymmetry == Permutations(PolicyKeys)

IntentVerdict == DecideFundIntent(limits, MergeLegs(wanted), used)

(* Splitting an amount into two legs of one key never gets past a cap: the *)
(* verdict on the merged legs, which the routes use, is at most the one on *)
(* the legs as the requester wrote them.                                   *)
SplittingNeverHelps ==
  Permits(IntentVerdict) <= Permits(DecideFundIntent(limits, wanted, used))
=============================================================================

------------------------------- MODULE Policy -------------------------------
(***************************************************************************)
(* The spend policy of the daemon: policy.py `evaluate`, and the operators *)
(* of daemon.py that lift it from one transfer to an intent of several     *)
(* legs.  Everything here is an operator without state; SpendDaemon uses   *)
(* it for every verdict it gives.                                          *)
(*                                                                         *)
(* A key is the pair (chain, asset) policy.json is keyed by.  A limit that *)
(* policy.json does not name is Unset, the None of dict.get.  A leg is a   *)
(* record [key, amount].                                                   *)
(***************************************************************************)
EXTENDS Integers, FiniteSetsExt, Functions

CONSTANTS
  Unset,          \* the limit a key has when policy.json is silent about it
  NoDestination   \* the destination "" of an intent that names none

ASSUME UnsetAssumption == Unset \notin Nat

Limits == Nat \cup {Unset}

(* The dataclass Policy.  An allowlist is a set of destinations. *)
Policies(Keys, Destinations) ==
  [perSpendCap          : [Keys -> Limits],
   dailyVelocityCap     : [Keys -> Limits],
   destinationAllowlist : [Keys -> SUBSET Destinations \cup {Unset}],
   autoApproveBelow     : [Keys -> Limits]]

Exceeds(amount, limit) == limit # Unset /\ amount > limit

AutoApproves(policy, key, amount) ==
  /\ policy.autoApproveBelow[key] # Unset
  /\ amount <= policy.autoApproveBelow[key]

OffAllowlist(policy, key, destination) ==
  /\ policy.destinationAllowlist[key] # Unset
  /\ destination \notin policy.destinationAllowlist[key]

Denies(policy, key, amount, destination, spent) ==
  \/ Exceeds(amount, policy.perSpendCap[key])
  \/ Exceeds(spent + amount, policy.dailyVelocityCap[key])
  \/ OffAllowlist(policy, key, destination) /\ ~AutoApproves(policy, key, amount)

(* evaluate.  approval_threshold is left out: an amount above it is queued *)
(* and so is every amount the function has not approved before that test.  *)
Evaluate(policy, key, amount, destination, spent) ==
  IF Denies(policy, key, amount, destination, spent) THEN "denied"
  ELSE IF AutoApproves(policy, key, amount) THEN "approved"
  ELSE "queued"

(* Mutant: the last leg of a key replaces the ones before it. *)
MergeLastLegWins(legs) ==
  LET KeysOf == {legs[i].key : i \in DOMAIN legs}
      Last(key) == CHOOSE i \in DOMAIN legs :
                     /\ legs[i].key = key
                     /\ \A j \in DOMAIN legs : legs[j].key = key => j <= i
  IN  [key \in KeysOf |-> [key |-> key, amount |-> legs[Last(key)].amount]]

(* _merge_legs: one leg per key, with the total the wallet gives of it. *)
MergeLegs(legs) ==
  LET KeysOf == {legs[i].key : i \in DOMAIN legs}
      Total(key) == SumFunctionOnSet([i \in DOMAIN legs |-> legs[i].amount],
                                     {i \in DOMAIN legs : legs[i].key = key})
  IN  [key \in KeysOf |-> [key |-> key, amount |-> Total(key)]]

(* _decide_fund_intent: one denied leg denies the intent, one queued leg   *)
(* queues it.  No leg at all is an approval, which is why the routes whose *)
(* intents spend nothing force the queue.                                  *)
DecideFundIntent(policy, legs, spent) ==
  LET verdict(i) == Evaluate(policy, legs[i].key, legs[i].amount,
                             NoDestination, spent[legs[i].key])
  IN  IF \E i \in DOMAIN legs : verdict(i) = "denied" THEN "denied"
      ELSE IF \E i \in DOMAIN legs : verdict(i) = "queued" THEN "queued"
      ELSE "approved"

(* How much a verdict permits. *)
Permits(verdict) == IF verdict = "approved" THEN 2
                    ELSE IF verdict = "queued" THEN 1 ELSE 0
=============================================================================

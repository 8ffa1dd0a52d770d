------------------------ MODULE SpendVelocityProofs ------------------------
(***************************************************************************)
(* The caps of SpendDaemon: what was counted stays in velocity.jsonl while *)
(* it is within the window, and what policy approves fits the daily cap    *)
(* beside all that was sent in the 24 hours before it.                     *)
(*                                                                         *)
(* VelocityAgrees says what the entries of the file and of memory stand    *)
(* for: a leg of a counted attempt has an entry, or is still in hand.      *)
(* CapAgrees carries the bound from the verdict to the execution: the      *)
(* verdict saw at least what had been sent, nothing is counted between the *)
(* two, and a window that moves on holds no more.  Every entry names its   *)
(* attempt and the number of its legs that were left, so that two legs of  *)
(* equal key and amount are two entries and not one.                       *)
(***************************************************************************)
EXTENDS SpendDaemonProofs, PolicyCheck, SumTheorems

-----------------------------------------------------------------------------
(* The verdicts of Policy, for every policy and every amount.              *)

(* A limit of policy.json stays exceeded as the amount grows. *)
LEMMA ExceedsGrows ==
  ASSUME NEW limit \in Limits, NEW a \in Nat, NEW b \in Nat, a <= b
  PROVE  Exceeds(a, limit) => Exceeds(b, limit)
BY UnsetAssumption, SMT DEF Exceeds, Limits

(* The automatic level covers every smaller amount too. *)
LEMMA AutoApprovesShrinks ==
  ASSUME NEW KeySet, NEW DestinationSet, NEW policy \in Policies(KeySet, DestinationSet),
         NEW key \in KeySet, NEW a \in Nat, NEW b \in Nat, a <= b
  PROVE  AutoApproves(policy, key, b) => AutoApproves(policy, key, a)
<1>1. policy.autoApproveBelow[key] \in Limits
  BY DEF Policies
<1>2. QED BY <1>1, UnsetAssumption, SMT DEF AutoApproves, Limits

LEMMA DeniesGrows ==
  ASSUME NEW KeySet, NEW DestinationSet, NEW policy \in Policies(KeySet, DestinationSet),
         NEW key \in KeySet, NEW destination,
         NEW a \in Nat, NEW b \in Nat, a <= b,
         NEW s \in Nat, NEW t \in Nat, s <= t
  PROVE  Denies(policy, key, a, destination, s)
           => Denies(policy, key, b, destination, t)
<1>1. policy.perSpendCap[key] \in Limits /\ policy.dailyVelocityCap[key] \in Limits
  BY DEF Policies
<1>2. s + a \in Nat /\ t + b \in Nat /\ s + a <= t + b
  BY SMT
<1>3. Exceeds(a, policy.perSpendCap[key]) => Exceeds(b, policy.perSpendCap[key])
  BY <1>1, ExceedsGrows
<1>4. Exceeds(s + a, policy.dailyVelocityCap[key])
        => Exceeds(t + b, policy.dailyVelocityCap[key])
  BY <1>1, <1>2, ExceedsGrows
<1>5. ~AutoApproves(policy, key, a) => ~AutoApproves(policy, key, b)
  BY AutoApprovesShrinks
<1>6. QED BY <1>3, <1>4, <1>5 DEF Denies

(* evaluate: asking for more, or after more was spent, never gets a more   *)
(* permissive verdict.                                                     *)
THEOREM EvaluateAntitone ==
  ASSUME NEW KeySet, NEW DestinationSet, NEW policy \in Policies(KeySet, DestinationSet),
         NEW key \in KeySet, NEW destination,
         NEW a \in Nat, NEW b \in Nat, a <= b,
         NEW s \in Nat, NEW t \in Nat, s <= t
  PROVE  Permits(Evaluate(policy, key, b, destination, t))
           <= Permits(Evaluate(policy, key, a, destination, s))
<1>1. Denies(policy, key, a, destination, s) => Denies(policy, key, b, destination, t)
  BY DeniesGrows
<1>2. AutoApproves(policy, key, b) => AutoApproves(policy, key, a)
  BY AutoApprovesShrinks
<1>3. Permits("denied") = 0 /\ Permits("queued") = 1 /\ Permits("approved") = 2
  BY DEF Permits
<1>4. QED BY <1>1, <1>2, <1>3 DEF Evaluate

(* evaluate approves only amounts that an automatic level covers and both  *)
(* caps have room for.                                                     *)
THEOREM ApprovedWithinCaps ==
  ASSUME NEW KeySet, NEW DestinationSet, NEW policy \in Policies(KeySet, DestinationSet),
         NEW key \in KeySet, NEW destination, NEW amount \in Nat, NEW spent \in Nat,
         Evaluate(policy, key, amount, destination, spent) = "approved"
  PROVE  /\ policy.autoApproveBelow[key] \in Nat
         /\ amount <= policy.autoApproveBelow[key]
         /\ policy.perSpendCap[key] \in Nat => amount <= policy.perSpendCap[key]
         /\ policy.dailyVelocityCap[key] \in Nat =>
              spent + amount <= policy.dailyVelocityCap[key]
<1>1. /\ policy.perSpendCap[key] \in Limits
      /\ policy.dailyVelocityCap[key] \in Limits
      /\ policy.autoApproveBelow[key] \in Limits
  BY DEF Policies
<1>2. /\ ~Denies(policy, key, amount, destination, spent)
      /\ AutoApproves(policy, key, amount)
  BY DEF Evaluate
<1>3. /\ ~Exceeds(amount, policy.perSpendCap[key])
      /\ ~Exceeds(spent + amount, policy.dailyVelocityCap[key])
  BY <1>2 DEF Denies
<1>4. QED BY <1>1, <1>2, <1>3, UnsetAssumption, SMT DEF Exceeds, AutoApproves, Limits

-----------------------------------------------------------------------------
(* Merging legs                                                            *)

LegsOver(KeySet) == [key : KeySet, amount : Nat]

(* _merge_legs keeps the key of a leg, with at least its amount.           *)
LEMMA MergedHasAtLeast ==
  ASSUME NEW KeySet, NEW legs, IsFiniteSet(DOMAIN legs),
         \A i \in DOMAIN legs : legs[i] \in LegsOver(KeySet),
         NEW i \in DOMAIN legs
  PROVE  /\ legs[i].key \in DOMAIN MergeLegs(legs)
         /\ MergeLegs(legs)[legs[i].key].key = legs[i].key
         /\ MergeLegs(legs)[legs[i].key].amount \in Nat
         /\ legs[i].amount <= MergeLegs(legs)[legs[i].key].amount
<1> DEFINE f == [j \in DOMAIN legs |-> legs[j].amount]
           S == {j \in DOMAIN legs : legs[j].key = legs[i].key}
<1>1. IsFiniteSet(S)
  BY FS_Subset
<1>2. Naturals(f, S) /\ i \in S /\ f[i] = legs[i].amount
  BY DEF Naturals, LegsOver
<1>3. MergeLegs(legs)[legs[i].key] = [key |-> legs[i].key, amount |-> SumFunctionOnSet(f, S)]
  BY Zenon DEF MergeLegs
<1>4. legs[i].key \in DOMAIN MergeLegs(legs)
  BY DEF MergeLegs
<1>5. SumFunctionOnSet(f, S) \in Nat /\ f[i] <= SumFunctionOnSet(f, S)
  <2> HIDE DEF f, S
  <2>1. QED BY <1>1, <1>2, TermAtMostSum
<1> HIDE DEF f, S
<1>6. QED BY <1>2, <1>3, <1>4, <1>5

LEMMA VerdictOnIntent ==
  ASSUME NEW policy, NEW legs, NEW spent
  PROVE  DecideFundIntent(policy, legs, spent) \in {"denied", "queued", "approved"}
BY DEF DecideFundIntent

(* _merge_legs, _decide_fund_intent: for every policy, every history and   *)
(* any number of legs, an intent whose legs are merged is never permitted  *)
(* more than the same intent leg by leg, so splitting an amount over legs  *)
(* gains nothing.                                                          *)
THEOREM MergingNeverPermitsMore ==
  ASSUME NEW KeySet, NEW DestinationSet, NEW policy \in Policies(KeySet, DestinationSet),
         NEW legs, IsFiniteSet(DOMAIN legs),
         \A i \in DOMAIN legs : legs[i] \in LegsOver(KeySet),
         NEW spent \in [KeySet -> Nat]
  PROVE  Permits(DecideFundIntent(policy, MergeLegs(legs), spent))
           <= Permits(DecideFundIntent(policy, legs, spent))
<1> DEFINE of(l) == Evaluate(policy, l.key, l.amount, NoDestination, spent[l.key])
           merged == MergeLegs(legs)
<1>1. Permits("denied") = 0 /\ Permits("queued") = 1 /\ Permits("approved") = 2
  BY DEF Permits
<1>2. ASSUME NEW i \in DOMAIN legs
      PROVE  /\ legs[i].key \in DOMAIN merged
             /\ Permits(of(merged[legs[i].key])) <= Permits(of(legs[i]))
             /\ of(legs[i]) \in {"denied", "queued", "approved"}
             /\ of(merged[legs[i].key]) \in {"denied", "queued", "approved"}
  <2>1. /\ legs[i].key \in DOMAIN merged /\ merged[legs[i].key].key = legs[i].key
        /\ merged[legs[i].key].amount \in Nat
        /\ legs[i].amount <= merged[legs[i].key].amount
    BY MergedHasAtLeast
  <2>2. legs[i].key \in KeySet /\ legs[i].amount \in Nat
    BY DEF LegsOver
  <2>3. spent[legs[i].key] \in Nat /\ spent[legs[i].key] <= spent[legs[i].key]
    BY <2>2
  <2> HIDE DEF merged
  <2>4. Permits(Evaluate(policy, legs[i].key, merged[legs[i].key].amount, NoDestination,
                         spent[legs[i].key]))
          <= Permits(Evaluate(policy, legs[i].key, legs[i].amount, NoDestination,
                              spent[legs[i].key]))
    BY <2>1, <2>2, <2>3, EvaluateAntitone
  <2>5. \A l : of(l) \in {"denied", "queued", "approved"}
    BY DEF Evaluate
  <2>6. QED BY <2>1, <2>4, <2>5
<1>3. DecideFundIntent(policy, legs, spent) =
        IF \E i \in DOMAIN legs : of(legs[i]) = "denied" THEN "denied"
        ELSE IF \E i \in DOMAIN legs : of(legs[i]) = "queued" THEN "queued" ELSE "approved"
  BY DEF DecideFundIntent
<1>4. DecideFundIntent(policy, merged, spent) =
        IF \E k \in DOMAIN merged : of(merged[k]) = "denied" THEN "denied"
        ELSE IF \E k \in DOMAIN merged : of(merged[k]) = "queued" THEN "queued" ELSE "approved"
  BY DEF DecideFundIntent
<1> HIDE DEF of, merged
<1>5. CASE \E i \in DOMAIN legs : of(legs[i]) = "denied"
  <2>1. PICK i \in DOMAIN legs : of(legs[i]) = "denied"
    BY <1>5
  <2>2. of(merged[legs[i].key]) = "denied"
    BY <1>1, <1>2, <2>1
  <2>3. DecideFundIntent(policy, merged, spent) = "denied"
    BY <1>2, <1>4, <2>2
  <2>4. QED BY <1>1, <2>3, VerdictOnIntent DEF merged
<1>6. CASE /\ ~\E i \in DOMAIN legs : of(legs[i]) = "denied"
           /\ \E i \in DOMAIN legs : of(legs[i]) = "queued"
  <2>1. PICK i \in DOMAIN legs : of(legs[i]) = "queued"
    BY <1>6
  <2>2. of(merged[legs[i].key]) \in {"denied", "queued"}
    BY <1>1, <1>2, <2>1
  <2>3. DecideFundIntent(policy, merged, spent) \in {"denied", "queued"}
    BY <1>2, <1>4, <2>2
  <2>4. DecideFundIntent(policy, legs, spent) = "queued"
    BY <1>3, <1>6
  <2>5. QED BY <1>1, <2>3, <2>4 DEF merged
<1>7. CASE ~\E i \in DOMAIN legs : of(legs[i]) \in {"denied", "queued"}
  <2>1. DecideFundIntent(policy, legs, spent) = "approved"
    BY <1>3, <1>7
  <2>2. DecideFundIntent(policy, merged, spent) \in {"denied", "queued", "approved"}
    BY VerdictOnIntent
  <2>3. QED BY <1>1, <2>1, <2>2 DEF merged
<1>8. QED BY <1>5, <1>6, <1>7

(* What the walk of PolicyCheck keeps: a policy, two legs and a spend.     *)
WalkTypes ==
  /\ limits \in Policies(PolicyKeys, PolicyDestinations)
  /\ wanted \in [1 .. 2 -> LegsOver(PolicyKeys)]
  /\ used \in [PolicyKeys -> Nat]

LEMMA WalkTypesAlways == ASSUME BoundsAssumption PROVE PolicySpec => []WalkTypes
<1>1. PolicyInit => WalkTypes
  <2> SUFFICES ASSUME PolicyInit PROVE WalkTypes
    OBVIOUS
  <2>1. SmallLimits \subseteq Limits
    BY DEF SmallLimits, Limits, BoundsAssumption
  <2>2. limits \in Policies(PolicyKeys, PolicyDestinations)
    BY <2>1, Zenon DEF PolicyInit, SmallPolicies, Policies
  <2>3. QED BY <2>2 DEF PolicyInit, WalkTypes, LegsOver
<1>2. WalkTypes /\ [PolicyNext]_policyVars => WalkTypes'
  <2> SUFFICES ASSUME WalkTypes, [PolicyNext]_policyVars PROVE WalkTypes'
    OBVIOUS
  <2>1. CASE UNCHANGED policyVars
    BY <2>1 DEF WalkTypes, policyVars
  <2>2. ASSUME NEW i \in 1 .. 2, RaiseAmount(i) PROVE WalkTypes'
    BY <2>2 DEF RaiseAmount, WalkTypes, LegsOver
  <2>3. ASSUME NEW key \in PolicyKeys, SpendMore(key) PROVE WalkTypes'
    BY <2>3 DEF SpendMore, WalkTypes
  <2>4. QED BY <2>1, <2>2, <2>3 DEF PolicyNext
<1>3. QED BY <1>1, <1>2, PTL DEF PolicySpec

(* The property of the walk, for every set of keys, every bound and every  *)
(* policy: splitting an amount into two legs of one key never gets past a  *)
(* cap.                                                                    *)
THEOREM SplittingNeverHelpsAlways ==
  ASSUME BoundsAssumption PROVE PolicySpec => []SplittingNeverHelps
<1>1. WalkTypes => SplittingNeverHelps
  <2> SUFFICES ASSUME WalkTypes PROVE SplittingNeverHelps
    OBVIOUS
  <2>1. IsFiniteSet(DOMAIN wanted)
    <3>1. IsFiniteSet({1} \cup {2})
      BY FS_Singleton, FS_Union
    <3>2. DOMAIN wanted = {1} \cup {2}
      BY DEF WalkTypes
    <3>3. QED BY <3>1, <3>2
  <2>2. \A i \in DOMAIN wanted : wanted[i] \in LegsOver(PolicyKeys)
    BY DEF WalkTypes
  <2>3. QED BY <2>1, <2>2, MergingNeverPermitsMore
            DEF WalkTypes, SplittingNeverHelps, IntentVerdict
<1>2. QED BY <1>1, WalkTypesAlways, PTL

-----------------------------------------------------------------------------
(* What velocity and velocity.jsonl hold.                                  *)

BeforeCount == {"savePopped", "ledgerExecuting", "execute", "await"}
BetweenWrites == {"countOkFile", "countUnknownFile"}
Counting == {"countOk", "countUnknown"} \cup BetweenWrites

LegsOf(a) == Request[a.params].legs

(* legsLeft tells the legs of an attempt apart, should they ask for the same. *)
Recorded(file, k, a, l) ==
  \E e \in file : /\ e.attempt = k
                  /\ e.legsLeft = Len(LegsOf(a)) - l + 1
                  /\ e.key = LegsOf(a)[l].key
                  /\ e.amount = LegsOf(a)[l].amount
                  /\ e.ts >= a.sentAt

AllRecordedBut(n, file, k, a) ==
  \A l \in DOMAIN LegsOf(a) : l <= Len(LegsOf(a)) - n => Recorded(file, k, a, l)

(* Every leg of every counted attempt that is less than a window old.      *)
CountedIn(file, tries, now) ==
  \A k \in DOMAIN tries : tries[k].track = "counted" /\ tries[k].sentAt >= now - Window =>
    \A l \in DOMAIN LegsOf(tries[k]) : Recorded(file, k, tries[k], l)

SentInThePast == \A k \in DOMAIN attempts : attempts[k].sentAt <= clock

LegsInHand ==
  /\ pc \in BeforeCount => job.legs = Request[job.params].legs
  /\ pc \in Counting =>
       \A m \in DOMAIN job.legs :
         LET l == Len(Request[job.params].legs) - Len(job.legs) + m
         IN  /\ l \in DOMAIN Request[job.params].legs
             /\ job.legs[m] = Request[job.params].legs[l]

(* A leg of the execution being counted is recorded or still in hand.      *)
LegsRecorded ==
  pc \in Counting =>
    /\ AllRecordedBut(Len(job.legs), velocityFile, Current, attempts[Current])
    /\ AllRecordedBut(IF pc \in BetweenWrites THEN Len(job.legs) - 1 ELSE Len(job.legs),
                      velocity, Current, attempts[Current])

(* While the file is rewritten, memory has what goes back into it.         *)
CountedIsKept ==
  torn \/ /\ pc # "pruning" => CountedIn(velocityFile, attempts, clock)
          /\ pc # "down" => CountedIn(velocity, attempts, clock)

FilesAreFinite == IsFiniteSet(velocity) /\ IsFiniteSet(velocityFile)

VelocityAgrees ==
  /\ SentInThePast
  /\ LegsInHand
  /\ LegsRecorded
  /\ CountedIsKept
  /\ FilesAreFinite

LEMMA VelocityInit == Init => VelocityAgrees
BY FS_EmptySet
   DEF Init, VelocityAgrees, SentInThePast, LegsInHand, LegsRecorded, CountedIsKept, CountedIn,
       FilesAreFinite, BeforeCount, Counting, BetweenWrites

LEMMA AttemptOf ==
  ASSUME IInv, NEW k \in DOMAIN attempts
  PROVE  /\ attempts[k].sentAt \in Nat /\ attempts[k].params \in Params
         /\ LegsOf(attempts[k]) \in Seq(Legs)
<1>1. attempts[k] \in Attempts
  BY DEF IInv, TypeOK
<1>2. attempts[k].sentAt \in Nat /\ attempts[k].params \in Params
  BY <1>1 DEF Attempts
<1>3. QED BY <1>2, RequestLegsType DEF LegsOf

LEMMA RecordedStays ==
  ASSUME NEW file, NEW more, file \subseteq more, NEW k, NEW l, NEW a, NEW b,
         b.params = a.params, b.sentAt = a.sentAt, Recorded(file, k, a, l)
  PROVE  Recorded(more, k, b, l)
BY DEF Recorded, LegsOf

LEMMA AllButStays ==
  ASSUME NEW file, NEW more, file \subseteq more, NEW k, NEW n, NEW a, NEW b,
         b.params = a.params, b.sentAt = a.sentAt, AllRecordedBut(n, file, k, a)
  PROVE  AllRecordedBut(n, more, k, b)
BY RecordedStays DEF AllRecordedBut, LegsOf

(* No execution has come to be counted.                                    *)
CountedAsBefore ==
  \A k \in DOMAIN attempts' : attempts'[k].track = "counted" =>
    /\ k \in DOMAIN attempts
    /\ attempts[k].track = "counted"
    /\ attempts'[k].params = attempts[k].params
    /\ attempts'[k].sentAt = attempts[k].sentAt

(* The window only moves on, and a file that grows keeps its entries.      *)
LEMMA CountedStays ==
  ASSUME IInv, CountedAsBefore, clock' \in Nat, clock <= clock',
         NEW file, NEW more, file \subseteq more, CountedIn(file, attempts, clock)
  PROVE  CountedIn(more, attempts', clock')
<1> SUFFICES ASSUME NEW k \in DOMAIN attempts', attempts'[k].track = "counted",
                    attempts'[k].sentAt >= clock' - Window,
                    NEW l \in DOMAIN LegsOf(attempts'[k])
             PROVE  Recorded(more, k, attempts'[k], l)
  BY DEF CountedIn
<1>1. /\ k \in DOMAIN attempts /\ attempts[k].track = "counted"
      /\ attempts'[k].params = attempts[k].params
      /\ attempts'[k].sentAt = attempts[k].sentAt
  BY DEF CountedAsBefore
<1>2. attempts[k].sentAt \in Nat /\ clock \in Nat /\ Window \in Nat
  BY <1>1, AttemptOf, SpendAssumption DEF IInv, TypeOK
<1>3. attempts[k].sentAt >= clock - Window
  BY <1>1, <1>2
<1>4. l \in DOMAIN LegsOf(attempts[k])
  BY <1>1 DEF LegsOf
<1>5. Recorded(file, k, attempts[k], l)
  BY <1>1, <1>3, <1>4 DEF CountedIn
<1>6. QED BY <1>1, <1>5, RecordedStays

LEMMA KeptStays ==
  ASSUME IInv, CountedIsKept, CountedAsBefore, clock' \in Nat, clock <= clock',
         torn' \/ ~torn,
         torn' \/ pc' = "pruning" \/ (pc # "pruning" /\ velocityFile \subseteq velocityFile'),
         pc' = "down" \/ (pc # "down" /\ velocity \subseteq velocity')
  PROVE  CountedIsKept'
<1> SUFFICES ASSUME ~torn'
             PROVE  /\ pc' # "pruning" => CountedIn(velocityFile', attempts', clock')
                    /\ pc' # "down" => CountedIn(velocity', attempts', clock')
  BY DEF CountedIsKept
<1>1. pc' # "pruning" => CountedIn(velocityFile', attempts', clock')
  BY CountedStays DEF CountedIsKept
<1>2. pc' # "down" => CountedIn(velocity', attempts', clock')
  BY CountedStays DEF CountedIsKept
<1>3. QED BY <1>1, <1>2

LEMMA PastStays ==
  ASSUME IInv, SentInThePast, SameAttempts, clock' \in Nat, clock <= clock'
  PROVE  SentInThePast'
<1>1. \A k \in DOMAIN attempts : attempts[k].sentAt \in Nat /\ attempts[k].sentAt <= clock
  BY AttemptOf DEF SentInThePast
<1>2. clock \in Nat
  BY DEF IInv, TypeOK
<1>3. QED BY <1>1, <1>2 DEF SentInThePast, SameAttempts

(* A step that counts nothing and takes nothing up.                        *)
LEMMA QuietVelocity ==
  ASSUME IInv, VelocityAgrees, CurrentIsJobs, SameAttempts, CountedAsBefore,
         Len(attempts') = Len(attempts), clock' \in Nat, clock <= clock',
         torn' \/ ~torn, UNCHANGED <<velocity, velocityFile>>,
         pc' \in BeforeCount => pc \in BeforeCount /\ job' = job,
         pc' \in Counting => pc' = pc /\ job' = job,
         pc' = "pruning" <=> pc = "pruning",
         pc' = "down" <=> pc = "down"
  PROVE  VelocityAgrees'
<1>1. SentInThePast' /\ FilesAreFinite'
  BY PastStays DEF VelocityAgrees, FilesAreFinite
<1>2. LegsInHand'
  BY DEF VelocityAgrees, LegsInHand
<1>3. LegsRecorded'
  <2> SUFFICES ASSUME pc' \in Counting PROVE LegsRecorded'
    BY DEF LegsRecorded
  <2>1. /\ Current' = Current /\ pc' = pc /\ job' = job
        /\ attempts'[Current].params = attempts[Current].params
        /\ attempts'[Current].sentAt = attempts[Current].sentAt
    <3>1. Current \in DOMAIN attempts
      <4>1. attempts # <<>> /\ attempts \in Seq(Attempts)
        BY DEF CurrentIsJobs, Counting, BetweenWrites, Sending, IInv, TypeOK
      <4>2. QED BY <4>1 DEF Current
    <3>2. QED BY <3>1 DEF SameAttempts, Current
  <2>2. /\ AllRecordedBut(Len(job.legs), velocityFile', Current, attempts'[Current])
        /\ AllRecordedBut(IF pc \in BetweenWrites THEN Len(job.legs) - 1 ELSE Len(job.legs),
                          velocity', Current, attempts'[Current])
    BY <2>1, AllButStays DEF VelocityAgrees, LegsRecorded
  <2>3. QED BY <2>1, <2>2 DEF LegsRecorded
<1>4. CountedIsKept'
  BY KeptStays DEF VelocityAgrees
<1>5. QED BY <1>1, <1>2, <1>3, <1>4 DEF VelocityAgrees

LEMMA VelocityTake ==
  ASSUME IInv, VelocityAgrees, pc = "idle",
         UNCHANGED <<attempts, clock, velocity, velocityFile, torn>>,
         pc' \in SavePcs \cup LedgerPcs,
         job'.legs = Request[job'.params].legs
  PROVE  VelocityAgrees'
<1>1. SameAttempts /\ CountedAsBefore /\ clock' \in Nat /\ clock <= clock'
  BY DEF SameAttempts, CountedAsBefore, IInv, TypeOK
<1>2. /\ pc' \notin Counting /\ pc' # "down" /\ pc' # "pruning"
  BY DEF Counting, BetweenWrites, SavePcs, LedgerPcs
<1>3. SentInThePast' /\ FilesAreFinite'
  BY <1>1, PastStays DEF VelocityAgrees, FilesAreFinite
<1>4. CountedIsKept'
  BY <1>1, <1>2, KeptStays DEF VelocityAgrees
<1>5. QED BY <1>2, <1>3, <1>4 DEF VelocityAgrees, LegsInHand, LegsRecorded

(* A new attempt is not counted yet, and leaves the others as they are.    *)
LEMMA VelocityExecute ==
  ASSUME IInv, VelocityAgrees, ExecuteRefused \/ ExecuteAborted \/ ExecuteNothing \/ Send
  PROVE  VelocityAgrees'
<1> USE DEF memory, disk, bounds
<1>1. /\ UNCHANGED <<job, clock, velocity, velocityFile, torn>> /\ pc = "execute"
      /\ pc' \in {"ledgerFailed", "idle", "countOk", "await"}
      /\ \E track \in {"open", "failed", "lost"}, fate \in {"unsent", "pending"} :
           Attempt(fate, track)
  BY DEF ExecuteRefused, ExecuteAborted, ExecuteNothing, Send
<1>2. PICK track \in {"open", "failed", "lost"}, fate \in {"unsent", "pending"} :
        Attempt(fate, track)
  BY <1>1
<1>3. /\ attempts' \in Seq(Attempts) /\ attempts \in Seq(Attempts)
      /\ Len(attempts') = Len(attempts) + 1
      /\ \A i \in DOMAIN attempts : attempts'[i] = attempts[i]
      /\ attempts'[Len(attempts')].params = job.params
      /\ attempts'[Len(attempts')].sentAt = clock
      /\ attempts'[Len(attempts')].track # "counted"
  <2>1. /\ attempts' \in Seq(Attempts) /\ attempts \in Seq(Attempts)
        /\ Len(attempts') = Len(attempts) + 1
        /\ \A i \in DOMAIN attempts : attempts'[i] = attempts[i]
        /\ attempts'[Len(attempts) + 1] =
             [params |-> job.params, qid |-> job.qid,
              sentAt |-> clock, fate |-> fate, track |-> track]
    BY <1>2, AttemptType DEF IInv, TypeOK
  <2>2. QED BY <2>1
<1>4. \A k \in DOMAIN attempts' : k \in DOMAIN attempts \/ k = Len(attempts')
  BY <1>3
<1>5. clock \in Nat
  BY DEF IInv, TypeOK
<1>6. SentInThePast'
  BY <1>1, <1>3, <1>4, <1>5 DEF VelocityAgrees, SentInThePast
<1>7. job.legs = Request[job.params].legs /\ job.legs \in Seq(Legs)
  BY <1>1 DEF VelocityAgrees, LegsInHand, BeforeCount, IInv, TypeOK, Jobs
<1>8. LegsInHand'
  BY <1>1, <1>7 DEF LegsInHand, Counting, BetweenWrites
<1>9. LegsRecorded'
  <2>1. LegsOf(attempts'[Current']) = job.legs
    BY <1>3, <1>7 DEF LegsOf, Current
  <2>2. \A file : AllRecordedBut(Len(job.legs), file, Current', attempts'[Current'])
    BY <1>7, <2>1 DEF AllRecordedBut
  <2>3. QED BY <1>1, <2>2 DEF LegsRecorded, Counting, BetweenWrites
<1>10. CountedIsKept'
  <2>1. CountedAsBefore
    BY <1>3, <1>4 DEF CountedAsBefore
  <2>2. QED BY <1>1, <1>5, <2>1, KeptStays DEF VelocityAgrees
<1>11. QED BY <1>1, <1>6, <1>8, <1>9, <1>10 DEF VelocityAgrees, FilesAreFinite

(* The counting begins with every leg in hand.                             *)
LEMMA VelocityConfirm ==
  ASSUME IInv, VelocityAgrees, CurrentIsJobs, Confirmed \/ BroadcastUnknown
  PROVE  VelocityAgrees'
<1> USE DEF memory, disk, bounds, history
<1>1. /\ UNCHANGED <<job, attempts, clock, velocity, velocityFile, torn>>
      /\ pc = "await" /\ pc' \in {"countOk", "countUnknown"}
  BY DEF Confirmed, BroadcastUnknown
<1>2. SameAttempts /\ CountedAsBefore /\ clock \in Nat
  BY <1>1 DEF SameAttempts, CountedAsBefore, IInv, TypeOK
<1>3. job.legs = Request[job.params].legs /\ job.legs \in Seq(Legs)
  BY <1>1 DEF VelocityAgrees, LegsInHand, BeforeCount, IInv, TypeOK, Jobs
<1>4. LegsInHand'
  BY <1>1, <1>3 DEF LegsInHand, BeforeCount
<1>5. LegsRecorded'
  <2>1. LegsOf(attempts[Current]) = job.legs
    BY <1>1, <1>3 DEF LegsOf, CurrentIsJobs, Sending
  <2>2. \A file : AllRecordedBut(Len(job.legs), file, Current, attempts[Current])
    BY <1>3, <2>1 DEF AllRecordedBut
  <2>3. QED BY <1>1, <2>2 DEF LegsRecorded, BetweenWrites, Current
<1>6. CountedIsKept'
  BY <1>1, <1>2, KeptStays DEF VelocityAgrees
<1>7. QED BY <1>1, <1>4, <1>5, <1>6 DEF VelocityAgrees, SentInThePast, FilesAreFinite

(* The leg counted next is the first one that is not recorded yet.         *)
LEMMA EntryRecords ==
  ASSUME IInv, VelocityAgrees, CurrentIsJobs, pc \in Counting, job.legs # <<>>, NEW file,
         AllRecordedBut(Len(job.legs), file, Current, attempts[Current])
  PROVE  AllRecordedBut(Len(job.legs) - 1, file \cup {Entry}, Current, attempts[Current])
<1> DEFINE all == LegsOf(attempts[Current])
           next == Len(all) - Len(job.legs) + 1
<1>1. /\ Current \in DOMAIN attempts
      /\ all = Request[job.params].legs
  <2>1. attempts # <<>> /\ attempts \in Seq(Attempts) /\ attempts[Current].params = job.params
    BY DEF CurrentIsJobs, Counting, BetweenWrites, Sending, IInv, TypeOK
  <2>2. QED BY <2>1 DEF Current, LegsOf
<1>2. all \in Seq(Legs) /\ attempts[Current].sentAt <= clock
  BY <1>1, AttemptOf DEF VelocityAgrees, SentInThePast
<1>3. job.legs \in Seq(Legs) /\ 1 \in DOMAIN job.legs /\ Head(job.legs) = job.legs[1]
  BY DEF IInv, TypeOK, Jobs
<1>4. next \in DOMAIN all /\ job.legs[1] = all[next]
  BY <1>1, <1>3 DEF VelocityAgrees, LegsInHand
<1>5. /\ Entry.attempt = Current /\ Entry.ts = clock /\ Entry.legsLeft = Len(job.legs)
      /\ Entry.key = all[next].key /\ Entry.amount = all[next].amount
  BY <1>3, <1>4 DEF Entry
<1>6. attempts[Current].sentAt \in Nat /\ clock \in Nat
  BY <1>1, AttemptOf DEF IInv, TypeOK
<1>7. Recorded(file \cup {Entry}, Current, attempts[Current], next)
  <2>1. Entry.legsLeft = Len(all) - next + 1
    BY <1>2, <1>3, <1>5
  <2>2. Entry.ts >= attempts[Current].sentAt
    BY <1>2, <1>5, <1>6
  <2> HIDE DEF next
  <2>3. QED BY <1>5, <2>1, <2>2 DEF Recorded
<1> SUFFICES ASSUME NEW l \in DOMAIN all, l <= Len(all) - (Len(job.legs) - 1)
             PROVE  Recorded(file \cup {Entry}, Current, attempts[Current], l)
  BY DEF AllRecordedBut
<1>8. l = next \/ l <= Len(all) - Len(job.legs)
  <2>1. l \in Nat /\ Len(all) \in Nat /\ Len(job.legs) \in Nat
    BY <1>2, <1>3
  <2> DEFINE n == Len(all)
             j == Len(job.legs)
  <2>2. l \in Nat /\ n \in Nat /\ j \in Nat /\ l <= n - (j - 1)
    BY <2>1
  <2> HIDE DEF n, j
  <2>3. l = n - j + 1 \/ l <= n - j
    BY <2>2
  <2>4. QED BY <2>3 DEF n, j
<1>9. ASSUME l <= Len(all) - Len(job.legs)
      PROVE  Recorded(file \cup {Entry}, Current, attempts[Current], l)
  BY <1>9, RecordedStays DEF AllRecordedBut
<1> HIDE DEF next
<1>10. QED BY <1>7, <1>8, <1>9

LEMMA VelocityCountInMemory ==
  ASSUME IInv, VelocityAgrees, CurrentIsJobs, CountInMemory
  PROVE  VelocityAgrees'
<1> USE DEF memory, disk, bounds, history
<1>1. /\ UNCHANGED <<job, attempts, clock, velocityFile, torn>>
      /\ velocity' = velocity \cup {Entry} /\ job.legs # <<>>
      /\ pc \in {"countOk", "countUnknown"} /\ pc' \in BetweenWrites
  BY DEF CountInMemory, Countings, BetweenWrites
<1>2. SameAttempts /\ CountedAsBefore /\ clock \in Nat
  BY <1>1 DEF SameAttempts, CountedAsBefore, IInv, TypeOK
<1>3. /\ pc \in Counting /\ pc \notin BetweenWrites \cup {"down", "pruning"}
      /\ pc' \in Counting /\ pc' \notin BeforeCount \cup {"down", "pruning"}
  BY <1>1 DEF Counting, BetweenWrites, BeforeCount
<1>4. LegsInHand'
  BY <1>1, <1>3 DEF VelocityAgrees, LegsInHand
<1>5. LegsRecorded'
  <2>1. /\ AllRecordedBut(Len(job.legs), velocityFile, Current, attempts[Current])
        /\ AllRecordedBut(Len(job.legs), velocity, Current, attempts[Current])
    BY <1>3 DEF VelocityAgrees, LegsRecorded
  <2>2. AllRecordedBut(Len(job.legs) - 1, velocity', Current, attempts[Current])
    BY <1>1, <1>3, <2>1, EntryRecords
  <2>3. QED BY <1>1, <2>1, <2>2 DEF LegsRecorded, Current
<1>6. CountedIsKept'
  BY <1>1, <1>2, <1>3, KeptStays DEF VelocityAgrees
<1>7. FilesAreFinite'
  BY <1>1, FS_AddElement DEF VelocityAgrees, FilesAreFinite
<1>8. QED BY <1>1, <1>4, <1>5, <1>6, <1>7 DEF VelocityAgrees, SentInThePast

(* A leg leaves the hand when its entry is in the file.                    *)
LEMMA VelocityCountOnDisk ==
  ASSUME IInv, VelocityAgrees, CurrentIsJobs, CountOnDisk
  PROVE  VelocityAgrees'
<1> USE DEF memory, bounds, history
<1>1. /\ UNCHANGED <<attempts, clock, velocity, torn>>
      /\ velocityFile' = velocityFile \cup {Entry}
      /\ pc \in BetweenWrites /\ pc' \in {"countOk", "countUnknown"}
  BY DEF CountOnDisk, Countings, BetweenWrites
<1>2. /\ job.legs # <<>> /\ job.legs \in Seq(Legs)
      /\ job'.legs = Tail(job.legs) /\ job'.params = job.params
  BY <1>1 DEF CountOnDisk, IInv, LegInHand, TypeOK, Jobs, BetweenWrites
<1>3. SameAttempts /\ CountedAsBefore /\ clock \in Nat
  BY <1>1 DEF SameAttempts, CountedAsBefore, IInv, TypeOK
<1>4. /\ pc \in Counting /\ pc \notin {"down", "pruning"}
      /\ pc' \in Counting /\ pc' \notin BeforeCount \cup BetweenWrites \cup {"down", "pruning"}
  BY <1>1 DEF Counting, BetweenWrites, BeforeCount
<1>5. Len(job'.legs) = Len(job.legs) - 1
  BY <1>2
<1>6. LegsInHand'
  <2> SUFFICES ASSUME NEW m \in DOMAIN job'.legs
               PROVE  LET l == Len(Request[job.params].legs) - Len(job'.legs) + m
                      IN  /\ l \in DOMAIN Request[job.params].legs
                          /\ job'.legs[m] = Request[job.params].legs[l]
    BY <1>2, <1>4 DEF LegsInHand
  <2>1. m \in Nat /\ m + 1 \in DOMAIN job.legs /\ job'.legs[m] = job.legs[m + 1]
    BY <1>2
  <2> DEFINE all == Request[job.params].legs
  <2>2. Len(all) \in Nat /\ Len(job.legs) \in Nat
    <3>1. job.params \in Params
      BY DEF IInv, TypeOK, Jobs
    <3>2. QED BY <1>2, <3>1, RequestLegsType
  <2>3. Len(all) - Len(job'.legs) + m = Len(all) - Len(job.legs) + (m + 1)
    <3> DEFINE n == Len(all)
               j == Len(job.legs)
    <3>1. n \in Nat /\ j \in Nat /\ m \in Nat
      BY <2>1, <2>2
    <3> HIDE DEF n, j
    <3>2. n - (j - 1) + m = n - j + (m + 1)
      BY <3>1
    <3>3. QED BY <1>5, <3>2 DEF n, j
  <2>4. LET l == Len(all) - Len(job.legs) + (m + 1)
        IN  l \in DOMAIN all /\ job.legs[m + 1] = all[l]
    BY <1>4, <2>1 DEF VelocityAgrees, LegsInHand
  <2> HIDE DEF all
  <2>5. LET l == Len(all) - Len(job'.legs) + m
        IN  l \in DOMAIN all /\ job'.legs[m] = all[l]
    BY <2>1, <2>3, <2>4
  <2>6. QED BY <2>5 DEF all
<1>7. LegsRecorded'
  <2>1. /\ AllRecordedBut(Len(job.legs), velocityFile, Current, attempts[Current])
        /\ AllRecordedBut(Len(job.legs) - 1, velocity, Current, attempts[Current])
    BY <1>1, <1>4 DEF VelocityAgrees, LegsRecorded
  <2>2. AllRecordedBut(Len(job.legs) - 1, velocityFile', Current, attempts[Current])
    BY <1>1, <1>2, <1>4, <2>1, EntryRecords
  <2>3. QED BY <1>1, <1>4, <1>5, <2>1, <2>2 DEF LegsRecorded, Current
<1>8. CountedIsKept'
  BY <1>1, <1>3, <1>4, KeptStays DEF VelocityAgrees
<1>9. FilesAreFinite'
  BY <1>1, FS_AddElement DEF VelocityAgrees, FilesAreFinite
<1>10. QED BY <1>1, <1>6, <1>7, <1>8, <1>9 DEF VelocityAgrees, SentInThePast

(* The execution counts as counted when no leg is left in hand.            *)
LEMMA VelocityCounted ==
  ASSUME IInv, VelocityAgrees, CurrentIsJobs, Counted
  PROVE  VelocityAgrees'
<1> USE DEF memory, disk, bounds
<1>1. /\ UNCHANGED <<job, clock, velocity, velocityFile, torn>>
      /\ pc \in {"countOk", "countUnknown"} /\ pc' \in {"ledgerOk", "ledgerUnknown"}
      /\ job.legs = <<>>
      /\ attempts' = [attempts EXCEPT ![Current] = WithTrack(@, "counted")]
  BY DEF Counted, Countings
<1>2. /\ SameAttempts
      /\ \A k \in DOMAIN attempts : k # Current => attempts'[k] = attempts[k]
  BY <1>1, TrackType DEF IInv, TypeOK
<1>3. Current \in DOMAIN attempts
  <2>1. attempts # <<>> /\ attempts \in Seq(Attempts)
    BY <1>1 DEF CurrentIsJobs, Sending, IInv, TypeOK
  <2>2. QED BY <2>1 DEF Current
<1>4. clock' \in Nat /\ clock <= clock'
  BY <1>1 DEF IInv, TypeOK
<1>5. ASSUME NEW file, CountedIn(file, attempts, clock),
             AllRecordedBut(0, file, Current, attempts[Current])
      PROVE  CountedIn(file, attempts', clock')
  <2> SUFFICES ASSUME NEW k \in DOMAIN attempts', attempts'[k].track = "counted",
                      attempts'[k].sentAt >= clock' - Window,
                      NEW l \in DOMAIN LegsOf(attempts'[k])
               PROVE  Recorded(file, k, attempts'[k], l)
    BY DEF CountedIn
  <2>1. /\ k \in DOMAIN attempts /\ attempts'[k].params = attempts[k].params
        /\ attempts'[k].sentAt = attempts[k].sentAt
    BY <1>2 DEF SameAttempts
  <2>2. l \in DOMAIN LegsOf(attempts[k])
    BY <2>1 DEF LegsOf
  <2>3. Recorded(file, k, attempts[k], l)
    <3>1. CASE k = Current
      <4>1. LegsOf(attempts[k]) \in Seq(Legs)
        BY <2>1, AttemptOf
      <4>2. l <= Len(LegsOf(attempts[k])) - 0
        BY <2>2, <4>1
      <4>3. QED BY <1>5, <2>2, <3>1, <4>2 DEF AllRecordedBut
    <3>2. CASE k # Current
      <4>1. attempts[k].track = "counted"
        BY <1>2, <2>1, <3>2
      <4>2. QED BY <1>1, <1>5, <2>1, <2>2, <4>1 DEF CountedIn
    <3>3. QED BY <3>1, <3>2
  <2>4. QED BY <2>1, <2>3, RecordedStays
<1>6. CountedIsKept'
  <2>1. /\ AllRecordedBut(0, velocityFile, Current, attempts[Current])
        /\ AllRecordedBut(0, velocity, Current, attempts[Current])
    <3>1. /\ AllRecordedBut(Len(job.legs), velocityFile, Current, attempts[Current])
          /\ AllRecordedBut(Len(job.legs), velocity, Current, attempts[Current])
      BY <1>1 DEF VelocityAgrees, LegsRecorded, Counting, BetweenWrites
    <3>2. Len(job.legs) = 0
      BY <1>1
    <3>3. QED BY <3>1, <3>2
  <2>2. torn \/ /\ CountedIn(velocityFile, attempts, clock)
                /\ CountedIn(velocity, attempts, clock)
    BY <1>1 DEF VelocityAgrees, CountedIsKept
  <2>3. torn \/ /\ CountedIn(velocityFile, attempts', clock')
                /\ CountedIn(velocity, attempts', clock')
    BY <1>5, <2>1, <2>2
  <2>4. QED BY <1>1, <2>3 DEF CountedIsKept
<1>7. SentInThePast' /\ FilesAreFinite'
  BY <1>1, <1>2, <1>4, PastStays DEF VelocityAgrees, FilesAreFinite
<1>8. QED BY <1>1, <1>6, <1>7
          DEF VelocityAgrees, LegsInHand, LegsRecorded, BeforeCount, Counting, BetweenWrites

(* A pruning keeps what is younger than the window, and an entry is never  *)
(* older than its transaction.                                             *)
LEMMA PruningKeeps ==
  ASSUME IInv, CountedIn(velocityFile, attempts, clock)
  PROVE  CountedIn(Live(velocityFile), attempts, clock)
<1> SUFFICES ASSUME NEW k \in DOMAIN attempts, attempts[k].track = "counted",
                    attempts[k].sentAt >= clock - Window,
                    NEW l \in DOMAIN LegsOf(attempts[k])
             PROVE  Recorded(Live(velocityFile), k, attempts[k], l)
  BY DEF CountedIn
<1>1. Recorded(velocityFile, k, attempts[k], l)
  BY DEF CountedIn
<1>2. \A e \in velocityFile : e.ts >= attempts[k].sentAt => e \in Live(velocityFile)
  <2> SUFFICES ASSUME NEW e \in velocityFile, e.ts >= attempts[k].sentAt
               PROVE  e.ts >= clock - Window
    BY DEF Live
  <2>1. e.ts \in Nat /\ clock \in Nat /\ Window \in Nat /\ attempts[k].sentAt \in Nat
    BY AttemptOf, SpendAssumption DEF IInv, TypeOK, Entries
  <2>2. QED BY <2>1
<1>3. QED BY <1>1, <1>2 DEF Recorded

LEMMA VelocityRestart ==
  ASSUME IInv, VelocityAgrees, Restart
  PROVE  VelocityAgrees'
<1> USE DEF bounds, history
<1>1. /\ UNCHANGED <<job, attempts, clock, torn>>
      /\ pc = "down" /\ pc' \in {"idle", "pruning"}
      /\ velocity' = Live(velocityFile)
      /\ pc' = "idle" => velocityFile' = velocityFile
      /\ velocityFile' = velocityFile \/ velocityFile' = {}
  BY DEF Restart
<1>2. CountedIsKept'
  <2>1. torn \/ /\ CountedIn(velocityFile, attempts, clock)
                /\ CountedIn(Live(velocityFile), attempts, clock)
    BY <1>1, PruningKeeps DEF VelocityAgrees, CountedIsKept
  <2>2. QED BY <1>1, <2>1 DEF CountedIsKept
<1>3. FilesAreFinite'
  BY <1>1, FS_Subset, FS_EmptySet DEF VelocityAgrees, FilesAreFinite, Live
<1>4. QED BY <1>1, <1>2, <1>3
          DEF VelocityAgrees, SentInThePast, LegsInHand, LegsRecorded, BeforeCount, Counting,
              BetweenWrites

LEMMA VelocityRewrite ==
  ASSUME IInv, VelocityAgrees, RewritePruned
  PROVE  VelocityAgrees'
<1> USE DEF memory, bounds, history
<1>1. /\ UNCHANGED <<job, attempts, clock, torn, velocity>>
      /\ pc = "pruning" /\ pc' = "idle" /\ velocityFile' = velocity
  BY DEF RewritePruned
<1>2. QED BY <1>1 DEF VelocityAgrees, SentInThePast, LegsInHand, LegsRecorded, CountedIsKept,
                      FilesAreFinite, BeforeCount, Counting, BetweenWrites

LEMMA VelocityCrash ==
  ASSUME IInv, VelocityAgrees, SameAttempts, CountedAsBefore, Crash
  PROVE  VelocityAgrees'
<1> USE DEF memory, disk, bounds
<1>1. /\ UNCHANGED <<clock, velocityFile>> /\ velocity' = {}
      /\ pc' = "down" /\ torn' = (torn \/ pc = "pruning")
  BY DEF Crash
<1>2. clock' \in Nat /\ clock <= clock'
  BY <1>1 DEF IInv, TypeOK
<1>3. CountedIsKept'
  BY <1>1, <1>2, KeptStays DEF VelocityAgrees
<1>4. SentInThePast'
  BY <1>2, PastStays DEF VelocityAgrees
<1>5. QED BY <1>1, <1>3, <1>4, FS_EmptySet
          DEF VelocityAgrees, LegsInHand, LegsRecorded, FilesAreFinite, BeforeCount, Counting,
              BetweenWrites

LEMMA VelocityStep ==
  ASSUME IInv, CurrentIsJobs, VelocityAgrees, [Next]_vars
  PROVE  VelocityAgrees'
<1> USE DEF memory, disk, bounds, history, BeforeCount, Counting, BetweenWrites
<1>1. UNCHANGED attempts => /\ SameAttempts /\ CountedAsBefore
                            /\ Len(attempts') = Len(attempts)
  BY DEF SameAttempts, CountedAsBefore
<1>2. clock \in Nat /\ attempts \in Seq(Attempts)
  BY DEF IInv, TypeOK
<1>3. ASSUME SameAttempts, attempts' \in Seq(Attempts),
             \A k \in DOMAIN attempts :
               attempts'[k].track = "counted" => attempts[k].track = "counted"
      PROVE  CountedAsBefore /\ Len(attempts') = Len(attempts)
  BY <1>2, <1>3 DEF SameAttempts, CountedAsBefore
<1>4. ASSUME NEW p \in Params, Ask(p) PROVE VelocityAgrees'
  BY <1>4, VelocityTake DEF Ask, TakeOn, SavePcs, LedgerPcs
<1>5. ASSUME NEW qid \in DOMAIN queue, QueueApprove(qid) \/ QueueReject(qid)
      PROVE  VelocityAgrees'
  BY <1>5, VelocityTake DEF QueueApprove, QueueReject, Decide, TakeOn, SavePcs
<1>6. CASE SaveQueue
  BY <1>1, <1>2, <1>6, QuietVelocity DEF SaveQueue, SavePcs
<1>7. CASE AppendDecision \/ AppendExecuting
  BY <1>1, <1>2, <1>7, QuietVelocity DEF AppendDecision, AppendExecuting
<1>8. CASE FailsAfterSend
  <2>1. SameAttempts /\ CountedAsBefore /\ Len(attempts') = Len(attempts)
    <3>1. attempts' = [attempts EXCEPT ![Current] = WithTrack(@, "failed")]
      BY <1>8 DEF FailsAfterSend
    <3>2. /\ SameAttempts /\ attempts' \in Seq(Attempts)
          /\ \A k \in DOMAIN attempts : k # Current => attempts'[k] = attempts[k]
          /\ Current \in DOMAIN attempts => attempts'[Current].track = "failed"
      BY <1>2, <3>1, TrackType
    <3>3. QED BY <1>3, <3>2
  <2>2. QED BY <1>2, <1>8, <2>1, QuietVelocity DEF FailsAfterSend
<1>9. CASE AppendOutcome
  BY <1>1, <1>2, <1>9, QuietVelocity DEF AppendOutcome
<1>10. ASSUME NEW i \in DOMAIN attempts, Settle(i, "landed") \/ Settle(i, "dropped")
       PROVE  VelocityAgrees'
  <2>1. SameAttempts /\ CountedAsBefore /\ Len(attempts') = Len(attempts)
    BY <1>2, <1>3, <1>10, FateType
  <2>2. QED BY <1>2, <1>10, <2>1, QuietVelocity DEF Settle
<1>11. CASE Tick
  BY <1>1, <1>2, <1>11, QuietVelocity DEF Tick
<1>12. CASE WriteFails \/ Crash
  <2>1. SameAttempts /\ CountedAsBefore /\ Len(attempts') = Len(attempts)
    <3>1. CASE UNCHANGED attempts
      BY <1>1, <3>1
    <3>2. CASE attempts' = [attempts EXCEPT ![Current] = WithTrack(@, "lost")]
      <4>1. /\ SameAttempts /\ attempts' \in Seq(Attempts)
            /\ \A k \in DOMAIN attempts : k # Current => attempts'[k] = attempts[k]
            /\ Current \in DOMAIN attempts => attempts'[Current].track = "lost"
        BY <1>2, <3>2, TrackType
      <4>2. QED BY <1>3, <4>1
    <3>3. QED BY <1>12, <3>1, <3>2 DEF WriteFails, Crash, LoseTrack
  <2>2. CASE WriteFails
    BY <1>2, <2>1, <2>2, QuietVelocity DEF WriteFails, SavePcs, LedgerPcs
  <2>3. QED BY <1>12, <2>1, <2>2, VelocityCrash
<1>13. CASE UNCHANGED vars
  BY <1>1, <1>2, <1>13, QuietVelocity DEF vars
<1>14. QED
  BY <1>4, <1>5, <1>6, <1>7, <1>8, <1>9, <1>10, <1>11, <1>12, <1>13,
     VelocityExecute, VelocityConfirm, VelocityCountInMemory, VelocityCountOnDisk,
     VelocityCounted, VelocityRestart, VelocityRewrite DEF Next, Handler

LEMMA VelocityInvariant == Spec => []VelocityAgrees
<1>1. IInv /\ OutcomesAgree /\ VelocityAgrees /\ [Next]_vars => VelocityAgrees'
  BY VelocityStep DEF OutcomesAgree
<1>2. QED BY <1>1, VelocityInit, IInvInvariant, OutcomesInvariant, PTL DEF Spec

(* _record_velocity_entries, _load_velocity: what was counted is counted   *)
(* again by the next process, every leg of it, unless a pruning was torn.  *)
THEOREM CountedStaysOnDiskAlways == Spec => []CountedStaysOnDisk
<1>1. VelocityAgrees => CountedStaysOnDisk
  <2>1. CASE torn \/ pc = "pruning"
    BY <2>1 DEF CountedStaysOnDisk
  <2>2. ASSUME VelocityAgrees, ~torn, pc # "pruning",
               NEW i \in DOMAIN attempts, attempts[i].track = "counted", LiveAttempt(i),
               NEW l \in DOMAIN Request[attempts[i].params].legs
        PROVE  Recorded(velocityFile, i, attempts[i], l)
    BY <2>2 DEF VelocityAgrees, CountedIsKept, CountedIn, LegsOf, LiveAttempt
  <2>3. QED BY <2>1, <2>2 DEF CountedStaysOnDisk, Recorded, LegsOf
<1>2. QED BY <1>1, VelocityInvariant, PTL

-----------------------------------------------------------------------------
(* The daily cap.                                                          *)

(* AmountOf, of a body.                                                    *)
LegAmounts(legs, key) ==
  [l \in {m \in DOMAIN legs : legs[m].key = key} |-> legs[l].amount]

AmountIn(p, key) == SumFunction(LegAmounts(Request[p].legs, key))

Amounts(tries, chosen, key) == [i \in chosen |-> AmountIn(tries[i].params, key)]
Total(tries, chosen, key) == SumFunction(Amounts(tries, chosen, key))

Fits(total, key) == ~Exceeds(total, SpendPolicy.dailyVelocityCap[key])

CountedSince(tries, from) ==
  {i \in DOMAIN tries : tries[i].track = "counted" /\ tries[i].sentAt >= from}

TrackedWith(tries, k) ==
  {i \in 1 .. k : /\ tries[i].track \in {"open", "counted"}
                  /\ tries[i].sentAt >= tries[k].sentAt - Window}

(* What CapHolds says of attempt k, whatever became of the transactions.   *)
FitsCap(tries, k) ==
  tries[k].qid = ByPolicy =>
    \A l \in DOMAIN LegsOf(tries[k]) : IsWholeSpend(LegsOf(tries[k]), l) =>
      LET key == LegsOf(tries[k])[l].key
      IN  Fits(Total(tries, TrackedWith(tries, k), key), key)

PoppedHasId == pc = "savePopped" => job.qid # ByPolicy

OpenIsCurrent ==
  \A k \in DOMAIN attempts : attempts[k].track = "open" => k = Current /\ pc \in Sending

(* Between its verdict and its execution nothing takes a request's room.   *)
JudgedFits ==
  torn \/ (pc \in {"ledgerExecuting", "execute"} /\ job.qid = ByPolicy =>
             \A l \in DOMAIN Request[job.params].legs :
               LET leg == Request[job.params].legs[l]
               IN  Fits(Total(attempts, CountedSince(attempts, clock - Window), leg.key)
                          + leg.amount, leg.key))

CapKept == torn \/ \A k \in DOMAIN attempts : FitsCap(attempts, k)

CapAgrees == PoppedHasId /\ OpenIsCurrent /\ JudgedFits /\ CapKept

LEMMA CapInit == Init => CapAgrees
BY DEF Init, CapAgrees, PoppedHasId, OpenIsCurrent, JudgedFits, CapKept

LEMMA LegsFacts ==
  ASSUME NEW p \in Params, NEW key,
         NEW legs, legs = Request[p].legs
  PROVE  /\ legs \in Seq(Legs)
         /\ \A l \in DOMAIN legs : legs[l].key \in Keys /\ legs[l].amount \in Nat
         /\ Summable(LegAmounts(legs, key))
         /\ AmountIn(p, key) = SumFunction(LegAmounts(legs, key))
         /\ AmountIn(p, key) \in Nat
<1> DEFINE f == LegAmounts(legs, key)
<1>1. legs \in Seq(Legs)
  BY RequestLegsType
<1>2. \A l \in DOMAIN legs : legs[l].key \in Keys /\ legs[l].amount \in Nat
  <2>1. \A l \in DOMAIN legs : legs[l] \in Legs
    BY <1>1
  <2>2. QED BY <2>1 DEF Legs
<1>3. IsFiniteSet(DOMAIN legs)
  <2>1. Len(legs) \in Int /\ 1 \in Int /\ DOMAIN legs = 1 .. Len(legs)
    BY <1>1
  <2>2. QED BY <2>1, FS_Interval
<1>4. IsFiniteSet(DOMAIN f)
  BY <1>3, FS_Subset DEF LegAmounts
<1>5. Summable(f)
  BY <1>2, <1>4 DEF Summable, Naturals, LegAmounts
<1>6. SumFunction(f) = AmountIn(p, key)
  BY DEF AmountIn
<1>7. QED BY <1>1, <1>2, <1>5, <1>6, SumOfCells

LEMMA AmountType ==
  ASSUME NEW p \in Params, NEW key PROVE AmountIn(p, key) \in Nat
BY LegsFacts

(* What a request spends of a key it names once is that leg.               *)
LEMMA WholeSpend ==
  ASSUME NEW p \in Params, NEW l \in DOMAIN Request[p].legs,
         IsWholeSpend(Request[p].legs, l)
  PROVE  AmountIn(p, Request[p].legs[l].key) = Request[p].legs[l].amount
<1> DEFINE legs == Request[p].legs
           f == LegAmounts(legs, legs[l].key)
<1>1. Summable(f) /\ SumFunction(f) = AmountIn(p, legs[l].key)
  BY LegsFacts
<1>2. DOMAIN f = {l} /\ f[l] = legs[l].amount
  BY DEF IsWholeSpend, LegAmounts
<1> HIDE DEF f
<1>3. QED BY <1>1, <1>2, SumOfOne

LEMMA AmountsType ==
  ASSUME NEW tries \in Seq(Attempts), NEW chosen \in SUBSET DOMAIN tries, NEW key
  PROVE  /\ Summable(Amounts(tries, chosen, key))
         /\ DOMAIN Amounts(tries, chosen, key) = chosen
         /\ Total(tries, chosen, key) \in Nat
<1> DEFINE f == Amounts(tries, chosen, key)
<1>1. IsFiniteSet(chosen)
  <2>1. Len(tries) \in Int /\ 1 \in Int /\ DOMAIN tries = 1 .. Len(tries)
    OBVIOUS
  <2>2. IsFiniteSet(DOMAIN tries)
    BY <2>1, FS_Interval
  <2>3. QED BY <2>2, FS_Subset
<1>2. \A i \in chosen : tries[i].params \in Params
  <2>1. \A i \in DOMAIN tries : tries[i] \in Attempts
    OBVIOUS
  <2>2. QED BY <2>1 DEF Attempts
<1>3. DOMAIN f = chosen /\ \A i \in chosen : f[i] \in Nat
  BY <1>2, AmountType DEF Amounts
<1>4. Summable(f)
  BY <1>1, <1>3 DEF Summable, Naturals
<1> HIDE DEF f
<1>5. SumFunction(f) \in Nat
  BY <1>4, SumOfCells
<1>6. QED BY <1>3, <1>4, <1>5 DEF Total, f

LEMMA TotalShrinks ==
  ASSUME NEW tries \in Seq(Attempts), NEW chosen \in SUBSET DOMAIN tries,
         NEW more \in Seq(Attempts), NEW wider \in SUBSET DOMAIN more,
         chosen \subseteq wider,
         \A i \in chosen : tries[i].params = more[i].params, NEW key
  PROVE  Total(tries, chosen, key) <= Total(more, wider, key)
<1> DEFINE f == Amounts(tries, chosen, key)
           g == Amounts(more, wider, key)
<1>1. Summable(f) /\ Summable(g) /\ DOMAIN f = chosen /\ DOMAIN g = wider
  BY AmountsType
<1>2. SumFunction(f) \in Nat /\ \A i \in chosen : f[i] \in Nat
  BY <1>1, SumOfCells DEF Summable, Naturals
<1>3. \A i \in chosen : f[i] = g[i]
  BY DEF Amounts
<1> HIDE DEF f, g
<1>4. \A i \in DOMAIN f : f[i] <= g[i]
  BY <1>1, <1>2, <1>3
<1>5. SumFunction(f) <= SumFunction(g)
  BY <1>1, <1>4, SumMonotone
<1>6. QED BY <1>5 DEF Total, f, g

LEMMA FitsLess ==
  ASSUME NEW key \in Keys, NEW m \in Nat, NEW n \in Nat, m <= n, Fits(n, key)
  PROVE  Fits(m, key)
<1> DEFINE cap == SpendPolicy.dailyVelocityCap[key]
<1>1. cap \in Nat \cup {Unset}
  BY SpendAssumption DEF Policies, Limits
<1> HIDE DEF cap
<1>2. ~Exceeds(n, cap) => ~Exceeds(m, cap)
  BY <1>1, UnsetAssumption DEF Exceeds
<1>3. QED BY <1>2 DEF Fits, cap

(* Every leg counted in the window has an entry of its own in velocity,    *)
(* so what the verdicts see is no less than what was spent.                *)
LEMMA EntriesCoverAttempt ==
  ASSUME IInv, IsFiniteSet(velocity), NEW k \in DOMAIN attempts, NEW key,
         attempts[k].sentAt >= clock - Window,
         \A l \in DOMAIN LegsOf(attempts[k]) : Recorded(velocity, k, attempts[k], l),
         NEW part, part = {e \in Live(velocity) : e.key = key /\ e.attempt = k}
  PROVE  AmountIn(attempts[k].params, key) <= SumFunction([e \in part |-> e.amount])
<1> DEFINE legs == LegsOf(attempts[k])
           f == LegAmounts(legs, key)
           g == [e \in part |-> e.amount]
           entry(l) == CHOOSE e \in part :
                         e.legsLeft = Len(legs) - l + 1 /\ e.amount = legs[l].amount
           h == [l \in DOMAIN f |-> entry(l)]
<1>1. /\ attempts[k].params \in Params /\ attempts[k].sentAt \in Nat
      /\ clock \in Nat /\ Window \in Nat
      /\ \A e \in velocity : e.ts \in Nat /\ e.amount \in Nat
  BY AttemptOf, SpendAssumption DEF IInv, TypeOK, Entries
<1>2. /\ legs \in Seq(Legs)
      /\ \A l \in DOMAIN legs : legs[l].amount \in Nat
      /\ Summable(f) /\ SumFunction(f) = AmountIn(attempts[k].params, key)
  <2>1. legs = Request[attempts[k].params].legs
    BY DEF LegsOf
  <2> HIDE DEF legs
  <2>2. QED BY <1>1, <2>1, LegsFacts
<1> USE DEF LegAmounts
<1>3. Summable(g) /\ DOMAIN g = part
  <2>1. part \subseteq velocity
    BY DEF Live
  <2>2. IsFiniteSet(part)
    BY <2>1, FS_Subset
  <2>3. QED BY <1>1, <2>1, <2>2 DEF Summable, Naturals
<1>4. \A l \in DOMAIN f : /\ h[l] \in part
                          /\ h[l].legsLeft = Len(legs) - l + 1
                          /\ h[l].amount = legs[l].amount
  <2> SUFFICES ASSUME NEW l \in DOMAIN f
               PROVE  \E e \in part : e.legsLeft = Len(legs) - l + 1 /\ e.amount = legs[l].amount
    OBVIOUS
  <2>1. l \in DOMAIN legs /\ legs[l].key = key
    OBVIOUS
  <2>2. PICK e \in velocity : /\ e.attempt = k
                              /\ e.legsLeft = Len(legs) - l + 1
                              /\ e.key = legs[l].key
                              /\ e.amount = legs[l].amount
                              /\ e.ts >= attempts[k].sentAt
    BY <2>1 DEF Recorded
  <2>3. e.ts >= clock - Window
    BY <1>1, <2>2
  <2>4. e \in part
    BY <2>1, <2>2, <2>3 DEF Live
  <2>5. QED BY <2>2, <2>4
<1>5. h \in [DOMAIN f -> DOMAIN g]
  BY <1>3, <1>4
<1>6. \A l \in DOMAIN f : f[l] <= g[h[l]]
  <2> SUFFICES ASSUME NEW l \in DOMAIN f PROVE f[l] <= g[h[l]]
    OBVIOUS
  <2>1. f[l] = legs[l].amount /\ g[h[l]] = h[l].amount /\ legs[l].amount \in Nat
    BY <1>2, <1>4
  <2>2. h[l].amount = legs[l].amount
    BY <1>4
  <2> HIDE DEF f, g, h, legs
  <2>3. QED BY <2>1, <2>2
<1>7. \A l, m \in DOMAIN f : h[l] = h[m] => l = m
  <2> SUFFICES ASSUME NEW l \in DOMAIN f, NEW m \in DOMAIN f, h[l] = h[m] PROVE l = m
    OBVIOUS
  <2>1. Len(legs) - l + 1 = Len(legs) - m + 1
    BY <1>4
  <2>2. l \in Nat /\ m \in Nat /\ Len(legs) \in Nat
    BY <1>2
  <2> DEFINE n == Len(legs)
  <2>3. n - l + 1 = n - m + 1 /\ n \in Nat
    BY <2>1, <2>2
  <2> HIDE DEF n
  <2>4. QED BY <2>2, <2>3
<1> HIDE DEF f, g, h
<1>8. SumFunction(f) <= SumFunction(g)
  BY <1>2, <1>3, <1>5, <1>6, <1>7, SumAtMost
<1>9. QED BY <1>2, <1>8 DEF g

LEMMA EntriesCoverWindow ==
  ASSUME IInv, VelocityAgrees, ~torn, pc # "down", NEW key
  PROVE  /\ Total(attempts, CountedSince(attempts, clock - Window), key) <= SpentLast24h(key)
         /\ SpentLast24h(key) \in Nat
<1> DEFINE counted == CountedSince(attempts, clock - Window)
           seen == {e \in Live(velocity) : e.key = key}
           part == [k \in counted |-> {e \in seen : e.attempt = k}]
           f == Amounts(attempts, counted, key)
           g == [e \in seen |-> e.amount]
<1>1. attempts \in Seq(Attempts) /\ \A e \in velocity : e.amount \in Nat
  BY DEF IInv, TypeOK, Entries
<1>2. Summable(f) /\ DOMAIN f = counted
  <2>1. counted \in SUBSET DOMAIN attempts
    BY DEF CountedSince
  <2>2. QED BY <1>1, <2>1, AmountsType
<1>3. Summable(g) /\ DOMAIN g = seen
  <2>1. seen \subseteq velocity /\ IsFiniteSet(velocity)
    BY DEF Live, VelocityAgrees, FilesAreFinite
  <2>2. IsFiniteSet(seen)
    BY <2>1, FS_Subset
  <2>3. QED BY <1>1, <2>1, <2>2 DEF Summable, Naturals
<1>4. \A k \in counted : f[k] <= SumFunction([e \in part[k] |-> g[e]])
  <2> SUFFICES ASSUME NEW k \in counted
               PROVE  f[k] <= SumFunction([e \in part[k] |-> g[e]])
    OBVIOUS
  <2>1. /\ k \in DOMAIN attempts /\ attempts[k].sentAt >= clock - Window
        /\ attempts[k].track = "counted"
    BY DEF CountedSince
  <2>2. \A l \in DOMAIN LegsOf(attempts[k]) : Recorded(velocity, k, attempts[k], l)
    BY <2>1 DEF VelocityAgrees, CountedIsKept, CountedIn
  <2>3. part[k] = {e \in Live(velocity) : e.key = key /\ e.attempt = k}
    OBVIOUS
  <2>4. [e \in part[k] |-> g[e]] = [e \in part[k] |-> e.amount]
    OBVIOUS
  <2>5. f[k] = AmountIn(attempts[k].params, key)
    BY DEF Amounts
  <2> HIDE DEF f, g, part, counted
  <2>6. AmountIn(attempts[k].params, key) <= SumFunction([e \in part[k] |-> e.amount])
    BY <2>1, <2>2, <2>3, EntriesCoverAttempt DEF VelocityAgrees, FilesAreFinite
  <2>7. QED BY <2>4, <2>5, <2>6
<1>5. /\ \A k \in DOMAIN f : part[k] \subseteq DOMAIN g
      /\ \A k, m \in DOMAIN f : \A e : e \in part[k] /\ e \in part[m] => k = m
  BY <1>2, <1>3
<1>6. Total(attempts, counted, key) = SumFunction(f)
  BY DEF Total
<1>7. SpentLast24h(key) = SumFunction(g)
  BY DEF SpentLast24h
<1> HIDE DEF f, g, part, counted
<1>8. SumFunction(f) <= SumFunction(g)
  BY <1>2, <1>3, <1>4, <1>5, SumOfParts
<1>9. QED BY <1>3, <1>6, <1>7, <1>8, SumOfCells DEF counted

(* No verdict approves a leg that the window has no room for.              *)
LEMMA VerdictFits ==
  ASSUME NEW p \in Params, Verdict(p) = "approved", NEW l \in DOMAIN Request[p].legs,
         NEW leg, leg = Request[p].legs[l]
  PROVE  Fits(SpentLast24h(leg.key) + leg.amount, leg.key)
<1> DEFINE r == Request[p]
           spent == [k \in Keys |-> SpentLast24h(k)]
           verdict(i) == Evaluate(SpendPolicy, r.legs[i].key, r.legs[i].amount,
                                  NoDestination, spent[r.legs[i].key])
<1>1. r.legs \in Seq(Legs) /\ r.kind \in Kinds /\ (r.kind = "transfer" => Len(r.legs) = 1)
  BY SpendAssumption
<1>2. leg.key \in Keys
  <2>1. leg \in Legs
    BY <1>1
  <2>2. QED BY <2>1 DEF Legs
<1>3. ASSUME NEW d, Evaluate(SpendPolicy, leg.key, leg.amount, d, spent[leg.key]) = "approved"
      PROVE  Fits(SpentLast24h(leg.key) + leg.amount, leg.key)
  BY <1>2, <1>3 DEF Evaluate, Denies, Fits
<1>4. CASE r.kind = "transfer"
  <2>1. l = 1
    BY <1>1, <1>4
  <2>2. Evaluate(SpendPolicy, r.legs[1].key, r.legs[1].amount, r.destination,
                 spent[r.legs[1].key]) = "approved"
    BY <1>4 DEF Verdict
  <2>3. QED BY <1>3, <2>1, <2>2
<1>5. CASE r.kind # "transfer"
  <2>1. DecideFundIntent(SpendPolicy, r.legs, spent) = "approved"
    BY <1>1, <1>5 DEF Verdict, Kinds
  <2>2. \A i \in DOMAIN r.legs : verdict(i) = "approved"
    <3>1. \A i \in DOMAIN r.legs : verdict(i) \in {"denied", "queued", "approved"}
      BY DEF Evaluate
    <3>2. \A i \in DOMAIN r.legs : verdict(i) # "denied" /\ verdict(i) # "queued"
      BY <2>1 DEF DecideFundIntent
    <3>3. QED BY <3>1, <3>2
  <2>3. QED BY <1>3, <2>2
<1>6. QED BY <1>4, <1>5

(* What was sent with or before attempt k can only leave its window.       *)
LEMMA FitsCapStays ==
  ASSUME IInv, NEW more, more \in Seq(Attempts),
         NEW k \in DOMAIN attempts, k \in DOMAIN more,
         \A i \in 1 .. k : /\ more[i].params = attempts[i].params
                           /\ more[i].qid = attempts[i].qid
                           /\ more[i].sentAt = attempts[i].sentAt
                           /\ more[i].track \in {"open", "counted"} =>
                                attempts[i].track \in {"open", "counted"},
         FitsCap(attempts, k)
  PROVE  FitsCap(more, k)
<1>1. /\ k \in 1 .. k /\ attempts \in Seq(Attempts)
      /\ 1 .. k \subseteq DOMAIN attempts /\ 1 .. k \subseteq DOMAIN more
  BY DEF IInv, TypeOK
<1>2. more[k].params = attempts[k].params /\ more[k].qid = attempts[k].qid
      /\ more[k].sentAt = attempts[k].sentAt
  BY <1>1
<1>3. LegsOf(more[k]) = LegsOf(attempts[k])
  BY <1>2 DEF LegsOf
<1> SUFFICES ASSUME attempts[k].qid = ByPolicy,
                    NEW l \in DOMAIN LegsOf(attempts[k]), IsWholeSpend(LegsOf(attempts[k]), l),
                    NEW key, key = LegsOf(attempts[k])[l].key
             PROVE  Fits(Total(more, TrackedWith(more, k), key), key)
  BY <1>2, <1>3 DEF FitsCap
<1>4. key \in Keys
  <2>1. LegsOf(attempts[k])[l] \in Legs
    BY AttemptOf
  <2>2. QED BY <2>1 DEF Legs
<1>5. Fits(Total(attempts, TrackedWith(attempts, k), key), key)
  BY DEF FitsCap
<1>6. TrackedWith(more, k) \subseteq TrackedWith(attempts, k)
  BY <1>2 DEF TrackedWith
<1>7. /\ TrackedWith(more, k) \in SUBSET DOMAIN more
      /\ TrackedWith(attempts, k) \in SUBSET DOMAIN attempts
      /\ \A i \in TrackedWith(more, k) : more[i].params = attempts[i].params
  BY <1>1 DEF TrackedWith
<1>8. Total(more, TrackedWith(more, k), key) <= Total(attempts, TrackedWith(attempts, k), key)
  BY <1>1, <1>6, <1>7, TotalShrinks
<1>9. /\ Total(more, TrackedWith(more, k), key) \in Nat
      /\ Total(attempts, TrackedWith(attempts, k), key) \in Nat
  BY <1>1, <1>7, AmountsType
<1>10. QED BY <1>4, <1>5, <1>8, <1>9, FitsLess

Judged == {"ledgerExecuting", "execute"}

LEMMA JudgedStays ==
  ASSUME IInv, PoppedHasId, JudgedFits, SameAttempts, attempts' \in Seq(Attempts),
         clock' \in Nat, clock <= clock', torn' \/ ~torn,
         pc' \in Judged =>
           /\ job' = job /\ pc \in Judged \cup {"savePopped"}
           /\ \A k \in DOMAIN attempts :
                attempts'[k].track = "counted" => attempts[k].track = "counted"
  PROVE  JudgedFits'
<1> SUFFICES ASSUME ~torn', pc' \in Judged, job'.qid = ByPolicy,
                    NEW l \in DOMAIN Request[job'.params].legs,
                    NEW leg, leg = Request[job'.params].legs[l]
             PROVE  Fits(Total(attempts', CountedSince(attempts', clock' - Window), leg.key)
                           + leg.amount, leg.key)
  BY DEF JudgedFits, Judged
<1> DEFINE before == CountedSince(attempts, clock - Window)
           now == CountedSince(attempts', clock' - Window)
<1>1. job' = job /\ ~torn /\ pc \in Judged
  BY DEF PoppedHasId
<1>2. /\ Fits(Total(attempts, before, leg.key) + leg.amount, leg.key)
      /\ leg.key \in Keys /\ leg.amount \in Nat
  <2>1. job.params \in Params
    BY DEF IInv, TypeOK, Jobs
  <2>2. leg \in Legs
    BY <1>1, <2>1, RequestLegsType
  <2>3. QED BY <1>1, <2>2 DEF JudgedFits, Judged, Legs
<1>3. /\ attempts \in Seq(Attempts) /\ clock \in Nat /\ Window \in Nat
      /\ \A k \in DOMAIN attempts : attempts[k].sentAt \in Nat
  BY AttemptOf, SpendAssumption DEF IInv, TypeOK
<1>4. \A k \in now : k \in before /\ attempts'[k].params = attempts[k].params
  <2> SUFFICES ASSUME NEW k \in now
               PROVE  k \in before /\ attempts'[k].params = attempts[k].params
    OBVIOUS
  <2>1. /\ k \in DOMAIN attempts /\ attempts'[k].params = attempts[k].params
        /\ attempts[k].track = "counted" /\ attempts[k].sentAt >= clock' - Window
    BY DEF CountedSince, SameAttempts
  <2>2. attempts[k].sentAt >= clock - Window
    BY <1>3, <2>1
  <2>3. QED BY <2>1, <2>2 DEF CountedSince
<1>5. now \in SUBSET DOMAIN attempts' /\ before \in SUBSET DOMAIN attempts
  BY DEF CountedSince
<1> HIDE DEF now, before
<1>6. Total(attempts', now, leg.key) <= Total(attempts, before, leg.key)
  BY <1>3, <1>4, <1>5, TotalShrinks
<1>7. Total(attempts', now, leg.key) \in Nat /\ Total(attempts, before, leg.key) \in Nat
  BY <1>3, <1>5, AmountsType
<1> DEFINE m == Total(attempts', now, leg.key)
           n == Total(attempts, before, leg.key)
           a == leg.amount
<1>8. m \in Nat /\ n \in Nat /\ a \in Nat /\ m <= n
  BY <1>2, <1>6, <1>7
<1>9. Fits(n + a, leg.key)
  BY <1>2
<1> HIDE DEF m, n, a
<1>10. m + a \in Nat /\ n + a \in Nat /\ m + a <= n + a
  BY <1>8
<1>11. Fits(m + a, leg.key)
  BY <1>2, <1>9, <1>10, FitsLess
<1>12. QED BY <1>11 DEF m, a, now

(* A step that begins no execution and approves nothing.                   *)
LEMMA CapQuiet ==
  ASSUME IInv, CapAgrees, SameAttempts, attempts' \in Seq(Attempts),
         clock' \in Nat, clock <= clock', torn' \/ ~torn,
         \A k \in DOMAIN attempts :
           /\ attempts'[k].track = "open" => /\ attempts[k].track = "open"
                                             /\ pc \in Sending => pc' \in Sending
           /\ attempts'[k].track = "counted" => attempts[k].track \in {"open", "counted"},
         pc' = "savePopped" => pc = "savePopped" /\ job' = job,
         pc' \in Judged =>
           /\ job' = job /\ pc \in Judged \cup {"savePopped"}
           /\ \A k \in DOMAIN attempts :
                attempts'[k].track = "counted" => attempts[k].track = "counted"
  PROVE  CapAgrees'
<1>1. PoppedHasId'
  BY DEF CapAgrees, PoppedHasId
<1>2. OpenIsCurrent'
  <2>1. Len(attempts') = Len(attempts)
    BY DEF SameAttempts, IInv, TypeOK
  <2>2. QED BY <2>1 DEF CapAgrees, OpenIsCurrent, SameAttempts, Current
<1>3. JudgedFits'
  BY JudgedStays DEF CapAgrees
<1>4. CapKept'
  <2> SUFFICES ASSUME ~torn', NEW k \in DOMAIN attempts' PROVE FitsCap(attempts', k)
    BY DEF CapKept
  <2>1. /\ k \in DOMAIN attempts /\ FitsCap(attempts, k)
        /\ attempts \in Seq(Attempts)
    BY DEF SameAttempts, CapAgrees, CapKept, IInv, TypeOK
  <2>2. \A i \in 1 .. k : i \in DOMAIN attempts
    BY <2>1
  <2>3. \A i \in 1 .. k : /\ attempts'[i].params = attempts[i].params
                          /\ attempts'[i].qid = attempts[i].qid
                          /\ attempts'[i].sentAt = attempts[i].sentAt
                          /\ attempts'[i].track \in {"open", "counted"} =>
                               attempts[i].track \in {"open", "counted"}
    BY <2>2 DEF SameAttempts
  <2>4. QED BY <2>1, <2>3, FitsCapStays
<1>5. QED BY <1>1, <1>2, <1>3, <1>4 DEF CapAgrees

(* The verdict makes room.                                                 *)
LEMMA CapAsk ==
  ASSUME IInv, VelocityAgrees, CapAgrees, NEW p \in Params, Ask(p)
  PROVE  CapAgrees'
<1> USE DEF memory, disk, history
<1>1. /\ UNCHANGED <<velocity, attempts, clock, torn>> /\ pc = "idle"
      /\ attempts \in Seq(Attempts) /\ clock \in Nat /\ Window \in Nat
  BY SpendAssumption DEF Ask, TakeOn, IInv, TypeOK
<1>2. /\ \A k \in DOMAIN attempts : attempts[k].track # "open"
      /\ SameAttempts
  BY <1>1 DEF CapAgrees, OpenIsCurrent, Sending, SameAttempts
<1>3. CASE Verdict(p) # "approved"
  <2>1. pc' \in {"saveQueued", "ledgerDenied"}
    BY <1>3 DEF Ask, TakeOn
  <2>2. QED BY <1>1, <1>2, <2>1, CapQuiet DEF Judged
<1>4. CASE Verdict(p) = "approved"
  <2>1. pc' = "ledgerExecuting" /\ job' = [params |-> p, qid |-> ByPolicy,
                                           legs |-> Request[p].legs]
    BY <1>4 DEF Ask, TakeOn
  <2>2. JudgedFits'
    <3> SUFFICES ASSUME ~torn, NEW l \in DOMAIN Request[p].legs,
                        NEW leg, leg = Request[p].legs[l]
                 PROVE  Fits(Total(attempts, CountedSince(attempts, clock - Window), leg.key)
                               + leg.amount, leg.key)
      BY <1>1, <2>1 DEF JudgedFits
    <3> DEFINE m == Total(attempts, CountedSince(attempts, clock - Window), leg.key)
               n == SpentLast24h(leg.key)
               a == leg.amount
    <3>1. Fits(n + a, leg.key)
      BY <1>4, VerdictFits
    <3>2. m <= n /\ n \in Nat
      BY <1>1, EntriesCoverWindow
    <3>3. m \in Nat
      <4>1. CountedSince(attempts, clock - Window) \in SUBSET DOMAIN attempts
        BY DEF CountedSince
      <4>2. QED BY <1>1, <4>1, AmountsType
    <3>4. leg.key \in Keys /\ a \in Nat
      <4>1. leg \in Legs
        BY RequestLegsType
      <4>2. QED BY <4>1 DEF Legs
    <3> HIDE DEF m, n, a
    <3>5. m + a \in Nat /\ n + a \in Nat /\ m + a <= n + a
      BY <3>2, <3>3, <3>4
    <3>6. Fits(m + a, leg.key)
      BY <3>1, <3>4, <3>5, FitsLess
    <3>7. QED BY <3>6 DEF m, a
  <2>3. QED BY <1>1, <1>2, <2>1, <2>2
            DEF CapAgrees, PoppedHasId, OpenIsCurrent, CapKept
<1>5. QED BY <1>3, <1>4

LEMMA CapDecide ==
  ASSUME IInv, CapAgrees, NEW qid \in DOMAIN queue, QueueApprove(qid) \/ QueueReject(qid)
  PROVE  CapAgrees'
<1> USE DEF disk, bounds
<1>1. /\ UNCHANGED <<attempts, clock, torn>> /\ pc = "idle"
      /\ pc' \in {"savePopped", "saveRejected"} /\ job'.qid = qid
  BY DEF QueueApprove, QueueReject, Decide, TakeOn
<1>2. qid \in Nat /\ 1 <= qid
  BY <1>1 DEF IInv, TypeOK, IsQueue, IdsApart, MemoryIdsBelowNext
<1>3. PoppedHasId'
  BY <1>1, <1>2 DEF PoppedHasId, ByPolicy
<1>4. QED BY <1>1, <1>3
          DEF CapAgrees, OpenIsCurrent, JudgedFits, CapKept, Sending, SameAttempts

(* The attempt that begins fits: what is tracked with it is what its       *)
(* verdict saw, or less, and itself.                                       *)
LEMMA NewAttemptFits ==
  ASSUME IInv, CapAgrees, VelocityAgrees, ~torn, pc = "execute",
         NEW fate \in {"unsent", "pending"}, NEW track \in {"open", "failed", "lost"},
         Attempt(fate, track)
  PROVE  FitsCap(attempts', Len(attempts'))
<1> DEFINE k == Len(attempts) + 1
           more == attempts'
           before == CountedSince(attempts, clock - Window)
           together == TrackedWith(more, k)
<1>1. /\ more \in Seq(Attempts) /\ attempts \in Seq(Attempts)
      /\ Len(more) = k /\ k \in DOMAIN more
      /\ \A i \in DOMAIN attempts : more[i] = attempts[i]
      /\ more[k] = [params |-> job.params, qid |-> job.qid,
                    sentAt |-> clock, fate |-> fate, track |-> track]
  BY AttemptType DEF IInv, TypeOK
<1>2. /\ job.params \in Params
      /\ more[k].params = job.params /\ more[k].qid = job.qid /\ more[k].sentAt = clock
      /\ LegsOf(more[k]) = Request[job.params].legs
  BY <1>1 DEF IInv, TypeOK, Jobs, LegsOf
<1> SUFFICES ASSUME job.qid = ByPolicy, NEW l \in DOMAIN Request[job.params].legs,
                    IsWholeSpend(Request[job.params].legs, l),
                    NEW leg, leg = Request[job.params].legs[l]
             PROVE  Fits(Total(more, together, leg.key), leg.key)
  BY <1>1, <1>2 DEF FitsCap
<1>3. /\ Fits(Total(attempts, before, leg.key) + leg.amount, leg.key)
      /\ leg.key \in Keys /\ leg.amount \in Nat
  <2>1. leg \in Legs
    BY <1>2, RequestLegsType
  <2>2. QED BY <2>1 DEF CapAgrees, JudgedFits, Legs
<1>4. AmountIn(job.params, leg.key) = leg.amount
  BY <1>2, WholeSpend
<1>5. \A i \in together : i # k => i \in before
  <2> SUFFICES ASSUME NEW i \in together, i # k PROVE i \in before
    OBVIOUS
  <2>1. i \in DOMAIN attempts /\ more[i] = attempts[i]
    <3>1. i \in 1 .. k /\ Len(attempts) \in Nat
      BY <1>1 DEF TrackedWith
    <3>2. QED BY <1>1, <3>1
  <2>2. attempts[i].track \in {"open", "counted"} /\ attempts[i].sentAt >= clock - Window
    BY <1>2, <2>1 DEF TrackedWith
  <2>3. attempts[i].track # "open"
    BY <2>1 DEF CapAgrees, OpenIsCurrent, Sending
  <2>4. QED BY <2>1, <2>2, <2>3 DEF CountedSince
<1> DEFINE others == together \ {k}
           n == Total(attempts, before, leg.key)
           m == Total(more, others, leg.key)
           a == leg.amount
<1>6. /\ before \in SUBSET DOMAIN attempts /\ together \in SUBSET DOMAIN more
      /\ others \in SUBSET DOMAIN more /\ others \subseteq before
      /\ \A i \in others : more[i].params = attempts[i].params
  <2>1. together \subseteq 1 .. k /\ DOMAIN more = 1 .. k
    BY <1>1 DEF TrackedWith
  <2>2. before \subseteq DOMAIN attempts
    BY DEF CountedSince
  <2> HIDE DEF together, before, more
  <2>3. others \subseteq before
    BY <1>5
  <2>4. \A i \in others : i \in DOMAIN attempts
    BY <2>2, <2>3
  <2>5. \A i \in others : more[i] = attempts[i]
    BY <1>1, <2>4
  <2> HIDE DEF others
  <2>6. QED BY <2>1, <2>2, <2>3, <2>5 DEF others
<1> HIDE DEF together, before
<1>7. m <= n /\ m \in Nat /\ n \in Nat
  BY <1>1, <1>6, TotalShrinks, AmountsType
<1>8. Total(more, together, leg.key) \in Nat /\ Total(more, together, leg.key) <= n + a
  <2>1. CASE k \notin together
    <3>1. others = together
      BY <2>1
    <3>2. Total(more, together, leg.key) = m /\ a \in Nat
      BY <1>3, <3>1
    <3> HIDE DEF a, m, n
    <3>3. QED BY <1>7, <3>2
  <2>2. CASE k \in together
    <3> DEFINE f == Amounts(more, together, leg.key)
               g == Amounts(more, others, leg.key)
    <3>1. /\ Summable(f) /\ DOMAIN f = together
          /\ Summable(g) /\ DOMAIN g = others
      BY <1>1, <1>6, AmountsType
    <3>2. f[k] = a /\ \A i \in others : g[i] = f[i]
      BY <1>2, <1>4, <2>2 DEF Amounts
    <3>3. SumFunction(f) = Total(more, together, leg.key) /\ SumFunction(g) = m
      BY DEF Total
    <3> HIDE DEF f, g
    <3>4. \A y : y \in DOMAIN f <=> y \in DOMAIN g \/ y = k
      BY <2>2, <3>1
    <3>5. k \notin DOMAIN g /\ \A y \in DOMAIN g : g[y] = f[y]
      BY <3>1, <3>2
    <3>6. SumFunction(f) = f[k] + SumFunction(g)
      BY <3>1, <3>4, <3>5, SumWithOneMore
    <3>7. Total(more, together, leg.key) = a + m
      BY <3>2, <3>3, <3>6
    <3> HIDE DEF a, m, n
    <3>8. a \in Nat
      BY <1>3 DEF a
    <3>9. QED BY <1>7, <3>7, <3>8
  <2>3. QED BY <2>1, <2>2
<1>9. n + a \in Nat
  BY <1>3, <1>7
<1>10. Fits(n + a, leg.key)
  BY <1>3
<1> HIDE DEF n, a, m, more, together
<1>11. QED BY <1>3, <1>8, <1>9, <1>10, FitsLess

(* The executions of one attempt, however far they come.                   *)
LEMMA CapExecute ==
  ASSUME IInv, VelocityAgrees, CapAgrees,
         ExecuteRefused \/ ExecuteAborted \/ ExecuteNothing \/ Send
  PROVE  CapAgrees'
<1> USE DEF memory, disk, bounds
<1>1. /\ UNCHANGED <<job, clock, torn>> /\ pc = "execute"
      /\ \/ pc' = "ledgerFailed" /\ Attempt("unsent", "failed")
         \/ pc' = "idle" /\ Attempt("unsent", "lost")
         \/ pc' = "countOk" /\ Attempt("unsent", "open")
         \/ pc' = "await" /\ Attempt("pending", "open")
  BY DEF ExecuteRefused, ExecuteAborted, ExecuteNothing, Send
<1>2. PICK fate \in {"unsent", "pending"}, track \in {"open", "failed", "lost"} :
        /\ Attempt(fate, track)
        /\ track = "open" => pc' \in Sending
        /\ pc' \notin Judged \cup {"savePopped"}
  BY <1>1 DEF Sending, Judged
<1>3. /\ attempts' \in Seq(Attempts) /\ attempts \in Seq(Attempts)
      /\ Len(attempts') = Len(attempts) + 1
      /\ \A i \in DOMAIN attempts : attempts'[i] = attempts[i]
  BY <1>2, AttemptType DEF IInv, TypeOK
<1>4. \A k \in DOMAIN attempts' : k \in DOMAIN attempts \/ k = Len(attempts')
  BY <1>3
<1>5. \A k \in DOMAIN attempts : attempts[k].track # "open"
  BY <1>1 DEF CapAgrees, OpenIsCurrent, Sending
<1>6. PoppedHasId' /\ JudgedFits'
  BY <1>2 DEF PoppedHasId, JudgedFits, Judged
<1>7. OpenIsCurrent'
  <2>1. attempts'[Len(attempts')].track = "open" => track = "open"
    BY <1>2, AttemptType DEF IInv
  <2>2. QED BY <1>2, <1>3, <1>4, <1>5, <2>1 DEF OpenIsCurrent, Current
<1>8. CapKept'
  <2> SUFFICES ASSUME ~torn, NEW k \in DOMAIN attempts' PROVE FitsCap(attempts', k)
    BY <1>1 DEF CapKept
  <2>1. CASE k = Len(attempts')
    BY <1>1, <1>2, <2>1, NewAttemptFits
  <2>2. CASE k \in DOMAIN attempts
    <3>1. FitsCap(attempts, k)
      BY <2>2 DEF CapAgrees, CapKept
    <3>2. \A i \in 1 .. k : attempts'[i] = attempts[i]
      BY <1>3, <2>2
    <3>3. QED BY <1>3, <2>2, <3>1, <3>2, FitsCapStays
  <2>3. QED BY <1>4, <2>1, <2>2
<1>9. QED BY <1>6, <1>7, <1>8 DEF CapAgrees

LEMMA CapStep ==
  ASSUME IInv, CurrentIsJobs, VelocityAgrees, CapAgrees, [Next]_vars
  PROVE  CapAgrees'
<1> USE DEF memory, disk, bounds, history
<1>1. UNCHANGED attempts => SameAttempts
  BY DEF SameAttempts
<1>2. clock \in Nat /\ attempts \in Seq(Attempts)
  BY DEF IInv, TypeOK
<1>3. \A k \in DOMAIN attempts : attempts[k].track = "open" => k = Current /\ pc \in Sending
  BY DEF CapAgrees, OpenIsCurrent
<1>4. ASSUME NEW track \in {"counted", "failed", "lost"},
             attempts' = [attempts EXCEPT ![Current] = WithTrack(@, track)]
      PROVE  /\ SameAttempts /\ attempts' \in Seq(Attempts)
             /\ \A k \in DOMAIN attempts :
                  /\ attempts'[k].track # "open"
                  /\ attempts'[k].track = "counted" =>
                       attempts[k].track = "counted" \/ (k = Current /\ track = "counted")
  <2>1. /\ SameAttempts /\ attempts' \in Seq(Attempts)
        /\ \A k \in DOMAIN attempts : k # Current => attempts'[k] = attempts[k]
        /\ Current \in DOMAIN attempts => attempts'[Current].track = track
    BY <1>2, <1>4, TrackType
  <2>2. QED BY <1>3, <2>1
<1>5. CASE SaveQueue
  BY <1>1, <1>2, <1>3, <1>5, CapQuiet DEF SaveQueue, SavePcs, Sending, Judged
<1>6. CASE AppendDecision \/ AppendExecuting
  BY <1>1, <1>2, <1>3, <1>6, CapQuiet DEF AppendDecision, AppendExecuting, Sending, Judged
<1>7. CASE Confirmed \/ BroadcastUnknown
  BY <1>1, <1>2, <1>3, <1>7, CapQuiet DEF Confirmed, BroadcastUnknown, Sending, Judged
<1>8. CASE FailsAfterSend
  BY <1>2, <1>4, <1>8, CapQuiet DEF FailsAfterSend, Judged
<1>9. CASE CountInMemory
  BY <1>1, <1>2, <1>3, <1>9, CapQuiet DEF CountInMemory, Countings, Sending, Judged
<1>10. CASE CountOnDisk
  BY <1>1, <1>2, <1>3, <1>10, CapQuiet DEF CountOnDisk, Countings, Sending, Judged
<1>11. CASE Counted
  <2>1. /\ pc \in Sending /\ pc' \in {"ledgerOk", "ledgerUnknown"}
        /\ attempts' = [attempts EXCEPT ![Current] = WithTrack(@, "counted")]
        /\ UNCHANGED <<clock, torn>>
    BY <1>11 DEF Counted, Countings, Sending
  <2>2. attempts[Current].track = "open"
    BY <2>1 DEF CurrentIsJobs
  <2>3. QED BY <1>2, <1>4, <2>1, <2>2, CapQuiet DEF Judged
<1>12. CASE AppendOutcome \/ RewritePruned
  BY <1>1, <1>2, <1>3, <1>12, CapQuiet DEF AppendOutcome, RewritePruned, Sending, Judged
<1>13. ASSUME NEW i \in DOMAIN attempts, Settle(i, "landed") \/ Settle(i, "dropped")
       PROVE  CapAgrees'
  <2>1. /\ SameAttempts /\ attempts' \in Seq(Attempts)
        /\ \A k \in DOMAIN attempts : attempts'[k].track = attempts[k].track
    BY <1>2, <1>13, FateType
  <2>2. UNCHANGED <<pc, job, clock, torn>>
    BY <1>13 DEF Settle
  <2>3. QED BY <1>2, <2>1, <2>2, CapQuiet DEF Judged
<1>14. CASE Tick
  BY <1>1, <1>2, <1>3, <1>14, CapQuiet DEF Tick, Judged
<1>15. CASE WriteFails \/ Crash
  <2>1. /\ pc' \in {"idle", "down"} /\ UNCHANGED clock /\ LoseTrack
        /\ torn' \/ ~torn
    <3>1. CASE WriteFails
      BY <3>1 DEF WriteFails
    <3>2. CASE Crash
      BY <3>2 DEF Crash
    <3>3. QED BY <1>15, <3>1, <3>2
  <2>2. /\ pc' \notin Judged /\ pc' # "savePopped"
        /\ clock' \in Nat /\ clock <= clock'
    BY <1>2, <2>1 DEF Judged
  <2>3. /\ SameAttempts /\ attempts' \in Seq(Attempts)
        /\ \A k \in DOMAIN attempts :
             /\ attempts'[k].track # "open"
             /\ attempts'[k].track = "counted" => attempts[k].track \in {"open", "counted"}
    <3>1. CASE pc \in Sending
      <4>1. attempts' = [attempts EXCEPT ![Current] = WithTrack(@, "lost")]
        BY <2>1, <3>1 DEF LoseTrack, Sending
      <4>2. QED BY <1>4, <4>1
    <3>2. CASE pc \notin Sending
      <4>1. UNCHANGED attempts
        BY <2>1, <3>2 DEF LoseTrack, Sending
      <4>2. QED BY <1>1, <1>2, <1>3, <3>2, <4>1
    <3>3. QED BY <3>1, <3>2
  <2>4. torn' \/ ~torn
    BY <2>1
  <2>5. QED BY <2>2, <2>3, <2>4, CapQuiet
<1>16. CASE Restart
  BY <1>1, <1>2, <1>3, <1>16, CapQuiet DEF Restart, Sending, Judged
<1>17. CASE UNCHANGED vars
  BY <1>1, <1>2, <1>3, <1>17, CapQuiet DEF vars, Judged
<1>18. QED
  BY <1>5, <1>6, <1>7, <1>8, <1>9, <1>10, <1>11, <1>12, <1>13, <1>14, <1>15, <1>16, <1>17,
     CapAsk, CapDecide, CapExecute DEF Next, Handler

LEMMA CapInvariant == Spec => []CapAgrees
<1>1. IInv /\ OutcomesAgree /\ VelocityAgrees /\ CapAgrees /\ [Next]_vars => CapAgrees'
  BY CapStep DEF OutcomesAgree
<1>2. QED BY <1>1, CapInit, IInvInvariant, OutcomesInvariant, VelocityInvariant, PTL DEF Spec

(* The daily cap, rt_request_spend and _run_fund_intent with               *)
(* spent_last_24h: a spend that policy itself approved, with all that was  *)
(* sent in the window before it, fits the cap of its key, through crashes, *)
(* restarts and failed writes, unless a pruning was torn.                  *)
THEOREM CapHoldsAlways == Spec => []CapHolds
<1>1. IInv /\ CapAgrees => CapHolds
  <2> SUFFICES ASSUME IInv, CapAgrees, ~torn,
                      NEW k \in DOMAIN attempts, attempts[k].qid = ByPolicy,
                      NEW legs, legs = Request[attempts[k].params].legs,
                      NEW l \in DOMAIN legs, IsWholeSpend(legs, l),
                      NEW counted,
                      counted = {i \in 1 .. k :
                                   /\ attempts[i].fate \in {"pending", "landed"}
                                   /\ attempts[i].track \in {"open", "counted"}
                                   /\ attempts[i].sentAt >= attempts[k].sentAt - Window}
               PROVE  Fits(SumFunction([i \in counted |-> AmountOf(i, legs[l].key)]),
                           legs[l].key)
    BY Zenon DEF CapHolds, Fits
  <2> DEFINE key == legs[l].key
             tracked == TrackedWith(attempts, k)
  <2>1. key \in Keys /\ attempts \in Seq(Attempts)
    <3>1. legs = LegsOf(attempts[k]) /\ legs[l] \in Legs
      BY AttemptOf DEF LegsOf
    <3>2. QED BY <3>1 DEF Legs, IInv, TypeOK
  <2>2. Fits(Total(attempts, tracked, key), key)
    BY DEF CapAgrees, CapKept, FitsCap, LegsOf
  <2>3. /\ counted \in SUBSET DOMAIN attempts /\ tracked \in SUBSET DOMAIN attempts
        /\ counted \subseteq tracked
    BY <2>1 DEF TrackedWith
  <2>4. Total(attempts, counted, key) <= Total(attempts, tracked, key)
    BY <2>1, <2>3, TotalShrinks
  <2>5. Total(attempts, counted, key) \in Nat /\ Total(attempts, tracked, key) \in Nat
    BY <2>1, <2>3, AmountsType
  <2>6. Fits(Total(attempts, counted, key), key)
    BY <2>1, <2>2, <2>4, <2>5, FitsLess
  <2>7. \A i \in counted : AmountOf(i, key) = AmountIn(attempts[i].params, key)
    BY DEF AmountOf, AmountIn, LegAmounts
  <2>8. [i \in counted |-> AmountOf(i, key)] = Amounts(attempts, counted, key)
    BY <2>7 DEF Amounts
  <2>9. QED BY <2>6, <2>8 DEF Total
<1>2. QED BY <1>1, IInvInvariant, CapInvariant, PTL
=============================================================================

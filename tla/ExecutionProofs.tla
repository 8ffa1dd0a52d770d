-------------------------- MODULE ExecutionProofs ---------------------------
(***************************************************************************)
(* What becomes of an approval outside the spend queue and the exchanges,  *)
(* for every set of digests, networks, messages, intents, allowances and   *)
(* transfers, every bound and any failures.                                *)
(*                                                                         *)
(* MintGate: each digest is executed once, by a gate that stood at the     *)
(* time. OneAttemptPerGrant needs to know what the record on disk covers   *)
(* (RecordCovers) and that an item past the check has not been executed    *)
(* before (InHandIsFresh); AttemptWasGranted what the check has seen of    *)
(* the gate, step by step (SeenStands).                                    *)
(*                                                                         *)
(* SignRef: a signature has an approval of its own. The reference in hand  *)
(* is already used up when its signature is made (InHandIsGood), and no    *)
(* reference signs twice (OneSignatureEach), which makes the references of *)
(* the signatures an injection into the approvals.                         *)
(*                                                                         *)
(* EvmExecutor: no allowance exceeds what one approved intent asked for,   *)
(* and as long as the node drops nothing, no transaction takes another     *)
(* one's place. The second rests on the nonces of the pending transactions *)
(* having no gap, so that the pending count, the first nonce that is free, *)
(* is also above all that are taken; and on an execution waiting for each  *)
(* of its transactions before it counts its nonce on by itself. That a     *)
(* free nonce exists is the pigeonhole principle: there are more nonces to *)
(* choose from than transactions.                                          *)
(*                                                                         *)
(* SolanaExecutor: two rows that say a transfer landed name two            *)
(* transactions, and what landed is counted. Both rest on what is known of *)
(* each transaction that was sent (SentIsAccounted) and on the transaction *)
(* in hand being a new one (EachIsNew).                                    *)
(***************************************************************************)
EXTENDS MintGate, SignRef, EvmExecutor, SolanaExecutor, FiniteSetTheorems,
        WellFoundedInduction, TLAPS

-----------------------------------------------------------------------------
(* MintGate                                                                *)

Past(steps) == mintPc \in steps
Attempted(d) == \E i \in DOMAIN attempts : attempts[i].digest = d

(* What the proofs need of types: a list of attempts, and a count.         *)
Shapes ==
  /\ mintPc \in Pcs
  /\ readErrors \in Nat
  /\ attempts \in Seq(Attempts)
  /\ digest \in Digests
  /\ mintClock \in Nat
  /\ gate \in GateFiles /\ seen \in GateFiles
  /\ standing \subseteq GateFiles
  /\ unreadable \in BOOLEAN

(* A record that parses names every digest that was executed.              *)
RecordCovers ==
  consumed # Corrupt => \A i \in DOMAIN attempts : attempts[i].digest \in consumed

InHandIsFresh ==
  /\ Past({"consume", "recordOpen", "execute"}) => ~Attempted(digest)
  /\ Past({"recordOpen", "execute"}) /\ consumed # Corrupt => digest \in consumed

(* The gate that stands now is among those that stood, unless it is gone;  *)
(* the one the check has read is, and it names the digest from then on.    *)
SeenStands ==
  /\ mintPc # "idle" => gate \in standing \cup {NoGate}
  /\ Past({"readConsumed", "consume", "recordOpen", "execute"}) =>
       seen \in standing \ {NoGate} /\ seen.attested
  /\ Past({"consume", "recordOpen", "execute"}) => Names(seen, digest)

OneShotInv == readErrors = 0 => RecordCovers /\ InHandIsFresh

-----------------------------------------------------------------------------
LEMMA ShapesInit == MintGateAssumption /\ MintInit => Shapes
<1> SUFFICES ASSUME MintGateAssumption, MintInit PROVE Shapes
  OBVIOUS
<1>1. unreadable \in BOOLEAN
  BY DEF MintInit
<1>2. /\ mintPc \in Pcs /\ digest \in Digests /\ seen \in GateFiles
      /\ gate \in GateFiles /\ mintClock \in Nat /\ readErrors \in Nat
      /\ standing \subseteq GateFiles /\ attempts \in Seq(Attempts)
  BY DEF MintInit, Pcs, GateFiles
<1>3. QED BY <1>1, <1>2 DEF Shapes

LEMMA UnreadableStep == unreadable \in BOOLEAN /\ [MintNext]_mintVars => unreadable' \in BOOLEAN
BY Zenon DEF MintNext, ApproveMint, ReadGate, ReadConsumed, ReadConsumedFails, Consume,
       ConsumeForgetful, RecordOpen, RecordRefusal, Execute, HumanWritesGate,
       HumanRemovesGate, ConsumedDamaged, MintWriteFails, MintCrash, MintTick, mintVars, mintHistory

LEMMA ShapesStep == Shapes /\ [MintNext]_mintVars => Shapes'
<1> SUFFICES ASSUME Shapes, [MintNext]_mintVars PROVE Shapes'
  OBVIOUS
<1> USE DEF Shapes, Pcs, files, mintBounds, mintHistory
<1>0. unreadable' \in BOOLEAN
  BY UnreadableStep
<1>1. ASSUME NEW d \in Digests, ApproveMint(d) PROVE Shapes'
  BY <1>0, <1>1 DEF ApproveMint
<1>2. CASE ReadGate \/ ReadConsumed
  BY <1>2 DEF ReadGate, ReadConsumed
<1>3. CASE ReadConsumedFails
  BY <1>0, <1>3 DEF ReadConsumedFails
<1>4. CASE Consume \/ RecordOpen \/ RecordRefusal
  BY <1>4 DEF Consume, RecordOpen, RecordRefusal
<1>5. CASE ConsumeForgetful
  BY <1>0, <1>5 DEF ConsumeForgetful
<1>6. CASE Execute
  <2>1. [digest |-> digest, at |-> mintClock, standing |-> standing,
         unreadable |-> unreadable] \in Attempts
    BY Zenon DEF Attempts
  <2>2. attempts' \in Seq(Attempts)
    BY <1>6, <2>1 DEF Execute
  <2>3. QED BY <1>6, <2>2 DEF Execute
<1>7. ASSUME NEW g \in Gates, HumanWritesGate(g) PROVE Shapes'
  BY <1>7 DEF HumanWritesGate, GateFiles
<1>8. CASE HumanRemovesGate
  BY <1>8 DEF HumanRemovesGate, GateFiles
<1>9. CASE ConsumedDamaged \/ MintWriteFails \/ MintCrash \/ MintTick
  BY <1>9 DEF ConsumedDamaged, MintWriteFails, MintCrash, MintTick
<1>10. CASE UNCHANGED mintVars
  BY <1>10 DEF mintVars
<1>11. QED
  BY <1>1, <1>2, <1>3, <1>4, <1>5, <1>6, <1>7, <1>8, <1>9, <1>10 DEF MintNext

-----------------------------------------------------------------------------
(* One attempt for a digest.                                               *)

LEMMA OneShotInit == MintInit => OneShotInv /\ OneAttemptPerGrant
BY DEF MintInit, OneShotInv, RecordCovers, InHandIsFresh, Past, OneAttemptPerGrant

LEMMA OneShotStep ==
  Shapes /\ OneShotInv /\ OneAttemptPerGrant /\ [MintNext]_mintVars
    => OneShotInv' /\ OneAttemptPerGrant'
<1> SUFFICES ASSUME Shapes, OneShotInv, OneAttemptPerGrant, [MintNext]_mintVars, readErrors' = 0
             PROVE  RecordCovers' /\ InHandIsFresh' /\ OneAttemptPerGrant'
  BY DEF OneShotInv, OneAttemptPerGrant
<1> USE DEF files, mintBounds, mintHistory, Past
<1>1. readErrors = 0
  BY DEF Shapes, MintNext, ApproveMint, ReadGate, ReadConsumed, ReadConsumedFails, Consume,
         ConsumeForgetful, RecordOpen, RecordRefusal, Execute, HumanWritesGate,
         HumanRemovesGate, ConsumedDamaged, MintWriteFails, MintCrash, MintTick, mintVars
<1>2. RecordCovers /\ InHandIsFresh
  BY <1>1 DEF OneShotInv
<1>3. ASSUME UNCHANGED <<digest, consumed, attempts, readErrors>>,
             mintPc' \in {mintPc, "idle", "readGate", "readConsumed", "recordRefusal"}
      PROVE  RecordCovers' /\ InHandIsFresh' /\ OneAttemptPerGrant'
  BY <1>2, <1>3 DEF RecordCovers, InHandIsFresh, Attempted, OneAttemptPerGrant
<1>4. ASSUME NEW d \in Digests, ApproveMint(d)
      PROVE  RecordCovers' /\ InHandIsFresh' /\ OneAttemptPerGrant'
  BY <1>2, <1>4 DEF ApproveMint, RecordCovers, InHandIsFresh, Attempted, OneAttemptPerGrant
<1>5. CASE ReadGate
  BY <1>3, <1>5 DEF ReadGate
<1>6. CASE ReadConsumed
  BY <1>2, <1>6 DEF ReadConsumed, RecordCovers, InHandIsFresh, Attempted, OneAttemptPerGrant
<1>7. CASE ReadConsumedFails \/ ConsumeForgetful
  BY <1>1, <1>7 DEF ReadConsumedFails, ConsumeForgetful
<1>8. CASE Consume
  BY <1>2, <1>8 DEF Consume, RecordCovers, InHandIsFresh, Attempted, OneAttemptPerGrant
<1>9. CASE RecordOpen
  BY <1>2, <1>9 DEF RecordOpen, RecordCovers, InHandIsFresh, Attempted, OneAttemptPerGrant
<1>10. CASE RecordRefusal
  BY <1>3, <1>10 DEF RecordRefusal
<1>11. CASE Execute
  <2> DEFINE new == [digest |-> digest, at |-> mintClock, standing |-> standing,
                     unreadable |-> unreadable]
  <2>1. /\ mintPc = "execute" /\ mintPc' = "idle"
        /\ UNCHANGED <<digest, consumed, readErrors>>
        /\ attempts' = Append(attempts, new)
    BY <1>11 DEF Execute
  <2>2. ~Attempted(digest) /\ (consumed # Corrupt => digest \in consumed)
    BY <1>2, <2>1 DEF InHandIsFresh
  <2>3. /\ DOMAIN attempts' = DOMAIN attempts \cup {Len(attempts) + 1}
        /\ \A i \in DOMAIN attempts : attempts'[i] = attempts[i]
        /\ attempts'[Len(attempts) + 1].digest = digest
    BY <2>1 DEF Shapes
  <2>4. RecordCovers' /\ InHandIsFresh'
    BY <1>2, <2>1, <2>2, <2>3 DEF RecordCovers, InHandIsFresh
  <2>5. OneAttemptPerGrant'
    BY <1>1, <2>2, <2>3 DEF OneAttemptPerGrant, Attempted
  <2>6. QED BY <2>4, <2>5
<1>12. CASE (\E g \in Gates : HumanWritesGate(g)) \/ HumanRemovesGate \/ MintTick
  BY <1>3, <1>12 DEF HumanWritesGate, HumanRemovesGate, MintTick
<1>13. CASE ConsumedDamaged
  BY <1>2, <1>13 DEF ConsumedDamaged, RecordCovers, InHandIsFresh, Attempted,
                     OneAttemptPerGrant
<1>14. CASE MintWriteFails \/ MintCrash
  BY <1>3, <1>14 DEF MintWriteFails, MintCrash
<1>15. CASE UNCHANGED mintVars
  BY <1>3, <1>15 DEF mintVars
<1>16. QED
  BY <1>4, <1>5, <1>6, <1>7, <1>8, <1>9, <1>10, <1>11, <1>12, <1>13, <1>14, <1>15 DEF MintNext

(* "Each digest is one-shot" (_check_mint_gate): as long as the record of  *)
(* consumed digests can be read, no digest is executed a second time, for  *)
(* any number of approvals, gates, crashes and failed writes.              *)
THEOREM OneAttemptPerGrantAlways ==
  ASSUME MintGateAssumption
  PROVE  MintSpec => []OneAttemptPerGrant
<1>1. MintInit => Shapes /\ OneShotInv /\ OneAttemptPerGrant
  BY ShapesInit, OneShotInit
<1>2. Shapes /\ OneShotInv /\ OneAttemptPerGrant /\ [MintNext]_mintVars
        => Shapes' /\ OneShotInv' /\ OneAttemptPerGrant'
  BY ShapesStep, OneShotStep
<1>3. QED BY <1>1, <1>2, PTL DEF MintSpec

-----------------------------------------------------------------------------
(* The gate that grants an attempt.                                        *)

LEMMA GrantedInit == MintInit => SeenStands /\ AttemptWasGranted
BY DEF MintInit, SeenStands, Past, AttemptWasGranted

LEMMA GrantedStep ==
  Shapes /\ SeenStands /\ AttemptWasGranted /\ [MintNext]_mintVars
    => SeenStands' /\ AttemptWasGranted'
<1> SUFFICES ASSUME Shapes, SeenStands, AttemptWasGranted, [MintNext]_mintVars
             PROVE  SeenStands' /\ AttemptWasGranted'
  OBVIOUS
<1> USE DEF files, mintBounds, mintHistory, Past
<1>1. ASSUME UNCHANGED attempts PROVE AttemptWasGranted'
  BY <1>1 DEF AttemptWasGranted
<1>2. ASSUME NEW d \in Digests, ApproveMint(d) PROVE SeenStands' /\ AttemptWasGranted'
  BY <1>1, <1>2 DEF ApproveMint, SeenStands
<1>3. CASE ReadGate
  BY <1>1, <1>3 DEF ReadGate, SeenStands
<1>4. CASE ReadConsumed \/ ReadConsumedFails
  BY <1>1, <1>4 DEF ReadConsumed, ReadConsumedFails, SeenStands
<1>5. CASE Consume \/ ConsumeForgetful \/ RecordOpen \/ RecordRefusal
  BY <1>1, <1>5 DEF Consume, ConsumeForgetful, RecordOpen, RecordRefusal, SeenStands
<1>6. CASE Execute
  <2> DEFINE new == [digest |-> digest, at |-> mintClock, standing |-> standing,
                     unreadable |-> unreadable]
  <2>1. mintPc = "execute" /\ mintPc' = "idle" /\ attempts' = Append(attempts, new)
    BY <1>6 DEF Execute
  <2>2. seen \in standing \ {NoGate} /\ seen.attested /\ Names(seen, digest)
    BY <2>1 DEF SeenStands
  <2>3. /\ DOMAIN attempts' = DOMAIN attempts \cup {Len(attempts) + 1}
        /\ \A i \in DOMAIN attempts : attempts'[i] = attempts[i]
        /\ attempts'[Len(attempts) + 1] = new
    BY <2>1 DEF Shapes
  <2>4. new.digest = digest /\ new.standing = standing
    OBVIOUS
  <2>5. AttemptWasGranted'
    BY <2>2, <2>3, <2>4 DEF AttemptWasGranted
  <2>6. QED BY <2>1, <2>5 DEF SeenStands
<1>7. ASSUME NEW g \in Gates, HumanWritesGate(g) PROVE SeenStands' /\ AttemptWasGranted'
  BY <1>1, <1>7 DEF HumanWritesGate, SeenStands
<1>8. CASE HumanRemovesGate
  BY <1>1, <1>8 DEF HumanRemovesGate, SeenStands
<1>9. CASE ConsumedDamaged \/ MintWriteFails \/ MintCrash \/ MintTick
  BY <1>1, <1>9 DEF ConsumedDamaged, MintWriteFails, MintCrash, MintTick, SeenStands
<1>10. CASE UNCHANGED mintVars
  BY <1>1, <1>10 DEF mintVars, SeenStands
<1>11. QED
  BY <1>2, <1>3, <1>4, <1>5, <1>6, <1>7, <1>8, <1>9, <1>10 DEF MintNext

(* The gate is "read fresh every time" (_check_mint_gate): every attempt   *)
(* was granted by a gate that named its digest and stood while it was in   *)
(* execution, whether or not the record of consumed digests could be read. *)
THEOREM AttemptWasGrantedAlways ==
  ASSUME MintGateAssumption
  PROVE  MintSpec => []AttemptWasGranted
<1>1. MintInit => Shapes /\ SeenStands /\ AttemptWasGranted
  BY ShapesInit, GrantedInit
<1>2. Shapes /\ SeenStands /\ AttemptWasGranted /\ [MintNext]_mintVars
        => Shapes' /\ SeenStands' /\ AttemptWasGranted'
  BY ShapesStep, GrantedStep
<1>3. QED BY <1>1, <1>2, PTL DEF MintSpec

-----------------------------------------------------------------------------
(* SignRef                                                                 *)

(* A reference was taken and the signature is not out.                     *)
InUse == signPc \in {"sign", "record", "answer"}

Signatures == [params : Canonical, ref : Refs, at : Nat, by : Nat]

SignShapes ==
  /\ signPc \in {"idle", "sign", "record", "answer"}
  /\ process \in Nat /\ signClock \in Nat
  /\ minted \in Seq(Refs)
  /\ released \in Seq(Signatures)
  /\ presentedRef \in Refs
  /\ verified \in [at : Nat, by : Nat]

(* The reference in hand was minted by this process for what is signed,    *)
(* had not expired, and cannot be presented again.                         *)
InHandIsGood ==
  InUse => /\ presentedRef \in Held /\ presentedRef \in used
           /\ presentedRef.secret = process /\ verified.by = process
           /\ presentedRef.params = request
           /\ verified.at <= presentedRef.exp
           /\ \A i \in DOMAIN released : released[i].ref # presentedRef

(* What was let out names a reference that was good for it.                *)
ReleasedByRef ==
  \A i \in DOMAIN released :
    LET s == released[i] IN
      /\ s.ref \in Held /\ s.ref.params = s.params /\ s.ref.secret = s.by /\ s.at <= s.ref.exp
      /\ s.by <= process
      /\ s.by = process => s.ref \in used

OneSignatureEach ==
  \A i, j \in DOMAIN released : released[i].ref = released[j].ref => i = j

SignInv == SignShapes /\ InHandIsGood /\ ReleasedByRef /\ OneSignatureEach

LEMMA SignShapesInit == SignRefAssumption /\ SignInit => SignShapes
<1> SUFFICES ASSUME SignRefAssumption, SignInit PROVE SignShapes
  OBVIOUS
<1>1. presentedRef \in Refs
  BY DEF SignInit, Refs
<1>2. QED BY <1>1 DEF SignShapes, SignInit

LEMMA SignInitInv == SignRefAssumption /\ SignInit => SignInv
BY SignShapesInit DEF SignInit, SignInv, InHandIsGood, InUse, ReleasedByRef, OneSignatureEach

LEMMA SignParamsType ==
  ASSUME SignRefAssumption, NEW r \in Requests
  PROVE  MintParams(r) \in Canonical
         /\ (SignParams(r).signType = AllowedType[r.message] => SignParams(r) \in Canonical)
BY DEF SignRefAssumption, Requests, MintParams, SignParams, DefaultType, Canonical, SignTypes

(* A step that neither mints nor signs, and leaves the reference in hand.  *)
LEMMA QuietSign ==
  ASSUME SignInv, UNCHANGED <<request, presentedRef, process, used, minted, verified, released>>,
         signPc' \in {"idle", "sign", "record", "answer"}, signPc' # "idle" => signPc # "idle",
         signClock' \in Nat
  PROVE  SignInv'
<1>1. Held' = Held
  BY DEF Held
<1>2. SignShapes'
  BY DEF SignInv, SignShapes
<1>3. InHandIsGood'
  BY <1>1 DEF SignInv, SignShapes, InHandIsGood, InUse
<1>4. ReleasedByRef' /\ OneSignatureEach'
  BY <1>1 DEF SignInv, ReleasedByRef, OneSignatureEach
<1>5. QED BY <1>2, <1>3, <1>4 DEF SignInv

LEMMA MintStep ==
  ASSUME SignRefAssumption, SignInv, NEW r \in Requests, MintRef(r)
  PROVE  SignInv'
<1> DEFINE new == [secret |-> process, exp |-> signClock + Lifetime, params |-> MintParams(r)]
<1>1. new \in Refs
  BY SignParamsType DEF SignRefAssumption, Refs, SignInv, SignShapes
<1>2. minted' = Append(minted, new) /\ signPc' = "idle"
      /\ UNCHANGED <<signPc, request, presentedRef, process, used, signClock, verified, released>>
  BY DEF MintRef, signBounds
<1> HIDE DEF new
<1>3. minted' \in Seq(Refs)
  BY <1>1, <1>2 DEF SignInv, SignShapes
<1>4. Held \subseteq Held'
  <2>1. \A i \in DOMAIN minted : i \in DOMAIN minted' /\ minted'[i] = minted[i]
    BY <1>2 DEF SignInv, SignShapes
  <2>2. QED BY <2>1 DEF Held
<1>5. SignShapes'
  BY <1>2, <1>3 DEF SignInv, SignShapes
<1>6. InHandIsGood'
  BY <1>2 DEF InHandIsGood, InUse
<1>7. ReleasedByRef' /\ OneSignatureEach'
  BY <1>2, <1>4 DEF SignInv, ReleasedByRef, OneSignatureEach
<1>8. QED BY <1>5, <1>6, <1>7 DEF SignInv

LEMMA PresentStep ==
  ASSUME SignRefAssumption, SignInv, NEW r \in Requests, NEW ref \in Held,
         PresentRef(r, ref) \/ PresentStaleRef(r, ref)
  PROVE  SignInv'
<1>1. /\ signPc = "idle" /\ signPc' \in {"idle", "sign"}
      /\ presentedRef' = ref /\ request' = SignParams(r)
      /\ verified' = [at |-> signClock, by |-> process]
      /\ UNCHANGED <<process, signClock, minted, released>>
  BY DEF PresentRef, PresentStaleRef, TakeRequest
<1>2. signPc' = "sign" => Verifies(ref, request') /\ used' = used \cup {ref}
  BY <1>1 DEF PresentRef, PresentStaleRef
<1>3. used \subseteq used'
  BY DEF PresentRef, PresentStaleRef
<1>4. Held' = Held /\ ref \in Refs
  BY <1>1 DEF Held, SignInv, SignShapes
<1>5. ref.secret \in Nat /\ ref.exp \in Nat
  BY <1>4 DEF Refs
<1>6. SignShapes'
  BY <1>1, <1>4 DEF SignInv, SignShapes
<1>7. ASSUME signPc' = "sign", NEW i \in DOMAIN released
      PROVE  released[i].ref # ref
  BY <1>2, <1>7 DEF SignInv, ReleasedByRef, Verifies
<1>8. InHandIsGood'
  BY <1>1, <1>2, <1>4, <1>5, <1>7 DEF InHandIsGood, InUse, Verifies
<1>9. ReleasedByRef' /\ OneSignatureEach'
  BY <1>1, <1>3, <1>4 DEF SignInv, ReleasedByRef, OneSignatureEach
<1>10. QED BY <1>6, <1>8, <1>9 DEF SignInv

LEMMA AnswerStep == SignInv /\ Answer => SignInv'
<1> SUFFICES ASSUME SignInv, Answer PROVE SignInv'
  OBVIOUS
<1> DEFINE new == [params |-> request, ref |-> presentedRef, at |-> verified.at, by |-> verified.by]
<1>1. /\ signPc = "answer" /\ signPc' = "idle" /\ released' = Append(released, new)
      /\ UNCHANGED <<request, presentedRef, process, used, signClock, minted, verified>>
  BY DEF Answer, signBounds
<1>2. InHandIsGood /\ InUse
  BY <1>1 DEF SignInv, InUse
<1>3. presentedRef.params = request /\ presentedRef \in Refs /\ presentedRef.params \in Canonical
  BY <1>2 DEF InHandIsGood, SignInv, SignShapes, Refs
<1>4. new \in Signatures
  BY <1>3 DEF SignInv, SignShapes, Signatures
<1>5. /\ new.ref = presentedRef /\ new.params = request /\ new.at = verified.at
      /\ new.by = verified.by
  OBVIOUS
<1> HIDE DEF new
<1>6. SignShapes'
  BY <1>1, <1>4 DEF SignInv, SignShapes
<1>7. /\ DOMAIN released' = DOMAIN released \cup {Len(released) + 1}
      /\ \A i \in DOMAIN released : released'[i] = released[i]
      /\ released'[Len(released) + 1] = new
      /\ Len(released) + 1 \notin DOMAIN released
  BY <1>1 DEF SignInv, SignShapes
<1>8. Held' = Held /\ process \in Nat
  BY <1>1 DEF Held, SignInv, SignShapes
<1>9. ReleasedByRef'
  BY <1>1, <1>2, <1>5, <1>7, <1>8 DEF SignInv, ReleasedByRef, InHandIsGood
<1>10. OneSignatureEach'
  BY <1>2, <1>5, <1>7 DEF SignInv, OneSignatureEach, InHandIsGood
<1>11. QED BY <1>1, <1>6, <1>9, <1>10 DEF SignInv, InHandIsGood, InUse

LEMMA RestartStep == SignInv /\ Restart => SignInv'
<1> SUFFICES ASSUME SignInv, Restart PROVE SignInv'
  OBVIOUS
<1>1. /\ process' = process + 1 /\ signPc' = "idle" /\ used' = {}
      /\ UNCHANGED <<request, presentedRef, signClock, minted, verified, released>>
  BY DEF Restart, signBounds, signHistory
<1>2. Held' = Held /\ process \in Nat
  BY <1>1 DEF Held, SignInv, SignShapes
<1>3. \A i \in DOMAIN released : released[i].by \in Nat
  <2>1. \A i \in DOMAIN released : released[i] \in Signatures
    BY DEF SignInv, SignShapes
  <2>2. QED BY <2>1 DEF Signatures
<1>4. QED
  BY <1>1, <1>2, <1>3
  DEF SignInv, SignShapes, InHandIsGood, InUse, ReleasedByRef, OneSignatureEach

LEMMA SignStep == SignRefAssumption /\ SignInv /\ [SignNext]_signVars => SignInv'
<1> SUFFICES ASSUME SignRefAssumption, SignInv, [SignNext]_signVars PROVE SignInv'
  OBVIOUS
<1>1. CASE SignMessage \/ SignFails \/ Record \/ SignWriteFails \/ SignTick
  BY <1>1, QuietSign
  DEF SignMessage, SignFails, Record, SignWriteFails, SignTick, signBounds, signHistory, SignInv,
      SignShapes
<1>2. CASE UNCHANGED signVars
  BY <1>2, QuietSign DEF signVars, signBounds, signHistory, SignInv, SignShapes
<1>3. QED
  BY <1>1, <1>2, MintStep, PresentStep, AnswerStep, RestartStep DEF SignNext

(* Each signature has a mint of its own, of the same params.               *)
LEMMA SignaturesHaveMints ==
  ASSUME SignInv, NEW p \in Canonical
  PROVE  Count(released, LAMBDA s : s.params = p) <= Count(minted, LAMBDA r : r.params = p)
<1> DEFINE S == {i \in DOMAIN released : released[i].params = p}
           T == {m \in DOMAIN minted : minted[m].params = p}
           f == [i \in S |-> CHOOSE m \in T : minted[m] = released[i].ref]
<1>1. \A i \in S : \E m \in T : minted[m] = released[i].ref
  BY DEF SignInv, ReleasedByRef, Held
<1>2. \A i \in S : f[i] \in T /\ minted[f[i]] = released[i].ref
  BY <1>1
<1>3. f \in Injection(S, T)
  <2> HIDE DEF S, T, f
  <2>1. f \in [S -> T]
    BY <1>2 DEF f
  <2>2. \A i, j \in S : f[i] = f[j] => i = j
    BY <1>2 DEF SignInv, OneSignatureEach, S
  <2>3. QED BY <2>1, <2>2 DEF Injection, IsInjective
<1>4. IsFiniteSet(T)
  <2>1. DOMAIN minted = 1 .. Len(minted) /\ Len(minted) \in Nat
    BY DEF SignInv, SignShapes
  <2>2. IsFiniteSet(1 .. Len(minted)) /\ T \subseteq 1 .. Len(minted)
    BY <2>1, FS_Interval
  <2> HIDE DEF T
  <2>3. QED BY <2>2, FS_Subset
<1>5. Cardinality(S) <= Cardinality(T)
  <2> HIDE DEF S, T, f
  <2>1. QED BY <1>3, <1>4, FS_Injection
<1>6. QED BY <1>5 DEF Count

(* Every signature the daemon let out was approved for what it signs, by a  *)
(* reference that this process minted and that had not expired when it was *)
(* checked; and params are signed no more often than they were approved,   *)
(* however many processes, failed writes and presented references          *)
(* (_sign_message: _verify_ref, the used refs, the record).                *)
THEOREM SignaturesWithinApprovalsAlways ==
  ASSUME SignRefAssumption
  PROVE  SignSpec => []SignaturesWithinApprovals
<1>1. SignInv => SignaturesWithinApprovals
  <2> SUFFICES ASSUME SignInv PROVE SignaturesWithinApprovals
    OBVIOUS
  <2>1. ASSUME NEW i \in DOMAIN released
        PROVE  \E m \in DOMAIN minted : /\ minted[m].params = released[i].params
                                        /\ minted[m].secret = released[i].by
                                        /\ released[i].at <= minted[m].exp
    BY DEF SignInv, ReleasedByRef, Held
  <2>2. QED BY <2>1, SignaturesHaveMints DEF SignaturesWithinApprovals
<1>2. QED BY <1>1, SignInitInv, SignStep, PTL DEF SignSpec

-----------------------------------------------------------------------------
(* EvmExecutor                                                             *)

EvmTypes ==
  /\ running \subseteq Spends
  /\ \A r, s \in running : r = s
  /\ evmPc \in {"idle", "check", "send", "wait", "recheck"}
  /\ evmPc = "idle" <=> running = {}
  /\ leg \in Nat \ {0}
  /\ nonce \in Nat
  /\ mined \in Nat
  /\ outcome \in [Spends -> {"none", "failed", "submitted", "unknown"}]
  /\ fate \in [Txs -> {"unsent", "pending", "replaced", "mined", "reverted", "dropped"}]
  /\ txNonce \in [Txs -> Nat]
  /\ allowance \in [Keys -> Nat]

Begun(s) == s \in running \/ outcome[s] # "none"

(* What was sent belongs to an intent that was begun: it is its main       *)
(* transaction, or an approval that it needs.                              *)
SentIsBegun ==
  \A t \in Txs : fate[t] # "unsent" =>
    Begun(t[1]) /\ t[2] \in NeededBy(t[1]) \cup {"main"}

EvmInv == EvmTypes /\ SentIsBegun /\ AllowanceIsExact

NothingDropped == \A t \in Txs : fate[t] # "dropped"

(* The execution in hand waits for each transaction before it goes on.     *)
OwnAreMined ==
  \A t \in Txs : t[1] \in running /\ fate[t] \notin {"unsent", "mined"} =>
    evmPc = "wait" /\ t = Tx(t[1])

(* The pending transactions of the account have no gap in their nonces.    *)
NoGap ==
  \A t \in Txs : fate[t] = "pending" =>
    \A k \in mined .. txNonce[t] : Pending(k) # {}

(* The next nonce comes right after them.                                  *)
NonceIsNext ==
  /\ evmPc \in {"check", "send"} =>
       /\ \A t \in Txs : fate[t] = "pending" => txNonce[t] < nonce
       /\ \A k \in mined .. nonce - 1 : Pending(k) # {}
  /\ evmPc = "wait" =>
       /\ \A t \in Txs : fate[t] = "pending" => txNonce[t] <= nonce
       /\ \A k \in mined .. nonce : Pending(k) # {}

NoncesInOrder ==
  NothingDropped =>
    /\ \A t \in Txs : fate[t] # "replaced"
    /\ NoGap
    /\ NonceIsNext

-----------------------------------------------------------------------------
(* The nonce that the node gives. *)

LEMMA LeastNatural ==
  ASSUME NEW T, T \subseteq Nat, T # {}
  PROVE  \E m \in T : \A n \in T : m <= n
<1>1. IsWellFoundedOn(OpToRel(<, Nat), Nat)
  BY NatLessThanWellFounded
<1>2. PICK m \in T : \A n \in T : ~ (<<n, m>> \in OpToRel(<, Nat))
  BY <1>1, WFMin
<1>3. \A n \in T : ~ (n < m)
  BY <1>2 DEF OpToRel
<1>4. QED BY <1>3

LEMMA TxsFinite == SpendsAssumption => IsFiniteSet(Txs) /\ MaxNonce \in Nat
<1> SUFFICES ASSUME SpendsAssumption PROVE IsFiniteSet(Txs)
  BY FS_CardinalityType DEF MaxNonce
<1>1. IsFiniteSet(Keys \cup {"main"})
  BY FS_AddElement DEF SpendsAssumption
<1>2. QED BY <1>1, FS_Product DEF Txs, SpendsAssumption

(* More nonces than transactions: one of them is free. *)
LEMMA SomeNonceIsFree ==
  ASSUME SpendsAssumption, mined \in Nat
  PROVE  \E n \in mined .. mined + MaxNonce : Pending(n) = {}
<1> DEFINE S == mined .. mined + MaxNonce
<1>1. SUFFICES ASSUME \A n \in S : Pending(n) # {} PROVE FALSE
  OBVIOUS
<1>2. IsFiniteSet(Txs) /\ MaxNonce \in Nat /\ Cardinality(Txs) = MaxNonce
  BY TxsFinite DEF MaxNonce
<1>3. IsFiniteSet(S) /\ Cardinality(S) = MaxNonce + 1
  BY <1>2, FS_Interval
<1> DEFINE f == [n \in S |-> CHOOSE t \in Txs : t \in Pending(n)]
<1>4. \A n \in S : f[n] \in Txs /\ f[n] \in Pending(n)
  BY <1>1 DEF Pending
<1>5. f \in [S -> Txs]
  BY <1>4
<1>6. PICK x, y \in S : x # y /\ f[x] = f[y]
  <2> HIDE DEF f, S
  <2>1. Cardinality(Txs) < Cardinality(S)
    BY <1>2, <1>3
  <2>2. QED BY <1>2, <1>3, <1>5, <2>1, FS_PigeonHole
<1>7. txNonce[f[x]] = x /\ txNonce[f[y]] = y
  BY <1>4 DEF Pending
<1>8. QED BY <1>6, <1>7

LEMMA PendingNonceIsFirst ==
  ASSUME SpendsAssumption, mined \in Nat
  PROVE  /\ PendingNonce \in Nat /\ mined <= PendingNonce
         /\ Pending(PendingNonce) = {}
         /\ \A k \in mined .. PendingNonce - 1 : Pending(k) # {}
<1> DEFINE T == {n \in mined .. mined + MaxNonce : Pending(n) = {}}
<1>1. MaxNonce \in Nat
  BY TxsFinite
<1>2. T # {} /\ T \subseteq Nat
  BY <1>1, SomeNonceIsFree
<1>3. PICK n \in T : \A m \in T : n <= m
  <2> HIDE DEF T
  <2>1. QED BY <1>2, LeastNatural
<1>4. /\ n \in mined .. mined + MaxNonce /\ Pending(n) = {}
      /\ \A k \in mined .. n - 1 : Pending(k) # {}
  BY <1>1, <1>3
<1>5. /\ PendingNonce \in mined .. mined + MaxNonce /\ Pending(PendingNonce) = {}
      /\ \A k \in mined .. PendingNonce - 1 : Pending(k) # {}
  BY <1>4 DEF PendingNonce
<1>6. QED BY <1>1, <1>5

-----------------------------------------------------------------------------
(* Types, and whose the transactions are. *)

LEMMA TxType ==
  ASSUME SpendsAssumption, EvmTypes, NEW s \in Spends
  PROVE  /\ Tx(s) \in Txs /\ Tx(s)[1] = s
         /\ Tx(s)[2] \in NeededBy(s) \cup {"main"}
<1>1. Needs[s] \in Seq(Keys) /\ Len(Needs[s]) \in Nat
  BY DEF SpendsAssumption
<1>2. CASE IsMain(s)
  BY <1>2 DEF Tx, Txs
<1>3. CASE ~IsMain(s)
  <2>1. leg \in DOMAIN Needs[s]
    BY <1>1, <1>3 DEF IsMain, EvmTypes
  <2>2. Needs[s][leg] \in Keys /\ Needs[s][leg] \in NeededBy(s)
    BY <1>1, <2>1 DEF NeededBy
  <2>3. QED BY <1>3, <2>2 DEF Tx, Txs
<1>4. QED BY <1>2, <1>3

LEMMA EndType ==
  ASSUME EvmTypes, NEW s \in running, NEW o \in {"failed", "submitted", "unknown"},
         End(s, o), UNCHANGED <<mined, allowance>>,
         fate' \in [Txs -> {"unsent", "pending", "replaced", "mined", "reverted", "dropped"}],
         txNonce' \in [Txs -> Nat]
  PROVE  EvmTypes' /\ \A r \in Spends : Begun(r) => Begun(r)'
BY DEF End, EvmTypes, Begun

LEMMA AcceptedType ==
  ASSUME SpendsAssumption, EvmTypes, SentIsBegun, NEW s \in running, Accepted(Tx(s))
  PROVE  /\ fate' \in [Txs -> {"unsent", "pending", "replaced", "mined", "reverted",
                               "dropped"}]
         /\ txNonce' \in [Txs -> Nat]
         /\ UNCHANGED <<mined, allowance>>
         /\ \A t \in Txs : fate'[t] # "unsent" =>
              Begun(t[1]) /\ t[2] \in NeededBy(t[1]) \cup {"main"}
<1>1. s \in Spends /\ Tx(s) \in Txs /\ Tx(s)[1] = s /\ Tx(s)[2] \in NeededBy(s) \cup {"main"}
  BY TxType DEF EvmTypes
<1>2. \A u \in Txs : fate'[u] = IF u = Tx(s) THEN "pending"
                                ELSE IF u \in Pending(nonce) THEN "replaced" ELSE fate[u]
  BY DEF Accepted
<1>3. \A u \in Pending(nonce) : fate[u] = "pending"
  BY DEF Pending
<1>4. \A t \in Txs : fate'[t] # "unsent" =>
        Begun(t[1]) /\ t[2] \in NeededBy(t[1]) \cup {"main"}
  BY <1>1, <1>2, <1>3 DEF SentIsBegun, Begun
<1>5. QED BY <1>1, <1>4 DEF Accepted, EvmTypes

(* A step of the execution leaves the allowances alone. *)
LEMMA KeepsAllowance ==
  ASSUME AllowanceIsExact, UNCHANGED allowance,
         \A r \in Spends : Begun(r) => Begun(r)'
  PROVE  AllowanceIsExact'
BY DEF AllowanceIsExact, Begun

LEMMA EvmInvInit == SpendsAssumption /\ EvmInit => EvmInv
BY DEF SpendsAssumption, EvmInit, EvmInv, EvmTypes, SentIsBegun, AllowanceIsExact

(* The steps of the chain. *)
LEMMA EvmInvMine ==
  ASSUME SpendsAssumption, EvmInv, NEW t \in Txs, Mine(t)
  PROVE  EvmInv'
<1> USE DEF exec
<1>1. /\ UNCHANGED <<running, evmPc, leg, nonce, outcome, txNonce>>
      /\ mined' = mined + 1 /\ fate[t] = "pending"
  BY DEF Mine, Pending
<1>2. \A r \in Spends : Begun(r)' <=> Begun(r)
  BY <1>1 DEF Begun
<1>3. t[1] \in Spends /\ t[2] \in Keys \cup {"main"}
  BY DEF Txs
<1>4. Begun(t[1]) /\ t[2] \in NeededBy(t[1]) \cup {"main"}
  BY <1>1 DEF EvmInv, SentIsBegun
<1>5. /\ \A k \in Keys : allowance[k] \in Nat
      /\ Amount[t[1]] \in Nat
  BY <1>3 DEF EvmInv, EvmTypes, SpendsAssumption
<1>6. CASE fate' = [fate EXCEPT ![t] = "reverted"] /\ UNCHANGED allowance
  <2>1. EvmTypes'
    BY <1>1, <1>6 DEF EvmInv, EvmTypes
  <2>2. SentIsBegun'
    BY <1>1, <1>2, <1>4, <1>6 DEF EvmInv, EvmTypes, SentIsBegun, Begun
  <2>3. AllowanceIsExact'
    BY <1>2, <1>6, KeepsAllowance DEF EvmInv
  <2>4. QED BY <2>1, <2>2, <2>3 DEF EvmInv
<1>7. CASE /\ t[2] = "main" => Covered(t[1])
           /\ fate' = [fate EXCEPT ![t] = "mined"]
           /\ allowance' = [k \in Keys |->
                IF t[2] = k THEN Approved(t[1], k)
                ELSE IF t[2] = "main" /\ k \in NeededBy(t[1])
                THEN allowance[k] - Amount[t[1]]
                ELSE allowance[k]]
  <2>1. \A k \in Keys : /\ t[2] = k => allowance'[k] = Amount[t[1]]
                        /\ t[2] # k => allowance'[k] <= allowance[k]
                        /\ allowance'[k] \in Nat
    <3>1. \A k \in Keys : t[2] = "main" /\ k \in NeededBy(t[1]) =>
            allowance[k] >= Amount[t[1]]
      BY <1>7 DEF Covered
    <3>2. QED BY <1>5, <1>7, <3>1 DEF Approved
  <2>2. EvmTypes'
    <3>1. allowance' \in [Keys -> Nat]
      BY <1>7, <2>1
    <3>2. QED BY <1>1, <1>7, <3>1 DEF EvmInv, EvmTypes
  <2>3. SentIsBegun'
    BY <1>1, <1>2, <1>4, <1>7 DEF EvmInv, EvmTypes, SentIsBegun, Begun
  <2>4. AllowanceIsExact'
    <3> SUFFICES ASSUME NEW k \in Keys, allowance'[k] > 0
                 PROVE  \E s \in Spends : /\ Begun(s)
                                          /\ k \in NeededBy(s)
                                          /\ allowance'[k] <= Amount[s]
      BY <1>1 DEF AllowanceIsExact, Begun
    <3>1. CASE t[2] = k
      <4>1. k # "main"
        BY DEF SpendsAssumption
      <4>2. QED BY <1>3, <1>4, <1>5, <2>1, <3>1, <4>1
    <3>2. CASE t[2] # k
      <4>1. allowance[k] > 0 /\ allowance'[k] <= allowance[k]
        BY <1>5, <2>1, <3>2
      <4>2. PICK s \in Spends : Begun(s) /\ k \in NeededBy(s) /\ allowance[k] <= Amount[s]
        BY <4>1 DEF EvmInv, AllowanceIsExact, Begun
      <4>3. Amount[s] \in Nat
        BY DEF SpendsAssumption
      <4>4. QED BY <1>5, <2>1, <4>1, <4>2, <4>3
    <3>3. QED BY <3>1, <3>2
  <2>5. QED BY <2>2, <2>3, <2>4 DEF EvmInv
<1>8. QED BY <1>6, <1>7 DEF Mine

LEMMA EvmInvStep ==
  ASSUME SpendsAssumption, EvmInv, [EvmNext]_evmVars
  PROVE  EvmInv'
<1> USE DEF chain, exec
<1>1. ASSUME NEW s \in Spends, BeginIntent(s) PROVE EvmInv'
  <2>1. PendingNonce \in Nat
    BY PendingNonceIsFirst DEF EvmInv, EvmTypes
  <2>2. EvmTypes' /\ \A r \in Spends : Begun(r) => Begun(r)'
    BY <1>1, <2>1 DEF BeginIntent, EvmInv, EvmTypes, Begun
  <2>3. SentIsBegun'
    BY <1>1, <2>2 DEF BeginIntent, EvmInv, SentIsBegun, Txs
  <2>4. QED BY <1>1, <2>2, <2>3, KeepsAllowance DEF BeginIntent, EvmInv
<1>2. ASSUME NEW s \in Spends, Refuse(s) PROVE EvmInv'
  <2>1. EvmTypes' /\ \A r \in Spends : Begun(r) => Begun(r)'
    BY <1>2 DEF Refuse, End, EvmInv, EvmTypes, Begun
  <2>2. SentIsBegun'
    BY <1>2, <2>1 DEF Refuse, EvmInv, SentIsBegun, Txs
  <2>3. QED BY <1>2, <2>1, <2>2, KeepsAllowance DEF Refuse, EvmInv
<1>3. ASSUME NEW s \in Spends, Check(s) PROVE EvmInv'
  <2>1. EvmTypes' /\ \A r \in Spends : Begun(r) => Begun(r)'
    BY <1>3 DEF Check, EvmInv, EvmTypes, Begun
  <2>2. SentIsBegun'
    BY <1>3, <2>1 DEF Check, EvmInv, SentIsBegun, Txs
  <2>3. QED BY <1>3, <2>1, <2>2, KeepsAllowance DEF Check, EvmInv
<1>4. ASSUME NEW s \in Spends, SendTx(s) PROVE EvmInv'
  <2>1. s \in running /\ Accepted(Tx(s)) /\ UNCHANGED <<running, leg, nonce, outcome>>
    BY <1>4 DEF SendTx
  <2>2. \A r \in Spends : Begun(r) => Begun(r)'
    BY <2>1 DEF Begun
  <2>3. EvmTypes'
    BY <1>4, <2>1, AcceptedType DEF SendTx, EvmInv, EvmTypes
  <2>4. SentIsBegun'
    BY <2>1, <2>2, AcceptedType DEF EvmInv, SentIsBegun, Txs
  <2>5. QED BY <2>1, <2>2, <2>3, <2>4, AcceptedType, KeepsAllowance DEF EvmInv
<1>5. ASSUME NEW s \in Spends, NodeFails(s) PROVE EvmInv'
  <2>1. s \in running /\ End(s, "failed")
        /\ (UNCHANGED chain \/ (evmPc = "send" /\ Accepted(Tx(s))))
    BY <1>5 DEF NodeFails
  <2>2. /\ UNCHANGED <<mined, allowance>>
        /\ fate' \in [Txs -> {"unsent", "pending", "replaced", "mined", "reverted", "dropped"}]
        /\ txNonce' \in [Txs -> Nat]
        /\ \A t \in Txs : fate'[t] # "unsent" =>
             Begun(t[1]) /\ t[2] \in NeededBy(t[1]) \cup {"main"}
    <3>1. CASE UNCHANGED chain
      BY <3>1 DEF EvmInv, EvmTypes, SentIsBegun
    <3>2. CASE Accepted(Tx(s))
      BY <2>1, <3>2, AcceptedType DEF EvmInv
    <3>3. QED BY <2>1, <3>1, <3>2
  <2>3. EvmTypes' /\ \A r \in Spends : Begun(r) => Begun(r)'
    BY <2>1, <2>2, EndType DEF EvmInv
  <2>4. SentIsBegun'
    BY <2>2, <2>3 DEF SentIsBegun, Txs
  <2>5. QED BY <2>2, <2>3, <2>4, KeepsAllowance DEF EvmInv
<1>6. ASSUME NEW s \in Spends, Receipt(s) PROVE EvmInv'
  <2>1. s \in running /\ UNCHANGED chain
    BY <1>6 DEF Receipt
  <2>2. EvmTypes' /\ \A r \in Spends : Begun(r) => Begun(r)'
    <3>1. CASE End(s, "submitted")
      BY <2>1, <3>1, EndType DEF EvmInv, EvmTypes
    <3>2. CASE /\ UNCHANGED <<running, outcome>>
               /\ \/ evmPc' = "check" /\ leg' = leg + 1 /\ nonce' = nonce + 1
                  \/ evmPc' = "recheck" /\ UNCHANGED <<leg, nonce>>
      BY <2>1, <3>2 DEF EvmInv, EvmTypes, Begun
    <3>3. QED BY <1>6, <3>1, <3>2 DEF Receipt
  <2>3. SentIsBegun'
    BY <2>1, <2>2 DEF EvmInv, SentIsBegun, Txs
  <2>4. QED BY <2>1, <2>2, <2>3, KeepsAllowance DEF EvmInv
<1>7. ASSUME NEW s \in Spends, Reverted(s) \/ EvmTimeout(s) \/ Recheck(s) PROVE EvmInv'
  <2>1. PICK o \in {"failed", "submitted", "unknown"} :
          s \in running /\ End(s, o) /\ UNCHANGED chain
    BY <1>7 DEF Reverted, EvmTimeout, Recheck
  <2>2. EvmTypes' /\ \A r \in Spends : Begun(r) => Begun(r)'
    BY <2>1, EndType DEF EvmInv, EvmTypes
  <2>3. SentIsBegun'
    BY <2>1, <2>2 DEF EvmInv, SentIsBegun, Txs
  <2>4. QED BY <2>1, <2>2, <2>3, KeepsAllowance DEF EvmInv
<1>8. ASSUME NEW t \in Txs, DropTx(t) PROVE EvmInv'
  <2>1. EvmTypes' /\ \A r \in Spends : Begun(r) => Begun(r)'
    BY <1>8 DEF DropTx, EvmInv, EvmTypes, Begun
  <2>2. SentIsBegun'
    BY <1>8, <2>1 DEF DropTx, EvmInv, EvmTypes, SentIsBegun, Txs
  <2>3. QED BY <1>8, <2>1, <2>2, KeepsAllowance DEF DropTx, EvmInv
<1>9. CASE Finished \/ UNCHANGED evmVars
  BY <1>9 DEF Finished, evmVars, EvmInv, EvmTypes, SentIsBegun, AllowanceIsExact, Begun
<1>10. QED
  BY <1>1, <1>2, <1>3, <1>4, <1>5, <1>6, <1>7, <1>8, <1>9, EvmInvMine DEF EvmNext

LEMMA EvmInvAlways == ASSUME SpendsAssumption PROVE EvmSpec => []EvmInv
<1>1. EvmInv /\ [EvmNext]_evmVars => EvmInv'
  BY EvmInvStep
<1>2. EvmInit => EvmInv
  BY EvmInvInit
<1>3. QED BY <1>1, <1>2, PTL DEF EvmSpec

(* _evm_ensure_allowance, "exact amount, never unlimited": no contract is  *)
(* ever allowed more than one approved intent asked for, whatever failed,  *)
(* timed out or is still pending.                                          *)
THEOREM AllowanceIsExactAlways == ASSUME SpendsAssumption PROVE EvmSpec => []AllowanceIsExact
<1>1. EvmInv => AllowanceIsExact
  BY DEF EvmInv
<1>2. QED BY <1>1, EvmInvAlways, PTL

-----------------------------------------------------------------------------
(* Nothing is replaced. *)

(* The states that the second proof goes through. *)
EvmOrder == EvmInv /\ OwnAreMined /\ NoncesInOrder

(* What is about to be sent is not in the pool, and was not dropped from it. *)
LEMMA SentIsNew ==
  ASSUME SpendsAssumption, EvmOrder, NEW s \in running, evmPc = "send"
  PROVE  /\ s \in Spends /\ running = {s}
         /\ Tx(s) \in Txs /\ Tx(s)[1] = s
         /\ fate[Tx(s)] \in {"unsent", "mined"}
<1>1. s \in Spends /\ running = {s}
  BY DEF EvmOrder, EvmInv, EvmTypes
<1>2. Tx(s) \in Txs /\ Tx(s)[1] = s
  BY <1>1, TxType DEF EvmOrder, EvmInv
<1>3. QED BY <1>1, <1>2 DEF EvmOrder, OwnAreMined

(* Sent with the next nonce, a transaction replaces no other. *)
LEMMA AcceptedInOrder ==
  ASSUME SpendsAssumption, EvmOrder, NEW s \in running, evmPc = "send", Accepted(Tx(s)),
         NothingDropped'
  PROVE  /\ \A t \in Txs : fate'[t] # "replaced"
         /\ NoGap'
         /\ \A t \in Txs : fate'[t] = "pending" => txNonce'[t] <= nonce
         /\ \A k \in mined .. nonce : Pending(k)' # {}
<1>1. /\ Tx(s) \in Txs /\ fate[Tx(s)] \in {"unsent", "mined"}
      /\ nonce \in Nat /\ mined \in Nat /\ mined' = mined
      /\ fate \in [Txs -> {"unsent", "pending", "replaced", "mined", "reverted", "dropped"}]
      /\ txNonce \in [Txs -> Nat]
  BY SentIsNew DEF Accepted, EvmOrder, EvmInv, EvmTypes
<1>2. \A u \in Txs : /\ fate'[u] = IF u = Tx(s) THEN "pending"
                                   ELSE IF u \in Pending(nonce) THEN "replaced" ELSE fate[u]
                     /\ txNonce'[u] = IF u = Tx(s) THEN nonce ELSE txNonce[u]
  BY <1>1 DEF Accepted
<1>3. NothingDropped
  <2>1. \A u \in Txs : fate[u] = "dropped" => u # Tx(s) /\ u \notin Pending(nonce)
    BY <1>1 DEF Pending
  <2>2. QED BY <1>2, <2>1 DEF NothingDropped
<1>4. /\ \A t \in Txs : fate[t] # "replaced"
      /\ NoGap
      /\ \A t \in Txs : fate[t] = "pending" => txNonce[t] < nonce
      /\ \A k \in mined .. nonce - 1 : Pending(k) # {}
  BY <1>3 DEF EvmOrder, NoncesInOrder, NonceIsNext
<1>5. Pending(nonce) = {}
  BY <1>1, <1>4 DEF Pending
<1>6. \A u \in Txs : u # Tx(s) => fate'[u] = fate[u] /\ txNonce'[u] = txNonce[u]
  BY <1>2, <1>5
<1>7. fate'[Tx(s)] = "pending" /\ txNonce'[Tx(s)] = nonce
  BY <1>1, <1>2
<1>8. \A k \in mined .. nonce : Pending(k)' # {}
  <2>1. ASSUME NEW k \in mined .. nonce, k # nonce PROVE Pending(k)' # {}
    <3>1. k \in mined .. nonce - 1
      BY <1>1, <2>1
    <3>2. PICK u \in Pending(k) : TRUE
      BY <1>4, <3>1
    <3>3. u \in Txs /\ fate[u] = "pending" /\ txNonce[u] = k
      BY <3>2 DEF Pending
    <3>4. u # Tx(s)
      BY <1>1, <3>3
    <3>5. fate'[u] = "pending" /\ txNonce'[u] = k
      BY <1>6, <3>3, <3>4
    <3>6. u \in Pending(k)'
      BY <3>3, <3>5 DEF Pending
    <3>7. QED BY <3>6
  <2>2. ASSUME NEW k, k = nonce PROVE Pending(k)' # {}
    <3>1. Tx(s) \in Pending(k)'
      BY <1>1, <1>7, <2>2 DEF Pending
    <3>2. QED BY <3>1
  <2>3. QED BY <2>1, <2>2
<1>9. \A t \in Txs : fate'[t] = "pending" => txNonce'[t] <= nonce
  BY <1>1, <1>4, <1>6, <1>7
<1>10. NoGap'
  <2> SUFFICES ASSUME NEW t \in Txs, fate'[t] = "pending", NEW k \in mined' .. txNonce'[t]
               PROVE  Pending(k)' # {}
    BY DEF NoGap
  <2>1. txNonce'[t] <= nonce /\ txNonce'[t] \in Nat
    BY <1>1, <1>2, <1>9
  <2>2. k \in mined .. nonce
    BY <1>1, <2>1
  <2>3. QED BY <1>8, <2>2
<1>11. \A t \in Txs : fate'[t] # "replaced"
  BY <1>4, <1>6, <1>7
<1>12. QED BY <1>8, <1>9, <1>10, <1>11

(* The chain takes the pending transaction with the lowest nonce. *)
LEMMA MinedInOrder ==
  ASSUME EvmOrder, NEW t \in Txs, Mine(t)
  PROVE  NoncesInOrder'
<1>1. /\ UNCHANGED <<evmPc, nonce, txNonce>>
      /\ mined' = mined + 1 /\ mined \in Nat /\ nonce \in Nat
      /\ txNonce \in [Txs -> Nat]
      /\ fate[t] = "pending" /\ txNonce[t] = mined
      /\ fate'[t] \in {"mined", "reverted"}
      /\ \A u \in Txs : u # t => fate'[u] = fate[u]
  BY DEF Mine, exec, Pending, EvmOrder, EvmInv, EvmTypes
<1> SUFFICES ASSUME NothingDropped' PROVE /\ \A u \in Txs : fate'[u] # "replaced"
                                          /\ NoGap'
                                          /\ NonceIsNext'
  BY DEF NoncesInOrder
<1>2. NothingDropped
  BY <1>1 DEF NothingDropped
<1>3. (\A u \in Txs : fate[u] # "replaced") /\ NoGap /\ NonceIsNext
  BY <1>2 DEF EvmOrder, NoncesInOrder
<1>4. \A k \in Int : k > mined => Pending(k)' = Pending(k)
  BY <1>1 DEF Pending
<1>5. \A u \in Txs : fate'[u] = "pending" => fate[u] = "pending" /\ txNonce'[u] = txNonce[u]
  BY <1>1
<1>6. NoGap'
  <2> SUFFICES ASSUME NEW u \in Txs, fate'[u] = "pending", NEW k \in mined' .. txNonce'[u]
               PROVE  Pending(k)' # {}
    BY DEF NoGap
  <2>1. fate[u] = "pending" /\ txNonce'[u] = txNonce[u] /\ txNonce[u] \in Nat
    BY <1>1, <1>5
  <2>2. k \in Int /\ k > mined /\ k \in mined .. txNonce[u]
    BY <1>1, <2>1
  <2>3. QED BY <1>3, <1>4, <2>1, <2>2 DEF NoGap
<1>7. NonceIsNext'
  <2>1. \A m \in Int : (\A k \in mined .. m : Pending(k) # {}) =>
                       \A k \in mined' .. m : Pending(k)' # {}
    <3> SUFFICES ASSUME NEW m \in Int, \A k \in mined .. m : Pending(k) # {},
                        NEW k \in mined' .. m
                 PROVE  Pending(k)' # {}
      OBVIOUS
    <3>1. k \in Int /\ k > mined /\ k \in mined .. m
      BY <1>1
    <3>2. QED BY <1>4, <3>1
  <2>2. CASE evmPc \in {"check", "send"}
    <3>1. /\ \A u \in Txs : fate[u] = "pending" => txNonce[u] < nonce
          /\ \A k \in mined .. nonce - 1 : Pending(k) # {}
      BY <1>3, <2>2 DEF NonceIsNext
    <3>2. \A k \in mined' .. nonce' - 1 : Pending(k)' # {}
      <4>1. nonce - 1 \in Int /\ nonce' = nonce
        BY <1>1
      <4>2. \A k \in mined' .. nonce - 1 : Pending(k)' # {}
        BY <2>1, <3>1, <4>1
      <4>3. QED BY <4>1, <4>2
    <3>3. \A u \in Txs : fate'[u] = "pending" => txNonce'[u] < nonce'
      BY <1>1, <1>5, <3>1
    <3>4. evmPc' # "wait"
      BY <1>1, <2>2
    <3>5. QED BY <3>2, <3>3, <3>4 DEF NonceIsNext
  <2>3. CASE evmPc = "wait"
    <3>1. /\ \A u \in Txs : fate[u] = "pending" => txNonce[u] <= nonce
          /\ \A k \in mined .. nonce : Pending(k) # {}
      BY <1>3, <2>3 DEF NonceIsNext
    <3>2. \A k \in mined' .. nonce' : Pending(k)' # {}
      BY <1>1, <2>1, <3>1
    <3>3. \A u \in Txs : fate'[u] = "pending" => txNonce'[u] <= nonce'
      BY <1>1, <1>5, <3>1
    <3>4. evmPc' \notin {"check", "send"}
      BY <1>1, <2>3
    <3>5. QED BY <3>2, <3>3, <3>4 DEF NonceIsNext
  <2>4. QED BY <1>1, <2>2, <2>3 DEF NonceIsNext
<1>8. \A u \in Txs : fate'[u] # "replaced"
  BY <1>1, <1>3
<1>9. QED BY <1>6, <1>7, <1>8

LEMMA OrderInit == SpendsAssumption /\ EvmInit => EvmOrder
<1> SUFFICES ASSUME SpendsAssumption, EvmInit PROVE OwnAreMined /\ NoncesInOrder
  BY EvmInvInit DEF EvmOrder
<1>1. OwnAreMined
  BY DEF EvmInit, OwnAreMined
<1>2. NoncesInOrder
  BY DEF EvmInit, NoncesInOrder, NoGap, NonceIsNext
<1>3. QED BY <1>1, <1>2

(* A step that leaves the pool alone, and the nonce that comes next. *)
LEMMA KeepsOrder ==
  ASSUME NoncesInOrder, UNCHANGED chain, NonceIsNext => NonceIsNext'
  PROVE  NoncesInOrder'
BY DEF NoncesInOrder, NothingDropped, NoGap, Pending, chain

LEMMA OwnAreMinedStep ==
  ASSUME SpendsAssumption, EvmOrder, [EvmNext]_evmVars
  PROVE  OwnAreMined'
<1> USE DEF chain, exec
<1>1. ASSUME NEW s \in Spends, BeginIntent(s) PROVE OwnAreMined'
  <2>1. /\ running = {} /\ outcome[s] = "none" /\ running' = {s} /\ UNCHANGED fate
    BY <1>1 DEF BeginIntent
  <2>2. \A t \in Txs : t[1] = s => fate[t] = "unsent"
    BY <2>1 DEF EvmOrder, EvmInv, SentIsBegun, Begun
  <2>3. QED BY <2>1, <2>2 DEF OwnAreMined
<1>2. ASSUME NEW s \in Spends, Check(s) PROVE OwnAreMined'
  BY <1>2 DEF Check, EvmOrder, OwnAreMined
<1>3. ASSUME NEW s \in Spends, SendTx(s) PROVE OwnAreMined'
  <2>1. /\ s \in running /\ evmPc = "send" /\ Accepted(Tx(s)) /\ evmPc' = "wait"
        /\ UNCHANGED <<running, leg>>
    BY <1>3 DEF SendTx
  <2>2. running = {s} /\ Tx(s)' = Tx(s)
    BY <2>1, SentIsNew DEF Tx, IsMain
  <2>3. \A t \in Txs : t[1] = s /\ t # Tx(s) =>
          fate'[t] = fate[t] /\ fate[t] \in {"unsent", "mined"}
    <3>1. \A t \in Txs : t[1] = s => fate[t] \in {"unsent", "mined"}
      BY <2>1 DEF EvmOrder, OwnAreMined
    <3>2. \A t \in Txs : t[1] = s => t \notin Pending(nonce)
      BY <3>1 DEF Pending
    <3>3. QED BY <2>1, <3>1, <3>2 DEF Accepted
  <2>4. QED BY <2>1, <2>2, <2>3 DEF OwnAreMined
<1>4. ASSUME NEW s \in Spends,
             Refuse(s) \/ NodeFails(s) \/ Reverted(s) \/ EvmTimeout(s) \/ Recheck(s)
      PROVE  OwnAreMined'
  BY <1>4 DEF Refuse, NodeFails, Reverted, EvmTimeout, Recheck, End, OwnAreMined
<1>5. ASSUME NEW s \in Spends, Receipt(s) PROVE OwnAreMined'
  <2>1. /\ s \in running /\ fate[Tx(s)] = "mined" /\ UNCHANGED fate
        /\ running' \subseteq running
    BY <1>5 DEF Receipt, End
  <2>2. running = {s}
    BY <2>1 DEF EvmOrder, EvmInv, EvmTypes
  <2>3. \A t \in Txs : t[1] = s => fate[t] \in {"unsent", "mined"}
    BY <2>1, <2>2 DEF EvmOrder, OwnAreMined
  <2>4. QED BY <2>1, <2>2, <2>3 DEF OwnAreMined
<1>6. ASSUME NEW t \in Txs, Mine(t) \/ DropTx(t) PROVE OwnAreMined'
  <2>1. /\ UNCHANGED <<running, evmPc, leg>> /\ fate[t] = "pending"
        /\ \A u \in Txs : u # t => fate'[u] = fate[u]
    BY <1>6 DEF Mine, DropTx, Pending, EvmOrder, EvmInv, EvmTypes
  <2>2. \A r : Tx(r)' = Tx(r)
    BY <2>1 DEF Tx, IsMain
  <2>3. QED BY <2>1, <2>2 DEF EvmOrder, OwnAreMined
<1>7. CASE Finished \/ UNCHANGED evmVars
  BY <1>7 DEF Finished, evmVars, EvmOrder, OwnAreMined, Tx, IsMain
<1>8. QED BY <1>1, <1>2, <1>3, <1>4, <1>5, <1>6, <1>7 DEF EvmNext

LEMMA NoncesInOrderStep ==
  ASSUME SpendsAssumption, EvmOrder, [EvmNext]_evmVars
  PROVE  NoncesInOrder'
<1> USE DEF exec
<1>0. NoncesInOrder /\ nonce \in Nat /\ mined \in Nat /\ txNonce \in [Txs -> Nat]
  BY DEF EvmOrder, EvmInv, EvmTypes
<1>1. ASSUME NEW s \in Spends, BeginIntent(s) PROVE NoncesInOrder'
  <2>1. evmPc' = "check" /\ nonce' = PendingNonce /\ UNCHANGED chain
    BY <1>1 DEF BeginIntent
  <2> SUFFICES ASSUME NothingDropped PROVE NonceIsNext'
    BY <1>0, <2>1 DEF NoncesInOrder, NothingDropped, NoGap, Pending, chain
  <2>2. NoGap
    BY <1>0 DEF NoncesInOrder
  <2>3. /\ PendingNonce \in Nat /\ mined <= PendingNonce
        /\ Pending(PendingNonce) = {}
        /\ \A k \in mined .. PendingNonce - 1 : Pending(k) # {}
    BY <1>0, PendingNonceIsFirst
  <2>4. \A t \in Txs : fate[t] = "pending" => txNonce[t] < PendingNonce
    <3> SUFFICES ASSUME NEW t \in Txs, fate[t] = "pending", txNonce[t] >= PendingNonce
                 PROVE  FALSE
      BY <1>0, <2>3
    <3>1. PendingNonce \in mined .. txNonce[t]
      BY <1>0, <2>3
    <3>2. QED BY <2>2, <2>3, <3>1 DEF NoGap
  <2>5. \A k \in mined' .. nonce' - 1 : Pending(k)' # {}
    BY <2>1, <2>3 DEF Pending, chain
  <2>6. \A t \in Txs : fate'[t] = "pending" => txNonce'[t] < nonce'
    BY <2>1, <2>4 DEF chain
  <2>7. QED BY <2>1, <2>5, <2>6 DEF NonceIsNext
<1>2. ASSUME NEW s \in Spends, Check(s) PROVE NoncesInOrder'
  <2>1. /\ evmPc \in {"check", "send"} /\ evmPc' \in {"check", "send"}
        /\ UNCHANGED nonce /\ UNCHANGED chain
    BY <1>2 DEF Check
  <2>2. NonceIsNext => NonceIsNext'
    BY <2>1 DEF NonceIsNext, Pending, chain
  <2>3. QED BY <1>0, <2>1, <2>2, KeepsOrder
<1>3. ASSUME NEW s \in Spends, SendTx(s) PROVE NoncesInOrder'
  <2>1. /\ s \in running /\ evmPc = "send" /\ Accepted(Tx(s))
        /\ evmPc' = "wait" /\ UNCHANGED nonce /\ mined' = mined
    BY <1>3 DEF SendTx, Accepted
  <2> SUFFICES ASSUME NothingDropped' PROVE /\ \A t \in Txs : fate'[t] # "replaced"
                                            /\ NoGap'
                                            /\ NonceIsNext'
    BY DEF NoncesInOrder
  <2>2. /\ \A t \in Txs : fate'[t] # "replaced"
        /\ NoGap'
        /\ \A t \in Txs : fate'[t] = "pending" => txNonce'[t] <= nonce
        /\ \A k \in mined .. nonce : Pending(k)' # {}
    BY <2>1, AcceptedInOrder
  <2>3. NonceIsNext'
    BY <2>1, <2>2 DEF NonceIsNext
  <2>4. QED BY <2>2, <2>3
<1>4. ASSUME NEW s \in Spends, NodeFails(s) PROVE NoncesInOrder'
  <2>1. s \in running /\ evmPc' = "idle"
    BY <1>4 DEF NodeFails, End
  <2>2. NonceIsNext'
    BY <2>1 DEF NonceIsNext
  <2>3. CASE UNCHANGED chain
    BY <1>0, <2>2, <2>3, KeepsOrder
  <2>4. CASE evmPc = "send" /\ Accepted(Tx(s))
    <3> SUFFICES ASSUME NothingDropped' PROVE (\A t \in Txs : fate'[t] # "replaced") /\ NoGap'
      BY <2>2 DEF NoncesInOrder
    <3>1. QED BY <2>1, <2>4, AcceptedInOrder
  <2>5. QED BY <1>4, <2>3, <2>4 DEF NodeFails
<1>5. ASSUME NEW s \in Spends, Refuse(s) \/ Reverted(s) \/ EvmTimeout(s) \/ Recheck(s)
      PROVE  NoncesInOrder'
  <2>1. evmPc' = "idle" /\ UNCHANGED chain
    BY <1>5 DEF Refuse, Reverted, EvmTimeout, Recheck, End
  <2>2. NonceIsNext'
    BY <2>1 DEF NonceIsNext
  <2>3. QED BY <1>0, <2>1, <2>2, KeepsOrder
<1>6. ASSUME NEW s \in Spends, Receipt(s) PROVE NoncesInOrder'
  <2>1. /\ evmPc = "wait" /\ UNCHANGED chain
        /\ evmPc' \in {"recheck", "idle"} \/ (evmPc' = "check" /\ nonce' = nonce + 1)
    BY <1>6 DEF Receipt, End
  <2>2. NonceIsNext => NonceIsNext'
    <3>1. CASE evmPc' \in {"recheck", "idle"}
      BY <3>1 DEF NonceIsNext
    <3>2. CASE evmPc' = "check" /\ nonce' = nonce + 1
      <4> SUFFICES ASSUME NonceIsNext PROVE NonceIsNext'
        OBVIOUS
      <4>1. /\ \A t \in Txs : fate[t] = "pending" => txNonce[t] <= nonce
            /\ \A k \in mined .. nonce : Pending(k) # {}
        BY <2>1 DEF NonceIsNext
      <4>2. \A t \in Txs : fate'[t] = "pending" => txNonce'[t] < nonce'
        BY <1>0, <2>1, <3>2, <4>1 DEF chain
      <4>3. nonce' - 1 = nonce
        BY <1>0, <3>2
      <4>4. \A k \in mined' .. nonce' - 1 : Pending(k)' # {}
        BY <2>1, <4>1, <4>3 DEF chain, Pending
      <4>5. QED BY <3>2, <4>2, <4>4 DEF NonceIsNext
    <3>3. QED BY <2>1, <3>1, <3>2
  <2>3. QED BY <1>0, <2>1, <2>2, KeepsOrder
<1>7. ASSUME NEW t \in Txs, DropTx(t) PROVE NoncesInOrder'
  <2>1. fate'[t] = "dropped"
    BY <1>7 DEF DropTx, EvmOrder, EvmInv, EvmTypes
  <2>2. QED BY <2>1 DEF NoncesInOrder, NothingDropped
<1>8. CASE Finished \/ UNCHANGED evmVars
  <2>1. UNCHANGED chain /\ UNCHANGED <<evmPc, nonce>>
    BY <1>8 DEF Finished, evmVars, chain
  <2>2. NonceIsNext => NonceIsNext'
    BY <2>1 DEF NonceIsNext, Pending, chain
  <2>3. QED BY <1>0, <2>1, <2>2, KeepsOrder
<1>9. QED
  BY <1>1, <1>2, <1>3, <1>4, <1>5, <1>6, <1>7, <1>8, MinedInOrder DEF EvmNext

(* _execute_spend takes its first nonce from Rpc.nonce (the pending count) *)
(* and counts on by itself: as long as the node forgets nothing that it    *)
(* accepted, a new transaction never takes the place of one that is still  *)
(* pending, whatever timed out or failed before.                           *)
THEOREM NothingReplacedAlways == ASSUME SpendsAssumption PROVE EvmSpec => []NothingReplaced
<1>1. EvmOrder /\ [EvmNext]_evmVars => EvmOrder'
  BY EvmInvStep, OwnAreMinedStep, NoncesInOrderStep DEF EvmOrder
<1>2. EvmInit => EvmOrder
  BY OrderInit
<1>3. EvmOrder => NothingReplaced
  BY DEF EvmOrder, NoncesInOrder, NothingDropped, NothingReplaced
<1>4. QED BY <1>1, <1>2, <1>3, PTL DEF EvmSpec

-----------------------------------------------------------------------------
(* SolanaExecutor                                                          *)

Transactions ==
  [net : Chains, to : {p.to : p \in Transfers}, lamports : {p.lamports : p \in Transfers},
   hash : Nat]
Runs == [p : Transfers, row : {"executing", "approved", "unknown", "failed"},
         tx : Transactions \cup {NoTx}]
Statuses == {"pending", "ok", "err", "confirmed", "failed", "dropped"}

SolanaShapes ==
  /\ solanaPc \in {"idle", "guard", "sign", "send", "wait"}
  /\ node \in Chains /\ tip \in Nat
  /\ built \in Transactions \cup {NoTx}
  /\ runs \in Seq(Runs)
  /\ cluster \in [SolanaSent -> Statuses]
  /\ stale \in BOOLEAN

(* The transfer in execution is the last, its row says so, and it is not   *)
(* counted.                                                                *)
LastIsRunning ==
  /\ solanaPc # "idle" => /\ Now \in DOMAIN runs /\ runs[Now].row = "executing"
                          /\ Now \notin solanaCounted \cup blind
  /\ solanaCounted \cup blind \subseteq DOMAIN runs
  /\ solanaPc = "wait" => built \in SolanaSent

HasLanded(i) == runs[i].row \in {"approved", "unknown"}

RowsAreTrue ==
  \A i \in DOMAIN runs :
    /\ HasLanded(i) => runs[i].tx \in SolanaSent
    /\ runs[i].row = "approved" => cluster[runs[i].tx] = "confirmed"

(* Over fresh blockhashes every transaction is a new one.                  *)
EachIsNew ==
  /\ solanaPc = "send" => built \notin SolanaSent
  /\ solanaPc = "wait" => \A i \in DOMAIN runs : HasLanded(i) => runs[i].tx # built
  /\ \A i, j \in DOMAIN runs :
       i # j /\ HasLanded(i) /\ HasLanded(j) => runs[i].tx # runs[j].tx

(* A transaction that was sent is waited for, is counted or lost, or has   *)
(* failed for good.                                                        *)
SentIsAccounted ==
  \A t \in SolanaSent :
    \/ cluster[t] = "failed"
    \/ solanaPc = "wait" /\ built = t
    \/ \E i \in solanaCounted \cup blind : runs[i].tx = t

SolanaInv ==
  SolanaShapes /\ LastIsRunning /\ RowsAreTrue /\ (stale \/ EachIsNew) /\ SentIsAccounted

LEMMA SolanaInitInv == SolanaAssumption /\ SolanaInit => SolanaInv
<1> SUFFICES ASSUME SolanaInit PROVE SolanaInv
  OBVIOUS
<1>1. SolanaSent = {} /\ cluster \in [SolanaSent -> Statuses]
  BY DEF SolanaInit, SolanaSent
<1>2. SolanaShapes
  <2>1. <<>> \in Seq(Runs)
    OBVIOUS
  <2>2. stale \in BOOLEAN
    BY Zenon DEF SolanaInit
  <2>3. QED BY <1>1, <2>1, <2>2 DEF SolanaInit, SolanaShapes
<1>3. QED
  BY <1>1, <1>2 DEF SolanaInit, SolanaInv, LastIsRunning, RowsAreTrue, EachIsNew, SentIsAccounted

(* A step that leaves the executions as they are, with what they sent.     *)
LEMMA QuietSolana ==
  ASSUME SolanaInv, SolanaShapes', UNCHANGED <<runs, solanaCounted, blind>>,
         SolanaSent' = SolanaSent,
         \A t \in SolanaSent : cluster[t] \in {"confirmed", "failed"} => cluster'[t] = cluster[t],
         stale => stale',
         \/ UNCHANGED <<solanaPc, built>>
         \/ solanaPc = "guard" /\ solanaPc' = "sign"
         \/ /\ solanaPc = "sign" /\ solanaPc' = "send"
            /\ stale' \/ built' \notin SolanaSent
  PROVE  SolanaInv'
<1>1. LastIsRunning'
  BY DEF SolanaInv, LastIsRunning, Now
<1>2. RowsAreTrue'
  BY DEF SolanaInv, RowsAreTrue, HasLanded
<1>3. (stale \/ EachIsNew)'
  BY DEF SolanaInv, SolanaShapes, EachIsNew, HasLanded
<1>4. SentIsAccounted'
  BY DEF SolanaInv, SentIsAccounted
<1>5. QED BY <1>1, <1>2, <1>3, <1>4 DEF SolanaInv

(* What is sent is the transaction in hand, or nothing new.                *)
LEMMA SentByTaking ==
  ASSUME SolanaInv, Taken \/ UNCHANGED cluster
  PROVE  /\ SolanaSent \subseteq SolanaSent' /\ SolanaSent' \subseteq SolanaSent \cup {built}
         /\ \A t \in SolanaSent : cluster'[t] = cluster[t]
         /\ cluster' \in [SolanaSent' -> Statuses]
         /\ Taken => built \in SolanaSent'
BY DEF Taken, SolanaInv, SolanaShapes, SolanaSent, Statuses

(* The execution ends.                                                     *)
LEMMA EndStep ==
  ASSUME SolanaInv, NEW row \in {"approved", "unknown", "failed"}, SolanaEnded(row),
         solanaPc # "idle", stale' = stale, tip' \in Nat, node' \in Chains,
         SolanaSent \subseteq SolanaSent', SolanaSent' \subseteq SolanaSent \cup {built},
         \A t \in SolanaSent : cluster'[t] = cluster[t],
         cluster' \in [SolanaSent' -> Statuses],
         row # "failed" => solanaPc = "wait" /\ blind' = blind,
         row = "approved" => cluster[built] = "confirmed",
         blind' \in {blind, blind \cup {Now}},
         \/ row # "failed" \/ Now \in blind'
         \/ solanaPc # "wait" /\ SolanaSent' = SolanaSent
         \/ solanaPc = "wait" /\ cluster[built] = "failed"
  PROVE  SolanaInv'
<1> DEFINE old == runs[Now]
           new == [p |-> old.p, row |-> row, tx |-> built]
<1>1. /\ Now \in DOMAIN runs /\ old \in Runs /\ old.row = "executing"
      /\ Now \notin solanaCounted \cup blind
      /\ Now \in Nat
  BY DEF SolanaInv, LastIsRunning, SolanaShapes, Now
<1>2. new \in Runs
  BY <1>1 DEF Runs, SolanaInv, SolanaShapes
<1>3. runs' = [runs EXCEPT ![Now] = new]
  <2>1. [[old EXCEPT !.row = row] EXCEPT !.tx = built] = new
    <3>1. PICK p \in Transfers, r \in {"executing", "approved", "unknown", "failed"},
                t \in Transactions \cup {NoTx} : old = [p |-> p, row |-> r, tx |-> t]
      BY <1>1 DEF Runs
    <3> HIDE DEF old
    <3>2. [old EXCEPT !.row = row] = [p |-> p, row |-> row, tx |-> t]
      BY <3>1
    <3>3. [[p |-> p, row |-> row, tx |-> t] EXCEPT !.tx = built] = [p |-> p, row |-> row, tx |-> built]
      OBVIOUS
    <3>4. old.p = p
      BY <3>1
    <3>5. QED BY <3>2, <3>3, <3>4
  <2>2. runs' = [runs EXCEPT ![Now] = [[old EXCEPT !.row = row] EXCEPT !.tx = built]]
    BY <1>1 DEF SolanaEnded, SolanaInv, SolanaShapes
  <2>3. QED BY <2>1, <2>2
<1>4. new.row = row /\ new.tx = built
  OBVIOUS
<1> HIDE DEF new, old
<1>5. /\ runs' \in Seq(Runs) /\ Len(runs') = Len(runs)
      /\ DOMAIN runs' = DOMAIN runs
      /\ runs'[Now] = new
      /\ \A i \in DOMAIN runs : i # Now => runs'[i] = runs[i]
  BY <1>1, <1>2, <1>3 DEF SolanaInv, SolanaShapes
<1>6. solanaPc' = "idle" /\ built' = NoTx
  BY DEF SolanaEnded
<1>7. /\ solanaCounted \cup blind \subseteq solanaCounted' \cup blind'
      /\ solanaCounted' \cup blind' \subseteq solanaCounted \cup blind \cup {Now}
      /\ row # "failed" \/ Now \in blind' => Now \in solanaCounted' \cup blind'
  BY DEF SolanaEnded
<1>8. SolanaShapes'
  BY <1>5, <1>6 DEF SolanaInv, SolanaShapes
<1>9. LastIsRunning'
  BY <1>1, <1>5, <1>6, <1>7 DEF SolanaInv, LastIsRunning
<1>10. row # "failed" => built \in SolanaSent
  BY DEF SolanaInv, LastIsRunning
<1>11. RowsAreTrue'
  BY <1>4, <1>5, <1>10 DEF SolanaInv, RowsAreTrue, HasLanded
<1>12. ASSUME EachIsNew PROVE EachIsNew'
  <2>1. ASSUME NEW i \in DOMAIN runs, i # Now, HasLanded(i), row # "failed"
        PROVE  runs[i].tx # built
    BY <1>12, <2>1 DEF EachIsNew
  <2>2. \A i \in DOMAIN runs : i # Now => (HasLanded(i)' <=> HasLanded(i))
    BY <1>5 DEF HasLanded
  <2>3. \A i \in DOMAIN runs : i = Now /\ HasLanded(i)' => row # "failed"
    BY <1>4, <1>5 DEF HasLanded
  <2>4. ASSUME NEW i \in DOMAIN runs, NEW j \in DOMAIN runs, i # j, HasLanded(i)', HasLanded(j)'
        PROVE  runs'[i].tx # runs'[j].tx
    <3>1. CASE i # Now /\ j # Now
      BY <1>5, <1>12, <2>2, <2>4, <3>1 DEF EachIsNew
    <3>2. CASE i = Now \/ j = Now
      BY <1>4, <1>5, <2>1, <2>2, <2>3, <2>4, <3>2
    <3>3. QED BY <3>1, <3>2
  <2>5. QED BY <1>5, <1>6, <2>4 DEF EachIsNew
<1>13. SentIsAccounted'
  <2> SUFFICES ASSUME NEW t \in SolanaSent', cluster'[t] # "failed"
               PROVE  \E i \in solanaCounted' \cup blind' : runs'[i].tx = t
    BY DEF SentIsAccounted
  <2>1. CASE t \in SolanaSent /\ \E i \in solanaCounted \cup blind : runs[i].tx = t
    <3>1. PICK i \in solanaCounted \cup blind : runs[i].tx = t
      BY <2>1
    <3>2. i # Now /\ i \in DOMAIN runs
      BY <1>1 DEF SolanaInv, LastIsRunning
    <3>3. QED BY <1>5, <1>7, <3>1, <3>2
  <2>2. CASE t \notin SolanaSent \/ (solanaPc = "wait" /\ built = t)
    <3>1. t = built /\ (row # "failed" \/ Now \in blind')
      BY <2>2 DEF SolanaInv, LastIsRunning
    <3>2. QED BY <1>1, <1>4, <1>5, <1>7, <3>1
  <2>3. QED BY <2>1, <2>2 DEF SolanaInv, SentIsAccounted
<1>14. QED BY <1>8, <1>9, <1>11, <1>12, <1>13 DEF SolanaInv

LEMMA BeginStep ==
  ASSUME SolanaInv, NEW p \in Transfers, BeginTransfer(p)
  PROVE  SolanaInv'
<1> DEFINE new == [p |-> p, row |-> "executing", tx |-> NoTx]
<1>1. /\ solanaPc = "idle" /\ solanaPc' = "guard" /\ runs' = Append(runs, new)
      /\ UNCHANGED <<node, built, solanaCounted, cluster, tip, blind, stale>>
  BY DEF BeginTransfer
<1>2. new \in Runs /\ new.row = "executing"
  BY DEF Runs
<1> HIDE DEF new
<1>3. /\ runs' \in Seq(Runs) /\ Now' = Len(runs) + 1 /\ Len(runs) \in Nat
      /\ DOMAIN runs' = DOMAIN runs \cup {Len(runs) + 1}
      /\ runs'[Len(runs) + 1] = new
      /\ Len(runs) + 1 \notin DOMAIN runs
      /\ \A i \in DOMAIN runs : runs'[i] = runs[i]
  BY <1>1, <1>2 DEF SolanaInv, SolanaShapes, Now
<1>4. SolanaSent' = SolanaSent
  BY <1>1 DEF SolanaSent
<1>5. SolanaShapes' /\ LastIsRunning'
  BY <1>1, <1>2, <1>3, <1>4 DEF SolanaInv, SolanaShapes, LastIsRunning
<1>6. \A i \in DOMAIN runs' : HasLanded(i)' => i \in DOMAIN runs /\ HasLanded(i)
  BY <1>2, <1>3 DEF HasLanded
<1>7. RowsAreTrue' /\ (EachIsNew => EachIsNew')
  BY <1>1, <1>2, <1>3, <1>4, <1>6 DEF SolanaInv, RowsAreTrue, EachIsNew
<1>8. SentIsAccounted'
  BY <1>1, <1>3, <1>4 DEF SolanaInv, SentIsAccounted, LastIsRunning
<1>9. QED BY <1>1, <1>5, <1>7, <1>8 DEF SolanaInv

LEMMA SendStep == SolanaInv /\ SendTransfer => SolanaInv'
<1> SUFFICES ASSUME SolanaInv, SendTransfer PROVE SolanaInv'
  OBVIOUS
<1>1. solanaPc = "send" /\ UNCHANGED <<node, tip, stale>>
  BY DEF SendTransfer
<1>2. CASE Taken /\ solanaPc' = "wait" /\ UNCHANGED <<built, runs, solanaCounted, blind>>
  <2>1. /\ SolanaSent \subseteq SolanaSent' /\ SolanaSent' \subseteq SolanaSent \cup {built}
        /\ \A t \in SolanaSent : cluster'[t] = cluster[t]
        /\ cluster' \in [SolanaSent' -> Statuses]
        /\ built \in SolanaSent'
    BY <1>2, SentByTaking
  <2>2. SolanaShapes' /\ LastIsRunning'
    BY <1>1, <1>2, <2>1 DEF SolanaInv, SolanaShapes, LastIsRunning, Now
  <2>3. RowsAreTrue'
    BY <1>2, <2>1 DEF SolanaInv, RowsAreTrue, HasLanded
  <2>4. EachIsNew => EachIsNew'
    BY <1>1, <1>2, <2>1 DEF SolanaInv, RowsAreTrue, EachIsNew, HasLanded
  <2>5. SentIsAccounted'
    BY <1>1, <1>2, <2>1 DEF SolanaInv, SentIsAccounted
  <2>6. QED BY <1>1, <2>2, <2>3, <2>4, <2>5 DEF SolanaInv
<1>3. CASE SolanaFail(TRUE) /\ UNCHANGED cluster
  <2>1. SolanaEnded("failed") /\ blind' = blind
    BY <1>3 DEF SolanaFail
  <2>2. SolanaSent' = SolanaSent /\ cluster \in [SolanaSent -> Statuses]
    BY <1>3 DEF SolanaSent, SolanaInv, SolanaShapes
  <2>3. node \in Chains /\ tip \in Nat
    BY DEF SolanaInv, SolanaShapes
  <2>4. QED BY <1>1, <1>3, <2>1, <2>2, <2>3, EndStep
<1>4. CASE (Taken \/ UNCHANGED cluster) /\ SolanaFail(FALSE)
  <2>1. SolanaEnded("failed") /\ blind' = blind \cup {Now}
    BY <1>4 DEF SolanaFail
  <2>2. /\ SolanaSent \subseteq SolanaSent' /\ SolanaSent' \subseteq SolanaSent \cup {built}
        /\ \A t \in SolanaSent : cluster'[t] = cluster[t]
        /\ cluster' \in [SolanaSent' -> Statuses]
    BY <1>4, SentByTaking
  <2>3. node \in Chains /\ tip \in Nat
    BY DEF SolanaInv, SolanaShapes
  <2>4. QED BY <1>1, <2>1, <2>2, <2>3, EndStep
<1>5. QED BY <1>2, <1>3, <1>4 DEF SendTransfer

LEMMA QuietEnd ==
  ASSUME SolanaInv, NEW row \in {"approved", "unknown", "failed"}, SolanaEnded(row),
         solanaPc # "idle", UNCHANGED <<node, cluster, tip, stale>>,
         row # "failed" => solanaPc = "wait" /\ blind' = blind,
         row = "approved" => cluster[built] = "confirmed",
         blind' \in {blind, blind \cup {Now}},
         \/ row # "failed" \/ Now \in blind' \/ solanaPc # "wait"
         \/ solanaPc = "wait" /\ cluster[built] = "failed"
  PROVE  SolanaInv'
<1>1. /\ SolanaSent' = SolanaSent /\ cluster \in [SolanaSent -> Statuses]
      /\ node \in Chains /\ tip \in Nat
  BY DEF SolanaSent, SolanaInv, SolanaShapes
<1>2. QED BY <1>1, EndStep

LEMMA SignTransferStep ==
  ASSUME SolanaAssumption, SolanaInv, SignTransfer
  PROVE  SolanaInv'
<1>1. solanaPc = "sign" /\ UNCHANGED <<node, cluster, tip>>
  BY DEF SignTransfer
<1>2. SolanaSent' = SolanaSent /\ Now \in DOMAIN runs
  BY <1>1 DEF SolanaSent, SolanaInv, LastIsRunning
<1>3. CASE SolanaFail(TRUE) /\ UNCHANGED stale
  BY <1>1, <1>3, QuietEnd DEF SolanaFail
<1>4. ASSUME NEW h \in 0 .. tip, built' = Transaction(Transfer, h),
             stale' = (stale \/ \E t \in SolanaSent : t.hash = h),
             solanaPc' = "send", UNCHANGED <<runs, solanaCounted, blind>>
      PROVE  SolanaInv'
  <2>1. Transfer \in Transfers /\ node \in Chains
    <3>1. runs[Now] \in Runs
      BY <1>2 DEF SolanaInv, SolanaShapes
    <3>2. QED BY <3>1 DEF SolanaInv, SolanaShapes, Runs, Transfer
  <2>2. built' \in Transactions /\ built'.hash = h
    BY <1>4, <2>1 DEF Transaction, Transactions, SolanaInv, SolanaShapes
  <2>3. stale' \in BOOLEAN /\ (stale => stale')
    BY <1>4 DEF SolanaInv, SolanaShapes
  <2>4. stale' \/ built' \notin SolanaSent
    BY <1>4, <2>2
  <2>5. SolanaShapes'
    BY <1>1, <1>2, <1>4, <2>2, <2>3 DEF SolanaInv, SolanaShapes
  <2>6. QED BY <1>1, <1>2, <1>4, <2>3, <2>4, <2>5, QuietSolana
<1>5. QED BY <1>3, <1>4 DEF SignTransfer

LEMMA GuardStep == SolanaInv /\ Guard => SolanaInv'
<1> SUFFICES ASSUME SolanaInv, Guard PROVE SolanaInv'
  OBVIOUS
<1>1. solanaPc = "guard" /\ UNCHANGED <<node, cluster, tip, stale>>
  BY DEF Guard
<1>2. SolanaSent' = SolanaSent
  BY <1>1 DEF SolanaSent
<1>3. CASE SolanaFail(TRUE)
  BY <1>1, <1>3, QuietEnd DEF SolanaFail
<1>4. CASE solanaPc' = "sign" /\ UNCHANGED <<built, runs, solanaCounted, blind>>
  <2>1. SolanaShapes'
    BY <1>1, <1>2, <1>4 DEF SolanaInv, SolanaShapes
  <2>2. QED BY <1>1, <1>2, <1>4, <2>1, QuietSolana
<1>5. QED BY <1>3, <1>4 DEF Guard

(* confirmed and failed are for good. *)
LEMMA ClusterStep ==
  ASSUME SolanaInv, NEW t \in SolanaSent, Process(t) \/ Confirm(t) \/ Fork(t) \/ Forget(t)
  PROVE  SolanaInv'
<1>1. PICK s \in Statuses : Becomes(t, s) /\ cluster[t] \notin {"confirmed", "failed"}
  BY DEF Process, Confirm, Fork, Forget, Statuses
<1>2. /\ cluster' = [cluster EXCEPT ![t] = s]
      /\ UNCHANGED <<node, solanaPc, built, runs, solanaCounted, blind, tip, stale>>
  BY <1>1 DEF Becomes, solanaExec
<1>3. SolanaSent' = SolanaSent /\ cluster' \in [SolanaSent -> Statuses]
  BY <1>2 DEF SolanaSent, SolanaInv, SolanaShapes
<1>4. \A u \in SolanaSent :
        cluster[u] \in {"confirmed", "failed"} => cluster'[u] = cluster[u]
  BY <1>1, <1>2 DEF SolanaInv, SolanaShapes
<1>5. SolanaShapes'
  BY <1>2, <1>3 DEF SolanaInv, SolanaShapes
<1>6. QED BY <1>2, <1>3, <1>4, <1>5, QuietSolana

LEMMA SolanaStep == SolanaAssumption /\ SolanaInv /\ [SolanaNext]_solanaVars => SolanaInv'
<1> SUFFICES ASSUME SolanaAssumption, SolanaInv, [SolanaNext]_solanaVars PROVE SolanaInv'
  OBVIOUS
<1>1. CASE Confirmed
  BY <1>1, QuietEnd DEF Confirmed
<1>2. CASE Erred
  BY <1>2, QuietEnd DEF Erred, SolanaFail, SolanaInv, SolanaShapes
<1>3. CASE PollFails
  BY <1>3, QuietEnd DEF PollFails, SolanaFail
<1>4. CASE SolanaTimeout
  BY <1>4, QuietEnd DEF SolanaTimeout
<1>5. CASE NewBlock \/ ConfigureSolana \/ UNCHANGED solanaVars
  <2>1. /\ UNCHANGED <<solanaPc, built, runs, solanaCounted, blind, cluster, stale>>
        /\ tip' \in Nat /\ node' \in Chains
    BY <1>5 DEF NewBlock, ConfigureSolana, solanaVars, solanaExec, SolanaInv, SolanaShapes
  <2>2. SolanaSent' = SolanaSent
    BY <2>1 DEF SolanaSent
  <2>3. SolanaShapes'
    BY <2>1, <2>2 DEF SolanaInv, SolanaShapes
  <2>4. QED BY <2>1, <2>2, <2>3, QuietSolana
<1>6. QED
  BY <1>1, <1>2, <1>3, <1>4, <1>5, BeginStep, GuardStep, SignTransferStep, SendStep, ClusterStep
  DEF SolanaNext

(* sign_transfer: over fresh blockhashes, two transfers on record as       *)
(* approved, or of unknown fate, are two transactions, and the approved    *)
(* one is confirmed.                                                       *)
THEOREM RowsNameTheirOwnAlways ==
  ASSUME SolanaAssumption
  PROVE  SolanaSpec => []RowsNameTheirOwn
<1>1. SolanaInv => RowsNameTheirOwn
  BY DEF SolanaInv, RowsAreTrue, EachIsNew, HasLanded, RowsNameTheirOwn
<1>2. QED BY <1>1, SolanaInitInv, SolanaStep, PTL DEF SolanaSpec

(* wait_signature: what the cluster carries out is counted, or still       *)
(* waited for, unless its execution failed without a final answer.         *)
THEOREM LandedIsCountedAlways ==
  ASSUME SolanaAssumption
  PROVE  SolanaSpec => []LandedIsCounted
<1>1. SolanaInv => LandedIsCounted
  BY DEF SolanaInv, SentIsAccounted, LandedIsCounted
<1>2. QED BY <1>1, SolanaInitInv, SolanaStep, PTL DEF SolanaSpec
=============================================================================

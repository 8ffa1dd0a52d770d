-------------------------- MODULE SpendDaemonProofs --------------------------
(***************************************************************************)
(* SpendDaemon for every policy, every set of requests and every bound:    *)
(* its type invariant, that one approval is one execution attempt, that    *)
(* the ledger tells the truth about the attempts, and that the daemon      *)
(* implements the abstract approval queue.                                 *)
(*                                                                         *)
(* OneApprovalOneAttempt is not inductive.  What makes it so is where the  *)
(* ids in circulation can be (IdsApart): an id that was executed, or is    *)
(* about to be, is below the next_qid of queue.json and in neither copy of *)
(* the queue, so no restart can hand it out or offer it again.             *)
(***************************************************************************)
EXTENDS SpendDaemon, TLAPS

(* A leg whose file write comes next is still in hand. *)
LegInHand == pc \in {"countOkFile", "countUnknownFile"} => job.legs # <<>>

Executed(qid) == \E i \in DOMAIN attempts : attempts[i].qid = qid
Offered(qid) == qid \in DOMAIN queue \/ qid \in DOMAIN queueFile.items

FileIdsBelowNext ==
  /\ queueFile.next >= 1
  /\ \A q \in DOMAIN queueFile.items : 1 <= q /\ q < queueFile.next

MemoryIdsBelowNext ==
  pc # "down" => /\ queueFile.next <= nextQid
                 /\ \A q \in DOMAIN queue : 1 <= q /\ q < nextQid

ExecutedIdsAreGone ==
  \A i \in DOMAIN attempts : attempts[i].qid # ByPolicy =>
    attempts[i].qid < queueFile.next /\ ~Offered(attempts[i].qid)

(* Between the pop and the save that makes it durable, the file may still  *)
(* offer the id; after the save nothing does.                              *)
IdInHandIsGone ==
  job.qid # ByPolicy =>
    /\ pc = "savePopped" =>
         /\ job.qid < nextQid
         /\ job.qid \notin DOMAIN queue
         /\ ~Executed(job.qid)
    /\ pc \in {"ledgerExecuting", "execute"} =>
         /\ job.qid < queueFile.next
         /\ ~Offered(job.qid)
         /\ ~Executed(job.qid)

IdsApart ==
  /\ FileIdsBelowNext
  /\ MemoryIdsBelowNext
  /\ ExecutedIdsAreGone
  /\ IdInHandIsGone

IInv == TypeOK /\ LegInHand /\ IdsApart /\ OneApprovalOneAttempt

-----------------------------------------------------------------------------
(* Types. *)

LEMMA NoJobType == NoJob \in Jobs
BY SpendAssumption DEF NoJob, Jobs, ByPolicy

LEMMA RequestLegsType ==
  ASSUME NEW p \in Params
  PROVE  Request[p].legs \in Seq(Legs)
BY SpendAssumption

LEMMA PutType ==
  ASSUME NEW items, IsQueue(items), NEW qid \in Nat, NEW p \in Params
  PROVE  IsQueue(Put(items, qid, p)) /\ DOMAIN Put(items, qid, p) = DOMAIN items \cup {qid}
BY DEF IsQueue, Put

LEMMA PopType ==
  ASSUME NEW items, IsQueue(items), NEW qid
  PROVE  IsQueue(Pop(items, qid)) /\ DOMAIN Pop(items, qid) = DOMAIN items \ {qid}
BY DEF IsQueue, Pop

LEMMA EmptyType == IsQueue(Empty) /\ DOMAIN Empty = {}
BY DEF IsQueue, Empty

LEMMA RowType ==
  ASSUME NEW p \in Params, NEW d \in Decisions, NEW qid \in Nat
  PROVE  Row(d, p) \in Rows /\ QueuedRow(p, qid) \in Rows
BY DEF Row, QueuedRow, Rows, Decisions, ByPolicy

(* A new attempt leaves the ones before it as they are. *)
LEMMA AttemptType ==
  ASSUME TypeOK,
         NEW fate \in {"unsent", "pending", "landed", "dropped"},
         NEW track \in {"open", "counted", "failed", "lost"},
         Attempt(fate, track)
  PROVE  /\ attempts' \in Seq(Attempts)
         /\ Len(attempts') = Len(attempts) + 1
         /\ \A i \in DOMAIN attempts : attempts'[i] = attempts[i]
         /\ attempts'[Len(attempts) + 1] =
              [params |-> job.params, qid |-> job.qid,
               sentAt |-> clock, fate |-> fate, track |-> track]
         /\ attempts'[Len(attempts) + 1].qid = job.qid
BY DEF TypeOK, Attempt, Attempts, Jobs

(* What an attempt was for, and when it was sent, stays.                   *)
SameAttempts ==
  /\ DOMAIN attempts' = DOMAIN attempts
  /\ \A k \in DOMAIN attempts : /\ attempts'[k].params = attempts[k].params
                                /\ attempts'[k].qid = attempts[k].qid
                                /\ attempts'[k].sentAt = attempts[k].sentAt
                                /\ attempts'[k].fate = "unsent"
                                     <=> attempts[k].fate = "unsent"

(* What becomes of an attempt later changes nothing else. *)
LEMMA TrackType ==
  ASSUME attempts \in Seq(Attempts), NEW i,
         NEW track \in {"open", "counted", "failed", "lost"},
         attempts' = [attempts EXCEPT ![i] = WithTrack(@, track)]
  PROVE  /\ attempts' \in Seq(Attempts)
         /\ DOMAIN attempts' = DOMAIN attempts
         /\ \A k \in DOMAIN attempts : attempts'[k].qid = attempts[k].qid
         /\ SameAttempts
         /\ \A k \in DOMAIN attempts : k # i => attempts'[k] = attempts[k]
         /\ i \in DOMAIN attempts => attempts'[i].track = track
<1>1. \A a \in Attempts :
        /\ WithTrack(a, track) \in Attempts
        /\ WithTrack(a, track).qid = a.qid
        /\ WithTrack(a, track).params = a.params
        /\ WithTrack(a, track).sentAt = a.sentAt
        /\ WithTrack(a, track).fate = a.fate
        /\ WithTrack(a, track).track = track
  BY DEF Attempts, WithTrack
<1>2. attempts \in [1 .. Len(attempts) -> Attempts] /\ Len(attempts) \in Nat
  OBVIOUS
<1>3. attempts' \in [1 .. Len(attempts) -> Attempts]
  BY <1>1, <1>2
<1>4. attempts' \in Seq(Attempts) /\ DOMAIN attempts' = DOMAIN attempts
  BY <1>2, <1>3
<1>5. \A k \in DOMAIN attempts : /\ attempts[k] \in Attempts
                                 /\ k # i => attempts'[k] = attempts[k]
                                 /\ k = i => attempts'[k] = WithTrack(attempts[k], track)
  BY <1>2
<1>6. SameAttempts
  BY <1>1, <1>4, <1>5 DEF SameAttempts
<1>7. i \in DOMAIN attempts => attempts'[i].track = track
  BY <1>1, <1>5
<1>8. QED BY <1>4, <1>5, <1>6, <1>7 DEF SameAttempts

LEMMA FateType ==
  ASSUME attempts \in Seq(Attempts), NEW i \in DOMAIN attempts,
         NEW fate \in {"landed", "dropped"},
         Settle(i, fate)
  PROVE  /\ attempts' \in Seq(Attempts)
         /\ DOMAIN attempts' = DOMAIN attempts
         /\ \A k \in DOMAIN attempts : attempts'[k].qid = attempts[k].qid
         /\ SameAttempts
         /\ \A k \in DOMAIN attempts : attempts'[k].track = attempts[k].track
<1>1. \A a \in Attempts :
        /\ WithFate(a, fate) \in Attempts
        /\ WithFate(a, fate).qid = a.qid
        /\ WithFate(a, fate).params = a.params
        /\ WithFate(a, fate).sentAt = a.sentAt
        /\ WithFate(a, fate).track = a.track
        /\ WithFate(a, fate).fate = fate
  BY DEF Attempts, WithFate
<1>2. attempts \in [1 .. Len(attempts) -> Attempts] /\ Len(attempts) \in Nat
  OBVIOUS
<1>3. attempts' = [attempts EXCEPT ![i] = WithFate(@, fate)] /\ attempts[i].fate = "pending"
  BY DEF Settle
<1>4. attempts' \in [1 .. Len(attempts) -> Attempts]
  BY <1>1, <1>2, <1>3
<1>5. attempts' \in Seq(Attempts) /\ DOMAIN attempts' = DOMAIN attempts
  BY <1>2, <1>4
<1>6. \A k \in DOMAIN attempts : /\ attempts[k] \in Attempts
                                 /\ k # i => attempts'[k] = attempts[k]
                                 /\ k = i => attempts'[k] = WithFate(attempts[k], fate)
  BY <1>2, <1>3
<1>7. \A k \in DOMAIN attempts : /\ attempts'[k].params = attempts[k].params
                                 /\ attempts'[k].qid = attempts[k].qid
                                 /\ attempts'[k].sentAt = attempts[k].sentAt
                                 /\ attempts'[k].track = attempts[k].track
                                 /\ attempts'[k].fate = "unsent" <=> attempts[k].fate = "unsent"
  BY <1>1, <1>3, <1>6
<1>8. SameAttempts
  BY <1>5, <1>7 DEF SameAttempts
<1>9. QED BY <1>5, <1>7, <1>8

LEMMA EntryType ==
  ASSUME TypeOK, job.legs # <<>>
  PROVE  Entry \in Entries /\ Tail(job.legs) \in Seq(Legs)
<1>1. job.legs \in Seq(Legs)
  BY DEF TypeOK, Jobs
<1>2. Head(job.legs) \in Legs /\ Tail(job.legs) \in Seq(Legs) /\ Len(job.legs) \in Nat
  BY <1>1
<1>3. Len(attempts) \in Nat /\ clock \in Nat
  BY DEF TypeOK
<1>4. QED BY <1>2, <1>3 DEF Entry, Entries, Legs, Current

LEMMA TypeInit == Init => TypeOK /\ LegInHand
<1> SUFFICES ASSUME Init PROVE TypeOK /\ LegInHand
  OBVIOUS
<1>1. /\ pc = "idle" /\ job \in Jobs
      /\ IsQueue(queue) /\ nextQid \in Nat /\ velocity = {}
  BY NoJobType, EmptyType DEF Init
<1>2. /\ queueFile = [next |-> queueFile.next, items |-> queueFile.items]
      /\ queueFile.next \in Nat /\ IsQueue(queueFile.items)
  BY EmptyType DEF Init
<1>3. /\ velocityFile = {} /\ decided = {}
      /\ {clock, asked, crashes, writeErrors} \subseteq Nat
  BY DEF Init
<1>4. ledger \in Seq(Rows) /\ attempts \in Seq(Attempts)
  BY DEF Init
<1>5. torn \in BOOLEAN
  BY DEF Init
<1>6. QED BY <1>1, <1>2, <1>3, <1>4, <1>5 DEF TypeOK, LegInHand, Pcs

(* What a step has to preserve, variable by variable. *)
LEMMA TypeStep ==
  ASSUME TypeOK, LegInHand, [Next]_vars
  PROVE  TypeOK' /\ LegInHand'
<1> USE DEF memory, disk, bounds, history
<1>1. ASSUME NEW p \in Params, Ask(p) PROVE TypeOK' /\ LegInHand'
  <2>1. /\ pc' \in {"saveQueued", "ledgerDenied", "ledgerExecuting"}
        /\ job' \in Jobs
        /\ nextQid' \in Nat
        /\ asked' \in Nat
    BY <1>1, RequestLegsType DEF Ask, TakeOn, TypeOK, Jobs, ByPolicy
  <2>2. IsQueue(queue')
    <3>1. queue' = Put(queue, nextQid, p) \/ queue' = queue
      BY <1>1 DEF Ask
    <3>2. IsQueue(queue) /\ nextQid \in Nat
      BY DEF TypeOK
    <3>3. IsQueue(Put(queue, nextQid, p))
      BY <3>2, PutType
    <3>4. QED BY <3>1, <3>2, <3>3
  <2>3. UNCHANGED <<velocity, disk, clock, crashes, writeErrors, history>>
    BY <1>1 DEF Ask
  <2>4. QED BY <2>1, <2>2, <2>3 DEF TypeOK, LegInHand, Pcs, SavePcs, LedgerPcs
<1>2. ASSUME NEW qid \in DOMAIN queue, QueueApprove(qid) \/ QueueReject(qid)
      PROVE  TypeOK' /\ LegInHand'
  <2>1. qid \in Nat /\ queue[qid] \in Params
    BY DEF TypeOK, IsQueue
  <2>2. /\ pc' \in SavePcs
        /\ job' \in Jobs
        /\ decided' = decided \cup {qid}
    BY <1>2, <2>1, RequestLegsType
       DEF QueueApprove, QueueReject, Decide, TakeOn, SavePcs, Jobs
  <2>3. IsQueue(queue')
    <3>1. queue' = Pop(queue, qid)
      BY <1>2 DEF QueueApprove, QueueReject, Decide
    <3>2. IsQueue(Pop(queue, qid))
      BY PopType DEF TypeOK
    <3>3. QED BY <3>1, <3>2
  <2>4. UNCHANGED <<nextQid, velocity, disk, bounds, attempts, torn>>
    BY <1>2 DEF QueueApprove, QueueReject, Decide
  <2>5. QED BY <2>1, <2>2, <2>3, <2>4 DEF TypeOK, LegInHand, Pcs, SavePcs
<1>3. CASE SaveQueue
  BY <1>3 DEF SaveQueue, TypeOK, LegInHand, Pcs, SavePcs, LedgerPcs
<1>4. CASE AppendDecision
  <2>1. ledger' \in Seq(Rows)
    <3>1. PICK row : ledger' = Append(ledger, row) /\ row \in Rows
      BY <1>4, RowType DEF AppendDecision, TypeOK, Jobs, Decisions
    <3>2. ledger \in Seq(Rows)
      BY DEF TypeOK
    <3>3. QED BY <3>1, <3>2
  <2>2. QED BY <1>4, <2>1 DEF AppendDecision, TypeOK, LegInHand, Pcs
<1>5. CASE AppendExecuting
  <2>1. ledger' \in Seq(Rows)
    <3>1. PICK row : ledger' = Append(ledger, row) /\ row \in Rows
      BY <1>5, RowType DEF AppendExecuting, TypeOK, Jobs, Decisions
    <3>2. ledger \in Seq(Rows)
      BY DEF TypeOK
    <3>3. QED BY <3>1, <3>2
  <2>2. QED BY <1>5, <2>1 DEF AppendExecuting, TypeOK, LegInHand, Pcs
<1>6. CASE ExecuteRefused \/ ExecuteAborted \/ ExecuteNothing \/ Send
  <2>1. attempts' \in Seq(Attempts)
    BY <1>6, AttemptType DEF ExecuteRefused, ExecuteAborted, ExecuteNothing, Send
  <2>2. /\ pc' \in {"ledgerFailed", "idle", "countOk", "await"}
        /\ UNCHANGED <<job, memory, disk, bounds, decided, torn>>
    BY <1>6 DEF ExecuteRefused, ExecuteAborted, ExecuteNothing, Send
  <2>3. QED BY <2>1, <2>2 DEF TypeOK, LegInHand, Pcs, LedgerPcs
<1>7. CASE Confirmed \/ BroadcastUnknown
  BY <1>7 DEF Confirmed, BroadcastUnknown, TypeOK, LegInHand, Pcs
<1>8. CASE FailsAfterSend
  <2>1. attempts' \in Seq(Attempts)
    BY <1>8, TrackType DEF FailsAfterSend, TypeOK
  <2>2. QED BY <1>8, <2>1 DEF FailsAfterSend, TypeOK, LegInHand, Pcs, LedgerPcs
<1>9. CASE CountInMemory
  <2>1. velocity' \subseteq Entries
    BY <1>9, EntryType DEF CountInMemory, TypeOK
  <2>2. QED BY <1>9, <2>1 DEF CountInMemory, Countings, TypeOK, LegInHand, Pcs
<1>10. CASE CountOnDisk
  <2>1. job.legs # <<>>
    BY <1>10 DEF CountOnDisk, Countings, LegInHand
  <2>2. velocityFile' \subseteq Entries
    BY <1>10, <2>1, EntryType DEF CountOnDisk, TypeOK
  <2>3. job' \in Jobs
    BY <1>10, <2>1, EntryType DEF CountOnDisk, TypeOK, Jobs
  <2>4. QED BY <1>10, <2>2, <2>3 DEF CountOnDisk, Countings, TypeOK, LegInHand, Pcs
<1>11. CASE Counted
  <2>1. attempts' \in Seq(Attempts)
    BY <1>11, TrackType DEF Counted, TypeOK
  <2>2. QED BY <1>11, <2>1 DEF Counted, Countings, TypeOK, LegInHand, Pcs, LedgerPcs
<1>12. CASE AppendOutcome
  <2>1. ledger' \in Seq(Rows)
    <3>1. PICK row : ledger' = Append(ledger, row) /\ row \in Rows
      BY <1>12, RowType DEF AppendOutcome, TypeOK, Jobs, Decisions, Resolved
    <3>2. ledger \in Seq(Rows)
      BY DEF TypeOK
    <3>3. QED BY <3>1, <3>2
  <2>2. QED BY <1>12, <2>1 DEF AppendOutcome, TypeOK, LegInHand, Pcs
<1>13. CASE RewritePruned
  BY <1>13 DEF RewritePruned, TypeOK, LegInHand, Pcs
<1>14. ASSUME NEW i \in DOMAIN attempts, Settle(i, "landed") \/ Settle(i, "dropped")
       PROVE  TypeOK' /\ LegInHand'
  <2>1. attempts' \in Seq(Attempts)
    BY <1>14, FateType DEF Settle, TypeOK
  <2>2. QED BY <1>14, <2>1 DEF Settle, TypeOK, LegInHand
<1>15. CASE Tick
  BY <1>15 DEF Tick, TypeOK, LegInHand
<1>16. CASE WriteFails
  <2>1. attempts' \in Seq(Attempts)
    BY <1>16, TrackType DEF WriteFails, LoseTrack, TypeOK
  <2>2. QED BY <1>16, <2>1 DEF WriteFails, TypeOK, LegInHand, Pcs
<1>17. CASE Crash
  <2>1. attempts' \in Seq(Attempts)
    BY <1>17, TrackType DEF Crash, LoseTrack, TypeOK
  <2>2. QED BY <1>17, <2>1, NoJobType, EmptyType DEF Crash, TypeOK, LegInHand, Pcs
<1>18. CASE Restart
  BY <1>18 DEF Restart, Live, TypeOK, LegInHand, Pcs
<1>19. CASE UNCHANGED vars
  BY <1>19 DEF vars, TypeOK, LegInHand
<1>20. QED
  BY <1>1, <1>2, <1>3, <1>4, <1>5, <1>6, <1>7, <1>8, <1>9, <1>10, <1>11, <1>12, <1>13,
     <1>14, <1>15, <1>16, <1>17, <1>18, <1>19 DEF Next, Handler

-----------------------------------------------------------------------------
(* Where the queue ids are. *)

LEMMA IdsInit == Init => IdsApart /\ OneApprovalOneAttempt
BY DEF Init, IdsApart, FileIdsBelowNext, MemoryIdsBelowNext, ExecutedIdsAreGone,
       IdInHandIsGone, OneApprovalOneAttempt, Empty, NoJob, ByPolicy

(* A step that touches neither copy of the queue, the attempts' ids nor    *)
(* the id in hand, and takes nothing up for execution.                     *)
LEMMA QuietStep ==
  ASSUME IdsApart, OneApprovalOneAttempt,
         UNCHANGED <<queue, nextQid, queueFile>>,
         job'.qid = job.qid,
         DOMAIN attempts' = DOMAIN attempts,
         \A k \in DOMAIN attempts : attempts'[k].qid = attempts[k].qid,
         pc = "down" => pc' = "down",
         pc' \in {"savePopped", "ledgerExecuting", "execute"} =>
           pc' = pc \/ (pc = "ledgerExecuting" /\ pc' = "execute")
  PROVE  IdsApart' /\ OneApprovalOneAttempt'
<1>1. FileIdsBelowNext' /\ MemoryIdsBelowNext'
  BY DEF IdsApart, FileIdsBelowNext, MemoryIdsBelowNext
<1>2. \A q : Offered(q)' <=> Offered(q)
  BY DEF Offered
<1>3. \A q : Executed(q)' <=> Executed(q)
  BY DEF Executed
<1>4. ExecutedIdsAreGone'
  BY <1>2 DEF IdsApart, ExecutedIdsAreGone
<1>5. IdInHandIsGone'
  BY <1>2, <1>3 DEF IdsApart, IdInHandIsGone
<1>6. OneApprovalOneAttempt'
  BY DEF OneApprovalOneAttempt
<1>7. QED BY <1>1, <1>4, <1>5, <1>6 DEF IdsApart

(* A new id is above every id in circulation. *)
LEMMA IdsAsk ==
  ASSUME TypeOK, IdsApart, OneApprovalOneAttempt, NEW p \in Params, Ask(p)
  PROVE  IdsApart' /\ OneApprovalOneAttempt'
<1> USE DEF disk, history
<1>1. UNCHANGED <<queueFile, attempts>> /\ pc = "idle"
  BY DEF Ask, TakeOn
<1>2. CASE queue' = Put(queue, nextQid, p) /\ nextQid' = nextQid + 1 /\ pc' = "saveQueued"
  <2>1. IsQueue(queue) /\ nextQid \in Nat /\ queueFile.next \in Nat
    BY DEF TypeOK
  <2>2. DOMAIN queue' = DOMAIN queue \cup {nextQid}
    BY <1>2, <2>1, PutType
  <2>3. queueFile.next <= nextQid /\ \A q \in DOMAIN queue : 1 <= q /\ q < nextQid
    BY <1>1 DEF IdsApart, MemoryIdsBelowNext
  <2>4. FileIdsBelowNext'
    BY <1>1 DEF IdsApart, FileIdsBelowNext
  <2>5. MemoryIdsBelowNext'
    BY <1>1, <1>2, <2>1, <2>2, <2>3, <2>4 DEF MemoryIdsBelowNext, FileIdsBelowNext, IsQueue
  <2>6. ExecutedIdsAreGone'
    BY <1>1, <2>1, <2>2, <2>3 DEF IdsApart, ExecutedIdsAreGone, Offered, TypeOK, Attempts
  <2>7. QED BY <1>1, <1>2, <2>4, <2>5, <2>6
            DEF IdsApart, IdInHandIsGone, OneApprovalOneAttempt
<1>3. CASE /\ UNCHANGED <<queue, nextQid>>
           /\ job'.qid = ByPolicy /\ pc' \in {"ledgerDenied", "ledgerExecuting"}
  BY <1>1, <1>3
     DEF IdsApart, FileIdsBelowNext, MemoryIdsBelowNext, ExecutedIdsAreGone,
         IdInHandIsGone, OneApprovalOneAttempt, Offered
<1>4. QED BY <1>2, <1>3 DEF Ask, TakeOn

(* The pop takes the id out of memory before anything else happens. *)
LEMMA IdsDecide ==
  ASSUME TypeOK, IdsApart, OneApprovalOneAttempt, NEW qid \in DOMAIN queue,
         QueueApprove(qid) \/ QueueReject(qid)
  PROVE  IdsApart' /\ OneApprovalOneAttempt'
<1> USE DEF disk
<1>1. /\ UNCHANGED <<nextQid, queueFile, attempts>>
      /\ pc = "idle" /\ pc' \in {"savePopped", "saveRejected"}
      /\ job'.qid = qid
      /\ queue' = Pop(queue, qid)
  BY DEF QueueApprove, QueueReject, Decide, TakeOn
<1>2. DOMAIN queue' = DOMAIN queue \ {qid}
  BY <1>1 DEF Pop
<1>3. FileIdsBelowNext' /\ MemoryIdsBelowNext'
  BY <1>1, <1>2 DEF IdsApart, FileIdsBelowNext, MemoryIdsBelowNext
<1>4. ExecutedIdsAreGone'
  BY <1>1, <1>2 DEF IdsApart, ExecutedIdsAreGone, Offered
<1>5. qid \in Nat /\ 1 <= qid /\ qid < nextQid
  BY <1>1 DEF IdsApart, MemoryIdsBelowNext, TypeOK, IsQueue
<1>6. ~Executed(qid)
  BY <1>5 DEF IdsApart, ExecutedIdsAreGone, Executed, Offered, ByPolicy
<1>7. IdInHandIsGone'
  BY <1>1, <1>2, <1>5, <1>6 DEF IdInHandIsGone, Executed
<1>8. QED BY <1>1, <1>3, <1>4, <1>7 DEF IdsApart, OneApprovalOneAttempt

(* The save makes the pop durable, and moves the file's next_qid above     *)
(* every id memory has handed out.                                         *)
LEMMA IdsSave ==
  ASSUME TypeOK, IdsApart, OneApprovalOneAttempt, SaveQueue
  PROVE  IdsApart' /\ OneApprovalOneAttempt'
<1> USE DEF memory, history
<1>1. /\ UNCHANGED <<job, queue, nextQid, attempts>>
      /\ queueFile'.next = nextQid /\ queueFile'.items = queue
      /\ pc \in SavePcs
  BY DEF SaveQueue
<1>2. \/ pc = "savePopped" /\ pc' = "ledgerExecuting"
      \/ pc' \in {"ledgerQueued", "ledgerRejected"}
  BY DEF SaveQueue, SavePcs
<1>3. /\ nextQid \in Nat /\ queueFile.next \in Nat
      /\ queueFile.next >= 1 /\ queueFile.next <= nextQid
      /\ \A q \in DOMAIN queue : 1 <= q /\ q < nextQid
  BY <1>1 DEF SavePcs, IdsApart, FileIdsBelowNext, MemoryIdsBelowNext, TypeOK
<1>4. FileIdsBelowNext' /\ MemoryIdsBelowNext'
  BY <1>1, <1>3 DEF FileIdsBelowNext, MemoryIdsBelowNext
<1>5. ExecutedIdsAreGone'
  <2>1. \A i \in DOMAIN attempts : attempts[i].qid \in Nat
    <3>1. \A i \in DOMAIN attempts : attempts[i] \in Attempts
      BY DEF TypeOK
    <3>2. QED BY <3>1 DEF Attempts
  <2>2. QED BY <1>1, <1>3, <2>1 DEF IdsApart, ExecutedIdsAreGone, Offered
<1>6. IdInHandIsGone'
  BY <1>1, <1>2 DEF IdsApart, IdInHandIsGone, Offered, Executed
<1>7. QED BY <1>1, <1>4, <1>5, <1>6 DEF IdsApart, OneApprovalOneAttempt

(* The execution itself: the one step that adds an executed id. *)
LEMMA IdsExecute ==
  ASSUME TypeOK, IdsApart, OneApprovalOneAttempt,
         ExecuteRefused \/ ExecuteAborted \/ ExecuteNothing \/ Send
  PROVE  IdsApart' /\ OneApprovalOneAttempt'
<1> USE DEF memory, disk
<1>1. /\ UNCHANGED <<job, queue, nextQid, queueFile>>
      /\ pc = "execute" /\ pc' \in {"ledgerFailed", "idle", "countOk", "await"}
  BY DEF ExecuteRefused, ExecuteAborted, ExecuteNothing, Send
<1>2. /\ attempts' \in Seq(Attempts)
      /\ Len(attempts') = Len(attempts) + 1
      /\ \A i \in DOMAIN attempts : attempts'[i] = attempts[i]
      /\ attempts'[Len(attempts) + 1].qid = job.qid
  BY AttemptType DEF ExecuteRefused, ExecuteAborted, ExecuteNothing, Send
<1>3. \A i \in DOMAIN attempts' : i \in DOMAIN attempts \/ i = Len(attempts) + 1
  BY <1>2 DEF TypeOK
<1>4. job.qid # ByPolicy =>
        job.qid < queueFile.next /\ ~Offered(job.qid) /\ ~Executed(job.qid)
  BY <1>1 DEF IdsApart, IdInHandIsGone
<1>5. FileIdsBelowNext' /\ MemoryIdsBelowNext' /\ IdInHandIsGone'
  BY <1>1 DEF IdsApart, FileIdsBelowNext, MemoryIdsBelowNext, IdInHandIsGone
<1>6. ExecutedIdsAreGone'
  BY <1>1, <1>2, <1>3, <1>4 DEF IdsApart, ExecutedIdsAreGone, Offered
<1>7. OneApprovalOneAttempt'
  BY <1>2, <1>3, <1>4 DEF OneApprovalOneAttempt, Executed
<1>8. QED BY <1>5, <1>6, <1>7 DEF IdsApart

LEMMA IdsCrash ==
  ASSUME TypeOK, IdsApart, OneApprovalOneAttempt, Crash
  PROVE  IdsApart' /\ OneApprovalOneAttempt'
<1> USE DEF disk
<1>1. /\ UNCHANGED queueFile
      /\ pc' = "down" /\ queue' = Empty
  BY DEF Crash
<1>2. /\ DOMAIN attempts' = DOMAIN attempts
      /\ \A k \in DOMAIN attempts : attempts'[k].qid = attempts[k].qid
  BY TrackType DEF Crash, LoseTrack, TypeOK
<1>3. DOMAIN queue' = {}
  BY <1>1, EmptyType
<1>4. QED
  BY <1>1, <1>2, <1>3
     DEF IdsApart, FileIdsBelowNext, MemoryIdsBelowNext, ExecutedIdsAreGone,
         IdInHandIsGone, OneApprovalOneAttempt, Offered

LEMMA IdsRestart ==
  ASSUME TypeOK, IdsApart, OneApprovalOneAttempt, Restart
  PROVE  IdsApart' /\ OneApprovalOneAttempt'
<1> USE DEF bounds, history
<1>1. /\ UNCHANGED <<queueFile, attempts>>
      /\ pc' \in {"idle", "pruning"}
      /\ queue' = queueFile.items /\ nextQid' = queueFile.next
  BY DEF Restart
<1>2. queueFile.next \in Nat
  BY DEF TypeOK
<1>3. QED
  BY <1>1, <1>2
     DEF IdsApart, FileIdsBelowNext, MemoryIdsBelowNext, ExecutedIdsAreGone,
         IdInHandIsGone, OneApprovalOneAttempt, Offered

LEMMA IdsStep ==
  ASSUME TypeOK, IdsApart, OneApprovalOneAttempt, [Next]_vars
  PROVE  IdsApart' /\ OneApprovalOneAttempt'
<1> USE DEF memory, disk, bounds, history
<1>1. CASE AppendDecision
  BY <1>1, QuietStep DEF AppendDecision
<1>2. CASE AppendExecuting
  BY <1>2, QuietStep DEF AppendExecuting
<1>3. CASE Confirmed \/ BroadcastUnknown
  BY <1>3, QuietStep DEF Confirmed, BroadcastUnknown
<1>4. CASE FailsAfterSend
  BY <1>4, QuietStep, TrackType DEF FailsAfterSend, TypeOK
<1>5. CASE CountInMemory
  BY <1>5, QuietStep DEF CountInMemory, Countings
<1>6. CASE CountOnDisk
  <2>1. job'.qid = job.qid
    BY <1>6 DEF CountOnDisk, TypeOK, Jobs
  <2>2. QED BY <1>6, <2>1, QuietStep DEF CountOnDisk, Countings
<1>7. CASE Counted
  <2>1. /\ UNCHANGED <<job, queue, nextQid, queueFile>>
        /\ pc # "down" /\ pc' \in {"ledgerOk", "ledgerUnknown"}
    BY <1>7 DEF Counted, Countings
  <2>2. /\ DOMAIN attempts' = DOMAIN attempts
        /\ \A k \in DOMAIN attempts : attempts'[k].qid = attempts[k].qid
    BY <1>7, TrackType DEF Counted, TypeOK
  <2>3. QED BY <2>1, <2>2, QuietStep
<1>8. CASE AppendOutcome
  BY <1>8, QuietStep DEF AppendOutcome
<1>9. CASE RewritePruned
  BY <1>9, QuietStep DEF RewritePruned
<1>10. ASSUME NEW i \in DOMAIN attempts, Settle(i, "landed") \/ Settle(i, "dropped")
       PROVE  IdsApart' /\ OneApprovalOneAttempt'
  BY <1>10, QuietStep, FateType DEF Settle, TypeOK
<1>11. CASE Tick
  BY <1>11, QuietStep DEF Tick
<1>12. CASE WriteFails
  BY <1>12, QuietStep, TrackType
     DEF WriteFails, LoseTrack, TypeOK, SavePcs, LedgerPcs
<1>13. CASE UNCHANGED vars
  BY <1>13, QuietStep DEF vars
<1>14. QED
  BY <1>1, <1>2, <1>3, <1>4, <1>5, <1>6, <1>7, <1>8, <1>9, <1>10, <1>11, <1>12, <1>13,
     IdsAsk, IdsDecide, IdsSave, IdsExecute, IdsCrash, IdsRestart DEF Next, Handler

-----------------------------------------------------------------------------
THEOREM IInvInvariant == Spec => []IInv
<1>1. Init => IInv
  BY TypeInit, IdsInit DEF IInv
<1>2. IInv /\ [Next]_vars => IInv'
  BY TypeStep, IdsStep DEF IInv
<1>3. QED BY <1>1, <1>2, PTL DEF Spec

(* The variables have the types SpendDaemon gives them, whatever policy,   *)
(* requests, crashes and failed writes there are.                          *)
THEOREM TypeCorrect == Spec => []TypeOK
<1>1. IInv => TypeOK
  BY DEF IInv
<1>2. QED BY <1>1, IInvInvariant, PTL

(* rt_queue_approve: one approval of the human is at most one execution,   *)
(* for any number of requests, approvals, crashes and failed writes.       *)
THEOREM OneApprovalOneAttemptAlways == Spec => []OneApprovalOneAttempt
<1>1. IInv => OneApprovalOneAttempt
  BY DEF IInv
<1>2. QED BY <1>1, IInvInvariant, PTL

-----------------------------------------------------------------------------
(* What "queued:<qid>" rows say.                                           *)

Announced == {i \in DOMAIN ledger : ledger[i].decision = "queued"}

AnnouncedOnce ==
  \A i, j \in Announced : ledger[i].qid = ledger[j].qid => i = j

AnnouncedIsBelowNext ==
  \A i \in Announced : 1 <= ledger[i].qid /\ ledger[i].qid < queueFile.next

(* Wherever an announced id is, it stands for the body announced: in       *)
(* memory, on disk, in hand and in the executions.                         *)
BodiesAgree ==
  \A i \in Announced :
    /\ ledger[i].qid \in DOMAIN queue => queue[ledger[i].qid] = ledger[i].params
    /\ ledger[i].qid \in DOMAIN queueFile.items =>
         queueFile.items[ledger[i].qid] = ledger[i].params
    /\ pc \in {"savePopped", "ledgerExecuting", "execute"} /\ job.qid = ledger[i].qid =>
         job.params = ledger[i].params
    /\ \A k \in DOMAIN attempts :
         attempts[k].qid = ledger[i].qid => attempts[k].params = ledger[i].params

(* What is about to be announced waits, under an id never announced.       *)
BeingAnnounced ==
  pc \in {"saveQueued", "ledgerQueued"} =>
    /\ job.qid \in DOMAIN queue /\ queue[job.qid] = job.params
    /\ \A i \in Announced : ledger[i].qid # job.qid
    /\ pc = "ledgerQueued" =>
         job.qid \in DOMAIN queueFile.items /\ queueFile.items[job.qid] = job.params

RowsAgree == /\ AnnouncedOnce
             /\ AnnouncedIsBelowNext
             /\ BodiesAgree
             /\ BeingAnnounced
             /\ AnnouncedIsKept

LEMMA RowsInit == Init => RowsAgree
BY DEF Init, RowsAgree, AnnouncedOnce, AnnouncedIsBelowNext, BodiesAgree,
       BeingAnnounced, AnnouncedIsKept, Announced

LEMMA LedgerType ==
  ASSUME TypeOK
  PROVE  /\ \A i \in DOMAIN ledger : ledger[i] \in Rows
         /\ \A i \in DOMAIN ledger : /\ ledger[i].qid \in Nat
                                     /\ ledger[i].params \in Params
                                     /\ ledger[i].decision \in Decisions
<1>1. \A i \in DOMAIN ledger : ledger[i] \in Rows
  BY DEF TypeOK
<1>2. QED BY <1>1 DEF Rows

(* A row goes at the end, and the others stay.                             *)
LEMMA AppendedRow ==
  ASSUME ledger \in Seq(Rows), NEW row, ledger' = Append(ledger, row)
  PROVE  /\ DOMAIN ledger' = DOMAIN ledger \cup {Len(ledger) + 1}
         /\ Len(ledger) + 1 \notin DOMAIN ledger
         /\ \A i \in DOMAIN ledger : ledger'[i] = ledger[i]
         /\ ledger'[Len(ledger) + 1] = row
OBVIOUS

(* Rows of the ledger that announce something are not touched.             *)
NothingAnnounced ==
  Announced' = Announced /\ \A i \in Announced : ledger'[i] = ledger[i]

LEMMA OtherRow ==
  ASSUME ledger \in Seq(Rows), NEW row, ledger' = Append(ledger, row),
         row.decision # "queued"
  PROVE  NothingAnnounced
BY AppendedRow DEF Announced, NothingAnnounced

(* A step that announces nothing, moves no body and decides nothing.       *)
LEMMA QuietRows ==
  ASSUME RowsAgree, NothingAnnounced, SameAttempts,
         UNCHANGED <<queue, queueFile, decided>>,
         job'.params = job.params, job'.qid = job.qid,
         pc = "down" => pc' = "down",
         pc' \in {"savePopped", "ledgerExecuting", "execute"} =>
           pc \in {"savePopped", "ledgerExecuting", "execute"},
         pc' \in {"saveQueued", "ledgerQueued"} => pc' = pc
  PROVE  RowsAgree'
<1>1. AnnouncedOnce' /\ AnnouncedIsBelowNext'
  BY DEF RowsAgree, AnnouncedOnce, AnnouncedIsBelowNext, NothingAnnounced
<1>2. BodiesAgree'
  BY DEF RowsAgree, BodiesAgree, NothingAnnounced, SameAttempts
<1>3. BeingAnnounced'
  BY DEF RowsAgree, BeingAnnounced, NothingAnnounced
<1>4. AnnouncedIsKept'
  BY DEF RowsAgree, AnnouncedIsKept, Announced, NothingAnnounced
<1>5. QED BY <1>1, <1>2, <1>3, <1>4 DEF RowsAgree

LEMMA RowsAsk ==
  ASSUME IInv, RowsAgree, NEW p \in Params, Ask(p)
  PROVE  RowsAgree'
<1> USE DEF disk, history
<1>1. /\ UNCHANGED <<queueFile, ledger, attempts, decided>>
      /\ pc = "idle"
      /\ NothingAnnounced
  BY DEF Ask, TakeOn, NothingAnnounced, Announced
<1>2. \A i \in Announced : 1 <= ledger[i].qid /\ ledger[i].qid < queueFile.next
                           /\ ledger[i].qid \in Nat
  BY LedgerType DEF IInv, RowsAgree, AnnouncedIsBelowNext, Announced
<1>3. queueFile.next <= nextQid /\ nextQid \in Nat /\ queueFile.next \in Nat
  BY <1>1 DEF IInv, IdsApart, MemoryIdsBelowNext, TypeOK
<1>4. AnnouncedOnce' /\ AnnouncedIsBelowNext'
  BY <1>1 DEF RowsAgree, AnnouncedOnce, AnnouncedIsBelowNext, NothingAnnounced
<1>5. CASE /\ queue' = Put(queue, nextQid, p) /\ pc' = "saveQueued"
           /\ job'.params = p /\ job'.qid = nextQid
  <2>1. /\ DOMAIN queue' = DOMAIN queue \cup {nextQid}
        /\ queue'[nextQid] = p
        /\ \A q \in DOMAIN queue : q # nextQid => queue'[q] = queue[q]
    BY <1>5 DEF Put
  <2>2. \A i \in Announced : ledger[i].qid # nextQid
    BY <1>2, <1>3
  <2>3. BodiesAgree'
    BY <1>1, <1>5, <2>1, <2>2 DEF RowsAgree, BodiesAgree, NothingAnnounced
  <2>4. BeingAnnounced'
    BY <1>1, <1>5, <2>1, <2>2 DEF BeingAnnounced, NothingAnnounced
  <2>5. AnnouncedIsKept'
    BY <1>1, <2>1 DEF RowsAgree, AnnouncedIsKept, Announced, NothingAnnounced
  <2>6. QED BY <1>4, <2>3, <2>4, <2>5 DEF RowsAgree
<1>6. CASE /\ UNCHANGED queue
           /\ job'.qid = ByPolicy /\ pc' \in {"ledgerDenied", "ledgerExecuting"}
  <2>1. \A i \in Announced : ledger[i].qid # ByPolicy
    BY <1>2 DEF ByPolicy
  <2>2. BodiesAgree'
    BY <1>1, <1>6, <2>1 DEF RowsAgree, BodiesAgree, NothingAnnounced
  <2>3. BeingAnnounced'
    BY <1>6 DEF BeingAnnounced
  <2>4. AnnouncedIsKept'
    BY <1>1, <1>6 DEF RowsAgree, AnnouncedIsKept, Announced, NothingAnnounced
  <2>5. QED BY <1>4, <2>2, <2>3, <2>4 DEF RowsAgree
<1>7. QED BY <1>5, <1>6 DEF Ask, TakeOn

LEMMA RowsDecide ==
  ASSUME IInv, RowsAgree, NEW qid \in DOMAIN queue, QueueApprove(qid) \/ QueueReject(qid)
  PROVE  RowsAgree'
<1> USE DEF disk
<1>1. /\ UNCHANGED <<queueFile, ledger, attempts>>
      /\ pc = "idle" /\ pc' \in {"savePopped", "saveRejected"}
      /\ job'.params = queue[qid] /\ job'.qid = qid
      /\ queue' = Pop(queue, qid)
      /\ decided' = decided \cup {qid}
      /\ NothingAnnounced
  BY DEF QueueApprove, QueueReject, Decide, TakeOn, NothingAnnounced, Announced
<1>2. DOMAIN queue' = DOMAIN queue \ {qid} /\ \A q \in DOMAIN queue' : queue'[q] = queue[q]
  BY <1>1 DEF Pop
<1>3. AnnouncedOnce' /\ AnnouncedIsBelowNext'
  BY <1>1 DEF RowsAgree, AnnouncedOnce, AnnouncedIsBelowNext, NothingAnnounced
<1>4. BodiesAgree'
  BY <1>1, <1>2 DEF RowsAgree, BodiesAgree, NothingAnnounced
<1>5. BeingAnnounced'
  BY <1>1 DEF BeingAnnounced
<1>6. AnnouncedIsKept'
  BY <1>1, <1>2 DEF RowsAgree, AnnouncedIsKept, Announced, NothingAnnounced
<1>7. QED BY <1>3, <1>4, <1>5, <1>6 DEF RowsAgree

LEMMA RowsSave ==
  ASSUME IInv, RowsAgree, SaveQueue
  PROVE  RowsAgree'
<1> USE DEF memory, history
<1>1. /\ UNCHANGED <<job, queue, nextQid, ledger, attempts, decided>>
      /\ queueFile'.next = nextQid /\ queueFile'.items = queue
      /\ pc \in SavePcs
      /\ NothingAnnounced
  BY DEF SaveQueue, NothingAnnounced, Announced
<1>2. \/ pc = "savePopped" /\ pc' = "ledgerExecuting"
      \/ pc = "saveQueued" /\ pc' = "ledgerQueued"
      \/ pc' = "ledgerRejected"
  BY DEF SaveQueue, SavePcs
<1>3. queueFile.next <= nextQid /\ nextQid \in Nat /\ queueFile.next \in Nat
  BY <1>1 DEF SavePcs, IInv, IdsApart, MemoryIdsBelowNext, TypeOK
<1>4. AnnouncedOnce'
  BY <1>1 DEF RowsAgree, AnnouncedOnce, NothingAnnounced
<1>5. AnnouncedIsBelowNext'
  <2>1. \A i \in Announced : ledger[i].qid \in Nat
    BY LedgerType DEF IInv, Announced
  <2>2. QED BY <1>1, <1>3, <2>1 DEF RowsAgree, AnnouncedIsBelowNext, NothingAnnounced
<1>6. BodiesAgree'
  BY <1>1, <1>2 DEF RowsAgree, BodiesAgree, NothingAnnounced
<1>7. BeingAnnounced'
  BY <1>1, <1>2 DEF RowsAgree, BeingAnnounced, NothingAnnounced
<1>8. AnnouncedIsKept'
  <2>1. \A i \in Announced : ledger[i].qid \notin decided =>
          /\ ledger[i].qid \in DOMAIN queue
          /\ queue[ledger[i].qid] = ledger[i].params
    BY <1>1 DEF RowsAgree, AnnouncedIsKept, BodiesAgree, Announced, SavePcs
  <2>2. QED BY <1>1, <2>1 DEF AnnouncedIsKept, Announced, NothingAnnounced
<1>9. QED BY <1>4, <1>5, <1>6, <1>7, <1>8 DEF RowsAgree

(* The row that announces an id: it waits, so it was never executed.       *)
LEMMA RowsAppend ==
  ASSUME IInv, RowsAgree, AppendDecision
  PROVE  RowsAgree'
<1> USE DEF memory, history
<1>1. /\ UNCHANGED <<job, queue, queueFile, attempts, decided>>
      /\ pc' = "idle" /\ pc # "down"
      /\ SameAttempts
  BY DEF AppendDecision, SameAttempts
<1>2. CASE pc \in {"ledgerDenied", "ledgerRejected"}
  <2>1. NothingAnnounced
    BY <1>2, OtherRow DEF AppendDecision, Row, IInv, TypeOK
  <2>2. QED BY <1>1, <1>2, <2>1, QuietRows
<1>3. CASE pc = "ledgerQueued"
  <2> DEFINE n == Len(ledger) + 1
  <2>1. /\ DOMAIN ledger' = DOMAIN ledger \cup {n}
        /\ n \notin DOMAIN ledger
        /\ \A i \in DOMAIN ledger : ledger'[i] = ledger[i]
        /\ ledger'[n] = QueuedRow(job.params, job.qid)
    BY <1>3, AppendedRow DEF AppendDecision, IInv, TypeOK
  <2>2. /\ ledger'[n].decision = "queued"
        /\ ledger'[n].qid = job.qid /\ ledger'[n].params = job.params
    BY <2>1 DEF QueuedRow
  <2> HIDE DEF n
  <2>3. /\ Announced' = Announced \cup {n}
        /\ n \notin Announced
        /\ \A i \in Announced : ledger'[i] = ledger[i]
    BY <2>1, <2>2 DEF Announced
  <2>4. /\ job.qid \in DOMAIN queue /\ queue[job.qid] = job.params
        /\ job.qid \in DOMAIN queueFile.items /\ queueFile.items[job.qid] = job.params
        /\ \A i \in Announced : ledger[i].qid # job.qid
    BY <1>3 DEF RowsAgree, BeingAnnounced
  <2>5. 1 <= job.qid /\ job.qid < queueFile.next
    BY <2>4 DEF IInv, IdsApart, FileIdsBelowNext
  <2>6. \A k \in DOMAIN attempts : attempts[k].qid # job.qid
    BY <2>4, <2>5 DEF IInv, IdsApart, ExecutedIdsAreGone, Offered, ByPolicy
  <2>7. AnnouncedOnce'
    BY <2>2, <2>3, <2>4 DEF RowsAgree, AnnouncedOnce
  <2>8. AnnouncedIsBelowNext'
    BY <1>1, <2>2, <2>3, <2>5 DEF RowsAgree, AnnouncedIsBelowNext
  <2>9. BodiesAgree'
    BY <1>1, <1>3, <2>2, <2>3, <2>4, <2>6 DEF RowsAgree, BodiesAgree
  <2>10. BeingAnnounced'
    BY <1>1 DEF BeingAnnounced
  <2>11. AnnouncedIsKept'
    <3>1. \A i \in Announced' : ledger'[i].qid \notin decided =>
            /\ ledger'[i].qid \in DOMAIN queueFile.items
            /\ queueFile.items[ledger'[i].qid] = ledger'[i].params
            /\ ledger'[i].qid \in DOMAIN queue
      BY <1>3, <2>2, <2>3, <2>4 DEF RowsAgree, AnnouncedIsKept, Announced
    <3>2. QED BY <1>1, <3>1 DEF AnnouncedIsKept, Announced
  <2>12. QED BY <2>7, <2>8, <2>9, <2>10, <2>11 DEF RowsAgree
<1>4. QED BY <1>2, <1>3 DEF AppendDecision

(* What runs under an announced id is the body announced.                  *)
LEMMA RowsExecute ==
  ASSUME IInv, RowsAgree, ExecuteRefused \/ ExecuteAborted \/ ExecuteNothing \/ Send
  PROVE  RowsAgree'
<1> USE DEF memory, disk
<1>1. /\ UNCHANGED <<job, queue, queueFile, ledger, decided>>
      /\ pc = "execute" /\ pc' \in {"ledgerFailed", "idle", "countOk", "await"}
      /\ NothingAnnounced
  BY DEF ExecuteRefused, ExecuteAborted, ExecuteNothing, Send, NothingAnnounced, Announced
<1>2. /\ attempts' \in Seq(Attempts) /\ attempts \in Seq(Attempts)
      /\ Len(attempts') = Len(attempts) + 1
      /\ \A i \in DOMAIN attempts : attempts'[i] = attempts[i]
      /\ attempts'[Len(attempts) + 1].qid = job.qid
      /\ attempts'[Len(attempts) + 1].params = job.params
  BY AttemptType DEF ExecuteRefused, ExecuteAborted, ExecuteNothing, Send, IInv, TypeOK
<1>3. \A k \in DOMAIN attempts' : k \in DOMAIN attempts \/ k = Len(attempts) + 1
  BY <1>2
<1>4. AnnouncedOnce' /\ AnnouncedIsBelowNext'
  BY <1>1 DEF RowsAgree, AnnouncedOnce, AnnouncedIsBelowNext, NothingAnnounced
<1>5. BodiesAgree'
  <2>1. \A i \in Announced : \A k \in DOMAIN attempts' :
          attempts'[k].qid = ledger[i].qid => attempts'[k].params = ledger[i].params
    BY <1>1, <1>2, <1>3 DEF RowsAgree, BodiesAgree
  <2>2. QED BY <1>1, <2>1 DEF RowsAgree, BodiesAgree, NothingAnnounced
<1>6. BeingAnnounced'
  BY <1>1 DEF BeingAnnounced
<1>7. AnnouncedIsKept'
  BY <1>1 DEF RowsAgree, AnnouncedIsKept, Announced, NothingAnnounced
<1>8. QED BY <1>4, <1>5, <1>6, <1>7 DEF RowsAgree

LEMMA RowsCrash ==
  ASSUME IInv, RowsAgree, Crash
  PROVE  RowsAgree'
<1> USE DEF disk
<1>1. /\ UNCHANGED <<queueFile, ledger, decided>>
      /\ pc # "down" /\ pc' = "down" /\ queue' = Empty
      /\ NothingAnnounced
  BY DEF Crash, NothingAnnounced, Announced
<1>2. SameAttempts
  BY TrackType DEF Crash, LoseTrack, IInv, TypeOK, SameAttempts
<1>3. DOMAIN queue' = {}
  BY <1>1, EmptyType
<1>4. AnnouncedOnce' /\ AnnouncedIsBelowNext'
  BY <1>1 DEF RowsAgree, AnnouncedOnce, AnnouncedIsBelowNext, NothingAnnounced
<1>5. BodiesAgree'
  BY <1>1, <1>2, <1>3 DEF RowsAgree, BodiesAgree, NothingAnnounced, SameAttempts
<1>6. BeingAnnounced'
  BY <1>1 DEF BeingAnnounced
<1>7. AnnouncedIsKept'
  BY <1>1 DEF RowsAgree, AnnouncedIsKept, Announced, NothingAnnounced
<1>8. QED BY <1>4, <1>5, <1>6, <1>7 DEF RowsAgree

LEMMA RowsRestart ==
  ASSUME IInv, RowsAgree, Restart
  PROVE  RowsAgree'
<1> USE DEF bounds, history
<1>1. /\ UNCHANGED <<queueFile, ledger, attempts, decided>>
      /\ pc' \in {"idle", "pruning"} /\ queue' = queueFile.items
      /\ NothingAnnounced
  BY DEF Restart, NothingAnnounced, Announced
<1>2. AnnouncedOnce' /\ AnnouncedIsBelowNext'
  BY <1>1 DEF RowsAgree, AnnouncedOnce, AnnouncedIsBelowNext, NothingAnnounced
<1>3. BodiesAgree'
  BY <1>1 DEF RowsAgree, BodiesAgree, NothingAnnounced
<1>4. BeingAnnounced'
  BY <1>1 DEF BeingAnnounced
<1>5. AnnouncedIsKept'
  BY <1>1 DEF RowsAgree, AnnouncedIsKept, Announced, NothingAnnounced
<1>6. QED BY <1>2, <1>3, <1>4, <1>5 DEF RowsAgree

(* The steps that move no body, one by one.                                *)
LEMMA RowsElse ==
  ASSUME IInv, RowsAgree,
         \/ AppendExecuting \/ Confirmed \/ BroadcastUnknown \/ FailsAfterSend
         \/ CountInMemory \/ CountOnDisk \/ Counted \/ AppendOutcome \/ RewritePruned
         \/ \E i \in DOMAIN attempts : Settle(i, "landed") \/ Settle(i, "dropped")
         \/ Tick \/ WriteFails \/ UNCHANGED vars
  PROVE  RowsAgree'
<1> USE DEF memory, disk, bounds, history
<1>1. UNCHANGED attempts => SameAttempts
  BY DEF SameAttempts
<1>2. UNCHANGED ledger => NothingAnnounced
  BY DEF NothingAnnounced, Announced
<1>3. CASE AppendExecuting
  <2>1. NothingAnnounced
    BY <1>3, OtherRow DEF AppendExecuting, Row, IInv, TypeOK
  <2>2. QED BY <1>1, <1>3, <2>1, QuietRows DEF AppendExecuting
<1>4. CASE Confirmed \/ BroadcastUnknown
  BY <1>1, <1>2, <1>4, QuietRows DEF Confirmed, BroadcastUnknown
<1>5. CASE FailsAfterSend
  <2>1. SameAttempts
    BY <1>5, TrackType DEF FailsAfterSend, IInv, TypeOK
  <2>2. QED BY <1>2, <1>5, <2>1, QuietRows DEF FailsAfterSend
<1>6. CASE CountInMemory
  BY <1>1, <1>2, <1>6, QuietRows DEF CountInMemory, Countings
<1>7. CASE CountOnDisk
  <2>1. job'.qid = job.qid /\ job'.params = job.params
    BY <1>7 DEF CountOnDisk, IInv, TypeOK, Jobs
  <2>2. QED BY <1>1, <1>2, <1>7, <2>1, QuietRows DEF CountOnDisk, Countings
<1>8. CASE Counted
  <2>1. SameAttempts
    BY <1>8, TrackType DEF Counted, IInv, TypeOK
  <2>2. QED BY <1>2, <1>8, <2>1, QuietRows DEF Counted, Countings
<1>9. CASE AppendOutcome
  <2>1. NothingAnnounced
    BY <1>9, OtherRow DEF AppendOutcome, Row, IInv, TypeOK
  <2>2. QED BY <1>1, <1>9, <2>1, QuietRows DEF AppendOutcome
<1>10. CASE RewritePruned
  BY <1>1, <1>2, <1>10, QuietRows DEF RewritePruned
<1>11. ASSUME NEW i \in DOMAIN attempts, Settle(i, "landed") \/ Settle(i, "dropped")
       PROVE  RowsAgree'
  <2>1. SameAttempts
    BY <1>11, FateType DEF IInv, TypeOK
  <2>2. QED BY <1>2, <1>11, <2>1, QuietRows DEF Settle
<1>12. CASE Tick
  BY <1>1, <1>2, <1>12, QuietRows DEF Tick
<1>13. CASE WriteFails
  <2>1. SameAttempts
    BY <1>1, <1>13, TrackType DEF WriteFails, LoseTrack, IInv, TypeOK
  <2>2. QED BY <1>2, <1>13, <2>1, QuietRows DEF WriteFails, SavePcs, LedgerPcs
<1>14. CASE UNCHANGED vars
  BY <1>1, <1>2, <1>14, QuietRows DEF vars
<1>15. QED
  BY <1>3, <1>4, <1>5, <1>6, <1>7, <1>8, <1>9, <1>10, <1>11, <1>12, <1>13, <1>14

LEMMA RowsStep == IInv /\ RowsAgree /\ [Next]_vars => RowsAgree'
BY RowsAsk, RowsDecide, RowsSave, RowsAppend, RowsExecute, RowsCrash, RowsRestart,
   RowsElse DEF Next, Handler

LEMMA RowsInvariant == Spec => []RowsAgree
BY RowsInit, RowsStep, IInvInvariant, PTL DEF Spec

(* rt_request_spend, rt_queue_approve: an id that the ledger announced is  *)
(* announced once, and only the body it was announced with runs under it,  *)
(* across any number of restarts, crashes and failed saves.                *)
THEOREM AnnouncedIsWhatRunsAlways == Spec => []AnnouncedIsWhatRuns
<1>1. RowsAgree => AnnouncedIsWhatRuns
  BY DEF RowsAgree, AnnouncedOnce, BodiesAgree, Announced, AnnouncedIsWhatRuns
<1>2. QED BY <1>1, RowsInvariant, PTL

(* _save_queue before Ledger.append: what the ledger announced waits in    *)
(* queue.json until the human decides on it.                               *)
THEOREM AnnouncedIsKeptAlways == Spec => []AnnouncedIsKept
<1>1. RowsAgree => AnnouncedIsKept
  BY DEF RowsAgree
<1>2. QED BY <1>1, RowsInvariant, PTL

-----------------------------------------------------------------------------
(* What "executing" and outcome rows say.                                  *)

Sending == {"await", "countOk", "countUnknown", "countOkFile", "countUnknownFile"}

(* The track of the execution in hand, at each point after it began.       *)
CurrentIsJobs ==
  /\ pc \in Sending \cup {"ledgerOk", "ledgerUnknown", "ledgerFailed"} =>
       attempts # <<>> /\ attempts[Current].params = job.params
  /\ pc \in Sending => attempts[Current].track = "open"
  /\ pc \in {"ledgerOk", "ledgerUnknown"} => attempts[Current].track = "counted"
  /\ pc = "ledgerFailed" => attempts[Current].track = "failed"

(* An execution begins with its row.                                       *)
HasRow(p) == \E i \in DOMAIN ledger : ledger[i] = Row("executing", p)

ExecutedHasRow ==
  /\ pc = "execute" => HasRow(job.params)
  /\ \A k \in DOMAIN attempts : HasRow(attempts[k].params)

(* A row that resolves a body is about an execution that came to its end.  *)
ResolvedHasEnded ==
  \A i \in DOMAIN ledger : ledger[i].decision \in Resolved =>
    \E k \in DOMAIN attempts : /\ attempts[k].params = ledger[i].params
                               /\ attempts[k].track \in {"counted", "failed"}

OutcomesAgree == CurrentIsJobs /\ ExecutedHasRow /\ ResolvedHasEnded

LEMMA OutcomesInit == Init => OutcomesAgree
BY DEF Init, OutcomesAgree, CurrentIsJobs, ExecutedHasRow, ResolvedHasEnded, Sending

(* The ledger grows, and no new row resolves an execution.                 *)
LedgerGrows == \A i \in DOMAIN ledger : i \in DOMAIN ledger' /\ ledger'[i] = ledger[i]

NothingResolved ==
  \A i \in DOMAIN ledger' : ledger'[i].decision \in Resolved => i \in DOMAIN ledger

LEMMA RowBeforeOutcome ==
  ASSUME ledger \in Seq(Rows), NEW row, ledger' = Append(ledger, row)
  PROVE  /\ LedgerGrows
         /\ row.decision \notin Resolved => NothingResolved
BY AppendedRow DEF LedgerGrows, NothingResolved

LEMMA RowsStay ==
  ASSUME LedgerGrows, ExecutedHasRow, SameAttempts
  PROVE  \A k \in DOMAIN attempts' : HasRow(attempts[k].params)' /\
           attempts'[k].params = attempts[k].params
BY DEF LedgerGrows, ExecutedHasRow, SameAttempts, HasRow

LEMMA EndedStay ==
  ASSUME LedgerGrows, NothingResolved, ResolvedHasEnded,
         DOMAIN attempts \subseteq DOMAIN attempts',
         \A k \in DOMAIN attempts : /\ attempts'[k].params = attempts[k].params
                                    /\ \/ attempts'[k].track = attempts[k].track
                                       \/ attempts[k].track \notin {"counted", "failed"}
  PROVE  ResolvedHasEnded'
<1> SUFFICES ASSUME NEW i \in DOMAIN ledger', ledger'[i].decision \in Resolved
             PROVE  \E k \in DOMAIN attempts' :
                       /\ attempts'[k].params = ledger'[i].params
                       /\ attempts'[k].track \in {"counted", "failed"}
  BY DEF ResolvedHasEnded, Resolved
<1>1. i \in DOMAIN ledger /\ ledger'[i] = ledger[i]
  BY DEF NothingResolved, LedgerGrows
<1>2. PICK k \in DOMAIN attempts : /\ attempts[k].params = ledger[i].params
                                   /\ attempts[k].track \in {"counted", "failed"}
  BY <1>1 DEF ResolvedHasEnded
<1>3. QED BY <1>1, <1>2

(* A step that ends no execution and begins none.                          *)
LEMMA QuietOutcomes ==
  ASSUME OutcomesAgree, LedgerGrows, NothingResolved, SameAttempts,
         attempts \in Seq(Attempts), attempts' \in Seq(Attempts),
         \A k \in DOMAIN attempts : attempts'[k].track = attempts[k].track,
         pc' = pc \/ pc' \in Sending => job'.params = job.params,
         \/ pc' = pc
         \/ pc' \in Sending /\ pc \in Sending
         \/ pc' \notin Sending \cup {"execute", "ledgerOk", "ledgerUnknown", "ledgerFailed"}
  PROVE  OutcomesAgree'
<1>1. Len(attempts') = Len(attempts) /\ (attempts # <<>> => Current \in DOMAIN attempts)
  BY DEF SameAttempts, Current
<1>2. CurrentIsJobs'
  BY <1>1 DEF OutcomesAgree, CurrentIsJobs, Sending, SameAttempts, Current
<1>3. ExecutedHasRow'
  <2>1. pc' = "execute" => pc = "execute" /\ job'.params = job.params
    BY DEF Sending
  <2>2. pc' = "execute" => HasRow(job.params)'
    BY <2>1 DEF OutcomesAgree, ExecutedHasRow, LedgerGrows, HasRow
  <2>3. QED BY <2>1, <2>2, RowsStay DEF OutcomesAgree, ExecutedHasRow, HasRow
<1>4. ResolvedHasEnded'
  BY EndedStay DEF OutcomesAgree, SameAttempts
<1>5. QED BY <1>2, <1>3, <1>4 DEF OutcomesAgree

LEMMA OutcomesBegin ==
  ASSUME IInv, OutcomesAgree, AppendExecuting
  PROVE  OutcomesAgree'
<1> USE DEF memory, history
<1>1. /\ UNCHANGED <<job, attempts>> /\ pc' = "execute"
      /\ SameAttempts
  BY DEF AppendExecuting, SameAttempts
<1>2. /\ LedgerGrows /\ NothingResolved
      /\ ledger'[Len(ledger) + 1] = Row("executing", job.params)
      /\ Len(ledger) + 1 \in DOMAIN ledger'
  BY AppendedRow, RowBeforeOutcome DEF AppendExecuting, Row, Resolved, IInv, TypeOK
<1>3. CurrentIsJobs'
  BY <1>1 DEF CurrentIsJobs, Sending
<1>4. ExecutedHasRow'
  BY <1>1, <1>2, RowsStay DEF OutcomesAgree, ExecutedHasRow, HasRow
<1>5. ResolvedHasEnded'
  BY <1>1, <1>2, EndedStay DEF OutcomesAgree
<1>6. QED BY <1>3, <1>4, <1>5 DEF OutcomesAgree

LEMMA OutcomesExecute ==
  ASSUME IInv, OutcomesAgree, ExecuteRefused \/ ExecuteAborted \/ ExecuteNothing \/ Send
  PROVE  OutcomesAgree'
<1> USE DEF memory, disk
<1>1. /\ UNCHANGED <<job, ledger>> /\ pc = "execute"
      /\ \/ pc' = "ledgerFailed" /\ Attempt("unsent", "failed")
         \/ pc' = "idle" /\ Attempt("unsent", "lost")
         \/ pc' = "countOk" /\ Attempt("unsent", "open")
         \/ pc' = "await" /\ Attempt("pending", "open")
  BY DEF ExecuteRefused, ExecuteAborted, ExecuteNothing, Send
<1>2. PICK track \in {"open", "failed", "lost"}, fate \in {"unsent", "pending"} :
        /\ Attempt(fate, track)
        /\ pc' = "ledgerFailed" => track = "failed"
        /\ pc' \in {"await", "countOk"} => track = "open"
  BY <1>1
<1>3. /\ attempts' \in Seq(Attempts) /\ attempts \in Seq(Attempts)
      /\ Len(attempts') = Len(attempts) + 1
      /\ \A i \in DOMAIN attempts : attempts'[i] = attempts[i]
      /\ attempts'[Len(attempts')].params = job.params
      /\ attempts'[Len(attempts')].track = track
  BY <1>2, AttemptType DEF IInv, TypeOK
<1>4. \A k \in DOMAIN attempts' : k \in DOMAIN attempts \/ k = Len(attempts')
  BY <1>3
<1>5. CurrentIsJobs'
  BY <1>1, <1>2, <1>3 DEF CurrentIsJobs, Sending, Current
<1>6. ExecutedHasRow'
  BY <1>1, <1>3, <1>4 DEF OutcomesAgree, ExecutedHasRow, HasRow
<1>7. ResolvedHasEnded'
  <2>1. LedgerGrows /\ NothingResolved
    BY <1>1 DEF LedgerGrows, NothingResolved
  <2>2. DOMAIN attempts \subseteq DOMAIN attempts'
    BY <1>3
  <2>3. QED BY <1>3, <2>1, <2>2, EndedStay DEF OutcomesAgree
<1>8. QED BY <1>5, <1>6, <1>7 DEF OutcomesAgree

(* Only the execution in hand, still open, changes its track.              *)
LEMMA OutcomesTrack ==
  ASSUME IInv, OutcomesAgree, UNCHANGED ledger, pc \in Sending,
         NEW track \in {"counted", "failed", "lost"},
         attempts' = [attempts EXCEPT ![Current] = WithTrack(@, track)],
         \/ track = "counted" /\ pc' \in {"ledgerOk", "ledgerUnknown"} /\ UNCHANGED job
         \/ track = "failed" /\ pc' = "ledgerFailed" /\ UNCHANGED job
         \/ track = "lost" /\ pc' \in {"idle", "down"}
  PROVE  OutcomesAgree'
<1>1. attempts \in Seq(Attempts) /\ attempts # <<>>
  BY DEF IInv, TypeOK, OutcomesAgree, CurrentIsJobs
<1>2. Current \in DOMAIN attempts /\ attempts[Current].track = "open"
  BY <1>1 DEF OutcomesAgree, CurrentIsJobs, Current
<1>3. /\ attempts' \in Seq(Attempts) /\ SameAttempts
      /\ \A k \in DOMAIN attempts : k # Current => attempts'[k] = attempts[k]
      /\ attempts'[Current].track = track
  BY <1>1, <1>2, TrackType
<1>4. LedgerGrows /\ NothingResolved
  BY DEF LedgerGrows, NothingResolved
<1>5. CurrentIsJobs'
  <2>1. Len(attempts') = Len(attempts) /\ attempts' # <<>>
    BY <1>1, <1>3 DEF SameAttempts
  <2>2. attempts[Current].params = job.params
    BY DEF OutcomesAgree, CurrentIsJobs
  <2>3. QED BY <1>2, <1>3, <2>1, <2>2 DEF CurrentIsJobs, Sending, SameAttempts, Current
<1>6. ExecutedHasRow'
  BY <1>3, <1>4, RowsStay DEF OutcomesAgree, ExecutedHasRow, HasRow
<1>7. ResolvedHasEnded'
  BY <1>2, <1>3, <1>4, EndedStay DEF OutcomesAgree, SameAttempts
<1>8. QED BY <1>5, <1>6, <1>7 DEF OutcomesAgree

LEMMA OutcomesResolve ==
  ASSUME IInv, OutcomesAgree, AppendOutcome
  PROVE  OutcomesAgree'
<1> USE DEF memory, history
<1>1. /\ UNCHANGED attempts /\ pc' = "idle"
      /\ pc \in {"ledgerOk", "ledgerUnknown", "ledgerFailed"}
      /\ SameAttempts
  BY DEF AppendOutcome, SameAttempts
<1>2. PICK row : /\ ledger' = Append(ledger, row)
                 /\ row.params = job.params
  BY DEF AppendOutcome, Row
<1>3. /\ LedgerGrows
      /\ ledger'[Len(ledger) + 1] = row
      /\ \A i \in DOMAIN ledger' : i \in DOMAIN ledger \/ i = Len(ledger) + 1
  BY <1>2, AppendedRow, RowBeforeOutcome DEF IInv, TypeOK
<1>4. /\ Current \in DOMAIN attempts
      /\ attempts[Current].params = job.params
      /\ attempts[Current].track \in {"counted", "failed"}
  <2>1. attempts \in Seq(Attempts) /\ attempts # <<>>
    BY <1>1 DEF IInv, TypeOK, OutcomesAgree, CurrentIsJobs
  <2>2. QED BY <1>1, <2>1 DEF OutcomesAgree, CurrentIsJobs, Current
<1>5. CurrentIsJobs'
  BY <1>1 DEF CurrentIsJobs, Sending
<1>6. ExecutedHasRow'
  BY <1>1, <1>3, RowsStay DEF OutcomesAgree, ExecutedHasRow, HasRow
<1>7. ResolvedHasEnded'
  BY <1>1, <1>2, <1>3, <1>4 DEF OutcomesAgree, ResolvedHasEnded, LedgerGrows
<1>8. QED BY <1>5, <1>6, <1>7 DEF OutcomesAgree

LEMMA OutcomesStep ==
  ASSUME IInv, OutcomesAgree, [Next]_vars
  PROVE  OutcomesAgree'
<1> USE DEF memory, disk, bounds, history
<1>1. UNCHANGED attempts => /\ SameAttempts
                            /\ \A k \in DOMAIN attempts : attempts'[k].track = attempts[k].track
  BY DEF SameAttempts
<1>2. UNCHANGED ledger => LedgerGrows /\ NothingResolved
  BY DEF LedgerGrows, NothingResolved
<1>3. attempts \in Seq(Attempts) /\ ledger \in Seq(Rows)
  BY DEF IInv, TypeOK
<1>4. ASSUME NEW p \in Params, Ask(p) PROVE OutcomesAgree'
  BY <1>1, <1>2, <1>3, <1>4, QuietOutcomes DEF Ask, TakeOn, Sending
<1>5. ASSUME NEW qid \in DOMAIN queue, QueueApprove(qid) \/ QueueReject(qid)
      PROVE  OutcomesAgree'
  BY <1>1, <1>2, <1>3, <1>5, QuietOutcomes
     DEF QueueApprove, QueueReject, Decide, TakeOn, Sending
<1>6. CASE SaveQueue
  BY <1>1, <1>2, <1>3, <1>6, QuietOutcomes DEF SaveQueue, SavePcs, Sending
<1>7. CASE AppendDecision
  <2>1. LedgerGrows /\ NothingResolved
    BY <1>3, <1>7, RowBeforeOutcome DEF AppendDecision, Row, QueuedRow, Resolved
  <2>2. QED BY <1>1, <1>3, <1>7, <2>1, QuietOutcomes DEF AppendDecision, Sending
<1>8. CASE Confirmed \/ BroadcastUnknown
  BY <1>1, <1>2, <1>3, <1>8, QuietOutcomes DEF Confirmed, BroadcastUnknown, Sending
<1>9. CASE FailsAfterSend
  BY <1>9, OutcomesTrack DEF FailsAfterSend, Sending
<1>10. CASE CountInMemory
  BY <1>1, <1>2, <1>3, <1>10, QuietOutcomes DEF CountInMemory, Countings, Sending
<1>11. CASE CountOnDisk
  <2>1. job'.params = job.params
    BY <1>11 DEF CountOnDisk, IInv, TypeOK, Jobs
  <2>2. QED BY <1>1, <1>2, <1>3, <1>11, <2>1, QuietOutcomes
            DEF CountOnDisk, Countings, Sending
<1>12. CASE Counted
  BY <1>12, OutcomesTrack DEF Counted, Countings, Sending
<1>13. CASE RewritePruned
  BY <1>1, <1>2, <1>3, <1>13, QuietOutcomes DEF RewritePruned, Sending
<1>14. ASSUME NEW i \in DOMAIN attempts, Settle(i, "landed") \/ Settle(i, "dropped")
       PROVE  OutcomesAgree'
  <2>1. /\ SameAttempts /\ attempts' \in Seq(Attempts)
        /\ \A k \in DOMAIN attempts : attempts'[k].track = attempts[k].track
    BY <1>3, <1>14, FateType
  <2>2. QED BY <1>2, <1>3, <1>14, <2>1, QuietOutcomes DEF Settle
<1>15. CASE Tick
  BY <1>1, <1>2, <1>3, <1>15, QuietOutcomes DEF Tick
<1>16. CASE WriteFails \/ Crash
  <2>1. CASE pc \in Sending
    BY <1>16, <2>1, OutcomesTrack DEF WriteFails, Crash, LoseTrack, Sending
  <2>2. CASE pc \notin Sending
    BY <1>1, <1>2, <1>3, <1>16, <2>2, QuietOutcomes
       DEF WriteFails, Crash, LoseTrack, Sending
  <2>3. QED BY <2>1, <2>2
<1>17. CASE Restart
  BY <1>1, <1>2, <1>3, <1>17, QuietOutcomes DEF Restart, Sending
<1>18. CASE UNCHANGED vars
  BY <1>1, <1>2, <1>3, <1>18, QuietOutcomes DEF vars
<1>19. QED
  BY <1>4, <1>5, <1>6, <1>7, <1>8, <1>9, <1>10, <1>11, <1>12, <1>13, <1>14, <1>15,
     <1>16, <1>17, <1>18, OutcomesBegin, OutcomesExecute, OutcomesResolve
     DEF Next, Handler

LEMMA OutcomesInvariant == Spec => []OutcomesAgree
<1>1. IInv /\ OutcomesAgree /\ [Next]_vars => OutcomesAgree'
  BY OutcomesStep
<1>2. QED BY <1>1, OutcomesInit, IInvInvariant, PTL DEF Spec

(* unresolved_executions: a transaction that left the machine and has no   *)
(* outcome is shown to the human, wherever the process died, unless        *)
(* another execution had the same body.                                    *)
THEOREM SentIsShownAlways == Spec => []SentIsShown
<1>1. IInv /\ OutcomesAgree => SentIsShown
  <2> SUFFICES ASSUME IInv, OutcomesAgree, NEW i \in DOMAIN attempts,
                      attempts[i].track \in {"open", "lost"},
                      \A j \in DOMAIN attempts \ {i} : attempts[j].params # attempts[i].params
               PROVE  attempts[i].params \in UnresolvedExecutions
    BY DEF SentIsShown
  <2>1. HasRow(attempts[i].params)
    BY DEF OutcomesAgree, ExecutedHasRow
  <2>2. ~ \E r \in DOMAIN ledger : /\ ledger[r].params = attempts[i].params
                                   /\ ledger[r].decision \in Resolved
    BY DEF OutcomesAgree, ResolvedHasEnded
  <2>3. attempts[i].params \in Params
    <3>1. attempts[i] \in Attempts
      BY DEF IInv, TypeOK
    <3>2. QED BY <3>1 DEF Attempts
  <2>4. QED BY <2>1, <2>2, <2>3 DEF UnresolvedExecutions, HasRow
<1>2. QED BY <1>1, IInvInvariant, OutcomesInvariant, PTL

-----------------------------------------------------------------------------
(* SpendDaemon implements SpendAuthority: whatever crashes and failed      *)
(* saves come between, a queue id stands for one body and an approval of   *)
(* it is good for sending that body once.                                  *)
(*                                                                         *)
(* Most steps leave every id alone.  A save moves many ids at once; that   *)
(* each of its moves is one the authority allows rests on CopiesAgree:     *)
(* memory and queue.json never disagree about an id both have, and memory  *)
(* offers no id below the file's next_qid that the file does not have.     *)

CopiesAgree ==
  /\ pc # "down" =>
       /\ \A q \in DOMAIN queue \cap DOMAIN queueFile.items :
            queue[q] = queueFile.items[q]
       /\ \A q \in DOMAIN queue : q < queueFile.next => q \in DOMAIN queueFile.items
  /\ pc = "savePopped" =>
       /\ job.qid \in DOMAIN queueFile.items => queueFile.items[job.qid] = job.params
       /\ job.qid < queueFile.next => job.qid \in DOMAIN queueFile.items

LEMMA CopiesInit == Init => CopiesAgree
BY EmptyType DEF Init, CopiesAgree

LEMMA QuietCopies ==
  ASSUME CopiesAgree, UNCHANGED <<queue, queueFile>>,
         pc = "down" => pc' = "down",
         pc' = "savePopped" => pc = "savePopped" /\ UNCHANGED job
  PROVE  CopiesAgree'
BY DEF CopiesAgree

LEMMA CopiesStep ==
  ASSUME IInv, CopiesAgree, [Next]_vars
  PROVE  CopiesAgree'
<1> USE DEF memory, disk, bounds, history
<1>1. ASSUME NEW p \in Params, Ask(p) PROVE CopiesAgree'
  <2>1. UNCHANGED queueFile /\ pc = "idle" /\ pc' # "savePopped"
    BY <1>1 DEF Ask, TakeOn
  <2>2. CASE queue' = Put(queue, nextQid, p)
    <3>1. /\ DOMAIN queue' = DOMAIN queue \cup {nextQid}
          /\ \A q \in DOMAIN queue : q # nextQid => queue'[q] = queue[q]
      BY <2>2 DEF Put
    <3>2. /\ queueFile.next <= nextQid /\ nextQid \in Nat /\ queueFile.next \in Nat
          /\ \A q \in DOMAIN queueFile.items : q < queueFile.next /\ q \in Nat
      BY <2>1 DEF IInv, IdsApart, FileIdsBelowNext, MemoryIdsBelowNext, TypeOK, IsQueue
    <3>3. nextQid \notin DOMAIN queueFile.items /\ ~(nextQid < queueFile.next)
      BY <3>2
    <3>4. QED BY <2>1, <3>1, <3>3 DEF CopiesAgree
  <2>3. CASE UNCHANGED queue
    BY <2>1, <2>3 DEF CopiesAgree
  <2>4. QED BY <1>1, <2>2, <2>3 DEF Ask
<1>2. ASSUME NEW qid \in DOMAIN queue, QueueApprove(qid) \/ QueueReject(qid)
      PROVE  CopiesAgree'
  <2>1. /\ UNCHANGED queueFile /\ pc = "idle"
        /\ queue' = Pop(queue, qid)
        /\ job'.qid = qid /\ job'.params = queue[qid]
    BY <1>2 DEF QueueApprove, QueueReject, Decide, TakeOn
  <2>2. DOMAIN queue' = DOMAIN queue \ {qid} /\ \A q \in DOMAIN queue' : queue'[q] = queue[q]
    BY <2>1 DEF Pop
  <2>3. QED BY <2>1, <2>2 DEF CopiesAgree
<1>3. CASE SaveQueue
  <2>1. /\ queueFile'.items = queue' /\ UNCHANGED queue
        /\ pc' \in {"ledgerQueued", "ledgerExecuting", "ledgerRejected"}
    BY <1>3 DEF SaveQueue, SavePcs
  <2>2. QED BY <2>1 DEF CopiesAgree
<1>4. CASE Crash
  <2>1. DOMAIN queue' = {} /\ pc' = "down"
    BY <1>4, EmptyType DEF Crash
  <2>2. QED BY <2>1 DEF CopiesAgree
<1>5. CASE Restart
  BY <1>5 DEF Restart, CopiesAgree
<1>6. CASE AppendDecision \/ AppendExecuting \/ AppendOutcome
  BY <1>6, QuietCopies DEF AppendDecision, AppendExecuting, AppendOutcome
<1>7. CASE ExecuteRefused \/ ExecuteAborted \/ ExecuteNothing \/ Send
  BY <1>7, QuietCopies DEF ExecuteRefused, ExecuteAborted, ExecuteNothing, Send
<1>8. CASE Confirmed \/ BroadcastUnknown \/ FailsAfterSend
  BY <1>8, QuietCopies DEF Confirmed, BroadcastUnknown, FailsAfterSend
<1>9. CASE CountInMemory \/ CountOnDisk \/ Counted
  BY <1>9, QuietCopies DEF CountInMemory, CountOnDisk, Counted, Countings
<1>10. CASE RewritePruned \/ Tick \/ WriteFails \/ UNCHANGED vars
  BY <1>10, QuietCopies DEF RewritePruned, Tick, WriteFails, vars, SavePcs, LedgerPcs
<1>11. ASSUME NEW i \in DOMAIN attempts, Settle(i, "landed") \/ Settle(i, "dropped")
       PROVE  CopiesAgree'
  BY <1>11, QuietCopies DEF Settle
<1>12. QED
  BY <1>1, <1>2, <1>3, <1>4, <1>5, <1>6, <1>7, <1>8, <1>9, <1>10, <1>11
     DEF Next, Handler

LEMMA CopiesInvariant == Spec => []CopiesAgree
<1>1. IInv /\ CopiesAgree /\ [Next]_vars => CopiesAgree'
  BY CopiesStep
<1>2. QED BY <1>1, CopiesInit, IInvInvariant, PTL DEF Spec

-----------------------------------------------------------------------------
(* What a step may do to one id. *)

IdMoves(q) ==
  \/ IdStatus(q)' = IdStatus(q) /\ IdBody(q)' = IdBody(q)
  \/ IdStatus(q) = "free" /\ IdStatus(q)' = "waiting" /\ IdBody(q)' \in Params
  \/ IdStatus(q) = "free" /\ IdStatus(q)' = "granted" /\ IdBody(q)' \in Params
  \/ IdStatus(q) = "free" /\ IdStatus(q)' = "closed" /\ IdBody(q)' = IdBody(q)
  \/ IdStatus(q) = "waiting" /\ IdStatus(q)' = "granted" /\ IdBody(q)' = IdBody(q)
  \/ IdStatus(q) = "granted" /\ IdStatus(q)' = "sent" /\ IdBody(q)' = IdBody(q)
  \/ IdStatus(q) \in {"waiting", "granted"} /\ IdStatus(q)' = "closed" /\ IdBody(q)' = Unset

(* What was sent under an id stays. *)
LEMMA SentStays ==
  ASSUME SameAttempts, NEW q
  PROVE  SentAs(q)' = SentAs(q)
BY DEF SentAs, SameAttempts

LEMMA SentWasExecuted ==
  ASSUME NEW q, SentAs(q) # {}
  PROVE  Executed(q)
BY DEF SentAs, Executed

LEMMA SentBody ==
  ASSUME NEW q, SentAs(q) # {}
  PROVE  (CHOOSE i \in SentAs(q) : TRUE) \in DOMAIN attempts
BY DEF SentAs

(* No save, and the id is in hand after the step if it was before. *)
LEMMA IdSkips ==
  ASSUME SameAttempts, UNCHANGED queueFile, NEW q \in QueueIds,
         InHand(q)' <=> InHand(q), InHand(q) => job'.params = job.params
  PROVE  IdStatus(q)' = IdStatus(q) /\ IdBody(q)' = IdBody(q)
<1>1. SentAs(q)' = SentAs(q)
  BY SentStays
<1>2. IdStatus(q)' = IdStatus(q)
  BY <1>1 DEF IdStatus
<1>3. CASE IdStatus(q) = "sent"
  <2>1. SentAs(q) # {}
    BY <1>3 DEF IdStatus
  <2>2. (CHOOSE i \in SentAs(q) : TRUE) \in DOMAIN attempts
    BY <2>1, SentBody
  <2>3. QED BY <1>1, <1>2, <1>3, <2>2 DEF IdBody, SameAttempts
<1>4. CASE IdStatus(q) = "granted"
  <2>1. InHand(q)
    BY <1>4 DEF IdStatus
  <2>2. QED BY <1>2, <1>4, <2>1 DEF IdBody
<1>5. CASE IdStatus(q) = "waiting"
  BY <1>2, <1>5 DEF IdBody
<1>6. CASE IdStatus(q) \notin {"sent", "granted", "waiting"}
  <2>1. IdBody(q) = Unset
    BY <1>6 DEF IdBody
  <2>2. IdBody(q)' = Unset
    BY <1>2, <1>6 DEF IdBody
  <2>3. QED BY <1>2, <2>1, <2>2
<1>7. QED BY <1>2, <1>3, <1>4, <1>5, <1>6

(* The request in hand ends without sending. *)
LEMMA IdClosed ==
  ASSUME IInv, UNCHANGED queueFile, NEW q \in QueueIds, SentAs(q)' = SentAs(q),
         InHand(q), ~InHand(q)'
  PROVE  IdStatus(q) = "granted" /\ IdStatus(q)' = "closed" /\ IdBody(q)' = Unset
<1>1. q \in Nat /\ q >= 1 /\ job.qid = q /\ pc \in {"ledgerExecuting", "execute"}
  BY DEF QueueIds, InHand
<1>2. q < queueFile.next /\ ~Offered(q) /\ ~Executed(q) /\ queueFile.next \in Nat
  BY <1>1 DEF IInv, IdsApart, IdInHandIsGone, ByPolicy, TypeOK
<1>3. SentAs(q) = {}
  BY <1>2, SentWasExecuted
<1>4. IdStatus(q) = "granted" /\ IdStatus(q)' = "closed"
  BY <1>1, <1>2, <1>3 DEF IdStatus, Offered
<1>5. QED BY <1>4 DEF IdBody

(* The transaction of an approved request leaves the machine. *)
LEMMA IdsSend ==
  ASSUME IInv, Send, NEW q \in QueueIds
  PROVE  IdMoves(q)
<1> USE DEF memory, disk
<1>1. /\ UNCHANGED <<job, queueFile>> /\ pc = "execute" /\ pc' = "await"
      /\ Attempt("pending", "open")
  BY DEF Send
<1>2. /\ attempts' \in Seq(Attempts) /\ attempts \in Seq(Attempts)
      /\ Len(attempts') = Len(attempts) + 1
      /\ \A i \in DOMAIN attempts : attempts'[i] = attempts[i]
      /\ attempts'[Len(attempts')].qid = job.qid
      /\ attempts'[Len(attempts')].params = job.params
      /\ attempts'[Len(attempts')].fate = "pending"
  BY <1>1, AttemptType DEF IInv, TypeOK
<1>3. /\ Len(attempts') \in DOMAIN attempts' /\ Len(attempts') \notin DOMAIN attempts
      /\ \A k : k \in DOMAIN attempts' <=> k \in DOMAIN attempts \/ k = Len(attempts')
  BY <1>2
<1>4. CASE job.qid = q
  <2>1. q \in Nat /\ q >= 1 /\ InHand(q)
    BY <1>1, <1>4 DEF QueueIds, InHand
  <2>2. ~Offered(q) /\ ~Executed(q)
    BY <1>1, <1>4, <2>1 DEF IInv, IdsApart, IdInHandIsGone, ByPolicy
  <2>3. SentAs(q) = {}
    BY <2>2, SentWasExecuted
  <2>4. SentAs(q)' = {Len(attempts')}
    BY <1>2, <1>3, <1>4, <2>3 DEF SentAs
  <2>5. (CHOOSE i \in SentAs(q)' : TRUE) = Len(attempts')
    BY <2>4
  <2>6. IdStatus(q) = "granted" /\ IdStatus(q)' = "sent"
    BY <2>1, <2>2, <2>3, <2>4 DEF IdStatus, Offered
  <2>7. IdBody(q) = job.params
    BY <2>6 DEF IdBody
  <2>8. IdBody(q)' = job.params
    BY <1>2, <2>5, <2>6 DEF IdBody
  <2>9. QED BY <2>6, <2>7, <2>8 DEF IdMoves
<1>5. CASE job.qid # q
  <2>1. SentAs(q)' = SentAs(q)
    BY <1>2, <1>3, <1>5 DEF SentAs
  <2>2. ~InHand(q) /\ ~InHand(q)'
    BY <1>1, <1>5 DEF InHand
  <2>3. IdStatus(q)' = IdStatus(q) /\ IdStatus(q) # "granted"
    BY <1>1, <2>1, <2>2 DEF IdStatus
  <2>4. CASE IdStatus(q) = "sent"
    <3>1. (CHOOSE i \in SentAs(q) : TRUE) \in DOMAIN attempts
      BY <2>4, SentBody DEF IdStatus
    <3>2. QED BY <1>2, <2>1, <2>3, <2>4, <3>1 DEF IdBody, IdMoves
  <2>5. CASE IdStatus(q) = "waiting"
    BY <1>1, <2>3, <2>5 DEF IdBody, IdMoves
  <2>6. CASE IdStatus(q) \notin {"sent", "granted", "waiting"}
    <3>1. IdBody(q) = Unset
      BY <2>6 DEF IdBody
    <3>2. IdBody(q)' = Unset
      BY <2>3, <2>6 DEF IdBody
    <3>3. QED BY <2>3, <3>1, <3>2 DEF IdMoves
  <2>7. QED BY <2>3, <2>4, <2>5, <2>6
<1>6. QED BY <1>4, <1>5

(* An execution that sends nothing. *)
LEMMA IdsNotSent ==
  ASSUME IInv, ExecuteRefused \/ ExecuteAborted \/ ExecuteNothing, NEW q \in QueueIds
  PROVE  IdMoves(q)
<1> USE DEF memory, disk
<1>1. /\ UNCHANGED <<job, queueFile>> /\ pc = "execute"
      /\ pc' \in {"ledgerFailed", "idle", "countOk"}
      /\ \E track \in {"open", "failed", "lost"} : Attempt("unsent", track)
  BY DEF ExecuteRefused, ExecuteAborted, ExecuteNothing
<1>2. PICK track \in {"open", "failed", "lost"} : Attempt("unsent", track)
  BY <1>1
<1>3. /\ attempts' \in Seq(Attempts) /\ attempts \in Seq(Attempts)
      /\ Len(attempts') = Len(attempts) + 1
      /\ \A i \in DOMAIN attempts : attempts'[i] = attempts[i]
      /\ attempts'[Len(attempts')].fate = "unsent"
  BY <1>2, AttemptType DEF IInv, TypeOK
<1>4. \A k : k \in DOMAIN attempts' <=> k \in DOMAIN attempts \/ k = Len(attempts')
  BY <1>3
<1>5. \A x : SentAs(x)' = SentAs(x)
  BY <1>3, <1>4 DEF SentAs
<1>6. ~InHand(q)'
  BY <1>1 DEF InHand
<1>7. CASE InHand(q)
  BY <1>1, <1>5, <1>6, <1>7, IdClosed DEF IdMoves
<1>8. CASE ~InHand(q)
  <2>1. IdStatus(q)' = IdStatus(q) /\ IdStatus(q) # "granted"
    BY <1>1, <1>5, <1>6, <1>8 DEF IdStatus
  <2>2. CASE IdStatus(q) = "sent"
    <3>1. (CHOOSE i \in SentAs(q) : TRUE) \in DOMAIN attempts
      BY <2>2, SentBody DEF IdStatus
    <3>2. SentAs(q)' = SentAs(q)
      BY <1>5
    <3>3. QED BY <1>3, <2>1, <2>2, <3>1, <3>2 DEF IdBody, IdMoves
  <2>3. CASE IdStatus(q) = "waiting"
    BY <1>1, <2>1, <2>3 DEF IdBody, IdMoves
  <2>4. CASE IdStatus(q) \notin {"sent", "granted", "waiting"}
    <3>1. IdBody(q) = Unset
      BY <2>4 DEF IdBody
    <3>2. IdBody(q)' = Unset
      BY <2>1, <2>4 DEF IdBody
    <3>3. QED BY <2>1, <3>1, <3>2 DEF IdMoves
  <2>5. QED BY <2>1, <2>2, <2>3, <2>4
<1>9. QED BY <1>7, <1>8

(* A save moves every id whose two copies differ. *)
LEMMA IdsSaved ==
  ASSUME IInv, CopiesAgree, SaveQueue, NEW q \in QueueIds
  PROVE  IdMoves(q)
<1> USE DEF memory, history
<1>1. /\ UNCHANGED <<job, attempts>>
      /\ queueFile'.next = nextQid /\ queueFile'.items = queue
      /\ pc \in SavePcs
      /\ pc' \in {"ledgerQueued", "ledgerExecuting", "ledgerRejected"}
      /\ pc' = "ledgerExecuting" <=> pc = "savePopped"
  BY DEF SaveQueue, SavePcs
<1>2. /\ nextQid \in Nat /\ queueFile.next \in Nat /\ queueFile.next <= nextQid
      /\ \A x \in DOMAIN queue : x < nextQid
      /\ \A x \in DOMAIN queueFile.items : x < queueFile.next
      /\ IsQueue(queue) /\ IsQueue(queueFile.items) /\ job.params \in Params
  BY <1>1 DEF IInv, IdsApart, FileIdsBelowNext, MemoryIdsBelowNext, TypeOK, SavePcs, Jobs
<1>3. q \in Nat /\ q >= 1
  BY DEF QueueIds
<1>4. SentAs(q)' = SentAs(q)
  BY <1>1 DEF SentAs
<1>5. ~InHand(q)
  BY <1>1 DEF InHand, SavePcs
<1>6. InHand(q)' <=> pc = "savePopped" /\ job.qid = q
  BY <1>1 DEF InHand
<1>7. CASE SentAs(q) # {}
  <2>1. IdStatus(q) = "sent" /\ IdStatus(q)' = "sent"
    BY <1>4, <1>7 DEF IdStatus
  <2>2. IdBody(q)' = IdBody(q)
    BY <1>1, <1>4, <2>1 DEF IdBody
  <2>3. QED BY <2>1, <2>2 DEF IdMoves
<1>8. CASE SentAs(q) = {} /\ q \in DOMAIN queue
  <2>1. IdStatus(q)' = "waiting"
    BY <1>1, <1>4, <1>8 DEF IdStatus
  <2>2. IdBody(q)' = queue[q] /\ queue[q] \in Params
    BY <1>1, <1>2, <1>8, <2>1 DEF IdBody, IsQueue
  <2>3. CASE q \in DOMAIN queueFile.items
    <3>1. IdStatus(q) = "waiting"
      BY <1>8, <2>3 DEF IdStatus
    <3>2. IdBody(q) = queueFile.items[q]
      BY <3>1 DEF IdBody
    <3>3. queue[q] = queueFile.items[q]
      BY <1>1, <1>8, <2>3 DEF CopiesAgree, SavePcs
    <3>4. QED BY <2>1, <2>2, <3>1, <3>2, <3>3 DEF IdMoves
  <2>4. CASE q \notin DOMAIN queueFile.items
    <3>1. ~(q < queueFile.next)
      BY <1>1, <1>8, <2>4 DEF CopiesAgree, SavePcs
    <3>2. IdStatus(q) = "free"
      BY <1>2, <1>3, <1>5, <1>8, <2>4, <3>1 DEF IdStatus
    <3>3. QED BY <2>1, <2>2, <3>2 DEF IdMoves
  <2>5. QED BY <2>3, <2>4
<1>9. CASE SentAs(q) = {} /\ q \notin DOMAIN queue /\ InHand(q)'
  <2>1. IdStatus(q)' = "granted"
    BY <1>1, <1>4, <1>9 DEF IdStatus
  <2>2. IdBody(q)' = job.params
    BY <1>1, <2>1 DEF IdBody
  <2>3. CASE q \in DOMAIN queueFile.items
    <3>1. IdStatus(q) = "waiting"
      BY <1>9, <2>3 DEF IdStatus
    <3>2. IdBody(q) = queueFile.items[q]
      BY <3>1 DEF IdBody
    <3>3. queueFile.items[q] = job.params
      BY <1>6, <1>9, <2>3 DEF CopiesAgree
    <3>4. QED BY <2>1, <2>2, <3>1, <3>2, <3>3 DEF IdMoves
  <2>4. CASE q \notin DOMAIN queueFile.items
    <3>1. ~(q < queueFile.next)
      BY <1>6, <1>9, <2>4 DEF CopiesAgree
    <3>2. IdStatus(q) = "free"
      BY <1>2, <1>3, <1>5, <1>9, <2>4, <3>1 DEF IdStatus
    <3>3. QED BY <1>2, <2>1, <2>2, <3>2 DEF IdMoves
  <2>5. QED BY <2>3, <2>4
<1>10. CASE SentAs(q) = {} /\ q \notin DOMAIN queue /\ ~InHand(q)'
  <2>1. CASE q >= nextQid
    <3>1. q >= queueFile.next /\ q \notin DOMAIN queueFile.items
      BY <1>2, <1>3, <2>1
    <3>2. IdStatus(q) = "free" /\ IdStatus(q)' = "free"
      BY <1>1, <1>4, <1>5, <1>10, <2>1, <3>1 DEF IdStatus
    <3>3. IdBody(q) = Unset /\ IdBody(q)' = Unset
      BY <3>2 DEF IdBody
    <3>4. QED BY <3>2, <3>3 DEF IdMoves
  <2>2. CASE ~(q >= nextQid)
    <3>1. IdStatus(q)' = "closed"
      BY <1>1, <1>4, <1>10, <2>2 DEF IdStatus
    <3>2. IdBody(q)' = Unset
      BY <3>1 DEF IdBody
    <3>3. IdStatus(q) \in {"waiting", "free", "closed"}
      BY <1>5, <1>10 DEF IdStatus
    <3>4. IdStatus(q) # "waiting" => IdBody(q) = Unset
      BY <3>3 DEF IdBody
    <3>5. QED BY <3>1, <3>2, <3>3, <3>4 DEF IdMoves
  <2>3. QED BY <2>1, <2>2
<1>11. QED BY <1>7, <1>8, <1>9, <1>10

LEMMA IdsMove ==
  ASSUME IInv, CopiesAgree, [Next]_vars, NEW q \in QueueIds
  PROVE  IdMoves(q)
<1> USE DEF memory, disk, bounds, history
<1>1. UNCHANGED attempts => SameAttempts
  BY DEF SameAttempts
<1>2. ~InHand(q) /\ ~InHand(q)' /\ SameAttempts /\ UNCHANGED queueFile => IdMoves(q)
  BY IdSkips DEF IdMoves
<1>3. UNCHANGED <<pc, job, queueFile>> /\ SameAttempts => IdMoves(q)
  BY IdSkips DEF IdMoves, InHand
<1>4. attempts \in Seq(Attempts) /\ q # ByPolicy
  BY DEF IInv, TypeOK, QueueIds, ByPolicy
<1>5. ASSUME NEW p \in Params, Ask(p) PROVE IdMoves(q)
  BY <1>1, <1>2, <1>4, <1>5 DEF Ask, TakeOn, InHand
<1>6. ASSUME NEW qid \in DOMAIN queue, QueueApprove(qid) \/ QueueReject(qid)
      PROVE  IdMoves(q)
  BY <1>1, <1>2, <1>6 DEF QueueApprove, QueueReject, Decide, TakeOn, InHand
<1>7. CASE AppendDecision \/ AppendOutcome
  BY <1>1, <1>2, <1>7 DEF AppendDecision, AppendOutcome, InHand
<1>8. CASE AppendExecuting
  <2>1. UNCHANGED <<job, queueFile, attempts>> /\ (InHand(q)' <=> InHand(q))
    BY <1>8 DEF AppendExecuting, InHand
  <2>2. QED BY <1>1, <2>1, IdSkips DEF IdMoves
<1>9. CASE Confirmed \/ BroadcastUnknown
  BY <1>1, <1>2, <1>9 DEF Confirmed, BroadcastUnknown, InHand
<1>10. CASE FailsAfterSend
  <2>1. SameAttempts
    BY <1>4, <1>10, TrackType DEF FailsAfterSend
  <2>2. QED BY <1>2, <1>10, <2>1 DEF FailsAfterSend, InHand
<1>11. CASE CountInMemory \/ CountOnDisk
  BY <1>1, <1>2, <1>11 DEF CountInMemory, CountOnDisk, Countings, InHand
<1>12. CASE Counted
  <2>1. SameAttempts
    BY <1>4, <1>12, TrackType DEF Counted
  <2>2. QED BY <1>2, <1>12, <2>1 DEF Counted, Countings, InHand
<1>13. CASE RewritePruned \/ Restart
  BY <1>1, <1>2, <1>13 DEF RewritePruned, Restart, InHand
<1>14. ASSUME NEW i \in DOMAIN attempts, Settle(i, "landed") \/ Settle(i, "dropped")
       PROVE  IdMoves(q)
  <2>1. SameAttempts
    BY <1>4, <1>14, FateType
  <2>2. QED BY <1>3, <1>14, <2>1 DEF Settle
<1>15. CASE Tick \/ UNCHANGED vars
  BY <1>1, <1>3, <1>15 DEF Tick, vars
<1>16. CASE WriteFails \/ Crash
  <2>1. SameAttempts
    BY <1>1, <1>4, <1>16, TrackType DEF WriteFails, Crash, LoseTrack
  <2>2. ~InHand(q)' /\ UNCHANGED queueFile
    BY <1>16 DEF WriteFails, Crash, InHand
  <2>3. CASE InHand(q)
    BY <2>1, <2>2, <2>3, SentStays, IdClosed DEF IdMoves
  <2>4. CASE ~InHand(q)
    BY <1>2, <2>1, <2>2, <2>4
  <2>5. QED BY <2>3, <2>4
<1>17. QED
  BY <1>5, <1>6, <1>7, <1>8, <1>9, <1>10, <1>11, <1>12, <1>13, <1>14, <1>15, <1>16,
     IdsSaved, IdsSend, IdsNotSent DEF Next, Handler

-----------------------------------------------------------------------------
(* The refinement. *)

LEMMA MappedType ==
  TypeOK => \A q \in QueueIds : /\ IdStatus(q) \in Authority!Statuses
                                /\ IdBody(q) \in Params \cup {Unset}
<1> SUFFICES ASSUME TypeOK, NEW q \in QueueIds
             PROVE  IdStatus(q) \in Authority!Statuses /\ IdBody(q) \in Params \cup {Unset}
  OBVIOUS
<1>1. IdStatus(q) \in {"sent", "waiting", "granted", "free", "closed"}
  BY DEF IdStatus
<1>2. CASE IdStatus(q) = "sent"
  <2>1. (CHOOSE i \in SentAs(q) : TRUE) \in DOMAIN attempts
    BY <1>2, SentBody DEF IdStatus
  <2>2. attempts[CHOOSE i \in SentAs(q) : TRUE] \in Attempts
    BY <2>1 DEF TypeOK
  <2>3. QED BY <1>1, <1>2, <2>2 DEF IdBody, Attempts, Authority!Statuses
<1>3. CASE IdStatus(q) = "waiting"
  <2>1. q \in DOMAIN queueFile.items
    BY <1>3 DEF IdStatus
  <2>2. QED BY <1>1, <1>3, <2>1 DEF IdBody, TypeOK, IsQueue, Authority!Statuses
<1>4. CASE IdStatus(q) = "granted"
  BY <1>1, <1>4 DEF IdBody, TypeOK, Jobs, Authority!Statuses
<1>5. CASE IdStatus(q) \notin {"sent", "waiting", "granted"}
  BY <1>1, <1>5 DEF IdBody, Authority!Statuses
<1>6. QED BY <1>2, <1>3, <1>4, <1>5

LEMMA AuthorityStarts == Init => Authority!AuthorityInit
<1> SUFFICES ASSUME Init, NEW q \in QueueIds
             PROVE  IdStatus(q) = "free" /\ IdBody(q) = Unset
  BY DEF Authority!AuthorityInit
<1>1. SentAs(q) = {} /\ q \notin DOMAIN queueFile.items /\ ~InHand(q)
  BY EmptyType DEF Init, SentAs, InHand
<1>2. q >= queueFile.next
  BY DEF Init, QueueIds
<1>3. IdStatus(q) = "free"
  BY <1>1, <1>2 DEF IdStatus
<1>4. QED BY <1>3 DEF IdBody

LEMMA AuthorityStep ==
  ASSUME IInv, IInv', CopiesAgree, [Next]_vars
  PROVE  Authority!AuthorityNext
<1>1. \A q \in QueueIds : IdMoves(q)
  BY IdsMove
<1>2. \A q \in QueueIds : IdStatus(q)' \in Authority!Statuses
                          /\ IdBody(q)' \in Params \cup {Unset}
  <2>1. (TypeOK => \A q \in QueueIds : /\ IdStatus(q) \in Authority!Statuses
                                       /\ IdBody(q) \in Params \cup {Unset})'
    BY MappedType, PTL
  <2>2. QED BY <2>1 DEF IInv, Authority!Statuses, QueueIds
<1>3. ASSUME NEW q \in QueueIds PROVE Authority!IdStep(q)
  <2>1. IdMoves(q)
    BY <1>1
  <2>2. QED
    BY <2>1 DEF IdMoves, Authority!IdStep, Authority!HandOut, Authority!Grant,
                Authority!SendOnce, Authority!Close, Authority!Skip,
                Authority!HandOutRejected, Authority!HandOutGranted, Authority!Moves
<1>4. QED BY <1>2, <1>3 DEF Authority!AuthorityNext

(* rt_queue_approve, _save_queue: every behaviour of the daemon keeps the  *)
(* promise of its queue.                                                   *)
THEOREM DaemonImplementsAuthority == Spec => ImplementsAuthority
<1>1. IInv /\ IInv' /\ CopiesAgree /\ [Next]_vars =>
        [Authority!AuthorityNext]_(Authority!avars)
  BY AuthorityStep
<1>2. QED
  BY <1>1, AuthorityStarts, IInvInvariant, CopiesInvariant, PTL
     DEF Spec, ImplementsAuthority, Authority!AuthoritySpec
=============================================================================

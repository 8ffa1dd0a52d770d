----------------------------- MODULE SpendDaemon -----------------------------
(***************************************************************************)
(* The spend life cycle of spellbookd (daemon.py): a request is judged by  *)
(* policy, waits in the human's queue or executes at once; an execution is *)
(* bracketed by ledger rows and counted against the 24h velocity window.   *)
(*                                                                         *)
(* The daemon serves one request at a time, so the concurrency is between  *)
(* that one handler and its environment: the process may die between any   *)
(* two durable writes, a write may fail, and a transaction that was handed *)
(* to the network may land at any moment after, or never.  Each action     *)
(* below is the part of a handler up to and including one durable write or *)
(* one call to the network; pc names the write or call that comes next.    *)
(***************************************************************************)
EXTENDS Policy, Sequences, Functions

CONSTANTS
  Keys, Destinations,
  SpendPolicy,     \* policy.json as load_policy returns it
  Params,          \* request bodies; equal bodies have equal canon_digests
  Request,         \* what a body asks for: its kind, velocity legs and destination
  Window,          \* VELOCITY_WINDOW_S, in ticks of the clock
  MaxRequests,     \* bound on accepted requests
  MaxClock,        \* bound on the clock
  MaxCrashes,      \* bound on kills of the process
  MaxWriteErrors   \* bound on writes to disk that raise

Kinds == {"transfer",    \* rt_request_spend
          "intent",      \* _run_fund_intent
          "humanOnly",   \* an intent of ALWAYS_QUEUE_INTENTS
          "forced"}      \* _run_fund_intent(force_queue=True)

Legs == [key : Keys, amount : Nat]

ASSUME SpendAssumption ==
  /\ Params # {}
  /\ SpendPolicy \in Policies(Keys, Destinations)
  /\ Request \in [Params -> [kind : Kinds, legs : Seq(Legs),
                             destination : Destinations \cup {NoDestination}]]
  /\ \A p \in Params : Request[p].kind = "transfer" => Len(Request[p].legs) = 1
  /\ {Window, MaxRequests, MaxClock, MaxCrashes, MaxWriteErrors} \subseteq Nat

VARIABLES
  \* memory of the process
  pc,            \* what the handler does next; "down" while no process runs
  job,           \* the request in hand: its body, its queue id, legs left to count
  queue,         \* self.queue, from queue ids to bodies
  nextQid,       \* self.next_qid
  velocity,      \* self.velocity
  \* disk
  queueFile,     \* queue.json
  velocityFile,  \* velocity.jsonl
  ledger,        \* ledger.jsonl
  \* environment
  clock, asked, crashes, writeErrors,
  \* history, read by the properties only
  attempts,      \* the executions, and what became of their transaction
  decided,       \* the queue ids the human has approved or rejected
  torn           \* velocity.jsonl was lost between its truncation and rewrite

memory == <<queue, nextQid, velocity>>
disk == <<queueFile, velocityFile, ledger>>
bounds == <<clock, asked, crashes, writeErrors>>
history == <<attempts, decided, torn>>
vars == <<pc, job, memory, disk, bounds, history>>

ByPolicy == 0   \* the queue id of an execution no human was asked about

SavePcs == {"saveQueued", "savePopped", "saveRejected"}
LedgerPcs == {"ledgerQueued", "ledgerDenied", "ledgerRejected", "ledgerExecuting",
              "ledgerOk", "ledgerUnknown", "ledgerFailed"}
Pcs == {"down", "pruning", "idle", "execute", "await", "countOk", "countUnknown",
        "countOkFile", "countUnknownFile"} \cup SavePcs \cup LedgerPcs

Resolved == {"approved", "approved-by-human",
             "approved-submit-failed", "approved-submit-unknown"}
Decisions == Resolved \cup {"queued", "denied", "rejected-by-human", "executing"}

Rows == [decision : Decisions, params : Params, qid : Nat]
Entries == [ts : Nat, key : Keys, amount : Nat, attempt : Nat, legsLeft : Nat]
Attempts == [params : Params, qid : Nat, sentAt : Nat,
             fate : {"unsent", "pending", "landed", "dropped"},
             track : {"open", "counted", "failed", "lost"}]
Jobs == [params : Params, qid : Nat, legs : Seq(Legs)]

Put(f, k, v) == [x \in DOMAIN f \cup {k} |-> IF x = k THEN v ELSE f[x]]
Pop(f, k) == [x \in DOMAIN f \ {k} |-> f[x]]
Empty == [x \in {} |-> x]

NoJob == [params |-> CHOOSE p \in Params : TRUE, qid |-> ByPolicy, legs |-> <<>>]

(* A ledger row; only "queued:<qid>" names an id. *)
Row(decision, params) == [decision |-> decision, params |-> params, qid |-> ByPolicy]
QueuedRow(params, qid) == [decision |-> "queued", params |-> params, qid |-> qid]
Current == Len(attempts)

Init ==
  /\ pc = "idle"
  /\ job = NoJob
  /\ queue = Empty /\ nextQid = 1 /\ velocity = {}
  /\ queueFile = [next |-> 1, items |-> Empty]
  /\ velocityFile = {} /\ ledger = <<>>
  /\ clock = 0 /\ asked = 0 /\ crashes = 0 /\ writeErrors = 0
  /\ attempts = <<>> /\ decided = {} /\ torn = FALSE

-----------------------------------------------------------------------------
(* Verdicts. *)

(* Mutant: an entry of exactly the window's age is forgotten. *)
LiveYounger(entries) == {e \in entries : e.ts > clock - Window}

Live(entries) == {e \in entries : e.ts >= clock - Window}

(* spent_last_24h *)
SpentLast24h(key) ==
  SumFunction([e \in {x \in Live(velocity) : x.key = key} |-> e.amount])

(* The verdict of rt_request_spend and _run_fund_intent on a body. *)
Verdict(p) ==
  LET r == Request[p]
      spent == [k \in Keys |-> SpentLast24h(k)]
      judged == DecideFundIntent(SpendPolicy, r.legs, spent)
  IN  CASE r.kind = "transfer" -> Evaluate(SpendPolicy, r.legs[1].key, r.legs[1].amount,
                                           r.destination, spent[r.legs[1].key])
      []   r.kind = "intent" -> judged
      []   r.kind = "humanOnly" -> IF judged = "approved" THEN "queued" ELSE judged
      []   r.kind = "forced" -> "queued"

-----------------------------------------------------------------------------
(* The routes, up to their first durable write. *)

TakeOn(p, qid, next) ==
  /\ pc = "idle"
  /\ job' = [params |-> p, qid |-> qid, legs |-> Request[p].legs]
  /\ pc' = next

Ask(p) ==
  /\ asked < MaxRequests
  /\ asked' = asked + 1
  /\ \/ /\ Verdict(p) = "queued"
        /\ TakeOn(p, nextQid, "saveQueued")
        /\ queue' = Put(queue, nextQid, p)
        /\ nextQid' = nextQid + 1
     \/ /\ Verdict(p) = "denied"
        /\ TakeOn(p, ByPolicy, "ledgerDenied")
        /\ UNCHANGED <<queue, nextQid>>
     \/ /\ Verdict(p) = "approved"
        /\ TakeOn(p, ByPolicy, "ledgerExecuting")
        /\ UNCHANGED <<queue, nextQid>>
  /\ UNCHANGED <<velocity, disk, clock, crashes, writeErrors, history>>

(* Mutant: the item leaves the queue only when its execution is over. *)
DecideWithoutPop(qid, next) ==
  /\ qid \in DOMAIN queue
  /\ TakeOn(queue[qid], qid, next)
  /\ decided' = decided \cup {qid}
  /\ UNCHANGED <<queue, nextQid, velocity, disk, bounds, attempts, torn>>

(* rt_queue_approve and rt_queue_reject pop the item before anything else. *)
Decide(qid, next) ==
  /\ qid \in DOMAIN queue
  /\ TakeOn(queue[qid], qid, next)
  /\ queue' = Pop(queue, qid)
  /\ decided' = decided \cup {qid}
  /\ UNCHANGED <<nextQid, velocity, disk, bounds, attempts, torn>>

QueueApprove(qid) == Decide(qid, "savePopped")
QueueReject(qid) == Decide(qid, "saveRejected")

(* Mutant: an approval is executed before the queue without it is saved. *)
SaveNoApproval ==
  /\ pc \in SavePcs
  /\ queueFile' = IF pc = "savePopped" THEN queueFile
                  ELSE [next |-> nextQid, items |-> queue]
  /\ pc' = CASE pc = "saveQueued" -> "ledgerQueued"
           []   pc = "savePopped" -> "ledgerExecuting"
           []   pc = "saveRejected" -> "ledgerRejected"
  /\ UNCHANGED <<job, memory, velocityFile, ledger, bounds, history>>

(* _save_queue: next_qid and the items replace the file in one rename. *)
SaveQueue ==
  /\ pc \in SavePcs
  /\ queueFile' = [next |-> nextQid, items |-> queue]
  /\ pc' = CASE pc = "saveQueued" -> "ledgerQueued"
           []   pc = "savePopped" -> "ledgerExecuting"
           []   pc = "saveRejected" -> "ledgerRejected"
  /\ UNCHANGED <<job, memory, velocityFile, ledger, bounds, history>>

(* Ledger.append of every row but an execution's outcome. *)
AppendDecision ==
  /\ \/ pc = "ledgerQueued" /\ ledger' = Append(ledger, QueuedRow(job.params, job.qid))
     \/ pc = "ledgerDenied" /\ ledger' = Append(ledger, Row("denied", job.params))
     \/ pc = "ledgerRejected"
        /\ ledger' = Append(ledger, Row("rejected-by-human", job.params))
  /\ pc' = "idle"
  /\ UNCHANGED <<job, memory, queueFile, velocityFile, bounds, history>>

AppendExecuting ==
  /\ pc = "ledgerExecuting"
  /\ ledger' = Append(ledger, Row("executing", job.params))
  /\ pc' = "execute"
  /\ UNCHANGED <<job, memory, queueFile, velocityFile, bounds, history>>
-----------------------------------------------------------------------------
(* _execute_spend.  The executors of the chains differ in their calls; to  *)
(* the life cycle they are the outcomes below (EvmExecutor details one).   *)

WithTrack(attempt, track) == [attempt EXCEPT !.track = track]
WithFate(attempt, fate) == [attempt EXCEPT !.fate = fate]

Attempt(fate, track) ==
  attempts' = Append(attempts, [params |-> job.params, qid |-> job.qid,
                                sentAt |-> clock, fate |-> fate, track |-> track])

(* A guard, a quote, a balance or a closed gate refuses: one of the error  *)
(* classes the handlers catch, before anything is signed.                  *)
ExecuteRefused ==
  /\ pc = "execute" /\ pc' = "ledgerFailed"
  /\ Attempt("unsent", "failed")
  /\ UNCHANGED <<job, memory, disk, bounds, decided, torn>>

(* Mutant: such an error leaves the handler where it was. *)
AbortedForGood ==
  /\ pc = "execute" /\ pc' = "aborted"
  /\ Attempt("unsent", "lost")
  /\ UNCHANGED <<job, memory, disk, bounds, decided, torn>>

(* An error class the handlers do not catch, an OfferError for one: the    *)
(* request ends in "internal error" or a structured error, with no row.    *)
ExecuteAborted ==
  /\ pc = "execute" /\ pc' = "idle"
  /\ Attempt("unsent", "lost")
  /\ UNCHANGED <<job, memory, disk, bounds, decided, torn>>

(* submitted: False, the chain has no network configured.                  *)
ExecuteNothing ==
  /\ pc = "execute" /\ pc' = "countOk"
  /\ Attempt("unsent", "open")
  /\ UNCHANGED <<job, memory, disk, bounds, decided, torn>>

(* The signed transaction leaves the machine. *)
Send ==
  /\ pc = "execute" /\ pc' = "await"
  /\ Attempt("pending", "open")
  /\ UNCHANGED <<job, memory, disk, bounds, decided, torn>>

(* The executor saw the transaction confirmed. *)
Confirmed ==
  /\ pc = "await" /\ attempts[Current].fate = "landed"
  /\ pc' = "countOk"
  /\ UNCHANGED <<job, memory, disk, bounds, history>>

(* BroadcastUnknown: no confirmation within the executor's patience. *)
BroadcastUnknown ==
  /\ pc = "await"
  /\ pc' = "countUnknown"
  /\ UNCHANGED <<job, memory, disk, bounds, history>>

(* A plain error after the broadcast: the chain reports the transaction    *)
(* failed, or the call that sends it or asks after it breaks.              *)
FailsAfterSend ==
  /\ pc = "await"
  /\ pc' = "ledgerFailed"
  /\ attempts' = [attempts EXCEPT ![Current] = WithTrack(@, "failed")]
  /\ UNCHANGED <<job, memory, disk, bounds, decided, torn>>

-----------------------------------------------------------------------------
(* _record_velocity_entries, leg by leg: memory first, then the file, each *)
(* with its own reading of the clock.                                      *)

Entry == [ts |-> clock, key |-> Head(job.legs).key, amount |-> Head(job.legs).amount,
          attempt |-> Current, legsLeft |-> Len(job.legs)]

Countings == {<<"countOk", "countOkFile", "ledgerOk">>,
              <<"countUnknown", "countUnknownFile", "ledgerUnknown">>}

CountInMemory ==
  \E c \in Countings :
    /\ pc = c[1] /\ job.legs # <<>>
    /\ pc' = c[2]
    /\ velocity' = velocity \cup {Entry}
    /\ UNCHANGED <<job, queue, nextQid, disk, bounds, history>>

(* Mutant: only the last leg of an intent reaches the file. *)
CountLastLegOnDisk ==
  \E c \in Countings :
    /\ pc = c[2]
    /\ pc' = c[1]
    /\ velocityFile' = IF Len(job.legs) > 1 THEN velocityFile
                       ELSE velocityFile \cup {Entry}
    /\ job' = [job EXCEPT !.legs = Tail(@)]
    /\ UNCHANGED <<memory, queueFile, ledger, bounds, history>>

CountOnDisk ==
  \E c \in Countings :
    /\ pc = c[2]
    /\ pc' = c[1]
    /\ velocityFile' = velocityFile \cup {Entry}
    /\ job' = [job EXCEPT !.legs = Tail(@)]
    /\ UNCHANGED <<memory, queueFile, ledger, bounds, history>>

Counted ==
  \E c \in Countings :
    /\ pc = c[1] /\ job.legs = <<>>
    /\ pc' = c[3]
    /\ attempts' = [attempts EXCEPT ![Current] = WithTrack(@, "counted")]
    /\ UNCHANGED <<job, memory, disk, bounds, decided, torn>>

(* The outcome row, and the answer to the client. *)
AppendOutcome ==
  /\ \/ pc = "ledgerOk"
        /\ ledger' = Append(ledger, Row(IF job.qid = ByPolicy THEN "approved"
                                        ELSE "approved-by-human", job.params))
     \/ pc = "ledgerUnknown"
        /\ ledger' = Append(ledger, Row("approved-submit-unknown", job.params))
     \/ pc = "ledgerFailed"
        /\ ledger' = Append(ledger, Row("approved-submit-failed", job.params))
  /\ pc' = "idle"
  /\ UNCHANGED <<job, memory, queueFile, velocityFile, bounds, history>>

-----------------------------------------------------------------------------
(* The environment: time, the network, a full disk, a kill and a restart.  *)

Tick ==
  /\ clock < MaxClock
  /\ clock' = clock + 1
  /\ UNCHANGED <<pc, job, memory, disk, asked, crashes, writeErrors, history>>

Settle(i, fate) ==
  /\ attempts[i].fate = "pending"
  /\ attempts' = [attempts EXCEPT ![i] = WithFate(@, fate)]
  /\ UNCHANGED <<pc, job, memory, disk, bounds, decided, torn>>

(* A request that ends before its outcome row leaves the transaction it    *)
(* sent, if any, outside of the velocity window.                           *)
LoseTrack ==
  attempts' = IF pc \in {"await", "countOk", "countUnknown",
                         "countOkFile", "countUnknownFile"}
              THEN [attempts EXCEPT ![Current] = WithTrack(@, "lost")]
              ELSE attempts

(* A write raises OSError: the handler ends, its memory stays changed. *)
WriteFails ==
  /\ writeErrors < MaxWriteErrors
  /\ writeErrors' = writeErrors + 1
  /\ pc \in SavePcs \cup LedgerPcs \cup {"countOkFile", "countUnknownFile"}
  /\ pc' = "idle"
  /\ LoseTrack
  /\ UNCHANGED <<job, memory, disk, clock, asked, crashes, decided, torn>>

Crash ==
  /\ crashes < MaxCrashes
  /\ crashes' = crashes + 1
  /\ pc # "down" /\ pc' = "down"
  /\ LoseTrack
  /\ torn' = (torn \/ pc = "pruning")
  /\ job' = NoJob
  /\ queue' = Empty /\ nextQid' = 1 /\ velocity' = {}
  /\ UNCHANGED <<disk, clock, asked, writeErrors, decided>>

(* Mutant: ids are numbered anew from the items that wait. *)
RestartRenumbering ==
  /\ pc = "down" /\ pc' = "idle"
  /\ queue' = queueFile.items
  /\ nextQid' = Cardinality(DOMAIN queueFile.items) + 1
  /\ velocity' = Live(velocityFile)
  /\ UNCHANGED <<job, disk, bounds, history>>

(* Mutant: a restart begins with an empty queue. *)
RestartForgetful ==
  /\ pc = "down" /\ pc' = "idle"
  /\ queue' = Empty /\ nextQid' = queueFile.next
  /\ velocity' = Live(velocityFile)
  /\ UNCHANGED <<job, disk, bounds, history>>

(* __init__: _load_queue, then _load_velocity, which prunes entries older  *)
(* than the window.  A pruning rewrites the file in place: open(.., "w")   *)
(* has truncated it before the entries that stay are written back.         *)
Restart ==
  /\ pc = "down"
  /\ queue' = queueFile.items /\ nextQid' = queueFile.next
  /\ velocity' = Live(velocityFile)
  /\ IF Live(velocityFile) = velocityFile
     THEN pc' = "idle" /\ UNCHANGED velocityFile
     ELSE pc' = "pruning" /\ velocityFile' = {}
  /\ UNCHANGED <<job, queueFile, ledger, bounds, history>>

RewritePruned ==
  /\ pc = "pruning" /\ pc' = "idle"
  /\ velocityFile' = velocity
  /\ UNCHANGED <<job, memory, queueFile, ledger, bounds, history>>

-----------------------------------------------------------------------------
(* Mutant: the executors wait for a confirmation without a deadline. *)
HandlerWithoutDeadline ==
  \/ SaveQueue \/ AppendDecision \/ AppendExecuting
  \/ ExecuteRefused \/ ExecuteAborted \/ ExecuteNothing \/ Send \/ Confirmed
  \/ CountInMemory \/ CountOnDisk \/ Counted \/ AppendOutcome
  \/ RewritePruned

(* One step of the request in hand. *)
Handler ==
  \/ SaveQueue \/ AppendDecision \/ AppendExecuting
  \/ ExecuteRefused \/ ExecuteAborted \/ ExecuteNothing \/ Send
  \/ Confirmed \/ BroadcastUnknown \/ FailsAfterSend
  \/ CountInMemory \/ CountOnDisk \/ Counted \/ AppendOutcome
  \/ RewritePruned

Next ==
  \/ \E p \in Params : Ask(p)
  \/ \E qid \in DOMAIN queue : QueueApprove(qid) \/ QueueReject(qid)
  \/ Handler
  \/ \E i \in DOMAIN attempts : Settle(i, "landed") \/ Settle(i, "dropped")
  \/ Tick \/ WriteFails \/ Crash \/ Restart

(* The handler runs to its end on its own: its network calls have timeouts.*)
(* Nothing obliges the requester to ask, the human to decide, the chain to *)
(* settle or the operator to restart.                                      *)
Spec == Init /\ [][Next]_vars /\ WF_vars(Handler)

-----------------------------------------------------------------------------
IsQueue(items) == items \in [DOMAIN items -> Params] /\ DOMAIN items \subseteq Nat

(* The daemon, its three files and the histories keep their shape. *)
TypeOK ==
  /\ pc \in Pcs
  /\ job \in Jobs
  /\ IsQueue(queue)
  /\ nextQid \in Nat
  /\ velocity \subseteq Entries
  /\ queueFile = [next |-> queueFile.next, items |-> queueFile.items]
  /\ queueFile.next \in Nat
  /\ IsQueue(queueFile.items)
  /\ velocityFile \subseteq Entries
  /\ ledger \in Seq(Rows)
  /\ {clock, asked, crashes, writeErrors} \subseteq Nat
  /\ attempts \in Seq(Attempts)
  /\ decided \subseteq Nat
  /\ torn \in BOOLEAN

(* One approval is one execution attempt: whatever crashes and failed      *)
(* writes come between, no queue id is ever executed a second time.        *)
OneApprovalOneAttempt ==
  \A i, j \in DOMAIN attempts :
    attempts[i].qid = attempts[j].qid /\ attempts[i].qid # ByPolicy => i = j

(* "queued:<qid>" in the ledger says what an approval of qid is for: no id *)
(* is announced twice, and what runs under it is the body announced.       *)
AnnouncedIsWhatRuns ==
  \A i \in DOMAIN ledger : ledger[i].decision = "queued" =>
    /\ \A j \in DOMAIN ledger :
         ledger[j].decision = "queued" /\ ledger[j].qid = ledger[i].qid => i = j
    /\ \A k \in DOMAIN attempts :
         attempts[k].qid = ledger[i].qid => attempts[k].params = ledger[i].params

(* A request answered with "queued" waits in queue.json, through crashes   *)
(* and failed writes, until the human decides on it.                       *)
AnnouncedIsKept ==
  \A i \in DOMAIN ledger :
    ledger[i].decision = "queued" /\ ledger[i].qid \notin decided =>
      /\ ledger[i].qid \in DOMAIN queueFile.items
      /\ queueFile.items[ledger[i].qid] = ledger[i].params
      /\ pc # "down" => ledger[i].qid \in DOMAIN queue

LiveAttempt(i) == attempts[i].sentAt >= clock - Window

(* A transaction whose execution came to its end with "approved" or        *)
(* "approved-submit-unknown" is in velocity.jsonl, every leg of it, until  *)
(* it is a window old: the next process will count it too.                 *)
CountedStaysOnDisk ==
  torn \/ pc = "pruning" \/
  \A i \in DOMAIN attempts :
    attempts[i].track = "counted" /\ LiveAttempt(i) =>
      \A l \in DOMAIN Request[attempts[i].params].legs :
        \E e \in velocityFile :
          /\ e.attempt = i
          /\ e.key = Request[attempts[i].params].legs[l].key
          /\ e.amount = Request[attempts[i].params].legs[l].amount

AmountOf(i, key) ==
  LET legs == Request[attempts[i].params].legs
  IN  SumFunction([l \in {m \in DOMAIN legs : legs[m].key = key} |-> legs[l].amount])

(* The leg is all that its request spends of its key.                      *)
IsWholeSpend(legs, l) == \A m \in DOMAIN legs : legs[m].key = legs[l].key => m = l

(* The daily cap: when policy itself approves a spend, it and all that was *)
(* sent in the 24 hours before it, by policy or by the human, fit the cap  *)
(* of its key.  Not counted are transactions the daemon has lost track of. *)
(* Of two legs of one key each is judged as if it were alone; the routes   *)
(* merge such legs, all but dex_lp_add with two names of the native asset. *)
CapHolds ==
  torn \/
  \A k \in DOMAIN attempts : attempts[k].qid = ByPolicy =>
    LET legs == Request[attempts[k].params].legs
        counted == {i \in 1 .. k : /\ attempts[i].fate \in {"pending", "landed"}
                                   /\ attempts[i].track \in {"open", "counted"}
                                   /\ attempts[i].sentAt >= attempts[k].sentAt - Window}
        total(key) == SumFunction([i \in counted |-> AmountOf(i, key)])
    IN  \A l \in DOMAIN legs : IsWholeSpend(legs, l) =>
          ~Exceeds(total(legs[l].key), SpendPolicy.dailyVelocityCap[legs[l].key])

(* Mutant: any other row of the same body resolves the execution. *)
UnresolvedUnlessMentioned ==
  {p \in Params : /\ \E i \in DOMAIN ledger : ledger[i] = Row("executing", p)
                  /\ \A i \in DOMAIN ledger : ledger[i].params = p =>
                                                ledger[i] = Row("executing", p)}

(* unresolved_executions *)
UnresolvedExecutions ==
  {p \in Params : /\ \E i \in DOMAIN ledger : ledger[i] = Row("executing", p)
                  /\ ~ \E i \in DOMAIN ledger : /\ ledger[i].params = p
                                                 /\ ledger[i].decision \in Resolved}

(* A transaction that was sent and has no outcome row yet is shown to the  *)
(* human, if no other execution had the same body.                         *)
SentIsShown ==
  \A i \in DOMAIN attempts :
    /\ attempts[i].fate # "unsent" /\ attempts[i].track \in {"open", "lost"}
    /\ \A j \in DOMAIN attempts \ {i} : attempts[j].params # attempts[i].params
    => attempts[i].params \in UnresolvedExecutions

(* What SPEC_V1 10 step 11 asks of a kill -9: the velocity window survives *)
(* the restart.  A spend counted on disk is counted by the process that    *)
(* next serves a request.                                                  *)
VelocitySurvivesRestart ==
  pc = "idle" =>
    \A i \in DOMAIN attempts :
      attempts[i].track = "counted" /\ LiveAttempt(i)
        /\ Request[attempts[i].params].legs # <<>>
      => \E e \in velocity : e.attempt = i

(* A request in hand comes to its end, unless the process dies first. *)
HandlerEnds == pc \notin {"idle", "down"} ~> pc \in {"idle", "down"}

-----------------------------------------------------------------------------
(* The daemon implements SpendAuthority.  queue.json is what counts: an id *)
(* stands for a request once a save has named it, and is granted once a    *)
(* save has dropped it on the way to its execution.                        *)
QueueIds == 1 .. MaxRequests

SentAs(qid) == {i \in DOMAIN attempts : attempts[i].qid = qid /\ attempts[i].fate # "unsent"}
InHand(qid) == pc \in {"ledgerExecuting", "execute"} /\ job.qid = qid

IdStatus(qid) == IF SentAs(qid) # {} THEN "sent"
                 ELSE IF qid \in DOMAIN queueFile.items THEN "waiting"
                 ELSE IF InHand(qid) THEN "granted"
                 ELSE IF qid >= queueFile.next THEN "free"
                 ELSE "closed"

IdBody(qid) == CASE IdStatus(qid) = "waiting" -> queueFile.items[qid]
               []   IdStatus(qid) = "granted" -> job.params
               []   IdStatus(qid) = "sent" -> attempts[CHOOSE i \in SentAs(qid) : TRUE].params
               []   OTHER -> Unset

Authority == INSTANCE SpendAuthority
  WITH Ids <- QueueIds, Bodies <- Params, NoBody <- Unset,
       status <- [qid \in QueueIds |-> IdStatus(qid)],
       body <- [qid \in QueueIds |-> IdBody(qid)]

(* Every behaviour of the daemon keeps the promise of its queue. *)
ImplementsAuthority == Authority!AuthoritySpec
=============================================================================

--------------------------- MODULE RelayBroadcast ---------------------------
(***************************************************************************)
(* How a signed Chia bundle leaves the machine and what the daemon learns  *)
(* of it.  spellbookd posts the bundle to the relay (chia_relay.RelayRpc), *)
(* the relay's HTTP handler (relay/server.py) picks one peer connection    *)
(* (relay/peer.py, ChiaPeer), the full node behind it answers with a       *)
(* TransactionAck, and the answer travels back.  Every hop may be late or  *)
(* lost on its own.                                                        *)
(*                                                                         *)
(* A call is one request of one wallet; the bundle it carries, and the     *)
(* bundle's txid, are named by the call.  A connection is one ChiaPeer     *)
(* object: a reconnection makes another one.  Timers are not clocked: a    *)
(* timeout may fire whenever what it waits for is outstanding, which       *)
(* covers every duration of the messages (the daemon and the relay both    *)
(* wait 60 s, and the daemon starts first).                                *)
(***************************************************************************)
EXTENDS Naturals, Sequences, FiniteSets

CONSTANTS
  Calls,      \* requests made of one relay instance
  Lookups,    \* those that ask for coins; the others broadcast a bundle
  Conns,      \* connections the relay makes, one after another or together
  IdSpace     \* message ids are 1 .. IdSpace - 1 (65536 in the code)

ASSUME CallsAssumption == Lookups \subseteq Calls
ASSUME IdAssumption == IdSpace \in Nat \ {0, 1}

VARIABLES
  echoIds,   \* whether the nodes answer with the id they were asked with
  handler,   \* the relay's HTTP handler of a call
  reply,     \* what it answered
  verdict,   \* what the daemon records of the call
  conn,      \* state of a connection
  waiting,   \* ChiaPeer._lock: the calls that hold it (the head) or wait for it
  pending,   \* ChiaPeer._pending
  sending,   \* connections whose socket still takes the request
  nextId,    \* ChiaPeer._next_id
  atNode,    \* requests the node has and has not answered
  answers,   \* answers on their way to the relay
  mempool,   \* bundles some node took into its mempool
  log        \* State.broadcast_log

broadcastVars == <<echoIds, handler, reply, verdict, conn, waiting, pending, sending,
          nextId, atNode, answers, mempool, log>>

NoId == 0
NoRequest == [id |-> NoId]
Kind(c) == IF c \in Lookups THEN "lookup" ELSE "ack"
Requests == [call : Calls, id : 1 .. IdSpace - 1]
Error == [ok |-> FALSE]
NoReply == [ended |-> FALSE]

\* The handler has its call in hand, from Arrive to the answer.
AtRelay(c) == handler[c] \in {"queued", "inflight"}
Connected(p) == conn[p] = "up"

BroadcastInit ==
  /\ echoIds \in BOOLEAN
  /\ handler = [c \in Calls |-> "idle"]
  /\ reply = [c \in Calls |-> NoReply]
  /\ verdict = [c \in Calls |-> "none"]
  /\ conn = [p \in Conns |-> "fresh"]
  /\ waiting = [p \in Conns |-> <<>>]
  /\ pending = [p \in Conns |-> NoRequest]
  /\ sending = {}
  /\ nextId = [p \in Conns |-> 1]
  /\ atNode = [p \in Conns |-> {}]
  /\ answers = [p \in Conns |-> {}]
  /\ mempool = {}
  /\ log = {}

-----------------------------------------------------------------------------
(* Connections                                                             *)

Connect(p) ==
  /\ conn[p] = "fresh"
  /\ conn' = [conn EXCEPT ![p] = "up"]
  /\ UNCHANGED <<echoIds, handler, reply, verdict, waiting, pending, sending, nextId,
                 atNode, answers, mempool, log>>

\* The handler of call c gives up: an error answer, nothing logged.
Refuse(c) ==
  /\ handler' = [handler EXCEPT ![c] = "done"]
  /\ reply' = [reply EXCEPT ![c] = Error]

\* The head of the lock's queue is done with it.
Release(p) == waiting' = [waiting EXCEPT ![p] = Tail(@)]

\* The node hangs up or the watchdog closes the peer: answers on the way are
\* lost, what the node already has it keeps, the request in flight fails.
Lose(p) ==
  /\ Connected(p)
  /\ conn' = [conn EXCEPT ![p] = "lost"]
  /\ answers' = [answers EXCEPT ![p] = {}]
  /\ pending' = [pending EXCEPT ![p] = NoRequest]
  /\ sending' = sending \ {p}
  /\ IF pending[p] = NoRequest
     THEN UNCHANGED <<handler, reply, waiting>>
     ELSE Refuse(pending[p].call) /\ Release(p)
  /\ UNCHANGED <<echoIds, verdict, nextId, atNode, mempool, log>>

-----------------------------------------------------------------------------
(* The request                                                             *)

\* RelayRpc.broadcast or coins: the request leaves the daemon.
Post(c) ==
  /\ handler[c] = "idle"
  /\ handler' = [handler EXCEPT ![c] = "posted"]
  /\ UNCHANGED <<echoIds, reply, verdict, conn, waiting, pending, sending, nextId,
                 atNode, answers, mempool, log>>

\* handle_broadcast picks a connected peer and queues for its lock.  The
\* daemon may have given up by now: the relay does not notice.
Arrive(c) ==
  /\ handler[c] = "posted"
  /\ IF \E p \in Conns : Connected(p)
     THEN /\ \E p \in Conns :
               /\ Connected(p)
               /\ waiting' = [waiting EXCEPT ![p] = Append(@, c)]
          /\ handler' = [handler EXCEPT ![c] = "queued"]
          /\ UNCHANGED reply
     ELSE Refuse(c) /\ UNCHANGED waiting
  /\ UNCHANGED <<echoIds, verdict, conn, pending, sending, nextId, atNode, answers,
                 mempool, log>>

NextId(i) == IF (i + 1) % IdSpace = 0 THEN 1 ELSE (i + 1) % IdSpace

\* _request with the lock: an unconnected peer raises, a connected one is
\* sent the request.  The timer is armed once the send is over; until then the
\* lock is held without one.
Request(p) ==
  /\ waiting[p] # <<>>
  /\ pending[p] = NoRequest
  /\ LET c == Head(waiting[p]) IN
     IF Connected(p)
     THEN LET r == [call |-> c, id |-> nextId[p]] IN
          /\ pending' = [pending EXCEPT ![p] = r]
          /\ nextId' = [nextId EXCEPT ![p] = NextId(@)]
          /\ sending' = sending \cup {p}
          /\ atNode' = [atNode EXCEPT ![p] = @ \cup {r}]
          /\ handler' = [handler EXCEPT ![c] = "inflight"]
          /\ UNCHANGED <<reply, waiting>>
     ELSE /\ Refuse(c)
          /\ Release(p)
          /\ UNCHANGED <<pending, sending, nextId, atNode>>
  /\ UNCHANGED <<echoIds, verdict, conn, answers, mempool, log>>

\* The socket took all of the request.
Drained(p) ==
  /\ p \in sending
  /\ sending' = sending \ {p}
  /\ UNCHANGED <<echoIds, handler, reply, verdict, conn, waiting, pending, nextId, atNode,
                 answers, mempool, log>>

\* A node that reads nothing more answers no ping either: the websocket's
\* heartbeat then closes the connection.
SendEnds(p) == p \in sending /\ (Drained(p) \/ Lose(p))

\* A mutation of RequestTimesOut: a wait without a timeout.
NeverTimesOut(p) == FALSE /\ UNCHANGED broadcastVars

\* asyncio.wait_for gives up; nothing takes the request back from the node.
RequestTimesOut(p) ==
  /\ pending[p] # NoRequest
  /\ p \notin sending
  /\ Refuse(pending[p].call)
  /\ Release(p)
  /\ pending' = [pending EXCEPT ![p] = NoRequest]
  /\ UNCHANGED <<echoIds, verdict, conn, sending, nextId, atNode, answers, mempool, log>>

-----------------------------------------------------------------------------
(* The node, outside the code                                              *)

\* The node takes up a request, in any order; on a lost connection nobody
\* hears its answer.
NodeAnswers(p) ==
  /\ \E r \in atNode[p], s \in {"ACCEPTED", "FAILED"} :
       /\ r.call \in Lookups => s = "ACCEPTED"
       /\ atNode' = [atNode EXCEPT ![p] = @ \ {r}]
       /\ mempool' = IF r.call \notin Lookups /\ s = "ACCEPTED"
                     THEN mempool \cup {r.call} ELSE mempool
       /\ answers' = IF Connected(p)
                     THEN [answers EXCEPT ![p] = @ \cup
                             {[kind |-> Kind(r.call), about |-> r.call,
                               id |-> IF echoIds THEN r.id ELSE NoId,
                               status |-> s]}]
                     ELSE answers
  /\ UNCHANGED <<echoIds, handler, reply, verdict, conn, waiting, pending, sending, nextId,
                 log>>

-----------------------------------------------------------------------------
(* The answer                                                              *)

\* A mutation of Resolves: matching by type alone.
ResolvesByType(a, r) == a.kind = Kind(r.call)

\* _dispatch takes a message for the answer to the request in flight.
Resolves(a, r) ==
  /\ a.kind = Kind(r.call)
  /\ a.id = NoId \/ a.id = r.id

\* A mutation of Recorded: logging the bundle posted, not the one acked.
RecordedAsPosted(c, a) ==
  IF c \in Lookups THEN log ELSE log \cup {[txid |-> c, status |-> a.status]}

Recorded(c, a) ==
  IF c \in Lookups THEN log ELSE log \cup {[txid |-> a.about, status |-> a.status]}

\* The reader hands a message to the request in flight, whose handler logs it
\* and answers; a message nobody waits for is dropped.  A node that answers has
\* read the request: the send is over.
Dispatch(p) ==
  /\ \E a \in answers[p] :
       /\ answers' = [answers EXCEPT ![p] = @ \ {a}]
       /\ IF pending[p] # NoRequest /\ Resolves(a, pending[p])
          THEN LET c == pending[p].call IN
               /\ handler' = [handler EXCEPT ![c] = "done"]
               /\ reply' = [reply EXCEPT ![c] =
                              [ok |-> TRUE, expected |-> c, txid |-> a.about,
                               status |-> a.status]]
               /\ log' = Recorded(c, a)
               /\ pending' = [pending EXCEPT ![p] = NoRequest]
               /\ sending' = sending \ {p}
               /\ Release(p)
          ELSE UNCHANGED <<handler, reply, log, pending, sending, waiting>>
  /\ UNCHANGED <<echoIds, verdict, conn, nextId, atNode, mempool>>

\* _relay_broadcast_strict and _execute_chia_spend_via_relay, in their order:
\* a refusal is a failure before anything else is looked at.
Classify(c, r) ==
  IF ~r.ok THEN "failed"
  ELSE IF r.status = "FAILED" THEN "failed"
  ELSE IF r.expected # c \/ r.txid # c THEN "unknown"
  ELSE "submitted"

\* The daemon reads the relay's answer.
Learn(c) ==
  /\ c \notin Lookups
  /\ handler[c] = "done"
  /\ verdict[c] = "none"
  /\ verdict' = [verdict EXCEPT ![c] = Classify(c, reply[c])]
  /\ UNCHANGED <<echoIds, handler, reply, conn, waiting, pending, sending, nextId,
                 atNode, answers, mempool, log>>

\* Its HTTP request fails or times out, wherever the relay is with it.
GiveUp(c) ==
  /\ c \notin Lookups
  /\ handler[c] # "idle"
  /\ verdict[c] = "none"
  /\ verdict' = [verdict EXCEPT ![c] = "failed"]
  /\ UNCHANGED <<echoIds, handler, reply, conn, waiting, pending, sending, nextId,
                 atNode, answers, mempool, log>>

\* Nothing is left to do.
Finished ==
  /\ \A c \in Calls : handler[c] = "done" /\ (c \in Lookups \/ verdict[c] # "none")
  /\ UNCHANGED broadcastVars

BroadcastNext ==
  \/ \E p \in Conns : Connect(p) \/ Lose(p) \/ Request(p) \/ Drained(p)
                      \/ RequestTimesOut(p) \/ NodeAnswers(p) \/ Dispatch(p)
  \/ \E c \in Calls : Post(c) \/ Arrive(c) \/ Learn(c) \/ GiveUp(c)
  \/ Finished

BroadcastSpec == BroadcastInit /\ [][BroadcastNext]_broadcastVars

\* The event loop runs what is ready, a timer that is armed fires, and a send
\* ends, if only by the heartbeat.
BroadcastFairness ==
  /\ \A p \in Conns :
       /\ WF_broadcastVars(Request(p)) /\ WF_broadcastVars(SendEnds(p))
       /\ WF_broadcastVars(RequestTimesOut(p))
  /\ \A c \in Calls : WF_broadcastVars(Arrive(c)) /\ WF_broadcastVars(Learn(c))

-----------------------------------------------------------------------------
(* Properties                                                              *)

\* The relay's broadcast log, which drills and humans reconcile with, names
\* as accepted only bundles that a node accepted.
LogIsTrue ==
  \A e \in log : e.status = "ACCEPTED" => e.txid \in mempool

\* With nodes that answer with the id they were asked with, a call is answered
\* with the node's answer to it and not with another call's: peer.py's docstring
\* holds one request in flight to be enough.
AnswerIsOwn ==
  echoIds => \A c \in Calls : handler[c] = "done" /\ reply[c].ok => reply[c].txid = c

\* A handler that has a request in hand comes to an end, and with it the lock
\* that every later request to the peer waits for (REQUEST_TIMEOUT,
\* BROADCAST_TIMEOUT).
HandlersEnd == \A c \in Calls : AtRelay(c) ~> handler[c] = "done"
=============================================================================

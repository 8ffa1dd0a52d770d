---------------------------- MODULE RelayProofs -----------------------------
(***************************************************************************)
(* The relay, for any number of calls, connections, coins and faults:      *)
(* RelayBroadcast, the way of a request to a node and of its answer back,  *)
(* and RelayCoins, what the relay says of coins.                           *)
(*                                                                         *)
(* That an answer is its call's own rests on message ids: an id that is    *)
(* given out is one that nothing on the connection still has (IdsAreOnce), *)
(* which holds until the ids come round, so the theorem speaks of no more  *)
(* calls than there are ids. The lock of a connection is what makes the    *)
(* request in flight the head of its queue (LocksAreHeld); the steps are   *)
(* sorted by what they do to it (BroadcastKinds).                          *)
(*                                                                         *)
(* That a confirmed spend is on the chain rests on nobody knowing more of  *)
(* a coin than the chain (NothingAhead), and that hosted answers are       *)
(* recent on an entry being dated by its request and not by its arrival    *)
(* (Entries).                                                              *)
(***************************************************************************)
EXTENDS RelayBroadcast, RelayCoins, SequenceTheorems, FiniteSetTheorems, TLAPS

-----------------------------------------------------------------------------
(* RelayBroadcast                                                          *)

Handlings == {"idle", "posted", "queued", "inflight", "done"}
Acks == [kind : {"ack", "lookup"}, about : Calls, id : Nat, status : {"ACCEPTED", "FAILED"}]

BroadcastShapes ==
  /\ handler \in [Calls -> Handlings]
  /\ reply = [c \in Calls |-> reply[c]]
  /\ waiting \in [Conns -> Seq(Calls)]
  /\ pending \in [Conns -> Requests \cup {NoRequest}]
  /\ nextId \in [Conns -> 1 .. IdSpace - 1]
  /\ atNode \in [Conns -> SUBSET Requests]
  /\ answers \in [Conns -> SUBSET Acks]

(* A lock is held for the request in flight, and a call waits once.        *)
LocksAreHeld ==
  /\ \A p \in Conns : pending[p] # NoRequest =>
       waiting[p] # <<>> /\ Head(waiting[p]) = pending[p].call
  /\ \A p \in Conns : \A i \in DOMAIN waiting[p] :
       \/ handler[waiting[p][i]] = "queued"
       \/ handler[waiting[p][i]] = "inflight" /\ i = 1 /\ pending[p] # NoRequest
  /\ \A p, q \in Conns : \A i \in DOMAIN waiting[p] : \A j \in DOMAIN waiting[q] :
       waiting[p][i] = waiting[q][j] => p = q /\ i = j

(* What the node behind a connection was asked and may still answer.       *)
Open(p, c, i) ==
  \/ \E r \in atNode[p] : r.call = c /\ r.id = i
  \/ pending[p] # NoRequest /\ pending[p].call = c /\ pending[p].id = i
  \/ \E a \in answers[p] : a.about = c /\ a.id = i

(* Calls that a connection has taken up. *)
TakenUp == {c \in Calls : handler[c] \in {"inflight", "done"}}

(* An id comes round only when there is nobody left to give it to.         *)
IdsAreOnce ==
  /\ \A p \in Conns : nextId[p] <= Cardinality(TakenUp) + 1
  /\ TakenUp # Calls => \A p \in Conns : \A c \in Calls : \A i \in Nat :
                          Open(p, c, i) => i < nextId[p]
  /\ \A p \in Conns : \A c \in Calls : \A i \in Nat : Open(p, c, i) => i # NoId
  /\ \A p \in Conns : \A c, d \in Calls : \A i \in Nat :
       Open(p, c, i) /\ Open(p, d, i) => c = d

FewCalls == IsFiniteSet(Calls) /\ Cardinality(Calls) < IdSpace

LockInv == BroadcastShapes /\ LocksAreHeld
OwnInv == LockInv /\ (echoIds => IdsAreOnce) /\ AnswerIsOwn

-----------------------------------------------------------------------------
LEMMA PendingIsRequest ==
  ASSUME BroadcastShapes, NEW p \in Conns, pending[p] # NoRequest
  PROVE  /\ pending[p] \in Requests /\ pending[p].call \in Calls
         /\ pending[p].id \in 1 .. IdSpace - 1
BY DEF BroadcastShapes, Requests

LEMMA NextIdType ==
  ASSUME NEW i \in 1 .. IdSpace - 1
  PROVE  /\ NextId(i) \in 1 .. IdSpace - 1
         /\ NextId(i) = IF i = IdSpace - 1 THEN 1 ELSE i + 1
<1>1. IdSpace \in Nat \ {0, 1} /\ i \in Nat
  BY IdAssumption
<1>2. CASE i = IdSpace - 1
  <2>1. i + 1 = IdSpace /\ (i + 1) % IdSpace = 0
    BY <1>1, <1>2
  <2>2. QED BY <1>1, <1>2, <2>1 DEF NextId
<1>3. CASE i # IdSpace - 1
  <2>1. i + 1 < IdSpace /\ (i + 1) % IdSpace = i + 1
    BY <1>1, <1>3
  <2>2. QED BY <1>1, <1>3, <2>1 DEF NextId
<1>4. QED BY <1>2, <1>3

LEMMA BroadcastShapesInit == BroadcastInit => LockInv
<1> SUFFICES ASSUME BroadcastInit PROVE LockInv
  OBVIOUS
<1>1. 1 \in 1 .. IdSpace - 1
  BY IdAssumption
<1>2. BroadcastShapes
  BY <1>1 DEF BroadcastInit, BroadcastShapes, Handlings
<1>3. LocksAreHeld
  BY DEF BroadcastInit, LocksAreHeld
<1>4. QED BY <1>2, <1>3 DEF LockInv

-----------------------------------------------------------------------------
(* The kinds of steps.                                                     *)

(* The call at the head of the lock is answered x, and the lock passes on. *)
Ends(p, x) ==
  /\ waiting[p] # <<>>
  /\ handler' = [handler EXCEPT ![Head(waiting[p])] = "done"]
  /\ reply' = [reply EXCEPT ![Head(waiting[p])] = x]
  /\ waiting' = [waiting EXCEPT ![p] = Tail(@)]
  /\ pending' = [pending EXCEPT ![p] = NoRequest]
  /\ UNCHANGED nextId

(* The call at the head of the lock is sent to the node.                   *)
Sends(p) ==
  /\ waiting[p] # <<>> /\ pending[p] = NoRequest
  /\ LET r == [call |-> Head(waiting[p]), id |-> nextId[p]] IN
       /\ pending' = [pending EXCEPT ![p] = r]
       /\ atNode' = [atNode EXCEPT ![p] = @ \cup {r}]
  /\ nextId' = [nextId EXCEPT ![p] = NextId(@)]
  /\ handler' = [handler EXCEPT ![Head(waiting[p])] = "inflight"]
  /\ UNCHANGED <<reply, waiting, answers>>

(* A call joins the queue of a lock, or is refused there.                  *)
Joins(c) ==
  /\ handler[c] = "posted"
  /\ handler' = [handler EXCEPT ![c] = "queued"]
  /\ \E p \in Conns : waiting' = [waiting EXCEPT ![p] = Append(@, c)]
  /\ UNCHANGED <<reply, pending, nextId, atNode, answers>>

Refused(c) ==
  /\ handler[c] = "posted" /\ Refuse(c)
  /\ UNCHANGED <<waiting, pending, nextId, atNode, answers>>

(* No call comes nearer to its answer. *)
Rests ==
  /\ \/ UNCHANGED handler
     \/ \E c \in Calls : handler[c] = "idle" /\ handler' = [handler EXCEPT ![c] = "posted"]
  /\ UNCHANGED <<reply, waiting, pending, nextId>>

(* Nothing is asked of a node.                                             *)
NothingOpens ==
  /\ atNode' \in [Conns -> SUBSET Requests] /\ answers' \in [Conns -> SUBSET Acks]
  /\ echoIds => \A p \in Conns : \A c \in Calls : \A i \in Nat :
                  /\ (\E r \in atNode'[p] : r.call = c /\ r.id = i) => Open(p, c, i)
                  /\ (\E a \in answers'[p] : a.about = c /\ a.id = i) => Open(p, c, i)

IsOwn(c, x) == x.ok /\ echoIds => x.txid = c

(* The call at the head is answered, with its own answer. *)
Answered(p) == \E x : Ends(p, x) /\ (OwnInv => IsOwn(Head(waiting[p]), x))

BroadcastKinds ==
  \/ \E p \in Conns : Sends(p)
  \/ \E p \in Conns : Answered(p) /\ NothingOpens
  \/ \E c \in Calls : Joins(c) \/ Refused(c)
  \/ Rests /\ NothingOpens

LEMMA KeepsOpen ==
  ASSUME BroadcastShapes, atNode' \in [Conns -> SUBSET Requests],
         answers' \in [Conns -> SUBSET Acks],
         \A p \in Conns : atNode'[p] \subseteq atNode[p] /\ answers'[p] \subseteq answers[p]
  PROVE  NothingOpens
BY DEF NothingOpens, Open

(* Of two requests on a connection only one has the id of the answer.      *)
LEMMA ResolvesOwn ==
  ASSUME OwnInv, echoIds, NEW p \in Conns, pending[p] # NoRequest,
         NEW a \in answers[p], Resolves(a, pending[p])
  PROVE  a.about = pending[p].call
<1>1. /\ pending[p].call \in Calls /\ pending[p].id \in Nat /\ a.about \in Calls /\ a.id \in Nat
      /\ pending[p].id = a.id
  <2>1. BroadcastShapes
    BY DEF OwnInv, LockInv
  <2>2. a \in Acks
    BY <2>1 DEF BroadcastShapes
  <2>3. a.about \in Calls /\ a.id \in Nat
    BY <2>2 DEF Acks
  <2>4. pending[p].call \in Calls /\ pending[p].id \in Nat
    BY <2>1, PendingIsRequest, IdAssumption
  <2>5. a.id # NoId
    BY <2>3 DEF OwnInv, IdsAreOnce, Open
  <2>6. QED BY <2>3, <2>4, <2>5 DEF Resolves
<1>2. Open(p, a.about, a.id) /\ Open(p, pending[p].call, a.id)
  BY <1>1 DEF Open
<1>3. QED BY <1>1, <1>2 DEF OwnInv, IdsAreOnce

LEMMA StepsAreKinds ==
  ASSUME LockInv, [BroadcastNext]_broadcastVars
  PROVE  BroadcastKinds
<1>0. BroadcastShapes /\ LocksAreHeld
  BY DEF LockInv
<1>1. /\ atNode \in [Conns -> SUBSET Requests] /\ answers \in [Conns -> SUBSET Acks]
      /\ pending \in [Conns -> Requests \cup {NoRequest}]
  BY <1>0 DEF BroadcastShapes
<1>2. UNCHANGED <<atNode, answers>> => NothingOpens
  BY <1>0, <1>1, KeepsOpen
<1>3. ASSUME NEW p \in Conns, Connect(p) PROVE BroadcastKinds
  BY <1>2, <1>3 DEF Connect, BroadcastKinds, Rests
<1>4. ASSUME NEW p \in Conns, pending[p] # NoRequest, Refuse(pending[p].call), Release(p),
             pending' = [pending EXCEPT ![p] = NoRequest], UNCHANGED nextId, NothingOpens
      PROVE  BroadcastKinds
  <2>1. Head(waiting[p]) = pending[p].call /\ waiting[p] # <<>>
    BY <1>0, <1>4 DEF LocksAreHeld
  <2>2. Ends(p, Error)
    BY <1>4, <2>1 DEF Ends, Refuse, Release
  <2>3. IsOwn(Head(waiting[p]), Error)
    BY DEF IsOwn, Error
  <2>4. Answered(p)
    BY <2>2, <2>3 DEF Answered
  <2>5. QED BY <1>4, <2>4 DEF BroadcastKinds
<1>5. ASSUME NEW p \in Conns, Lose(p) PROVE BroadcastKinds
  <2>1. answers' = [answers EXCEPT ![p] = {}] /\ UNCHANGED <<atNode, nextId>>
    BY <1>5 DEF Lose
  <2>2. NothingOpens
    BY <1>0, <1>1, <2>1, KeepsOpen
  <2>3. CASE pending[p] = NoRequest
    <3>1. pending' = pending
      BY <1>1, <1>5, <2>3 DEF Lose
    <3>2. QED BY <1>5, <2>2, <2>3, <3>1 DEF Lose, BroadcastKinds, Rests
  <2>4. CASE pending[p] # NoRequest
    BY <1>4, <1>5, <2>1, <2>2, <2>4 DEF Lose
  <2>5. QED BY <2>3, <2>4
<1>6. ASSUME NEW p \in Conns, Request(p) PROVE BroadcastKinds
  <2>1. CASE Connected(p)
    <3>1. Sends(p)
      BY <1>6, <2>1 DEF Request, Sends
    <3>2. QED BY <3>1 DEF BroadcastKinds
  <2>2. CASE ~Connected(p)
    <3>1. /\ waiting[p] # <<>> /\ pending[p] = NoRequest
          /\ Refuse(Head(waiting[p])) /\ Release(p)
          /\ UNCHANGED <<pending, nextId, atNode, answers>>
      BY <1>6, <2>2 DEF Request
    <3>2. pending' = [pending EXCEPT ![p] = NoRequest]
      BY <1>1, <3>1
    <3>3. Ends(p, Error)
      BY <3>1, <3>2 DEF Ends, Refuse, Release
    <3>4. IsOwn(Head(waiting[p]), Error)
      BY DEF IsOwn, Error
    <3>5. Answered(p)
      BY <3>3, <3>4 DEF Answered
    <3>6. QED BY <1>2, <3>1, <3>5 DEF BroadcastKinds
  <2>3. QED BY <2>1, <2>2
<1>7. ASSUME NEW p \in Conns, RequestTimesOut(p) PROVE BroadcastKinds
  BY <1>2, <1>4, <1>7 DEF RequestTimesOut
<1>8. ASSUME NEW p \in Conns, NodeAnswers(p) PROVE BroadcastKinds
  <2>1. PICK r \in atNode[p], s \in {"ACCEPTED", "FAILED"} :
          /\ atNode' = [atNode EXCEPT ![p] = @ \ {r}]
          /\ answers' = IF Connected(p)
                        THEN [answers EXCEPT ![p] = @ \cup
                                {[kind |-> Kind(r.call), about |-> r.call,
                                  id |-> IF echoIds THEN r.id ELSE NoId, status |-> s]}]
                        ELSE answers
    BY <1>8 DEF NodeAnswers
  <2> DEFINE a == [kind |-> Kind(r.call), about |-> r.call,
                   id |-> IF echoIds THEN r.id ELSE NoId, status |-> s]
  <2>2. r \in Requests /\ r.call \in Calls /\ r.id \in Nat
    BY <1>1, IdAssumption DEF Requests
  <2>3. a \in Acks
    BY <2>2 DEF Acks, Kind, NoId
  <2>4. a.about = r.call /\ (echoIds => a.id = r.id)
    OBVIOUS
  <2> HIDE DEF a
  <2>5. /\ \A q \in Conns : atNode'[q] \subseteq atNode[q]
        /\ \A q \in Conns : answers'[q] \subseteq answers[q] \cup (IF q = p THEN {a} ELSE {})
        /\ atNode' \in [Conns -> SUBSET Requests] /\ answers' \in [Conns -> SUBSET Acks]
    BY <1>1, <2>1, <2>3 DEF a
  <2>6. NothingOpens
    <3> SUFFICES ASSUME echoIds, NEW q \in Conns, NEW c \in Calls, NEW i \in Nat
                 PROVE  /\ (\E o \in atNode'[q] : o.call = c /\ o.id = i) => Open(q, c, i)
                        /\ (\E b \in answers'[q] : b.about = c /\ b.id = i) => Open(q, c, i)
      BY <2>5 DEF NothingOpens
    <3>1. (\E o \in atNode'[q] : o.call = c /\ o.id = i) => Open(q, c, i)
      BY <2>5 DEF Open
    <3>2. ASSUME NEW b \in answers'[q], b.about = c, b.id = i PROVE Open(q, c, i)
      <4>1. CASE b \in answers[q]
        BY <3>2, <4>1 DEF Open
      <4>2. CASE q = p /\ b = a
        BY <2>1, <2>4, <3>2, <4>2 DEF Open
      <4>3. QED BY <2>5, <4>1, <4>2
    <3>3. QED BY <3>1, <3>2
  <2>7. QED BY <1>8, <2>6 DEF NodeAnswers, BroadcastKinds, Rests
<1>9. ASSUME NEW p \in Conns, Dispatch(p) PROVE BroadcastKinds
  <2>1. PICK a \in answers[p] :
       /\ answers' = [answers EXCEPT ![p] = @ \ {a}]
       /\ IF pending[p] # NoRequest /\ Resolves(a, pending[p])
          THEN LET c == pending[p].call IN
               /\ handler' = [handler EXCEPT ![c] = "done"]
               /\ reply' = [reply EXCEPT ![c] = [ok |-> TRUE, expected |-> c, txid |-> a.about,
                                                status |-> a.status]]
               /\ pending' = [pending EXCEPT ![p] = NoRequest]
               /\ Release(p)
          ELSE UNCHANGED <<handler, reply, pending, waiting>>
    BY <1>9 DEF Dispatch
  <2>2. UNCHANGED <<nextId, atNode>>
    BY <1>9 DEF Dispatch
  <2>3. NothingOpens
    BY <1>0, <1>1, <2>1, <2>2, KeepsOpen
  <2>4. CASE ~(pending[p] # NoRequest /\ Resolves(a, pending[p]))
    BY <2>1, <2>2, <2>3, <2>4 DEF BroadcastKinds, Rests
  <2>5. CASE pending[p] # NoRequest /\ Resolves(a, pending[p])
    <3> DEFINE x == [ok |-> TRUE, expected |-> pending[p].call, txid |-> a.about,
                     status |-> a.status]
    <3>1. Head(waiting[p]) = pending[p].call /\ waiting[p] # <<>>
      BY <1>0, <2>5 DEF LocksAreHeld
    <3>2. Ends(p, x)
      BY <2>1, <2>2, <2>5, <3>1 DEF Ends, Release
    <3>3. OwnInv => IsOwn(Head(waiting[p]), x)
      BY <2>5, <3>1, ResolvesOwn DEF IsOwn
    <3> HIDE DEF x
    <3>4. Answered(p)
      BY <3>2, <3>3 DEF Answered
    <3>5. QED BY <2>3, <3>4 DEF BroadcastKinds
  <2>6. QED BY <2>4, <2>5
<1>10. ASSUME NEW c \in Calls, Post(c) PROVE BroadcastKinds
  BY <1>2, <1>10 DEF Post, BroadcastKinds, Rests
<1>11. ASSUME NEW c \in Calls, Arrive(c) PROVE BroadcastKinds
  <2>1. CASE \E p \in Conns : Connected(p)
    <3>1. Joins(c)
      BY <1>11, <2>1 DEF Arrive, Joins
    <3>2. QED BY <3>1 DEF BroadcastKinds
  <2>2. CASE ~\E p \in Conns : Connected(p)
    <3>1. Refused(c)
      BY <1>11, <2>2 DEF Arrive, Refused
    <3>2. QED BY <3>1 DEF BroadcastKinds
  <2>3. QED BY <2>1, <2>2
<1>12. ASSUME NEW c \in Calls, Learn(c) \/ GiveUp(c) PROVE BroadcastKinds
  BY <1>2, <1>12 DEF Learn, GiveUp, BroadcastKinds, Rests
<1>13. CASE Finished \/ UNCHANGED broadcastVars
  BY <1>2, <1>13 DEF Finished, broadcastVars, BroadcastKinds, Rests
<1>14. ASSUME NEW p \in Conns, Drained(p) PROVE BroadcastKinds
  BY <1>2, <1>14 DEF Drained, BroadcastKinds, Rests
<1>15. QED
  BY <1>3, <1>5, <1>6, <1>7, <1>8, <1>9, <1>10, <1>11, <1>12, <1>13, <1>14
  DEF BroadcastNext

-----------------------------------------------------------------------------
(* Entries of a queue. *)
LEMMA WaitsAreCalls ==
  ASSUME BroadcastShapes, NEW p \in Conns
  PROVE  /\ waiting[p] \in Seq(Calls)
         /\ waiting[p] # <<>> =>
              /\ 1 \in DOMAIN waiting[p]
              /\ Head(waiting[p]) = waiting[p][1]
              /\ Head(waiting[p]) \in Calls
              /\ Tail(waiting[p]) \in Seq(Calls)
              /\ \A i \in DOMAIN Tail(waiting[p]) :
                    i + 1 \in DOMAIN waiting[p] /\ i + 1 # 1 /\ Tail(waiting[p])[i] = waiting[p][i + 1]
<1>1. waiting[p] \in Seq(Calls)
  BY DEF BroadcastShapes
<1>2. QED BY <1>1

LEMMA AppendedCalls ==
  ASSUME NEW w \in Seq(Calls), NEW c \in Calls
  PROVE  /\ Append(w, c) \in Seq(Calls) /\ Append(w, c) # <<>>
         /\ w # <<>> => Head(Append(w, c)) = Head(w)
         /\ \A i \in DOMAIN Append(w, c) :
              \/ i \in DOMAIN w /\ Append(w, c)[i] = w[i]
              \/ i = Len(w) + 1 /\ i \notin DOMAIN w /\ Append(w, c)[i] = c
<1>1. Append(w, c) \in Seq(Calls) /\ Len(Append(w, c)) = Len(w) + 1
  OBVIOUS
<1>1a. Append(w, c) # <<>>
  BY AppendProperties
<1>2. w # <<>> => Head(Append(w, c)) = Head(w)
  OBVIOUS
<1>3. Len(w) \in Nat /\ DOMAIN w = 1 .. Len(w) /\ DOMAIN Append(w, c) = 1 .. Len(w) + 1
  OBVIOUS
<1>4. \A i \in 1 .. Len(w) : Append(w, c)[i] = w[i]
  OBVIOUS
<1>5. Append(w, c)[Len(w) + 1] = c
  OBVIOUS
<1>6. QED BY <1>1, <1>1a, <1>2, <1>3, <1>4, <1>5

LEMMA OnePlaceEach ==
  ASSUME LocksAreHeld, NEW p \in Conns, NEW q \in Conns,
         NEW i \in DOMAIN waiting[p], NEW j \in DOMAIN waiting[q], waiting[p][i] = waiting[q][j]
  PROVE  p = q /\ i = j
BY DEF LocksAreHeld

LEMMA EndsKeepsLocks ==
  ASSUME LockInv, NEW p \in Conns, NEW x, Ends(p, x), NothingOpens
  PROVE  LockInv'
<1> DEFINE h == Head(waiting[p])
           w == Tail(waiting[p])
<1>0. BroadcastShapes /\ LocksAreHeld
  BY DEF LockInv
<1>1. /\ 1 \in DOMAIN waiting[p] /\ h = waiting[p][1] /\ h \in Calls
      /\ w \in Seq(Calls)
      /\ \A i \in DOMAIN w : i + 1 \in DOMAIN waiting[p] /\ i + 1 # 1 /\ w[i] = waiting[p][i + 1]
  BY <1>0, WaitsAreCalls DEF Ends
<1>2. /\ handler' = [handler EXCEPT ![h] = "done"]
      /\ reply' = [reply EXCEPT ![h] = x]
      /\ waiting' = [waiting EXCEPT ![p] = w]
      /\ pending' = [pending EXCEPT ![p] = NoRequest]
      /\ nextId' = nextId
  BY DEF Ends
<1> HIDE DEF h, w
<1>3. BroadcastShapes'
  <2>1. handler' \in [Calls -> Handlings]
    BY <1>0, <1>1, <1>2 DEF BroadcastShapes, Handlings
  <2>2. reply' = [c \in Calls |-> reply'[c]]
    BY <1>0, <1>2 DEF BroadcastShapes
  <2>3. waiting' \in [Conns -> Seq(Calls)]
    BY <1>0, <1>1, <1>2 DEF BroadcastShapes
  <2>4. pending' \in [Conns -> Requests \cup {NoRequest}]
    BY <1>0, <1>2 DEF BroadcastShapes
  <2>5. QED BY <1>0, <1>2, <2>1, <2>2, <2>3, <2>4 DEF BroadcastShapes, NothingOpens
<1>4. waiting'[p] = w /\ \A q \in Conns : q # p => waiting'[q] = waiting[q]
  BY <1>0, <1>2 DEF BroadcastShapes
<1>5. pending'[p] = NoRequest /\ \A q \in Conns : q # p => pending'[q] = pending[q]
  BY <1>0, <1>2 DEF BroadcastShapes
<1>6. \A c \in Calls : c # h => handler'[c] = handler[c]
  BY <1>0, <1>2 DEF BroadcastShapes
<1>7. \A q \in Conns : \A i \in DOMAIN waiting'[q] :
        \E j \in DOMAIN waiting[q] :
          /\ waiting'[q][i] = waiting[q][j] /\ waiting[q][j] # h /\ waiting[q][j] \in Calls
          /\ q # p => j = i
          /\ q = p => j = i + 1 /\ j # 1
  <2> SUFFICES ASSUME NEW q \in Conns, NEW i \in DOMAIN waiting'[q]
               PROVE  \E j \in DOMAIN waiting[q] :
                        /\ waiting'[q][i] = waiting[q][j] /\ waiting[q][j] # h
                        /\ waiting[q][j] \in Calls
                        /\ q # p => j = i
                        /\ q = p => j = i + 1 /\ j # 1
    OBVIOUS
  <2>1. waiting[q] \in Seq(Calls)
    BY <1>0 DEF BroadcastShapes
  <2>2. CASE q = p
    <3>1. i \in DOMAIN w
      BY <1>4, <2>2
    <3>2. i + 1 \in DOMAIN waiting[p] /\ i + 1 # 1 /\ w[i] = waiting[p][i + 1]
      BY <1>1, <3>1
    <3>3. waiting[p][i + 1] # h
      BY <1>0, <1>1, <3>2 DEF LocksAreHeld
    <3>4. waiting[p][i + 1] \in Calls
      BY <2>1, <2>2, <3>2
    <3>5. QED BY <1>4, <2>2, <3>2, <3>3, <3>4
  <2>3. CASE q # p
    <3>1. i \in DOMAIN waiting[q] /\ waiting'[q][i] = waiting[q][i]
      BY <1>4, <2>3
    <3>2. waiting[q][i] # h
      BY <1>0, <1>1, <2>3, <3>1 DEF LocksAreHeld
    <3>3. waiting[q][i] \in Calls
      BY <2>1, <3>1
    <3>4. QED BY <2>3, <3>1, <3>2, <3>3
  <2>4. QED BY <2>2, <2>3
<1>8. LocksAreHeld'
  <2>1. \A q \in Conns : pending'[q] # NoRequest =>
          waiting'[q] # <<>> /\ Head(waiting'[q]) = pending'[q].call
    BY <1>0, <1>4, <1>5 DEF LocksAreHeld
  <2>2. ASSUME NEW q \in Conns, NEW i \in DOMAIN waiting'[q]
        PROVE  \/ handler'[waiting'[q][i]] = "queued"
               \/ /\ handler'[waiting'[q][i]] = "inflight" /\ i = 1
                  /\ pending'[q] # NoRequest
    <3>1. PICK j \in DOMAIN waiting[q] :
            /\ waiting'[q][i] = waiting[q][j] /\ waiting[q][j] # h /\ waiting[q][j] \in Calls
            /\ q # p => j = i
            /\ q = p => j = i + 1 /\ j # 1
      BY <1>7
    <3>2. handler'[waiting'[q][i]] = handler[waiting[q][j]]
      BY <1>6, <3>1
    <3>3. \/ handler[waiting[q][j]] = "queued"
          \/ handler[waiting[q][j]] = "inflight" /\ j = 1 /\ pending[q] # NoRequest
      BY <1>0 DEF LocksAreHeld
    <3>4. QED BY <1>5, <3>1, <3>2, <3>3
  <2>3. ASSUME NEW q \in Conns, NEW r \in Conns, NEW i \in DOMAIN waiting'[q],
               NEW j \in DOMAIN waiting'[r], waiting'[q][i] = waiting'[r][j]
        PROVE  q = r /\ i = j
    <3>1. PICK k \in DOMAIN waiting[q] :
            /\ waiting'[q][i] = waiting[q][k]
            /\ q # p => k = i
            /\ q = p => k = i + 1
      BY <1>7
    <3>2. PICK l \in DOMAIN waiting[r] :
            /\ waiting'[r][j] = waiting[r][l]
            /\ r # p => l = j
            /\ r = p => l = j + 1
      BY <1>7
    <3>3. q = r /\ k = l
      <4>1. waiting[q][k] = waiting[r][l]
        BY <2>3, <3>1, <3>2
      <4>2. QED BY <1>0, <4>1, OnePlaceEach
    <3>4. CASE q # p
      BY <3>1, <3>2, <3>3, <3>4
    <3>5. CASE q = p
      <4>1. i \in DOMAIN w /\ j \in DOMAIN w
        BY <1>4, <3>3, <3>5
      <4>2. i \in Nat /\ j \in Nat
        BY <1>1, <4>1
      <4>3. QED BY <3>1, <3>2, <3>3, <3>5, <4>2
    <3>6. QED BY <3>4, <3>5
  <2>4. QED BY <2>1, <2>2, <2>3 DEF LocksAreHeld
<1>9. QED BY <1>3, <1>8 DEF LockInv

LEMMA SendsKeepsLocks ==
  ASSUME LockInv, NEW p \in Conns, Sends(p)
  PROVE  LockInv'
<1> DEFINE h == Head(waiting[p])
           r == [call |-> h, id |-> nextId[p]]
<1>0. BroadcastShapes /\ LocksAreHeld
  BY DEF LockInv
<1>1. /\ 1 \in DOMAIN waiting[p] /\ h = waiting[p][1] /\ h \in Calls
  BY <1>0, WaitsAreCalls DEF Sends
<1>2. /\ pending' = [pending EXCEPT ![p] = r]
      /\ atNode' = [atNode EXCEPT ![p] = @ \cup {r}]
      /\ nextId' = [nextId EXCEPT ![p] = NextId(@)]
      /\ handler' = [handler EXCEPT ![h] = "inflight"]
      /\ UNCHANGED <<reply, waiting, answers>>
  BY DEF Sends
<1>3. r \in Requests /\ r.call = h /\ r # NoRequest
  <2>1. nextId[p] \in 1 .. IdSpace - 1
    BY <1>0 DEF BroadcastShapes
  <2>2. r \in Requests /\ r.call = h
    BY <1>1, <2>1 DEF Requests
  <2>3. "call" \in DOMAIN r /\ "call" \notin DOMAIN NoRequest
    BY DEF NoRequest
  <2>4. QED BY <2>2, <2>3
<1> HIDE DEF h, r
<1>4. BroadcastShapes'
  <2>1. handler' \in [Calls -> Handlings]
    BY <1>0, <1>1, <1>2 DEF BroadcastShapes, Handlings
  <2>2. nextId' \in [Conns -> 1 .. IdSpace - 1]
    BY <1>0, <1>2, NextIdType DEF BroadcastShapes
  <2>3. pending' \in [Conns -> Requests \cup {NoRequest}]
    BY <1>0, <1>2, <1>3 DEF BroadcastShapes
  <2>4. atNode' \in [Conns -> SUBSET Requests]
    BY <1>0, <1>2, <1>3 DEF BroadcastShapes
  <2>5. QED BY <1>0, <1>2, <2>1, <2>2, <2>3, <2>4 DEF BroadcastShapes
<1>5. pending'[p] = r /\ \A q \in Conns : q # p => pending'[q] = pending[q]
  BY <1>0, <1>2 DEF BroadcastShapes
<1>6. handler'[h] = "inflight" /\ \A c \in Calls : c # h => handler'[c] = handler[c]
  BY <1>0, <1>1, <1>2 DEF BroadcastShapes
<1>7. LocksAreHeld'
  <2>1. \A q \in Conns : pending'[q] # NoRequest =>
          waiting'[q] # <<>> /\ Head(waiting'[q]) = pending'[q].call
    BY <1>0, <1>2, <1>3, <1>5 DEF LocksAreHeld, Sends, h
  <2>2. ASSUME NEW q \in Conns, NEW i \in DOMAIN waiting'[q]
        PROVE  \/ handler'[waiting'[q][i]] = "queued"
               \/ handler'[waiting'[q][i]] = "inflight" /\ i = 1 /\ pending'[q] # NoRequest
    <3>1. i \in DOMAIN waiting[q] /\ waiting'[q][i] = waiting[q][i] /\ waiting[q][i] \in Calls
      BY <1>0, <1>2, WaitsAreCalls
    <3>2. CASE waiting[q][i] = h
      <4>1. q = p /\ i = 1
        BY <1>0, <1>1, <3>1, <3>2 DEF LocksAreHeld
      <4>2. QED BY <1>3, <1>5, <1>6, <3>1, <3>2, <4>1
    <3>3. CASE waiting[q][i] # h
      <4>1. handler'[waiting'[q][i]] = handler[waiting[q][i]]
        BY <1>6, <3>1, <3>3
      <4>2. \/ handler[waiting[q][i]] = "queued"
            \/ handler[waiting[q][i]] = "inflight" /\ i = 1 /\ pending[q] # NoRequest
        BY <1>0, <3>1 DEF LocksAreHeld
      <4>3. QED BY <1>3, <1>5, <4>1, <4>2
    <3>4. QED BY <3>2, <3>3
  <2>3. \A q, s \in Conns : \A i \in DOMAIN waiting'[q] : \A j \in DOMAIN waiting'[s] :
          waiting'[q][i] = waiting'[s][j] => q = s /\ i = j
    BY <1>0, <1>2 DEF LocksAreHeld
  <2>4. QED BY <2>1, <2>2, <2>3 DEF LocksAreHeld
<1>8. QED BY <1>4, <1>7 DEF LockInv

(* A step that touches only calls in nobody's queue.                       *)
LEMMA OutsideKeepsLocks ==
  ASSUME LockInv, BroadcastShapes', UNCHANGED <<waiting, pending>>,
         \A c \in Calls : handler[c] \in {"queued", "inflight"} => handler'[c] = handler[c]
  PROVE  LockInv'
<1>0. BroadcastShapes /\ LocksAreHeld
  BY DEF LockInv
<1>1. \A q \in Conns : \A i \in DOMAIN waiting[q] : handler'[waiting[q][i]] = handler[waiting[q][i]]
  <2> SUFFICES ASSUME NEW q \in Conns, NEW i \in DOMAIN waiting[q]
               PROVE  handler'[waiting[q][i]] = handler[waiting[q][i]]
    OBVIOUS
  <2>1. waiting[q][i] \in Calls
    BY <1>0, WaitsAreCalls
  <2>2. handler[waiting[q][i]] \in {"queued", "inflight"}
    BY <1>0 DEF LocksAreHeld
  <2>3. QED BY <2>1, <2>2
<1>2. LocksAreHeld'
  BY <1>0, <1>1 DEF LocksAreHeld
<1>3. QED BY <1>2 DEF LockInv

LEMMA JoinsKeepsLocks ==
  ASSUME LockInv, NEW c \in Calls, Joins(c)
  PROVE  LockInv'
<1>0. BroadcastShapes /\ LocksAreHeld
  BY DEF LockInv
<1>1. PICK p \in Conns : waiting' = [waiting EXCEPT ![p] = Append(@, c)]
  BY DEF Joins
<1> DEFINE w == Append(waiting[p], c)
<1>2. /\ w \in Seq(Calls) /\ w # <<>>
      /\ waiting[p] # <<>> => Head(w) = Head(waiting[p])
      /\ \A i \in DOMAIN w :
           \/ i \in DOMAIN waiting[p] /\ w[i] = waiting[p][i]
           \/ i = Len(waiting[p]) + 1 /\ i \notin DOMAIN waiting[p] /\ w[i] = c
  BY <1>0, AppendedCalls, WaitsAreCalls
<1>3. /\ handler[c] = "posted"
      /\ handler' = [handler EXCEPT ![c] = "queued"]
      /\ waiting' = [waiting EXCEPT ![p] = w]
      /\ UNCHANGED <<reply, pending, nextId, atNode, answers>>
  BY <1>1 DEF Joins
<1> HIDE DEF w
<1>4. BroadcastShapes'
  <2>1. handler' \in [Calls -> Handlings]
    BY <1>0, <1>3 DEF BroadcastShapes, Handlings
  <2>2. waiting' \in [Conns -> Seq(Calls)]
    BY <1>0, <1>2, <1>3 DEF BroadcastShapes
  <2>3. QED BY <1>0, <1>3, <2>1, <2>2 DEF BroadcastShapes
<1>5. waiting'[p] = w /\ \A q \in Conns : q # p => waiting'[q] = waiting[q]
  BY <1>0, <1>3 DEF BroadcastShapes
<1>6. handler'[c] = "queued" /\ \A d \in Calls : d # c => handler'[d] = handler[d]
  BY <1>0, <1>3 DEF BroadcastShapes
<1>7. \A q \in Conns : \A i \in DOMAIN waiting'[q] :
        \/ i \in DOMAIN waiting[q] /\ waiting'[q][i] = waiting[q][i]
        \/ q = p /\ i = Len(waiting[p]) + 1 /\ waiting'[q][i] = c
  BY <1>2, <1>5
<1>8. \A q \in Conns : \A i \in DOMAIN waiting[q] :
        waiting[q][i] # c /\ waiting[q][i] \in Calls
  <2> SUFFICES ASSUME NEW q \in Conns, NEW i \in DOMAIN waiting[q]
               PROVE  waiting[q][i] # c /\ waiting[q][i] \in Calls
    OBVIOUS
  <2>1. waiting[q][i] \in Calls
    BY <1>0, WaitsAreCalls
  <2>2. handler[waiting[q][i]] \in {"queued", "inflight"}
    BY <1>0 DEF LocksAreHeld
  <2>3. QED BY <1>3, <2>1, <2>2
<1>9. LocksAreHeld'
  <2>1. \A q \in Conns : pending'[q] # NoRequest =>
          waiting'[q] # <<>> /\ Head(waiting'[q]) = pending'[q].call
    BY <1>0, <1>2, <1>3, <1>5 DEF LocksAreHeld
  <2>2. ASSUME NEW q \in Conns, NEW i \in DOMAIN waiting'[q]
        PROVE  \/ handler'[waiting'[q][i]] = "queued"
               \/ handler'[waiting'[q][i]] = "inflight" /\ i = 1 /\ pending'[q] # NoRequest
    <3>1. CASE waiting'[q][i] = c
      BY <1>6, <3>1
    <3>2. CASE waiting'[q][i] # c
      <4>1. i \in DOMAIN waiting[q] /\ waiting'[q][i] = waiting[q][i]
        BY <1>7, <3>2
      <4>2. handler'[waiting'[q][i]] = handler[waiting[q][i]]
        BY <1>6, <1>8, <4>1
      <4>3. \/ handler[waiting[q][i]] = "queued"
            \/ handler[waiting[q][i]] = "inflight" /\ i = 1 /\ pending[q] # NoRequest
        BY <1>0, <4>1 DEF LocksAreHeld
      <4>4. QED BY <1>3, <4>2, <4>3
    <3>3. QED BY <3>1, <3>2
  <2>3. ASSUME NEW q \in Conns, NEW r \in Conns, NEW i \in DOMAIN waiting'[q],
               NEW j \in DOMAIN waiting'[r], waiting'[q][i] = waiting'[r][j]
        PROVE  q = r /\ i = j
    <3>1. CASE waiting'[q][i] = c
      <4>1. q = p /\ i = Len(waiting[p]) + 1
        BY <1>7, <1>8, <3>1
      <4>2. r = p /\ j = Len(waiting[p]) + 1
        BY <1>7, <1>8, <2>3, <3>1
      <4>3. QED BY <4>1, <4>2
    <3>2. CASE waiting'[q][i] # c
      <4>1. i \in DOMAIN waiting[q] /\ waiting'[q][i] = waiting[q][i]
        BY <1>7, <3>2
      <4>2. j \in DOMAIN waiting[r] /\ waiting'[r][j] = waiting[r][j]
        BY <1>7, <2>3, <3>2
      <4>3. waiting[q][i] = waiting[r][j]
        BY <2>3, <4>1, <4>2
      <4>4. QED BY <1>0, <4>1, <4>2, <4>3, OnePlaceEach
    <3>3. QED BY <3>1, <3>2
  <2>4. QED BY <2>1, <2>2, <2>3 DEF LocksAreHeld
<1>10. QED BY <1>4, <1>9 DEF LockInv

LEMMA LockInvKept ==
  ASSUME LockInv, BroadcastKinds
  PROVE  LockInv'
<1>0. BroadcastShapes /\ LocksAreHeld
  BY DEF LockInv
<1>1. ASSUME NEW c \in Calls, Refused(c) PROVE LockInv'
  <2>1. /\ handler[c] = "posted" /\ handler' = [handler EXCEPT ![c] = "done"]
        /\ reply' = [reply EXCEPT ![c] = Error]
        /\ UNCHANGED <<waiting, pending, nextId, atNode, answers>>
    BY <1>1 DEF Refused, Refuse
  <2>2. handler' \in [Calls -> Handlings]
    BY <1>0, <2>1 DEF BroadcastShapes, Handlings
  <2>3. reply' = [d \in Calls |-> reply'[d]]
    BY <1>0, <2>1 DEF BroadcastShapes
  <2>4. BroadcastShapes'
    BY <1>0, <2>1, <2>2, <2>3 DEF BroadcastShapes
  <2>5. QED BY <1>0, <2>1, <2>4, OutsideKeepsLocks DEF BroadcastShapes
<1>2. ASSUME Rests, NothingOpens PROVE LockInv'
  <2>1. handler' \in [Calls -> Handlings]
    BY <1>0, <1>2 DEF BroadcastShapes, Handlings, Rests
  <2>2. \A c \in Calls : handler[c] \in {"queued", "inflight"} => handler'[c] = handler[c]
    BY <1>0, <1>2 DEF BroadcastShapes, Rests
  <2>3. BroadcastShapes'
    BY <1>0, <1>2, <2>1 DEF BroadcastShapes, Rests, NothingOpens
  <2>4. QED BY <1>2, <2>2, <2>3, OutsideKeepsLocks DEF Rests
<1>3. ASSUME NEW p \in Conns, Answered(p), NothingOpens PROVE LockInv'
  <2>1. PICK x : Ends(p, x)
    BY <1>3 DEF Answered
  <2>2. QED BY <1>3, <2>1, EndsKeepsLocks
<1>4. QED BY <1>1, <1>2, <1>3, SendsKeepsLocks, JoinsKeepsLocks DEF BroadcastKinds

-----------------------------------------------------------------------------
(* Message ids. *)

LEMMA TakenUpIsFinite ==
  ASSUME FewCalls
  PROVE  /\ IsFiniteSet(TakenUp) /\ Cardinality(TakenUp) \in Nat
         /\ Cardinality(TakenUp) < IdSpace
         /\ Cardinality(TakenUp) >= IdSpace - 1 => TakenUp = Calls
<1>1. TakenUp \subseteq Calls /\ IsFiniteSet(Calls)
  BY DEF TakenUp, FewCalls
<1>2. /\ IsFiniteSet(TakenUp) /\ Cardinality(TakenUp) <= Cardinality(Calls)
      /\ Cardinality(Calls) = Cardinality(TakenUp) => TakenUp = Calls
  BY <1>1, FS_Subset
<1>3. Cardinality(TakenUp) \in Nat /\ Cardinality(Calls) \in Nat
  BY <1>1, <1>2, FS_CardinalityType
<1>4. IdSpace \in Nat /\ Cardinality(Calls) < IdSpace
  BY IdAssumption DEF FewCalls
<1>5. QED BY <1>2, <1>3, <1>4

LEMMA TakenUpIsFiniteNext ==
  ASSUME FewCalls
  PROVE  /\ IsFiniteSet(TakenUp') /\ Cardinality(TakenUp') \in Nat
         /\ Cardinality(TakenUp') < IdSpace
         /\ Cardinality(TakenUp') >= IdSpace - 1 => TakenUp' = Calls
<1>1. TakenUp' \subseteq Calls /\ IsFiniteSet(Calls)
  BY DEF TakenUp, FewCalls
<1>2. /\ IsFiniteSet(TakenUp') /\ Cardinality(TakenUp') <= Cardinality(Calls)
      /\ Cardinality(Calls) = Cardinality(TakenUp') => TakenUp' = Calls
  BY <1>1, FS_Subset
<1>3. Cardinality(TakenUp') \in Nat /\ Cardinality(Calls) \in Nat
  BY <1>1, <1>2, FS_CardinalityType
<1>4. IdSpace \in Nat /\ Cardinality(Calls) < IdSpace
  BY IdAssumption DEF FewCalls
<1>5. QED BY <1>2, <1>3, <1>4

(* A step that gives no id out keeps ids apart.                            *)
LEMMA IdsKept ==
  ASSUME FewCalls, BroadcastShapes, IdsAreOnce, UNCHANGED nextId, TakenUp \subseteq TakenUp',
         \A p \in Conns : \A c \in Calls : \A i \in Nat : Open(p, c, i)' => Open(p, c, i)
  PROVE  IdsAreOnce'
<1>1. Cardinality(TakenUp) <= Cardinality(TakenUp')
  BY TakenUpIsFiniteNext, FS_Subset
<1>2. Cardinality(TakenUp) \in Nat /\ Cardinality(TakenUp') \in Nat
  BY TakenUpIsFinite, TakenUpIsFiniteNext
<1>3. \A p \in Conns : nextId'[p] <= Cardinality(TakenUp') + 1
  <2> SUFFICES ASSUME NEW p \in Conns PROVE nextId'[p] <= Cardinality(TakenUp') + 1
    OBVIOUS
  <2>1. nextId[p] \in Nat
    BY IdAssumption DEF BroadcastShapes
  <2>2. nextId[p] <= Cardinality(TakenUp) + 1
    BY DEF IdsAreOnce
  <2>3. QED BY <1>1, <1>2, <2>1, <2>2
<1>4. TakenUp' # Calls => TakenUp # Calls
  BY DEF TakenUp
<1>5. TakenUp' # Calls => \A p \in Conns : \A c \in Calls : \A i \in Nat :
                            Open(p, c, i)' => i < nextId'[p]
  BY <1>4 DEF IdsAreOnce
<1>6. \A p \in Conns : \A c \in Calls : \A i \in Nat : Open(p, c, i)' => i # NoId
  BY DEF IdsAreOnce
<1>7. \A p \in Conns : \A c, d \in Calls : \A i \in Nat :
        Open(p, c, i)' /\ Open(p, d, i)' => c = d
  BY DEF IdsAreOnce
<1>8. QED BY <1>3, <1>5, <1>6, <1>7 DEF IdsAreOnce

(* The id that Request takes is one that no open request has.              *)
LEMMA SendsKeepsIds ==
  ASSUME FewCalls, LockInv, echoIds, IdsAreOnce, NEW p \in Conns, Sends(p)
  PROVE  IdsAreOnce'
<1> DEFINE h == Head(waiting[p])
           n == nextId[p]
           r == [call |-> h, id |-> n]
<1>0. BroadcastShapes /\ LocksAreHeld
  BY DEF LockInv
<1>1. h \in Calls /\ handler[h] = "queued"
  <2>1. 1 \in DOMAIN waiting[p] /\ h = waiting[p][1] /\ h \in Calls
    BY <1>0, WaitsAreCalls DEF Sends
  <2>2. pending[p] = NoRequest
    BY DEF Sends
  <2>3. QED BY <1>0, <2>1, <2>2 DEF LocksAreHeld
<1>2. /\ pending' = [pending EXCEPT ![p] = r]
      /\ atNode' = [atNode EXCEPT ![p] = @ \cup {r}]
      /\ nextId' = [nextId EXCEPT ![p] = NextId(@)]
      /\ handler' = [handler EXCEPT ![h] = "inflight"]
      /\ UNCHANGED answers
  BY DEF Sends
<1>3. r.call = h /\ r.id = n
  OBVIOUS
<1>4. n \in 1 .. IdSpace - 1 /\ n \in Nat /\ n # NoId
  BY <1>0, IdAssumption DEF BroadcastShapes, NoId
<1>5. h \notin TakenUp /\ TakenUp' = TakenUp \cup {h} /\ TakenUp # Calls
  <2>1. handler' = [c \in Calls |-> IF c = h THEN "inflight" ELSE handler[c]]
    BY <1>0, <1>2 DEF BroadcastShapes
  <2>2. QED BY <1>1, <2>1 DEF TakenUp
<1>6. Cardinality(TakenUp') = Cardinality(TakenUp) + 1
  BY <1>5, TakenUpIsFinite, FS_AddElement
<1> HIDE DEF h, r, n
<1>7. /\ pending'[p] = r /\ atNode'[p] = atNode[p] \cup {r} /\ nextId'[p] = NextId(n)
      /\ \A q \in Conns : q # p => /\ pending'[q] = pending[q] /\ atNode'[q] = atNode[q]
                                   /\ nextId'[q] = nextId[q]
  BY <1>0, <1>2 DEF BroadcastShapes, n
<1>8. \A q \in Conns : \A c \in Calls : \A i \in Nat :
        Open(q, c, i)' => Open(q, c, i) \/ (q = p /\ c = h /\ i = n)
  <2> SUFFICES ASSUME NEW q \in Conns, NEW c \in Calls, NEW i \in Nat, Open(q, c, i)'
               PROVE  Open(q, c, i) \/ (q = p /\ c = h /\ i = n)
    OBVIOUS
  <2>1. CASE q # p
    BY <1>2, <1>7, <2>1 DEF Open
  <2>2. CASE q = p
    BY <1>2, <1>3, <1>7, <2>2 DEF Open
  <2>3. QED BY <2>1, <2>2
<1>9. \A q \in Conns : \A c \in Calls : \A i \in Nat : Open(q, c, i) => i < nextId[q]
  BY <1>5 DEF IdsAreOnce
<1>10. Cardinality(TakenUp) \in Nat /\ Cardinality(TakenUp') \in Nat /\ IdSpace \in Nat
  BY TakenUpIsFinite, TakenUpIsFiniteNext, IdAssumption
<1>11. n <= Cardinality(TakenUp) + 1
  BY DEF IdsAreOnce, n
<1>12. NextId(n) \in Nat /\ NextId(n) = IF n = IdSpace - 1 THEN 1 ELSE n + 1
  BY <1>4, <1>10, NextIdType
<1>13. \A q \in Conns : nextId'[q] <= Cardinality(TakenUp') + 1
  <2> SUFFICES ASSUME NEW q \in Conns PROVE nextId'[q] <= Cardinality(TakenUp') + 1
    OBVIOUS
  <2>1. CASE q # p
    <3>1. nextId[q] <= Cardinality(TakenUp) + 1 /\ nextId'[q] = nextId[q]
      BY <1>7, <2>1 DEF IdsAreOnce
    <3>2. nextId[q] \in Nat
      BY <1>0, <1>10 DEF BroadcastShapes
    <3>3. QED BY <1>6, <1>10, <3>1, <3>2
  <2>2. CASE q = p
    BY <1>4, <1>6, <1>7, <1>10, <1>11, <1>12, <2>2
  <2>3. QED BY <2>1, <2>2
<1>14. ASSUME TakenUp' # Calls, NEW q \in Conns, NEW c \in Calls, NEW i \in Nat, Open(q, c, i)'
       PROVE  i < nextId'[q]
  <2>1. n # IdSpace - 1
    <3>1. Cardinality(TakenUp') < IdSpace - 1
      BY <1>10, <1>14, TakenUpIsFiniteNext
    <3>2. QED BY <1>4, <1>6, <1>10, <1>11, <3>1
  <2>2. NextId(n) = n + 1
    BY <1>12, <2>1
  <2>3. CASE Open(q, c, i) /\ q # p
    BY <1>7, <1>9, <2>3
  <2>4. CASE Open(q, c, i) /\ q = p
    <3>1. i < n
      BY <1>9, <2>4 DEF n
    <3>2. QED BY <1>4, <1>7, <2>2, <2>4, <3>1
  <2>5. CASE q = p /\ c = h /\ i = n
    BY <1>4, <1>7, <2>2, <2>5
  <2>6. QED BY <1>8, <1>14, <2>3, <2>4, <2>5
<1>15. \A q \in Conns : \A c \in Calls : \A i \in Nat : Open(q, c, i)' => i # NoId
  BY <1>4, <1>8 DEF IdsAreOnce
<1>16. ASSUME NEW q \in Conns, NEW c \in Calls, NEW d \in Calls, NEW i \in Nat,
              Open(q, c, i)', Open(q, d, i)'
       PROVE  c = d
  <2>1. CASE Open(q, c, i) /\ Open(q, d, i)
    BY <2>1 DEF IdsAreOnce
  <2>2. ~(Open(p, c, n) \/ Open(p, d, n))
    <3>1. \A e \in Calls : Open(p, e, n) => n < n
      BY <1>4, <1>9 DEF n
    <3>2. QED BY <1>4, <3>1
  <2>3. QED BY <1>8, <1>16, <2>1, <2>2
<1>17. QED BY <1>13, <1>14, <1>15, <1>16 DEF IdsAreOnce

LEMMA OpenShrinks ==
  ASSUME BroadcastShapes, echoIds, NothingOpens,
         \A p \in Conns : pending'[p] \in {pending[p], NoRequest}
  PROVE  \A p \in Conns : \A c \in Calls : \A i \in Nat : Open(p, c, i)' => Open(p, c, i)
<1> SUFFICES ASSUME NEW p \in Conns, NEW c \in Calls, NEW i \in Nat, Open(p, c, i)'
             PROVE  Open(p, c, i)
  OBVIOUS
<1>1. CASE \E r \in atNode'[p] : r.call = c /\ r.id = i
  BY <1>1 DEF NothingOpens
<1>2. CASE pending'[p] # NoRequest /\ pending'[p].call = c /\ pending'[p].id = i
  BY <1>2 DEF Open
<1>3. CASE \E a \in answers'[p] : a.about = c /\ a.id = i
  BY <1>3 DEF NothingOpens
<1>4. QED BY <1>1, <1>2, <1>3 DEF Open

LEMMA OwnKept ==
  ASSUME FewCalls, OwnInv, BroadcastKinds, UNCHANGED echoIds
  PROVE  OwnInv'
<1>0. LockInv /\ BroadcastShapes /\ LocksAreHeld /\ AnswerIsOwn
  BY DEF OwnInv, LockInv
<1>1. LockInv'
  BY <1>0, LockInvKept
<1>2. SUFFICES ASSUME echoIds
               PROVE  /\ IdsAreOnce'
                      /\ \A c \in Calls : handler'[c] = "done" /\ reply'[c].ok => reply'[c].txid = c
  BY <1>1 DEF OwnInv, AnswerIsOwn
<1>3. /\ IdsAreOnce
      /\ \A c \in Calls : handler[c] = "done" /\ reply[c].ok => reply[c].txid = c
  BY <1>2 DEF OwnInv, AnswerIsOwn
<1> DEFINE Own(c) == handler'[c] = "done" /\ reply'[c].ok => reply'[c].txid = c
           Goal == IdsAreOnce' /\ \A c \in Calls : Own(c)
<1>4. ASSUME NEW p \in Conns, Sends(p) PROVE Goal
  <2>1. IdsAreOnce'
    BY <1>0, <1>2, <1>3, <1>4, SendsKeepsIds
  <2>2. handler' = [handler EXCEPT ![Head(waiting[p])] = "inflight"] /\ reply' = reply
    BY <1>4 DEF Sends
  <2>3. \A c \in Calls : handler'[c] = "done" => handler[c] = "done"
    BY <1>0, <2>2 DEF BroadcastShapes
  <2>4. QED BY <1>3, <2>1, <2>2, <2>3
<1>5. ASSUME NEW p \in Conns, NEW x, Ends(p, x), NothingOpens, IsOwn(Head(waiting[p]), x)
      PROVE  Goal
  <2> DEFINE h == Head(waiting[p])
  <2>1. /\ handler' = [handler EXCEPT ![h] = "done"] /\ reply' = [reply EXCEPT ![h] = x]
        /\ pending' = [pending EXCEPT ![p] = NoRequest] /\ UNCHANGED nextId
    BY <1>5 DEF Ends
  <2> HIDE DEF h
  <2>2. \A q \in Conns : pending'[q] \in {pending[q], NoRequest}
    BY <1>0, <2>1 DEF BroadcastShapes
  <2>3. TakenUp \subseteq TakenUp'
    BY <1>0, <2>1 DEF BroadcastShapes, TakenUp
  <2>4. \A q \in Conns : \A c \in Calls : \A i \in Nat : Open(q, c, i)' => Open(q, c, i)
    BY <1>0, <1>2, <1>5, <2>2, OpenShrinks
  <2>5. IdsAreOnce'
    BY <1>0, <1>3, <2>1, <2>3, <2>4, IdsKept
  <2>6. \A c \in Calls : Own(c)
    <3> SUFFICES ASSUME NEW c \in Calls PROVE Own(c)
      OBVIOUS
    <3>1. CASE c = h
      <4>1. reply'[c] = x
        BY <1>0, <2>1, <3>1 DEF BroadcastShapes
      <4>2. x.ok => x.txid = h
        BY <1>2, <1>5 DEF IsOwn, h
      <4>3. QED BY <3>1, <4>1, <4>2
    <3>2. CASE c # h
      <4>1. reply'[c] = reply[c] /\ handler'[c] = handler[c]
        BY <1>0, <2>1, <3>2 DEF BroadcastShapes
      <4>2. QED BY <1>3, <4>1
    <3>3. QED BY <3>1, <3>2
  <2>7. QED BY <2>5, <2>6
<1>6. ASSUME UNCHANGED <<pending, nextId, atNode, answers>>, TakenUp \subseteq TakenUp' PROVE IdsAreOnce'
  <2>1. \A q \in Conns : \A c \in Calls : \A i \in Nat : Open(q, c, i)' => Open(q, c, i)
    BY <1>6 DEF Open
  <2>2. QED BY <1>0, <1>3, <1>6, <2>1, IdsKept
<1>7. ASSUME NEW d \in Calls, Joins(d) PROVE Goal
  <2>1. /\ handler[d] = "posted" /\ handler' = [handler EXCEPT ![d] = "queued"]
        /\ UNCHANGED <<reply, pending, nextId, atNode, answers>>
    BY <1>7 DEF Joins
  <2>2. TakenUp \subseteq TakenUp' /\ \A c \in Calls : handler'[c] = "done" => handler[c] = "done"
    BY <1>0, <2>1 DEF BroadcastShapes, TakenUp
  <2>3. QED BY <1>3, <1>6, <2>1, <2>2
<1>8. ASSUME NEW d \in Calls, Refused(d) PROVE Goal
  <2>1. /\ handler' = [handler EXCEPT ![d] = "done"] /\ reply' = [reply EXCEPT ![d] = Error]
        /\ UNCHANGED <<pending, nextId, atNode, answers>>
    BY <1>8 DEF Refused, Refuse
  <2>2. TakenUp \subseteq TakenUp'
    BY <1>0, <2>1 DEF BroadcastShapes, TakenUp
  <2>3. \A c \in Calls : Own(c)
    <3> SUFFICES ASSUME NEW c \in Calls PROVE Own(c)
      OBVIOUS
    <3>1. CASE c = d
      <4>1. reply'[c] = Error
        BY <1>0, <2>1, <3>1 DEF BroadcastShapes
      <4>2. QED BY <4>1 DEF Error
    <3>2. CASE c # d
      <4>1. reply'[c] = reply[c] /\ handler'[c] = handler[c]
        BY <1>0, <2>1, <3>2 DEF BroadcastShapes
      <4>2. QED BY <1>3, <4>1
    <3>3. QED BY <3>1, <3>2
  <2>4. QED BY <1>6, <2>1, <2>2, <2>3
<1>9. ASSUME Rests, NothingOpens PROVE Goal
  <2>1. /\ TakenUp \subseteq TakenUp' /\ \A c \in Calls : handler'[c] = "done" => handler[c] = "done"
    BY <1>0, <1>9 DEF BroadcastShapes, TakenUp, Rests
  <2>2. UNCHANGED <<reply, pending, nextId>>
    BY <1>9 DEF Rests
  <2>3. \A q \in Conns : \A c \in Calls : \A i \in Nat : Open(q, c, i)' => Open(q, c, i)
    BY <1>0, <1>2, <1>9, <2>2, OpenShrinks
  <2>4. IdsAreOnce'
    BY <1>0, <1>3, <2>1, <2>2, <2>3, IdsKept
  <2>5. QED BY <1>3, <2>1, <2>2, <2>4
<1>10. ASSUME NEW p \in Conns, Answered(p), NothingOpens PROVE Goal
  <2>1. PICK x : Ends(p, x) /\ IsOwn(Head(waiting[p]), x)
    BY <1>10 DEF Answered
  <2>2. QED BY <1>5, <1>10, <2>1
<1> HIDE DEF Goal
<1>11. Goal
  BY <1>4, <1>7, <1>8, <1>9, <1>10 DEF BroadcastKinds
<1>12. QED BY <1>11 DEF Goal

LEMMA OwnInit == FewCalls /\ BroadcastInit => OwnInv
<1> SUFFICES ASSUME FewCalls, BroadcastInit PROVE OwnInv
  OBVIOUS
<1>1. LockInv
  BY BroadcastShapesInit
<1>2. \A p \in Conns : \A c \in Calls : \A i \in Nat : ~Open(p, c, i)
  BY DEF BroadcastInit, Open
<1>3. \A p \in Conns : nextId[p] = 1
  BY DEF BroadcastInit
<1>4. \A p \in Conns : nextId[p] <= Cardinality(TakenUp) + 1
  BY <1>3, TakenUpIsFinite
<1>5. IdsAreOnce
  BY <1>2, <1>4 DEF IdsAreOnce
<1>6. AnswerIsOwn
  BY DEF BroadcastInit, AnswerIsOwn
<1>7. QED BY <1>1, <1>5, <1>6 DEF OwnInv

LEMMA EchoIsFixed == [BroadcastNext]_broadcastVars => UNCHANGED echoIds
BY DEF BroadcastNext, Connect, Lose, Request, Drained, RequestTimesOut, NodeAnswers,
       Dispatch, Post, Arrive, Learn, GiveUp, Finished, broadcastVars

(* With nodes that echo the id, and as long as the calls of a relay's life *)
(* do not use the ids up (65535 of them in the code), no call is answered  *)
(* with another call's acknowledgement, whatever is late, lost or timed    *)
(* out: ChiaPeer._request and _dispatch.                                   *)
THEOREM AnswerIsOwnAlways == FewCalls => (BroadcastSpec => []AnswerIsOwn)
<1> SUFFICES ASSUME FewCalls PROVE BroadcastSpec => []AnswerIsOwn
  OBVIOUS
<1>1. BroadcastInit => OwnInv
  BY OwnInit
<1>2. OwnInv /\ [BroadcastNext]_broadcastVars => OwnInv'
  <2> SUFFICES ASSUME OwnInv, [BroadcastNext]_broadcastVars PROVE OwnInv'
    OBVIOUS
  <2>1. LockInv
    BY DEF OwnInv
  <2>2. BroadcastKinds
    BY <2>1, StepsAreKinds
  <2>3. QED BY <2>2, EchoIsFixed, OwnKept
<1>3. OwnInv => AnswerIsOwn
  BY DEF OwnInv
<1>4. QED BY <1>1, <1>2, <1>3, PTL DEF BroadcastSpec

-----------------------------------------------------------------------------
(* The log. *)

(* What a node acknowledged as taken, it took.                             *)
AcceptedIsThere ==
  \A p \in Conns : \A a \in answers[p] :
    a.kind = "ack" /\ a.status = "ACCEPTED" => a.about \in mempool

LogInv == LockInv /\ AcceptedIsThere /\ LogIsTrue

LEMMA LogKept ==
  ASSUME LogInv, [BroadcastNext]_broadcastVars
  PROVE  LogInv'
<1>0. LockInv /\ BroadcastShapes /\ AcceptedIsThere /\ LogIsTrue
  BY DEF LogInv, LockInv
<1>1. LockInv'
  BY <1>0, StepsAreKinds, LockInvKept
<1>2. answers \in [Conns -> SUBSET Acks]
  BY <1>0 DEF BroadcastShapes
<1>3. SUFFICES AcceptedIsThere' /\ LogIsTrue'
  BY <1>1 DEF LogInv
<1>4. ASSUME \A p \in Conns : answers'[p] \subseteq answers[p], UNCHANGED <<mempool, log>>
      PROVE  AcceptedIsThere' /\ LogIsTrue'
  BY <1>0, <1>4 DEF AcceptedIsThere, LogIsTrue
<1>5. ASSUME NEW p \in Conns, Lose(p) PROVE AcceptedIsThere' /\ LogIsTrue'
  <2>1. answers' = [answers EXCEPT ![p] = {}] /\ UNCHANGED <<mempool, log>>
    BY <1>5 DEF Lose
  <2>2. QED BY <1>2, <1>4, <2>1
<1>6. ASSUME NEW p \in Conns, NodeAnswers(p) PROVE AcceptedIsThere' /\ LogIsTrue'
  <2>1. PICK r \in atNode[p], s \in {"ACCEPTED", "FAILED"} :
          /\ mempool' = IF r.call \notin Lookups /\ s = "ACCEPTED"
                        THEN mempool \cup {r.call} ELSE mempool
          /\ answers' = IF Connected(p)
                        THEN [answers EXCEPT ![p] = @ \cup
                                {[kind |-> Kind(r.call), about |-> r.call,
                                  id |-> IF echoIds THEN r.id ELSE NoId, status |-> s]}]
                        ELSE answers
    BY <1>6 DEF NodeAnswers
  <2> DEFINE a == [kind |-> Kind(r.call), about |-> r.call,
                   id |-> IF echoIds THEN r.id ELSE NoId, status |-> s]
  <2>2. a.kind = Kind(r.call) /\ a.about = r.call /\ a.status = s
    OBVIOUS
  <2> HIDE DEF a
  <2>3. a.kind = "ack" /\ a.status = "ACCEPTED" => a.about \in mempool'
    BY <2>1, <2>2 DEF Kind
  <2>4. \A q \in Conns : answers'[q] \subseteq answers[q] \cup {a}
    BY <1>2, <2>1 DEF a
  <2>5. mempool \subseteq mempool' /\ UNCHANGED log
    BY <1>6, <2>1 DEF NodeAnswers
  <2>6. AcceptedIsThere'
    BY <1>0, <2>3, <2>4, <2>5 DEF AcceptedIsThere
  <2>7. LogIsTrue'
    BY <1>0, <2>5 DEF LogIsTrue
  <2>8. QED BY <2>6, <2>7
<1>7. ASSUME NEW p \in Conns, Dispatch(p) PROVE AcceptedIsThere' /\ LogIsTrue'
  <2>1. PICK a \in answers[p] :
       /\ answers' = [answers EXCEPT ![p] = @ \ {a}]
       /\ \/ UNCHANGED log
          \/ Resolves(a, pending[p]) /\ log' = Recorded(pending[p].call, a)
    BY <1>7 DEF Dispatch
  <2>2. UNCHANGED mempool /\ \A q \in Conns : answers'[q] \subseteq answers[q]
    BY <1>2, <1>7, <2>1 DEF Dispatch
  <2>3. AcceptedIsThere'
    BY <1>0, <2>2 DEF AcceptedIsThere
  <2>4. CASE UNCHANGED log
    BY <1>4, <2>2, <2>4
  <2>5. CASE Resolves(a, pending[p]) /\ log' = Recorded(pending[p].call, a)
    <3>1. CASE pending[p].call \in Lookups
      BY <1>4, <2>2, <2>5, <3>1 DEF Recorded
    <3>2. CASE pending[p].call \notin Lookups
      <4> DEFINE e == [txid |-> a.about, status |-> a.status]
      <4>1. e.txid = a.about /\ e.status = a.status
        OBVIOUS
      <4>2. log' = log \cup {e}
        BY <2>5, <3>2 DEF Recorded
      <4> HIDE DEF e
      <4>3. a.kind = "ack"
        BY <2>5, <3>2 DEF Resolves, Kind
      <4>4. a.status = "ACCEPTED" => a.about \in mempool
        BY <1>0, <4>3 DEF AcceptedIsThere
      <4>5. LogIsTrue'
        BY <1>0, <2>2, <4>1, <4>2, <4>4 DEF LogIsTrue
      <4>6. QED BY <2>3, <4>5
    <3>3. QED BY <3>1, <3>2
  <2>6. QED BY <2>1, <2>4, <2>5
<1>8. CASE UNCHANGED <<answers, mempool, log>>
  BY <1>4, <1>8
<1>9. ASSUME NEW p \in Conns, Connect(p) \/ Request(p) \/ Drained(p) \/ RequestTimesOut(p)
      PROVE  UNCHANGED <<answers, mempool, log>>
  BY <1>9 DEF Connect, Request, Drained, RequestTimesOut
<1>10. ASSUME NEW c \in Calls, Post(c) \/ Arrive(c) \/ Learn(c) \/ GiveUp(c)
       PROVE  UNCHANGED <<answers, mempool, log>>
  BY <1>10 DEF Post, Arrive, Learn, GiveUp
<1>11. CASE Finished \/ UNCHANGED broadcastVars
  BY <1>8, <1>11 DEF Finished, broadcastVars
<1>12. QED BY <1>5, <1>6, <1>7, <1>8, <1>9, <1>10, <1>11 DEF BroadcastNext

(* The relay's broadcast log names as accepted only what a node took, even *)
(* when an ack meets the wrong request (State.log_broadcast).              *)
THEOREM LogIsTrueAlways == BroadcastSpec => []LogIsTrue
<1>1. BroadcastInit => LogInv
  <2>1. BroadcastInit => AcceptedIsThere /\ LogIsTrue
    BY DEF BroadcastInit, AcceptedIsThere, LogIsTrue
  <2>2. QED BY <2>1, BroadcastShapesInit DEF LogInv
<1>2. LogInv /\ [BroadcastNext]_broadcastVars => LogInv'
  BY LogKept
<1>3. LogInv => LogIsTrue
  BY DEF LogInv
<1>4. QED BY <1>1, <1>2, <1>3, PTL DEF BroadcastSpec

-----------------------------------------------------------------------------
(* RelayCoins                                                              *)

(* What may be known of the coins: nothing that is not on the chain.       *)
Known == {s \in [Coins -> States] : \A c \in Coins : s[c] <= chain[c]}
Messages == [kind : {"push", "answer"}, states : Known]

(* Nobody on the way from the nodes to the cache is ahead of the chain.    *)
NothingAhead ==
  /\ chain \in [Coins -> States]
  /\ view \in [Peers -> Known]
  /\ wire \in [Peers -> Seq(Messages)]
  /\ asked \in [Peers -> Requesters \cup {Nobody}]
  /\ got \in [Requesters -> Seq(Known)]
  /\ cache \in Known

CoinsInv == NothingAhead /\ ConfirmedIsSpent

LEMMA NothingIsKnown == chain \in [Coins -> States] => NoStates \in Known
BY DEF NoStates, Known, States, Absent, Unspent, Spent

LEMMA CoinsInitInv == RelayCoinsAssumption /\ CoinsInit => CoinsInv
<1> SUFFICES ASSUME CoinsInit PROVE CoinsInv
  OBVIOUS
<1>1. chain \in [Coins -> States]
  BY DEF CoinsInit, States, Absent, Unspent
<1>2. chain \in Known /\ NoStates \in Known
  BY <1>1, NothingIsKnown DEF Known, States, Absent, Unspent, Spent
<1>3. QED BY <1>1, <1>2 DEF CoinsInit, CoinsInv, NothingAhead, ConfirmedIsSpent

(* What was known stays so as the chain grows.                             *)
LEMMA KnownGrows ==
  ASSUME chain \in [Coins -> States], chain' \in [Coins -> States],
         \A c \in Coins : chain[c] <= chain'[c]
  PROVE  /\ Known \subseteq Known' /\ Messages \subseteq Messages'
         /\ Seq(Known) \subseteq Seq(Known') /\ Seq(Messages) \subseteq Seq(Messages')
<1>1. Known \subseteq Known'
  BY DEF Known, States, Absent, Unspent, Spent
<1>2. Messages \subseteq Messages'
  BY <1>1 DEF Messages
<1> HIDE DEF Messages, Known
<1>3. Seq(Known) \subseteq Seq(Known') /\ Seq(Messages) \subseteq Seq(Messages')
  BY <1>1, <1>2
<1>4. QED BY <1>1, <1>2, <1>3

LEMMA BlockStep ==
  ASSUME RelayCoinsAssumption, CoinsInv, NEW c \in Coins, Block(c)
  PROVE  CoinsInv'
<1>1. /\ chain[c] < Spent /\ chain' = [chain EXCEPT ![c] = @ + 1]
      /\ UNCHANGED <<view, wire, asked, got, cache, concluded>>
  BY DEF Block, link, relay
<1>2. chain \in [Coins -> States]
  BY DEF CoinsInv, NothingAhead
<1>3. chain' \in [Coins -> States] /\ \A d \in Coins : chain[d] <= chain'[d]
  BY <1>1, <1>2 DEF States, Absent, Unspent, Spent
<1>4. Known \subseteq Known' /\ Seq(Known) \subseteq Seq(Known') /\ Seq(Messages) \subseteq Seq(Messages')
  BY <1>2, <1>3, KnownGrows
<1>5. NothingAhead'
  <2>1. view' \in [Peers -> Known'] /\ cache' \in Known'
    BY <1>1, <1>4 DEF CoinsInv, NothingAhead
  <2>2. wire' \in [Peers -> Seq(Messages')] /\ got' \in [Requesters -> Seq(Known')]
    BY <1>1, <1>4 DEF CoinsInv, NothingAhead
  <2>3. QED BY <1>1, <1>3, <2>1, <2>2 DEF CoinsInv, NothingAhead
<1>6. ConfirmedIsSpent'
  BY <1>1, <1>2 DEF CoinsInv, ConfirmedIsSpent, RelayCoinsAssumption, Spent
<1>7. QED BY <1>5, <1>6 DEF CoinsInv

(* A message more on a connection, or nothing.                             *)
LEMMA FollowStep ==
  ASSUME CoinsInv, NEW p \in Peers, NEW c \in Coins, Follow(p, c)
  PROVE  CoinsInv'
<1> DEFINE states == [NoStates EXCEPT ![c] = chain[c]]
           m == [kind |-> "push", states |-> states]
<1>1. /\ view' = [view EXCEPT ![p][c] = chain[c]]
      /\ wire' = wire \/ wire' = [wire EXCEPT ![p] = Append(@, m)]
      /\ UNCHANGED <<chain, asked, got, cache, concluded>>
  BY DEF Follow, relay
<1>2. NothingAhead
  BY DEF CoinsInv
<1>3. \A s \in Known : [s EXCEPT ![c] = chain[c]] \in Known
  <2> SUFFICES ASSUME NEW s \in Known PROVE [s EXCEPT ![c] = chain[c]] \in Known
    OBVIOUS
  <2>1. s \in [Coins -> States] /\ chain \in [Coins -> States] /\ \A d \in Coins : s[d] <= chain[d]
    BY <1>2 DEF NothingAhead, Known
  <2>2. /\ [s EXCEPT ![c] = chain[c]] \in [Coins -> States]
        /\ \A d \in Coins : [s EXCEPT ![c] = chain[c]][d] \in {s[d], chain[d]}
    BY <2>1
  <2>3. \A d \in Coins : chain[d] <= chain[d]
    BY <2>1 DEF States, Absent, Unspent, Spent
  <2>4. \A d \in Coins : [s EXCEPT ![c] = chain[c]][d] <= chain[d]
    <3>1. SUFFICES ASSUME NEW d \in Coins PROVE [s EXCEPT ![c] = chain[c]][d] <= chain[d]
      OBVIOUS
    <3>2. CASE d = c
      BY <2>1, <2>3, <3>2
    <3>3. CASE d # c
      BY <2>1, <3>3
    <3>4. QED BY <3>2, <3>3
  <2>5. QED BY <2>2, <2>4 DEF Known
<1>4. states \in Known /\ view[p] \in Known
  BY <1>2, <1>3, NothingIsKnown DEF NothingAhead
<1>5. m \in Messages
  BY <1>4 DEF Messages
<1> HIDE DEF m, states
<1>6. view' \in [Peers -> Known] /\ wire' \in [Peers -> Seq(Messages)]
  <2>1. view \in [Peers -> Known] /\ wire \in [Peers -> Seq(Messages)]
    BY <1>2 DEF NothingAhead
  <2>2. [view[p] EXCEPT ![c] = chain[c]] \in Known /\ Append(wire[p], m) \in Seq(Messages)
    BY <1>3, <1>4, <1>5, <2>1
  <2>3. view' = [view EXCEPT ![p] = [view[p] EXCEPT ![c] = chain[c]]]
    BY <1>1, <2>1
  <2>4. CASE wire' = wire
    BY <2>1, <2>2, <2>3, <2>4
  <2>5. CASE wire' = [wire EXCEPT ![p] = Append(@, m)]
    BY <2>1, <2>2, <2>3, <2>5
  <2>6. QED BY <1>1, <2>4, <2>5
<1>7. Known' = Known /\ Messages' = Messages
  BY <1>1 DEF Known, Messages
<1>8. QED BY <1>1, <1>2, <1>6, <1>7 DEF CoinsInv, NothingAhead, ConfirmedIsSpent

LEMMA AnswerStep ==
  ASSUME CoinsInv, NEW p \in Peers, Answer(p)
  PROVE  CoinsInv'
<1> DEFINE these == AskedFor(asked[p])
           states == [c \in Coins |-> IF c \in these THEN view[p][c] ELSE Absent]
           m == [kind |-> "answer", states |-> states]
<1>1. /\ wire' = [wire EXCEPT ![p] = Append(@, m)]
      /\ UNCHANGED <<chain, view, asked, got, cache, concluded>>
  BY DEF Answer, node, relay
<1>2. m \in Messages
  <2>1. view[p] \in Known /\ chain \in [Coins -> States]
    BY DEF CoinsInv, NothingAhead
  <2>2. states \in Known
    BY <2>1 DEF Known, States, Absent, Unspent, Spent
  <2> HIDE DEF states
  <2>3. QED BY <2>2 DEF Messages
<1> HIDE DEF m
<1>3. wire' \in [Peers -> Seq(Messages)]
  BY <1>1, <1>2 DEF CoinsInv, NothingAhead
<1>4. Known' = Known /\ Messages' = Messages
  BY <1>1 DEF Known, Messages
<1>5. QED BY <1>1, <1>3, <1>4 DEF CoinsInv, NothingAhead, ConfirmedIsSpent

LEMMA IngestedIsKnown ==
  ASSUME NothingAhead, NEW s \in Known
  PROVE  Ingested(s) \in Known
BY DEF NothingAhead, Known, Ingested

LEMMA DeliverStep ==
  ASSUME CoinsInv, NEW p \in Peers, Deliver(p)
  PROVE  CoinsInv'
<1>1. /\ wire[p] # <<>> /\ wire' = [wire EXCEPT ![p] = Tail(@)]
      /\ UNCHANGED <<chain, view, concluded>>
  BY DEF Deliver, node
<1>2. NothingAhead /\ wire[p] \in Seq(Messages)
  BY DEF CoinsInv, NothingAhead
<1>3. Head(wire[p]) \in Messages /\ Tail(wire[p]) \in Seq(Messages)
  BY <1>1, <1>2
<1>4. Head(wire[p]).states \in Known
  BY <1>3 DEF Messages
<1>5. wire' \in [Peers -> Seq(Messages)]
  BY <1>1, <1>2, <1>3 DEF NothingAhead
<1>6. Known' = Known /\ Messages' = Messages
  BY <1>1 DEF Known, Messages
<1>7. CASE /\ asked[p] # Nobody
           /\ got' = [got EXCEPT ![asked[p]] = Append(@, Head(wire[p]).states)]
           /\ asked' = [asked EXCEPT ![p] = Nobody]
           /\ UNCHANGED cache
  <2>1. asked[p] \in Requesters
    BY <1>2, <1>7 DEF NothingAhead
  <2>2. got' \in [Requesters -> Seq(Known)]
    BY <1>2, <1>4, <1>7, <2>1 DEF NothingAhead
  <2>3. asked' \in [Peers -> Requesters \cup {Nobody}]
    BY <1>2, <1>7 DEF NothingAhead
  <2>4. QED BY <1>1, <1>2, <1>5, <1>6, <1>7, <2>2, <2>3 DEF CoinsInv, NothingAhead, ConfirmedIsSpent
<1>8. CASE cache' = Ingested(Head(wire[p]).states) /\ UNCHANGED <<got, asked>>
  BY <1>1, <1>2, <1>4, <1>5, <1>6, <1>8, IngestedIsKnown DEF CoinsInv, NothingAhead, ConfirmedIsSpent
<1>9. QED BY <1>7, <1>8 DEF Deliver

LEMMA IngestStep ==
  ASSUME CoinsInv, NEW r \in Requesters, Ingest(r)
  PROVE  CoinsInv'
<1>1. /\ got[r] # <<>> /\ cache' = Ingested(Head(got[r]))
      /\ got' = [got EXCEPT ![r] = Tail(@)]
      /\ UNCHANGED <<chain, view, wire, asked, concluded>>
  BY DEF Ingest, node, link
<1>2. NothingAhead /\ got[r] \in Seq(Known)
  BY DEF CoinsInv, NothingAhead
<1>3. Head(got[r]) \in Known /\ Tail(got[r]) \in Seq(Known)
  BY <1>1, <1>2
<1>4. cache' \in Known /\ got' \in [Requesters -> Seq(Known)]
  BY <1>1, <1>2, <1>3, IngestedIsKnown DEF NothingAhead
<1>5. Known' = Known /\ Messages' = Messages
  BY <1>1 DEF Known, Messages
<1>6. QED BY <1>1, <1>2, <1>4, <1>5 DEF CoinsInv, NothingAhead, ConfirmedIsSpent

(* A step that tells the relay nothing.                                    *)
LEMMA QuietCoins ==
  ASSUME CoinsInv, UNCHANGED <<chain, view, got, cache>>,
         wire' \in [Peers -> Seq(Messages)],
         asked' \in [Peers -> Requesters \cup {Nobody}],
         concluded' = "confirmed" => concluded = "confirmed" \/ chain[Watched] = Spent
  PROVE  CoinsInv'
<1>1. Known' = Known /\ Messages' = Messages
  BY DEF Known, Messages
<1>2. QED BY <1>1 DEF CoinsInv, NothingAhead, ConfirmedIsSpent

LEMMA CoinsStep == RelayCoinsAssumption /\ CoinsInv /\ [CoinsNext]_coinVars => CoinsInv'
<1> SUFFICES ASSUME RelayCoinsAssumption, CoinsInv, [CoinsNext]_coinVars PROVE CoinsInv'
  OBVIOUS
<1>1. wire \in [Peers -> Seq(Messages)] /\ asked \in [Peers -> Requesters \cup {Nobody}]
  BY DEF CoinsInv, NothingAhead
<1>2. ASSUME NEW p \in Peers, Disconnect(p) \/ Reconnect(p) \/ TimeOut(p) PROVE CoinsInv'
  <2>1. wire' = wire \/ wire' = [wire EXCEPT ![p] = <<>>]
    BY <1>2 DEF Disconnect, Reconnect, TimeOut
  <2>2. wire' \in [Peers -> Seq(Messages)]
    <3>1. <<>> \in Seq(Messages)
      OBVIOUS
    <3>2. CASE wire' = [wire EXCEPT ![p] = <<>>]
      BY <1>1, <3>1, <3>2
    <3>3. QED BY <1>1, <2>1, <3>2
  <2>3. asked' \in [Peers -> Requesters \cup {Nobody}]
    BY <1>1, <1>2 DEF Disconnect, Reconnect, TimeOut, Requesters
  <2>4. UNCHANGED <<chain, view, got, cache>> /\ concluded' \in {concluded, "error"}
    BY <1>2 DEF Disconnect, Reconnect, TimeOut, Raises, node, relay
  <2>5. QED BY <2>2, <2>3, <2>4, QuietCoins
<1>3. ASSUME NEW h \in Handlers, Ask(h) \/ Serve(h) \/ Fetch(h) \/ SourceReads(h) \/ Fetched(h)
      PROVE  CoinsInv'
  <2>1. asked' \in [Peers -> Requesters \cup {Nobody}]
    BY <1>1, <1>3 DEF Ask, Serve, Fetch, SourceReads, Fetched, link, Requesters
  <2>2. UNCHANGED <<chain, view, wire, got, cache, concluded>>
    BY <1>3 DEF Ask, Serve, Fetch, SourceReads, Fetched, node, link, relay
  <2>3. QED BY <1>1, <2>1, <2>2, QuietCoins
<1>4. CASE GoQuiet \/ Peak \/ Tick \/ PollTimesOut \/ UNCHANGED coinVars
  <2>1. UNCHANGED <<chain, view, wire, asked, got, cache>> /\ concluded' \in {concluded, "unknown"}
    BY <1>4 DEF GoQuiet, Peak, Tick, PollTimesOut, coinVars, node, link, relay
  <2>2. QED BY <1>1, <2>1, QuietCoins
<1>5. CASE Poll
  <2>1. UNCHANGED <<chain, view, wire, asked, got, cache>> /\ cache[Watched] = Spent
    BY <1>5 DEF Poll, node, link, relay, Confirms
  <2>2. chain[Watched] = Spent
    <3>1. Watched \in Coins /\ chain[Watched] \in States
      BY DEF CoinsInv, NothingAhead, RelayCoinsAssumption
    <3>2. cache[Watched] <= chain[Watched]
      BY <3>1 DEF CoinsInv, NothingAhead, Known
    <3>3. QED BY <2>1, <3>1, <3>2 DEF States, Absent, Unspent, Spent
  <2>3. QED BY <1>1, <2>1, <2>2, QuietCoins
<1>6. CASE PollAsks
  <2>1. asked' \in [Peers -> Requesters \cup {Nobody}]
    BY <1>1, <1>6 DEF PollAsks, Requesters
  <2>2. UNCHANGED <<chain, view, wire, got, cache, concluded>>
    BY <1>6 DEF PollAsks, node, relay
  <2>3. QED BY <1>1, <2>1, <2>2, QuietCoins
<1>7. QED
  BY <1>2, <1>3, <1>4, <1>5, <1>6, BlockStep, FollowStep, AnswerStep, DeliverStep, IngestStep
  DEF CoinsNext

(* A spend that the daemon reports as confirmed is on the chain, whichever *)
(* peers fell behind, hung up or answered late (wait_for_confirmation).    *)
THEOREM ConfirmedIsSpentAlways ==
  ASSUME RelayCoinsAssumption
  PROVE  CoinsSpec => []ConfirmedIsSpent
<1>1. CoinsInv => ConfirmedIsSpent
  BY DEF CoinsInv
<1>2. QED BY <1>1, CoinsInitInv, CoinsStep, PTL DEF CoinsSpec

-----------------------------------------------------------------------------
(* A fetch that was begun, or the entry kept of one: the source read its   *)
(* coins no earlier than the fetch began.                                  *)
Entries ==
  {e \in [there : {TRUE}, at : Nat, read : Nat] : e.at <= e.read /\ e.read <= clock}

LEMMA EntryType ==
  ASSUME NEW e \in Entries, clock \in Nat
  PROVE  /\ e \in [there : {TRUE}, at : Nat, read : Nat]
         /\ e.at \in Nat /\ e.read \in Nat
         /\ e.at <= clock
<1>1. e \in [there : {TRUE}, at : Nat, read : Nat]
  BY DEF Entries
<1>2. e.at <= e.read /\ e.read <= clock
  BY DEF Entries
<1>3. e.at \in Nat /\ e.read \in Nat
  BY <1>1
<1>4. e.at <= clock
  BY <1>2, <1>3
<1>5. QED BY <1>1, <1>3, <1>4

LEMMA ReadLater ==
  ASSUME NEW e \in [there : {TRUE}, at : Nat, read : Nat], NEW now \in Nat
  PROVE  /\ [e EXCEPT !.read = now] \in [there : {TRUE}, at : Nat, read : Nat]
         /\ [e EXCEPT !.read = now].at = e.at
         /\ [e EXCEPT !.read = now].read = now
OBVIOUS

HostedInv ==
  /\ clock \in Nat
  /\ hosted \in [fetch : [Handlers -> Entries \cup {NoEntry}], kept : Entries \cup {NoEntry},
                 turned : SUBSET Handlers]
  /\ HostedIsRecent

LEMMA HostedStep == RelayCoinsAssumption /\ HostedInv /\ [CoinsNext]_coinVars => HostedInv'
<1> SUFFICES ASSUME RelayCoinsAssumption, HostedInv, [CoinsNext]_coinVars PROVE HostedInv'
  OBVIOUS
<1>1. /\ clock \in Nat /\ hosted.kept \in Entries \cup {NoEntry}
      /\ hosted.fetch \in [Handlers -> Entries \cup {NoEntry}] /\ hosted.turned \subseteq Handlers
      /\ hosted = [fetch |-> hosted.fetch, kept |-> hosted.kept, turned |-> hosted.turned]
  BY DEF HostedInv
<1>2. ASSUME UNCHANGED <<clock, served>>,
             NEW f \in [Handlers -> Entries \cup {NoEntry}], NEW k \in Entries \cup {NoEntry},
             NEW t \in SUBSET Handlers, hosted' = [fetch |-> f, kept |-> k, turned |-> t]
      PROVE  HostedInv'
  <2>1. Entries' = Entries
    BY <1>2 DEF Entries
  <2>2. QED BY <1>1, <1>2, <2>1 DEF HostedInv, HostedIsRecent
<1>3. ASSUME UNCHANGED <<clock, served, hosted>> PROVE HostedInv'
  BY <1>1, <1>2, <1>3
<1>4. ASSUME NEW c \in Coins, Block(c) \/ \E p \in Peers : Follow(p, c) PROVE HostedInv'
  BY <1>3, <1>4 DEF Block, Follow
<1>5. ASSUME NEW p \in Peers, Answer(p) \/ Deliver(p) \/ Reconnect(p) PROVE HostedInv'
  BY <1>3, <1>5 DEF Answer, Deliver, Reconnect
<1>6. ASSUME NEW p \in Peers, Disconnect(p) \/ TimeOut(p) PROVE HostedInv'
  <2> DEFINE t == hosted.turned \cup ({asked[p]} \cap Handlers)
  <2>1. hosted' = [fetch |-> hosted.fetch, kept |-> hosted.kept, turned |-> t]
        /\ UNCHANGED <<clock, served>>
    BY <1>1, <1>6 DEF Disconnect, TimeOut, Turns
  <2>2. t \in SUBSET Handlers
    BY <1>1
  <2> HIDE DEF t
  <2>3. QED BY <1>1, <1>2, <2>1, <2>2
<1>7. ASSUME NEW r \in Requesters, Ingest(r) PROVE HostedInv'
  BY <1>3, <1>7 DEF Ingest
<1>8. CASE GoQuiet \/ Peak \/ PollAsks \/ Poll \/ PollTimesOut \/ UNCHANGED coinVars
  BY <1>3, <1>8 DEF GoQuiet, Peak, PollAsks, Poll, PollTimesOut, coinVars
<1>9. CASE Tick
  <2>1. clock' = clock + 1 /\ UNCHANGED <<served, hosted>>
    BY <1>9 DEF Tick
  <2>2. Entries \subseteq Entries'
    <3>1. \A n \in Nat : n <= clock => n <= clock'
      BY <1>1, <2>1
    <3>2. \A e \in Entries : e.read \in Nat
      BY DEF Entries
    <3>3. QED BY <3>1, <3>2 DEF Entries
  <2>3. QED BY <1>1, <2>1, <2>2 DEF HostedInv, HostedIsRecent
<1>10. ASSUME NEW h \in Handlers, Ask(h) PROVE HostedInv'
  BY <1>3, <1>10 DEF Ask
<1>11. ASSUME NEW h \in Handlers, Serve(h) PROVE HostedInv'
  <2>1. hosted.kept \in Entries /\ clock - hosted.kept.at <= CacheFor
    BY <1>1, <1>11 DEF Serve, Hit, NoEntry
  <2>2. clock - hosted.kept.read <= CacheFor
    BY <1>1, <2>1 DEF Entries, RelayCoinsAssumption
  <2>3. /\ hosted' = [fetch |-> hosted.fetch, kept |-> hosted.kept, turned |-> hosted.turned \ {h}]
        /\ served' = clock - hosted.kept.read /\ UNCHANGED clock
    BY <1>1, <1>11 DEF Serve
  <2>4. Entries' = Entries
    BY <2>3 DEF Entries
  <2>5. QED BY <1>1, <2>2, <2>3, <2>4 DEF HostedInv, HostedIsRecent
<1>12. ASSUME NEW h \in Handlers, Fetch(h) PROVE HostedInv'
  <2> DEFINE e == [there |-> TRUE, at |-> clock, read |-> clock]
             f == [hosted.fetch EXCEPT ![h] = e]
  <2>1. e \in Entries
    BY <1>1 DEF Entries
  <2> HIDE DEF e
  <2>2. f \in [Handlers -> Entries \cup {NoEntry}]
    BY <1>1, <2>1
  <2>3. hosted' = [fetch |-> f, kept |-> hosted.kept, turned |-> hosted.turned \ {h}]
        /\ UNCHANGED <<clock, served>>
    BY <1>1, <1>12 DEF Fetch, e
  <2> HIDE DEF f
  <2>4. QED BY <1>1, <1>2, <2>2, <2>3
<1>13. ASSUME NEW h \in Handlers, SourceReads(h) PROVE HostedInv'
  <2> DEFINE f == [hosted.fetch EXCEPT ![h].read = clock]
  <2>1. hosted.fetch[h] \in Entries
    BY <1>1, <1>13 DEF SourceReads, NoEntry
  <2>2. [hosted.fetch[h] EXCEPT !.read = clock] \in Entries
    <3> HIDE DEF f
    <3>1. /\ hosted.fetch[h] \in [there : {TRUE}, at : Nat, read : Nat]
          /\ hosted.fetch[h].at <= clock
      BY <1>1, <2>1, EntryType
    <3>2. /\ [hosted.fetch[h] EXCEPT !.read = clock] \in [there : {TRUE}, at : Nat, read : Nat]
          /\ [hosted.fetch[h] EXCEPT !.read = clock].at = hosted.fetch[h].at
          /\ [hosted.fetch[h] EXCEPT !.read = clock].read = clock
      BY <1>1, <3>1, ReadLater
    <3>3. clock <= clock
      BY <1>1
    <3>4. QED BY <3>1, <3>2, <3>3 DEF Entries
  <2>3. f \in [Handlers -> Entries \cup {NoEntry}]
    BY <1>1, <2>2
  <2>4. hosted' = [fetch |-> f, kept |-> hosted.kept, turned |-> hosted.turned]
        /\ UNCHANGED <<clock, served>>
    BY <1>1, <1>13 DEF SourceReads
  <2> HIDE DEF f
  <2>5. QED BY <1>1, <1>2, <2>3, <2>4
<1>14. ASSUME NEW h \in Handlers, Fetched(h) PROVE HostedInv'
  <2> DEFINE f == [hosted.fetch EXCEPT ![h] = NoEntry]
  <2>1. f \in [Handlers -> Entries \cup {NoEntry}]
    BY <1>1
  <2>2. PICK k \in {hosted.kept, hosted.fetch[h]} :
          hosted' = [fetch |-> f, kept |-> k, turned |-> hosted.turned]
    BY <1>1, <1>14 DEF Fetched, Kept
  <2>3. UNCHANGED <<clock, served>> /\ k \in Entries \cup {NoEntry}
    BY <1>1, <1>14 DEF Fetched
  <2> HIDE DEF f
  <2>4. QED BY <1>1, <1>2, <2>1, <2>2, <2>3
<1>15. QED
  BY <1>4, <1>5, <1>6, <1>7, <1>8, <1>9, <1>10, <1>11, <1>12, <1>13, <1>14 DEF CoinsNext

(* What the hosted entry serves was read within the last fallback_cache_s, *)
(* however long the sources took (FallbackChain.get_coins).                *)
THEOREM HostedIsRecentAlways ==
  ASSUME RelayCoinsAssumption
  PROVE  CoinsSpec => []HostedIsRecent
<1>1. CoinsInit => HostedInv
  BY DEF CoinsInit, HostedInv, HostedIsRecent, NoEntry, RelayCoinsAssumption
<1>2. HostedInv => HostedIsRecent
  BY DEF HostedInv
<1>3. QED BY <1>1, <1>2, HostedStep, PTL DEF CoinsSpec
=============================================================================

--------------------------- MODULE SpendAuthority ---------------------------
(***************************************************************************)
(* What the approval queue promises, without the daemon that keeps the     *)
(* promise.  A queue id stands for one request body from the moment it is  *)
(* handed out.  The human's approval is a grant that is good for sending   *)
(* that body once; a grant may come to nothing, but nothing revives it.    *)
(*                                                                         *)
(* Ids are independent of each other, and one step may move several: a     *)
(* failed save is made good by the save of a later request.                *)
(***************************************************************************)
CONSTANTS Ids,      \* queue ids
          Bodies,   \* request bodies
          NoBody    \* the body of an id that stands for nothing

VARIABLES status, body

avars == <<status, body>>

Statuses == {"free", "waiting", "granted", "sent", "closed"}

AuthorityInit ==
  /\ status = [q \in Ids |-> "free"]
  /\ body = [q \in Ids |-> NoBody]

Moves(q, from, to) == status[q] = from /\ status'[q] = to

HandOut(q) == Moves(q, "free", "waiting") /\ body'[q] \in Bodies
Grant(q)   == Moves(q, "waiting", "granted") /\ body'[q] = body[q]
SendOnce(q) == Moves(q, "granted", "sent") /\ body'[q] = body[q]
Close(q)   == /\ \/ Moves(q, "waiting", "closed")
                 \/ Moves(q, "granted", "closed")
              /\ body'[q] = NoBody
Skip(q)    == status'[q] = status[q] /\ body'[q] = body[q]
(* The save of the request failed, and the human decided on the item    *)
(* before another save mentioned its id.                                *)
HandOutRejected(q) == Moves(q, "free", "closed") /\ body'[q] = body[q]
HandOutGranted(q) == Moves(q, "free", "granted") /\ body'[q] \in Bodies

IdStep(q) == \/ HandOut(q) \/ Grant(q) \/ SendOnce(q) \/ Close(q) \/ Skip(q)
             \/ HandOutRejected(q) \/ HandOutGranted(q)

AuthorityNext ==
  /\ status' \in [Ids -> Statuses]
  /\ body' \in [Ids -> Bodies \cup {NoBody}]
  /\ \A q \in Ids : IdStep(q)

AuthoritySpec == AuthorityInit /\ [][AuthorityNext]_avars
=============================================================================

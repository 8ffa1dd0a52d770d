------------------------------- MODULE SignRef -------------------------------
(***************************************************************************)
(* Message signing without the queue (daemon.py `rt_mint_sign_ref` and     *)
(* `rt_message_sign`).  The human's tooling has the daemon mint a          *)
(* reference to exact params; an agent that presents it has the message    *)
(* signed at once.  A reference is an HMAC under a secret of the process,  *)
(* so agents hold nothing but references that were minted; it is good for  *)
(* one use, which memory alone keeps track of, until it expires.           *)
(***************************************************************************)
EXTENDS Naturals, Sequences, FiniteSets

CONSTANTS
  Messages,
  AllowedType,   \* the sign_type the chain of a message allows
  NoType,        \* a request that does not name a sign_type
  Lifetime,      \* seconds a reference is good for
  MaxMints, MaxPresented, MaxSignClock, MaxRestarts, MaxSignWriteErrors

SignRefAssumption ==
  /\ NoType \notin {"plain", "personal"}
  /\ AllowedType \in [Messages -> {"plain", "personal"}]
  /\ {Lifetime, MaxMints, MaxPresented, MaxSignClock, MaxRestarts,
      MaxSignWriteErrors} \subseteq Nat

VARIABLES
  signPc, request, presentedRef, \* the message_sign in hand
  process,                     \* which run of the daemon, and so its secret
  used,                        \* self._used_sign_refs
  signLedger,
  signClock, presented, signWriteErrors,
  minted,                      \* every reference handed out, in order
  \* history, read by the properties only
  verified,                    \* when and by which process the one in hand was verified
  released                     \* every signature handed out, in order

signHistory == <<verified, released>>
signBounds == <<signClock, presented, signWriteErrors>>
signVars == <<signPc, request, presentedRef, process, used, signLedger, signBounds,
              minted, signHistory>>

SignTypes == {"plain", "personal"}
Requests == [message : Messages, signType : SignTypes \cup {NoType}]
Canonical == [message : Messages, signType : SignTypes]
Refs == [secret : Nat, exp : Nat, params : Canonical]

SignInit ==
  /\ signPc = "idle" /\ request \in Canonical
  /\ presentedRef = [secret |-> 0, exp |-> 0, params |-> request]
  /\ process = 1 /\ used = {} /\ signLedger = <<>>
  /\ signClock = 0 /\ presented = 0 /\ signWriteErrors = 0
  /\ minted = <<>> /\ released = <<>>
  /\ verified = [at |-> 0, by |-> 0]

(* The params as the two routes build them from a request. *)
DefaultType(r, default) == IF r.signType = NoType THEN default ELSE r.signType
MintParams(r) == [message |-> r.message, signType |-> DefaultType(r, "personal")]
SignParams(r) == [message |-> r.message, signType |-> DefaultType(r, "plain")]

(* rt_mint_sign_ref, whose row is written before the reference is returned.*)
MintRef(r) ==
  /\ signPc = "idle" /\ Len(minted) < MaxMints
  /\ minted' = Append(minted, [secret |-> process, exp |-> signClock + Lifetime,
                               params |-> MintParams(r)])
  /\ signLedger' = Append(signLedger, [decision |-> "sign-ref-minted", params |-> MintParams(r)])
  /\ UNCHANGED <<signPc, request, presentedRef, process, used, signBounds, verified,
                 released>>

Verifies(ref, params) ==
  /\ ref.exp >= signClock
  /\ ref.secret = process
  /\ ref.params = params
  /\ ref \notin used

TakeRequest(r, ref) ==
  /\ signPc = "idle" /\ presented < MaxPresented
  /\ SignParams(r).signType = AllowedType[r.message]
  /\ presented' = presented + 1
  /\ request' = SignParams(r) /\ presentedRef' = ref
  /\ verified' = [at |-> signClock, by |-> process]
  /\ UNCHANGED <<process, signLedger, signClock, signWriteErrors, minted, released>>

(* A reference that verifies is used up, whatever comes of the signing. *)
PresentRef(r, ref) ==
  /\ TakeRequest(r, ref)
  /\ Verifies(ref, SignParams(r))
  /\ used' = used \cup {ref}
  /\ signPc' = "sign"

(* Any other reference is ignored and the request queues for the human.    *)
(* The queue is SpendDaemon's; here the request comes to an end.           *)
PresentStaleRef(r, ref) ==
  /\ TakeRequest(r, ref)
  /\ ~Verifies(ref, SignParams(r))
  /\ UNCHANGED <<signPc, used>>

SignMessage ==
  /\ signPc = "sign" /\ signPc' = "record"
  /\ UNCHANGED <<request, presentedRef, process, used, signLedger, signBounds, minted,
                 signHistory>>

(* _execute_message_sign raises: no signature, and no row. *)
SignFails ==
  /\ signPc = "sign" /\ signPc' = "idle"
  /\ UNCHANGED <<request, presentedRef, process, used, signLedger, signBounds, minted,
                 signHistory>>

Record ==
  /\ signPc = "record" /\ signPc' = "answer"
  /\ signLedger' = Append(signLedger, [decision |-> "chat-approved:verified-ref", params |-> request])
  /\ UNCHANGED <<request, presentedRef, process, used, signBounds, minted, signHistory>>

Answer ==
  /\ signPc = "answer" /\ signPc' = "idle"
  /\ released' = Append(released, [params |-> request, ref |-> presentedRef,
                                   at |-> verified.at, by |-> verified.by])
  /\ UNCHANGED <<request, presentedRef, process, used, signLedger, signBounds, minted,
                 verified>>

SignWriteFails ==
  /\ signPc = "record" /\ signPc' = "idle"
  /\ signWriteErrors < MaxSignWriteErrors /\ signWriteErrors' = signWriteErrors + 1
  /\ UNCHANGED <<request, presentedRef, process, used, signLedger, signClock, presented,
                 minted, signHistory>>

(* Mutant: the secret outlives the process. *)
RestartSameSecret ==
  /\ process < 1 + MaxRestarts
  /\ signPc' = "idle" /\ used' = {}
  /\ UNCHANGED <<request, presentedRef, process, signLedger, signBounds, minted,
                 signHistory>>

Restart ==
  /\ process < 1 + MaxRestarts
  /\ process' = process + 1
  /\ signPc' = "idle" /\ used' = {}
  /\ UNCHANGED <<request, presentedRef, signLedger, signBounds, minted, signHistory>>

SignTick ==
  /\ signClock < MaxSignClock
  /\ signClock' = signClock + 1
  /\ UNCHANGED <<signPc, request, presentedRef, process, used, signLedger, presented,
                 signWriteErrors,
                 minted, signHistory>>

Held == {minted[i] : i \in DOMAIN minted}

SignNext ==
  \/ \E r \in Requests : MintRef(r)
  \/ \E r \in Requests, ref \in Held : PresentRef(r, ref) \/ PresentStaleRef(r, ref)
  \/ SignMessage \/ SignFails \/ Record \/ Answer \/ SignWriteFails \/ Restart \/ SignTick

SignSpec == SignInit /\ [][SignNext]_signVars

-----------------------------------------------------------------------------
Count(seq, Test(_)) == Cardinality({i \in DOMAIN seq : Test(seq[i])})

(* The human's approvals cover the signatures, across restarts: for no      *)
(* params are more handed out than references were minted, and what is      *)
(* signed was approved in exactly these params, by way of the process that  *)
(* signs it, no longer ago than the lifetime.                               *)
SignaturesWithinApprovals ==
  /\ \A p \in Canonical :
       Count(released, LAMBDA s : s.params = p) <= Count(minted, LAMBDA r : r.params = p)
  /\ \A i \in DOMAIN released :
       \E m \in DOMAIN minted :
         /\ minted[m].params = released[i].params
         /\ minted[m].secret = released[i].by
         /\ released[i].at <= minted[m].exp
=============================================================================

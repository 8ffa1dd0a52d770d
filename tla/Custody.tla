------------------------------- MODULE Custody -------------------------------
(***************************************************************************)
(* The ceremony key of the daemon and the forced backup (custody.py;       *)
(* export.py; the start of Daemon in daemon.py).  The human seals a seed   *)
(* to the public key of the daemon; the daemon opens the envelope with its *)
(* own key, or with a legacy key that the agent has; until the human has   *)
(* proven to hold the words of that seed, routes that move funds are       *)
(* refused.                                                                *)
(*                                                                         *)
(* Two processes touch the files: a command of the human, and the daemon   *)
(* as it starts.  Each write is a rename and hence whole, and a process    *)
(* may be killed between any two.  The backup record is read and written   *)
(* back without a lock.  The envelope carries the standard seed, and the   *)
(* modes and owners of files are right.                                    *)
(***************************************************************************)
EXTENDS Naturals, FiniteSets

CONSTANTS
  Generated,   \* the keys that ceremony-key makes
  Seeds,
  MaxKills,    \* bound on processes killed
  MaxSeals     \* bound on envelopes the human makes

None == "none"
Legacy == "legacy"     \* the key the old ceremony left in the agent's reach
Ruined == "ruined"     \* a file that was overwritten and is still there

CustodyAssumption ==
  /\ {MaxKills, MaxSeals} \subseteq Nat
  /\ Generated \cap {None, Legacy, Ruined} = {}

Procs == {"cli", "start"}

VARIABLES
  split,      \* the daemon has an OS user of its own
  kind,       \* of the install: "old" ones came before the forced backup
  own,        \* <prefix>/ceremony/private.pem
  public,     \* public_b64.txt, which the pages seal to
  meta,       \* key.json: where the key came from; history: which key it was
  legacy,     \* the legacy path
  envelope, seals,
  record,     \* backup.json
  daemon,     \* what runs: the seed in memory and the key that opened it
  hand,       \* of each process: where it is, the record it has read, what it
              \* has loaded, whether it rotates the key, and the key it has
              \* seen in place or, later, made
  shown,      \* the seeds whose words the human has proven to hold
  kills,
  overlap,    \* history: a record was written over one that was not read
  crossed     \* history: a key was written over one that its writer had not
              \* seen, or when a move was about to remove the original

keyFiles == <<own, public, meta, legacy>>
install == <<split, kind>>
history == <<overlap, crossed>>
custodyVars == <<install, keyFiles, envelope, seals, record, daemon, hand, shown, kills,
                 history>>

NoRecord == [required |-> FALSE, proof |-> None, code |-> None]
NoEnvelope == [key |-> None, seed |-> None]
Nothing == [seed |-> None, via |-> None, stale |-> FALSE]
Idle == [at |-> "idle", doc |-> NoRecord, held |-> Nothing, rotating |-> FALSE,
         key |-> None]
NoMeta == [origin |-> None, of |-> None]

CustodyInit ==
  /\ split \in BOOLEAN
  /\ \/ /\ kind = "old" /\ own = None /\ public = None /\ meta = NoMeta
        /\ legacy = Legacy /\ record = NoRecord
        /\ envelope \in [key : {Legacy}, seed : Seeds]
     \/ /\ kind = "new" /\ split /\ own \in Generated /\ public = own
        /\ meta = [origin |-> "generated", of |-> own]
        /\ legacy = None /\ envelope = NoEnvelope
        /\ record = [NoRecord EXCEPT !.required = TRUE]
  /\ seals = 0 /\ daemon = Nothing
  /\ hand = [p \in Procs |-> Idle]
  /\ shown = {} /\ kills = 0 /\ overlap = FALSE /\ crossed = FALSE

At(p, step) == hand[p].at = step

\* Process p goes on with h in hand.
Holds(p, h) == hand' = [hand EXCEPT ![p] = IF h.at = "idle" THEN Idle ELSE h]

Goes(p, from, to) == At(p, from) /\ Holds(p, [hand[p] EXCEPT !.at = to])

-----------------------------------------------------------------------------
(* The ceremony key                                                        *)

\* generate_ceremony_key begins: a key that is there is reported, unless it is
\* rotated.
CeremonyKey ==
  /\ At("cli", "idle")
  /\ \E r \in BOOLEAN :
        /\ own # None => r
        /\ Holds("cli", [Idle EXCEPT !.at = "key", !.rotating = r, !.key = own])
  /\ UNCHANGED <<install, keyFiles, envelope, seals, record, daemon, shown, kills,
                 history>>

\* The private key, the public one, the origin, each in a write of its own;
\* the key takes long to make, and the file is not looked at again.
GenerateKey ==
  /\ At("cli", "key")
  /\ own' \in Generated \ {own}
  /\ Holds("cli", [hand["cli"] EXCEPT !.at = "public", !.key = own'])
  /\ crossed' = (crossed \/ own # hand["cli"].key \/ \E p \in Procs : At(p, "ruin"))
  /\ UNCHANGED <<install, public, meta, legacy, envelope, seals, record, daemon,
                 shown, kills, overlap>>

WritePublic ==
  /\ Goes("cli", "public", "meta")
  /\ public' = hand["cli"].key
  /\ UNCHANGED <<install, own, meta, legacy, envelope, seals, record, daemon, shown,
                 kills, history>>

WriteMeta ==
  /\ Goes("cli", "meta", IF hand["cli"].rotating THEN "require" ELSE "idle")
  /\ meta' = [origin |-> "generated", of |-> hand["cli"].key]
  /\ UNCHANGED <<install, own, public, legacy, envelope, seals, record, daemon, shown,
                 kills, history>>

\* adopt_ceremony_key begins: ceremony-adopt, or the daemon as it starts
\* (load_envelope_seed).  Not into a directory in the agent's reach.
AdoptBegins(p) ==
  /\ split /\ legacy # None
  /\ Goes(p, IF p = "cli" THEN "idle" ELSE "starting", "look")
  /\ UNCHANGED <<install, keyFiles, envelope, seals, record, daemon, shown, kills,
                 history>>

Done(p) == IF p = "cli" THEN "idle" ELSE "load"

\* Mutant: the key that is there is replaced.
AdoptOver(p) == legacy = Legacy

\* The legacy key is readable, and no other key is there.
Adoptable(p) == legacy = Legacy /\ own \in {None, Legacy}

\* The legacy key is read, and its new place looked at: a key that is there
\* has to be the same one.
AdoptLooks(p) ==
  /\ \/ Adoptable(p) /\ own = Legacy /\ Goes(p, "look", "read back")
     \/ /\ Adoptable(p) /\ own # Legacy
        /\ At(p, "look")
        /\ Holds(p, [hand[p] EXCEPT !.at = "adopt", !.key = own])
     \/ ~Adoptable(p) /\ Goes(p, "look", Done(p))
  /\ UNCHANGED <<install, keyFiles, envelope, seals, record, daemon, shown, kills,
                 history>>

AdoptKey(p) ==
  /\ Goes(p, "adopt", "adopt public")
  /\ own' = Legacy
  /\ crossed' = (crossed \/ own \notin {hand[p].key, Legacy})
  /\ UNCHANGED <<install, public, meta, legacy, envelope, seals, record, daemon,
                 shown, kills, overlap>>

AdoptPublic(p) ==
  /\ Goes(p, "adopt public", "adopt meta")
  /\ public' = Legacy
  /\ UNCHANGED <<install, own, meta, legacy, envelope, seals, record, daemon, shown,
                 kills, history>>

AdoptMeta(p) ==
  /\ Goes(p, "adopt meta", "read back")
  /\ meta' = [origin |-> "adopted", of |-> Legacy]
  /\ UNCHANGED <<install, own, public, legacy, envelope, seals, record, daemon, shown,
                 kills, history>>

\* The copy is read back before the original goes.
ReadBack(p) ==
  /\ Goes(p, "read back", IF own = Legacy THEN "ruin" ELSE Done(p))
  /\ UNCHANGED <<install, keyFiles, envelope, seals, record, daemon, shown, kills,
                 history>>

\* secure_remove: the original is overwritten where it is, then unlinked.
Ruin(p) ==
  /\ Goes(p, "ruin", "unlink")
  /\ legacy' = IF legacy = None THEN None ELSE Ruined
  /\ UNCHANGED <<install, own, public, meta, envelope, seals, record, daemon, shown,
                 kills, history>>

Unlink(p) ==
  /\ Goes(p, "unlink", Done(p))
  /\ legacy' = None
  /\ UNCHANGED <<install, own, public, meta, envelope, seals, record, daemon, shown,
                 kills, history>>

-----------------------------------------------------------------------------
(* The envelope                                                            *)

\* decrypt_envelope: with the key it was sealed to.
Opens(key) == key # None /\ envelope.key = key

\* load_envelope_seed: the own key first; a file at the legacy path after it.
Loadable == Opens(own) \/ (Opens(legacy) /\ legacy = Legacy)

LoadedVia == IF Opens(own) THEN own ELSE legacy

\* key_origin: a key without a note counts as generated.
Origin == IF meta.origin = None THEN "generated" ELSE meta.origin

\* The human types words into the page, which seals to the public key.
HumanSeals(s) ==
  /\ seals < MaxSeals /\ public # None
  /\ envelope' = [key |-> public, seed |-> s]
  /\ seals' = seals + 1
  /\ UNCHANGED <<install, keyFiles, record, daemon, hand, shown, kills, history>>

-----------------------------------------------------------------------------
(* The daemon                                                              *)

Start ==
  /\ daemon = Nothing
  /\ Goes("start", "idle", "starting")
  /\ UNCHANGED <<install, keyFiles, envelope, seals, record, daemon, shown, kills,
                 history>>

\* _load_std_seed_from_envelope: what a generated key opens is pending.
Load ==
  /\ At("start", "load") \/ (At("start", "starting") /\ ~(split /\ legacy # None))
  /\ \/ /\ Loadable
        /\ Holds("start",
             [Idle EXCEPT
                !.at = IF Opens(own) /\ Origin = "generated" THEN "require" ELSE "up",
                !.held = [seed |-> envelope.seed, via |-> LoadedVia,
                          stale |-> Opens(own) /\ meta.origin # None /\ meta.of # own]])
     \/ ~Loadable /\ Holds("start", Idle)
  /\ UNCHANGED <<install, keyFiles, envelope, seals, record, daemon, shown, kills,
                 history>>

Up ==
  /\ Goes("start", "up", "idle")
  /\ daemon' = hand["start"].held
  /\ UNCHANGED <<install, keyFiles, envelope, seals, record, shown, kills, history>>

Stop ==
  /\ daemon # Nothing
  /\ daemon' = Nothing
  /\ UNCHANGED <<install, keyFiles, envelope, seals, record, hand, shown, kills,
                 history>>

-----------------------------------------------------------------------------
(* The backup record                                                       *)

Reads(p, from, to) ==
  At(p, from) /\ Holds(p, [hand[p] EXCEPT !.at = to, !.doc = record])

Writes(p, new) ==
  /\ record' = new
  /\ overlap' = (overlap \/ hand[p].doc # record)

\* require_backup
Require(p) ==
  /\ Reads(p, "require", "required")
  /\ UNCHANGED <<install, keyFiles, envelope, seals, record, daemon, shown, kills,
                 history>>

Required(p) ==
  /\ Goes(p, "required", IF p = "cli" THEN "idle" ELSE "up")
  /\ IF hand[p].doc.required THEN UNCHANGED <<record, overlap>>
     ELSE Writes(p, [hand[p].doc EXCEPT !.required = TRUE])
  /\ UNCHANGED <<install, keyFiles, envelope, seals, daemon, shown, kills, crossed>>

\* `spellbook export` and `backup-confirm` load the live seed as the daemon
\* does, and move no key.
Command(op) ==
  /\ op \in {"words", "issue", "code"}
  /\ Loadable
  /\ At("cli", "idle")
  /\ Holds("cli", [Idle EXCEPT !.at = op,
                 !.held = [seed |-> envelope.seed, via |-> LoadedVia, stale |-> FALSE]])
  /\ UNCHANGED <<install, keyFiles, envelope, seals, record, daemon, shown, kills,
                 history>>

Live == hand["cli"].held.seed

\* run_export on a terminal: the words are typed back, or they are not.
Prove ==
  /\ \/ Goes("cli", "words", "confirm") /\ shown' = shown \cup {Live}
     \/ Goes("cli", "words", "idle") /\ UNCHANGED shown
  /\ UNCHANGED <<install, keyFiles, envelope, seals, record, daemon, kills, history>>

\* issue_backup_code, for the encrypted backup.
Issue ==
  /\ Reads("cli", "issue", "issued")
  /\ UNCHANGED <<install, keyFiles, envelope, seals, record, daemon, shown, kills,
                 history>>

Issued ==
  /\ Goes("cli", "issued", "idle")
  /\ Writes("cli", [hand["cli"].doc EXCEPT !.code = Live])
  /\ UNCHANGED <<install, keyFiles, envelope, seals, daemon, shown, kills, crossed>>

\* The code names the seed it was issued for.
CodeFits == record.code = Live

\* confirm_with_code: the human has read the code inside the backup of the
\* seed it is for; a wrong or an old code is dropped in the end.
GiveCode ==
  /\ record.code # None
  /\ \/ /\ CodeFits
        /\ Goes("cli", "code", "confirm")
        /\ shown' = shown \cup {record.code}
        /\ UNCHANGED <<record, overlap>>
     \/ /\ Goes("cli", "code", "idle")
        /\ record' \in {record, [record EXCEPT !.code = None]}
        /\ UNCHANGED <<shown, overlap>>
  /\ UNCHANGED <<install, keyFiles, envelope, seals, daemon, kills, crossed>>

NoCode ==
  /\ record.code = None /\ Goes("cli", "code", "idle")
  /\ UNCHANGED <<install, keyFiles, envelope, seals, record, daemon, shown, kills,
                 history>>

\* confirm_backup
Confirm ==
  /\ Reads("cli", "confirm", "confirmed")
  /\ UNCHANGED <<install, keyFiles, envelope, seals, record, daemon, shown, kills,
                 history>>

Confirmed ==
  /\ Goes("cli", "confirmed", "idle")
  /\ Writes("cli", [required |-> TRUE, proof |-> Live, code |-> None])
  /\ UNCHANGED <<install, keyFiles, envelope, seals, daemon, shown, kills, crossed>>

Kill(p) ==
  /\ ~At(p, "idle") /\ kills < MaxKills
  /\ Holds(p, Idle)
  /\ kills' = kills + 1
  /\ UNCHANGED <<install, keyFiles, envelope, seals, record, daemon, shown, history>>

CustodyNext ==
  \/ CeremonyKey \/ GenerateKey \/ WritePublic \/ WriteMeta
  \/ \E p \in Procs : \/ AdoptBegins(p) \/ AdoptLooks(p) \/ AdoptKey(p) \/ AdoptPublic(p)
                      \/ AdoptMeta(p) \/ ReadBack(p) \/ Ruin(p) \/ Unlink(p)
                      \/ Require(p) \/ Required(p) \/ Kill(p)
  \/ \E s \in Seeds : HumanSeals(s)
  \/ Start \/ Load \/ Up \/ Stop
  \/ \E op \in {"words", "issue", "code"} : Command(op)
  \/ Prove \/ Issue \/ Issued \/ GiveCode \/ NoCode \/ Confirm \/ Confirmed

CustodySpec == CustodyInit /\ [][CustodyNext]_custodyVars

-----------------------------------------------------------------------------
(* What the daemon lets through                                            *)

\* Mutant: any confirmation on record counts.
StatusOfAnySeed(seed) ==
  IF record.proof # None THEN "confirmed"
  ELSE IF record.required THEN "pending" ELSE "legacy"

\* backup_status, read on every gated request.
Status(seed) ==
  IF seed # None /\ record.proof = seed THEN "confirmed"
  ELSE IF record.required THEN "pending" ELSE "legacy"

\* Daemon.handle: routes that move funds answer.
FundsOpen == daemon # Nothing /\ Status(daemon.seed) # "pending"

\* A seed of a new install, and one that a generated key opened.
MustBeProven == kind = "new" \/ daemon.via \in Generated

-----------------------------------------------------------------------------
(* Properties                                                              *)

\* "A fresh install (and any seed loaded through a daemon-generated ceremony
\* key) is BACKUP-PENDING until the human proves they hold the words"
\* (custody.py): no fund route answers for such a seed before.
BackupBeforeFunds == FundsOpen /\ MustBeProven => daemon.seed \in shown

\* The same, but for a key.json that tells of another key than the one that is
\* there, whatever left it so (a rotation that was killed, or a ceremony-key
\* that ran into an adoption), and for a record written over one that had not
\* been read (Daemon.handle).
FundsAreBacked ==
  FundsOpen /\ MustBeProven /\ ~daemon.stale /\ ~overlap => daemon.seed \in shown

Rotates == At("cli", "key") /\ hand["cli"].rotating /\ own' # own

\* An envelope that a key opens is opened by a key at every later moment,
\* wherever a move is cut short and however two moves interleave, until the
\* human rotates the key or puts another envelope there (adopt_ceremony_key).
\* What may lose the key is a ceremony-key, a plain one too, that crosses a
\* move: either writes its key over one it had not seen, or the key is written
\* after the move read its copy back and before it has removed the original.
EnvelopeStays ==
  Loadable /\ envelope' = envelope /\ ~Rotates /\ ~crossed' => Loadable'
EnvelopeStaysOpen == [][EnvelopeStays]_custodyVars
=============================================================================

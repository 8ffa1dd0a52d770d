----------------------------- MODULE SealedSeed -----------------------------
(***************************************************************************)
(* The seed files of the daemon and their sealed copy (sealed.py;          *)
(* ceremony.apply_password; recovery.cmd_restore).                         *)
(* The seal outlives a wipe of the machine; the password brings the files  *)
(* back from it.                                                           *)
(*                                                                         *)
(* Commands run as processes of their own, with no lock between them: the  *)
(* page (`serve`) and a shell.  A command may be killed between two of its *)
(* writes; a wipe kills everything.  A file is created before it is        *)
(* filled, the seal is renamed into place.  Files are not edited under a   *)
(* command by hand.                                                        *)
(***************************************************************************)
EXTENDS Naturals, FiniteSets

CONSTANTS
  Wallets,
  MaxTroubles   \* bound on wipes, kills, removals and words typed in, together

Absent == "none"
Torn == "torn"     \* created and not filled: the loaders refuse it

SealedSeedAssumption == MaxTroubles \in Nat /\ Wallets \cap {Absent, Torn} = {}

Shells == {"page", "shell"}
Files == {"seed", "std"}

VARIABLES
  mode,       \* key_derivation in spellbook.json; "gone" with the file itself
  disk,       \* seed.key and std_seed.key
  seal,       \* seed.sealed
  doing,      \* of each process: where it is, and what it holds
  troubles

sealVars == <<mode, disk, seal, doing, troubles>>

NoFiles == [f \in Files |-> Absent]
NoSeal == NoFiles
Resting == [at |-> "idle", got |-> NoFiles, todo |-> {}, replace |-> FALSE]

SealInit ==
  /\ mode \in {"kdf", "standard"}
  /\ \E w \in Wallets : disk = [seed |-> w, std |-> IF mode = "kdf" THEN Absent ELSE w]
  /\ seal = NoSeal
  /\ doing = [p \in Shells |-> Resting]
  /\ troubles = 0

Does(p, from, step) == doing[p].at = from /\ doing' = [doing EXCEPT ![p] = step]

Ends(p, from) == Does(p, from, Resting)

SealTrouble == troubles < MaxTroubles /\ troubles' = troubles + 1

Quiet == \A p \in Shells : doing[p] = Resting

Readable(f) == disk[f] \notin {Absent, Torn}

\* locate: with no spellbook.json the std seed counts when its file is there.
UsesStd == mode = "standard" \/ (mode = "gone" /\ disk["std"] # Absent)

-----------------------------------------------------------------------------
(* seal                                                                    *)

\* The files that go into the seal, or none when one is missing or torn.  The
\* page has no way to replace one (Viewer.handle_post).
SealReads(p, replace) ==
  /\ p = "page" => ~replace
  /\ Readable("seed") /\ (UsesStd => Readable("std"))
  /\ Does(p, "idle",
          [Resting EXCEPT !.at = "compare", !.replace = replace,
             !.got = [seed |-> disk["seed"],
                      std |-> IF UsesStd THEN disk["std"] ELSE Absent]])
  /\ UNCHANGED <<mode, disk, seal, troubles>>

\* Mutant: the seal that is there is not looked at.
SameUnread(s) == TRUE

\* The fingerprint in the seal is that of the seed.
SameWallet(s) == seal["seed"] = s["seed"]

SealCompares(p) ==
  /\ IF seal # NoSeal /\ doing[p].replace /\ ~SameWallet(doing[p].got)
     THEN Ends(p, "compare")
     ELSE Does(p, "compare", [doing[p] EXCEPT !.at = "sealing"])
  /\ UNCHANGED <<mode, disk, seal, troubles>>

\* write_sealed: one that is there stays, unless it is replaced.
SealWrites(p) ==
  /\ \/ /\ seal = NoSeal \/ doing[p].replace
        /\ Does(p, "sealing", [doing[p] EXCEPT !.at = "rename"])
     \/ seal # NoSeal /\ ~doing[p].replace /\ Ends(p, "sealing")
  /\ UNCHANGED <<mode, disk, seal, troubles>>

SealRenames(p) ==
  /\ Ends(p, "rename")
  /\ seal' = doing[p].got
  /\ UNCHANGED <<mode, disk, troubles>>

-----------------------------------------------------------------------------
(* unlock                                                                  *)

\* _open, with the right password; a wrong one changes nothing.
UnlockOpens(p) ==
  /\ seal # NoSeal
  /\ Does(p, "idle", [Resting EXCEPT !.at = "check", !.got = seal])
  /\ UNCHANGED <<mode, disk, seal, troubles>>

\* What the seal has and the disk has not.
Missing(p) == {f \in Files : doing[p].got[f] # Absent /\ disk[f] = Absent}

\* Every file that is there is the sealed one, and the seal holds a std seed
\* when the install wants one.
MayUnlock(p) ==
  /\ \A f \in Files :
       doing[p].got[f] # Absent => disk[f] \in {Absent, doing[p].got[f]}
  /\ UsesStd => doing[p].got["std"] # Absent

\* Both files are looked at in one step.
UnlockChecks(p) ==
  /\ IF MayUnlock(p)
     THEN Does(p, "check", [doing[p] EXCEPT !.at = "write", !.todo = Missing(p)])
     ELSE Ends(p, "check")
  /\ UNCHANGED <<mode, disk, seal, troubles>>

Next1(p) == IF "seed" \in doing[p].todo THEN "seed" ELSE "std"

\* Mutant: a file that is there is passed over.
PassesOver(p, f) ==
  IF disk[f] = Absent
  THEN /\ disk' = [disk EXCEPT ![f] = Torn]
       /\ Does(p, "write", [doing[p] EXCEPT !.at = "fill"])
  ELSE /\ Does(p, "write", [doing[p] EXCEPT !.todo = @ \ {f}])
       /\ UNCHANGED disk

\* O_CREAT | O_EXCL: one that came up in between ends the command.
Creates(p, f) ==
  IF disk[f] = Absent
  THEN /\ disk' = [disk EXCEPT ![f] = Torn]
       /\ Does(p, "write", [doing[p] EXCEPT !.at = "fill"])
  ELSE Ends(p, "write") /\ UNCHANGED disk

UnlockCreates(p) ==
  /\ doing[p].todo # {}
  /\ Creates(p, Next1(p))
  /\ UNCHANGED <<mode, seal, troubles>>

Fills(p) ==
  /\ Does(p, "fill", [doing[p] EXCEPT !.at = "write", !.todo = @ \ {Next1(p)}])
  /\ disk' = [disk EXCEPT ![Next1(p)] = doing[p].got[Next1(p)]]
  /\ UNCHANGED <<mode, seal, troubles>>

\* "Seed unlocked", or "Restored".
Reports(p) ==
  /\ doing[p].todo = {}
  /\ Does(p, "write", [doing[p] EXCEPT !.at = "reported"])
  /\ UNCHANGED <<mode, disk, seal, troubles>>

Rests(p) == Ends(p, "reported") /\ UNCHANGED <<mode, disk, seal, troubles>>

-----------------------------------------------------------------------------
(* Paper and the machine                                                   *)

\* recovery.cmd_restore: words of any wallet, for a file that is not there.
RestoreReads(f, w) ==
  /\ SealTrouble /\ disk[f] = Absent
  /\ Does("shell", "idle", [Resting EXCEPT !.at = "write", !.todo = {f},
                                     !.got = [NoFiles EXCEPT ![f] = w]])
  /\ UNCHANGED <<mode, disk, seal>>

\* Everything outside the workspace, where the seal is.
Wipe ==
  /\ SealTrouble
  /\ disk' = NoFiles /\ mode' = "gone"
  /\ doing' = [p \in Shells |-> Resting]
  /\ UNCHANGED seal

KillShell(p) ==
  /\ SealTrouble
  /\ doing[p] # Resting /\ doing' = [doing EXCEPT ![p] = Resting]
  /\ UNCHANGED <<mode, disk, seal>>

\* The install is put back, for the wallet it had or for another kind.
Configure ==
  /\ mode = "gone"
  /\ mode' \in {"kdf", "standard"}
  /\ UNCHANGED <<disk, seal, doing, troubles>>

\* A file is moved aside by hand, with the daemon stopped.
RemoveFile(f) ==
  /\ SealTrouble /\ Quiet
  /\ disk[f] # Absent /\ disk' = [disk EXCEPT ![f] = Absent]
  /\ UNCHANGED <<mode, seal, doing>>

Unlocks(p) == \/ UnlockOpens(p) \/ UnlockChecks(p) \/ UnlockCreates(p)
              \/ Fills(p) \/ Reports(p) \/ Rests(p)

Seals(p) == \/ \E replace \in BOOLEAN : SealReads(p, replace)
            \/ SealCompares(p) \/ SealWrites(p) \/ SealRenames(p)

SealNext ==
  \/ \E p \in Shells :
       Unlocks(p) \/ Seals(p) \/ KillShell(p)
  \/ \E f \in Files, w \in Wallets : RestoreReads(f, w)
  \/ Wipe \/ Configure \/ \E f \in Files : RemoveFile(f)

SealSpec == SealInit /\ [][SealNext]_sealVars

-----------------------------------------------------------------------------
(* Properties                                                              *)

\* "Re-sealing (password change) must never swap in a different wallet over
\* the backup of the live one" (sealed.seal): the seed in the seal stays,
\* whatever two commands, wipes and restored words do.
SealStays == seal # NoSeal => seal'["seed"] = seal["seed"]
SealKeepsSeed == [][SealStays]_sealVars

\* The same of the whole wallet the seal holds.
StandardStays == seal["std"] # Absent => seal'["std"] = seal["std"]

\* A command that reports "unlocked" or "restored" has left on the disk every
\* file it was given, as it was given it (sealed.unlock).
ReportIsTrue ==
  \A p \in Shells : doing[p].at = "reported" =>
    \A f \in Files : doing[p].got[f] # Absent => disk[f] = doing[p].got[f]
=============================================================================

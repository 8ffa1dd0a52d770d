---------------------------- MODULE WalletProofs ----------------------------
(***************************************************************************)
(* The keys, the seed files and the Sage wallet, for any seeds, keys,      *)
(* requests and bounds on kills, wipes and trouble: SealedSeed, Custody    *)
(* and SageWallet.                                                         *)
(*                                                                         *)
(* Of SealedSeed: a seal is written over only by the same seed because a   *)
(* process that seals still holds what is on the disk (HoldsTheSeed) from  *)
(* its comparison on (MayReplace), and no process fills a file that is not *)
(* its own (FillsItsOwn).                                                  *)
(*                                                                         *)
(* Of Custody: the daemon lets funds go for a proven seed only, because    *)
(* what is on record as proven, or was when somebody read it, has been     *)
(* shown (ProofIsShown), and the backup is asked for from before a         *)
(* generated key's seed is up (BackupIsDemanded). An envelope stays open   *)
(* because the legacy file is unlinked only after its copy was made and it *)
(* was overwritten (CopyIsMade), and a move about to remove the original   *)
(* has its copy in place unless a ceremony-key crossed it (MoveInv).       *)
(*                                                                         *)
(* Of SageWallet: the selected wallet stays the daemon's own from the      *)
(* selection to the call unless another tool logs in there                 *)
(* (OwnIsSelected), and a row that says a transfer                         *)
(* went out names a transaction of that asset, amount and destination      *)
(* (RowsAreReal), for which an NFT has to be one NFT wherever a transfer   *)
(* is held (AllAreChecked).                                                *)
(* What a transaction takes out was judged at its total because an intent  *)
(* is queued in a form that can be totalled (AllAreSound), merged legs     *)
(* carry totals (MergedHas), and an execution goes on only when the        *)
(* strikes and offer terms it reads again are those that were judged       *)
(* (StrikesWereJudged, TakenAre), whatever Sage has come to report.        *)
(***************************************************************************)
EXTENDS SageWallet, Custody, SealedSeed, SumTheorems, SequenceTheorems, TLAPS

-----------------------------------------------------------------------------
(* SealedSeed                                                              *)

SealSteps == {"idle", "compare", "sealing", "rename", "check", "write", "fill", "reported"}
Contents == [Files -> Wallets \cup {Absent}]

SealTyped ==
  /\ disk \in [Files -> Wallets \cup {Absent, Torn}]
  /\ seal \in Contents
  /\ doing \in [Shells -> [at : SealSteps, got : Contents, todo : SUBSET Files,
                           replace : BOOLEAN]]

(* A process that seals holds the seed that is on the disk.                *)
HoldsTheSeed ==
  \A p \in Shells : doing[p].at \in {"compare", "sealing", "rename"} =>
    disk["seed"] = doing[p].got["seed"] /\ disk["seed"] \in Wallets

(* It goes on to write only over a seal of that seed.                      *)
MayReplace ==
  \A p \in Shells :
    doing[p].at = "rename" \/ (doing[p].at = "sealing" /\ doing[p].replace) =>
      seal = NoSeal \/ seal["seed"] = doing[p].got["seed"]

(* The file a process is about to fill is its own, and empty.              *)
FillsItsOwn ==
  \A p \in Shells : doing[p].at = "fill" =>
    /\ doing[p].todo # {}
    /\ disk[Next1(p)] = Torn
    /\ \A q \in Shells : doing[q].at = "fill" /\ Next1(q) = Next1(p) => q = p

(* What a process was given and has not to write is on the disk.           *)
WrittenIsThere ==
  \A p \in Shells : doing[p].at \in {"write", "fill", "reported"} =>
    /\ doing[p].at = "reported" => doing[p].todo = {}
    /\ \A f \in Files : f \notin doing[p].todo /\ doing[p].got[f] # Absent =>
                          disk[f] = doing[p].got[f]

SealInv == SealTyped /\ HoldsTheSeed /\ MayReplace /\ FillsItsOwn /\ WrittenIsThere

-----------------------------------------------------------------------------
LEMMA SealInvInit ==
  ASSUME SealedSeedAssumption, SealInit PROVE SealInv
<1> USE DEF SealedSeedAssumption
<1>1. Resting \in [at : SealSteps, got : Contents, todo : SUBSET Files, replace : BOOLEAN]
  BY DEF Resting, SealSteps, Contents, NoFiles
<1>2. SealTyped
  BY <1>1 DEF SealInit, SealTyped, NoSeal, NoFiles, Contents, Files
<1>3. \A p \in Shells : doing[p].at = "idle"
  BY DEF SealInit, Resting
<1>4. QED
  BY <1>2, <1>3 DEF SealInv, HoldsTheSeed, MayReplace, FillsItsOwn, WrittenIsThere

LEMMA NextFile ==
  ASSUME SealTyped, NEW p \in Shells
  PROVE  /\ Next1(p) \in Files
         /\ doing[p].todo # {} => Next1(p) \in doing[p].todo
BY DEF SealTyped, Next1, Files

(* Steps that leave the seal alone and are not of a process that writes.   *)
LEMMA QuietStep ==
  ASSUME SealInv, NEW p \in Shells,
         NEW s \in [at : SealSteps, got : Contents, todo : SUBSET Files, replace : BOOLEAN],
         doing' = [doing EXCEPT ![p] = s], UNCHANGED <<disk, seal>>,
         s.at \in {"compare", "sealing", "rename"} =>
           disk["seed"] = s.got["seed"] /\ disk["seed"] \in Wallets,
         s.at = "rename" \/ (s.at = "sealing" /\ s.replace) =>
           seal = NoSeal \/ seal["seed"] = s.got["seed"],
         s.at # "fill",
         s.at \in {"write", "reported"} =>
           /\ s.at = "reported" => s.todo = {}
           /\ \A f \in Files : f \notin s.todo /\ s.got[f] # Absent => disk[f] = s.got[f]
  PROVE  SealInv'
<1>1. SealTyped'
  BY DEF SealInv, SealTyped
<1>2. doing'[p] = s /\ \A q \in Shells \ {p} : doing'[q] = doing[q]
  BY DEF SealInv, SealTyped
<1>3. HoldsTheSeed'
  BY <1>2 DEF SealInv, HoldsTheSeed
<1>4. MayReplace'
  BY <1>2 DEF SealInv, MayReplace
<1>5. \A q \in Shells \ {p} : Next1(q)' = Next1(q)
  BY <1>2 DEF Next1
<1>6. FillsItsOwn'
  BY <1>2, <1>5 DEF SealInv, FillsItsOwn
<1>7. WrittenIsThere'
  BY <1>2 DEF SealInv, WrittenIsThere
<1>8. QED BY <1>1, <1>3, <1>4, <1>6, <1>7 DEF SealInv

LEMMA NoStepOfSeal ==
  ASSUME SealInv, UNCHANGED <<disk, seal, doing>>
  PROVE  SealInv'
BY DEF SealInv, SealTyped, HoldsTheSeed, MayReplace, FillsItsOwn, WrittenIsThere, Next1

LEMMA RestingIsTyped ==
  Resting \in [at : SealSteps, got : Contents, todo : SUBSET Files, replace : BOOLEAN]
BY DEF Resting, SealSteps, Contents, NoFiles

LEMMA RestsKeepsSeal ==
  ASSUME SealInv, NEW p \in Shells, doing' = [doing EXCEPT ![p] = Resting],
         UNCHANGED <<disk, seal>>
  PROVE  SealInv'
<1>1. Resting.at = "idle"
  BY DEF Resting
<1>2. QED BY <1>1, RestingIsTyped, QuietStep

LEMMA CompareStep ==
  ASSUME NEW g \in Contents, NEW replace \in BOOLEAN,
         NEW s \in {[Resting EXCEPT !.at = "compare", !.replace = replace, !.got = g]}
  PROVE  /\ s \in [at : SealSteps, got : Contents, todo : SUBSET Files, replace : BOOLEAN]
         /\ s.at = "compare" /\ s.got = g
<1>1. Resting.at = "idle" /\ Resting.todo = {}
  BY DEF Resting
<1>2. QED BY RestingIsTyped, <1>1 DEF SealSteps

LEMMA SealReadsKeeps ==
  ASSUME SealedSeedAssumption, SealInv, NEW p \in Shells, NEW replace \in BOOLEAN,
         SealReads(p, replace)
  PROVE  SealInv'
<1> USE DEF SealedSeedAssumption
<1> DEFINE g == [seed |-> disk["seed"], std |-> IF UsesStd THEN disk["std"] ELSE Absent]
           s == [Resting EXCEPT !.at = "compare", !.replace = replace, !.got = g]
<1>1. doing' = [doing EXCEPT ![p] = s] /\ UNCHANGED <<disk, seal>>
  BY DEF SealReads, Does
<1>3. disk["seed"] \in Wallets /\ (UsesStd => disk["std"] \in Wallets)
  BY DEF SealReads, Readable, SealInv, SealTyped, Files
<1>4. g \in Contents
  <2>1. g = [f \in Files |-> IF f = "seed" THEN disk["seed"]
                             ELSE IF UsesStd THEN disk["std"] ELSE Absent]
    BY DEF Files
  <2>2. QED BY <2>1, <1>3 DEF Contents
<1>5. /\ s \in [at : SealSteps, got : Contents, todo : SUBSET Files, replace : BOOLEAN]
      /\ s.at = "compare" /\ s.got = g
  <2> HIDE DEF g
  <2>1. QED BY <1>4, CompareStep
<1>6. g["seed"] = disk["seed"]
  OBVIOUS
<1> HIDE DEF s, g
<1>7. QED BY <1>1, <1>3, <1>5, <1>6, QuietStep

LEMMA SealComparesKeeps ==
  ASSUME SealInv, NEW p \in Shells, SealCompares(p)
  PROVE  SealInv'
<1>1. CASE seal # NoSeal /\ doing[p].replace /\ ~SameWallet(doing[p].got)
  BY <1>1, RestsKeepsSeal DEF SealCompares, Ends, Does
<1>2. CASE ~(seal # NoSeal /\ doing[p].replace /\ ~SameWallet(doing[p].got))
  <2> DEFINE s == [doing[p] EXCEPT !.at = "sealing"]
  <2>1. doing' = [doing EXCEPT ![p] = s] /\ UNCHANGED <<disk, seal>>
        /\ doing[p].at = "compare"
    BY <1>2 DEF SealCompares, Does
  <2>2. s \in [at : SealSteps, got : Contents, todo : SUBSET Files, replace : BOOLEAN]
    BY DEF SealInv, SealTyped, SealSteps
  <2>3. s.at = "sealing" /\ s.got = doing[p].got /\ s.replace = doing[p].replace
    BY DEF SealInv, SealTyped
  <2>4. s.replace => seal = NoSeal \/ seal["seed"] = s.got["seed"]
    BY <1>2, <2>3 DEF SameWallet
  <2>5. disk["seed"] = s.got["seed"] /\ disk["seed"] \in Wallets
    BY <2>1, <2>3 DEF SealInv, HoldsTheSeed
  <2> HIDE DEF s
  <2>6. QED BY <2>1, <2>2, <2>3, <2>4, <2>5, QuietStep
<1>3. QED BY <1>1, <1>2

LEMMA SealWritesKeeps ==
  ASSUME SealInv, NEW p \in Shells, SealWrites(p)
  PROVE  SealInv'
<1>1. CASE Ends(p, "sealing")
  BY <1>1, RestsKeepsSeal DEF SealWrites, Ends, Does
<1>2. CASE (seal = NoSeal \/ doing[p].replace)
           /\ Does(p, "sealing", [doing[p] EXCEPT !.at = "rename"])
  <2> DEFINE s == [doing[p] EXCEPT !.at = "rename"]
  <2>1. doing' = [doing EXCEPT ![p] = s] /\ UNCHANGED <<disk, seal>>
        /\ doing[p].at = "sealing"
    BY <1>2 DEF SealWrites, Does
  <2>2. s \in [at : SealSteps, got : Contents, todo : SUBSET Files, replace : BOOLEAN]
    BY DEF SealInv, SealTyped, SealSteps
  <2>3. s.at = "rename" /\ s.got = doing[p].got
    BY DEF SealInv, SealTyped
  <2>4. seal = NoSeal \/ seal["seed"] = s.got["seed"]
    BY <1>2, <2>1, <2>3 DEF SealInv, MayReplace
  <2>5. disk["seed"] = s.got["seed"] /\ disk["seed"] \in Wallets
    BY <2>1, <2>3 DEF SealInv, HoldsTheSeed
  <2> HIDE DEF s
  <2>6. QED BY <2>1, <2>2, <2>3, <2>4, <2>5, QuietStep
<1>3. QED BY <1>1, <1>2 DEF SealWrites

LEMMA SealRenamesKeeps ==
  ASSUME SealInv, NEW p \in Shells, SealRenames(p)
  PROVE  SealInv'
<1>1. /\ doing[p].at = "rename" /\ doing' = [doing EXCEPT ![p] = Resting]
      /\ seal' = doing[p].got /\ UNCHANGED disk
  BY DEF SealRenames, Ends, Does
<1>2. doing'[p].at = "idle" /\ \A q \in Shells \ {p} : doing'[q] = doing[q]
  BY <1>1 DEF SealInv, SealTyped, Resting
<1>3. SealTyped'
  BY <1>1, RestingIsTyped DEF SealInv, SealTyped
<1>4. HoldsTheSeed'
  BY <1>1, <1>2 DEF SealInv, HoldsTheSeed
<1>5. MayReplace'
  BY <1>1, <1>2 DEF SealInv, MayReplace, HoldsTheSeed
<1>6. \A q \in Shells \ {p} : Next1(q)' = Next1(q)
  BY <1>2 DEF Next1
<1>7. FillsItsOwn'
  BY <1>1, <1>2, <1>6 DEF SealInv, FillsItsOwn
<1>8. WrittenIsThere'
  BY <1>1, <1>2 DEF SealInv, WrittenIsThere
<1>9. QED BY <1>3, <1>4, <1>5, <1>7, <1>8 DEF SealInv

LEMMA UnlockOpensKeeps ==
  ASSUME SealInv, NEW p \in Shells, UnlockOpens(p)
  PROVE  SealInv'
<1> DEFINE s == [Resting EXCEPT !.at = "check", !.got = seal]
<1>1. doing' = [doing EXCEPT ![p] = s] /\ UNCHANGED <<disk, seal>>
  BY DEF UnlockOpens, Does
<1>2. s \in [at : SealSteps, got : Contents, todo : SUBSET Files, replace : BOOLEAN]
      /\ s.at = "check"
  BY DEF Resting, SealInv, SealTyped, SealSteps
<1> HIDE DEF s
<1>3. QED BY <1>1, <1>2, QuietStep

LEMMA UnlockChecksKeeps ==
  ASSUME SealInv, NEW p \in Shells, UnlockChecks(p)
  PROVE  SealInv'
<1>1. CASE ~MayUnlock(p)
  BY <1>1, RestsKeepsSeal DEF UnlockChecks, Ends, Does
<1>2. CASE MayUnlock(p)
  <2> DEFINE s == [doing[p] EXCEPT !.at = "write", !.todo = Missing(p)]
  <2>1. doing' = [doing EXCEPT ![p] = s] /\ UNCHANGED <<disk, seal>>
    BY <1>2 DEF UnlockChecks, Does
  <2>2. s \in [at : SealSteps, got : Contents, todo : SUBSET Files, replace : BOOLEAN]
    BY DEF SealInv, SealTyped, SealSteps, Missing
  <2>3. s.at = "write" /\ s.got = doing[p].got /\ s.todo = Missing(p)
    BY DEF SealInv, SealTyped
  <2>4. \A f \in Files : f \notin s.todo /\ s.got[f] # Absent => disk[f] = s.got[f]
    BY <1>2, <2>3 DEF MayUnlock, Missing
  <2> HIDE DEF s
  <2>5. QED BY <2>1, <2>2, <2>3, <2>4, QuietStep
<1>3. QED BY <1>1, <1>2

LEMMA UnlockCreatesKeeps ==
  ASSUME SealedSeedAssumption, SealInv, NEW p \in Shells, UnlockCreates(p)
  PROVE  SealInv'
<1> USE DEF SealedSeedAssumption
<1> DEFINE f == Next1(p)
<1>1. CASE disk[f] # Absent
  BY <1>1, RestsKeepsSeal DEF UnlockCreates, Creates, Ends, Does
<1>2. CASE disk[f] = Absent
  <2> DEFINE s == [doing[p] EXCEPT !.at = "fill"]
  <2>1. /\ doing' = [doing EXCEPT ![p] = s] /\ disk' = [disk EXCEPT ![f] = Torn]
        /\ UNCHANGED seal /\ doing[p].at = "write" /\ doing[p].todo # {}
    BY <1>2 DEF UnlockCreates, Creates, Does
  <2>2. s \in [at : SealSteps, got : Contents, todo : SUBSET Files, replace : BOOLEAN]
    BY DEF SealInv, SealTyped, SealSteps
  <2>3. s.at = "fill" /\ s.got = doing[p].got /\ s.todo = doing[p].todo
    BY DEF SealInv, SealTyped
  <2>4. doing'[p] = s /\ \A q \in Shells \ {p} : doing'[q] = doing[q]
    BY <2>1 DEF SealInv, SealTyped
  <2>5. f \in Files /\ f \in doing[p].todo
    BY <2>1, NextFile DEF SealInv
  <2>6. \A q \in Shells : Next1(q)' = Next1(q)
    BY <2>3, <2>4 DEF Next1
  <2> HIDE DEF s
  <2>7. disk'[f] = Torn /\ \A g \in Files \ {f} : disk'[g] = disk[g]
    BY <2>1, <2>5 DEF SealInv, SealTyped
  <2>8. SealTyped'
    BY <2>1, <2>2 DEF SealInv, SealTyped
  <2>9. HoldsTheSeed'
    BY <1>2, <2>3, <2>4, <2>5, <2>7 DEF SealInv, HoldsTheSeed, Files
  <2>10. MayReplace'
    BY <2>1, <2>3, <2>4 DEF SealInv, MayReplace
  <2>11. FillsItsOwn'
    <3>1. \A q \in Shells : doing[q].at = "fill" => Next1(q) # f /\ Next1(q) \in Files
      BY <1>2, NextFile DEF SealInv, FillsItsOwn, Absent, Torn
    <3>2. Next1(p)' = f /\ doing'[p].todo # {} /\ disk'[Next1(p)'] = Torn
      BY <2>1, <2>3, <2>4, <2>6, <2>7
    <3>3. \A q \in Shells : doing'[q].at = "fill" => disk'[Next1(q)'] = Torn
      BY <2>4, <2>6, <2>7, <3>1, <3>2 DEF SealInv, FillsItsOwn
    <3>4. \A q \in Shells : doing'[q].at = "fill" => doing'[q].todo # {}
      BY <2>4, <3>2 DEF SealInv, FillsItsOwn
    <3>5. \A q, r \in Shells :
            doing'[q].at = "fill" /\ doing'[r].at = "fill" /\ Next1(q)' = Next1(r)' => q = r
      <4> HIDE DEF f
      <4>1. QED BY <2>4, <2>6, <3>1, <3>2 DEF SealInv, FillsItsOwn
    <3>6. QED BY <3>3, <3>4, <3>5 DEF FillsItsOwn
  <2>12. WrittenIsThere'
    BY <1>2, <2>1, <2>3, <2>4, <2>5, <2>7 DEF SealInv, WrittenIsThere
  <2>13. QED BY <2>8, <2>9, <2>10, <2>11, <2>12 DEF SealInv
<1>3. QED BY <1>1, <1>2

LEMMA FillsKeeps ==
  ASSUME SealedSeedAssumption, SealInv, NEW p \in Shells, Fills(p)
  PROVE  SealInv'
<1> USE DEF SealedSeedAssumption
<1> DEFINE f == Next1(p)
           s == [doing[p] EXCEPT !.at = "write", !.todo = doing[p].todo \ {f}]
<1>1. /\ doing' = [doing EXCEPT ![p] = s] /\ disk' = [disk EXCEPT ![f] = doing[p].got[f]]
      /\ UNCHANGED seal /\ doing[p].at = "fill"
  BY DEF Fills, Does
<1>2. s \in [at : SealSteps, got : Contents, todo : SUBSET Files, replace : BOOLEAN]
  BY DEF SealInv, SealTyped, SealSteps
<1>3. s.at = "write" /\ s.got = doing[p].got /\ s.todo = doing[p].todo \ {f}
  BY DEF SealInv, SealTyped
<1>4. doing'[p] = s /\ \A q \in Shells \ {p} : doing'[q] = doing[q]
  BY <1>1 DEF SealInv, SealTyped
<1>5. f \in Files /\ f \in doing[p].todo /\ disk[f] = Torn
  BY <1>1, NextFile DEF SealInv, FillsItsOwn
<1>6. \A q \in Shells \ {p} : Next1(q)' = Next1(q)
  BY <1>4 DEF Next1
<1> HIDE DEF s
<1>7. disk'[f] = doing[p].got[f] /\ \A g \in Files \ {f} : disk'[g] = disk[g]
  BY <1>1, <1>5 DEF SealInv, SealTyped
<1>8. SealTyped'
  BY <1>1, <1>2, <1>5 DEF SealInv, SealTyped, Contents
<1>9. HoldsTheSeed'
  BY <1>3, <1>4, <1>5, <1>7 DEF SealInv, HoldsTheSeed, Files
<1>10. MayReplace'
  BY <1>1, <1>3, <1>4 DEF SealInv, MayReplace
<1>11. FillsItsOwn'
  <2>1. \A q \in Shells \ {p} : doing[q].at = "fill" => Next1(q) # f /\ Next1(q) \in Files
    BY <1>1, NextFile DEF SealInv, FillsItsOwn
  <2>2. QED BY <1>3, <1>4, <1>6, <1>7, <2>1 DEF SealInv, FillsItsOwn
<1>12. WrittenIsThere'
  <2>1. \A q \in Shells \ {p} : \A g \in Files :
          doing[q].at \in {"write", "fill", "reported"} /\ g \notin doing[q].todo
          /\ doing[q].got[g] # Absent => g # f
    BY <1>5 DEF SealInv, WrittenIsThere, SealTyped, Contents
  <2>2. \A g \in Files : g \notin s.todo /\ s.got[g] # Absent => disk'[g] = s.got[g]
    BY <1>1, <1>3, <1>7 DEF SealInv, WrittenIsThere
  <2>3. QED BY <1>3, <1>4, <1>7, <2>1, <2>2 DEF SealInv, WrittenIsThere
<1>13. QED BY <1>8, <1>9, <1>10, <1>11, <1>12 DEF SealInv

LEMMA ReportsKeeps ==
  ASSUME SealInv, NEW p \in Shells, Reports(p)
  PROVE  SealInv'
<1> DEFINE s == [doing[p] EXCEPT !.at = "reported"]
<1>1. doing' = [doing EXCEPT ![p] = s] /\ UNCHANGED <<disk, seal>>
      /\ doing[p].at = "write" /\ doing[p].todo = {}
  BY DEF Reports, Does
<1>2. s \in [at : SealSteps, got : Contents, todo : SUBSET Files, replace : BOOLEAN]
  BY DEF SealInv, SealTyped, SealSteps
<1>3. s.at = "reported" /\ s.got = doing[p].got /\ s.todo = doing[p].todo
  BY DEF SealInv, SealTyped
<1>4. \A f \in Files : f \notin s.todo /\ s.got[f] # Absent => disk[f] = s.got[f]
  BY <1>1, <1>3 DEF SealInv, WrittenIsThere
<1> HIDE DEF s
<1>5. QED BY <1>1, <1>2, <1>3, <1>4, QuietStep

LEMMA RestoreStep ==
  ASSUME NEW g \in Contents, NEW t \in SUBSET Files,
         NEW s \in {[Resting EXCEPT !.at = "write", !.todo = t, !.got = g]}
  PROVE  /\ s \in [at : SealSteps, got : Contents, todo : SUBSET Files, replace : BOOLEAN]
         /\ s.at = "write" /\ s.got = g /\ s.todo = t
BY RestingIsTyped DEF SealSteps

LEMMA RestoreReadsKeeps ==
  ASSUME SealInv, NEW f \in Files, NEW w \in Wallets, RestoreReads(f, w)
  PROVE  SealInv'
<1> DEFINE g == [NoFiles EXCEPT ![f] = w]
           s == [Resting EXCEPT !.at = "write", !.todo = {f}, !.got = g]
<1>1. doing' = [doing EXCEPT !["shell"] = s] /\ UNCHANGED <<disk, seal>>
  BY DEF RestoreReads, Does
<1>2. g \in Contents /\ \A h \in Files \ {f} : g[h] = Absent
  BY DEF NoFiles, Contents
<1>3. /\ s \in [at : SealSteps, got : Contents, todo : SUBSET Files, replace : BOOLEAN]
      /\ s.at = "write" /\ s.got = g /\ s.todo = {f}
  <2> DEFINE t == {f}
  <2>1. t \in SUBSET Files
    OBVIOUS
  <2> HIDE DEF g, t
  <2>2. /\ [Resting EXCEPT !.at = "write", !.todo = t, !.got = g] \in
             [at : SealSteps, got : Contents, todo : SUBSET Files, replace : BOOLEAN]
        /\ [Resting EXCEPT !.at = "write", !.todo = t, !.got = g].at = "write"
        /\ [Resting EXCEPT !.at = "write", !.todo = t, !.got = g].got = g
        /\ [Resting EXCEPT !.at = "write", !.todo = t, !.got = g].todo = t
    BY <1>2, <2>1, RestoreStep
  <2>3. QED BY <2>2 DEF t
<1> HIDE DEF s, g
<1>4. \A h \in Files : h \notin s.todo /\ s.got[h] # Absent => disk[h] = s.got[h]
  BY <1>2, <1>3
<1>5. "shell" \in Shells
  BY DEF Shells
<1>6. QED BY <1>1, <1>3, <1>4, <1>5, QuietStep

LEMMA WipeKeeps == ASSUME SealInv, Wipe PROVE SealInv'
<1>1. /\ disk' = NoFiles /\ UNCHANGED seal
      /\ doing' = [p \in Shells |-> Resting]
  BY DEF Wipe
<1>2. \A p \in Shells : doing'[p].at = "idle"
  BY <1>1 DEF Resting
<1>3. SealTyped'
  BY <1>1, RestingIsTyped DEF SealInv, SealTyped, NoFiles
<1>4. QED
  BY <1>2, <1>3 DEF SealInv, HoldsTheSeed, MayReplace, FillsItsOwn, WrittenIsThere

LEMMA RemoveFileKeeps ==
  ASSUME SealInv, NEW f \in Files, RemoveFile(f) PROVE SealInv'
<1>1. disk' = [disk EXCEPT ![f] = Absent] /\ UNCHANGED <<doing, seal>>
      /\ \A p \in Shells : doing[p] = Resting
  BY DEF RemoveFile, Quiet
<1>2. \A p \in Shells : doing'[p].at = "idle"
  BY <1>1 DEF Resting
<1>3. SealTyped'
  BY <1>1 DEF SealInv, SealTyped
<1>4. QED
  BY <1>2, <1>3 DEF SealInv, HoldsTheSeed, MayReplace, FillsItsOwn, WrittenIsThere

LEMMA SealInvNext ==
  ASSUME SealedSeedAssumption, SealInv, [SealNext]_sealVars
  PROVE  SealInv'
<1>1. ASSUME NEW p \in Shells, Unlocks(p) PROVE SealInv'
  <2>1. CASE Rests(p)
    BY <2>1, RestsKeepsSeal DEF Rests, Ends, Does
  <2>2. QED
    BY <1>1, <2>1, UnlockOpensKeeps, UnlockChecksKeeps, UnlockCreatesKeeps, FillsKeeps,
       ReportsKeeps DEF Unlocks
<1>2. ASSUME NEW p \in Shells, Seals(p) PROVE SealInv'
  BY <1>2, SealReadsKeeps, SealComparesKeeps, SealWritesKeeps, SealRenamesKeeps DEF Seals
<1>3. ASSUME NEW p \in Shells, KillShell(p) PROVE SealInv'
  BY <1>3, RestsKeepsSeal DEF KillShell
<1>4. CASE \E f \in Files, w \in Wallets : RestoreReads(f, w)
  BY <1>4, RestoreReadsKeeps
<1>5. CASE Wipe
  BY <1>5, WipeKeeps
<1>6. CASE Configure
  BY <1>6, NoStepOfSeal DEF Configure
<1>7. CASE \E f \in Files : RemoveFile(f)
  BY <1>7, RemoveFileKeeps
<1>8. CASE UNCHANGED sealVars
  BY <1>8, NoStepOfSeal DEF sealVars
<1>9. QED
  BY <1>1, <1>2, <1>3, <1>4, <1>5, <1>6, <1>7, <1>8 DEF SealNext

LEMMA SealInvAlways == ASSUME SealedSeedAssumption PROVE SealSpec => []SealInv
<1>1. SealInv /\ [SealNext]_sealVars => SealInv'
  BY SealInvNext
<1>2. SealInit => SealInv
  BY SealInvInit
<1>3. QED BY <1>1, <1>2, PTL DEF SealSpec

(* A seal is written over only by one of the same seed, whatever two       *)
(* commands, wipes, kills and restored words do (sealed.seal).             *)
THEOREM SealKeepsSeedAlways == ASSUME SealedSeedAssumption PROVE SealSpec => SealKeepsSeed
<1>1. SealInv /\ [SealNext]_sealVars => [SealStays]_sealVars
  <2> SUFFICES ASSUME SealInv, SealNext PROVE SealStays
    BY DEF sealVars
  <2>1. CASE UNCHANGED seal
    BY <2>1 DEF SealStays
  <2>2. ASSUME NEW p \in Shells, SealRenames(p) PROVE SealStays
    BY <2>2 DEF SealStays, SealRenames, Ends, Does, SealInv, MayReplace
  <2>3. ASSUME NEW p \in Shells, Unlocks(p) PROVE UNCHANGED seal
    BY <2>3 DEF Unlocks, UnlockOpens, UnlockChecks, UnlockCreates, Fills, Reports, Rests
  <2>4. ASSUME NEW p \in Shells, Seals(p) PROVE UNCHANGED seal \/ SealRenames(p)
    BY <2>4 DEF Seals, SealReads, SealCompares, SealWrites
  <2>5. QED
    BY <2>1, <2>2, <2>3, <2>4 DEF SealNext, KillShell, RestoreReads, Wipe,
       Configure, RemoveFile
<1>2. QED BY <1>1, SealInvAlways, PTL DEF SealSpec, SealKeepsSeed

(* What an unlock or a restore reports it has left on the disk is there    *)
(* while it reports, whatever the other process does meanwhile             *)
(* (sealed.unlock, recovery.cmd_restore).                                  *)
THEOREM ReportIsTrueAlways == ASSUME SealedSeedAssumption PROVE SealSpec => []ReportIsTrue
<1>1. SealInv => ReportIsTrue
  BY DEF SealInv, WrittenIsThere, ReportIsTrue
<1>2. QED BY <1>1, SealInvAlways, PTL

-----------------------------------------------------------------------------
(* Custody                                                                 *)

CustodySteps ==
  {"idle", "key", "public", "meta", "require", "required", "starting", "look", "adopt",
   "adopt public", "adopt meta", "read back", "ruin", "unlink", "load", "up", "words", "issue",
   "issued", "code", "confirm", "confirmed"}
KeyFiles == Generated \cup {None, Legacy, Ruined}
SomeSeed == Seeds \cup {None}
Records == [required : BOOLEAN, proof : SomeSeed, code : SomeSeed]
HeldSeeds == [seed : SomeSeed, via : KeyFiles, stale : BOOLEAN]
Hands == [at : CustodySteps, doc : Records, held : HeldSeeds, rotating : BOOLEAN,
          key : KeyFiles]
Metas == [origin : {None, "generated", "adopted"}, of : KeyFiles]

CustodyTyped ==
  /\ {own, public, legacy} \subseteq KeyFiles
  /\ meta \in Metas
  /\ envelope \in [key : KeyFiles, seed : SomeSeed]
  /\ record \in Records
  /\ daemon \in HeldSeeds
  /\ hand \in [Procs -> Hands]
  /\ shown \in SUBSET SomeSeed
  /\ overlap \in BOOLEAN

(* The legacy file is never moved away but for the copy of it.             *)
CopyIsMade == \A p \in Procs : At(p, "unlink") => legacy # Legacy

(* Only the legacy key is noted as adopted. *)
AdoptedIsLegacy == meta.origin = "adopted" => meta.of = Legacy

(* What is on record as proven, or was when a process read it, has been    *)
(* shown; a process that is about to write it has seen it shown.           *)
ProofIsShown ==
  /\ record.proof \in shown \cup {None}
  /\ \A p \in Procs : hand[p].doc.proof \in shown \cup {None}
  /\ At("cli", "confirm") \/ At("cli", "confirmed") => Live \in shown

(* The backup is asked for.                                                *)
Demanded == record.required \/ overlap

Gated(held) == held.via \in Generated /\ ~held.stale

BackupIsDemanded ==
  /\ kind = "new" => Demanded
  /\ Gated(daemon) => Demanded
  /\ At("start", "up") /\ Gated(hand["start"].held) => Demanded
  /\ \A p \in Procs : At(p, "required") /\ hand[p].doc.required => Demanded

CustodyInv == CustodyTyped /\ CopyIsMade /\ AdoptedIsLegacy /\ ProofIsShown /\ BackupIsDemanded

-----------------------------------------------------------------------------
LEMMA IdleIsTyped ==
  /\ Idle \in Hands /\ Nothing \in HeldSeeds /\ NoRecord \in Records
  /\ Idle.at = "idle" /\ Idle.doc.proof = None /\ Nothing.via = None
<1>1. NoRecord \in Records
  BY DEF NoRecord, Records, SomeSeed
<1>2. Nothing \in HeldSeeds
  BY DEF Nothing, HeldSeeds, SomeSeed, KeyFiles
<1>3. Idle \in Hands
  BY <1>1, <1>2 DEF Idle, Hands, CustodySteps, KeyFiles
<1>4. Idle.at = "idle" /\ Idle.doc = NoRecord
  BY DEF Idle
<1>5. QED BY <1>1, <1>2, <1>3, <1>4 DEF NoRecord, Nothing

LEMMA CustodyInvInit ==
  ASSUME CustodyAssumption, CustodyInit PROVE CustodyInv
<1> USE IdleIsTyped DEF CustodyAssumption
<1>1. hand = [p \in Procs |-> Idle] /\ daemon = Nothing /\ shown = {} /\ overlap = FALSE
  BY DEF CustodyInit
<1>2. {own, public, legacy} \subseteq KeyFiles
  BY DEF CustodyInit, KeyFiles
<1>3. meta \in Metas /\ meta.origin # "adopted"
  <2>1. meta = NoMeta \/ meta = [origin |-> "generated", of |-> own]
    BY DEF CustodyInit
  <2>2. NoMeta \in Metas /\ NoMeta.origin # "adopted"
    BY DEF Metas, NoMeta, KeyFiles, None
  <2>3. [origin |-> "generated", of |-> own] \in Metas
    BY <1>2 DEF Metas
  <2>4. QED BY <2>1, <2>2, <2>3
<1>4. envelope \in [key : KeyFiles, seed : SomeSeed]
  <2>1. envelope = NoEnvelope \/ envelope \in [key : {Legacy}, seed : Seeds]
    BY DEF CustodyInit
  <2>2. NoEnvelope \in [key : KeyFiles, seed : SomeSeed]
    BY DEF NoEnvelope, KeyFiles, SomeSeed
  <2>3. [key : {Legacy}, seed : Seeds] \subseteq [key : KeyFiles, seed : SomeSeed]
    BY DEF KeyFiles, SomeSeed
  <2>4. QED BY <2>1, <2>2, <2>3
<1>5. record \in Records /\ record.proof = None /\ (kind = "new" => record.required)
  <2>1. \/ kind = "old" /\ record = NoRecord
        \/ record = [NoRecord EXCEPT !.required = TRUE]
    BY DEF CustodyInit
  <2>2. /\ [NoRecord EXCEPT !.required = TRUE] \in Records
        /\ [NoRecord EXCEPT !.required = TRUE].required
        /\ [NoRecord EXCEPT !.required = TRUE].proof = None
    BY DEF NoRecord, Records, SomeSeed
  <2>3. CASE kind = "old" /\ record = NoRecord
    BY <2>3 DEF NoRecord, Records, SomeSeed
  <2>4. CASE record = [NoRecord EXCEPT !.required = TRUE]
    BY <2>2, <2>4
  <2>5. QED BY <2>1, <2>3, <2>4
<1>6. CustodyTyped
  BY <1>1, <1>2, <1>3, <1>4, <1>5 DEF CustodyTyped
<1>7. \A p \in Procs : hand[p].at = "idle" /\ hand[p].doc.proof = None
  BY <1>1
<1>8. "cli" \in Procs /\ "start" \in Procs
  BY DEF Procs
<1>9. CopyIsMade /\ AdoptedIsLegacy
  BY <1>3, <1>7 DEF CopyIsMade, AdoptedIsLegacy, At
<1>10. ProofIsShown
  BY <1>5, <1>7, <1>8 DEF ProofIsShown, At
<1>11. ~Gated(daemon)
  BY <1>1 DEF Gated
<1>12. BackupIsDemanded
  BY <1>5, <1>7, <1>8, <1>11 DEF BackupIsDemanded, At, Demanded
<1>13. QED BY <1>6, <1>9, <1>10, <1>12 DEF CustodyInv

(* A step of process p, which then has h in hand: what p, the files and    *)
(* the record have to be for the invariant to hold after it.               *)
LEMMA HandStep ==
  ASSUME CustodyInv, NEW p \in Procs, NEW h \in Hands, Holds(p, h),
         {own', public', legacy'} \subseteq KeyFiles, meta' \in Metas,
         record' \in Records, shown' \in SUBSET SomeSeed, overlap' \in BOOLEAN,
         UNCHANGED <<kind, daemon, envelope>>,
         shown \subseteq shown',
         record.required \/ overlap => record'.required \/ overlap',
         record'.proof \in shown' \cup {None},
         legacy' = Legacy => legacy = Legacy,
         meta'.origin = "adopted" => meta'.of = Legacy,
         h.at = "unlink" => legacy' # Legacy,
         h.doc.proof \in shown' \cup {None},
         p = "cli" /\ h.at \in {"confirm", "confirmed"} => h.held.seed \in shown',
         h.at = "required" /\ h.doc.required => record'.required \/ overlap',
         p = "start" /\ h.at = "up" /\ h.held.via \in Generated /\ ~h.held.stale =>
           record'.required \/ overlap'
  PROVE  CustodyInv'
<1> DEFINE s == IF h.at = "idle" THEN Idle ELSE h
<1>1. s \in Hands /\ s.doc.proof \in shown' \cup {None} /\ (s.at # "idle" => s = h)
  BY IdleIsTyped
<1>2. hand' = [hand EXCEPT ![p] = s]
  BY DEF Holds
<1> HIDE DEF s
<1>3. hand'[p] = s /\ \A q \in Procs \ {p} : hand'[q] = hand[q]
  BY <1>2 DEF CustodyInv, CustodyTyped
<1>4. CustodyTyped'
  BY <1>1, <1>2 DEF CustodyInv, CustodyTyped
<1>5. CopyIsMade'
  BY <1>1, <1>3 DEF CustodyInv, CopyIsMade, At
<1>6. AdoptedIsLegacy'
  BY DEF AdoptedIsLegacy
<1>7. ProofIsShown'
  <2>1. \A q \in Procs : hand'[q].doc.proof \in shown' \cup {None}
    BY <1>1, <1>3 DEF CustodyInv, ProofIsShown
  <2>2. hand'["cli"].at \in {"confirm", "confirmed"} => hand'["cli"].held.seed \in shown'
    BY <1>1, <1>3 DEF CustodyInv, ProofIsShown, At, Live, Procs
  <2>3. QED BY <2>1, <2>2 DEF ProofIsShown, At, Live
<1>8. BackupIsDemanded'
  <2>1. Demanded => Demanded'
    BY DEF Demanded
  <2>2. hand'["start"].at = "up" /\ hand'["start"].held.via \in Generated
        /\ ~hand'["start"].held.stale => Demanded'
    BY <1>1, <1>3, <2>1 DEF CustodyInv, BackupIsDemanded, At, Gated, Procs, Demanded
  <2>3. \A q \in Procs : hand'[q].at = "required" /\ hand'[q].doc.required => Demanded'
    BY <1>1, <1>3, <2>1 DEF CustodyInv, BackupIsDemanded, At, Demanded
  <2>4. (kind' = "new" => Demanded') /\ (Gated(daemon)' => Demanded')
    BY <2>1 DEF CustodyInv, BackupIsDemanded, Gated
  <2>5. QED BY <2>2, <2>3, <2>4 DEF BackupIsDemanded, At, Gated
<1>9. QED BY <1>4, <1>5, <1>6, <1>7, <1>8 DEF CustodyInv

(* The step from one place to the next keeps what p has in hand.           *)
LEMMA GoesOn ==
  ASSUME CustodyInv, NEW p \in Procs, NEW from, NEW to \in CustodySteps, Goes(p, from, to)
  PROVE  \E h \in Hands : /\ Holds(p, h) /\ hand[p].at = from /\ h.at = to
                          /\ h.doc = hand[p].doc /\ h.held = hand[p].held
<1> DEFINE h == [hand[p] EXCEPT !.at = to]
<1>1. Holds(p, h) /\ hand[p].at = from
  BY DEF Goes, At
<1>2. hand[p] \in Hands
  BY DEF CustodyInv, CustodyTyped
<1>3. h \in Hands /\ h.at = to /\ h.doc = hand[p].doc /\ h.held = hand[p].held
  BY <1>2 DEF Hands
<1> HIDE DEF h
<1>4. QED BY <1>1, <1>3

(* Steps among the key files.                                              *)
LEMMA KeyStep ==
  ASSUME CustodyInv, NEW p \in Procs, NEW from,
         NEW to \in CustodySteps \ {"confirm", "confirmed", "required", "up"},
         Goes(p, from, to),
         {own', public', legacy'} \subseteq KeyFiles, meta' \in Metas,
         UNCHANGED <<kind, envelope, record, daemon, shown, overlap>>,
         legacy' = Legacy => legacy = Legacy,
         meta'.origin = "adopted" => meta'.of = Legacy,
         to = "unlink" => legacy' # Legacy
  PROVE  CustodyInv'
<1>1. PICK h \in Hands : /\ Holds(p, h) /\ hand[p].at = from /\ h.at = to
                         /\ h.doc = hand[p].doc /\ h.held = hand[p].held
  BY GoesOn
<1>2. record \in Records /\ shown \in SUBSET SomeSeed /\ overlap \in BOOLEAN
  BY DEF CustodyInv, CustodyTyped
<1>3. record.proof \in shown \cup {None} /\ h.doc.proof \in shown \cup {None}
  BY <1>1 DEF CustodyInv, ProofIsShown
<1>4. QED BY <1>1, <1>2, <1>3, HandStep

(* A process reads the record.                                             *)
LEMMA ReadStep ==
  ASSUME CustodyInv, NEW p \in Procs, NEW from,
         NEW to \in CustodySteps \ {"unlink", "up", "confirm"},
         Reads(p, from, to),
         UNCHANGED <<kind, keyFiles, envelope, record, daemon, shown, overlap>>,
         to = "confirmed" => from = "confirm"
  PROVE  CustodyInv'
<1> DEFINE h == [hand[p] EXCEPT !.at = to, !.doc = record]
<1>1. Holds(p, h) /\ hand[p].at = from
  BY DEF Reads, At
<1>2. hand[p] \in Hands /\ record \in Records
  BY DEF CustodyInv, CustodyTyped
<1>3. h \in Hands /\ h.at = to /\ h.doc = record /\ h.held = hand[p].held
  BY <1>2 DEF Hands
<1> HIDE DEF h
<1>4. /\ {own, public, legacy} \subseteq KeyFiles /\ meta \in Metas
      /\ shown \in SUBSET SomeSeed /\ overlap \in BOOLEAN
      /\ record.proof \in shown \cup {None}
      /\ meta.origin = "adopted" => meta.of = Legacy
  BY DEF CustodyInv, CustodyTyped, ProofIsShown, AdoptedIsLegacy
<1>5. p = "cli" /\ to = "confirmed" => h.held.seed \in shown
  BY <1>1, <1>3 DEF CustodyInv, ProofIsShown, At, Live
<1>6. QED BY <1>1, <1>2, <1>3, <1>4, <1>5, HandStep DEF keyFiles
-----------------------------------------------------------------------------
(* The ceremony key.                                                       *)

LEMMA FilesAreTyped ==
  ASSUME CustodyInv
  PROVE  /\ {own, public, legacy} \subseteq KeyFiles /\ meta \in Metas
         /\ record \in Records /\ shown \in SUBSET SomeSeed /\ overlap \in BOOLEAN
         /\ record.proof \in shown \cup {None}
         /\ \A p \in Procs : hand[p].doc.proof \in shown \cup {None} /\ hand[p] \in Hands
         /\ meta.origin = "adopted" => meta.of = Legacy
BY DEF CustodyInv, CustodyTyped, ProofIsShown, AdoptedIsLegacy

LEMMA CeremonyKeyKeeps == ASSUME CustodyInv, CeremonyKey PROVE CustodyInv'
<1>1. PICK r \in BOOLEAN :
        Holds("cli", [Idle EXCEPT !.at = "key", !.rotating = r, !.key = own])
  BY DEF CeremonyKey
<1> DEFINE h == [Idle EXCEPT !.at = "key", !.rotating = r, !.key = own]
<1>2. h \in Hands /\ h.at = "key" /\ h.doc.proof = None
  BY IdleIsTyped, FilesAreTyped DEF Hands, CustodySteps
<1>3. Holds("cli", h)
  BY <1>1
<1> HIDE DEF h
<1>4. "cli" \in Procs
  BY DEF Procs
<1>5. UNCHANGED <<kind, own, public, legacy, meta, record, shown, overlap, daemon, envelope>>
  BY DEF CeremonyKey, install, history, keyFiles
<1>6. QED BY <1>2, <1>3, <1>4, <1>5, FilesAreTyped, HandStep

LEMMA KeysAreMade ==
  ASSUME CustodyInv, GenerateKey \/ WritePublic \/ WriteMeta
  PROVE  CustodyInv'
<1> USE FilesAreTyped
<1>1. "cli" \in Procs
  BY DEF Procs
<1>2. CASE GenerateKey
  <2> DEFINE h == [hand["cli"] EXCEPT !.at = "public", !.key = own']
  <2>1. /\ Holds("cli", h) /\ own' \in KeyFiles
        /\ UNCHANGED <<kind, public, legacy, meta, envelope, record, daemon, shown, overlap>>
    BY <1>2 DEF GenerateKey, install, KeyFiles
  <2>2. hand["cli"] \in Hands
    BY <1>1
  <2>3. h \in Hands /\ h.at = "public" /\ h.doc = hand["cli"].doc
    BY <2>1, <2>2 DEF Hands, CustodySteps
  <2> HIDE DEF h
  <2>4. QED BY <1>1, <2>1, <2>3, HandStep
<1>3. CASE WritePublic
  <2>1. /\ Goes("cli", "public", "meta") /\ public' \in KeyFiles
        /\ UNCHANGED <<kind, own, legacy, meta, envelope, record, daemon, shown, overlap>>
    BY <1>1, <1>3 DEF WritePublic, install, history, Hands
  <2>2. "meta" \in CustodySteps \ {"confirm", "confirmed", "required", "up"}
    BY DEF CustodySteps
  <2>3. QED BY <1>1, <2>1, <2>2, KeyStep
<1>4. CASE WriteMeta
  <2> DEFINE to == IF hand["cli"].rotating THEN "require" ELSE "idle"
  <2>1. /\ Goes("cli", "meta", to) /\ meta' = [origin |-> "generated", of |-> hand["cli"].key]
        /\ UNCHANGED <<kind, own, public, legacy, envelope, record, daemon, shown, overlap>>
    BY <1>4 DEF WriteMeta, install, history
  <2>2. /\ to \in CustodySteps \ {"confirm", "confirmed", "required", "up"}
        /\ to # "unlink"
    BY DEF CustodySteps
  <2>3. meta' \in Metas /\ meta'.origin # "adopted"
    BY <1>1, <2>1 DEF Metas, Hands
  <2> HIDE DEF to
  <2>4. QED BY <1>1, <2>1, <2>2, <2>3, KeyStep
<1>5. QED BY <1>2, <1>3, <1>4

(* The steps of a move of the legacy key.                                  *)
AdoptStep(p) ==
  \/ AdoptBegins(p) \/ AdoptLooks(p) \/ AdoptKey(p) \/ AdoptPublic(p) \/ AdoptMeta(p)
  \/ ReadBack(p) \/ Ruin(p) \/ Unlink(p)

LEMMA AdoptKeeps ==
  ASSUME CustodyInv, NEW p \in Procs, AdoptStep(p)
  PROVE  CustodyInv'
<1> USE FilesAreTyped
<1> DEFINE Among(to) == to \in CustodySteps \ {"confirm", "confirmed", "required", "up"}
           Rest == UNCHANGED <<kind, envelope, record, daemon, shown, overlap>>
<1>1. /\ Among("look") /\ Among("adopt") /\ Among("adopt public") /\ Among("adopt meta")
      /\ Among("read back") /\ Among("ruin") /\ Among("unlink") /\ Among(Done(p))
      /\ Done(p) # "unlink"
  BY DEF CustodySteps, Done
<1>2. Legacy \in KeyFiles /\ Ruined \in KeyFiles /\ None \in KeyFiles
      /\ Ruined # Legacy /\ None # Legacy
  BY DEF KeyFiles, Legacy, Ruined, None
<1>3. CASE AdoptBegins(p)
  <2>1. /\ Goes(p, IF p = "cli" THEN "idle" ELSE "starting", "look")
        /\ UNCHANGED <<own, public, meta, legacy>> /\ Rest
    BY <1>3 DEF AdoptBegins, install, history, keyFiles
  <2>2. QED BY <1>1, <2>1, KeyStep
<1>4. CASE AdoptLooks(p)
  <2>1. UNCHANGED <<own, public, meta, legacy>> /\ Rest
    BY <1>4 DEF AdoptLooks, install, history, keyFiles
  <2>2. CASE Goes(p, "look", "read back") \/ Goes(p, "look", Done(p))
    BY <1>1, <2>1, <2>2, KeyStep
  <2>3. CASE Holds(p, [hand[p] EXCEPT !.at = "adopt", !.key = own])
    <3> DEFINE h == [hand[p] EXCEPT !.at = "adopt", !.key = own]
    <3>1. h \in Hands /\ h.at = "adopt" /\ h.doc = hand[p].doc
      BY DEF Hands, CustodySteps
    <3>2. Holds(p, h)
      BY <2>3
    <3> HIDE DEF h
    <3>3. QED BY <2>1, <3>1, <3>2, HandStep
  <2>4. QED BY <1>4, <2>2, <2>3 DEF AdoptLooks
<1>10. CASE AdoptKey(p)
  <2>1. Goes(p, "adopt", "adopt public") /\ own' = Legacy /\ UNCHANGED <<public, meta, legacy>>
        /\ Rest
    BY <1>10 DEF AdoptKey, install
  <2>2. QED BY <1>1, <1>2, <2>1, KeyStep
<1>11. CASE ReadBack(p)
  <2> DEFINE to == IF own = Legacy THEN "ruin" ELSE Done(p)
  <2>1. Goes(p, "read back", to) /\ UNCHANGED <<own, public, meta, legacy>> /\ Rest
    BY <1>11 DEF ReadBack, install, history, keyFiles
  <2>2. Among(to) /\ to # "unlink"
    BY <1>1
  <2> HIDE DEF to
  <2>3. QED BY <2>1, <2>2, KeyStep
<1>5. CASE AdoptPublic(p)
  <2>1. /\ Goes(p, "adopt public", "adopt meta") /\ public' = Legacy
        /\ UNCHANGED <<own, meta, legacy>> /\ Rest
    BY <1>5 DEF AdoptPublic, install, history
  <2>2. QED BY <1>1, <1>2, <2>1, KeyStep
<1>6. CASE AdoptMeta(p)
  <2>1. /\ Goes(p, "adopt meta", "read back") /\ meta' = [origin |-> "adopted", of |-> Legacy]
        /\ UNCHANGED <<own, public, legacy>> /\ Rest
    BY <1>6 DEF AdoptMeta, install, history
  <2>2. meta' \in Metas /\ meta'.of = Legacy
    BY <1>2, <2>1 DEF Metas
  <2>3. QED BY <1>1, <2>1, <2>2, KeyStep
<1>7. CASE Ruin(p)
  <2>1. /\ Goes(p, "ruin", "unlink") /\ legacy' \in {None, Ruined}
        /\ UNCHANGED <<own, public, meta>> /\ Rest
    BY <1>7 DEF Ruin, install, history
  <2>2. QED BY <1>1, <1>2, <2>1, KeyStep
<1>8. CASE Unlink(p)
  <2>1. Goes(p, "unlink", Done(p)) /\ legacy' = None /\ UNCHANGED <<own, public, meta>> /\ Rest
    BY <1>8 DEF Unlink, install, history
  <2>2. QED BY <1>1, <1>2, <2>1, KeyStep
<1>9. QED BY <1>3, <1>4, <1>5, <1>6, <1>7, <1>8, <1>10, <1>11 DEF AdoptStep
-----------------------------------------------------------------------------
(* The envelope and the daemon.                                            *)

(* Steps that leave every process and the record where they are.           *)
LEMMA AsideStep ==
  ASSUME CustodyInv, UNCHANGED <<kind, keyFiles, record, hand, shown, overlap>>,
         envelope' \in [key : KeyFiles, seed : SomeSeed],
         daemon' \in HeldSeeds, Gated(daemon)' => Demanded
  PROVE  CustodyInv'
<1>1. CustodyTyped'
  BY DEF CustodyInv, CustodyTyped, keyFiles
<1>2. CopyIsMade' /\ AdoptedIsLegacy' /\ ProofIsShown'
  BY DEF CustodyInv, CopyIsMade, AdoptedIsLegacy, ProofIsShown, At, Live, keyFiles
<1>3. BackupIsDemanded'
  BY DEF CustodyInv, BackupIsDemanded, Demanded, Gated, At
<1>4. QED BY <1>1, <1>2, <1>3 DEF CustodyInv

LEMMA HumanSealsKeeps ==
  ASSUME CustodyInv, NEW s \in Seeds, HumanSeals(s) PROVE CustodyInv'
<1>1. envelope' = [key |-> public, seed |-> s]
      /\ UNCHANGED <<kind, keyFiles, record, hand, shown, overlap, daemon>>
  BY DEF HumanSeals, install, history
<1>2. envelope' \in [key : KeyFiles, seed : SomeSeed] /\ daemon' \in HeldSeeds
  BY <1>1 DEF CustodyInv, CustodyTyped, SomeSeed
<1>3. Gated(daemon)' => Demanded
  BY <1>1 DEF CustodyInv, BackupIsDemanded, Gated
<1>4. QED BY <1>1, <1>2, <1>3, AsideStep

LEMMA StopKeeps == ASSUME CustodyAssumption, CustodyInv, Stop PROVE CustodyInv'
<1> USE IdleIsTyped DEF CustodyAssumption
<1>1. daemon' = Nothing
      /\ UNCHANGED <<kind, keyFiles, envelope, record, hand, shown, overlap>>
  BY DEF Stop, install, history
<1>2. envelope' \in [key : KeyFiles, seed : SomeSeed] /\ daemon' \in HeldSeeds
  BY <1>1 DEF CustodyInv, CustodyTyped
<1>3. ~Gated(daemon)'
  BY <1>1 DEF Gated
<1>4. QED BY <1>1, <1>2, <1>3, AsideStep

LEMMA StartKeeps == ASSUME CustodyInv, Start PROVE CustodyInv'
<1>1. /\ Goes("start", "idle", "starting")
      /\ UNCHANGED <<kind, own, public, legacy, meta, envelope, record, daemon, shown, overlap>>
  BY DEF Start, install, history, keyFiles
<1>2. "start" \in Procs /\ "starting" \in CustodySteps \ {"confirm", "confirmed", "required", "up"}
  BY DEF Procs, CustodySteps
<1>3. QED BY <1>1, <1>2, FilesAreTyped, KeyStep

(* What a generated key opens is pending, so a seed that goes straight up  *)
(* is of the legacy key, or its key has the note of another.               *)
LEMMA LoadKeeps == ASSUME CustodyAssumption, CustodyInv, Load PROVE CustodyInv'
<1> USE FilesAreTyped DEF CustodyAssumption
<1>1. "start" \in Procs
  BY DEF Procs
<1>2. UNCHANGED <<kind, own, public, legacy, meta, envelope, record, daemon, shown, overlap>>
  BY DEF Load, install, history, keyFiles
<1>3. CASE Holds("start", Idle)
  BY <1>1, <1>2, <1>3, IdleIsTyped, HandStep
<1>4. CASE Loadable /\ ~Holds("start", Idle)
  <2> DEFINE to == IF Opens(own) /\ Origin = "generated" THEN "require" ELSE "up"
             stale == Opens(own) /\ meta.origin # None /\ meta.of # own
             held == [seed |-> envelope.seed, via |-> LoadedVia, stale |-> stale]
             h == [Idle EXCEPT !.at = to, !.held = held]
  <2>1. Holds("start", h)
    BY <1>4 DEF Load
  <2>2. stale \in BOOLEAN /\ LoadedVia \in KeyFiles /\ envelope.seed \in SomeSeed
    BY DEF LoadedVia, CustodyInv, CustodyTyped, Opens
  <2>3. ~stale /\ to = "up" => LoadedVia \notin Generated
    <3>1. CASE Opens(own)
      <4>1. to = "up" => meta.origin = "adopted"
        BY <3>1 DEF Origin, Metas
      <4>2. meta.origin = "adopted" => meta.of = Legacy /\ meta.origin # None
        BY DEF None
      <4>3. ~stale /\ to = "up" => own = Legacy
        BY <3>1, <4>1, <4>2
      <4>4. QED BY <3>1, <4>3 DEF LoadedVia
    <3>2. CASE ~Opens(own)
      BY <1>4, <3>2 DEF LoadedVia, Loadable
    <3>3. QED BY <3>1, <3>2
  <2>4. to \in {"require", "up"}
    OBVIOUS
  <2> HIDE DEF to, stale
  <2>5. held \in HeldSeeds /\ held.via = LoadedVia /\ held.stale = stale
    BY <2>2 DEF HeldSeeds
  <2> HIDE DEF held
  <2>6. h \in Hands /\ h.at = to /\ h.held = held /\ h.doc.proof = None
    BY <2>4, <2>5, IdleIsTyped DEF Hands, CustodySteps
  <2> HIDE DEF h
  <2>7. h.at = "up" /\ h.held.via \in Generated => h.held.stale
    BY <2>3, <2>5, <2>6
  <2>8. QED BY <1>1, <1>2, <2>1, <2>4, <2>6, <2>7, HandStep
<1>5. QED BY <1>3, <1>4 DEF Load

LEMMA UpKeeps == ASSUME CustodyInv, Up PROVE CustodyInv'
<1> USE FilesAreTyped, IdleIsTyped
<1>1. /\ At("start", "up") /\ daemon' = hand["start"].held
      /\ UNCHANGED <<kind, keyFiles, envelope, record, shown, overlap>>
  BY DEF Up, Goes, install, history
<1>2. "start" \in Procs
  BY DEF Procs
<1> DEFINE h == [hand["start"] EXCEPT !.at = "idle"]
<1>3. h.at = "idle"
  BY <1>2 DEF Hands
<1>4. hand' = [hand EXCEPT !["start"] = Idle]
  BY <1>3 DEF Up, Goes, Holds
<1>5. hand'["start"] = Idle /\ \A q \in Procs \ {"start"} : hand'[q] = hand[q]
  BY <1>2, <1>4 DEF CustodyInv, CustodyTyped
<1>6. daemon' \in HeldSeeds
  BY <1>1, <1>2 DEF Hands
<1>7. CustodyTyped'
  BY <1>1, <1>4, <1>6 DEF CustodyInv, CustodyTyped, keyFiles
<1>8. CopyIsMade' /\ AdoptedIsLegacy'
  BY <1>1, <1>5 DEF CustodyInv, CopyIsMade, AdoptedIsLegacy, At, keyFiles
<1>9. ProofIsShown'
  BY <1>1, <1>5 DEF CustodyInv, ProofIsShown, At, Live, Procs
<1>10. BackupIsDemanded'
  <2>1. Demanded' = Demanded
    BY <1>1 DEF Demanded
  <2>2. Gated(daemon)' => Demanded
    BY <1>1 DEF CustodyInv, BackupIsDemanded, Gated
  <2>3. QED BY <1>1, <1>5, <2>1, <2>2 DEF CustodyInv, BackupIsDemanded, At
<1>11. QED BY <1>7, <1>8, <1>9, <1>10 DEF CustodyInv
-----------------------------------------------------------------------------
(* The backup record.                                                      *)

LEMMA ReadsKeep ==
  ASSUME CustodyInv, (\E p \in Procs : Require(p)) \/ Issue \/ Confirm
  PROVE  CustodyInv'
<1>1. ASSUME NEW p \in Procs, Require(p) PROVE CustodyInv'
  <2>1. /\ Reads(p, "require", "required")
        /\ UNCHANGED <<kind, keyFiles, envelope, record, daemon, shown, overlap>>
    BY <1>1 DEF Require, install, history
  <2>2. QED BY <2>1, ReadStep DEF CustodySteps
<1>2. CASE Issue
  <2>1. /\ Reads("cli", "issue", "issued")
        /\ UNCHANGED <<kind, keyFiles, envelope, record, daemon, shown, overlap>>
    BY <1>2 DEF Issue, install, history
  <2>2. QED BY <2>1, ReadStep DEF CustodySteps, Procs
<1>3. CASE Confirm
  <2>1. /\ Reads("cli", "confirm", "confirmed")
        /\ UNCHANGED <<kind, keyFiles, envelope, record, daemon, shown, overlap>>
    BY <1>3 DEF Confirm, install, history
  <2>2. QED BY <2>1, ReadStep DEF CustodySteps, Procs
<1>4. QED BY <1>1, <1>2, <1>3

LEMMA RequiredKeeps ==
  ASSUME CustodyInv, NEW p \in Procs, Required(p) PROVE CustodyInv'
<1> USE FilesAreTyped
<1> DEFINE to == IF p = "cli" THEN "idle" ELSE "up"
<1>1. Goes(p, "required", to)
      /\ UNCHANGED <<kind, own, public, legacy, meta, envelope, daemon, shown>>
  BY DEF Required, install, history, keyFiles
<1>2. to \in {"idle", "up"} /\ to \in CustodySteps
  BY DEF CustodySteps
<1> HIDE DEF to
<1>3. PICK h \in Hands : /\ Holds(p, h) /\ hand[p].at = "required" /\ h.at = to
                         /\ h.doc = hand[p].doc /\ h.held = hand[p].held
  BY <1>1, <1>2, GoesOn
<1>4. record' \in Records /\ overlap' \in BOOLEAN /\ record'.proof \in shown \cup {None}
      /\ (record'.required \/ overlap')
  <2>1. CASE hand[p].doc.required
    <3>1. UNCHANGED <<record, overlap>>
      BY <2>1 DEF Required
    <3>2. record.required \/ overlap
      BY <1>3, <2>1 DEF CustodyInv, BackupIsDemanded, At, Demanded
    <3>3. QED BY <3>1, <3>2
  <2>2. CASE ~hand[p].doc.required
    <3>1. record' = [hand[p].doc EXCEPT !.required = TRUE]
          /\ overlap' = (overlap \/ hand[p].doc # record)
      BY <2>2 DEF Required, Writes
    <3>2. hand[p].doc \in Records
      BY DEF Hands
    <3>3. record' \in Records /\ record'.required /\ record'.proof = hand[p].doc.proof
      BY <3>1, <3>2 DEF Records
    <3>4. overlap' \in BOOLEAN
      BY <3>1
    <3>5. QED BY <3>3, <3>4
  <2>3. QED BY <2>1, <2>2
<1>5. QED BY <1>1, <1>2, <1>3, <1>4, HandStep

LEMMA CommandKeeps ==
  ASSUME CustodyInv, NEW op \in {"words", "issue", "code"}, Command(op)
  PROVE  CustodyInv'
<1> USE FilesAreTyped
<1>1. "cli" \in Procs
  BY DEF Procs
<1>2. UNCHANGED <<kind, own, public, legacy, meta, envelope, record, daemon, shown, overlap>>
  BY DEF Command, install, history, keyFiles
<1> DEFINE held == [seed |-> envelope.seed, via |-> LoadedVia, stale |-> FALSE]
           h == [Idle EXCEPT !.at = op, !.held = held]
<1>3. Holds("cli", h)
  BY DEF Command
<1>4. held \in HeldSeeds
  BY DEF HeldSeeds, LoadedVia, CustodyInv, CustodyTyped
<1> HIDE DEF held
<1>5. h \in Hands /\ h.at = op /\ h.doc.proof = None
  BY <1>4, IdleIsTyped DEF Hands, CustodySteps
<1> HIDE DEF h
<1>6. QED BY <1>1, <1>2, <1>3, <1>5, HandStep

(* What the human shows is what the command holds.                         *)
LEMMA ProveKeeps == ASSUME CustodyInv, Prove PROVE CustodyInv'
<1> USE FilesAreTyped
<1>1. "cli" \in Procs /\ "confirm" \in CustodySteps /\ "idle" \in CustodySteps
  BY DEF Procs, CustodySteps
<1>2. UNCHANGED <<kind, own, public, legacy, meta, envelope, record, daemon, overlap>>
  BY DEF Prove, install, history, keyFiles
<1>3. CASE Goes("cli", "words", "confirm") /\ shown' = shown \cup {Live}
  <2>1. PICK h \in Hands : /\ Holds("cli", h) /\ hand["cli"].at = "words" /\ h.at = "confirm"
                           /\ h.doc = hand["cli"].doc /\ h.held = hand["cli"].held
    BY <1>1, <1>3, GoesOn
  <2>2. Live \in SomeSeed
    BY <1>1 DEF Live, Hands, HeldSeeds
  <2>3. shown' \in SUBSET SomeSeed /\ shown \subseteq shown' /\ h.held.seed \in shown'
    BY <1>3, <2>1, <2>2 DEF Live
  <2>4. record'.proof \in shown' \cup {None} /\ h.doc.proof \in shown' \cup {None}
    BY <1>1, <1>2, <2>1, <2>3
  <2>5. QED BY <1>1, <1>2, <2>1, <2>3, <2>4, HandStep
<1>4. CASE Goes("cli", "words", "idle") /\ UNCHANGED shown
  BY <1>1, <1>2, <1>4, KeyStep
<1>5. QED BY <1>3, <1>4 DEF Prove

LEMMA IssuedKeeps == ASSUME CustodyInv, Issued PROVE CustodyInv'
<1> USE FilesAreTyped
<1>1. "cli" \in Procs /\ "idle" \in CustodySteps
  BY DEF Procs, CustodySteps
<1>2. /\ UNCHANGED <<kind, own, public, legacy, meta, envelope, daemon, shown>>
      /\ Goes("cli", "issued", "idle")
      /\ record' = [hand["cli"].doc EXCEPT !.code = Live]
      /\ overlap' = (overlap \/ hand["cli"].doc # record)
  BY DEF Issued, Writes, install, history, keyFiles
<1>3. PICK h \in Hands : /\ Holds("cli", h) /\ hand["cli"].at = "issued" /\ h.at = "idle"
                         /\ h.doc = hand["cli"].doc /\ h.held = hand["cli"].held
  BY <1>1, <1>2, GoesOn
<1>4. hand["cli"].doc \in Records /\ Live \in SomeSeed
  BY <1>1 DEF Live, Hands, HeldSeeds
<1>5. /\ record' \in Records /\ record'.proof = hand["cli"].doc.proof
      /\ record'.required = hand["cli"].doc.required
  BY <1>2, <1>4 DEF Records
<1>6. overlap' \in BOOLEAN /\ (record.required \/ overlap => record'.required \/ overlap')
  BY <1>2, <1>5
<1>7. QED BY <1>1, <1>2, <1>3, <1>5, <1>6, HandStep

LEMMA GiveCodeKeeps == ASSUME CustodyInv, GiveCode PROVE CustodyInv'
<1> USE FilesAreTyped
<1>1. "cli" \in Procs /\ "confirm" \in CustodySteps /\ "idle" \in CustodySteps
  BY DEF Procs, CustodySteps
<1>2. UNCHANGED <<kind, own, public, legacy, meta, envelope, daemon, overlap>>
  BY DEF GiveCode, install, history, keyFiles
<1>3. CASE /\ CodeFits /\ Goes("cli", "code", "confirm")
           /\ shown' = shown \cup {record.code} /\ UNCHANGED <<record, overlap>>
  <2>1. PICK h \in Hands : /\ Holds("cli", h) /\ hand["cli"].at = "code" /\ h.at = "confirm"
                           /\ h.doc = hand["cli"].doc /\ h.held = hand["cli"].held
    BY <1>1, <1>3, GoesOn
  <2>2. record.code \in SomeSeed
    BY DEF Records
  <2>3. shown' \in SUBSET SomeSeed /\ shown \subseteq shown' /\ h.held.seed \in shown'
    BY <1>3, <2>1, <2>2 DEF CodeFits, Live
  <2>4. record'.proof \in shown' \cup {None} /\ h.doc.proof \in shown' \cup {None}
    BY <1>1, <1>3, <2>1, <2>3
  <2>5. QED BY <1>1, <1>2, <1>3, <2>1, <2>3, <2>4, HandStep
<1>4. CASE /\ Goes("cli", "code", "idle")
           /\ record' \in {record, [record EXCEPT !.code = None]}
           /\ UNCHANGED <<shown, overlap>>
  <2>1. PICK h \in Hands : /\ Holds("cli", h) /\ hand["cli"].at = "code" /\ h.at = "idle"
                           /\ h.doc = hand["cli"].doc /\ h.held = hand["cli"].held
    BY <1>1, <1>4, GoesOn
  <2>2. /\ record' \in Records /\ record'.proof = record.proof
        /\ record'.required = record.required
    BY <1>4 DEF Records, SomeSeed
  <2>3. QED BY <1>1, <1>2, <1>4, <2>1, <2>2, HandStep
<1>5. QED BY <1>3, <1>4 DEF GiveCode

LEMMA NoCodeKeeps == ASSUME CustodyInv, NoCode PROVE CustodyInv'
<1>1. /\ Goes("cli", "code", "idle")
      /\ UNCHANGED <<kind, own, public, legacy, meta, envelope, record, daemon, shown, overlap>>
  BY DEF NoCode, install, history, keyFiles
<1>2. "cli" \in Procs /\ "idle" \in CustodySteps \ {"confirm", "confirmed", "required", "up"}
  BY DEF Procs, CustodySteps
<1>3. QED BY <1>1, <1>2, FilesAreTyped, KeyStep

LEMMA ConfirmedKeeps == ASSUME CustodyInv, Confirmed PROVE CustodyInv'
<1> USE FilesAreTyped
<1>1. "cli" \in Procs /\ "idle" \in CustodySteps
  BY DEF Procs, CustodySteps
<1>2. /\ UNCHANGED <<kind, own, public, legacy, meta, envelope, daemon, shown>>
      /\ Goes("cli", "confirmed", "idle")
      /\ record' = [required |-> TRUE, proof |-> Live, code |-> None]
      /\ overlap' = (overlap \/ hand["cli"].doc # record)
  BY DEF Confirmed, Writes, install, history, keyFiles
<1>3. PICK h \in Hands : /\ Holds("cli", h) /\ hand["cli"].at = "confirmed" /\ h.at = "idle"
                         /\ h.doc = hand["cli"].doc /\ h.held = hand["cli"].held
  BY <1>1, <1>2, GoesOn
<1>4. Live \in shown /\ Live \in SomeSeed
  BY <1>3 DEF CustodyInv, ProofIsShown, At
<1>5. record' \in Records /\ record'.proof \in shown \cup {None} /\ record'.required
  BY <1>2, <1>4 DEF Records, SomeSeed
<1>6. overlap' \in BOOLEAN
  BY <1>2
<1>7. QED BY <1>1, <1>2, <1>3, <1>5, <1>6, HandStep

LEMMA KillKeeps == ASSUME CustodyInv, NEW p \in Procs, Kill(p) PROVE CustodyInv'
<1>1. /\ Holds(p, Idle)
      /\ UNCHANGED <<kind, own, public, legacy, meta, envelope, record, daemon, shown, overlap>>
  BY DEF Kill, install, history, keyFiles
<1>2. QED BY <1>1, FilesAreTyped, IdleIsTyped, HandStep

-----------------------------------------------------------------------------
LEMMA CustodyInvNext ==
  ASSUME CustodyAssumption, CustodyInv, [CustodyNext]_custodyVars
  PROVE  CustodyInv'
<1>1. CASE CeremonyKey \/ GenerateKey \/ WritePublic \/ WriteMeta
  BY <1>1, CeremonyKeyKeeps, KeysAreMade
<1>2. ASSUME NEW p \in Procs,
             \/ AdoptBegins(p) \/ AdoptLooks(p) \/ AdoptKey(p) \/ AdoptPublic(p)
             \/ AdoptMeta(p) \/ ReadBack(p) \/ Ruin(p) \/ Unlink(p) \/ Require(p)
             \/ Required(p) \/ Kill(p)
      PROVE  CustodyInv'
  BY <1>2, AdoptKeeps, ReadsKeep, RequiredKeeps, KillKeeps DEF AdoptStep
<1>3. CASE \E s \in Seeds : HumanSeals(s)
  BY <1>3, HumanSealsKeeps
<1>4. CASE Start \/ Load \/ Up \/ Stop
  BY <1>4, StartKeeps, LoadKeeps, UpKeeps, StopKeeps
<1>5. CASE \E op \in {"words", "issue", "code"} : Command(op)
  BY <1>5, CommandKeeps
<1>6. CASE Prove \/ Issue \/ Issued \/ GiveCode \/ NoCode \/ Confirm \/ Confirmed
  BY <1>6, ProveKeeps, ReadsKeep, IssuedKeeps, GiveCodeKeeps, NoCodeKeeps, ConfirmedKeeps
<1>7. CASE UNCHANGED custodyVars
  <2>1. /\ UNCHANGED <<kind, keyFiles, record, hand, shown, overlap, envelope, daemon>>
    BY <1>7 DEF custodyVars, install, history
  <2>2. /\ envelope \in [key : KeyFiles, seed : SomeSeed] /\ daemon \in HeldSeeds
        /\ Gated(daemon) => Demanded
    BY DEF CustodyInv, CustodyTyped, BackupIsDemanded
  <2>3. Gated(daemon)' => Demanded
    BY <2>1, <2>2 DEF Gated
  <2>4. QED BY <2>1, <2>2, <2>3, AsideStep
<1>8. QED
  BY <1>1, <1>2, <1>3, <1>4, <1>5, <1>6, <1>7 DEF CustodyNext

LEMMA CustodyInvAlways == ASSUME CustodyAssumption PROVE CustodySpec => []CustodyInv
<1>1. CustodyInv /\ [CustodyNext]_custodyVars => CustodyInv'
  BY CustodyInvNext
<1>2. CustodyInit => CustodyInv
  BY CustodyInvInit
<1>3. QED BY <1>1, <1>2, PTL DEF CustodySpec

(* No fund route answers for a seed that has to be backed up, on any       *)
(* interleaving of the daemon's start, the human's commands and kills,     *)
(* unless key.json tells of another key than the one that is there or a    *)
(* record was written over (custody.py, Daemon.handle).                    *)
THEOREM FundsAreBackedAlways == ASSUME CustodyAssumption PROVE CustodySpec => []FundsAreBacked
<1>1. CustodyInv => FundsAreBacked
  <2> SUFFICES ASSUME CustodyInv, FundsOpen, MustBeProven, ~daemon.stale, ~overlap
               PROVE  daemon.seed \in shown
    BY DEF FundsAreBacked
  <2>1. record.required
    BY DEF CustodyInv, BackupIsDemanded, MustBeProven, Gated, Demanded
  <2>2. daemon.seed # None /\ record.proof = daemon.seed
    BY <2>1 DEF FundsOpen, Status
  <2>3. QED BY <2>2 DEF CustodyInv, ProofIsShown
<1>2. QED BY <1>1, CustodyInvAlways, PTL

(***************************************************************************)
(* What a process knows of the key between two of its steps: a move that   *)
(* is about to write the key has seen none; one that is about to remove    *)
(* the original has read the copy back; a plain ceremony-key has seen no   *)
(* key.  The second holds until a key is written across the move.          *)
(***************************************************************************)
MoveInv ==
  /\ \A p \in Procs : At(p, "adopt") => hand[p].key = None
  /\ \A p \in Procs : At(p, "ruin") => own = Legacy \/ crossed
  /\ At("cli", "key") => hand["cli"].rotating \/ hand["cli"].key = None

(* The step of a process that then has h in hand.                          *)
LEMMA MoveStep ==
  ASSUME CustodyInv, MoveInv, NEW p \in Procs, NEW h \in Hands, Holds(p, h),
         crossed => crossed',
         own' \in {own, Legacy} \/ crossed' \/ \A q \in Procs : ~At(q, "ruin"),
         h.at = "adopt" => h.key = None,
         h.at = "ruin" => own' = Legacy \/ crossed',
         p = "cli" /\ h.at = "key" => h.rotating \/ h.key = None
  PROVE  MoveInv'
<1> DEFINE s == IF h.at = "idle" THEN Idle ELSE h
<1>1. s \in Hands /\ (s.at # "idle" => s = h) /\ hand' = [hand EXCEPT ![p] = s]
  BY IdleIsTyped DEF Holds
<1> HIDE DEF s
<1>2. hand'[p] = s /\ \A q \in Procs \ {p} : hand'[q] = hand[q]
  BY <1>1 DEF CustodyInv, CustodyTyped
<1>3. \A q \in Procs : hand'[q].at = "adopt" => hand'[q].key = None
  BY <1>1, <1>2 DEF MoveInv, At
<1>4. \A q \in Procs : hand'[q].at = "ruin" => own' = Legacy \/ crossed'
  BY <1>1, <1>2 DEF MoveInv, At
<1>5. hand'["cli"].at = "key" => hand'["cli"].rotating \/ hand'["cli"].key = None
  BY <1>1, <1>2 DEF MoveInv, At, Procs
<1>6. QED BY <1>3, <1>4, <1>5 DEF MoveInv, At

(* A step to a place that MoveInv says nothing of, with the own key        *)
(* unchanged or moved.                                                     *)
LEMMA MoveAside ==
  ASSUME CustodyInv, MoveInv, NEW p \in Procs, NEW h \in Hands, Holds(p, h),
         crossed => crossed', own' \in {own, Legacy}, h.at \notin {"adopt", "ruin", "key"}
  PROVE  MoveInv'
BY MoveStep

LEMMA MoveGoes ==
  ASSUME CustodyInv, MoveInv, NEW p \in Procs, NEW from,
         NEW to \in CustodySteps \ {"adopt", "ruin", "key"}, Goes(p, from, to),
         crossed => crossed', own' \in {own, Legacy}
  PROVE  MoveInv'
<1>1. PICK h \in Hands : Holds(p, h) /\ h.at = to
  BY GoesOn
<1>2. QED BY <1>1, MoveAside

LEMMA MoveReads ==
  ASSUME CustodyInv, MoveInv, NEW p \in Procs, NEW from,
         NEW to \in CustodySteps \ {"adopt", "ruin", "key"}, Reads(p, from, to),
         UNCHANGED <<own, crossed>>
  PROVE  MoveInv'
<1> DEFINE h == [hand[p] EXCEPT !.at = to, !.doc = record]
<1>1. h \in Hands /\ h.at = to
  BY FilesAreTyped DEF Hands
<1>2. Holds(p, h)
  BY DEF Reads
<1> HIDE DEF h
<1>3. QED BY <1>1, <1>2, MoveAside

LEMMA MoveKeeps ==
  ASSUME CustodyInv, MoveInv, NEW p \in Procs, AdoptStep(p)
  PROVE  MoveInv'
<1> DEFINE Among(to) == to \in CustodySteps \ {"adopt", "ruin", "key"}
<1>1. /\ Among("look") /\ Among("adopt public") /\ Among("adopt meta") /\ Among("read back")
      /\ Among("unlink") /\ Among(Done(p))
  BY DEF CustodySteps, Done
<1>2. hand[p] \in Hands /\ own \in KeyFiles
  BY FilesAreTyped
<1>3. CASE AdoptBegins(p) \/ AdoptPublic(p) \/ AdoptMeta(p) \/ Ruin(p) \/ Unlink(p)
  <2>1. UNCHANGED <<own, crossed>>
    BY <1>3 DEF AdoptBegins, AdoptPublic, AdoptMeta, Ruin, Unlink, keyFiles, history
  <2>2. \E from : \/ Goes(p, from, "look") \/ Goes(p, from, "adopt meta")
                 \/ Goes(p, from, "read back") \/ Goes(p, from, "unlink")
                 \/ Goes(p, from, Done(p))
    BY <1>3 DEF AdoptBegins, AdoptPublic, AdoptMeta, Ruin, Unlink
  <2>3. QED BY <1>1, <2>1, <2>2, MoveGoes
<1>4. CASE AdoptLooks(p)
  <2>1. UNCHANGED <<own, crossed>>
    BY <1>4 DEF AdoptLooks, keyFiles, history
  <2>2. CASE Goes(p, "look", "read back") \/ Goes(p, "look", Done(p))
    BY <1>1, <2>1, <2>2, MoveGoes
  <2>3. CASE Adoptable(p) /\ own # Legacy
             /\ Holds(p, [hand[p] EXCEPT !.at = "adopt", !.key = own])
    <3> DEFINE h == [hand[p] EXCEPT !.at = "adopt", !.key = own]
    <3>1. h \in Hands /\ h.at = "adopt" /\ h.key = None
      BY <1>2, <2>3 DEF Hands, CustodySteps, Adoptable
    <3>2. Holds(p, h)
      BY <2>3
    <3> HIDE DEF h
    <3>3. QED BY <2>1, <3>1, <3>2, MoveStep
  <2>4. QED BY <1>4, <2>2, <2>3 DEF AdoptLooks
<1>5. CASE AdoptKey(p)
  <2>1. own' = Legacy /\ (crossed => crossed') /\ Goes(p, "adopt", "adopt public")
    BY <1>5 DEF AdoptKey
  <2>2. QED BY <1>1, <2>1, MoveGoes
<1>6. CASE ReadBack(p)
  <2>1. UNCHANGED <<own, crossed>>
    BY <1>6 DEF ReadBack, keyFiles, history
  <2>2. CASE own = Legacy
    <3> DEFINE h == [hand[p] EXCEPT !.at = "ruin"]
    <3>1. Holds(p, h)
      BY <1>6, <2>2 DEF ReadBack, Goes
    <3>2. h \in Hands /\ h.at = "ruin"
      BY <1>2 DEF Hands, CustodySteps
    <3> HIDE DEF h
    <3>3. QED BY <2>1, <2>2, <3>1, <3>2, MoveStep
  <2>3. CASE own # Legacy
    <3>1. Goes(p, "read back", Done(p))
      BY <1>6, <2>3 DEF ReadBack
    <3>2. QED BY <1>1, <2>1, <3>1, MoveGoes
  <2>4. QED BY <2>2, <2>3
<1>7. QED BY <1>3, <1>4, <1>5, <1>6 DEF AdoptStep

LEMMA KeysMoveOn ==
  ASSUME CustodyInv, MoveInv, CeremonyKey \/ GenerateKey \/ WritePublic \/ WriteMeta
  PROVE  MoveInv'
<1>1. "cli" \in Procs /\ hand["cli"] \in Hands /\ own \in KeyFiles
  BY FilesAreTyped DEF Procs
<1>2. CASE CeremonyKey
  <2>1. PICK r \in BOOLEAN :
          /\ own # None => r
          /\ Holds("cli", [Idle EXCEPT !.at = "key", !.rotating = r, !.key = own])
    BY <1>2 DEF CeremonyKey
  <2> DEFINE h == [Idle EXCEPT !.at = "key", !.rotating = r, !.key = own]
  <2>2. h \in Hands /\ h.at = "key" /\ (h.rotating \/ h.key = None)
    BY <1>1, <2>1, IdleIsTyped DEF Hands, CustodySteps
  <2>3. Holds("cli", h)
    BY <2>1
  <2> HIDE DEF h
  <2>4. UNCHANGED <<own, crossed>>
    BY <1>2 DEF CeremonyKey, keyFiles, history
  <2>5. QED BY <1>1, <2>2, <2>3, <2>4, MoveStep
<1>3. CASE GenerateKey
  <2> DEFINE h == [hand["cli"] EXCEPT !.at = "public", !.key = own']
  <2>1. Holds("cli", h) /\ own' \in KeyFiles
    BY <1>3 DEF GenerateKey, KeyFiles
  <2>2. h \in Hands /\ h.at = "public"
    BY <1>1, <2>1 DEF Hands, CustodySteps
  <2>3. (crossed => crossed') /\ (crossed' \/ \A q \in Procs : ~At(q, "ruin"))
    BY <1>3 DEF GenerateKey
  <2> HIDE DEF h
  <2>4. QED BY <1>1, <2>1, <2>2, <2>3, MoveStep
<1>4. CASE WritePublic \/ WriteMeta
  <2>1. UNCHANGED <<own, crossed>>
    BY <1>4 DEF WritePublic, WriteMeta, history
  <2>2. \E from : \/ Goes("cli", from, "meta") \/ Goes("cli", from, "require")
                 \/ Goes("cli", from, "idle")
    BY <1>4 DEF WritePublic, WriteMeta
  <2>3. {"meta", "require", "idle"} \subseteq CustodySteps \ {"adopt", "ruin", "key"}
    BY DEF CustodySteps
  <2>4. QED BY <1>1, <2>1, <2>2, <2>3, MoveGoes
<1>5. QED BY <1>2, <1>3, <1>4

(* The daemon, the commands and the record leave the keys alone.           *)
LEMMA OthersMoveOn ==
  ASSUME CustodyInv, MoveInv, UNCHANGED <<own, crossed>>,
         \/ Start \/ Load \/ Up \/ (\E op \in {"words", "issue", "code"} : Command(op))
         \/ Prove \/ Issue \/ Issued \/ GiveCode \/ NoCode \/ Confirm \/ Confirmed
         \/ \E p \in Procs : Require(p) \/ Required(p) \/ Kill(p)
  PROVE  MoveInv'
<1> DEFINE Among(to) == to \in CustodySteps \ {"adopt", "ruin", "key"}
<1>1. /\ Among("starting") /\ Among("idle") /\ Among("up") /\ Among("required")
      /\ Among("issued") /\ Among("confirm") /\ Among("confirmed")
      /\ {"cli", "start"} = Procs
  BY DEF CustodySteps, Procs
<1>2. ASSUME NEW p \in Procs, NEW from,
             \/ Goes(p, from, "starting") \/ Goes(p, from, "idle") \/ Goes(p, from, "up")
             \/ Goes(p, from, "confirm")
      PROVE  MoveInv'
  BY <1>1, <1>2, MoveGoes
<1>3. ASSUME NEW p \in Procs, NEW from,
             \/ Reads(p, from, "required") \/ Reads(p, from, "issued")
             \/ Reads(p, from, "confirmed")
      PROVE  MoveInv'
  BY <1>1, <1>3, MoveReads
<1>4. ASSUME NEW p \in Procs, NEW at \in {"words", "issue", "code", "require", "up"},
             NEW held \in HeldSeeds, Holds(p, [Idle EXCEPT !.at = at, !.held = held])
      PROVE  MoveInv'
  <2> DEFINE h == [Idle EXCEPT !.at = at, !.held = held]
  <2>1. h \in Hands /\ h.at \notin {"adopt", "ruin", "key"}
    BY IdleIsTyped DEF Hands, CustodySteps
  <2>2. Holds(p, h)
    BY <1>4
  <2> HIDE DEF h
  <2>3. QED BY <2>1, <2>2, MoveAside
<1>5. ASSUME NEW p \in Procs, Holds(p, Idle) PROVE MoveInv'
  BY <1>5, IdleIsTyped, MoveAside
<1>6. /\ envelope \in [key : KeyFiles, seed : SomeSeed] /\ LoadedVia \in KeyFiles
      /\ Opens(own) \in BOOLEAN
  BY FilesAreTyped DEF CustodyInv, CustodyTyped, LoadedVia, Opens
<1>7. CASE Load
  <2>1. CASE Holds("start", Idle)
    BY <1>1, <1>5, <2>1
  <2>2. CASE ~Holds("start", Idle)
    <3> DEFINE at == IF Opens(own) /\ Origin = "generated" THEN "require" ELSE "up"
               stale == Opens(own) /\ meta.origin # None /\ meta.of # own
               held == [seed |-> envelope.seed, via |-> LoadedVia, stale |-> stale]
    <3>1. Holds("start", [Idle EXCEPT !.at = at, !.held = held])
      BY <1>7, <2>2 DEF Load
    <3>2. at \in {"words", "issue", "code", "require", "up"} /\ stale \in BOOLEAN
      BY <1>6
    <3> HIDE DEF stale, at
    <3>3. held \in HeldSeeds
      BY <1>6, <3>2 DEF HeldSeeds
    <3> HIDE DEF held
    <3>4. QED BY <1>1, <1>4, <3>1, <3>2, <3>3
  <2>3. QED BY <2>1, <2>2
<1>8. ASSUME NEW op \in {"words", "issue", "code"}, Command(op) PROVE MoveInv'
  <2> DEFINE held == [seed |-> envelope.seed, via |-> LoadedVia, stale |-> FALSE]
  <2>1. Holds("cli", [Idle EXCEPT !.at = op, !.held = held])
    BY <1>8 DEF Command
  <2>2. held \in HeldSeeds
    BY <1>6 DEF HeldSeeds
  <2> HIDE DEF held
  <2>3. QED BY <1>1, <1>4, <2>1, <2>2
<1>9. CASE Start \/ Up \/ Prove \/ Issued \/ GiveCode \/ NoCode \/ Confirmed
  BY <1>1, <1>2, <1>9 DEF Start, Up, Prove, Issued, GiveCode, NoCode, Confirmed
<1>10. CASE Issue \/ Confirm
  BY <1>1, <1>3, <1>10 DEF Issue, Confirm
<1>11. ASSUME NEW p \in Procs, Require(p) \/ Required(p) \/ Kill(p) PROVE MoveInv'
  BY <1>1, <1>2, <1>3, <1>5, <1>11 DEF Require, Required, Kill
<1>12. QED BY <1>7, <1>8, <1>9, <1>10, <1>11

LEMMA OthersLeaveKeys ==
  ASSUME \/ Start \/ Load \/ Up \/ (\E op \in {"words", "issue", "code"} : Command(op))
         \/ Prove \/ Issue \/ Issued \/ GiveCode \/ NoCode \/ Confirm \/ Confirmed
         \/ \E p \in Procs : Require(p) \/ Required(p) \/ Kill(p)
  PROVE  UNCHANGED <<own, legacy, crossed>>
<1>1. CASE Start \/ Load \/ Up \/ (\E op \in {"words", "issue", "code"} : Command(op))
  BY <1>1 DEF Start, Load, Up, Command, keyFiles, history
<1>2. CASE Prove \/ Issue \/ Issued \/ GiveCode \/ NoCode \/ Confirm \/ Confirmed
  BY <1>2 DEF Prove, Issue, Issued, GiveCode, NoCode, Confirm, Confirmed, keyFiles, history
<1>3. CASE \E p \in Procs : Require(p) \/ Required(p) \/ Kill(p)
  BY <1>3 DEF Require, Required, Kill, keyFiles, history
<1>4. QED BY <1>1, <1>2, <1>3

LEMMA MoveInvAlways == ASSUME CustodyAssumption PROVE CustodySpec => [](CustodyInv /\ MoveInv)
<1>1. CustodyInv /\ MoveInv /\ [CustodyNext]_custodyVars => MoveInv'
  <2> SUFFICES ASSUME CustodyInv, MoveInv, [CustodyNext]_custodyVars PROVE MoveInv'
    OBVIOUS
  <2>1. CASE CeremonyKey \/ GenerateKey \/ WritePublic \/ WriteMeta
    BY <2>1, KeysMoveOn
  <2>2. CASE \E p \in Procs : AdoptStep(p)
    BY <2>2, MoveKeeps
  <2>3. CASE UNCHANGED <<own, hand, crossed>>
    BY <2>3 DEF MoveInv, At
  <2>4. CASE (\E s \in Seeds : HumanSeals(s)) \/ Stop \/ UNCHANGED custodyVars
    <3>1. UNCHANGED <<own, hand, crossed>>
      BY <2>4 DEF HumanSeals, Stop, custodyVars, keyFiles, history
    <3>2. QED BY <2>3, <3>1
  <2>5. CASE \/ Start \/ Load \/ Up \/ (\E op \in {"words", "issue", "code"} : Command(op))
             \/ Prove \/ Issue \/ Issued \/ GiveCode \/ NoCode \/ Confirm \/ Confirmed
             \/ \E p \in Procs : Require(p) \/ Required(p) \/ Kill(p)
    BY <2>5, OthersLeaveKeys, OthersMoveOn
  <2>6. QED BY <2>1, <2>2, <2>4, <2>5 DEF CustodyNext, AdoptStep
<1>2. CustodyInit => MoveInv
  <2> SUFFICES ASSUME CustodyInit PROVE MoveInv
    OBVIOUS
  <2>1. \A p \in Procs : hand[p] = Idle
    BY DEF CustodyInit
  <2>2. QED BY <2>1, IdleIsTyped DEF MoveInv, At, Procs
<1>3. QED BY <1>1, <1>2, CustodyInvAlways, PTL DEF CustodySpec

(* An envelope that a key opens is opened by a key after every step of a   *)
(* move of the legacy key, cut short or run by two at once, until the      *)
(* human rotates the key or a ceremony-key and a move cross                *)
(* (adopt_ceremony_key).                                                   *)
THEOREM EnvelopeStaysOpenAlways ==
  ASSUME CustodyAssumption PROVE CustodySpec => EnvelopeStaysOpen
<1>1. CustodyInv /\ MoveInv /\ [CustodyNext]_custodyVars => [EnvelopeStays]_custodyVars
  <2> SUFFICES ASSUME CustodyInv, MoveInv, CustodyNext, Loadable, envelope' = envelope,
                      ~Rotates, ~crossed'
               PROVE  Loadable'
    BY DEF EnvelopeStays
  <2> USE DEF CustodyAssumption
  <2>1. CASE UNCHANGED <<own, legacy>>
    BY <2>1 DEF Loadable, Opens
  <2>2. CASE GenerateKey
    <3>1. /\ At("cli", "key") /\ own' # own /\ own = hand["cli"].key /\ legacy' = legacy
      BY <2>2 DEF GenerateKey
    <3>2. own = None
      BY <3>1 DEF Rotates, MoveInv
    <3>3. QED BY <3>1, <3>2 DEF Loadable, Opens
  <2>3. ASSUME NEW p \in Procs, AdoptKey(p) PROVE Loadable'
    <3>1. own' = Legacy /\ own \in {None, Legacy} /\ legacy' = legacy
      BY <2>3 DEF AdoptKey, Goes, MoveInv
    <3>2. envelope.key = Legacy
      BY <3>1 DEF Loadable, Opens
    <3>3. QED BY <3>1, <3>2 DEF Loadable, Opens, Legacy, None
  <2>4. ASSUME NEW p \in Procs, Ruin(p) PROVE Loadable'
    <3>1. own = Legacy /\ own' = Legacy
      BY <2>4 DEF Ruin, Goes, MoveInv, history
    <3>2. envelope.key = Legacy
      BY <3>1 DEF Loadable, Opens
    <3>3. QED BY <3>1, <3>2 DEF Loadable, Opens, Legacy, None
  <2>5. ASSUME NEW p \in Procs, Unlink(p) PROVE Loadable'
    <3>1. legacy # Legacy /\ own' = own
      BY <2>5 DEF Unlink, Goes, CustodyInv, CopyIsMade
    <3>2. QED BY <3>1 DEF Loadable, Opens
  <2>6. CASE \E p \in Procs : \/ AdoptBegins(p) \/ AdoptLooks(p) \/ AdoptPublic(p)
                              \/ AdoptMeta(p) \/ ReadBack(p)
    BY <2>1, <2>6 DEF AdoptBegins, AdoptLooks, AdoptPublic, AdoptMeta, ReadBack, keyFiles
  <2>7. CASE CeremonyKey \/ WritePublic \/ WriteMeta \/ Stop \/ \E s \in Seeds : HumanSeals(s)
    BY <2>1, <2>7 DEF CeremonyKey, WritePublic, WriteMeta, Stop, HumanSeals, keyFiles
  <2>8. CASE \/ Start \/ Load \/ Up \/ (\E op \in {"words", "issue", "code"} : Command(op))
             \/ Prove \/ Issue \/ Issued \/ GiveCode \/ NoCode \/ Confirm \/ Confirmed
             \/ \E p \in Procs : Require(p) \/ Required(p) \/ Kill(p)
    BY <2>1, <2>8, OthersLeaveKeys
  <2>9. QED BY <2>2, <2>3, <2>4, <2>5, <2>6, <2>7, <2>8 DEF CustodyNext
<1>2. QED BY <1>1, MoveInvAlways, PTL DEF CustodySpec, EnvelopeStaysOpen

-----------------------------------------------------------------------------
(* SageWallet                                                              *)

(* A transfer that has been asked for is of something, and an NFT is one.  *)
IsChecked(p) ==
  p.intent = "transfer" =>
    /\ AssetKind(p.asset) # "malformed"
    /\ AssetKind(p.asset) = "nft" => p.amount = 1

IsSequence(s) == \E S : s \in Seq(S)

Fields(r, names) == names \subseteq DOMAIN r

(* From the moment an execution has selected it until the call is made,    *)
(* only another tool's login takes the daemon's wallet away.               *)
OwnIsSelected == pc = "call" => selected = "own" \/ Attempt \in overtaken

AllAreChecked ==
  /\ \A item \in queue : IsChecked(item.intent)
  /\ Fields(job, {"p", "since", "tx"})
  /\ pc # "idle" => IsChecked(job.p)

SubmittedIsOwn ==
  /\ IsSequence(txs)
  /\ \A t \in DOMAIN txs : /\ Fields(txs[t], {"attempt", "intent", "from", "out", "confirmed"})
                           /\ txs[t].from # "own" => txs[t].attempt \in overtaken

(* A row that says a transfer went out names a transaction on chain, not   *)
(* from before, with the coin that was asked for.                          *)
IsReal(row, tx) ==
  /\ tx.confirmed # Never /\ tx.confirmed >= row.since - Slack
  /\ \E c \in CoinsOf(tx.intent) :
       /\ c.asset = CoinAsset(row.intent.asset) /\ c.to = row.intent.to
       /\ AssetKind(row.intent.asset) = "cat" => c.amount = row.intent.amount

IsMove(row) ==
  /\ row.decision = "approved" /\ row.intent.intent = "transfer"
  /\ AssetKind(row.intent.asset) # "native"

RowsAreReal ==
  /\ IsSequence(ledger)
  /\ \A i \in DOMAIN ledger : IsMove(ledger[i]) =>
       ledger[i].ref \in DOMAIN txs /\ IsReal(ledger[i], txs[ledger[i].ref])

SageInv == OwnIsSelected /\ AllAreChecked /\ SubmittedIsOwn /\ RowsAreReal

-----------------------------------------------------------------------------
LEMMA AppendedSequence ==
  ASSUME NEW s, IsSequence(s), NEW x
  PROVE  /\ IsSequence(Append(s, x)) /\ Len(s) \in Nat
         /\ DOMAIN s = 1 .. Len(s) /\ DOMAIN Append(s, x) = 1 .. Len(s) + 1
         /\ \A i \in DOMAIN s : Append(s, x)[i] = s[i]
         /\ Append(s, x)[Len(s) + 1] = x
<1>1. PICK S : s \in Seq(S)
  BY DEF IsSequence
<1> DEFINE T == S \cup {x}
<1>2. S \subseteq T /\ x \in T
  OBVIOUS
<1> HIDE DEF T
<1>3. s \in Seq(T)
  BY <1>1, <1>2
<1>4. Append(s, x) \in Seq(T)
  BY <1>2, <1>3
<1>5. QED BY <1>3, <1>4 DEF IsSequence

LEMMA UpdatedSequence ==
  ASSUME NEW s, IsSequence(s), NEW t \in DOMAIN s, NEW x
  PROVE  /\ IsSequence([s EXCEPT ![t] = x]) /\ DOMAIN [s EXCEPT ![t] = x] = DOMAIN s
         /\ \A i \in DOMAIN s : [s EXCEPT ![t] = x][i] = IF i = t THEN x ELSE s[i]
<1>1. PICK S : s \in Seq(S)
  BY DEF IsSequence
<1> DEFINE T == S \cup {x}
<1>2. S \subseteq T /\ x \in T
  OBVIOUS
<1> HIDE DEF T
<1>3. s \in Seq(T)
  BY <1>1, <1>2
<1>4. [s EXCEPT ![t] = x] \in Seq(T)
  BY <1>2, <1>3
<1>5. QED BY <1>3, <1>4 DEF IsSequence

(* What a request is queued as has the same intent, and is checked.        *)
LEMMA AskIsChecked ==
  ASSUME SageWalletAssumption, NEW p \in Bodies, NEW w, NEW q \in Ask(p, w)
  PROVE  IsChecked(q)
<1> USE DEF SageWalletAssumption
<1>1. CASE p.intent = "transfer"
  BY <1>1 DEF Ask, AskTransfer, IsChecked
<1>2. CASE p.intent # "transfer"
  <2> SUFFICES q.intent = p.intent
    BY <1>2 DEF IsChecked
  <2>1. \A o, r : Offering(p, o, r).intent = p.intent
    BY DEF Offering
  <2>2. \A g, r : Taking(p, g, r).intent = p.intent
    BY DEF Taking
  <2>3. \A x : [p EXCEPT !.strikeLegs = x].intent = p.intent
    OBVIOUS
  <2>4. Normalized(p).intent = p.intent
    BY DEF Normalized
  <2>5. CASE p.intent = "offer_make"
    <3>1. q \in AskOfferMake(p, w)
      BY <2>5 DEF Ask
    <3>2. QED BY <2>1, <3>1 DEF AskOfferMake
  <2>6. CASE p.intent = "offer_take"
    <3>1. q \in AskOfferTake(p, w)
      BY <2>6 DEF Ask
    <3>2. QED BY <2>2, <3>1 DEF AskOfferTake
  <2>7. CASE p.intent = "offer_cancel"
    BY <2>7 DEF Ask, AskOfferCancel
  <2>8. CASE p.intent = "option_exercise"
    BY <2>3, <2>8 DEF Ask, AskExercise
  <2>9. CASE p.intent \notin {"offer_make", "offer_take", "offer_cancel", "option_exercise"}
    BY <1>2, <2>4, <2>9 DEF Ask
  <2>10. QED BY <2>5, <2>6, <2>7, <2>8, <2>9
<1>3. QED BY <1>1, <1>2

LEMMA SageInvInit == SageInit => SageInv
<1> SUFFICES ASSUME SageInit PROVE SageInv
  OBVIOUS
<1>1. IsSequence(<<>>)
  <2>1. <<>> \in Seq({})
    OBVIOUS
  <2>2. QED BY <2>1 DEF IsSequence
<1>2. Fields(NoJob, {"p", "since", "tx"})
  BY DEF NoJob, Fields
<1>3. QED
  BY <1>1, <1>2 DEF SageInit, SageInv, OwnIsSelected, AllAreChecked, SubmittedIsOwn, RowsAreReal
-----------------------------------------------------------------------------
(* The steps, by the part of the invariant they can disturb.               *)

(* A step that neither submits nor ends an execution.                      *)
LEMMA NothingSent ==
  ASSUME SageInv, UNCHANGED <<txs, ledger>>, overtaken \subseteq overtaken',
         OwnIsSelected', AllAreChecked'
  PROVE  SageInv'
BY DEF SageInv, SubmittedIsOwn, RowsAreReal

(* An execution ends in a row.                                             *)
LEMMA EndedKeeps ==
  ASSUME SageInv, NEW decision, NEW ref, Ended(decision, ref), queue' = queue,
         SubmittedIsOwn',
         \A t \in DOMAIN txs : t \in DOMAIN txs' /\ txs'[t] = txs[t],
         NEW row, row = [intent |-> This, decision |-> decision, ref |-> ref,
                         since |-> job.since],
         IsMove(row) => ref \in DOMAIN txs' /\ IsReal(row, txs'[ref])
  PROVE  SageInv'
<1>1. row.ref = ref
  OBVIOUS
<1>2. pc' = "idle" /\ job' = NoJob /\ ledger' = Append(ledger, row)
  BY DEF Ended
<1>3. OwnIsSelected'
  BY <1>2 DEF OwnIsSelected
<1>4. AllAreChecked'
  BY <1>2 DEF SageInv, AllAreChecked, Fields, NoJob
<1>5. /\ IsSequence(ledger') /\ DOMAIN ledger = 1 .. Len(ledger) /\ Len(ledger) \in Nat
      /\ DOMAIN ledger' = 1 .. Len(ledger) + 1
      /\ \A i \in DOMAIN ledger : ledger'[i] = ledger[i]
      /\ ledger'[Len(ledger) + 1] = row
  BY <1>2, AppendedSequence DEF SageInv, RowsAreReal
<1>6. ASSUME NEW i \in DOMAIN ledger', IsMove(ledger'[i])
      PROVE  /\ ledger'[i].ref \in DOMAIN txs'
             /\ IsReal(ledger'[i], txs'[ledger'[i].ref])
  <2>1. CASE i \in DOMAIN ledger
    <3>1. ledger[i].ref \in DOMAIN txs /\ IsReal(ledger[i], txs[ledger[i].ref])
      BY <1>5, <1>6, <2>1 DEF SageInv, RowsAreReal
    <3>2. QED BY <1>5, <2>1, <3>1
  <2>2. CASE i = Len(ledger) + 1
    BY <1>1, <1>5, <1>6, <2>2
  <2>3. QED BY <1>5, <2>1, <2>2
<1>7. RowsAreReal'
  BY <1>5, <1>6 DEF RowsAreReal
<1>8. QED BY <1>3, <1>4, <1>7 DEF SageInv

(* An execution that is not recorded as submitted.                         *)
LEMMA NotSubmittedKeeps ==
  ASSUME SageInv, NEW decision, decision # "approved", NEW ref, Ended(decision, ref),
         queue' = queue, SubmittedIsOwn',
         \A t \in DOMAIN txs : t \in DOMAIN txs' /\ txs'[t] = txs[t]
  PROVE  SageInv'
<1> DEFINE row == [intent |-> This, decision |-> decision, ref |-> ref, since |-> job.since]
<1>1. ~ IsMove(row)
  BY DEF IsMove
<1>2. row = [intent |-> This, decision |-> decision, ref |-> ref, since |-> job.since]
  OBVIOUS
<1> HIDE DEF row
<1>3. QED BY <1>1, <1>2, EndedKeeps

LEMMA FailKeeps ==
  ASSUME SageInv, Fail, queue' = queue, SubmittedIsOwn',
         \A t \in DOMAIN txs : t \in DOMAIN txs' /\ txs'[t] = txs[t]
  PROVE  SageInv'
BY NotSubmittedKeeps DEF Fail

LEMMA RequestKeeps ==
  ASSUME SageWalletAssumption, SageInv, NEW p \in Bodies, Request(p) PROVE SageInv'
<1>1. UNCHANGED <<txs, ledger, overtaken>> /\ pc = "idle"
  BY DEF Request
<1>2. PICK q \in Ask(p, wallet) :
        \/ /\ queue' = queue \cup {[id |-> asked', intent |-> q]}
           /\ UNCHANGED handler
        \/ /\ pc' = "select" /\ job' = Job(q)
           /\ UNCHANGED queue
  BY DEF Request
<1>3. IsChecked(q)
  BY AskIsChecked
<1>4. CASE /\ queue' = queue \cup {[id |-> asked', intent |-> q]}
           /\ UNCHANGED handler
  <2>1. OwnIsSelected'
    BY <1>1, <1>4 DEF OwnIsSelected, handler
  <2>2. \A item \in queue' : IsChecked(item.intent)
    BY <1>3, <1>4 DEF SageInv, AllAreChecked
  <2>3. AllAreChecked'
    BY <1>4, <2>2 DEF SageInv, AllAreChecked, handler
  <2>4. QED BY <1>1, <2>1, <2>3, NothingSent
<1>5. CASE pc' = "select" /\ job' = Job(q) /\ UNCHANGED queue
  <2>1. Fields(Job(q), {"p", "since", "tx"}) /\ Job(q).p = q
    BY DEF Job, NoJob, Fields
  <2>2. OwnIsSelected'
    BY <1>5 DEF OwnIsSelected
  <2>3. AllAreChecked'
    BY <1>3, <1>5, <2>1 DEF SageInv, AllAreChecked
  <2>4. QED BY <1>1, <2>2, <2>3, NothingSent
<1>6. QED BY <1>2, <1>4, <1>5

LEMMA ApproveKeeps == ASSUME SageInv, Approve PROVE SageInv'
<1>1. PICK item \in queue : queue' = queue \ {item} /\ pc' = "select" /\ job' = Job(item.intent)
  BY DEF Approve
<1>2. Fields(Job(item.intent), {"p", "since", "tx"}) /\ Job(item.intent).p = item.intent
  BY DEF Job, NoJob, Fields
<1>3. OwnIsSelected'
  BY <1>1 DEF OwnIsSelected
<1>4. AllAreChecked'
  BY <1>1, <1>2 DEF SageInv, AllAreChecked
<1>5. QED BY <1>3, <1>4, NothingSent DEF Approve

LEMMA SelectKeeps == ASSUME SageInv, Select PROVE SageInv'
<1>1. UNCHANGED <<queue, txs, overtaken>>
  BY DEF Select
<1>2. CASE SelectOwn /\ pc' = "call" /\ UNCHANGED <<job, ledger>>
  <2>1. OwnIsSelected'
    BY <1>2 DEF SelectOwn, OwnIsSelected
  <2>2. AllAreChecked'
    BY <1>1, <1>2 DEF Select, SageInv, AllAreChecked
  <2>3. QED BY <1>1, <1>2, <2>1, <2>2, NothingSent
<1>3. CASE Fail
  BY <1>1, <1>3, FailKeeps DEF SageInv, SubmittedIsOwn
<1>4. QED BY <1>2, <1>3 DEF Select

LEMMA CallKeeps == ASSUME SageInv, Call PROVE SageInv'
<1>1. /\ pc = "call" /\ UNCHANGED <<queue, selected, overtaken>>
  BY DEF Call, sage
<1>2. CASE Fail /\ UNCHANGED <<wallet, txs>>
  BY <1>1, <1>2, FailKeeps DEF SageInv, SubmittedIsOwn
<1>3. ASSUME NEW out, Submits(out),
             \/ /\ pc' = "watch" /\ job' = [job EXCEPT !.since = clock, !.tx = Len(txs')]
                /\ UNCHANGED ledger
             \/ Fail
      PROVE  SageInv'
  <2> DEFINE tx == [attempt |-> Attempt, intent |-> This, from |-> selected,
                    out |-> out, confirmed |-> Never]
  <2>1. txs' = Append(txs, tx)
    BY <1>3 DEF Submits
  <2>2. /\ Fields(tx, {"attempt", "intent", "from", "out", "confirmed"})
        /\ tx.from = selected /\ tx.attempt = Attempt
    BY DEF Fields
  <2> HIDE DEF tx
  <2>3. /\ IsSequence(txs') /\ DOMAIN txs = 1 .. Len(txs) /\ Len(txs) \in Nat
        /\ DOMAIN txs' = 1 .. Len(txs) + 1
        /\ \A t \in DOMAIN txs : txs'[t] = txs[t]
        /\ txs'[Len(txs) + 1] = tx
    BY <2>1, AppendedSequence DEF SageInv, SubmittedIsOwn
  <2>4. tx.from # "own" => tx.attempt \in overtaken
    BY <1>1, <2>2 DEF SageInv, OwnIsSelected
  <2>5. SubmittedIsOwn'
    BY <1>1, <2>2, <2>3, <2>4 DEF SageInv, SubmittedIsOwn
  <2>6. \A t \in DOMAIN txs : t \in DOMAIN txs' /\ txs'[t] = txs[t]
    BY <2>3
  <2>7. CASE Fail
    BY <1>1, <2>5, <2>6, <2>7, FailKeeps
  <2>8. CASE /\ pc' = "watch" /\ job' = [job EXCEPT !.since = clock, !.tx = Len(txs')]
             /\ UNCHANGED ledger
    <3>1. OwnIsSelected'
      BY <2>8 DEF OwnIsSelected
    <3>2. job'.p = job.p /\ Fields(job', {"p", "since", "tx"})
      BY <2>8 DEF SageInv, AllAreChecked, Fields
    <3>3. AllAreChecked'
      BY <1>1, <3>2 DEF SageInv, AllAreChecked
    <3>4. RowsAreReal'
      BY <2>6, <2>8 DEF SageInv, RowsAreReal
    <3>5. QED BY <2>5, <3>1, <3>3, <3>4 DEF SageInv
  <2>9. QED BY <1>3, <2>7, <2>8
<1>4. Call => \/ Fail /\ UNCHANGED <<wallet, txs>>
              \/ \E out : /\ Submits(out)
                         /\ \/ /\ pc' = "watch"
                               /\ job' = [job EXCEPT !.since = clock, !.tx = Len(txs')]
                               /\ UNCHANGED ledger
                            \/ Fail
  BY DEF Call, CallOwn, CallOther
<1>5. QED BY <1>2, <1>3, <1>4

(* What the watch has seen is on chain, with the coin that was asked for.  *)
LEMMA SeenIsReal ==
  ASSUME SageInv, pc = "watch", NEW t \in DOMAIN txs, Seen(t),
         NEW row, row.intent = This, row.since = job.since, IsMove(row)
  PROVE  IsReal(row, txs[t])
<1>1. This.intent = "transfer" /\ AssetKind(This.asset) # "native"
  BY DEF IsMove
<1>2. AssetKind(This.asset) \in {"native", "cat", "nft", "malformed"}
  BY DEF AssetKind
<1>3. CASE AssetKind(This.asset) = "nft"
  <2>1. NftSeen(t)
    BY <1>1, <1>3 DEF Seen, Watches
  <2>2. QED BY <1>3, <2>1 DEF NftSeen, Recent, OnChain, IsReal
<1>4. CASE AssetKind(This.asset) = "cat"
  <2>1. PaymentSeen(t)
    BY <1>1, <1>4 DEF Seen, Watches
  <2>2. QED BY <1>4, <2>1 DEF PaymentSeen, Recent, OnChain, IsReal
<1>5. AssetKind(This.asset) # "malformed"
  BY <1>1 DEF SageInv, AllAreChecked, IsChecked, This
<1>6. QED BY <1>1, <1>2, <1>3, <1>4, <1>5

LEMMA SeeKeeps == ASSUME SageInv, See PROVE SageInv'
<1>1. PICK t \in DOMAIN txs : Seen(t) /\ Ended("approved", t)
  BY DEF See
<1>2. pc = "watch" /\ UNCHANGED <<queue, txs, overtaken>>
  BY DEF See
<1>3. SubmittedIsOwn'
  BY <1>2 DEF SageInv, SubmittedIsOwn
<1> DEFINE row == [intent |-> This, decision |-> "approved", ref |-> t, since |-> job.since]
<1>4. row.intent = This /\ row.since = job.since
  OBVIOUS
<1>5. row = [intent |-> This, decision |-> "approved", ref |-> t, since |-> job.since]
  OBVIOUS
<1> HIDE DEF row
<1>6. IsMove(row) => t \in DOMAIN txs' /\ IsReal(row, txs'[t])
  BY <1>1, <1>2, <1>4, SeenIsReal
<1>7. QED BY <1>1, <1>2, <1>3, <1>5, <1>6, EndedKeeps

LEMMA OtherEndsKeep == ASSUME SageInv, GiveUp \/ WatchFails PROVE SageInv'
<1>1. UNCHANGED <<queue, txs, overtaken>>
  BY DEF GiveUp, WatchFails
<1>2. SubmittedIsOwn'
  BY <1>1 DEF SageInv, SubmittedIsOwn
<1>3. CASE Ended("unknown", 0)
  BY <1>1, <1>2, <1>3, NotSubmittedKeeps
<1>4. CASE Fail
  BY <1>1, <1>2, <1>4, FailKeeps
<1>5. QED BY <1>3, <1>4 DEF GiveUp, WatchFails

LEMMA ChainConfirmsKeeps == ASSUME SageInv, ChainConfirms PROVE SageInv'
<1>1. PICK t \in DOMAIN txs : /\ ~OnChain(t)
                             /\ txs' = [txs EXCEPT ![t] = [txs[t] EXCEPT !.confirmed = clock]]
  BY DEF ChainConfirms
<1>2. UNCHANGED <<sage, handler, queue, ledger, overtaken>>
  BY DEF ChainConfirms
<1> DEFINE x == [txs[t] EXCEPT !.confirmed = clock]
<1>3. /\ Fields(x, {"attempt", "intent", "from", "out", "confirmed"})
      /\ x.attempt = txs[t].attempt /\ x.from = txs[t].from
  BY DEF SageInv, SubmittedIsOwn, Fields
<1> HIDE DEF x
<1>4. /\ IsSequence(txs') /\ DOMAIN txs' = DOMAIN txs
      /\ \A i \in DOMAIN txs : txs'[i] = IF i = t THEN x ELSE txs[i]
  BY <1>1, UpdatedSequence DEF SageInv, SubmittedIsOwn, x
<1>5. SubmittedIsOwn'
  BY <1>2, <1>3, <1>4 DEF SageInv, SubmittedIsOwn
<1>6. ASSUME NEW i \in DOMAIN ledger, IsMove(ledger[i])
      PROVE  ledger[i].ref \in DOMAIN txs' /\ IsReal(ledger[i], txs'[ledger[i].ref])
  <2>1. ledger[i].ref \in DOMAIN txs /\ IsReal(ledger[i], txs[ledger[i].ref])
    BY <1>6 DEF SageInv, RowsAreReal
  <2>2. ledger[i].ref # t
    BY <1>1, <2>1 DEF OnChain, IsReal
  <2>3. QED BY <1>4, <2>1, <2>2
<1>7. RowsAreReal'
  BY <1>2, <1>6 DEF SageInv, RowsAreReal
<1>8. OwnIsSelected' /\ AllAreChecked'
  BY <1>2 DEF SageInv, OwnIsSelected, Attempt, AllAreChecked, sage, handler
<1>9. QED BY <1>5, <1>7, <1>8 DEF SageInv

(* What happens around the handler while it makes no call.                 *)
LEMMA AroundKeeps ==
  ASSUME SageInv, \/ Provision \/ LoseSage \/ OtherTool \/ WalletChanges \/ Tick
                  \/ UNCHANGED sageVars
  PROVE  SageInv'
<1>1. UNCHANGED <<handler, queue, txs, ledger>>
  BY DEF Provision, LoseSage, OtherTool, WalletChanges, Tick, sageVars
<1>2. Attempt' = Attempt /\ pc' = pc
  BY <1>1 DEF Attempt, handler
<1>3. overtaken \subseteq overtaken' /\ OwnIsSelected'
  <2>1. CASE OtherTool
    BY <1>2, <2>1 DEF OtherTool, OwnIsSelected
  <2>2. CASE \/ Provision \/ LoseSage \/ WalletChanges \/ Tick \/ UNCHANGED sageVars
    <3>1. overtaken' = overtaken /\ (pc = "call" => selected' = selected)
      BY <2>2 DEF Provision, LoseSage, WalletChanges, Tick, sageVars, sage
    <3>2. QED BY <1>2, <3>1 DEF SageInv, OwnIsSelected
  <2>3. QED BY <2>1, <2>2
<1>4. AllAreChecked'
  BY <1>1 DEF SageInv, AllAreChecked, handler
<1>5. QED BY <1>1, <1>3, <1>4, NothingSent

LEMMA SageInvNext ==
  ASSUME SageWalletAssumption, SageInv, [SageNext]_sageVars
  PROVE  SageInv'
<1>1. ASSUME NEW p \in Bodies, Request(p) PROVE SageInv'
  BY <1>1, RequestKeeps
<1>2. CASE Execution
  BY <1>2, SelectKeeps, CallKeeps, SeeKeeps, OtherEndsKeep DEF Execution
<1>3. QED
  BY <1>1, <1>2, ApproveKeeps, ChainConfirmsKeeps, AroundKeeps DEF SageNext

LEMMA SageInvAlways == ASSUME SageWalletAssumption PROVE SageSpec => []SageInv
<1>1. SageInv /\ [SageNext]_sageVars => SageInv'
  BY SageInvNext
<1>2. SageInit => SageInv
  BY SageInvInit
<1>3. QED BY <1>1, <1>2, PTL DEF SageSpec

(* Every spend through Sage is paid by the daemon's wallet, whichever      *)
(* wallet other tools left selected, save that of an execution between     *)
(* whose login and call another tool logged in (_chia_wallet).             *)
THEOREM OwnWalletPaysAlways == ASSUME SageWalletAssumption PROVE SageSpec => []OwnWalletPays
<1>1. SageInv => OwnWalletPays
  BY DEF SageInv, SubmittedIsOwn, OwnWalletPays
<1>2. QED BY <1>1, SageInvAlways, PTL

(* A CAT or NFT transfer on record as submitted names a transaction that   *)
(* created that coin for that destination, confirmed no earlier than the   *)
(* watch looked back, whatever else the wallet sent in the meantime        *)
(* (wait_for_outgoing, wait_for_nft_transfer).                             *)
THEOREM RecordedMoveIsRealAlways ==
  ASSUME SageWalletAssumption PROVE SageSpec => []RecordedMoveIsReal
<1>1. SageInv => RecordedMoveIsReal
  BY DEF SageInv, RowsAreReal, IsMove, IsReal, RecordedMoveIsReal
<1>2. QED BY <1>1, SageInvAlways, PTL
-----------------------------------------------------------------------------
(* What leaves through Sage and what policy judged                         *)

(* Legs as an intent, a transaction or policy has them.                    *)
Assets == STRING \cup {"native"} \cup Cats \cup Nfts
Terms == Seq(LegShape)
LegSet == [asset : Assets, amount : Nat]
LegList == Seq(LegSet)

Places(legs, a) == {j \in DOMAIN legs : legs[j].asset = a}
AmountsAt(legs, a) == [i \in Places(legs, a) |-> legs[i].amount]

LEMMA LegsHave ==
  ASSUME NEW legs \in LegList, NEW i \in DOMAIN legs
  PROVE  legs[i].asset \in Assets /\ legs[i].amount \in Nat
<1>1. legs[i] \in LegSet
  BY DEF LegList
<1>2. QED BY <1>1 DEF LegSet

LEMMA LegIs ==
  ASSUME NEW x \in Assets, NEW n \in Nat
  PROVE  Leg(x, n) \in LegSet /\ Leg(x, n).asset = x /\ Leg(x, n).amount = n
BY DEF LegSet, Leg

LEMMA LegListIs ==
  ASSUME NEW n \in Nat, NEW legs, DOMAIN legs = 1 .. n, legs = [i \in 1 .. n |-> legs[i]],
         \A i \in 1 .. n : legs[i] \in LegSet
  PROVE  legs \in LegList /\ Len(legs) = n
<1>1. legs \in [1 .. n -> LegSet]
  OBVIOUS
<1>2. QED BY <1>1 DEF LegList

LEMMA TotalIsSum ==
  ASSUME NEW legs \in LegList, NEW a
  PROVE  /\ IsFiniteSet(DOMAIN legs) /\ DOMAIN AmountsAt(legs, a) = Places(legs, a)
         /\ Summable(AmountsAt(legs, a))
         /\ TotalOf(legs, a) = SumFunction(AmountsAt(legs, a))
         /\ TotalOf(legs, a) \in Nat
<1>1. DOMAIN legs = 1 .. Len(legs) /\ Len(legs) \in Nat
  BY DEF LegList
<1>2. \A i \in DOMAIN legs : legs[i].amount \in Nat
  BY LegsHave
<1>3. IsFiniteSet(DOMAIN legs)
  BY <1>1, FS_Interval
<1>4. Summable(AmountsAt(legs, a))
  <2>1. IsFiniteSet(Places(legs, a))
    BY <1>3, FS_Subset DEF Places
  <2>2. QED BY <1>2, <2>1 DEF Summable, Naturals, AmountsAt, Places
<1>5. TotalOf(legs, a) = SumFunction(AmountsAt(legs, a))
  BY Zenon DEF TotalOf, AmountsAt, Places
<1>6. DOMAIN AmountsAt(legs, a) = Places(legs, a)
  BY DEF AmountsAt
<1>7. QED BY <1>3, <1>4, <1>5, <1>6, SumOfCells

(* Asset by asset, the total of two lists is that of both.                 *)
LEMMA TotalOfBoth ==
  ASSUME NEW s \in LegList, NEW t \in LegList, NEW a
  PROVE  /\ s \o t \in LegList
         /\ TotalOf(s \o t, a) = TotalOf(s, a) + TotalOf(t, a)
<1>1. s \o t \in LegList
  BY DEF LegList
<1>2. /\ DOMAIN s = 1 .. Len(s) /\ Len(s) \in Nat /\ DOMAIN t = 1 .. Len(t) /\ Len(t) \in Nat
      /\ DOMAIN (s \o t) = 1 .. Len(s) + Len(t)
      /\ \A i \in 1 .. Len(s) + Len(t) :
           (s \o t)[i] = IF i <= Len(s) THEN s[i] ELSE t[i - Len(s)]
  BY DEF LegList
<1> DEFINE n == Len(s)
           move == [j \in Places(t, a) |-> j + n]
<1>3. Places(s, a) \subseteq Places(s \o t, a) /\ \A i \in Places(s, a) : (s \o t)[i] = s[i]
  BY <1>2 DEF Places
<1>4. \A j \in Places(t, a) : j + n \in Places(s \o t, a) \ Places(s, a) /\ (s \o t)[j + n] = t[j]
  <2> SUFFICES ASSUME NEW j \in Places(t, a)
               PROVE  j + n \in Places(s \o t, a) \ Places(s, a) /\ (s \o t)[j + n] = t[j]
    OBVIOUS
  <2>1. j \in 1 .. Len(t) /\ t[j].asset = a
    BY <1>2 DEF Places
  <2>2. j + n \in 1 .. n + Len(t) /\ j + n > n /\ (j + n) - n = j
    BY <1>2, <2>1
  <2>3. (s \o t)[j + n] = t[j]
    BY <1>2, <2>2
  <2>4. QED BY <1>2, <2>1, <2>2, <2>3 DEF Places
<1>5. \A k \in Places(s \o t, a) \ Places(s, a) : k - n \in Places(t, a) /\ (k - n) + n = k
  <2> SUFFICES ASSUME NEW k \in Places(s \o t, a), k \notin Places(s, a)
               PROVE  k - n \in Places(t, a) /\ (k - n) + n = k
    OBVIOUS
  <2>1. k \in 1 .. n + Len(t) /\ (s \o t)[k].asset = a
    BY <1>2 DEF Places
  <2>2. ~ (k <= n)
    BY <1>2, <2>1 DEF Places
  <2>3. k - n \in 1 .. Len(t) /\ (s \o t)[k] = t[k - n] /\ (k - n) + n = k
    BY <1>2, <2>1, <2>2
  <2>4. QED BY <1>2, <2>1, <2>3 DEF Places
<1>6. move \in [Places(t, a) -> Places(s \o t, a) \ Places(s, a)]
  BY <1>4
<1>7. \A x, y \in Places(t, a) : move[x] = move[y] => x = y
  BY <1>2 DEF Places
<1>8. \A k \in Places(s \o t, a) \ Places(s, a) : \E j \in Places(t, a) : move[j] = k
  BY <1>5
<1>9. \A j \in Places(t, a) : move[j] \in Places(s \o t, a) /\ (s \o t)[move[j]] = t[j]
  BY <1>4
<1> HIDE DEF move
<1> DEFINE f == AmountsAt(s \o t, a)
           g == AmountsAt(s, a)
           h == AmountsAt(t, a)
<1>10. /\ Summable(f) /\ DOMAIN f = Places(s \o t, a)
       /\ Summable(g) /\ DOMAIN g = Places(s, a)
       /\ Summable(h) /\ DOMAIN h = Places(t, a)
  BY <1>1, TotalIsSum
<1>11. \A x \in DOMAIN g : f[x] = g[x]
  BY <1>3 DEF AmountsAt
<1>12. \A x \in DOMAIN h : h[x] = f[move[x]]
  BY <1>9 DEF AmountsAt
<1>13. SumFunction(f) = SumFunction(g) + SumFunction(h)
  <2> HIDE DEF f, g, h
  <2>1. QED BY <1>3, <1>6, <1>7, <1>8, <1>10, <1>11, <1>12, SumOfTwo
<1>14. QED BY <1>1, <1>13, TotalIsSum

LEMMA TotalOfNone ==
  ASSUME NEW legs \in LegList, NEW a, a \notin AssetsOf(legs)
  PROVE  TotalOf(legs, a) = 0
<1>1. Places(legs, a) = {}
  BY DEF Places, AssetsOf
<1>2. QED BY <1>1, TotalIsSum, SumOfNone

LEMMA TotalOfOne ==
  ASSUME NEW x \in Assets, NEW n \in Nat, NEW a
  PROVE  /\ <<Leg(x, n)>> \in LegList
         /\ TotalOf(<<Leg(x, n)>>, a) = IF a = x THEN n ELSE 0
<1> DEFINE legs == <<Leg(x, n)>>
<1>1. legs \in LegList
  BY DEF LegList, LegSet, Leg
<1>2. DOMAIN legs = {1} /\ legs[1].asset = x /\ legs[1].amount = n
  BY DEF Leg
<1> HIDE DEF legs
<1>3. CASE a = x
  <2>1. Places(legs, a) = {1} /\ AmountsAt(legs, a)[1] = n
    BY <1>2, <1>3 DEF Places, AmountsAt
  <2>2. QED BY <1>1, <1>3, <2>1, TotalIsSum, SumOfOne DEF legs
<1>4. CASE a # x
  <2>1. a \notin AssetsOf(legs)
    BY <1>2, <1>4 DEF AssetsOf
  <2>2. QED BY <1>1, <1>4, <2>1, TotalOfNone DEF legs
<1>5. QED BY <1>3, <1>4

LEMMA TotalOfFee ==
  ASSUME NEW fee \in Nat, NEW a
  PROVE  /\ FeeLeg(fee) \in LegList
         /\ TotalOf(FeeLeg(fee), a) = IF a = "native" THEN fee ELSE 0
<1>1. CASE fee = 0
  <2>1. FeeLeg(fee) = <<>> /\ <<>> \in LegList
    BY <1>1 DEF FeeLeg, LegList
  <2>2. a \notin AssetsOf(<<>>)
    BY DEF AssetsOf
  <2>3. QED BY <1>1, <2>1, <2>2, TotalOfNone
<1>2. CASE fee # 0
  <2>1. FeeLeg(fee) = <<Leg("native", fee)>>
    BY <1>2 DEF FeeLeg
  <2>2. "native" \in Assets
    BY DEF Assets
  <2>3. QED BY <2>1, <2>2, TotalOfOne
<1>3. QED BY <1>1, <1>2

-----------------------------------------------------------------------------
LEMMA JudgedAtLeast ==
  ASSUME NEW legs \in LegList, NEW names
  PROVE  /\ Judged(legs, names) \in Nat
         /\ \A i \in DOMAIN legs : legs[i].asset \in names => legs[i].amount <= Judged(legs, names)
<1> DEFINE at == {j \in DOMAIN legs : legs[j].asset \in names}
           some == {legs[i].amount : i \in at}
           T == {0} \cup some
           h == [i \in at |-> legs[i].amount]
<1>1. some \subseteq Nat
  BY LegsHave
<1>2. IsFiniteSet(some)
  <2>1. h \in Surjection(at, some)
    BY DEF Surjection
  <2>2. IsFiniteSet(at)
    BY TotalIsSum, FS_Subset
  <2> HIDE DEF h, some, at
  <2>3. QED BY <2>1, <2>2, FS_Surjection
<1>3. \A i \in at : legs[i].amount \in T
  OBVIOUS
<1>4. Judged(legs, names) = CHOOSE m \in T : \A n \in T : m >= n
  BY DEF Judged, Max
<1> HIDE DEF some
<1>5. IsFiniteSet(T) /\ T \subseteq Nat /\ T # {}
  <2>1. IsFiniteSet({0}) /\ IsFiniteSet({0} \cup some)
    BY <1>2, FS_Singleton, FS_Union
  <2>2. QED BY <1>1, <2>1
<1> HIDE DEF T
<1>6. Judged(legs, names) \in T /\ \A n \in T : Judged(legs, names) >= n
  BY <1>4, <1>5, LargestOf
<1>7. QED BY <1>3, <1>5, <1>6

(* Merging gives every asset one leg, of its total: policy judges all that *)
(* leaves of an asset at once.                                             *)
LEMMA MergedHas ==
  ASSUME NEW legs \in LegList, NEW a
  PROVE  /\ Merge(legs) \in LegList
         /\ a \in AssetsOf(legs) =>
              \E i \in Places(Merge(legs), a) : Merge(legs)[i].amount = TotalOf(legs, a)
<1> DEFINE S == AssetsOf(legs)
           assets == SetToSeq(S)
           m == Merge(legs)
<1>1. IsFiniteSet(S)
  <2> DEFINE h == [i \in DOMAIN legs |-> legs[i].asset]
  <2>1. h \in Surjection(DOMAIN legs, S)
    BY DEF Surjection, AssetsOf
  <2> HIDE DEF h, S
  <2>2. QED BY <2>1, TotalIsSum, FS_Surjection
<1>2. S \subseteq Assets
  BY LegsHave DEF AssetsOf
<1> HIDE DEF S
<1>3. /\ assets \in [1 .. Cardinality(S) -> S] /\ Cardinality(S) \in Nat
      /\ \A x \in S : \E i \in 1 .. Cardinality(S) : assets[i] = x
  <2> DEFINE n == Cardinality(S)
  <2>1. n \in Nat /\ ExistsBijection(1 .. n, S)
    BY <1>1, FS_CardinalityType
  <2>2. \E f \in [1 .. n -> S] : IsInjective(f)
    BY <2>1 DEF ExistsBijection, Bijection, Injection
  <2>3. assets \in [1 .. n -> S] /\ IsInjective(assets)
    BY <2>2 DEF SetToSeq
  <2>4. assets \in Injection(1 .. n, S)
    BY <2>3 DEF Injection
  <2>5. Cardinality(1 .. n) = n
    BY <2>1, FS_Interval
  <2>6. assets \in Surjection(1 .. n, S)
    BY <1>1, <2>4, <2>5, FS_Injection
  <2>7. QED BY <2>1, <2>3, <2>6 DEF Surjection
<1> HIDE DEF assets
<1>4. m = [i \in 1 .. Cardinality(S) |-> Leg(assets[i], TotalOf(legs, assets[i]))]
  BY <1>3 DEF Merge, assets, S
<1>5. /\ m = [i \in 1 .. Cardinality(S) |-> m[i]] /\ DOMAIN m = 1 .. Cardinality(S)
      /\ \A i \in 1 .. Cardinality(S) : m[i] = Leg(assets[i], TotalOf(legs, assets[i]))
  BY <1>4
<1> HIDE DEF m
<1>6. ASSUME NEW i \in 1 .. Cardinality(S)
      PROVE  m[i].asset = assets[i] /\ m[i].amount = TotalOf(legs, assets[i]) /\ m[i] \in LegSet
  <2>1. assets[i] \in Assets
    BY <1>2, <1>3
  <2>2. TotalOf(legs, assets[i]) \in Nat
    BY TotalIsSum
  <2>3. QED BY <1>5, <2>1, <2>2 DEF Leg, LegSet
<1>7. m \in LegList
  BY <1>3, <1>5, <1>6, LegListIs
<1>8. ASSUME a \in S PROVE \E i \in Places(m, a) : m[i].amount = TotalOf(legs, a)
  <2>1. PICK i \in 1 .. Cardinality(S) : assets[i] = a
    BY <1>3, <1>8
  <2>2. i \in Places(m, a) /\ m[i].amount = TotalOf(legs, a)
    BY <1>5, <1>6, <2>1 DEF Places
  <2>3. QED BY <2>2
<1>9. QED BY <1>7, <1>8 DEF m, S

LEMMA MergedIsJudged ==
  ASSUME NEW legs \in LegList, NEW names, NEW a \in names
  PROVE  /\ Merge(legs) \in LegList
         /\ TotalOf(legs, a) <= Judged(Merge(legs), names)
<1> DEFINE m == Merge(legs)
<1>1. m \in LegList /\ TotalOf(legs, a) \in Nat
  BY MergedHas, TotalIsSum
<1>2. /\ Judged(m, names) \in Nat
      /\ \A i \in Places(m, a) : m[i].amount <= Judged(m, names)
  BY <1>1, JudgedAtLeast DEF Places
<1>3. a \in AssetsOf(legs) => \E i \in Places(m, a) : m[i].amount = TotalOf(legs, a)
  BY MergedHas
<1> HIDE DEF m
<1>4. a \in AssetsOf(legs) => TotalOf(legs, a) <= Judged(m, names)
  BY <1>2, <1>3
<1>5. a \notin AssetsOf(legs) => TotalOf(legs, a) = 0
  BY TotalOfNone
<1>6. QED BY <1>1, <1>2, <1>4, <1>5 DEF m
-----------------------------------------------------------------------------
(* What an intent leads to the wallet's paying is in a form that can be    *)
(* totalled, and names every CAT as it is called on chain.                 *)
Settled(leg) == leg.asset \in Assets /\ Actual(leg.asset) = leg.asset /\ leg.amount \in Nat

IsSound(q) ==
  /\ q.intent \in Intents /\ Created(q) \in Nat
  /\ q.intent = "transfer" => q.asset \in Assets /\ q.amount \in Nat
  /\ q.intent = "offer_make" => q.offered \in LegList
  /\ q.intent = "offer_take" => q.offer \in OfferIds
  /\ q.intent \in DOMAIN Moves \cup {"option_exercise"} => q.ids \in Ids
  /\ q.intent = "option_exercise" => q.strikeLegs \in LegList
  /\ q.intent = "option_mint" => q.underlying \in LegSet /\ Settled(q.underlying)
  /\ q.intent = "bulk_send" => Settled(q) /\ q.addresses \in Ids
  /\ q.intent = "multi_send" =>
       Paid(q.payments) \in LegList /\ \A i \in DOMAIN q.payments : Settled(q.payments[i])

(* A wallet's records of strikes and offers are of the shapes of its RPC.  *)
IsWallet(w) ==
  /\ Fields(w, {"xch", "cats", "nfts", "dids", "options", "strikes", "offers"})
  /\ w.strikes \in [Options -> LegShape]
  /\ DOMAIN w.offers = OfferIds
  /\ \A o \in OfferIds : /\ Fields(w.offers[o], {"status", "maker", "taker"})
                         /\ w.offers[o].taker \in SideShape

-----------------------------------------------------------------------------
LEMMA RequestIs ==
  ASSUME NEW p \in RequestShape
  PROVE  /\ p.intent \in Intents /\ p.fee \in Int
         /\ p.intent = "transfer" =>
              p \in [intent : {"transfer"}, fee : Int, asset : STRING, amount : Int, to : STRING]
         /\ p.intent = "cat_issue" =>
              p \in [intent : {"cat_issue"}, fee : Int, name : STRING, amount : Int]
         /\ p.intent = "nft_mint" =>
              p \in [intent : {"nft_mint"}, fee : Int, did : STRING,
                     mints : Seq([royalty : Int, unknownField : BOOLEAN])]
         /\ p.intent = "offer_make" =>
              p \in [intent : {"offer_make"}, fee : Int, offered : Seq(LegShape),
                     requested : Seq(LegShape), receive : STRING]
         /\ p.intent = "offer_take" =>
              p \in [intent : {"offer_take"}, fee : Int, offer : OfferIds, give : {<<>>}, get : {<<>>}]
         /\ p.intent \in {"nft_assign_did"} =>
              p \in [intent : {"nft_assign_did"}, fee : Int, ids : Ids, did : STRING]
         /\ p.intent \in {"did_transfer", "option_transfer"} =>
              p \in [intent : {"did_transfer", "did_normalize", "option_transfer"},
                     fee : Int, ids : Ids, clawback : Int]
         /\ p.intent = "option_mint" =>
              p \in [intent : {"option_mint"}, fee : Int, underlying : LegShape,
                     strike : LegShape, expiration : Int]
         /\ p.intent = "option_exercise" =>
              p \in [intent : {"option_exercise"}, fee : Int, ids : Ids, strikeLegs : {<<>>}]
         /\ p.intent = "bulk_send" =>
              p \in [intent : {"bulk_send"}, fee : Int, asset : STRING, amount : Int, addresses : Ids]
         /\ p.intent = "multi_send" =>
              p \in [intent : {"multi_send"}, fee : Int, payments : Seq(PaymentShape)]
<1>1. p.intent \in Intents /\ p.fee \in Int
  BY DEF RequestShape, Intents, Transfers, Moves, FeeOnly, AlwaysQueued
<1>2. QED BY <1>1 DEF RequestShape

LEMMA NamedIs ==
  ASSUME SageIntentsAssumption, NEW x \in Assets
  PROVE  Named(x) \in Assets /\ Actual(Named(x)) = Named(x)
<1>1. CASE x \in DOMAIN Lower
  <2>1. x # "native" /\ x \notin DOMAIN Launcher /\ Lower[Lower[x]] = Lower[x]
    BY <1>1 DEF SageIntentsAssumption
  <2>2. Named(x) = Lower[x]
    BY <1>1, <2>1 DEF Named, AssetKind
  <2>3. Lower[x] \in Assets
    BY <1>1 DEF Assets, Cats
  <2>4. QED BY <2>1, <2>2, <2>3 DEF Actual
<1>2. CASE x \notin DOMAIN Lower
  <2>1. Named(x) = x
    BY <1>2 DEF Named, AssetKind
  <2>2. QED BY <1>2, <2>1 DEF Actual
<1>3. QED BY <1>1, <1>2

LEMMA OfferLegsAre ==
  ASSUME SageIntentsAssumption, NEW terms \in Terms, NEW legs \in OfferLegs(terms)
  PROVE  legs \in LegList
<1>1. /\ legs = [i \in DOMAIN terms |-> Leg(Named(terms[i].asset), terms[i].amount)]
      /\ \A i \in DOMAIN legs : legs[i].amount > 0
  BY DEF OfferLegs
<1>2. DOMAIN terms = 1 .. Len(terms) /\ Len(terms) \in Nat
  BY DEF Terms
<1>3. \A i \in 1 .. Len(terms) : terms[i].asset \in Assets /\ terms[i].amount \in Int
  <2>1. \A i \in 1 .. Len(terms) : terms[i] \in LegShape
    BY ElementOfSeq DEF Terms
  <2>2. QED BY <2>1 DEF LegShape, Assets
<1>4. \A i \in 1 .. Len(terms) : legs[i] = Leg(Named(terms[i].asset), terms[i].amount)
  BY <1>1, <1>2
<1>5. DOMAIN legs = 1 .. Len(terms) /\ legs = [i \in 1 .. Len(terms) |-> legs[i]]
  BY <1>1, <1>2
<1>6. ASSUME NEW i \in 1 .. Len(terms) PROVE legs[i] \in LegSet
  <2>1. Named(terms[i].asset) \in Assets
    BY <1>3, NamedIs
  <2> DEFINE name == Named(terms[i].asset)
  <2>2. legs[i] = Leg(name, terms[i].amount)
    BY <1>4
  <2> HIDE DEF name
  <2>3. legs[i].amount = terms[i].amount
    BY <2>2 DEF Leg
  <2>4. terms[i].amount \in Nat
    BY <1>1, <1>3, <1>5, <2>3
  <2>5. name \in Assets
    BY <2>1 DEF name
  <2>6. QED BY <2>2, <2>4, <2>5 DEF Leg, LegSet
<1>7. QED BY <1>2, <1>5, <1>6, LegListIs

LEMMA ResolvedAre ==
  ASSUME NEW legs \in LegList, NEW w, NEW it \in Resolved(legs, w)
  PROVE  it \in LegList
<1> DEFINE Refs == {a \in AssetsOf(legs) : AssetKind(a) = "nft"}
<1>1. it = [i \in DOMAIN legs |-> Leg(IF legs[i].asset \in Refs THEN Launcher[legs[i].asset]
                                       ELSE legs[i].asset, legs[i].amount)]
  BY DEF Resolved
<1>2. DOMAIN legs = 1 .. Len(legs) /\ Len(legs) \in Nat
  BY DEF LegList
<1>3. \A a \in Refs : Launcher[a] \in Assets
  <2>1. \A a : AssetKind(a) = "nft" => a \in DOMAIN Launcher
    BY DEF AssetKind
  <2>2. \A a \in DOMAIN Launcher : Launcher[a] \in Assets
    BY DEF Assets, Nfts
  <2>3. QED BY <2>1, <2>2
<1> HIDE DEF Refs
<1>4. DOMAIN it = 1 .. Len(legs) /\ it = [i \in 1 .. Len(legs) |-> it[i]]
  BY <1>1, <1>2
<1>5. ASSUME NEW i \in 1 .. Len(legs) PROVE it[i] \in LegSet
  <2>1. legs[i].asset \in Assets /\ legs[i].amount \in Nat
    BY <1>2, LegsHave
  <2>2. it[i] = Leg(IF legs[i].asset \in Refs THEN Launcher[legs[i].asset]
                    ELSE legs[i].asset, legs[i].amount)
    BY <1>1, <1>2
  <2>3. QED BY <1>3, <2>1, <2>2 DEF Leg, LegSet
<1>6. QED BY <1>2, <1>4, <1>5, LegListIs

(* What exercising options costs, merged, and the strikes themselves.      *)
StrikesOf(ids, w) == [i \in DOMAIN ids |-> w.strikes[ids[i]]]

LEMMA StrikesAre ==
  ASSUME NEW w, IsWallet(w), NEW ids \in Ids, ToSet(ids) \subseteq Options,
         NEW s \in StrikeLegs(ids, w)
  PROVE  StrikesOf(ids, w) \in LegList /\ s = Merge(StrikesOf(ids, w))
<1> DEFINE legs == StrikesOf(ids, w)
<1>1. DOMAIN ids = 1 .. Len(ids) /\ Len(ids) \in Nat
  BY DEF Ids
<1>2. \A i \in 1 .. Len(ids) : legs[i] = w.strikes[ids[i]] /\ ids[i] \in Options
  BY <1>1 DEF ToSet, StrikesOf
<1>3. DOMAIN legs = 1 .. Len(ids) /\ legs = [i \in 1 .. Len(ids) |-> legs[i]]
  BY <1>1 DEF StrikesOf
<1>4. /\ s = Merge([i \in DOMAIN legs |-> Leg(legs[i].asset, legs[i].amount)])
      /\ \A i \in DOMAIN ids : legs[i].asset \in Cats \cup {"native"} /\ legs[i].amount > 0
  BY Zenon DEF StrikeLegs, StrikesOf
<1> HIDE DEF legs
<1>5. ASSUME NEW i \in 1 .. Len(ids)
      PROVE  legs[i] \in LegSet /\ Leg(legs[i].asset, legs[i].amount) = legs[i]
  <2>1. legs[i] \in LegShape
    BY <1>2 DEF IsWallet
  <2>2. legs[i].asset \in Assets /\ legs[i].amount > 0
    BY <1>1, <1>4 DEF Assets
  <2>3. QED BY <2>1, <2>2 DEF LegShape, LegSet, Leg
<1>6. legs \in LegList
  BY <1>1, <1>3, <1>5, LegListIs
<1>7. [i \in DOMAIN legs |-> Leg(legs[i].asset, legs[i].amount)] = legs
  BY <1>3, <1>5
<1>8. QED BY <1>4, <1>6, <1>7 DEF legs

LEMMA FungibleIsSettled ==
  ASSUME SageIntentsAssumption, NEW asset \in Assets, NEW n \in Int, n > 0
  PROVE  Settled(Leg(Named(asset), n))
<1> DEFINE name == Named(asset)
<1>1. name \in Assets /\ Actual(name) = name
  BY NamedIs
<1> HIDE DEF name
<1>2. Settled(Leg(name, n))
  BY <1>1 DEF Settled, Leg
<1>3. QED BY <1>2 DEF name

(* Whatever is queued, for any request and any wallet, is sound.           *)
LEMMA OfferMakeIsSound ==
  ASSUME SageIntentsAssumption, NEW p \in RequestShape, p.intent = "offer_make",
         NEW w, NEW q \in Ask(p, w)
  PROVE  IsSound(q)
<1>1. p \in [intent : {"offer_make"}, fee : Int, offered : Seq(LegShape),
             requested : Seq(LegShape), receive : STRING]
  BY RequestIs
<1>2. \E ls \in OfferLegs(p.offered) : \E o \in Resolved(ls, w) : \E r : q = Offering(p, o, r)
  <2>1. q \in AskOfferMake(p, w)
    BY DEF Ask
  <2> DEFINE O == UNION {Resolved(ls, w) : ls \in OfferLegs(p.offered)}
             R == UNION {Resolved(ls, w) : ls \in OfferLegs(p.requested)}
  <2>2. AskOfferMake(p, w) = {Offering(p, sides[1], sides[2]) : sides \in O \X R}
    BY Zenon DEF AskOfferMake
  <2> HIDE DEF O, R
  <2>3. PICK o \in O, r \in R : q = Offering(p, o, r)
    BY <2>1, <2>2
  <2>4. \E ls \in OfferLegs(p.offered) : o \in Resolved(ls, w)
    BY DEF O
  <2>5. QED BY <2>3, <2>4
<1>3. p.offered \in Terms
  BY <1>1 DEF Terms
<1>4. PICK o \in LegList : \E r : q = Offering(p, o, r)
  BY <1>2, <1>3, OfferLegsAre, ResolvedAre
<1>5. q.intent = "offer_make" /\ q.offered = o
  BY <1>1, <1>4 DEF Offering
<1>6. QED BY <1>4, <1>5 DEF IsSound, Created, Intents, Moves

LEMMA OfferTakeIsSound ==
  ASSUME NEW p \in RequestShape, p.intent = "offer_take", NEW w, NEW q \in Ask(p, w)
  PROVE  IsSound(q)
<1>1. p \in [intent : {"offer_take"}, fee : Int, offer : OfferIds, give : {<<>>}, get : {<<>>}]
  BY RequestIs
<1>2. \A g, r : /\ Taking(p, g, r).intent = "offer_take"
                /\ Taking(p, g, r).offer \in OfferIds
  BY <1>1 DEF Taking
<1>3. q \in AskOfferTake(p, w)
  BY DEF Ask
<1>4. q.intent = "offer_take" /\ q.offer \in OfferIds
  BY <1>2, <1>3 DEF AskOfferTake
<1>5. QED BY <1>4 DEF IsSound, Created, Intents, Moves

LEMMA UnchangedAreSound ==
  ASSUME NEW p \in RequestShape, p.intent \in {"transfer", "offer_cancel"},
         NEW w, NEW q \in Ask(p, w)
  PROVE  IsSound(q)
<1>1. q = p
  BY DEF Ask, AskTransfer, AskOfferCancel
<1>2. p.intent = "transfer" => p.asset \in Assets /\ p.amount \in Nat
  <2> SUFFICES ASSUME p.intent = "transfer" PROVE p.asset \in Assets /\ p.amount \in Nat
    OBVIOUS
  <2>1. p \in [intent : {"transfer"}, fee : Int, asset : STRING, amount : Int, to : STRING]
    BY RequestIs
  <2>2. p.amount > 0
    BY DEF Ask, AskTransfer
  <2>3. QED BY <2>1, <2>2 DEF Assets
<1>3. QED BY <1>1, <1>2 DEF IsSound, Created, Intents, Moves, Transfers, AlwaysQueued

LEMMA ExerciseIsSound ==
  ASSUME SageIntentsAssumption, NEW p \in RequestShape, p.intent = "option_exercise",
         NEW w, IsWallet(w), NEW q \in Ask(p, w)
  PROVE  IsSound(q)
<1>1. p \in [intent : {"option_exercise"}, fee : Int, ids : Ids, strikeLegs : {<<>>}]
  BY RequestIs
<1>2. PICK s \in StrikeLegs(p.ids, w) : OptionIds(p) /\ q = [p EXCEPT !.strikeLegs = s]
  <2>1. q \in AskExercise(p, w)
    BY DEF Ask
  <2> DEFINE these == {x \in {p.ids} : Guards(p) /\ OptionExercise(p)}
             S == UNION {StrikeLegs(ids, w) : ids \in these}
  <2>2. AskExercise(p, w) = {[p EXCEPT !.strikeLegs = s] : s \in S}
    BY Zenon DEF AskExercise
  <2> HIDE DEF S
  <2>3. PICK s \in S : q = [p EXCEPT !.strikeLegs = s]
    BY <2>1, <2>2
  <2> HIDE DEF these
  <2>4. \E ids \in these : s \in StrikeLegs(ids, w)
    BY DEF S
  <2>5. s \in StrikeLegs(p.ids, w) /\ OptionIds(p)
    BY <2>4 DEF these, OptionExercise
  <2>6. QED BY <2>3, <2>5
<1>3. ToSet(p.ids) \subseteq Options /\ p.ids \in Ids
  BY <1>1, <1>2 DEF OptionIds, ListOf
<1>4. s \in LegList
  BY <1>2, <1>3, StrikesAre, MergedHas
<1>5. q.intent = "option_exercise" /\ q.ids = p.ids /\ q.strikeLegs = s
  BY <1>1, <1>2
<1>6. QED BY <1>3, <1>4, <1>5 DEF IsSound, Created, Intents, Moves, AlwaysQueued

LEMMA OthersAreSound ==
  ASSUME SageIntentsAssumption, NEW p \in RequestShape, NEW w, NEW q \in Ask(p, w),
         p.intent \notin {"transfer", "offer_make", "offer_take", "offer_cancel", "option_exercise"}
  PROVE  IsSound(q)
<1>1. Shaped(p) /\ q = Normalized(p)
  BY DEF Ask
<1>2. CASE p.intent = "option_mint"
  <2>1. p \in [intent : {"option_mint"}, fee : Int, underlying : LegShape,
               strike : LegShape, expiration : Int]
    BY <1>2, RequestIs
  <2>2. Fungible(p.underlying)
    BY <1>1, <1>2 DEF Shaped, OptionMint
  <2>3. p.underlying.asset \in Assets /\ p.underlying.amount \in Int /\ p.underlying.amount > 0
    BY <2>1, <2>2 DEF LegShape, Fungible, Assets
  <2>4. q.intent = "option_mint" /\ q.underlying = Leg(Named(p.underlying.asset), p.underlying.amount)
    BY <1>1, <1>2, <2>1 DEF Normalized, LegShape, Leg
  <2> DEFINE name == Named(p.underlying.asset)
             n == p.underlying.amount
  <2>5. Settled(Leg(name, n)) /\ n \in Nat
    BY <2>3, FungibleIsSettled
  <2> HIDE DEF name, n
  <2>6. Leg(name, n) \in LegSet
    BY <2>5 DEF Settled, Leg, LegSet
  <2>7. QED BY <2>4, <2>5, <2>6 DEF IsSound, Created, Intents, Moves, name, n
<1>3. CASE p.intent = "bulk_send"
  <2>1. p \in [intent : {"bulk_send"}, fee : Int, asset : STRING, amount : Int, addresses : Ids]
    BY <1>3, RequestIs
  <2>2. Fungible(p)
    BY <1>1, <1>3 DEF Shaped, BulkSend
  <2>3. p.asset \in Assets /\ p.amount \in Nat /\ p.addresses \in Ids
    BY <2>1, <2>2 DEF Fungible, Assets
  <2>4. /\ q.intent = "bulk_send" /\ q.asset = Named(p.asset) /\ q.amount = p.amount
        /\ q.addresses = p.addresses
    BY <1>1, <1>3, <2>1 DEF Normalized
  <2>5. Named(p.asset) \in Assets /\ Actual(Named(p.asset)) = Named(p.asset)
    BY <2>3, NamedIs
  <2>6. QED BY <2>3, <2>4, <2>5 DEF IsSound, Created, Settled, Intents, Moves
<1>4. CASE p.intent = "multi_send"
  <2>1. p \in [intent : {"multi_send"}, fee : Int, payments : Seq(PaymentShape)]
    BY <1>4, RequestIs
  <2> DEFINE asks == p.payments
             legs == q.payments
             paid == Paid(legs)
  <2>2. asks \in Seq(PaymentShape) /\ \A i \in DOMAIN asks : Fungible(asks[i])
    BY <1>1, <1>4, <2>1 DEF Shaped, MultiSend
  <2>3. /\ q.intent = "multi_send"
        /\ legs = [i \in DOMAIN asks |-> [asks[i] EXCEPT !.asset = Named(@)]]
    <3>1. q = [p EXCEPT !.payments = NamedLegs(p.payments)]
      BY <1>1, <1>4 DEF Normalized
    <3>2. q.intent = "multi_send" /\ q.payments = NamedLegs(p.payments)
      BY <2>1, <3>1
    <3>3. QED BY <3>2 DEF NamedLegs
  <2> HIDE DEF asks, legs
  <2>4. DOMAIN asks = 1 .. Len(asks) /\ Len(asks) \in Nat
    BY <2>2
  <2>5. \A i \in 1 .. Len(asks) : asks[i] \in PaymentShape
    BY <2>2, ElementOfSeq
  <2>6. /\ DOMAIN legs = 1 .. Len(asks) /\ DOMAIN paid = 1 .. Len(asks)
        /\ paid = [i \in 1 .. Len(asks) |-> paid[i]]
        /\ \A i \in 1 .. Len(asks) : paid[i] = Leg(legs[i].asset, legs[i].amount)
    <3>1. DOMAIN legs = 1 .. Len(asks)
      BY <2>3, <2>4
    <3>2. paid = [i \in 1 .. Len(asks) |-> Leg(legs[i].asset, legs[i].amount)]
      BY <3>1 DEF Paid
    <3> HIDE DEF paid
    <3>3. QED BY <3>1, <3>2
  <2> HIDE DEF paid
  <2>7. ASSUME NEW i \in 1 .. Len(asks) PROVE paid[i] \in LegSet /\ Settled(legs[i])
    <3> DEFINE asset == asks[i].asset
               n == asks[i].amount
               name == Named(asset)
    <3>1. asset \in Assets /\ n \in Int /\ n > 0
      BY <2>2, <2>4, <2>5 DEF PaymentShape, Fungible, Assets
    <3>2. legs[i].asset = name /\ legs[i].amount = n
      BY <2>3, <2>4, <2>5 DEF PaymentShape
    <3> HIDE DEF asset, n
    <3>3. name \in Assets /\ Actual(name) = name /\ n \in Nat
      BY <3>1, NamedIs
    <3> HIDE DEF name
    <3>4. QED BY <2>6, <3>2, <3>3 DEF Settled, Leg, LegSet
  <2>8. paid \in LegList
    BY <2>4, <2>6, <2>7, LegListIs
  <2>9. Created(q) = 0
    <3>1. q.intent = "multi_send"
      BY <2>3
    <3>2. QED BY <3>1 DEF Created
  <2>10. Paid(q.payments) \in LegList
    BY <2>8 DEF paid, legs
  <2>11. \A i \in DOMAIN q.payments : Settled(q.payments[i])
    BY <2>6, <2>7 DEF legs
  <2>12. q.intent = "multi_send" /\ q.intent \in Intents \ DOMAIN Moves
    BY <2>3 DEF Intents, Moves
  <2>13. QED BY <2>9, <2>10, <2>11, <2>12 DEF IsSound
<1>5. CASE p.intent \notin {"option_mint", "bulk_send", "multi_send"}
  <2>1. /\ q.intent = p.intent
        /\ p.intent \in DOMAIN Moves \cup {"cat_issue", "nft_mint"} => q = p
    BY <1>1, <1>5 DEF Normalized, Moves
  <2>2. p.intent \in DOMAIN Moves => p.ids \in Ids
    <3>1. DOMAIN Moves = {"option_transfer", "did_transfer", "nft_assign_did"}
      BY DEF Moves
    <3>2. QED BY <3>1, RequestIs
  <2>3. q.intent \in Intents
    BY <2>1, RequestIs
  <2>4. Created(q) \in Nat
    <3>1. CASE p.intent = "cat_issue"
      <4>1. p \in [intent : {"cat_issue"}, fee : Int, name : STRING, amount : Int]
        BY <3>1, RequestIs
      <4>2. p.amount > 0
        BY <1>1, <3>1 DEF Shaped, CatIssue
      <4>3. p.amount \in Nat
        BY <4>1, <4>2
      <4>4. QED BY <2>1, <3>1, <4>3 DEF Created
    <3>2. CASE p.intent = "nft_mint"
      <4>1. Len(p.mints) \in Nat
        BY <3>2, RequestIs
      <4>2. QED BY <2>1, <3>2, <4>1 DEF Created
    <3>3. CASE p.intent \notin {"cat_issue", "nft_mint"}
      BY <2>1, <3>3 DEF Created
    <3>4. QED BY <3>1, <3>2, <3>3
  <2>5. QED BY <1>5, <2>1, <2>2, <2>3, <2>4 DEF IsSound
<1>6. QED BY <1>2, <1>3, <1>4, <1>5
-----------------------------------------------------------------------------
(* What leaves the wallet, intent by intent.                               *)

LEMMA SinglesAre == ASSUME NEW ids \in Ids PROVE Singles(ids) \in LegList
<1>1. DOMAIN ids = 1 .. Len(ids) /\ Len(ids) \in Nat
  BY DEF Ids
<1>2. \A i \in 1 .. Len(ids) : ids[i] \in Assets
  <2>1. \A i \in 1 .. Len(ids) : ids[i] \in STRING
    BY ElementOfSeq DEF Ids
  <2>2. QED BY <2>1 DEF Assets
<1>3. \A i \in 1 .. Len(ids) : Singles(ids)[i] = Leg(ids[i], 1)
  BY <1>1 DEF Singles
<1>4. /\ DOMAIN Singles(ids) = 1 .. Len(ids)
      /\ Singles(ids) = [i \in 1 .. Len(ids) |-> Singles(ids)[i]]
  BY <1>1 DEF Singles
<1>5. \A i \in 1 .. Len(ids) : Singles(ids)[i] \in LegSet
  BY <1>2, <1>3, LegIs
<1>6. QED BY <1>1, <1>4, <1>5, LegListIs

LEMMA SettledAreThemselves ==
  ASSUME NEW payments, \A i \in DOMAIN payments : Settled(payments[i])
  PROVE  [i \in DOMAIN payments |-> Leg(Actual(payments[i].asset), payments[i].amount)]
           = Paid(payments)
BY DEF Settled, Paid

LEMMA EqualLegsTotal ==
  ASSUME NEW to \in Ids, NEW x \in Assets, NEW n \in Nat, NEW a,
         NEW legs, legs = [i \in DOMAIN to |-> Leg(x, n)]
  PROVE  /\ legs \in LegList
         /\ Len(to) * n \in Nat
         /\ TotalOf(legs, a) = IF a = x THEN Len(to) * n ELSE 0
<1>1. DOMAIN to = 1 .. Len(to) /\ Len(to) \in Nat
  BY DEF Ids
<1>2. /\ DOMAIN legs = 1 .. Len(to) /\ legs = [i \in 1 .. Len(to) |-> legs[i]]
      /\ \A i \in 1 .. Len(to) : legs[i] = Leg(x, n)
  BY <1>1
<1>3. Leg(x, n) \in LegSet /\ Leg(x, n).asset = x /\ Leg(x, n).amount = n
  BY LegIs
<1>4. legs \in LegList
  BY <1>1, <1>2, <1>3, LegListIs
<1>5. Len(to) * n \in Nat
  BY <1>1
<1>6. CASE a = x
  <2>1. Places(legs, a) = 1 .. Len(to)
    BY <1>2, <1>3, <1>6 DEF Places
  <2>2. AmountsAt(legs, a) = [i \in 1 .. Len(to) |-> n]
    BY <1>2, <1>3, <2>1 DEF AmountsAt
  <2>3. IsFiniteSet(1 .. Len(to)) /\ Cardinality(1 .. Len(to)) = Len(to)
    <3> DEFINE k == Len(to)
    <3>1. k \in Nat
      BY <1>1
    <3> HIDE DEF k
    <3>2. /\ IsFiniteSet(1 .. k)
          /\ Cardinality(1 .. k) = IF 1 > k THEN 0 ELSE k - 1 + 1
      BY <3>1, FS_Interval
    <3>3. QED BY <3>1, <3>2 DEF k
  <2>4. SumFunction([i \in 1 .. Len(to) |-> n]) = Cardinality(1 .. Len(to)) * n
    BY <2>3, SumOfSame
  <2>5. TotalOf(legs, a) = Len(to) * n
    BY <1>4, <2>2, <2>3, <2>4, TotalIsSum
  <2>6. QED BY <1>4, <1>5, <1>6, <2>5
<1>7. CASE a # x
  <2>1. a \notin AssetsOf(legs)
    BY <1>2, <1>3, <1>7 DEF AssetsOf
  <2>2. TotalOf(legs, a) = 0
    BY <1>4, <2>1, TotalOfNone
  <2>3. QED BY <1>4, <1>5, <1>7, <2>2
<1>8. QED BY <1>6, <1>7

(* Merged legs judge what leaves when, asset by asset, they total as much. *)
LEMMA MergedCover ==
  ASSUME NEW legs \in LegList, NEW out, NEW a, NEW names, a \in names, NEW more \in Nat,
         TotalOf(out, a) \in Nat, TotalOf(out, a) <= TotalOf(legs, a) + more
  PROVE  TotalOf(out, a) <= Judged(Merge(legs), names) + more
<1>1. /\ Merge(legs) \in LegList /\ TotalOf(legs, a) \in Nat
      /\ TotalOf(legs, a) <= Judged(Merge(legs), names)
  BY MergedIsJudged, TotalIsSum
<1>2. Judged(Merge(legs), names) \in Nat
  BY <1>1, JudgedAtLeast
<1>3. QED BY <1>1, <1>2

(* The strikes at the time of the exercise are those the intent was queued *)
(* with, so the queued legs total at least as much.                        *)
LEMMA StrikesWereJudged ==
  ASSUME NEW w, IsWallet(w), NEW q, q.ids \in Ids, q.strikeLegs \in LegList,
         ExerciseRuns(q, w), NEW a
  PROVE  /\ StrikesOf(q.ids, w) \in LegList
         /\ TotalOf(StrikesOf(q.ids, w), a) <= TotalOf(q.strikeLegs, a)
<1> DEFINE legs == StrikesOf(q.ids, w)
           old == q.strikeLegs
<1>1. PICK now \in StrikeLegs(q.ids, w) : ToSet(now) = ToSet(q.strikeLegs)
  BY DEF ExerciseRuns
<1>2. ToSet(q.ids) \subseteq Options
  BY DEF ExerciseRuns, OptionIds, ListOf
<1>3. legs \in LegList /\ now = Merge(legs)
  BY <1>1, <1>2, StrikesAre
<1>4. TotalOf(legs, a) \in Nat /\ TotalOf(old, a) \in Nat
  BY <1>3, TotalIsSum
<1> HIDE DEF legs, old
<1>5. CASE a \in AssetsOf(legs)
  <2>1. PICK i \in DOMAIN now : now[i].asset = a /\ now[i].amount = TotalOf(legs, a)
    BY <1>3, <1>5, MergedHas DEF Places
  <2>2. now[i] \in ToSet(old)
    BY <1>1, <2>1 DEF ToSet, old
  <2>3. PICK j \in DOMAIN old : old[j] = now[i]
    BY <2>2 DEF ToSet
  <2> DEFINE f == AmountsAt(old, a)
  <2>4. j \in Places(old, a) /\ f[j] = TotalOf(legs, a)
    BY <2>1, <2>3 DEF Places, AmountsAt
  <2>5. Summable(f) /\ DOMAIN f = Places(old, a) /\ TotalOf(old, a) = SumFunction(f)
    BY TotalIsSum DEF old
  <2> HIDE DEF f
  <2>6. f[j] <= SumFunctionOnSet(f, DOMAIN f)
    BY <2>4, <2>5, TermAtMostSum DEF Summable
  <2>7. SumFunction(f) = SumFunctionOnSet(f, DOMAIN f)
    BY DEF SumFunction
  <2>8. QED BY <1>3, <2>4, <2>5, <2>6, <2>7 DEF legs, old
<1>6. CASE a \notin AssetsOf(legs)
  <2>1. TotalOf(legs, a) = 0
    BY <1>3, <1>6, TotalOfNone
  <2>2. QED BY <1>3, <1>4, <2>1 DEF legs, old
<1>7. QED BY <1>5, <1>6

LEMMA TakenAre ==
  ASSUME NEW w, IsWallet(w), NEW q, TakeRuns(q, w), q.offer \in OfferIds
  PROVE  LET taker == w.offers[q.offer].taker
         IN  /\ q.give = [i \in DOMAIN taker |-> Leg(taker[i].asset, taker[i].amount + taker[i].royalty)]
             /\ q.give \in LegList
<1> DEFINE taker == w.offers[q.offer].taker
           legs == [i \in DOMAIN taker |-> Leg(taker[i].asset, taker[i].amount + taker[i].royalty)]
<1>1. q.give \in SummaryLegs(taker, "taker")
  BY DEF TakeRuns
<1>2. taker \in SideShape
  BY DEF IsWallet
<1> HIDE DEF taker
<1>3. /\ q.give = legs
      /\ \A i \in DOMAIN taker : legs[i].amount > 0
  BY <1>1 DEF SummaryLegs
<1>4. DOMAIN taker = 1 .. Len(taker) /\ Len(taker) \in Nat
  BY <1>2 DEF SideShape
<1>5. \A i \in 1 .. Len(taker) :
        taker[i].asset \in Assets /\ taker[i].amount \in Int /\ taker[i].royalty \in Int
  <2> DEFINE R == [asset : STRING, amount : Int, royalty : Int, kind : STRING]
  <2>1. \A r \in R : r.asset \in Assets /\ r.amount \in Int /\ r.royalty \in Int
    BY DEF Assets
  <2>2. taker \in Seq(R)
    BY <1>2 DEF SideShape
  <2> HIDE DEF R
  <2>3. \A i \in 1 .. Len(taker) : taker[i] \in R
    BY <2>2, ElementOfSeq
  <2>4. QED BY <2>1, <2>3
<1>6. ASSUME NEW i \in 1 .. Len(taker) PROVE legs[i] \in LegSet
  <2> DEFINE x == taker[i].asset
             n == taker[i].amount + taker[i].royalty
  <2>1. legs[i] = Leg(x, n) /\ legs[i].amount > 0
    BY <1>3, <1>4
  <2>2. x \in Assets /\ n \in Int
    BY <1>5
  <2> HIDE DEF x, n, legs
  <2>3. n > 0
    BY <2>1 DEF Leg
  <2>4. QED BY <2>1, <2>2, <2>3 DEF Leg, LegSet
<1>7. DOMAIN legs = 1 .. Len(taker) /\ legs = [i \in 1 .. Len(taker) |-> legs[i]]
  BY <1>4
<1> HIDE DEF legs
<1>8. legs \in LegList
  BY <1>4, <1>6, <1>7, LegListIs
<1>9. QED BY <1>3, <1>8 DEF legs, taker

(* Of every asset, no more leaves the wallet than one leg of the approved  *)
(* intent was judged at, with the XCH that no leg counts on top.           *)
Within(out, q) ==
  \A a \in AssetsOf(out) :
    TotalOf(out, a) <= Judged(Legs(q), Spellings(a)) + UncountedXch(q, a)

LEMMA UncountedIsNat ==
  ASSUME SageIntentsAssumption, NEW q, Created(q) \in Nat, NEW a,
         q.intent = "offer_cancel" => q.fee \in Nat
  PROVE  UncountedXch(q, a) \in Nat
BY DEF SageIntentsAssumption, UncountedXch

LEMMA MergedAndMoreAreWithin ==
  ASSUME NEW q, NEW legs \in LegList, Legs(q) = Merge(legs), NEW out \in LegList,
         \A a : /\ UncountedXch(q, a) \in Nat
               /\ TotalOf(out, a) <= TotalOf(legs, a) + UncountedXch(q, a)
  PROVE  Within(out, q)
<1> SUFFICES ASSUME NEW a \in AssetsOf(out)
             PROVE  TotalOf(out, a) <= Judged(Legs(q), Spellings(a)) + UncountedXch(q, a)
  BY DEF Within
<1> DEFINE names == Spellings(a)
           more == UncountedXch(q, a)
<1>1. TotalOf(out, a) \in Nat /\ a \in names
  BY TotalIsSum DEF Spellings
<1>2. more \in Nat /\ TotalOf(out, a) <= TotalOf(legs, a) + more
  OBVIOUS
<1> HIDE DEF names, more
<1>3. QED BY <1>1, <1>2, MergedCover DEF names, more

LEMMA MergedAreWithin ==
  ASSUME NEW q, NEW legs \in LegList, Legs(q) = Merge(legs), NEW out \in LegList,
         \A a : UncountedXch(q, a) \in Nat /\ TotalOf(out, a) <= TotalOf(legs, a)
  PROVE  Within(out, q)
<1>1. ASSUME NEW a PROVE TotalOf(out, a) <= TotalOf(legs, a) + UncountedXch(q, a)
  <2>1. /\ TotalOf(out, a) \in Nat /\ TotalOf(legs, a) \in Nat
        /\ UncountedXch(q, a) \in Nat /\ TotalOf(out, a) <= TotalOf(legs, a)
    BY TotalIsSum
  <2>2. QED BY <2>1
<1>2. QED BY <1>1, MergedAndMoreAreWithin

(* A transfer is judged as it was spelled, and leaves as the chain has it. *)
LEMMA TransferIsWithin ==
  ASSUME SageIntentsAssumption, NEW w, NEW q, IsSound(q), q.intent = "transfer"
  PROVE  Within(Outgoing(q, w), q)
<1> DEFINE x == Actual(q.asset)
           n == q.amount
           sent == <<Leg(x, n)>>
           fee == FeeLeg(ConfiguredFee)
           judged == <<Leg(q.asset, n)>>
<1>1. q.asset \in Assets /\ n \in Nat /\ x \in Assets /\ ConfiguredFee \in Nat
  BY DEF IsSound, Actual, Assets, Cats, SageIntentsAssumption
<1>2. Outgoing(q, w) = sent \o fee /\ Legs(q) = judged
  BY DEF Outgoing, Legs, Moves, FeeOnly
<1> SUFFICES ASSUME NEW a
             PROVE  TotalOf(sent \o fee, a) <= Judged(judged, Spellings(a)) + UncountedXch(q, a)
  BY <1>2 DEF Within
<1>3. UncountedXch(q, a) = IF a = "native" THEN ConfiguredFee ELSE 0
  BY DEF UncountedXch
<1>4. judged \in LegList /\ sent \in LegList /\ fee \in LegList
  BY <1>1, TotalOfOne, TotalOfFee
<1>5. /\ Judged(judged, Spellings(a)) \in Nat
      /\ a = x => n <= Judged(judged, Spellings(a))
  <2>1. 1 \in DOMAIN judged /\ judged[1].asset = q.asset /\ judged[1].amount = n
    BY DEF Leg
  <2>2. a = x => q.asset \in Spellings(a)
    BY DEF Spellings, Actual
  <2> HIDE DEF judged, x, n
  <2>3. QED BY <1>4, <2>1, <2>2, JudgedAtLeast
<1>6. TotalOf(sent \o fee, a) = (IF a = x THEN n ELSE 0) + (IF a = "native" THEN ConfiguredFee ELSE 0)
  <2>1. TotalOf(sent, a) = IF a = x THEN n ELSE 0
    BY <1>1, TotalOfOne
  <2>2. TotalOf(fee, a) = IF a = "native" THEN ConfiguredFee ELSE 0
    BY <1>1, TotalOfFee
  <2> HIDE DEF sent, fee, x, n
  <2>3. QED BY <1>4, <2>1, <2>2, TotalOfBoth
<1> HIDE DEF judged, sent, fee, x, n
<1>7. QED BY <1>1, <1>3, <1>5, <1>6

LEMMA RunIsWithin ==
  ASSUME SageIntentsAssumption, NEW w, IsWallet(w), NEW q, IsSound(q), Runs(q, w),
         q.intent # "transfer"
  PROVE  Within(Outgoing(q, w), q)
<1> DEFINE fee == FeeLeg(q.fee)
           always == <<Leg("native", q.fee)>>
           made == FeeLeg(q.fee + Created(q))
<1>1. q.fee \in Nat
  BY DEF Runs, Guards, SageIntentsAssumption
<1>u. \A a : UncountedXch(q, a) \in Nat
  BY <1>1, UncountedIsNat DEF IsSound
<1>2. /\ fee \in LegList /\ always \in LegList
      /\ \A a : /\ TotalOf(fee, a) = IF a = "native" THEN q.fee ELSE 0
               /\ TotalOf(always, a) = TotalOf(fee, a)
               /\ TotalOf(fee, a) \in Nat
  <2>1. "native" \in Assets
    BY DEF Assets
  <2>2. QED BY <1>1, <2>1, TotalOfFee, TotalOfOne
<1> HIDE DEF fee, always
<1>m. /\ made \in LegList
      /\ \A a : TotalOf(made, a) = IF a = "native" THEN q.fee + Created(q) ELSE 0
  <2> DEFINE n == q.fee + Created(q)
  <2>1. n \in Nat
    BY <1>1 DEF IsSound
  <2> HIDE DEF n
  <2>2. FeeLeg(n) \in LegList /\ \A a : TotalOf(FeeLeg(n), a) = IF a = "native" THEN n ELSE 0
    BY <2>1, TotalOfFee
  <2>3. QED BY <2>2 DEF n
<1> HIDE DEF made
<1>3. CASE q.intent = "offer_make"
  <2>1. q.offered \in LegList
    BY <1>3 DEF IsSound
  <2>2. Outgoing(q, w) = q.offered \o fee /\ Legs(q) = Merge(q.offered \o fee)
    BY <1>3 DEF Outgoing, Legs, fee, Moves, FeeOnly
  <2> DEFINE legs == q.offered \o fee
  <2>3. legs \in LegList
    BY <1>2, <2>1, TotalOfBoth
  <2> HIDE DEF legs
  <2>4. \A a : TotalOf(legs, a) <= TotalOf(legs, a)
    BY <2>3, TotalIsSum
  <2>5. QED BY <1>u, <2>2, <2>3, <2>4, MergedAreWithin DEF legs
<1>4. CASE q.intent = "offer_take"
  <2> DEFINE taker == w.offers[q.offer].taker
  <2>1. TakeRuns(q, w) /\ q.offer \in OfferIds
    BY <1>4 DEF Runs, IsSound
  <2>2. /\ q.give = [i \in DOMAIN taker |-> Leg(taker[i].asset, taker[i].amount + taker[i].royalty)]
        /\ q.give \in LegList
    BY <2>1, TakenAre
  <2>3. Outgoing(q, w) = q.give \o fee /\ Legs(q) = Merge(q.give \o fee)
    BY <1>4, <2>2 DEF Outgoing, Legs, fee, Moves, FeeOnly
  <2> DEFINE legs == q.give \o fee
  <2>4. legs \in LegList
    BY <1>2, <2>2, TotalOfBoth
  <2> HIDE DEF legs
  <2>5. \A a : TotalOf(legs, a) <= TotalOf(legs, a)
    BY <2>4, TotalIsSum
  <2>6. QED BY <1>u, <2>3, <2>4, <2>5, MergedAreWithin DEF legs
<1>5. CASE q.intent = "option_exercise"
  <2> DEFINE strikes == StrikesOf(q.ids, w)
             singles == Singles(q.ids)
             old == q.strikeLegs
  <2>1. q.ids \in Ids /\ old \in LegList /\ singles \in LegList
    BY <1>5, SinglesAre DEF IsSound
  <2>2. ExerciseRuns(q, w)
    BY <1>5 DEF Runs
  <2>3. strikes \in LegList /\ \A a : TotalOf(strikes, a) <= TotalOf(old, a)
    BY <2>1, <2>2, StrikesWereJudged
  <2>4. Outgoing(q, w) = (strikes \o singles) \o fee /\ Legs(q) = Merge((fee \o old) \o singles)
    BY <1>5 DEF Outgoing, Legs, fee, StrikesOf, Moves, FeeOnly
  <2> HIDE DEF strikes, singles, old
  <2>5. /\ strikes \o singles \in LegList /\ (strikes \o singles) \o fee \in LegList
        /\ fee \o old \in LegList /\ (fee \o old) \o singles \in LegList
    BY <1>2, <2>1, <2>3, TotalOfBoth
  <2>6. ASSUME NEW a
        PROVE  TotalOf((strikes \o singles) \o fee, a) <= TotalOf((fee \o old) \o singles, a)
    <3>1. TotalOf((strikes \o singles) \o fee, a) = TotalOf(strikes \o singles, a) + TotalOf(fee, a)
      BY <1>2, <2>5, TotalOfBoth
    <3>2. TotalOf(strikes \o singles, a) = TotalOf(strikes, a) + TotalOf(singles, a)
      BY <2>1, <2>3, TotalOfBoth
    <3>3. TotalOf((fee \o old) \o singles, a) = TotalOf(fee \o old, a) + TotalOf(singles, a)
      BY <2>1, <2>5, TotalOfBoth
    <3>4. TotalOf(fee \o old, a) = TotalOf(fee, a) + TotalOf(old, a)
      BY <1>2, <2>1, TotalOfBoth
    <3>5. /\ TotalOf(strikes, a) \in Nat /\ TotalOf(singles, a) \in Nat
          /\ TotalOf(fee, a) \in Nat /\ TotalOf(old, a) \in Nat
          /\ TotalOf(strikes, a) <= TotalOf(old, a)
      BY <1>2, <2>1, <2>3, TotalIsSum
    <3>6. QED BY <3>1, <3>2, <3>3, <3>4, <3>5
  <2>7. QED BY <1>u, <2>4, <2>5, <2>6, MergedAreWithin
<1>6. CASE q.intent \in DOMAIN Moves
  <2> DEFINE singles == Singles(q.ids)
  <2>1. DOMAIN Moves = {"option_transfer", "did_transfer", "nft_assign_did"}
    BY DEF Moves
  <2>2. singles \in LegList
    BY <1>6, SinglesAre DEF IsSound
  <2>3. Outgoing(q, w) = singles \o fee /\ Legs(q) = Merge(fee \o singles)
    BY <1>6, <2>1 DEF Outgoing, Legs, fee, FeeOnly
  <2> HIDE DEF singles
  <2>4. singles \o fee \in LegList /\ fee \o singles \in LegList
    BY <1>2, <2>2, TotalOfBoth
  <2>5. ASSUME NEW a PROVE TotalOf(singles \o fee, a) <= TotalOf(fee \o singles, a)
    <3>1. /\ TotalOf(singles \o fee, a) = TotalOf(singles, a) + TotalOf(fee, a)
          /\ TotalOf(fee \o singles, a) = TotalOf(fee, a) + TotalOf(singles, a)
          /\ TotalOf(singles, a) \in Nat /\ TotalOf(fee, a) \in Nat
      BY <1>2, <2>2, TotalOfBoth, TotalIsSum
    <3>2. QED BY <3>1
  <2>6. QED BY <1>u, <2>3, <2>4, <2>5, MergedAreWithin
<1>7. CASE q.intent \in {"option_mint", "bulk_send", "multi_send"}
  <2>1. ASSUME NEW legs \in LegList, NEW judged \in LegList, NEW rest \in LegList,
               \A a : /\ TotalOf(legs, a) = TotalOf(judged, a)
                     /\ TotalOf(rest, a) <= TotalOf(fee, a) + UncountedXch(q, a),
               Outgoing(q, w) = legs \o rest,
               Legs(q) \in {Merge(judged \o always), Merge(always \o judged)}
        PROVE  Within(Outgoing(q, w), q)
    <3>1. legs \o rest \in LegList /\ judged \o always \in LegList /\ always \o judged \in LegList
      BY <1>2, TotalOfBoth
    <3>2. ASSUME NEW a
          PROVE  /\ TotalOf(legs \o rest, a) <= TotalOf(judged \o always, a) + UncountedXch(q, a)
                 /\ TotalOf(legs \o rest, a) <= TotalOf(always \o judged, a) + UncountedXch(q, a)
      <4>1. /\ TotalOf(legs \o rest, a) = TotalOf(legs, a) + TotalOf(rest, a)
            /\ TotalOf(judged \o always, a) = TotalOf(judged, a) + TotalOf(always, a)
            /\ TotalOf(always \o judged, a) = TotalOf(always, a) + TotalOf(judged, a)
        BY <1>2, TotalOfBoth
      <4>2. /\ TotalOf(legs, a) = TotalOf(judged, a) /\ TotalOf(always, a) = TotalOf(fee, a)
            /\ TotalOf(rest, a) <= TotalOf(fee, a) + UncountedXch(q, a)
            /\ TotalOf(judged, a) \in Nat /\ TotalOf(fee, a) \in Nat
            /\ TotalOf(rest, a) \in Nat /\ UncountedXch(q, a) \in Nat
        BY <1>2, <1>u, <2>1, TotalIsSum
      <4>3. QED BY <4>1, <4>2
    <3>3. QED BY <1>u, <2>1, <3>1, <3>2, MergedAndMoreAreWithin
  <2>f. \A a : TotalOf(fee, a) <= TotalOf(fee, a) + UncountedXch(q, a)
    BY <1>2, <1>u
  <2>2. CASE q.intent = "option_mint"
    <3> DEFINE legs == <<q.underlying>>
    <3>1. q.underlying \in LegSet /\ Settled(q.underlying)
      BY <2>2 DEF IsSound
    <3>2. legs \in LegList
      BY <3>1 DEF LegList
    <3>3. /\ Leg(Actual(q.underlying.asset), q.underlying.amount) = q.underlying
      BY <3>1 DEF Settled, LegSet, Leg
    <3>4. Outgoing(q, w) = legs \o made /\ Legs(q) = Merge(always \o legs)
      BY <2>2, <3>3 DEF Outgoing, Legs, made, always, Moves, FeeOnly
    <3> HIDE DEF legs
    <3>5. ASSUME NEW a PROVE TotalOf(made, a) <= TotalOf(fee, a) + UncountedXch(q, a)
      <4>1. UncountedXch(q, a) = IF a = "native" THEN Created(q) ELSE 0
        BY <2>2 DEF UncountedXch
      <4>2. QED BY <1>1, <1>2, <1>m, <4>1 DEF IsSound
    <3>6. QED BY <1>m, <2>1, <3>2, <3>4, <3>5
  <2>3. CASE q.intent = "multi_send"
    <3> DEFINE legs == Paid(q.payments)
    <3>1. legs \in LegList /\ \A i \in DOMAIN q.payments : Settled(q.payments[i])
      BY <2>3 DEF IsSound
    <3> HIDE DEF legs
    <3>2. [i \in DOMAIN q.payments |-> Leg(Actual(q.payments[i].asset), q.payments[i].amount)]
            = legs
      BY <3>1, SettledAreThemselves DEF legs
    <3>3. Outgoing(q, w) = legs \o fee /\ Legs(q) = Merge(legs \o always)
      BY <2>3, <3>2 DEF Outgoing, Legs, fee, always, legs, Moves, FeeOnly
    <3>4. QED BY <1>2, <2>1, <2>f, <3>1, <3>3
  <2>4. CASE q.intent = "bulk_send"
    <3> DEFINE to == q.addresses
               x == q.asset
               n == q.amount
               sum == Len(to) * n
               legs == [i \in DOMAIN to |-> Leg(x, n)]
               judged == <<Leg(x, sum)>>
    <3>1. to \in Ids /\ x \in Assets /\ n \in Nat /\ Actual(x) = x
      BY <2>4 DEF IsSound, Settled
    <3>2. Outgoing(q, w) = legs \o fee /\ Legs(q) = Merge(judged \o always)
      BY <2>4, <3>1 DEF Outgoing, Legs, fee, always, Moves, FeeOnly
    <3> HIDE DEF to, x, n
    <3>3. /\ legs \in LegList /\ sum \in Nat
          /\ \A a : TotalOf(legs, a) = IF a = x THEN sum ELSE 0
      <4>1. legs = [i \in DOMAIN to |-> Leg(x, n)]
        OBVIOUS
      <4> HIDE DEF legs
      <4>2. QED BY <3>1, <4>1, EqualLegsTotal
    <3> HIDE DEF sum
    <3>4. /\ judged \in LegList
          /\ \A a : TotalOf(judged, a) = IF a = x THEN sum ELSE 0
      BY <3>1, <3>3, TotalOfOne
    <3> HIDE DEF legs, judged
    <3>5. QED BY <1>2, <2>1, <2>f, <3>2, <3>3, <3>4
  <2>5. QED BY <1>7, <2>2, <2>3, <2>4
<1>8. CASE q.intent \in FeeOnly \cup {"offer_cancel"}
  <2>1. Outgoing(q, w) = made
    BY <1>8 DEF Outgoing, made, FeeOnly, Moves
  <2> SUFFICES ASSUME NEW a
               PROVE  TotalOf(made, a) <= Judged(Legs(q), Spellings(a)) + UncountedXch(q, a)
    BY <2>1 DEF Within
  <2>2. CASE q.intent = "offer_cancel"
    <3>1. Legs(q) = <<>>
      BY <2>2 DEF Legs, Moves, FeeOnly
    <3>2. Judged(<<>>, Spellings(a)) \in Nat
      <4>1. <<>> \in LegList
        BY DEF LegList
      <4>2. QED BY <4>1, JudgedAtLeast
    <3>3. Created(q) = 0 /\ UncountedXch(q, a) = IF a = "native" THEN q.fee ELSE 0
      BY <2>2 DEF UncountedXch, Created
    <3>4. QED BY <1>1, <1>m, <3>1, <3>2, <3>3
  <2>3. CASE q.intent \in FeeOnly
    <3>1. /\ Legs(q) = always
          /\ UncountedXch(q, a) = IF a = "native" THEN Created(q) ELSE 0
      BY <2>3 DEF Legs, always, FeeOnly, Moves, UncountedXch
    <3>2. /\ Judged(always, Spellings(a)) \in Nat
          /\ a = "native" => q.fee <= Judged(always, Spellings(a))
      <4>1. 1 \in DOMAIN always /\ always[1].asset = "native" /\ always[1].amount = q.fee
        BY DEF always, Leg
      <4>2. "native" \in Spellings("native")
        BY DEF Spellings
      <4>3. QED BY <1>2, <4>1, <4>2, JudgedAtLeast
    <3>3. QED BY <1>1, <1>m, <3>1, <3>2 DEF IsSound
  <2>4. QED BY <1>8, <2>2, <2>3
<1>9. q.intent \in DOMAIN Moves \cup FeeOnly \cup
        {"offer_make", "offer_take", "option_exercise", "option_mint", "bulk_send",
         "multi_send", "offer_cancel"}
  BY DEF IsSound, Intents, Transfers, AlwaysQueued, Moves
<1>10. QED BY <1>3, <1>4, <1>5, <1>6, <1>7, <1>8, <1>9
-----------------------------------------------------------------------------
LEMMA AskIsSound ==
  ASSUME SageIntentsAssumption, SageWalletAssumption, NEW p \in Bodies,
         NEW w, IsWallet(w), NEW q \in Ask(p, w)
  PROVE  IsSound(q)
<1>1. p \in RequestShape
  BY DEF SageWalletAssumption
<1>2. QED
  BY <1>1, OfferMakeIsSound, OfferTakeIsSound, UnchangedAreSound, ExerciseIsSound, OthersAreSound

AllAreSound ==
  /\ \A item \in queue : IsSound(item.intent)
  /\ pc # "idle" => IsSound(job.p)

AllAreWithin ==
  \A t \in DOMAIN txs : Within(txs[t].out, txs[t].intent)

JudgedInv == IsWallet(wallet) /\ AllAreSound /\ AllAreWithin

LEMMA HoldingsAreWallets ==
  ASSUME NEW w \in WalletShape PROVE IsWallet(w)
<1> DEFINE O == [status : STRING, maker : SideShape, taker : SideShape]
<1>1. /\ w.strikes \in [Options -> LegShape] /\ w.offers \in [OfferIds -> O]
      /\ Fields(w, {"xch", "cats", "nfts", "dids", "options", "strikes", "offers"})
  BY DEF WalletShape, Fields
<1>2. \A o \in O : Fields(o, {"status", "maker", "taker"}) /\ o.taker \in SideShape
  BY DEF Fields
<1> HIDE DEF O
<1>3. QED BY <1>1, <1>2 DEF IsWallet

(* Paying leaves Sage's records of strikes and terms as they are.          *)
LEMMA SpentIsWallet ==
  ASSUME IsWallet(wallet), NEW p PROVE IsWallet(Spent(p))
<1> DEFINE w == Spent(p)
<1>1. CASE p.intent = "offer_make"
  BY <1>1 DEF Spent
<1>2. CASE p.intent # "offer_make"
  <2> DEFINE Gone == IF p.intent \in {"did_transfer", "option_transfer", "option_exercise"}
                     THEN ToSet(p.ids) ELSE {}
             out == Outgoing(p, wallet)
             taken == {Launcher[a] : a \in AssetsOf(out) \cap DOMAIN Launcher}
             after == [o \in OfferIds |->
                         CASE p.intent = "offer_cancel" /\ o \in ToSet(p.ids) -> "cancelled"
                           [] p.intent = "offer_take" /\ o = p.offer -> "completed"
                           [] OTHER -> wallet.offers[o].status]
             xch == wallet.xch - TotalOf(out, "native")
             cats == [c \in Cats |-> wallet.cats[c] - TotalOf(out, c)]
             nfts == IF p.intent \in {"transfer", "offer_take"}
                     THEN wallet.nfts \ taken ELSE wallet.nfts
             dids == wallet.dids \ Gone
             options == wallet.options \ Gone
             offers == [o \in OfferIds |-> [wallet.offers[o] EXCEPT !.status = after[o]]]
  <2>1. w = [wallet EXCEPT !.xch = xch, !.cats = cats, !.nfts = nfts, !.dids = dids,
                           !.options = options, !.offers = offers]
    BY <1>2 DEF Spent
  <2>2. \A o \in OfferIds : offers[o] = [wallet.offers[o] EXCEPT !.status = after[o]]
    OBVIOUS
  <2>3. DOMAIN offers = OfferIds
    OBVIOUS
  <2> HIDE DEF Gone, out, taken, after, xch, cats, nfts, dids, options, offers, w
  <2>4. DOMAIN w = DOMAIN wallet /\ w.strikes = wallet.strikes /\ w.offers = offers
    BY <2>1 DEF IsWallet, Fields
  <2>5. ASSUME NEW o \in OfferIds
        PROVE  Fields(w.offers[o], {"status", "maker", "taker"}) /\ w.offers[o].taker \in SideShape
    <3>1. w.offers[o] = [wallet.offers[o] EXCEPT !.status = after[o]]
      BY <2>2, <2>4
    <3>2. Fields(wallet.offers[o], {"status", "maker", "taker"}) /\ wallet.offers[o].taker \in SideShape
      BY DEF IsWallet
    <3>3. QED BY <3>1, <3>2 DEF Fields
  <2>6. IsWallet(w)
    BY <2>3, <2>4, <2>5 DEF IsWallet, Fields
  <2>7. QED BY <2>6 DEF w
<1>3. QED BY <1>1, <1>2

LEMMA WalletChangesKeepsWallet ==
  ASSUME IsWallet(wallet), WalletChanges PROVE IsWallet(wallet')
<1> USE DEF IsWallet, Fields
<1>1. CASE \/ wallet' = [wallet EXCEPT !.xch = 0]
           \/ \E c \in Cats : wallet' = [wallet EXCEPT !.cats[c] = 0]
           \/ wallet' = [wallet EXCEPT !.nfts = {}, !.dids = {}]
           \/ wallet' = [wallet EXCEPT !.options = {}]
  <2>1. /\ DOMAIN wallet' = DOMAIN wallet /\ wallet'.strikes = wallet.strikes
        /\ wallet'.offers = wallet.offers
    BY <1>1
  <2>2. QED BY <2>1
<1>2. ASSUME NEW o \in Options, wallet' = [wallet EXCEPT !.strikes[o].amount = @ + 1]
      PROVE  IsWallet(wallet')
  <2> DEFINE leg == wallet.strikes[o]
             more == [leg EXCEPT !.amount = leg.amount + 1]
  <2>1. /\ DOMAIN wallet' = DOMAIN wallet /\ wallet'.offers = wallet.offers
        /\ wallet'.strikes = [wallet.strikes EXCEPT ![o] = more]
    BY <1>2
  <2>2. more \in LegShape
    <3>1. leg \in LegShape
      OBVIOUS
    <3>2. QED BY <3>1 DEF LegShape
  <2> HIDE DEF more
  <2>3. QED BY <2>1, <2>2
<1>3. ASSUME NEW o \in OfferIds,
             \/ wallet' = [wallet EXCEPT !.offers[o].status = "expired"]
             \/ wallet' = [wallet EXCEPT !.offers[o].taker[1].royalty = @ + 1]
      PROVE  IsWallet(wallet')
  <2> DEFINE offer == wallet.offers[o]
             taker == offer.taker
             dearer == [taker EXCEPT ![1] = [taker[1] EXCEPT !.royalty = taker[1].royalty + 1]]
  <2>1. taker \in SideShape
    OBVIOUS
  <2>2. dearer \in SideShape
    <3> DEFINE R == [asset : STRING, amount : Int, royalty : Int, kind : STRING]
    <3>1. taker \in Seq(R)
      BY <2>1 DEF SideShape
    <3>2. \A r \in R : [r EXCEPT !.royalty = r.royalty + 1] \in R
      OBVIOUS
    <3> HIDE DEF R, taker
    <3>3. CASE 1 \in DOMAIN taker
      <4>1. [taker[1] EXCEPT !.royalty = taker[1].royalty + 1] \in R
        BY <3>1, <3>2, <3>3
      <4>2. [taker EXCEPT ![1] = [taker[1] EXCEPT !.royalty = taker[1].royalty + 1]] \in Seq(R)
        BY <3>1, <3>3, <4>1
      <4>3. QED BY <4>2 DEF SideShape, R
    <3>4. CASE 1 \notin DOMAIN taker
      <4>1. [taker EXCEPT ![1] = [taker[1] EXCEPT !.royalty = taker[1].royalty + 1]] = taker
        BY <3>1, <3>4
      <4>2. QED BY <2>1, <4>1
    <3>5. QED BY <3>3, <3>4
  <2> HIDE DEF dearer
  <2>3. /\ DOMAIN wallet' = DOMAIN wallet /\ wallet'.strikes = wallet.strikes
        /\ \/ wallet'.offers = [wallet.offers EXCEPT ![o] = [offer EXCEPT !.status = "expired"]]
           \/ wallet'.offers = [wallet.offers EXCEPT ![o] = [offer EXCEPT !.taker = dearer]]
    BY <1>3 DEF dearer
  <2>4. QED BY <2>2, <2>3
<1>4. QED BY <1>1, <1>2, <1>3 DEF WalletChanges
-----------------------------------------------------------------------------
(* The steps of the wallet, by the part of JudgedInv they can disturb.     *)

LEMMA JudgedInvInit ==
  ASSUME SageWalletAssumption, SageInit PROVE JudgedInv
<1>1. wallet \in WalletShape
  BY DEF SageInit, SageWalletAssumption
<1>2. IsWallet(wallet)
  BY <1>1, HoldingsAreWallets
<1>3. QED BY <1>2 DEF SageInit, JudgedInv, AllAreSound, AllAreWithin

LEMMA RequestKeepsJudged ==
  ASSUME SageIntentsAssumption, SageWalletAssumption, JudgedInv, NEW p \in Bodies, Request(p)
  PROVE  JudgedInv'
<1>1. UNCHANGED <<wallet, txs>>
  BY DEF Request
<1>2. PICK q \in Ask(p, wallet) :
        \/ /\ queue' = queue \cup {[id |-> asked', intent |-> q]}
           /\ UNCHANGED handler
        \/ /\ pc' = "select" /\ job' = Job(q)
           /\ UNCHANGED queue
  BY DEF Request
<1>3. IsSound(q)
  BY AskIsSound DEF JudgedInv
<1>4. AllAreSound'
  <2>1. CASE queue' = queue \cup {[id |-> asked', intent |-> q]} /\ UNCHANGED handler
    <3>1. \A item \in queue' : IsSound(item.intent)
      BY <1>3, <2>1 DEF JudgedInv, AllAreSound
    <3>2. QED BY <2>1, <3>1 DEF JudgedInv, AllAreSound, handler
  <2>2. CASE pc' = "select" /\ job' = Job(q) /\ UNCHANGED queue
    <3>1. Job(q).p = q
      BY DEF Job, NoJob
    <3>2. QED BY <1>3, <2>2, <3>1 DEF JudgedInv, AllAreSound
  <2>3. QED BY <1>2, <2>1, <2>2
<1>5. QED BY <1>1, <1>4 DEF JudgedInv, AllAreWithin

LEMMA ApproveKeepsJudged == ASSUME JudgedInv, Approve PROVE JudgedInv'
<1>1. PICK item \in queue : queue' = queue \ {item} /\ pc' = "select" /\ job' = Job(item.intent)
  BY DEF Approve
<1>2. Job(item.intent).p = item.intent
  BY DEF Job, NoJob
<1>3. AllAreSound'
  BY <1>1, <1>2 DEF JudgedInv, AllAreSound
<1>4. QED BY <1>3 DEF Approve, JudgedInv, AllAreWithin

(* A step that neither asks nor submits: the execution ends or goes on with *)
(* the same intent.                                                        *)
LEMMA SameIntentsKeepJudged ==
  ASSUME JudgedInv, UNCHANGED <<queue, txs>>, IsWallet(wallet'),
         \/ pc' = "idle"
         \/ pc # "idle" /\ job'.p = job.p
         \/ UNCHANGED <<pc, job>>
  PROVE  JudgedInv'
<1>1. AllAreSound'
  BY DEF JudgedInv, AllAreSound
<1>2. QED BY <1>1 DEF JudgedInv, AllAreWithin

LEMMA CallKeepsJudged ==
  ASSUME SageIntentsAssumption, SageInv, JudgedInv, Call PROVE JudgedInv'
<1>1. queue' = queue /\ pc = "call"
  BY DEF Call
<1>2. CASE Fail /\ UNCHANGED <<wallet, txs>>
  <2>1. pc' = "idle"
    BY <1>2 DEF Fail, Ended
  <2>2. QED BY <1>1, <1>2, <2>1, SameIntentsKeepJudged DEF JudgedInv
<1>3. ASSUME NEW out, Submits(out), Within(out, This), IsWallet(wallet'),
             \/ pc' = "watch" /\ job' = [job EXCEPT !.since = clock, !.tx = Len(txs')]
             \/ Fail
      PROVE  JudgedInv'
  <2> DEFINE tx == [attempt |-> Attempt, intent |-> This, from |-> selected,
                    out |-> out, confirmed |-> Never]
  <2>1. txs' = Append(txs, tx)
    BY <1>3 DEF Submits
  <2>2. tx.intent = This /\ tx.out = out
    OBVIOUS
  <2> HIDE DEF tx
  <2>3. /\ DOMAIN txs = 1 .. Len(txs) /\ Len(txs) \in Nat
        /\ DOMAIN txs' = 1 .. Len(txs) + 1
        /\ \A t \in DOMAIN txs : txs'[t] = txs[t]
        /\ txs'[Len(txs) + 1] = tx
    BY <2>1, AppendedSequence DEF SageInv, SubmittedIsOwn
  <2>4. AllAreWithin'
    BY <1>3, <2>2, <2>3 DEF JudgedInv, AllAreWithin
  <2>5. pc' # "idle" => job'.p = job.p
    BY <1>3 DEF Fail, Ended, SageInv, AllAreChecked, Fields
  <2>6. AllAreSound'
    BY <1>1, <2>5 DEF JudgedInv, AllAreSound
  <2>7. QED BY <1>3, <2>4, <2>6 DEF JudgedInv
<1>4. CASE /\ CallOwn
           /\ \/ pc' = "watch" /\ job' = [job EXCEPT !.since = clock, !.tx = Len(txs')]
              \/ Fail
  <2>1. IsSound(This)
    BY <1>1 DEF JudgedInv, AllAreSound, This
  <2>2. Within(Outgoing(This, wallet), This)
    BY <1>4, <2>1, RunIsWithin, TransferIsWithin DEF CallOwn, JudgedInv
  <2>3. IsWallet(wallet')
    BY <1>4, SpentIsWallet DEF CallOwn, JudgedInv
  <2>4. QED BY <1>3, <1>4, <2>2, <2>3 DEF CallOwn
<1>5. CASE /\ CallOther
           /\ \/ pc' = "watch" /\ job' = [job EXCEPT !.since = clock, !.tx = Len(txs')]
              \/ Fail
  <2>1. Within(<<>>, This)
    BY DEF Within, AssetsOf
  <2>2. QED BY <1>3, <1>5, <2>1 DEF CallOther, JudgedInv
<1>6. QED BY <1>2, <1>4, <1>5 DEF Call

LEMMA ChainConfirmsKeepsJudged ==
  ASSUME SageInv, JudgedInv, ChainConfirms PROVE JudgedInv'
<1>1. PICK t \in DOMAIN txs : txs' = [txs EXCEPT ![t] = [txs[t] EXCEPT !.confirmed = clock]]
  BY DEF ChainConfirms
<1>2. UNCHANGED <<wallet, pc, job, queue>>
  BY DEF ChainConfirms, handler
<1> DEFINE x == [txs[t] EXCEPT !.confirmed = clock]
<1>3. x.intent = txs[t].intent /\ x.out = txs[t].out
  BY DEF SageInv, SubmittedIsOwn, Fields
<1> HIDE DEF x
<1>4. /\ DOMAIN txs' = DOMAIN txs
      /\ \A i \in DOMAIN txs : txs'[i] = IF i = t THEN x ELSE txs[i]
  BY <1>1, UpdatedSequence DEF SageInv, SubmittedIsOwn, x
<1>5. AllAreWithin'
  BY <1>3, <1>4 DEF JudgedInv, AllAreWithin
<1>6. QED BY <1>2, <1>5 DEF JudgedInv, AllAreSound

LEMMA JudgedInvNext ==
  ASSUME SageIntentsAssumption, SageWalletAssumption, SageInv, JudgedInv, [SageNext]_sageVars
  PROVE  JudgedInv'
<1>1. ASSUME NEW p \in Bodies, Request(p) PROVE JudgedInv'
  BY <1>1, RequestKeepsJudged
<1>2. CASE Select \/ See \/ GiveUp \/ WatchFails
  <2>1. UNCHANGED <<wallet, queue, txs>>
    BY <1>2 DEF Select, See, GiveUp, WatchFails
  <2>2. pc' = "idle" \/ (pc # "idle" /\ job'.p = job.p)
    BY <1>2 DEF Select, See, GiveUp, WatchFails, Fail, Ended
  <2>3. QED BY <2>1, <2>2, SameIntentsKeepJudged DEF JudgedInv
<1>3. CASE WalletChanges
  <2>1. UNCHANGED <<pc, job, queue, txs>> /\ IsWallet(wallet')
    BY <1>3, WalletChangesKeepsWallet DEF WalletChanges, handler, JudgedInv
  <2>2. QED BY <2>1, SameIntentsKeepJudged
<1>4. CASE Provision \/ LoseSage \/ OtherTool \/ Tick \/ UNCHANGED sageVars
  <2>1. UNCHANGED <<wallet, pc, job, queue, txs>>
    BY <1>4 DEF Provision, LoseSage, OtherTool, Tick, sageVars, handler
  <2>2. QED BY <2>1, SameIntentsKeepJudged DEF JudgedInv
<1>5. QED
  BY <1>1, <1>2, <1>3, <1>4, ApproveKeepsJudged, CallKeepsJudged, ChainConfirmsKeepsJudged
  DEF SageNext, Execution

(* Of every asset, under any spelling of its id, no more leaves the wallet *)
(* in one transaction than one leg of the approved intent was judged at,   *)
(* with the XCH that no leg counts on top (the configured fee of a         *)
(* transfer, the fee of a cancellation, what becomes created coins),       *)
(* whatever Sage came to report of strikes and offers between the request  *)
(* and the execution (_velocity_entries, _merge_legs,                      *)
(* _execute_option_exercise_via_sage, _execute_offer_take_via_sage).       *)
THEOREM JudgedAtTotalAlways ==
  ASSUME SageIntentsAssumption, SageWalletAssumption PROVE SageSpec => []JudgedAtTotal
<1>1. SageInv /\ JudgedInv /\ [SageNext]_sageVars => JudgedInv'
  BY JudgedInvNext
<1>2. SageInit => JudgedInv
  BY JudgedInvInit
<1>3. JudgedInv => JudgedAtTotal
  BY DEF JudgedInv, AllAreWithin, Within, JudgedAtTotal, JudgedAs
<1>4. QED BY <1>1, <1>2, <1>3, SageInvAlways, PTL DEF SageSpec
=============================================================================

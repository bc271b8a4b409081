-------------------------- MODULE MigrationsProofs --------------------------
(***************************************************************************)
(* A migrated ledger is guarded and stays, what is migrated is what was    *)
(* reviewed, and intents are true, for any number of appliers, writes,     *)
(* imports, crashes and losses.                                            *)
(***************************************************************************)
EXTENDS Migrations, TLAPS

\* Why it is inductive: what the applier that holds the lock has found or done
\* so far...
Underway ==
    lock # Free =>
        /\ ~importing /\ reviewed[lock] # Nothing
        /\ intent # NoIntent => intent.expected = reviewed[lock]
        /\ step # "publish" => (step = "record" \/ intent # NoIntent)
        /\ IF step \in {"finish", "remove"} THEN schema = "v2"
           ELSE step = "publish" \/ schema = "v1"
        /\ schema = "v1" => contents = reviewed[lock] /\ intent.phase # "target_verified"
        /\ schema = "v2" => audit = reviewed[lock] /\ (step = "publish" \/ intent # NoIntent)
        /\ schema # "missing"
\* ...where its snapshot is...
Copying ==
    lock # Free =>
        /\ step \in {"snapshot", "allocate", "copy", "copying", "note"} => intent.path \in Path
        /\ step \in {"allocate", "copy", "copying"} => ~intent.verified
        /\ step = "note" => snapshots[intent.path] = intent.expected
        /\ step = "commit" /\ lock \in Snapshotting => intent.verified
\* ...and that the guard was published, unless somebody has deleted it.
Guarding ==
    /\ lock # Free /\ step # "publish" /\ lost = 0 => guard = "exact"
    /\ schema = "v2" \/ (lock # Free /\ step # "publish") => guard # "empty"
    /\ schema = "v1" => audit = Nothing
Verified == intent.verified => intent.path \in Path

MigrationInv ==
    /\ TypeOK /\ IntentTrue /\ NeverBothPending /\ GuardFirst
    /\ Underway /\ Copying /\ Guarding /\ Verified

LEMMA InitMigration == Init => MigrationInv
<1> SUFFICES ASSUME Init PROVE MigrationInv
  OBVIOUS
<1>1. TypeOK
  <2>1. contents \in Digest /\ {Nothing, Missing} \subseteq Digest
    BY MigrationAssumption DEF Init, Digest, Missing, Nothing
  <2>2. faults \in 0..MaxFaults /\ lost \in 0..MaxLost
    BY MigrationAssumption DEF Init
  <2> QED
    BY <2>1, <2>2 DEF Init, TypeOK
<1>2. NoIntent.verified = FALSE
  BY DEF NoIntent
<1> QED
  BY <1>1, <1>2
  DEF Init, MigrationInv, IntentTrue, NeverBothPending, GuardFirst, Underway, Copying,
      Guarding, Verified

LEMMA KeepsReview == ASSUME NEW a \in Applier PROVE MigrationInv /\ Review(a) => MigrationInv'
<1> SUFFICES ASSUME MigrationInv, Review(a) PROVE MigrationInv'
  OBVIOUS
<1> QED
  BY DEF Review, disk, MigrationInv, TypeOK, IntentTrue, NeverBothPending, GuardFirst,
     Underway, Copying, Guarding, Verified

LEMMA KeepsStart ==
    ASSUME NEW a \in Applier, NEW allowed \in BOOLEAN
    PROVE  MigrationInv /\ Start(a, allowed) => MigrationInv'
<1> SUFFICES ASSUME MigrationInv, Start(a, allowed) PROVE MigrationInv'
  OBVIOUS
<1> USE MigrationAssumption DEF MigrationInv
<1>1. lock' = a /\ a # Free /\ step' \in {"publish", "finish"}
  BY DEF Start, FirstStep
<1>2. TypeOK'
  BY <1>1 DEF Start, TypeOK, disk, Steps
<1>3. Underway'
  BY <1>1 DEF Start, Admitted, Resumable, FirstStep, Underway, disk, NoIntent
<1>4. Copying' /\ Guarding'
  BY <1>1 DEF Start, FirstStep, Copying, Guarding, disk
<1> QED
  BY <1>2, <1>3, <1>4 DEF Start, disk, IntentTrue, NeverBothPending, GuardFirst, Verified

\* The name that is drawn for a snapshot is one that is not in use.
LEMMA NewPathFresh == FreshPaths # {} => NewPath \in FreshPaths
BY DEF NewPath

LEMMA KeepsRecordIntent == MigrationInv /\ RecordIntent => MigrationInv'
<1> SUFFICES ASSUME MigrationInv, RecordIntent PROVE MigrationInv'
  OBVIOUS
<1> USE MigrationAssumption DEF MigrationInv
<1>1. schema = "v1" /\ lock # Free /\ lock \in Applier /\ step = "record"
  BY DEF RecordIntent, At, TypeOK, Underway
<1>2. /\ intent'.expected = reviewed[lock] /\ intent'.verified = intent.verified
      /\ intent'.phase = IF intent = NoIntent THEN "prepared" ELSE intent.phase
      /\ intent'.path = IF WantsPath THEN NewPath ELSE intent.path
  BY DEF RecordIntent
<1>3. WantsPath => NewPath \in Path
  BY NewPathFresh DEF RecordIntent, FreshPaths
<1>4. intent' \in Intent /\ intent' # NoIntent
  <2>1. intent.path \in Path \cup {Nothing} /\ intent.verified \in BOOLEAN
    <3>1. CASE intent \in Intent
      BY <3>1 DEF Intent
    <3>2. CASE intent = NoIntent
      BY <3>2 DEF NoIntent
    <3> QED
      BY <3>1, <3>2 DEF TypeOK
  <2>2. intent'.phase \in Phase
    BY <1>2 DEF TypeOK, Intent, Phase
  <2>3. intent'.path \in Path \cup {Nothing} /\ reviewed[lock] \in Digest
    BY <1>1, <1>2, <1>3, <2>1 DEF TypeOK
  <2>4. intent' \in Intent
    BY <1>2, <2>1, <2>2, <2>3 DEF RecordIntent, Intent
  <2> QED
    BY <2>2, <2>4 DEF NoIntent, Phase
<1>5. /\ step' = IF intent'.path = Nothing THEN "commit" ELSE "snapshot"
      /\ intent'.path = Nothing => lock \notin Snapshotting
  BY <1>2, <1>3 DEF RecordIntent, Goes, WantsPath, Path, Nothing
<1>6. TypeOK'
  BY <1>1, <1>4, <1>5 DEF RecordIntent, Goes, TypeOK, Steps
<1>7. (IntentTrue /\ Verified)'
  BY <1>1, <1>2 DEF RecordIntent, IntentTrue, Verified, Underway, WantsPath, NoIntent, Path, Nothing
<1>8. (NeverBothPending /\ GuardFirst /\ Guarding)'
  BY <1>1 DEF RecordIntent, Goes, NeverBothPending, GuardFirst, Guarding, Underway
<1>9. (Underway /\ Copying)'
  BY <1>1, <1>2, <1>4, <1>5 DEF RecordIntent, Goes, Underway, Copying, Intent
<1> QED
  BY <1>6, <1>7, <1>8, <1>9

LEMMA KeepsAllocatePath == MigrationInv /\ AllocatePath => MigrationInv'
<1> SUFFICES ASSUME MigrationInv, AllocatePath PROVE MigrationInv'
  OBVIOUS
<1> USE DEF MigrationInv
<1>1. /\ lock # Free /\ schema = "v1" /\ intent \in Intent /\ ~intent.verified
      /\ step = "allocate" /\ step' = "copy"
  BY DEF AllocatePath, At, Goes, TypeOK, Underway, Copying
<1>2. NewPath \in Path
  BY NewPathFresh DEF AllocatePath, FreshPaths
<1>3. /\ intent' \in Intent /\ intent' # NoIntent /\ intent'.path \in Path
      /\ \A field \in {"expected", "verified", "phase"} : intent'[field] = intent[field]
  BY <1>1, <1>2 DEF AllocatePath, Intent, NoIntent, Path, Nothing
<1>4. TypeOK'
  BY <1>1, <1>3 DEF AllocatePath, Goes, TypeOK, Steps
<1>5. (Underway /\ Copying)'
  BY <1>1, <1>3 DEF AllocatePath, Goes, Underway, Copying
<1> QED
  BY <1>1, <1>3, <1>4, <1>5
  DEF AllocatePath, Goes, IntentTrue, Verified, NeverBothPending, GuardFirst, Guarding, Underway

LEMMA KeepsPublishGuard == MigrationInv /\ PublishGuard => MigrationInv'
<1> SUFFICES ASSUME MigrationInv, PublishGuard PROVE MigrationInv'
  OBVIOUS
<1> USE MigrationAssumption DEF MigrationInv
<1>1. TypeOK'
  BY DEF TypeOK, PublishGuard, At, Goes, Ends, Steps
<1>2. (IntentTrue /\ Verified)'
  BY DEF IntentTrue, Verified, PublishGuard
<1>3. (NeverBothPending /\ GuardFirst /\ Guarding)'
  BY DEF NeverBothPending, GuardFirst, Guarding, Underway, PublishGuard, At
<1>4. (Underway /\ Copying)'
  BY DEF TypeOK, Underway, Copying, PublishGuard, Goes, Ends
<1> QED
  BY <1>1, <1>2, <1>3, <1>4

LEMMA KeepsReuseSnapshot == MigrationInv /\ ReuseSnapshot => MigrationInv'
<1> SUFFICES ASSUME MigrationInv, ReuseSnapshot PROVE MigrationInv'
  OBVIOUS
<1> USE MigrationAssumption DEF MigrationInv
<1>1. TypeOK'
  BY DEF TypeOK, ReuseSnapshot, At, Goes, disk, Steps
<1>2. (IntentTrue /\ Verified)'
  BY DEF IntentTrue, Verified, ReuseSnapshot, disk
<1>3. (NeverBothPending /\ GuardFirst /\ Guarding)'
  BY DEF NeverBothPending, GuardFirst, Guarding, ReuseSnapshot, At, Goes, disk
<1>4. (Underway /\ Copying)'
  BY DEF Underway, Copying, ReuseSnapshot, At, Goes, Verifies, disk
<1> QED
  BY <1>1, <1>2, <1>3, <1>4

LEMMA KeepsNeedSnapshot == MigrationInv /\ NeedSnapshot => MigrationInv'
<1> SUFFICES ASSUME MigrationInv, NeedSnapshot PROVE MigrationInv'
  OBVIOUS
<1> USE MigrationAssumption DEF MigrationInv
<1>1. TypeOK'
  BY DEF TypeOK, NeedSnapshot, At, Goes, disk, Steps
<1>2. (IntentTrue /\ Verified)'
  BY DEF IntentTrue, Verified, NeedSnapshot, disk
<1>3. (NeverBothPending /\ GuardFirst /\ Guarding)'
  BY DEF NeverBothPending, GuardFirst, Guarding, NeedSnapshot, At, Goes, disk
<1>4. (Underway /\ Copying)'
  BY DEF Underway, Copying, NeedSnapshot, At, Goes, disk
<1> QED
  BY <1>1, <1>2, <1>3, <1>4

LEMMA KeepsQuarantine == MigrationInv /\ Quarantine => MigrationInv'
<1> SUFFICES ASSUME MigrationInv, Quarantine PROVE MigrationInv'
  OBVIOUS
<1> USE MigrationAssumption DEF MigrationInv
<1>1. TypeOK'
  BY DEF TypeOK, Copying, Quarantine, At, Goes, Steps, Digest, Missing
<1>2. (IntentTrue /\ Verified)'
  BY DEF IntentTrue, Verified, Quarantine
<1>3. (NeverBothPending /\ GuardFirst /\ Guarding)'
  BY DEF NeverBothPending, GuardFirst, Guarding, Quarantine, At, Goes
<1>4. (Underway /\ Copying)'
  BY DEF Underway, Copying, Quarantine, At, Goes
<1> QED
  BY <1>1, <1>2, <1>3, <1>4

LEMMA KeepsBeginCopy == MigrationInv /\ BeginCopy => MigrationInv'
<1> SUFFICES ASSUME MigrationInv, BeginCopy PROVE MigrationInv'
  OBVIOUS
<1> USE MigrationAssumption DEF MigrationInv
<1>1. TypeOK'
  BY DEF TypeOK, BeginCopy, At, Goes, Steps
<1>2. (IntentTrue /\ Verified)'
  BY DEF IntentTrue, Verified, Copying, BeginCopy, At
<1>3. (NeverBothPending /\ GuardFirst /\ Guarding)'
  BY DEF NeverBothPending, GuardFirst, Guarding, BeginCopy, At, Goes
<1>4. (Underway /\ Copying)'
  BY DEF Underway, Copying, BeginCopy, At, Goes
<1> QED
  BY <1>1, <1>2, <1>3, <1>4

LEMMA KeepsEndCopy == MigrationInv /\ EndCopy => MigrationInv'
<1> SUFFICES ASSUME MigrationInv, EndCopy PROVE MigrationInv'
  OBVIOUS
<1> USE MigrationAssumption DEF MigrationInv
<1>1. TypeOK'
  BY DEF TypeOK, EndCopy, At, Goes, Steps
<1>2. (IntentTrue /\ Verified)'
  BY DEF IntentTrue, Verified, Copying, EndCopy, At
<1>3. (NeverBothPending /\ GuardFirst /\ Guarding)'
  BY DEF NeverBothPending, GuardFirst, Guarding, EndCopy, At, Goes
<1>4. (Underway /\ Copying)'
  BY DEF TypeOK, Underway, Copying, EndCopy, At, Goes
<1> QED
  BY <1>1, <1>2, <1>3, <1>4

LEMMA KeepsFailCopy == MigrationInv /\ FailCopy => MigrationInv'
<1> SUFFICES ASSUME MigrationInv, FailCopy PROVE MigrationInv'
  OBVIOUS
<1> USE MigrationAssumption DEF MigrationInv
<1>1. TypeOK'
  BY DEF TypeOK, Copying, FailCopy, At, Ends, Digest, Missing
<1>2. (IntentTrue /\ Verified)'
  BY DEF IntentTrue, Verified, Copying, FailCopy, At
<1>3. (NeverBothPending /\ GuardFirst /\ Guarding)'
  BY DEF NeverBothPending, GuardFirst, Guarding, FailCopy, Ends
<1>4. (Underway /\ Copying)'
  BY DEF Underway, Copying, FailCopy, Ends
<1> QED
  BY <1>1, <1>2, <1>3, <1>4

LEMMA KeepsNoteSnapshot == MigrationInv /\ NoteSnapshot => MigrationInv'
<1> SUFFICES ASSUME MigrationInv, NoteSnapshot PROVE MigrationInv'
  OBVIOUS
<1> USE MigrationAssumption DEF MigrationInv
<1>1. TypeOK'
  BY DEF TypeOK, Underway, NoteSnapshot, At, Goes, Steps, Intent, Phase
<1>2. (IntentTrue /\ Verified)'
  BY DEF IntentTrue, Verified, Copying, NoteSnapshot, At, Path, NoIntent, Nothing
<1>3. (NeverBothPending /\ GuardFirst /\ Guarding)'
  BY DEF NeverBothPending, GuardFirst, Guarding, Underway, NoteSnapshot, At, Goes
<1>4. (Underway /\ Copying)'
  BY DEF TypeOK, Underway, Copying, NoteSnapshot, At, Goes, Intent, NoIntent
<1> QED
  BY <1>1, <1>2, <1>3, <1>4

LEMMA KeepsCommit == MigrationInv /\ Commit => MigrationInv'
<1> SUFFICES ASSUME MigrationInv, Commit PROVE MigrationInv'
  OBVIOUS
<1> USE MigrationAssumption DEF MigrationInv
<1>1. TypeOK'
  BY DEF TypeOK, Commit, At, Goes, Steps
<1>2. (IntentTrue /\ Verified)'
  BY DEF IntentTrue, Verified, Underway, Commit, At
<1>3. (NeverBothPending /\ GuardFirst /\ Guarding)'
  BY DEF NeverBothPending, GuardFirst, Guarding, Commit, At, Goes
<1>4. (Underway /\ Copying)'
  BY DEF Underway, Copying, Commit, At, Goes
<1> QED
  BY <1>1, <1>2, <1>3, <1>4

LEMMA KeepsNoteTarget == MigrationInv /\ NoteTarget => MigrationInv'
<1> SUFFICES ASSUME MigrationInv, NoteTarget PROVE MigrationInv'
  OBVIOUS
<1> USE MigrationAssumption DEF MigrationInv
<1>1. TypeOK'
  BY DEF TypeOK, Underway, NoteTarget, At, Goes, Steps, Intent, Phase
<1>2. (IntentTrue /\ Verified)'
  BY DEF IntentTrue, Verified, Underway, NoteTarget, At
<1>3. (NeverBothPending /\ GuardFirst /\ Guarding)'
  BY DEF NeverBothPending, GuardFirst, Guarding, NoteTarget, TargetVerifies
<1>4. (Underway /\ Copying)'
  BY DEF Underway, Copying, NoteTarget, At, Goes, NoIntent
<1> QED
  BY <1>1, <1>2, <1>3, <1>4

LEMMA KeepsRefuseTarget == MigrationInv /\ RefuseTarget => MigrationInv'
<1> SUFFICES ASSUME MigrationInv, RefuseTarget PROVE MigrationInv'
  OBVIOUS
<1> USE MigrationAssumption DEF MigrationInv
<1>1. TypeOK'
  BY DEF TypeOK, RefuseTarget, Ends, disk
<1>2. (IntentTrue /\ Verified)'
  BY DEF IntentTrue, Verified, RefuseTarget, disk
<1>3. (NeverBothPending /\ GuardFirst /\ Guarding)'
  BY DEF NeverBothPending, GuardFirst, Guarding, RefuseTarget, Ends, disk
<1>4. (Underway /\ Copying)'
  BY DEF Underway, Copying, RefuseTarget, Ends
<1> QED
  BY <1>1, <1>2, <1>3, <1>4

LEMMA KeepsRemoveIntent == MigrationInv /\ RemoveIntent => MigrationInv'
<1> SUFFICES ASSUME MigrationInv, RemoveIntent PROVE MigrationInv'
  OBVIOUS
<1> USE MigrationAssumption DEF MigrationInv
<1>1. TypeOK'
  BY DEF TypeOK, RemoveIntent, Ends
<1>2. (IntentTrue /\ Verified)'
  BY DEF IntentTrue, Verified, RemoveIntent, NoIntent
<1>3. (NeverBothPending /\ GuardFirst /\ Guarding)'
  BY DEF NeverBothPending, GuardFirst, Guarding, RemoveIntent, Ends
<1>4. (Underway /\ Copying)'
  BY DEF Underway, Copying, RemoveIntent, Ends
<1> QED
  BY <1>1, <1>2, <1>3, <1>4

LEMMA KeepsCrash == MigrationInv /\ Crash => MigrationInv'
<1> SUFFICES ASSUME MigrationInv, Crash PROVE MigrationInv'
  OBVIOUS
<1> USE MigrationAssumption DEF MigrationInv
<1>1. TypeOK'
  BY DEF TypeOK, Crash, Ends, disk
<1>2. (IntentTrue /\ Verified)'
  BY DEF IntentTrue, Verified, Crash, disk
<1>3. (NeverBothPending /\ GuardFirst /\ Guarding)'
  BY DEF NeverBothPending, GuardFirst, Guarding, Crash, Ends, disk
<1>4. (Underway /\ Copying)'
  BY DEF Underway, Copying, Crash, Ends
<1> QED
  BY <1>1, <1>2, <1>3, <1>4

LEMMA KeepsWrite == MigrationInv /\ Write => MigrationInv'
<1> SUFFICES ASSUME MigrationInv, Write PROVE MigrationInv'
  OBVIOUS
<1> USE MigrationAssumption DEF MigrationInv
<1>1. TypeOK'
  BY DEF TypeOK, Write, Digest
<1>2. (IntentTrue /\ Verified)'
  BY DEF IntentTrue, Verified, Write
<1>3. (NeverBothPending /\ GuardFirst /\ Guarding)'
  BY DEF NeverBothPending, GuardFirst, Guarding, Write
<1>4. (Underway /\ Copying)'
  BY DEF Underway, Copying, Write
<1> QED
  BY <1>1, <1>2, <1>3, <1>4

LEMMA KeepsImport == MigrationInv /\ Import => MigrationInv'
<1> SUFFICES ASSUME MigrationInv, Import PROVE MigrationInv'
  OBVIOUS
<1> USE MigrationAssumption DEF MigrationInv
<1>1. TypeOK'
  BY DEF TypeOK, Import, Digest, Nothing
<1>2. (IntentTrue /\ Verified)'
  BY DEF IntentTrue, Verified, Import, Replaceable
<1>3. (NeverBothPending /\ GuardFirst /\ Guarding)'
  BY DEF NeverBothPending, GuardFirst, Guarding, Import, Replaceable
<1>4. (Underway /\ Copying)'
  BY DEF Underway, Copying, Import
<1> QED
  BY <1>1, <1>2, <1>3, <1>4

LEMMA KeepsEndImport == MigrationInv /\ EndImport => MigrationInv'
<1> SUFFICES ASSUME MigrationInv, EndImport PROVE MigrationInv'
  OBVIOUS
<1> USE MigrationAssumption DEF MigrationInv
<1>1. TypeOK'
  BY DEF TypeOK, EndImport
<1>2. (IntentTrue /\ Verified)'
  BY DEF IntentTrue, Verified, EndImport
<1>3. (NeverBothPending /\ GuardFirst /\ Guarding)'
  BY DEF NeverBothPending, GuardFirst, Guarding, EndImport
<1>4. (Underway /\ Copying)'
  BY DEF Underway, Copying, EndImport
<1> QED
  BY <1>1, <1>2, <1>3, <1>4

LEMMA KeepsLoseGuard == MigrationInv /\ LoseGuard => MigrationInv'
<1> SUFFICES ASSUME MigrationInv, LoseGuard PROVE MigrationInv'
  OBVIOUS
<1> USE MigrationAssumption DEF MigrationInv
<1>1. TypeOK'
  BY DEF TypeOK, LoseGuard
<1>2. (IntentTrue /\ Verified)'
  BY DEF IntentTrue, Verified, LoseGuard
<1>3. (NeverBothPending /\ GuardFirst /\ Guarding)'
  BY DEF TypeOK, NeverBothPending, GuardFirst, Guarding, LoseGuard
<1>4. (Underway /\ Copying)'
  BY DEF Underway, Copying, LoseGuard
<1> QED
  BY <1>1, <1>2, <1>3, <1>4

LEMMA KeepsLoseLedger == MigrationInv /\ LoseLedger => MigrationInv'
<1> SUFFICES ASSUME MigrationInv, LoseLedger PROVE MigrationInv'
  OBVIOUS
<1> USE MigrationAssumption DEF MigrationInv
<1>1. TypeOK'
  BY DEF TypeOK, LoseLedger
<1>2. (IntentTrue /\ Verified)'
  BY DEF IntentTrue, Verified, LoseLedger
<1>3. (NeverBothPending /\ GuardFirst /\ Guarding)'
  BY DEF NeverBothPending, GuardFirst, Guarding, LoseLedger
<1>4. (Underway /\ Copying)'
  BY DEF Underway, Copying, LoseLedger
<1> QED
  BY <1>1, <1>2, <1>3, <1>4

LEMMA KeepsEditIgnore == MigrationInv /\ EditIgnore => MigrationInv'
<1> SUFFICES ASSUME MigrationInv, EditIgnore PROVE MigrationInv'
  OBVIOUS
<1>1. TypeOK'
  BY DEF MigrationInv, TypeOK, EditIgnore
<1>2. (IntentTrue /\ Verified /\ NeverBothPending /\ GuardFirst /\ Guarding)'
  BY DEF MigrationInv, IntentTrue, Verified, NeverBothPending, GuardFirst, Guarding, EditIgnore
<1>3. (Underway /\ Copying)'
  BY DEF MigrationInv, Underway, Copying, EditIgnore
<1> QED
  BY <1>1, <1>2, <1>3 DEF MigrationInv

\* Every step keeps the invariant: one lemma per action, above.
LEMMA StepMigration == MigrationInv /\ [Next]_vars => MigrationInv'
<1> SUFFICES ASSUME MigrationInv, [Next]_vars PROVE MigrationInv'
  OBVIOUS
<1>1. CASE UNCHANGED vars
  BY <1>1 DEF vars, disk, MigrationInv, TypeOK, IntentTrue, NeverBothPending, GuardFirst,
     Underway, Copying, Guarding, Verified
<1>2. CASE \E a \in Applier : Review(a) \/ \E allowed \in BOOLEAN : Start(a, allowed)
  BY <1>2, KeepsReview, KeepsStart
<1>3. CASE Work
  BY <1>3, KeepsPublishGuard, KeepsRecordIntent, KeepsReuseSnapshot, KeepsNeedSnapshot,
     KeepsQuarantine, KeepsAllocatePath, KeepsBeginCopy, KeepsEndCopy, KeepsNoteSnapshot,
     KeepsCommit, KeepsNoteTarget, KeepsRefuseTarget, KeepsRemoveIntent
  DEF Work
<1>4. CASE FailCopy \/ Crash
  BY <1>4, KeepsFailCopy, KeepsCrash
<1>5. CASE Write \/ Import \/ EndImport \/ LoseGuard \/ LoseLedger \/ EditIgnore
  BY <1>5, KeepsWrite, KeepsImport, KeepsEndImport, KeepsLoseGuard, KeepsLoseLedger,
     KeepsEditIgnore
<1> QED
  BY <1>1, <1>2, <1>3, <1>4, <1>5 DEF Next

\* The invariant of all that follows.
THEOREM MigrationCorrect == Spec => []MigrationInv
<1> QED
  BY InitMigration, StepMigration, PTL DEF Spec

\* Every variable keeps to its type (Migrations).
THEOREM MigrationTyped == Spec => []TypeOK
<1>1. MigrationInv => TypeOK
  BY DEF MigrationInv
<1> QED
  BY <1>1, MigrationCorrect, PTL

\* What an intent says is true of the disk, wherever the run that wrote it died
\* (read_intent, _resumable).
THEOREM IntentsTrue == Spec => []IntentTrue
<1>1. MigrationInv => IntentTrue
  BY DEF MigrationInv
<1> QED
  BY <1>1, MigrationCorrect, PTL

\* A migration and an import are never both unfinished (_apply_locked and
\* _refuse_retention_replacement).
THEOREM NoMutualRefusal == Spec => []NeverBothPending
<1>1. MigrationInv => NeverBothPending
  BY DEF MigrationInv
<1> QED
  BY <1>1, MigrationCorrect, PTL

\* The guard is there before the ledger is one that a pack must not replace
\* (_publish_guard).
THEOREM GuardedFirst == Spec => []GuardFirst
<1>1. MigrationInv => GuardFirst
  BY DEF MigrationInv
<1> QED
  BY <1>1, MigrationCorrect, PTL

\* No pack takes the place of a migrated ledger, unless that is lost and its
\* guard too (_refuse_retention_replacement).
THEOREM MigratedLedgerStays == Spec => MigratedStays
<1>1. ASSUME MigrationInv, [Next]_vars, importing', ~importing
      PROVE  audit = Nothing \/ (schema = "missing" /\ lost > 0)
  <2>1. Import
    BY <1>1 DEF Next, Review, Start, Work, PublishGuard, RecordIntent, ReuseSnapshot, NeedSnapshot,
       Quarantine, AllocatePath, BeginCopy, EndCopy, FailCopy, NoteSnapshot, Commit, NoteTarget,
       RefuseTarget, RemoveIntent, Crash, Write, EndImport, LoseGuard, LoseLedger, EditIgnore,
       disk, vars
  <2>2. guard = "absent" /\ schema # "v2"
    BY <2>1 DEF Import, Replaceable
  <2>3. audit # Nothing => schema = "missing" /\ lost # 0
    BY <1>1, <2>2 DEF MigrationInv, GuardFirst, Guarding, TypeOK
  <2> QED
    BY <1>1, <2>3, MigrationAssumption DEF MigrationInv, TypeOK
<1>2. MigrationInv /\ [Next]_vars
      => [importing' /\ ~importing => audit = Nothing \/ (schema = "missing" /\ lost > 0)]_vars
  BY <1>1
<1> QED
  BY <1>2, MigrationCorrect, PTL DEF Spec, MigratedStays

\* What is migrated is the ledger that was reviewed, and its snapshot is whole
\* (_apply_locked, _snapshot_phase).
THEOREM ReviewedIsMigrated == Spec => ReviewedAndKept
<1>1. ASSUME MigrationInv, [Next]_vars, schema = "v1", schema' = "v2"
      PROVE  /\ reviewed[lock] = contents
             /\ lock \in Snapshotting => \E p \in Path : snapshots[p] = contents
  <2>1. Commit
    BY <1>1 DEF Next, Review, Start, Work, PublishGuard, RecordIntent, ReuseSnapshot, NeedSnapshot,
       Quarantine, AllocatePath, BeginCopy, EndCopy, FailCopy, NoteSnapshot, NoteTarget,
       RefuseTarget, RemoveIntent, Crash, Write, Import, EndImport, LoseGuard, LoseLedger,
       EditIgnore, disk, vars
  <2>2. /\ reviewed[lock] = contents
        /\ intent # NoIntent /\ intent.expected = reviewed[lock]
        /\ lock \in Snapshotting => intent.verified
    BY <1>1, <2>1 DEF Commit, At, MigrationInv, Underway, Copying
  <2>3. lock \in Snapshotting => intent.path \in Path /\ snapshots[intent.path] = contents
    BY <1>1, <2>2 DEF MigrationInv, Verified, IntentTrue
  <2> QED
    BY <2>2, <2>3
<1>2. MigrationInv /\ [Next]_vars
      => [schema = "v1" /\ schema' = "v2" =>
             /\ reviewed[lock] = contents
             /\ lock \in Snapshotting => \E p \in Path : snapshots[p] = contents]_vars
  BY <1>1
<1> QED
  BY <1>2, MigrationCorrect, PTL DEF Spec, ReviewedAndKept

\* What the plan offers, apply does; and what the plan refuses, apply does not
\* begin: at most it goes on with an intent that only git's word stands against
\* (plan, _apply_locked, _complete).
THEOREM PlansTrue == Spec => []PlanIsTrue
<1>1. ASSUME MigrationInv, NEW a \in Applier, NEW allowed \in BOOLEAN, lock = Free
      PROVE  /\ Offered(a, allowed) => Admitted(a, allowed)
             /\ Admitted(a, allowed) =>
                    Offered(a, allowed) \/ (intent # NoIntent /\ Offered(a, TRUE))
  <2>1. CASE schema = "missing"
    BY <2>1 DEF Admitted, Offered, PlanStatus, PlanRefuses
  <2>2. CASE schema = "v1"
    BY <2>2 DEF Admitted, MayCreate, CreatesFiles, Offered, PlanStatus, PlanRefuses, NoIntent
  <2>3. CASE schema = "v2"
    <3>1. guard \in {"absent", "exact"}
      BY <1>1, <2>3 DEF MigrationInv, TypeOK, Guarding
    <3> QED
      BY <2>3, <3>1 DEF Admitted, Offered, PlanStatus, PlanRefuses
  <2> QED
    BY <1>1, <2>1, <2>2, <2>3 DEF MigrationInv, TypeOK
<1>2. MigrationInv => PlanIsTrue
  BY <1>1 DEF PlanIsTrue
<1> QED
  BY <1>2, MigrationCorrect, PTL

=============================================================================

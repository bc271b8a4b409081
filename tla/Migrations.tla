------------------------------- MODULE Migrations -------------------------------
(***************************************************************************)
(* Migration of the ledger to the retention schema (palimnex/migrations.py *)
(* and what palimnex/portable.py refuses because of it).  `apply' leaves   *)
(* four things on the disk, in this order: a replacement guard, an intent, *)
(* a snapshot and the migrated ledger; it can die between any two, and the *)
(* same call again is the recovery.  Meanwhile others write to the ledger, *)
(* or replace it by that of a pack.                                        *)
(*                                                                         *)
(* A logical digest is the number of the last write: `contents'.  All that *)
(* happens under the exclusive flock is done by the one applier `lock'.    *)
(* Files appear whole under their names (temporary, fsync, link or rename),*)
(* except snapshots, which are written in place.                           *)
(***************************************************************************)
EXTENDS Integers

CONSTANTS
    Applier,            \* calls of apply, with their reviewed digests
    Snapshotting,       \* those that ask for a snapshot
    MaxContents, MaxSnapshots, MaxFaults, MaxLost      \* bounds

Free == "free"

ASSUME MigrationAssumption ==
    /\ Snapshotting \subseteq Applier /\ Free \notin Applier
    /\ MaxContents \in Nat \ {0} /\ {MaxSnapshots, MaxFaults, MaxLost} \subseteq Nat

VARIABLES
    schema,     \* of the live ledger: "v1", "v2", or "missing" without one
    contents,   \* its logical digest, as v1
    audit,      \* the before_digest of its migration record, Nothing without one;
                \* of the last ledger, when that is missing
    guard,      \* <ledger>.retention-v2: "absent", "empty" or "exact"
    intent,     \* <ledger>.migration-intent
    snapshots,  \* path -> the digest of the whole snapshot there, Missing or Partial
    importing,  \* is there an <ledger>.import-intent?
    ignored,    \* does git ignore the intent and the snapshots, or have no say there?
    reviewed,   \* applier -> the --expected-digest it was given, or Nothing
    lock,       \* the applier that holds the flock, or Free
    step,       \* what it does next
    faults, lost

disk == <<schema, contents, audit, guard, intent, snapshots, importing, ignored>>
vars == <<disk, reviewed, lock, step, faults, lost>>

Nothing == 0
Missing == 0
Partial == -1
NoIntent == [expected |-> Nothing, path |-> Nothing, verified |-> FALSE, phase |-> "none"]

Path == 1..MaxSnapshots
Phase == {"prepared", "snapshot_verified", "target_verified"}
Steps == {"publish", "record", "snapshot", "allocate", "copy", "copying", "note", "commit",
          "finish", "remove"}

-----------------------------------------------------------------------------
(* Reading before acting *)

\* `plan', and doctor: the digest that an apply would have to name.
Review(a) ==
    LET digest == IF schema = "v2" THEN audit ELSE contents
    IN  /\ lock = Free /\ schema # "missing"
        /\ reviewed[a] # digest
        /\ reviewed' = [reviewed EXCEPT ![a] = digest]
        /\ UNCHANGED <<disk, lock, step, faults, lost>>

\* `_resumable': an intent of the same step, for the same digest.
Resumable(a) == intent.expected = reviewed[a]

\* The next two and `allowed': --allow-unignored-ledger.  apply asks for it only
\* where it is about to create an intent, or to name a snapshot in one...
CreatesFiles(a) == intent = NoIntent \/ (a \in Snapshotting /\ intent.path = Nothing)
MayCreate(a, allowed) == CreatesFiles(a) => ignored \/ allowed

\* Mutant: an import that was interrupted does not matter.
StartsAnyway(a, allowed) ==
    \/ /\ schema = "v1" /\ contents = reviewed[a] /\ MayCreate(a, allowed)
       /\ (intent = NoIntent \/ (Resumable(a) /\ intent.phase # "target_verified"))
    \/ schema = "v2" /\ audit = reviewed[a]
       /\ IF intent = NoIntent THEN guard = "absent" ELSE Resumable(a)

\* Mutant: an intent is a migration under way elsewhere.
StartsAfresh(a, allowed) ==
    /\ ~importing /\ intent = NoIntent
    /\ \/ schema = "v1" /\ contents = reviewed[a] /\ MayCreate(a, allowed)
       \/ schema = "v2" /\ audit = reviewed[a] /\ guard = "absent"

\* Mutant: git is not asked again once an earlier run has published the guard.
StartsOnceGuarded(a, allowed) ==
    /\ ~importing
    /\ \/ /\ schema = "v1" /\ contents = reviewed[a]
          /\ MayCreate(a, allowed \/ guard = "exact")
          /\ (intent = NoIntent \/ (Resumable(a) /\ intent.phase # "target_verified"))
       \/ schema = "v2" /\ audit = reviewed[a]
          /\ IF intent = NoIntent THEN guard = "absent" ELSE Resumable(a)

\* `_apply_locked' on a v1 ledger, `_complete' on a migrated one: there is
\* something to do, and nothing forbids it.
Admitted(a, allowed) ==
    /\ ~importing
    /\ \/ /\ schema = "v1" /\ contents = reviewed[a] /\ MayCreate(a, allowed)
          /\ (intent = NoIntent \/ (Resumable(a) /\ intent.phase # "target_verified"))
       \/ schema = "v2" /\ audit = reviewed[a]
          /\ IF intent = NoIntent THEN guard = "absent" ELSE Resumable(a)

\* What `plan' says to the same digest, from reading alone: its `_intent_status'
\* and `_completed' decide for themselves, and of a v1 ledger it always asks git.
PlanRefuses(a, allowed) ==
    \/ importing \/ schema = "missing"
    \/ intent # NoIntent /\ ~Resumable(a)
    \/ schema = "v1" /\ (contents # reviewed[a] \/ intent.phase = "target_verified")
    \/ schema = "v1" /\ ~ignored /\ ~allowed
    \/ schema = "v2" /\ guard = "empty"
    \/ schema = "v2" /\ (intent # NoIntent \/ guard = "absent") /\ audit # reviewed[a]

PlanStatus(a, allowed) ==
    CASE PlanRefuses(a, allowed) -> "refused"
      [] ~PlanRefuses(a, allowed) /\ intent # NoIntent -> "resumable"
      [] ~PlanRefuses(a, allowed) /\ intent = NoIntent /\ schema = "v1" ->
             IF guard = "absent" THEN "ready" ELSE "resumable"
      [] ~PlanRefuses(a, allowed) /\ intent = NoIntent /\ schema = "v2" ->
             IF guard = "absent" THEN "guard_repair_required" ELSE "already_migrated"

\* Where the work begins.
FirstStep == IF schema = "v2" /\ guard = "exact" THEN "finish" ELSE "publish"

Start(a, allowed) ==
    /\ lock = Free /\ reviewed[a] # Nothing /\ Admitted(a, allowed)
    /\ lock' = a /\ step' = FirstStep
    /\ UNCHANGED <<disk, reviewed, faults, lost>>

-----------------------------------------------------------------------------
(* The steps of the applier that holds the lock *)

At(s) == lock # Free /\ step = s
Goes(s) == step' = s /\ UNCHANGED <<lock, reviewed, faults, lost>>
Ends == lock' = Free /\ step' = "none" /\ UNCHANGED reviewed

\* `_publish_guard'.  On a migrated ledger without an intent, that was all.
PublishGuard ==
    /\ At("publish")
    /\ guard' = "exact"
    /\ UNCHANGED <<schema, contents, audit, intent, snapshots, importing, ignored>>
    /\ IF schema = "v2" /\ intent = NoIntent THEN Ends /\ UNCHANGED <<faults, lost>>
       ELSE Goes(IF schema = "v2" THEN "finish" ELSE "record")

\* default_snapshot_path: a name with the time in it.
FreshPaths == {p \in Path : snapshots[p] = Missing /\ p # intent.path}
NewPath == CHOOSE p \in FreshPaths : TRUE

WantsPath == lock \in Snapshotting /\ intent.path = Nothing

RecordIntent ==
    /\ At("record")
    /\ WantsPath => FreshPaths # {}
    /\ intent' = [expected |-> reviewed[lock],
                  path |-> IF WantsPath THEN NewPath ELSE intent.path,
                  verified |-> intent.verified,
                  phase |-> IF intent = NoIntent THEN "prepared" ELSE intent.phase]
    /\ Goes(IF intent'.path = Nothing THEN "commit" ELSE "snapshot")
    /\ UNCHANGED <<schema, contents, audit, guard, snapshots, importing, ignored>>

\* Mutant: a file in the place of the snapshot is the snapshot.
VerifiesIfPresent(p) == snapshots[p] # Missing
\* `_verify_snapshot_file': intact, of the source schema and digest.
Verifies(p) == snapshots[p] = intent.expected

\* `_snapshot_phase': what the interrupted run had written is used if it is
\* whole, and put out of the way if it is not.
ReuseSnapshot ==
    /\ At("snapshot") /\ Verifies(intent.path)
    /\ Goes(IF intent.verified THEN "commit" ELSE "note")
    /\ UNCHANGED disk

NeedSnapshot ==
    /\ At("snapshot") /\ ~intent.verified /\ snapshots[intent.path] = Missing
    /\ Goes("copy")
    /\ UNCHANGED disk

Quarantine ==
    /\ At("snapshot") /\ ~intent.verified
    /\ snapshots[intent.path] # Missing /\ ~Verifies(intent.path)
    /\ snapshots' = [snapshots EXCEPT ![intent.path] = Missing]
    /\ Goes("allocate")
    /\ UNCHANGED <<schema, contents, audit, guard, intent, importing, ignored>>

AllocatePath ==
    /\ At("allocate") /\ FreshPaths # {}
    /\ intent' = [intent EXCEPT !.path = NewPath]
    /\ Goes("copy")
    /\ UNCHANGED <<schema, contents, audit, guard, snapshots, importing, ignored>>

\* Mutant: the snapshot counts as verified as soon as it is begun.
BeginCopyNoted ==
    /\ At("copy")
    /\ snapshots' = [snapshots EXCEPT ![intent.path] = Partial]
    /\ intent' = [intent EXCEPT !.verified = TRUE, !.phase = "snapshot_verified"]
    /\ Goes("copying")
    /\ UNCHANGED <<schema, contents, audit, guard, importing, ignored>>

\* write_snapshot: created, filled, compared with the ledger.
BeginCopy ==
    /\ At("copy")
    /\ snapshots' = [snapshots EXCEPT ![intent.path] = Partial]
    /\ Goes("copying")
    /\ UNCHANGED <<schema, contents, audit, guard, intent, importing, ignored>>

EndCopy ==
    /\ At("copying")
    /\ snapshots' = [snapshots EXCEPT ![intent.path] = contents]
    /\ Goes("note")
    /\ UNCHANGED <<schema, contents, audit, guard, intent, importing, ignored>>

\* The disk is full; what was written is removed.
FailCopy ==
    /\ At("copying") /\ faults < MaxFaults /\ faults' = faults + 1
    /\ snapshots' = [snapshots EXCEPT ![intent.path] = Missing]
    /\ Ends
    /\ UNCHANGED <<schema, contents, audit, guard, intent, importing, ignored, lost>>

NoteSnapshot ==
    /\ At("note")
    /\ intent' = [intent EXCEPT !.verified = TRUE, !.phase = "snapshot_verified"]
    /\ Goes("commit")
    /\ UNCHANGED <<schema, contents, audit, guard, snapshots, importing, ignored>>

\* One SQLite transaction, which a failure rolls back.
Commit ==
    /\ At("commit")
    /\ schema' = "v2" /\ audit' = reviewed[lock]
    /\ Goes("finish")
    /\ UNCHANGED <<contents, guard, intent, snapshots, importing, ignored>>

\* `_finish': the target is verified, this is recorded, the intent is removed.
TargetVerifies == schema = "v2" /\ audit = reviewed[lock] /\ guard = "exact"

NoteTarget ==
    /\ At("finish") /\ TargetVerifies
    /\ intent' = [intent EXCEPT !.phase = "target_verified"]
    /\ Goes("remove")
    /\ UNCHANGED <<schema, contents, audit, guard, snapshots, importing, ignored>>

RefuseTarget ==
    /\ At("finish") /\ ~TargetVerifies
    /\ Ends
    /\ UNCHANGED <<disk, faults, lost>>

RemoveIntent ==
    /\ At("remove")
    /\ intent' = NoIntent
    /\ Ends
    /\ UNCHANGED <<schema, contents, audit, guard, snapshots, importing, ignored, faults, lost>>

\* The process dies, or the transaction fails: the lock goes, the disk stays.
Crash ==
    /\ lock # Free /\ faults < MaxFaults /\ faults' = faults + 1
    /\ Ends
    /\ UNCHANGED <<disk, lost>>

-----------------------------------------------------------------------------
(* The others *)

\* Any call that writes takes the lock, and looks at neither guard nor intent.
Write ==
    /\ lock = Free /\ schema # "missing" /\ contents < MaxContents
    /\ contents' = contents + 1
    /\ UNCHANGED <<schema, audit, guard, intent, snapshots, importing, ignored, reviewed, lock,
                   step, faults, lost>>

\* Mutant: only the ledger itself is looked at.
ReplaceableByLedger == schema # "v2"
\* `_refuse_retention_replacement'.
Replaceable == intent = NoIntent /\ guard = "absent" /\ schema # "v2"

\* import_pack activates: PackActivation shows it file by file.
Import ==
    /\ lock = Free /\ ~importing /\ Replaceable /\ contents < MaxContents
    /\ schema' = "v1" /\ audit' = Nothing
    /\ contents' = contents + 1 /\ importing' = TRUE
    /\ UNCHANGED <<guard, intent, snapshots, ignored, reviewed, lock, step, faults, lost>>

\* The importer ends, or recover_import ends it.
EndImport ==
    /\ lock = Free /\ importing
    /\ importing' = FALSE
    /\ UNCHANGED <<schema, contents, audit, guard, intent, snapshots, ignored, reviewed, lock,
                   step, faults, lost>>

\* Files that somebody deletes; doctor has a row for each.
LoseGuard ==
    /\ guard = "exact" /\ lost < MaxLost /\ lost' = lost + 1
    /\ guard' = "absent"
    /\ UNCHANGED <<schema, contents, audit, intent, snapshots, importing, ignored, reviewed, lock,
                   step, faults>>

LoseLedger ==
    /\ lock = Free /\ ~importing /\ schema # "missing"
    /\ schema' = "missing"
    /\ UNCHANGED <<contents, audit, guard, intent, snapshots, importing, ignored, reviewed, lock,
                   step, faults, lost>>

\* Somebody edits .gitignore, or makes the directory a repository.
EditIgnore ==
    /\ ignored' = ~ignored
    /\ UNCHANGED <<schema, contents, audit, guard, intent, snapshots, importing, reviewed, lock,
                   step, faults, lost>>

-----------------------------------------------------------------------------
Init ==
    /\ schema = "v1" /\ contents = 1 /\ audit = Nothing
    /\ guard \in {"absent", "empty"}        \* an older version could leave it empty
    /\ intent = NoIntent /\ snapshots = [p \in Path |-> Missing]
    /\ importing = FALSE /\ ignored \in BOOLEAN
    /\ reviewed = [a \in Applier |-> Nothing]
    /\ lock = Free /\ step = "none" /\ faults = 0 /\ lost = 0

Work ==
    \/ PublishGuard \/ RecordIntent
    \/ ReuseSnapshot \/ NeedSnapshot \/ Quarantine \/ AllocatePath
    \/ BeginCopy \/ EndCopy \/ NoteSnapshot \/ Commit
    \/ NoteTarget \/ RefuseTarget \/ RemoveIntent

Next ==
    \/ \E a \in Applier : Review(a) \/ \E allowed \in BOOLEAN : Start(a, allowed)
    \/ Work \/ FailCopy \/ Crash
    \/ Write \/ Import \/ EndImport \/ LoseGuard \/ LoseLedger \/ EditIgnore

Spec == Init /\ [][Next]_vars

\* An applier that holds the lock goes on; the operator reads the plan and runs
\* the same apply again, however often others get the lock first, and without
\* the override that the first run may have been given.
Fairness ==
    /\ WF_vars(Work)
    /\ \A a \in Applier : SF_vars(Review(a)) /\ SF_vars(Start(a, FALSE))
FairSpec == Spec /\ Fairness

-----------------------------------------------------------------------------
Digest == 0..MaxContents
Intent == [expected : Digest, path : Path \cup {Nothing}, verified : BOOLEAN, phase : Phase]

TypeOK ==
    /\ schema \in {"v1", "v2", "missing"} /\ contents \in Digest /\ audit \in Digest
    /\ guard \in {"absent", "empty", "exact"}
    /\ intent \in Intent \cup {NoIntent}
    /\ snapshots \in [Path -> Digest \cup {Partial}]
    /\ {importing, ignored} \subseteq BOOLEAN /\ reviewed \in [Applier -> Digest]
    /\ IF lock = Free THEN step = "none" ELSE lock \in Applier /\ step \in Steps
    /\ faults \in 0..MaxFaults /\ lost \in 0..MaxLost

-----------------------------------------------------------------------------
(* Properties *)

\* What an intent says is true of the disk, wherever the run that wrote it
\* died: a snapshot it calls verified is whole and of the reviewed ledger, a
\* target it calls verified is committed, and beside a migrated ledger there is
\* no intent but that of its own migration.
IntentTrue ==
    intent # NoIntent =>
        /\ intent.verified => snapshots[intent.path] = intent.expected
        /\ intent.phase = "snapshot_verified" => intent.verified
        /\ intent.phase = "target_verified" => schema # "v1"
        /\ schema = "v2" => audit = intent.expected

\* The guard is on the disk before the ledger is one that a pack must not
\* replace, and stays there (docs/MIGRATIONS.md, invariant 6).
GuardFirst == audit # Nothing /\ lost = 0 => guard = "exact"

\* A migration and an import are never both unfinished: each refuses to go on
\* while the other is pending, so neither could ever be finished.
NeverBothPending == importing => intent = NoIntent /\ guard = "absent"

\* What the read-only plan offers to start, resume or repair, apply does not
\* refuse, on whatever an interrupted run, an import or a loss has left.  And
\* apply does not begin what the plan refuses: at most it goes on with an intent,
\* where the plan has no other objection than that git does not ignore the
\* files, which apply does not ask again (migrations.py:546 and 1017).
Offered(a, allowed) ==
    PlanStatus(a, allowed) \in {"ready", "resumable", "guard_repair_required"}
PlanIsTrue ==
    lock = Free => \A a \in Applier, allowed \in BOOLEAN : reviewed[a] # Nothing =>
        /\ Offered(a, allowed) => Admitted(a, allowed)
        /\ Admitted(a, allowed) =>
               Offered(a, allowed) \/ (intent # NoIntent /\ Offered(a, TRUE))

\* A ledger that was migrated, and may have erased events, is not replaced by a
\* pack that still has them: not while it is there, and not when it is lost,
\* unless its guard is lost too.
MigratedStays ==
    [][importing' /\ ~importing =>
           audit = Nothing \/ (schema = "missing" /\ lost > 0)]_vars

\* What is migrated is the ledger that was reviewed and, if a snapshot was asked
\* for, one that is kept whole, though writers came in between and earlier runs
\* died while they copied it.
ReviewedAndKept ==
    [][schema = "v1" /\ schema' = "v2" =>
           /\ reviewed[lock] = contents
           /\ lock \in Snapshotting => \E p \in Path : snapshots[p] = contents]_vars

\* Nobody can finish an intent whose ledger is gone, or was written to before it
\* was migrated: that is left to a person.
LeftToReview == schema = "missing" \/ (schema = "v1" /\ contents # intent.expected)

\* Running apply again finishes what was interrupted, wherever it was.
Resumes == (intent # NoIntent) ~> (intent = NoIntent \/ LeftToReview)

=============================================================================

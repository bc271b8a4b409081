--------------------------- MODULE PackActivation ---------------------------
(***************************************************************************)
(* The files that activating a memory pack moves (palimnex/portable.py,    *)
(* import_pack and recover_import): the live ledger, the candidate built   *)
(* from the pack, the backup of what it replaces, the copies recovery sets *)
(* aside, and the fsynced intent that tells recovery what was going on.    *)
(*                                                                         *)
(* A command works under the exclusive flock of the live path, which the   *)
(* system releases when the process dies; between two file operations it   *)
(* can die, and what it has done stays, in the order in which it was done. *)
(* (import_pack also fsyncs the directory after each rename and unlink;    *)
(* recovery does so once after its moves, so a loss of power inside it may *)
(* keep the later of two and not the earlier, which is not modelled.)      *)
(* Ordinary writers (start_session, append_event) take the same lock for   *)
(* each transaction and know nothing of an intent.                         *)
(*                                                                         *)
(* A ledger is the set of entries it holds: its logical digest equals the  *)
(* digest in the intent when it holds exactly the entries of the pack.     *)
(***************************************************************************)
EXTENDS FiniteSets, Naturals

CONSTANTS
    Import,         \* runs of import_pack, each with its own file names
    Recovery,       \* processes that run recover_import by itself
    Writer,         \* entries written by ordinary calls, one each
    Forced,         \* the imports that were asked to replace a ledger
    Old,            \* the entry of the ledger that is there first
    NoIntent,       \* there is no intent file
    Torn,           \* an intent file that is not written out yet
    Free,           \* nobody holds the lock
    MaxCrashes      \* bound on processes that die

Entry == Import \cup Writer \cup {Old}
Command == Import \cup Recovery

ASSUME ActivationAssumption ==
    /\ Import \cap (Recovery \cup Writer \cup {Old}) = {} /\ Old \notin Writer
    /\ NoIntent \notin Import /\ Torn \notin Import \cup {NoIntent} /\ Free \notin Command
    /\ Forced \subseteq Import
    /\ MaxCrashes \in Nat

VARIABLES
    live,           \* the ledger's own path
    candidate,      \* import -> `.import-<token>.candidate'
    backup,         \* import -> `.pre-import-<token>.bak'
    failed,         \* the contents of `.failed-<token>' copies
    intent,         \* the import named by the intent file
    lock,           \* who holds the exclusive flock between its steps
    pc,             \* how far each command is
    choice,         \* the file a recovery chose
    starting,       \* writers between the two transactions of start_session
    disturbed,      \* history: did a writer write beside an intent, or an
                    \* import remove the intent of another?
    acknowledged,   \* entries some caller was told are in the ledger
    crashes

files == <<live, candidate, backup, failed, intent>>
writing == <<starting, disturbed>>
vars == <<live, candidate, backup, failed, intent, lock, pc, choice, starting,
          disturbed, acknowledged, crashes>>

-----------------------------------------------------------------------------
(* Files *)

NoFile == [kind |-> "none", entries |-> {}]
\* A database file without the ledger's schema.
Blank == [kind |-> "blank", entries |-> {}]
Database(entries) == [kind |-> "ledger", entries |-> entries]

\* `_sqlite_ready' without a digest to compare.
Ready(file) == file.kind = "ledger"
With(file, e) == Database(file.entries \cup {e})

\* What the pack of import i holds; its entry is named after it.
PackOf == [i \in Import |-> Database({i})]

\* The live ledger settles the intent of import i: once the candidate is gone
\* it must be the pack, by its logical digest.
LiveReady(i) == Ready(live) /\ (candidate[i] = NoFile => live = PackOf[i])
CandidateReady(i) == candidate[i] = PackOf[i]

\* Mutant: recovery only knows how to go back.
ResolutionBack(i) ==
    IF LiveReady(i) THEN "live" ELSE IF Ready(backup[i]) THEN "backup" ELSE "none"

\* What recovery finds: the file that becomes, or stays, the live ledger.
Resolution(i) ==
    IF LiveReady(i) THEN "live"
    ELSE IF CandidateReady(i) THEN "candidate"
    ELSE IF Ready(backup[i]) THEN "backup"
    ELSE "none"

-----------------------------------------------------------------------------
(* recover_import, alone or as the first thing import_pack does *)

Goes(c, step) == pc' = [pc EXCEPT ![c] = step]

\* Where a command that gives up, or dies, ends: recovery can be run again.
Over(c) == IF c \in Import THEN "ended" ELSE "idle"
\* Where a command goes on when nothing is left to recover.
Onward(c) == IF c \in Import THEN "recovered" ELSE "idle"

\* The intent is looked up before the lock is taken.
RecoverLook(c) ==
    /\ pc[c] = "idle"
    /\ c \in Recovery => intent # NoIntent
    /\ Goes(c, IF intent = NoIntent THEN "recovered" ELSE "waiting")
    /\ UNCHANGED <<files, lock, choice, writing, acknowledged, crashes>>

\* Under the lock: refused when the intent is gone, malformed or names nothing
\* usable.
RecoverDecide(c) ==
    /\ pc[c] = "waiting" /\ lock = Free
    /\ IF intent \notin Import \/ Resolution(intent) = "none"
       THEN Goes(c, Over(c)) /\ UNCHANGED <<lock, choice>>
       ELSE /\ lock' = c
            /\ choice' = [choice EXCEPT ![c] = Resolution(intent)]
            /\ Goes(c, IF Resolution(intent) = "live" THEN "tidying"
                       ELSE IF live = NoFile THEN "placing" ELSE "clearing")
    /\ UNCHANGED <<files, writing, acknowledged, crashes>>

\* A live file that is not ready is kept under another name.
RecoverAside(c) ==
    /\ pc[c] = "clearing" /\ live # NoFile
    /\ failed' = failed \cup {live} /\ live' = NoFile
    /\ Goes(c, "placing")
    /\ UNCHANGED <<candidate, backup, intent, lock, choice, writing, acknowledged, crashes>>

RecoverPlace(c) ==
    /\ pc[c] = "placing"
    /\ IF choice[c] = "candidate"
       THEN /\ live' = candidate[intent]
            /\ candidate' = [candidate EXCEPT ![intent] = NoFile]
            /\ UNCHANGED backup
       ELSE /\ live' = backup[intent]
            /\ backup' = [backup EXCEPT ![intent] = NoFile]
            /\ UNCHANGED candidate
    /\ Goes(c, "tidying")
    /\ UNCHANGED <<failed, intent, lock, choice, writing, acknowledged, crashes>>

\* Mutant: the candidate is unlinked before it took its place.
TidyEarly(c) ==
    /\ pc[c] \in {"placing", "tidying"}
    /\ candidate' = [candidate EXCEPT ![intent] = NoFile]
    /\ Goes(c, IF pc[c] = "placing" THEN "placing" ELSE "dropping")
    /\ UNCHANGED <<live, backup, failed, intent, lock, choice, writing, acknowledged, crashes>>

RecoverTidy(c) ==
    /\ pc[c] = "tidying"
    /\ candidate' = [candidate EXCEPT ![intent] = NoFile]
    /\ Goes(c, "dropping")
    /\ UNCHANGED <<live, backup, failed, intent, lock, choice, writing, acknowledged, crashes>>

RecoverDrop(c) ==
    /\ pc[c] = "dropping"
    /\ intent' = NoIntent /\ lock' = Free
    /\ Goes(c, Onward(c))
    /\ UNCHANGED <<live, candidate, backup, failed, choice, writing, acknowledged, crashes>>

Recover(c) ==
    \/ RecoverLook(c) \/ RecoverDecide(c) \/ RecoverAside(c) \/ RecoverPlace(c)
    \/ RecoverTidy(c) \/ RecoverDrop(c)

-----------------------------------------------------------------------------
(* import_pack after its recovery *)

\* `ledger.path.exists() and not replace' is asked here, long before the lock;
\* then the candidate is rebuilt from the pack under its own name.
Prepare(i) ==
    /\ pc[i] = "recovered"
    /\ IF live # NoFile /\ i \notin Forced
       THEN Goes(i, "ended") /\ UNCHANGED candidate
       ELSE /\ candidate' = [candidate EXCEPT ![i] = PackOf[i]]
            /\ Goes(i, "prepared")
    /\ UNCHANGED <<live, backup, failed, intent, lock, choice, writing, acknowledged, crashes>>

\* Under the lock: refused when another intent exists, or when the live file
\* cannot be read as a ledger; otherwise the intent file is created...
Announce(i) ==
    /\ pc[i] = "prepared" /\ lock = Free
    /\ IF intent # NoIntent \/ live = Blank
       THEN Goes(i, "ended") /\ UNCHANGED <<intent, lock>>
       ELSE intent' = Torn /\ lock' = i /\ Goes(i, "announcing")
    /\ UNCHANGED <<live, candidate, backup, failed, choice, writing, acknowledged, crashes>>

\* ...and then written and fsynced (`_write_new_private_file').
WriteIntent(i) ==
    /\ pc[i] = "announcing"
    /\ intent' = i
    /\ Goes(i, "announced")
    /\ UNCHANGED <<live, candidate, backup, failed, lock, choice, writing, acknowledged, crashes>>

\* Mutant: the live ledger makes room without a backup.
MakeRoom(i) ==
    /\ pc[i] = "announced" /\ live # NoFile
    /\ live' = NoFile
    /\ Goes(i, "cleared")
    /\ UNCHANGED <<candidate, backup, failed, intent, lock, choice, writing, acknowledged,
                   crashes>>

SetLiveAside(i) ==
    /\ pc[i] = "announced" /\ live # NoFile
    /\ backup' = [backup EXCEPT ![i] = live] /\ live' = NoFile
    /\ Goes(i, "cleared")
    /\ UNCHANGED <<candidate, failed, intent, lock, choice, writing, acknowledged, crashes>>

\* The candidate becomes the live ledger and the lock is released.
Activate(i) ==
    /\ pc[i] \in {"announced", "cleared"} /\ live = NoFile
    /\ live' = candidate[i] /\ candidate' = [candidate EXCEPT ![i] = NoFile]
    /\ lock' = Free
    /\ Goes(i, "activated")
    /\ UNCHANGED <<backup, failed, intent, choice, writing, acknowledged, crashes>>

\* The activated ledger is read back under a shared lock of its own.
FinalCheck(i) ==
    /\ pc[i] = "activated" /\ lock = Free
    /\ Goes(i, IF live = PackOf[i] THEN "checked" ELSE "ended")
    /\ UNCHANGED <<files, lock, choice, writing, acknowledged, crashes>>

\* Whatever intent file there is goes, under the lock once more, even when it
\* has become that of another import.
Finish(i) ==
    /\ pc[i] = "checked" /\ lock = Free
    /\ intent' = NoIntent
    /\ disturbed' = (disturbed \/ intent \in Import \ {i})
    /\ Goes(i, "ended")
    /\ UNCHANGED <<live, candidate, backup, failed, lock, choice, starting, acknowledged, crashes>>

ImportStep(i) ==
    \/ Prepare(i) \/ Announce(i) \/ WriteIntent(i) \/ SetLiveAside(i) \/ Activate(i)
    \/ FinalCheck(i) \/ Finish(i)

-----------------------------------------------------------------------------
(* Crashes, and writers *)

\* A command dies, or gives up before the lock; its lock goes with it.
Crash(c) ==
    /\ pc[c] \notin {"idle", "ended"} /\ crashes < MaxCrashes
    /\ crashes' = crashes + 1
    /\ Goes(c, Over(c))
    /\ lock' = IF lock = c THEN Free ELSE lock
    /\ UNCHANGED <<files, choice, writing, acknowledged>>

\* An ordinary transaction, which does not look at the intent.
Writes == lock = Free /\ disturbed' = (disturbed \/ intent # NoIntent)

\* `_append_event_tx' in a ledger that can be opened.
Append(w) ==
    /\ Writes /\ Ready(live) /\ w \notin acknowledged \cup starting
    /\ live' = With(live, w) /\ acknowledged' = acknowledged \cup {w}
    /\ UNCHANGED <<candidate, backup, failed, intent, lock, pc, choice, starting, crashes>>

\* start_session, first part: `initialize' gives a missing or blank ledger its
\* schema and leaves any other alone.
StartInitialize(w) ==
    /\ Writes /\ w \notin acknowledged \cup starting
    /\ live' = IF Ready(live) THEN live ELSE Database({})
    /\ starting' = starting \cup {w}
    /\ UNCHANGED <<candidate, backup, failed, intent, lock, pc, choice, acknowledged, crashes>>

\* Second part: the session and its first event, in the ledger as it is now; a
\* ledger that is missing by now is created without a schema and refused.
StartWrite(w) ==
    /\ Writes /\ w \in starting
    /\ starting' = starting \ {w}
    /\ IF Ready(live)
       THEN live' = With(live, w) /\ acknowledged' = acknowledged \cup {w}
       ELSE live' = Blank /\ UNCHANGED acknowledged
    /\ UNCHANGED <<candidate, backup, failed, intent, lock, pc, choice, crashes>>

\* A process dies inside `initialize', after it created the file.
InitializeCrash ==
    /\ Writes /\ live = NoFile /\ crashes < MaxCrashes
    /\ live' = Blank /\ crashes' = crashes + 1
    /\ UNCHANGED <<candidate, backup, failed, intent, lock, pc, choice, starting, acknowledged>>

Init ==
    /\ live \in {NoFile, Database({Old})}
    /\ candidate = [i \in Import |-> NoFile] /\ backup = [i \in Import |-> NoFile]
    /\ failed = {} /\ intent = NoIntent /\ lock = Free
    /\ pc = [c \in Command |-> "idle"] /\ choice = [c \in Command |-> "none"]
    /\ starting = {} /\ disturbed = FALSE /\ crashes = 0
    /\ acknowledged = IF live = NoFile THEN {} ELSE {Old}

Next ==
    \/ \E c \in Command : Recover(c) \/ Crash(c)
    \/ \E i \in Import : ImportStep(i)
    \/ \E w \in Writer : Append(w) \/ StartInitialize(w) \/ StartWrite(w)
    \/ InitializeCrash

Spec == Init /\ [][Next]_vars

\* Somebody runs recovery again and again until no intent is left, and a
\* command that can go on does so: the lock is a flock, released by each step.
Fairness ==
    /\ \A c \in Command : WF_vars(Recover(c))
    /\ \A i \in Import : WF_vars(ImportStep(i))
FairSpec == Spec /\ Fairness

-----------------------------------------------------------------------------
(* Types; Holding are the steps taken under the lock *)

Databases == [kind : {"ledger"}, entries : SUBSET Entry]
Steps == {"idle", "waiting", "clearing", "placing", "tidying", "dropping", "recovered",
          "prepared", "announcing", "announced", "cleared", "activated", "checked", "ended"}
Recovering == {"clearing", "placing", "tidying", "dropping"}
Holding == Recovering \cup {"announcing", "announced", "cleared"}

\* What a command knows while it holds the lock.
LockProtects ==
    \A c \in Command :
        /\ lock = c <=> pc[c] \in Holding
        /\ pc[c] \in Recovering => intent \in Import
        /\ pc[c] = "placing" => live = NoFile
        /\ pc[c] \in {"announcing", "announced"} => live # Blank

TypeOK ==
    /\ live \in Databases \cup {NoFile, Blank}
    /\ candidate \in [Import -> {NoFile} \cup Databases]
    /\ backup \in [Import -> {NoFile} \cup Databases]
    /\ failed \subseteq Databases \cup {Blank}
    /\ intent \in Import \cup {NoIntent, Torn}
    /\ lock \in Command \cup {Free}
    /\ pc \in [Command -> Steps]
    /\ choice \in [Command -> {"none", "live", "candidate", "backup"}]
    /\ starting \subseteq Writer /\ disturbed \in BOOLEAN /\ acknowledged \subseteq Entry
    /\ crashes \in 0..MaxCrashes
    /\ LockProtects

-----------------------------------------------------------------------------
(* Properties *)

\* The files that keep what was acknowledged.
Keeping == {live} \cup {backup[i] : i \in Import} \cup failed

\* No entry that was acknowledged ever leaves the disk: it is in the live
\* ledger, in a backup or in a copy recovery set aside, at every step of every
\* interleaving of imports, recoveries, writers and crashes.
KeptOnDisk ==
    \A e \in acknowledged :
        \E file \in Keeping : e \in file.entries

\* An intent that is on disk in full does not stay for ever: wherever the import
\* died, a recovery that is tried again and again gets to the end of it.  If it
\* dies as well, or somebody writes first, it may leave one that nobody can resolve
\* (recover_import).
WrittenIntentResolved ==
    (intent \in Import) ~> (intent = NoIntent \/ crashes > 1 \/ disturbed)

\* The ledger as it will be once recovery has run: the candidate takes over in
\* the step that moves the live file out of its way.
Effective ==
    IF intent \notin Import THEN live
    ELSE CASE Resolution(intent) = "candidate" -> candidate[intent]
           [] Resolution(intent) = "backup" -> backup[intent]
           [] OTHER -> live

Atomic == INSTANCE AtomicImport
    WITH exists <- Ready(Effective), entries <- Effective.entries,
         PackOf <- [i \in Import |-> PackOf[i].entries]

\* Until somebody writes beside a pending intent, moving the files one by one,
\* dying in between and recovering is one atomic replacement of the ledger.
ImplementsAtomicImport == Atomic!Init /\ [][disturbed' \/ Atomic!Next]_(Atomic!vars)

=============================================================================

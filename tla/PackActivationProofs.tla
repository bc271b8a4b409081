------------------------ MODULE PackActivationProofs ------------------------
(***************************************************************************)
(* No acknowledged entry leaves the disk, and activation implements        *)
(* AtomicImport, for any number of imports, recoveries, writers and        *)
(* crashes.                                                                *)
(***************************************************************************)
EXTENDS PackActivation, TLAPS

\* Why it is inductive: a file is only written over when it holds nothing.  The
\* recovery that is about to place a file has moved the live one away and holds
\* the lock; an import that has not moved the live ledger yet has no backup.
BackupIsFree ==
    \A i \in Import :
        pc[i] \notin {"cleared", "activated", "checked", "ended"} => backup[i] = NoFile
KeptInv == TypeOK /\ BackupIsFree /\ KeptOnDisk

LEMMA InitKept == Init => KeptInv
<1> SUFFICES ASSUME Init PROVE KeptInv
  OBVIOUS
<1>0. disturbed \in BOOLEAN
  BY DEF Init
<1>1. TypeOK
  BY <1>0, ActivationAssumption
  DEF Init, TypeOK, Databases, Database, NoFile, Entry, Command, Steps, Holding,
      Recovering, LockProtects
<1>2. KeptOnDisk
  BY DEF Init, KeptOnDisk, Keeping, Database
<1> QED
  BY <1>1, <1>2 DEF Init, KeptInv, BackupIsFree

\* A file with one entry more is a database still.
LEMMA WithTyped ==
    ASSUME NEW file \in Databases \cup {NoFile, Blank}, NEW e \in Entry
    PROVE  /\ With(file, e) \in Databases
           /\ With(file, e).entries = file.entries \cup {e}
<1>1. file.entries \in SUBSET Entry
  BY DEF Databases, NoFile, Blank
<1> QED
  BY <1>1 DEF With, Database, Databases

LEMMA PackTyped == \A i \in Import : PackOf[i] \in Databases
BY DEF PackOf, Database, Databases, Entry

\* A step of a command: where it goes, whether it has the lock after, and what
\* it knows then.  Nobody else has the lock, or nothing is changed but pc.
LEMMA StepLocked ==
    ASSUME TypeOK, NEW c \in Command, NEW step \in Steps, Goes(c, step),
           lock' \in {lock, c, Free}, (lock' = c) <=> step \in Holding,
           lock \in {c, Free} \/ (lock' = lock /\ UNCHANGED <<live, intent>>),
           step \in Recovering => intent' \in Import,
           step = "placing" => live' = NoFile,
           step \in {"announcing", "announced"} => live' # Blank
    PROVE  /\ pc' \in [Command -> Steps]
           /\ lock' \in Command \cup {Free}
           /\ LockProtects'
<1>1. Free \notin Command
  BY ActivationAssumption
<1>2. \A d \in Command : pc'[d] = IF d = c THEN step ELSE pc[d]
  BY DEF Goes, TypeOK
<1>3. \A d \in Command \ {c} : lock' = d <=> lock = d
  BY <1>1, <1>2 DEF TypeOK, LockProtects
<1>4. ASSUME NEW d \in Command \ {c}, pc[d] \in Holding
      PROVE  UNCHANGED <<live, intent>>
  BY <1>1, <1>4 DEF TypeOK, LockProtects
<1>5. pc' \in [Command -> Steps] /\ lock' \in Command \cup {Free}
  BY DEF Goes, TypeOK
<1>6. ASSUME NEW d \in Command
      PROVE  /\ lock' = d <=> pc'[d] \in Holding
             /\ pc'[d] \in Recovering => intent' \in Import
             /\ pc'[d] = "placing" => live' = NoFile
             /\ pc'[d] \in {"announcing", "announced"} => live' # Blank
  <2>1. CASE d = c
    BY <1>2, <2>1
  <2>2. CASE d # c
    BY <1>2, <1>3, <1>4, <2>2 DEF TypeOK, LockProtects, Holding, Recovering
  <2> QED
    BY <2>1, <2>2
<1> QED
  BY <1>5, <1>6 DEF LockProtects

LEMMA RecoverTyped ==
    ASSUME TypeOK, NEW c \in Command, Recover(c)
    PROVE  TypeOK'
<1>0. disturbed' \in BOOLEAN /\ starting' = starting
  BY DEF Recover, RecoverLook, RecoverDecide, RecoverAside, RecoverPlace, RecoverTidy,
         RecoverDrop, writing, TypeOK
<1>1. Free \notin Command /\ Import \subseteq Command
  BY ActivationAssumption DEF Command
<1>2. /\ intent \in Import \cup {NoIntent, Torn} /\ (lock = c <=> pc[c] \in Holding)
      /\ pc[c] \in Recovering => intent \in Import
      /\ pc[c] = "placing" => live = NoFile
  BY DEF TypeOK, LockProtects
<1>3. CASE RecoverLook(c)
  BY <1>0, <1>1, <1>2, <1>3, StepLocked DEF RecoverLook, TypeOK, files, Steps, Holding, Recovering
<1>4. CASE RecoverDecide(c)
  BY <1>0, <1>1, <1>2, <1>4, StepLocked
  DEF RecoverDecide, TypeOK, files, Steps, Holding, Recovering, Over, Resolution
<1>5. CASE RecoverAside(c)
  BY <1>0, <1>1, <1>2, <1>5, StepLocked DEF RecoverAside, TypeOK, Steps, Holding, Recovering
<1>6. CASE RecoverPlace(c)
  BY <1>0, <1>1, <1>2, <1>6, StepLocked DEF RecoverPlace, TypeOK, Steps, Holding, Recovering
<1>7. CASE RecoverTidy(c)
  BY <1>0, <1>1, <1>2, <1>7, StepLocked DEF RecoverTidy, TypeOK, Steps, Holding, Recovering
<1>8. CASE RecoverDrop(c)
  BY <1>0, <1>1, <1>2, <1>8, StepLocked DEF RecoverDrop, TypeOK, Steps, Holding, Recovering, Onward
<1> QED
  BY <1>3, <1>4, <1>5, <1>6, <1>7, <1>8 DEF Recover

LEMMA ImportTyped ==
    ASSUME TypeOK, NEW i \in Import, ImportStep(i)
    PROVE  TypeOK'
<1>0. disturbed' \in BOOLEAN /\ starting' = starting
  BY DEF ImportStep, Prepare, Announce, WriteIntent, SetLiveAside, Activate, FinalCheck,
         Finish, writing, TypeOK
<1>1. Free \notin Command /\ i \in Command
  BY ActivationAssumption DEF Command
<1>2. /\ lock = i <=> pc[i] \in Holding
      /\ pc[i] \in {"announcing", "announced"} => live # Blank
  BY <1>1 DEF TypeOK, LockProtects
<1>10. NoFile # Blank
  BY DEF NoFile, Blank
<1>3. CASE Prepare(i)
  BY <1>0, <1>1, <1>2, <1>3, StepLocked, PackTyped DEF Prepare, TypeOK, Steps, Holding, Recovering
<1>4. CASE Announce(i)
  BY <1>0, <1>1, <1>2, <1>4, StepLocked DEF Announce, TypeOK, Steps, Holding, Recovering
<1>5. CASE WriteIntent(i)
  BY <1>0, <1>1, <1>2, <1>5, StepLocked DEF WriteIntent, TypeOK, Steps, Holding, Recovering
<1>6. CASE SetLiveAside(i)
  BY <1>0, <1>1, <1>2, <1>6, StepLocked DEF SetLiveAside, TypeOK, Steps, Holding, Recovering
<1>7. CASE Activate(i)
  BY <1>0, <1>1, <1>2, <1>7, StepLocked DEF Activate, TypeOK, Steps, Holding, Recovering
<1>8. CASE FinalCheck(i)
  BY <1>0, <1>1, <1>2, <1>8, StepLocked DEF FinalCheck, TypeOK, files, Steps, Holding, Recovering
<1>9. CASE Finish(i)
  BY <1>0, <1>1, <1>2, <1>9, StepLocked DEF Finish, TypeOK, Steps, Holding, Recovering
<1> QED
  BY <1>3, <1>4, <1>5, <1>6, <1>7, <1>8, <1>9 DEF ImportStep

\* Who has no lock knows nothing that others could spoil.
LEMMA UnlockedIs ==
    ASSUME TypeOK, lock = Free, UNCHANGED <<lock, pc>>
    PROVE  LockProtects'
<1>1. \A c \in Command : pc[c] \notin Holding
  BY ActivationAssumption DEF TypeOK, LockProtects
<1> QED
  BY <1>1, ActivationAssumption DEF LockProtects, Holding, Recovering

LEMMA WriterTyped ==
    ASSUME TypeOK, NEW w \in Writer, Append(w) \/ StartInitialize(w) \/ StartWrite(w)
    PROVE  TypeOK'
<1>0. disturbed' \in BOOLEAN
  BY DEF Append, StartInitialize, StartWrite, Writes, TypeOK
<1>1. w \in Entry
  BY DEF Entry
<1>2. With(live, w) \in Databases
  BY <1>1, WithTyped DEF TypeOK
<1>3. Database({}) \in Databases
  BY DEF Database, Databases
<1>7. LockProtects'
  BY UnlockedIs DEF Append, StartInitialize, StartWrite, Writes
<1>4. CASE Append(w)
  BY <1>0, <1>1, <1>2, <1>4, <1>7 DEF Append, TypeOK
<1>5. CASE StartInitialize(w)
  BY <1>0, <1>3, <1>5, <1>7 DEF StartInitialize, TypeOK
<1>6. CASE StartWrite(w)
  BY <1>0, <1>1, <1>2, <1>6, <1>7 DEF StartWrite, TypeOK
<1> QED
  BY <1>4, <1>5, <1>6

LEMMA CrashTyped ==
    ASSUME TypeOK, (\E c \in Command : Crash(c)) \/ InitializeCrash
    PROVE  TypeOK'
<1>1. ASSUME NEW c \in Command, Crash(c) PROVE TypeOK'
  <2>1. crashes + 1 \in 0..MaxCrashes
    BY <1>1, ActivationAssumption DEF Crash, TypeOK
  <2>2. Free \notin Command /\ disturbed' \in BOOLEAN /\ starting' = starting
    BY <1>1, ActivationAssumption DEF Crash, TypeOK, writing
  <2> QED
    BY <1>1, <2>1, <2>2, StepLocked DEF Crash, TypeOK, files, Steps, Holding, Recovering, Over
<1>2. CASE InitializeCrash
  <2>1. crashes + 1 \in 0..MaxCrashes
    BY <1>2, ActivationAssumption DEF InitializeCrash, TypeOK
  <2>2. disturbed' \in BOOLEAN
    BY <1>2 DEF InitializeCrash, Writes, TypeOK
  <2> QED
    BY <1>2, <2>1, <2>2, UnlockedIs DEF InitializeCrash, Writes, TypeOK
<1> QED
  BY <1>1, <1>2

THEOREM ActivationTyped == Spec => []TypeOK
<1>1. Init => TypeOK
  BY InitKept DEF KeptInv
<1>2. TypeOK /\ [Next]_vars => TypeOK'
  <2> SUFFICES ASSUME TypeOK, [Next]_vars PROVE TypeOK'
    OBVIOUS
  <2>1. CASE Next
    BY <2>1, RecoverTyped, ImportTyped, WriterTyped, CrashTyped DEF Next
  <2>2. CASE UNCHANGED vars
    BY <2>2 DEF vars, TypeOK, LockProtects
  <2> QED
    BY <2>1, <2>2
<1> QED
  BY <1>1, <1>2, PTL DEF Spec

\* What is kept stays kept when every file that holds something is still held,
\* under its name or another one.
LEMMA CopiesKeep ==
    ASSUME KeptOnDisk, acknowledged' = acknowledged,
           \A file \in Keeping : file.entries # {} =>
              \E copy \in Keeping' : file.entries \subseteq copy.entries
    PROVE  KeptOnDisk'
BY DEF KeptOnDisk

LEMMA NothingThere == NoFile.entries = {} /\ Blank.entries = {}
BY DEF NoFile, Blank

LEMMA RecoverKeeps ==
    ASSUME TypeOK, BackupIsFree, KeptOnDisk, NEW c \in Command, Recover(c)
    PROVE  BackupIsFree' /\ KeptOnDisk'
<1>1. Import \subseteq Command
  BY DEF Command
<1>2. CASE RecoverLook(c) \/ RecoverDecide(c) \/ RecoverTidy(c) \/ RecoverDrop(c)
  <2>1. UNCHANGED <<live, backup, failed, acknowledged>>
    BY <1>2 DEF RecoverLook, RecoverDecide, RecoverTidy, RecoverDrop, files
  <2>2. KeptOnDisk'
    BY <2>1 DEF KeptOnDisk, Keeping
  <2>3. ASSUME NEW i \in Import,
               pc'[i] \notin {"cleared", "activated", "checked", "ended"}
        PROVE  pc[i] \notin {"cleared", "activated", "checked", "ended"}
    BY <1>1, <1>2, <2>3
    DEF RecoverLook, RecoverDecide, RecoverTidy, RecoverDrop, Goes, Over, Onward, TypeOK
  <2> QED
    BY <2>1, <2>2, <2>3 DEF BackupIsFree
<1>3. CASE RecoverAside(c)
  <2>1. KeptOnDisk'
    BY <1>3, CopiesKeep DEF RecoverAside, Keeping
  <2>2. BackupIsFree'
    BY <1>1, <1>3 DEF RecoverAside, BackupIsFree, Goes, TypeOK
  <2> QED
    BY <2>1, <2>2
<1>4. CASE RecoverPlace(c)
  <2>1. live = NoFile /\ intent \in Import
    BY <1>4 DEF RecoverPlace, TypeOK, LockProtects, Recovering
  <2>2. \A file \in Keeping : file.entries # {} => file \in Keeping'
    BY <1>4, <2>1, NothingThere DEF RecoverPlace, Keeping, TypeOK
  <2>3. KeptOnDisk'
    BY <1>4, <2>2, CopiesKeep DEF RecoverPlace
  <2>4. BackupIsFree'
    BY <1>1, <1>4, <2>1 DEF RecoverPlace, BackupIsFree, Goes, TypeOK
  <2> QED
    BY <2>3, <2>4
<1> QED
  BY <1>2, <1>3, <1>4 DEF Recover

LEMMA ImportKeeps ==
    ASSUME TypeOK, BackupIsFree, KeptOnDisk, NEW i \in Import, ImportStep(i)
    PROVE  BackupIsFree' /\ KeptOnDisk'
<1>1. i \in Command
  BY DEF Command
<1>2. CASE Prepare(i) \/ Announce(i) \/ WriteIntent(i) \/ FinalCheck(i) \/ Finish(i)
  <2>1. UNCHANGED <<live, backup, failed, acknowledged>>
    BY <1>2 DEF Prepare, Announce, WriteIntent, FinalCheck, Finish, files
  <2>2. KeptOnDisk'
    BY <2>1 DEF KeptOnDisk, Keeping
  <2>3. \A j \in Import : pc'[j] \notin {"cleared", "activated", "checked", "ended"} =>
                             pc[j] \notin {"cleared", "activated", "checked", "ended"}
    <3>1. PICK step \in Steps :
             /\ Goes(i, step)
             /\ step \notin {"cleared", "activated", "checked", "ended"} =>
                   pc[i] \notin {"cleared", "activated", "checked", "ended"}
      BY <1>2 DEF Prepare, Announce, WriteIntent, FinalCheck, Finish, Steps
    <3>2. Import \subseteq Command
      BY DEF Command
    <3> QED
      BY <1>1, <3>1, <3>2 DEF Goes, TypeOK
  <2> QED
    BY <2>1, <2>2, <2>3 DEF BackupIsFree
<1>3. CASE SetLiveAside(i)
  <2>1. backup[i] = NoFile
    BY <1>3 DEF SetLiveAside, BackupIsFree
  <2>2. \A file \in Keeping : file.entries # {} => file \in Keeping'
    BY <1>3, <2>1, NothingThere DEF SetLiveAside, Keeping, TypeOK
  <2>3. KeptOnDisk'
    BY <1>3, <2>2, CopiesKeep DEF SetLiveAside
  <2>4. BackupIsFree'
    BY <1>1, <1>3 DEF SetLiveAside, BackupIsFree, Goes, TypeOK
  <2> QED
    BY <2>3, <2>4
<1>4. CASE Activate(i)
  <2>1. \A file \in Keeping : file.entries # {} => file \in Keeping'
    BY <1>4, NothingThere DEF Activate, Keeping
  <2>2. KeptOnDisk'
    BY <1>4, <2>1, CopiesKeep DEF Activate
  <2>3. BackupIsFree'
    BY <1>1, <1>4 DEF Activate, BackupIsFree, Goes, TypeOK
  <2> QED
    BY <2>2, <2>3
<1> QED
  BY <1>2, <1>3, <1>4 DEF ImportStep

LEMMA WriterKeeps ==
    ASSUME TypeOK, BackupIsFree, KeptOnDisk, NEW w \in Writer,
           Append(w) \/ StartInitialize(w) \/ StartWrite(w)
    PROVE  BackupIsFree' /\ KeptOnDisk'
<1>1. BackupIsFree' /\ UNCHANGED <<backup, failed>>
  BY DEF Append, StartInitialize, StartWrite, BackupIsFree
<1>2. w \in Entry
  BY DEF Entry
<1>3. With(live, w).entries = live.entries \cup {w}
  BY <1>2, WithTyped DEF TypeOK
<1>4. ~Ready(live) => live.entries = {}
  BY NothingThere DEF TypeOK, Ready, Databases
<1>5. CASE live' = With(live, w) /\ acknowledged' = acknowledged \cup {w}
  <2>1. w \in live'.entries /\ live.entries \subseteq live'.entries
    BY <1>3, <1>5
  <2> QED
    BY <1>1, <1>5, <2>1 DEF KeptOnDisk, Keeping
<1>6. CASE live' = live /\ acknowledged' = acknowledged
  BY <1>1, <1>6 DEF KeptOnDisk, Keeping
<1>7. CASE ~Ready(live) /\ acknowledged' = acknowledged
  BY <1>1, <1>4, <1>7 DEF KeptOnDisk, Keeping
<1> QED
  BY <1>5, <1>6, <1>7 DEF Append, StartInitialize, StartWrite

LEMMA CrashKeeps ==
    ASSUME TypeOK, BackupIsFree, KeptOnDisk,
           (\E c \in Command : Crash(c)) \/ InitializeCrash
    PROVE  BackupIsFree' /\ KeptOnDisk'
<1>1. ASSUME NEW c \in Command, Crash(c) PROVE BackupIsFree' /\ KeptOnDisk'
  <2>1. UNCHANGED <<live, backup, failed, acknowledged>>
    BY <1>1 DEF Crash, files
  <2>2. KeptOnDisk'
    BY <2>1 DEF KeptOnDisk, Keeping
  <2>3. \A i \in Import : pc'[i] \in {pc[i], "ended"}
    BY <1>1 DEF Crash, Goes, Over, TypeOK, Command
  <2> QED
    BY <2>1, <2>2, <2>3 DEF BackupIsFree
<1>2. CASE InitializeCrash
  BY <1>2, NothingThere DEF InitializeCrash, KeptOnDisk, Keeping, BackupIsFree
<1> QED
  BY <1>1, <1>2

\* For any number of imports, recoveries, writers and crashes: no rename or
\* unlink of import_pack or recover_import removes the last file that holds an
\* acknowledged entry.
THEOREM NothingLost == Spec => []KeptOnDisk
<1>1. Init => KeptInv
  BY InitKept
<1>2. TypeOK /\ BackupIsFree /\ KeptOnDisk /\ [Next]_vars => BackupIsFree' /\ KeptOnDisk'
  <2> SUFFICES ASSUME TypeOK, BackupIsFree, KeptOnDisk, [Next]_vars
               PROVE  BackupIsFree' /\ KeptOnDisk'
    OBVIOUS
  <2>1. CASE Next
    BY <2>1, RecoverKeeps, ImportKeeps, WriterKeeps, CrashKeeps DEF Next
  <2>2. CASE UNCHANGED vars
    BY <2>2 DEF vars, BackupIsFree, KeptOnDisk, Keeping
  <2> QED
    BY <2>1, <2>2
<1> QED
  BY <1>1, <1>2, ActivationTyped, PTL DEF Spec, KeptInv

-----------------------------------------------------------------------------
(* The refinement: moving the files one by one is one atomic replacement *)

\* How far the import of a pending intent has come: its pack is about to take
\* the place of no file, the ledger it is to replace is still there, or the pack
\* is the ledger.
Stage(i) ==
    \/ candidate[i] = PackOf[i] /\ live = NoFile
    \/ Ready(live) /\ backup[i] = NoFile /\ candidate[i] \in {PackOf[i], NoFile}
    \/ live = PackOf[i] /\ candidate[i] = NoFile

\* The candidate of an import that has not activated it is there in full, and
\* the intent is the one it wrote; an import reaches its intent only once.
OwnFiles ==
    \A i \in Import :
        /\ pc[i] \in {"prepared", "announcing", "announced", "cleared"} =>
              candidate[i] = PackOf[i]
        /\ pc[i] \in {"announced", "cleared"} => intent = i
        /\ intent = i => pc[i] \in {"announced", "cleared", "activated", "checked", "ended"}

\* While an intent is pending that nobody disturbed, the files are at one of its
\* stages and no recovery goes back to the backup or sets a live file aside.
Staged ==
    ~disturbed /\ intent \in Import =>
        /\ Stage(intent)
        /\ pc[intent] \in {"activated", "checked"} => live # NoFile
        /\ \A c \in Command :
              /\ pc[c] # "clearing"
              /\ pc[c] = "placing" => choice[c] = "candidate"
              /\ pc[c] \in {"tidying", "dropping"} => live # NoFile

ActivationInv == TypeOK /\ BackupIsFree /\ OwnFiles /\ Staged

\* There is one lock.
LEMMA OneHolder ==
    ASSUME TypeOK, NEW c \in Command, NEW d \in Command, pc[c] \in Holding, pc[d] \in Holding
    PROVE  c = d /\ lock = c /\ lock # Free
BY ActivationAssumption DEF TypeOK, LockProtects

\* A pack is a ledger and no missing file.
LEMMA PackIsLedger ==
    \A i \in Import : PackOf[i] # NoFile /\ Ready(PackOf[i]) /\ PackOf[i] # Blank
BY DEF PackOf, Database, NoFile, Blank, Ready

LEMMA NothingReady == ~Ready(NoFile) /\ ~Ready(Blank)
BY DEF NoFile, Blank, Ready

\* What recovery finds at each stage: the pack, or the ledger that is there.
LEMMA StageResolves ==
    ASSUME TypeOK, NEW i \in Import, Stage(i)
    PROVE  /\ live = NoFile => Resolution(i) = "candidate" /\ candidate[i] = PackOf[i]
           /\ live # NoFile => Resolution(i) \in {"live", "none"} /\ Ready(live)
<1>1. PackOf[i] # NoFile /\ Ready(PackOf[i])
  BY PackIsLedger
<1>2. CASE candidate[i] = PackOf[i] /\ live = NoFile
  BY <1>1, <1>2, NothingReady DEF Resolution, LiveReady, CandidateReady
<1>3. CASE Ready(live) /\ backup[i] = NoFile /\ candidate[i] \in {PackOf[i], NoFile}
  BY <1>1, <1>3, NothingReady DEF Resolution, LiveReady, CandidateReady
<1>4. CASE live = PackOf[i] /\ candidate[i] = NoFile
  BY <1>1, <1>4, NothingReady DEF Resolution, LiveReady, CandidateReady
<1> QED
  BY <1>2, <1>3, <1>4 DEF Stage

\* The ledger as it will be: the pack of a pending intent once the live file has
\* made room for it, and the live file otherwise.
LEMMA EffectiveIs ==
    TypeOK /\ Staged /\ ~disturbed =>
        Effective = IF intent \in Import /\ live = NoFile THEN PackOf[intent] ELSE live
<1> SUFFICES ASSUME TypeOK, Staged, ~disturbed
             PROVE  Effective = IF intent \in Import /\ live = NoFile
                                THEN PackOf[intent] ELSE live
  OBVIOUS
<1>1. CASE intent \in Import
  <2>1. Stage(intent)
    BY <1>1 DEF Staged
  <2>2. CASE live = NoFile
    BY <1>1, <2>1, <2>2, StageResolves DEF Effective
  <2>3. CASE live # NoFile
    <3>1. Resolution(intent) \in {"live", "none"}
      BY <1>1, <2>1, <2>3, StageResolves
    <3>2. Resolution(intent) # "candidate" /\ Resolution(intent) # "backup"
      BY <3>1
    <3> QED
      BY <1>1, <2>3, <3>2 DEF Effective
  <2> QED
    BY <2>2, <2>3
<1>2. CASE intent \notin Import
  BY <1>2 DEF Effective
<1> QED
  BY <1>1, <1>2

\* What Staged says while an intent is pending.
LEMMA PendingIs ==
    ASSUME Staged, ~disturbed, intent \in Import, NEW c \in Command
    PROVE  /\ Stage(intent)
           /\ pc[intent] \in {"activated", "checked"} => live # NoFile
           /\ pc[c] # "clearing"
           /\ pc[c] = "placing" => choice[c] = "candidate"
           /\ pc[c] \in {"tidying", "dropping"} => live # NoFile
BY DEF Staged

\* A disturbance is never forgotten.
LEMMA DisturbedStays == TypeOK /\ [Next]_vars /\ disturbed => disturbed'
BY DEF Next, Recover, RecoverLook, RecoverDecide, RecoverAside, RecoverPlace, RecoverTidy,
       RecoverDrop, ImportStep, Prepare, Announce, WriteIntent, SetLiveAside, Activate,
       FinalCheck, Finish, Crash, Append, StartInitialize, StartWrite, InitializeCrash, Writes,
       writing, vars

\* An import keeps its candidate and its intent until it activates it.
LEMMA RecoverOwn ==
    ASSUME TypeOK, OwnFiles, NEW c \in Command, Recover(c)
    PROVE  OwnFiles'
<1>1. Import \subseteq Command
  BY DEF Command
<1>2. pc[c] \notin {"announced", "cleared", "activated", "checked", "ended"}
      /\ pc[c] \notin {"prepared", "announcing"}
  BY DEF Recover, RecoverLook, RecoverDecide, RecoverAside, RecoverPlace, RecoverTidy, RecoverDrop
<1>3. PICK step \in {"idle", "waiting", "clearing", "placing", "tidying", "dropping",
                     "recovered", "ended"} : Goes(c, step)
  BY DEF Recover, RecoverLook, RecoverDecide, RecoverAside, RecoverPlace, RecoverTidy,
         RecoverDrop, Over, Onward
<1>4. \A i \in Import : pc'[i] = IF i = c THEN step ELSE pc[i]
  BY <1>1, <1>3 DEF Goes, TypeOK
<1>5. intent' \in {intent, NoIntent} /\ (intent' # intent => pc[c] = "dropping")
  BY DEF Recover, RecoverLook, RecoverDecide, RecoverAside, RecoverPlace, RecoverTidy,
         RecoverDrop, files
<1>6. \A i \in Import : candidate'[i] # candidate[i] =>
                           i = intent /\ pc[c] \in {"placing", "tidying"}
  BY DEF Recover, RecoverLook, RecoverDecide, RecoverAside, RecoverPlace, RecoverTidy,
         RecoverDrop, files, TypeOK
<1>7. ASSUME NEW i \in Import PROVE intent = i => i # c
  BY <1>2, <1>7 DEF OwnFiles
<1>8. ASSUME NEW i \in Import, i # c, pc[i] \in {"announcing", "announced", "cleared"}
      PROVE  pc[c] \notin {"placing", "tidying", "dropping"}
  BY <1>1, <1>8, OneHolder DEF Holding, Recovering
<1>9. NoIntent \notin Import
  BY ActivationAssumption
<1>10. ASSUME NEW i \in Import
       PROVE  /\ pc'[i] \in {"prepared", "announcing", "announced", "cleared"} =>
                    candidate'[i] = PackOf[i]
              /\ pc'[i] \in {"announced", "cleared"} => intent' = i
              /\ intent' = i =>
                    pc'[i] \in {"announced", "cleared", "activated", "checked", "ended"}
  <2>1. CASE i = c
    BY <1>3, <1>4, <1>5, <1>7, <1>9, <2>1
  <2>2. CASE i # c
    <3>1. pc'[i] = pc[i]
      BY <1>4, <2>2
    <3>2. pc[i] \in {"prepared", "announcing", "announced", "cleared"} => candidate'[i] = PackOf[i]
      BY <1>6, <1>8, <2>2 DEF OwnFiles
    <3>3. pc[i] \in {"announced", "cleared"} => intent' = i
      BY <1>5, <1>8, <2>2 DEF OwnFiles
    <3>4. intent' = i => intent = i
      BY <1>5, <1>9
    <3> QED
      BY <3>1, <3>2, <3>3, <3>4 DEF OwnFiles
  <2> QED
    BY <2>1, <2>2
<1> QED
  BY <1>10 DEF OwnFiles

LEMMA ImportOwn ==
    ASSUME TypeOK, OwnFiles, NEW j \in Import, ImportStep(j)
    PROVE  OwnFiles'
<1>1. Import \subseteq Command /\ NoIntent \notin Import /\ Torn \notin Import
  BY ActivationAssumption DEF Command
<1>2. ASSUME NEW i \in Import, i # j, pc[i] \in {"announced", "cleared"}
      PROVE  lock # Free /\ pc[j] \notin {"announcing", "announced", "cleared"}
  BY <1>1, <1>2, OneHolder DEF Holding, Recovering
<1>3. ASSUME NEW step \in Steps, Goes(j, step),
             \A i \in Import \ {j} : candidate'[i] = candidate[i],
             intent' \in {intent, NoIntent, Torn} \/ intent' = j,
             intent' = intent \/ lock = Free \/ pc[j] = "announcing",
             step \in {"prepared", "announcing", "announced", "cleared"} =>
                candidate'[j] = PackOf[j],
             step \in {"announced", "cleared"} => intent' = j,
             intent' = j => step \in {"announced", "cleared", "activated", "checked", "ended"}
      PROVE  OwnFiles'
  <2>1. \A i \in Import : pc'[i] = IF i = j THEN step ELSE pc[i]
    BY <1>1, <1>3 DEF Goes, TypeOK
  <2>2. ASSUME NEW i \in Import
        PROVE  /\ pc'[i] \in {"prepared", "announcing", "announced", "cleared"} =>
                     candidate'[i] = PackOf[i]
               /\ pc'[i] \in {"announced", "cleared"} => intent' = i
               /\ intent' = i =>
                     pc'[i] \in {"announced", "cleared", "activated", "checked", "ended"}
    <3>1. CASE i = j
      BY <1>3, <2>1, <3>1
    <3>2. CASE i # j
      <4>1. intent' = i => intent = i
        BY <1>1, <1>3, <3>2
      <4> QED
        BY <1>2, <1>3, <2>1, <3>2, <4>1 DEF OwnFiles
    <3> QED
      BY <3>1, <3>2
  <2> QED
    BY <2>2 DEF OwnFiles
<1>5. pc[j] \in {"prepared", "announcing", "announced", "cleared"} => candidate[j] = PackOf[j]
  BY DEF OwnFiles
<1>6. /\ pc[j] \in {"announced", "cleared"} => intent = j
      /\ intent = j => pc[j] \in {"announced", "cleared", "activated", "checked", "ended"}
  BY DEF OwnFiles
<1>11. CASE Prepare(j)
  BY <1>3, <1>5, <1>6, <1>11 DEF Prepare, TypeOK, Steps
<1>12. CASE Announce(j)
  BY <1>1, <1>3, <1>5, <1>6, <1>12 DEF Announce, Steps
<1>13. CASE WriteIntent(j)
  BY <1>3, <1>5, <1>13 DEF WriteIntent, Steps
<1>14. CASE SetLiveAside(j)
  BY <1>3, <1>5, <1>6, <1>14 DEF SetLiveAside, Steps
<1>15. CASE Activate(j)
  BY <1>3, <1>6, <1>15 DEF Activate, TypeOK, Steps
<1>16. CASE FinalCheck(j)
  BY <1>3, <1>16 DEF FinalCheck, files, Steps
<1>17. CASE Finish(j)
  BY <1>1, <1>3, <1>17 DEF Finish, Steps
<1> QED
  BY <1>11, <1>12, <1>13, <1>14, <1>15, <1>16, <1>17 DEF ImportStep

LEMMA OwnFilesStay == TypeOK /\ OwnFiles /\ [Next]_vars => OwnFiles'
<1> SUFFICES ASSUME TypeOK, OwnFiles, [Next]_vars PROVE OwnFiles'
  OBVIOUS
<1>1. ASSUME NEW c \in Command, Crash(c) PROVE OwnFiles'
  <2>1. \A i \in Import : pc'[i] \in {pc[i], "ended"}
    BY <1>1 DEF Crash, Goes, Over, TypeOK, Command
  <2> QED
    BY <1>1, <2>1 DEF Crash, files, OwnFiles
<1>2. CASE UNCHANGED <<candidate, intent, pc>>
  BY <1>2 DEF OwnFiles
<1>3. CASE (\E w \in Writer : Append(w) \/ StartInitialize(w) \/ StartWrite(w)) \/ InitializeCrash
  BY <1>2, <1>3 DEF Append, StartInitialize, StartWrite, InitializeCrash
<1>4. CASE UNCHANGED vars
  BY <1>2, <1>4 DEF vars
<1> QED
  BY <1>1, <1>3, <1>4, RecoverOwn, ImportOwn DEF Next

\* A command that holds the lock is alone with it.
LEMMA AloneWith ==
    ASSUME TypeOK, NEW c \in Command, pc[c] \in Holding
    PROVE  \A d \in Command \ {c} : pc[d] \notin Recovering
BY OneHolder DEF Holding

\* A step that only moves the program counter of a command, to one that holds no
\* lock, or from one recovery step to the next.
LEMMA StagedMoves ==
    ASSUME TypeOK, Staged, NEW c \in Command, NEW step \in Steps, Goes(c, step),
           UNCHANGED <<live, candidate, backup, intent, choice, disturbed>>,
           step \in {"activated", "checked"} => pc[c] = step \/ live # NoFile,
           step \notin Recovering
    PROVE  Staged'
<1>1. \A d \in Command : pc'[d] = IF d = c THEN step ELSE pc[d]
  BY DEF Goes, TypeOK
<1> SUFFICES ASSUME ~disturbed', intent' \in Import
             PROVE  /\ Stage(intent)'
                    /\ pc'[intent'] \in {"activated", "checked"} => live' # NoFile
                    /\ \A d \in Command :
                          /\ pc'[d] # "clearing"
                          /\ pc'[d] = "placing" => choice'[d] = "candidate"
                          /\ pc'[d] \in {"tidying", "dropping"} => live' # NoFile
  BY DEF Staged
<1>2. Stage(intent)'
  BY DEF Staged, Stage
<1>3. pc'[intent'] \in {"activated", "checked"} => live' # NoFile
  BY <1>1 DEF Staged, Command
<1>4. \A d \in Command :
          /\ pc'[d] # "clearing"
          /\ pc'[d] = "placing" => choice'[d] = "candidate"
          /\ pc'[d] \in {"tidying", "dropping"} => live' # NoFile
  BY <1>1 DEF Staged, Recovering
<1> QED
  BY <1>2, <1>3, <1>4

LEMMA RecoverStaged ==
    ASSUME TypeOK, OwnFiles, Staged, NEW c \in Command, Recover(c)
    PROVE  Staged'
<1>1. UNCHANGED disturbed
  BY DEF Recover, RecoverLook, RecoverDecide, RecoverAside, RecoverPlace, RecoverTidy,
         RecoverDrop, writing
<1>2. NoIntent \notin Import /\ Import \subseteq Command
  BY ActivationAssumption DEF Command
<1>3. CASE RecoverLook(c)
  BY <1>3, StagedMoves DEF RecoverLook, files, writing, Steps, Recovering
<1>4. CASE RecoverDrop(c)
  BY <1>2, <1>4 DEF RecoverDrop, Staged
<1>5. CASE RecoverAside(c)
  BY <1>1, <1>5 DEF RecoverAside, Staged
<1>6. CASE RecoverDecide(c) /\ pc'[c] \notin Recovering
  <2>1. Goes(c, Over(c)) /\ UNCHANGED choice
    BY <1>6 DEF RecoverDecide, Goes, TypeOK, Recovering
  <2> QED
    BY <1>6, <2>1, StagedMoves DEF RecoverDecide, files, writing, Steps, Over, Recovering
<1>7. CASE RecoverDecide(c) /\ pc'[c] \in Recovering
  <2> SUFFICES ASSUME ~disturbed', intent' \in Import PROVE Staged'
    BY DEF Staged
  <2>1. UNCHANGED <<live, candidate, backup, intent>> /\ ~disturbed /\ intent \in Import
    BY <1>1, <1>7 DEF RecoverDecide, files
  <2>2. Stage(intent) /\ Stage(intent)'
    BY <2>1 DEF Staged, Stage
  <2>3. Resolution(intent) # "none" /\ choice' = [choice EXCEPT ![c] = Resolution(intent)]
        /\ Goes(c, IF Resolution(intent) = "live" THEN "tidying"
                   ELSE IF live = NoFile THEN "placing" ELSE "clearing")
    BY <1>7, <2>1 DEF RecoverDecide, Goes, TypeOK, Recovering, Over
  <2>4. CASE live = NoFile
    <3>1. Resolution(intent) = "candidate"
      BY <2>1, <2>2, <2>4, StageResolves
    <3>2. choice'[c] = "candidate" /\ Goes(c, "placing")
          /\ \A d \in Command \ {c} : choice'[d] = choice[d]
      BY <2>3, <2>4, <3>1 DEF TypeOK
    <3>3. \A d \in Command : pc'[d] = IF d = c THEN "placing" ELSE pc[d]
      BY <3>2 DEF Goes, TypeOK
    <3>4. pc'[intent'] \in {"activated", "checked"} => live' # NoFile
      BY <1>2, <2>1, <3>3 DEF Staged
    <3>5. \A d \in Command :
              /\ pc'[d] # "clearing"
              /\ pc'[d] = "placing" => choice'[d] = "candidate"
              /\ pc'[d] \in {"tidying", "dropping"} => live' # NoFile
      BY <2>1, <3>2, <3>3 DEF Staged
    <3> QED
      BY <2>2, <3>4, <3>5 DEF Staged
  <2>5. CASE live # NoFile
    <3>1. Resolution(intent) = "live"
      BY <2>1, <2>2, <2>3, <2>5, StageResolves
    <3>2. Goes(c, "tidying") /\ \A d \in Command \ {c} : choice'[d] = choice[d]
      BY <2>3, <3>1 DEF TypeOK
    <3>3. \A d \in Command : pc'[d] = IF d = c THEN "tidying" ELSE pc[d]
      BY <3>2 DEF Goes, TypeOK
    <3>4. \A d \in Command :
              /\ pc'[d] # "clearing"
              /\ pc'[d] = "placing" => choice'[d] = "candidate"
              /\ pc'[d] \in {"tidying", "dropping"} => live' # NoFile
      BY <2>1, <2>5, <3>2, <3>3 DEF Staged
    <3> QED
      BY <2>1, <2>2, <2>5, <3>4 DEF Staged
  <2> QED
    BY <2>4, <2>5
<1>8. CASE RecoverPlace(c) \/ RecoverTidy(c)
  <2> SUFFICES ASSUME ~disturbed', intent' \in Import PROVE Staged'
    BY DEF Staged
  <2>1. UNCHANGED <<intent, choice>> /\ ~disturbed /\ intent \in Import /\ pc[c] \in Holding
    BY <1>1, <1>8 DEF RecoverPlace, RecoverTidy, Holding, Recovering
  <2>2. Stage(intent)
    BY <2>1 DEF Staged
  <2>3. PICK step \in {"tidying", "dropping"} : Goes(c, step)
    BY <1>8 DEF RecoverPlace, RecoverTidy
  <2>4. \A d \in Command : pc'[d] = IF d = c THEN step ELSE pc[d]
    BY <2>3 DEF Goes, TypeOK
  <2>5. \A d \in Command \ {c} : pc'[d] \notin Recovering
    BY <2>1, <2>4, AloneWith
  <2>6. Stage(intent)' /\ live' # NoFile
    <3>1. CASE RecoverPlace(c)
      <4>1. live = NoFile /\ choice[c] = "candidate"
        BY <2>1, <3>1 DEF RecoverPlace, TypeOK, LockProtects, Staged
      <4>2. candidate[intent] = PackOf[intent] /\ PackOf[intent] # NoFile
        BY <2>1, <2>2, <4>1, StageResolves, PackIsLedger
      <4>3. live' = PackOf[intent] /\ candidate'[intent] = NoFile
        BY <2>1, <3>1, <4>1, <4>2 DEF RecoverPlace, TypeOK
      <4> QED
        BY <2>1, <4>2, <4>3 DEF Stage
    <3>2. CASE RecoverTidy(c)
      <4>1. live # NoFile /\ UNCHANGED <<live, backup>> /\ candidate'[intent] = NoFile
        BY <2>1, <3>2 DEF RecoverTidy, TypeOK, Staged
      <4> QED
        BY <2>1, <2>2, <4>1 DEF Stage
    <3> QED
      BY <1>8, <3>1, <3>2
  <2> QED
    BY <2>3, <2>4, <2>5, <2>6 DEF Staged, Recovering
<1> QED
  BY <1>3, <1>4, <1>5, <1>6, <1>7, <1>8 DEF Recover

LEMMA ImportStaged ==
    ASSUME TypeOK, BackupIsFree, OwnFiles, Staged, NEW i \in Import, ImportStep(i)
    PROVE  Staged'
<1>1. i \in Command /\ NoIntent \notin Import /\ Torn \notin Import
  BY ActivationAssumption DEF Command
<1>2. CASE Announce(i) /\ intent' = Torn
  BY <1>1, <1>2 DEF Staged
<1>3. CASE Finish(i)
  BY <1>1, <1>3 DEF Finish, Staged
<1>4. CASE (Announce(i) /\ intent' # Torn) \/ FinalCheck(i)
  <2>1. UNCHANGED <<live, candidate, backup, intent, choice, disturbed>>
    BY <1>4 DEF Announce, FinalCheck, files, writing
  <2>2. PICK step \in {"ended", "checked"} :
           Goes(i, step) /\ (step = "checked" => live = PackOf[i])
    BY <1>4 DEF Announce, FinalCheck
  <2> QED
    BY <1>1, <2>1, <2>2, StagedMoves, PackIsLedger DEF Steps, Recovering
<1>5. CASE Prepare(i)
  <2>1. UNCHANGED <<live, backup, intent, choice, disturbed>> /\ intent # i
    BY <1>5 DEF Prepare, writing, OwnFiles
  <2>2. PICK step \in {"ended", "prepared"} : Goes(i, step)
    BY <1>5 DEF Prepare
  <2>3. \A d \in Command : pc'[d] = IF d = i THEN step ELSE pc[d]
    BY <2>2 DEF Goes, TypeOK
  <2>4. \A j \in Import \ {i} : candidate'[j] = candidate[j]
    BY <1>5 DEF Prepare, TypeOK
  <2> SUFFICES ASSUME ~disturbed', intent' \in Import PROVE Staged'
    BY DEF Staged
  <2>5. ~disturbed /\ intent \in Import /\ intent \in Command
    BY <2>1 DEF Command
  <2>6. Stage(intent)'
    BY <2>1, <2>4, <2>5 DEF Staged, Stage
  <2> QED
    BY <2>1, <2>3, <2>5, <2>6 DEF Staged
<1>6. CASE WriteIntent(i) \/ SetLiveAside(i) \/ Activate(i)
  <2> SUFFICES ASSUME ~disturbed', intent' \in Import PROVE Staged'
    BY DEF Staged
  <2>1. pc[i] \in Holding /\ UNCHANGED <<choice, disturbed>>
    BY <1>6 DEF WriteIntent, SetLiveAside, Activate, Holding, writing
  <2>2. PICK step \in {"announced", "cleared", "activated"} : Goes(i, step)
    BY <1>6 DEF WriteIntent, SetLiveAside, Activate
  <2>3. \A d \in Command : pc'[d] = IF d = i THEN step ELSE pc[d]
    BY <2>2 DEF Goes, TypeOK
  <2>4. \A d \in Command : pc'[d] \notin Recovering
    BY <1>1, <2>1, <2>2, <2>3, AloneWith DEF Recovering
  <2>5. intent' = i /\ candidate[i] = PackOf[i]
    BY <1>6 DEF WriteIntent, SetLiveAside, Activate, OwnFiles
  <2>6. Stage(i)' /\ (step = "activated" => live' # NoFile)
    <3>1. CASE WriteIntent(i)
      <4>1. UNCHANGED <<live, candidate, backup>> /\ backup[i] = NoFile /\ live # Blank
        BY <1>1, <3>1 DEF WriteIntent, BackupIsFree, TypeOK, LockProtects
      <4>2. live = NoFile \/ Ready(live)
        BY <4>1 DEF TypeOK, Ready, Databases
      <4>3. step = "announced"
        BY <1>1, <2>3, <3>1 DEF WriteIntent, Goes, TypeOK
      <4> QED
        BY <2>5, <4>1, <4>2, <4>3 DEF Stage
    <3>2. CASE SetLiveAside(i)
      <4>1. live' = NoFile /\ UNCHANGED candidate
        BY <3>2 DEF SetLiveAside
      <4>2. step = "cleared"
        BY <1>1, <2>3, <3>2 DEF SetLiveAside, Goes, TypeOK
      <4> QED
        BY <2>5, <4>1, <4>2 DEF Stage
    <3>3. CASE Activate(i)
      <4>1. live' = PackOf[i] /\ candidate'[i] = NoFile
        BY <2>5, <3>3 DEF Activate, TypeOK
      <4> QED
        BY <4>1, PackIsLedger DEF Stage
    <3> QED
      BY <1>6, <3>1, <3>2, <3>3
  <2>7. Stage(intent)'
    BY <2>5, <2>6
  <2>8. pc'[intent'] \in {"activated", "checked"} => live' # NoFile
    BY <1>1, <2>2, <2>3, <2>5, <2>6
  <2> QED
    BY <2>4, <2>7, <2>8 DEF Staged, Recovering
<1> QED
  BY <1>2, <1>3, <1>4, <1>5, <1>6 DEF ImportStep

LEMMA StagedStays == ActivationInv /\ [Next]_vars => Staged'
<1> SUFFICES ASSUME TypeOK, BackupIsFree, OwnFiles, Staged, [Next]_vars PROVE Staged'
  BY DEF ActivationInv
<1>1. ASSUME NEW c \in Command, Crash(c) PROVE Staged'
  BY <1>1, StagedMoves DEF Crash, files, writing, Over, Steps, Recovering
<1>2. CASE (\E w \in Writer : Append(w) \/ StartInitialize(w) \/ StartWrite(w)) \/ InitializeCrash
  <2>1. disturbed' = (disturbed \/ intent # NoIntent) /\ UNCHANGED intent
    BY <1>2 DEF Append, StartInitialize, StartWrite, InitializeCrash, Writes
  <2> QED
    BY <2>1, ActivationAssumption DEF Staged
<1>3. CASE UNCHANGED vars
  BY <1>3 DEF vars, Staged, Stage
<1> QED
  BY <1>1, <1>2, <1>3, RecoverStaged, ImportStaged DEF Next

\* The invariant the refinement needs holds of every reachable state.
LEMMA ActivationSound == Spec => []ActivationInv
<1>1. Init => ActivationInv
  <2> SUFFICES ASSUME Init PROVE ActivationInv
    OBVIOUS
  <2>1. TypeOK /\ BackupIsFree
    BY InitKept DEF KeptInv
  <2>2. intent \notin Import /\ \A i \in Import : pc[i] = "idle"
    BY ActivationAssumption DEF Init, Command
  <2> QED
    BY <2>1, <2>2 DEF ActivationInv, OwnFiles, Staged
<1>2. ActivationInv /\ KeptOnDisk /\ [Next]_vars => BackupIsFree'
  <2> SUFFICES ASSUME TypeOK, BackupIsFree, KeptOnDisk, [Next]_vars PROVE BackupIsFree'
    BY DEF ActivationInv
  <2>1. CASE UNCHANGED vars
    BY <2>1 DEF vars, BackupIsFree
  <2> QED
    BY <2>1, RecoverKeeps, ImportKeeps, WriterKeeps, CrashKeeps DEF Next
<1>3. ActivationInv /\ [Next]_vars => OwnFiles' /\ Staged'
  BY OwnFilesStay, StagedStays DEF ActivationInv
<1>4. ActivationInv <=> TypeOK /\ BackupIsFree /\ OwnFiles /\ Staged
  BY DEF ActivationInv
<1> QED
  BY <1>1, <1>2, <1>3, <1>4, ActivationTyped, NothingLost, PTL DEF Spec

\* The ledger as it will be, in both states of a step beside which nobody wrote,
\* changes as AtomicImport says.
LEMMA StepIsAtomic ==
    ASSUME ActivationInv, ActivationInv', [Next]_vars, ~disturbed'
    PROVE  [Atomic!Next]_(Atomic!vars)
<1> DEFINE now == IF intent \in Import /\ live = NoFile THEN PackOf[intent] ELSE live
           next == IF intent' \in Import /\ live' = NoFile THEN PackOf[intent'] ELSE live'
<1>1. ~disturbed /\ TypeOK /\ BackupIsFree /\ OwnFiles /\ Staged
  BY DisturbedStays DEF ActivationInv
<1>2. Effective = now
  BY <1>1, EffectiveIs
<1>3. Effective' = next
  <2>1. (TypeOK /\ Staged /\ ~disturbed =>
            Effective = IF intent \in Import /\ live = NoFile THEN PackOf[intent] ELSE live)'
    BY EffectiveIs, PTL
  <2> QED
    BY <2>1 DEF ActivationInv
<1>4. NoIntent \notin Import /\ Torn \notin Import /\ Import \subseteq Command
  BY ActivationAssumption DEF Command
<1>5. ASSUME next = now PROVE UNCHANGED Atomic!vars
  BY <1>2, <1>3, <1>5 DEF Atomic!vars
<1>6. ASSUME NEW i \in Import, next = PackOf[i] PROVE Atomic!Replace
  <2>1. Ready(next) /\ next.entries = PackOf[i].entries
    BY <1>6, PackIsLedger
  <2> QED
    BY <1>3, <2>1 DEF Atomic!Replace
<1>7. ASSUME NEW c \in Command, Recover(c) PROVE next = now
  <2>1. CASE RecoverLook(c) \/ RecoverDecide(c) \/ RecoverTidy(c)
    BY <2>1 DEF RecoverLook, RecoverDecide, RecoverTidy, files
  <2>2. CASE RecoverAside(c)
    BY <1>1, <2>2 DEF RecoverAside, TypeOK, LockProtects, Recovering, Staged
  <2>3. CASE RecoverPlace(c)
    <3>1. live = NoFile /\ intent \in Import /\ choice[c] = "candidate"
      BY <1>1, <2>3 DEF RecoverPlace, TypeOK, LockProtects, Recovering, Staged
    <3>2. candidate[intent] = PackOf[intent] /\ PackOf[intent] # NoFile
      BY <1>1, <3>1, StageResolves, PackIsLedger DEF Staged
    <3> QED
      BY <2>3, <3>1, <3>2 DEF RecoverPlace
  <2>4. CASE RecoverDrop(c)
    <3>1. live # NoFile
      BY <1>1, <2>4 DEF RecoverDrop, TypeOK, LockProtects, Recovering, Staged
    <3> QED
      BY <2>4, <3>1 DEF RecoverDrop
  <2> QED
    BY <1>7, <2>1, <2>2, <2>3, <2>4 DEF Recover
<1>8. ASSUME NEW i \in Import, ImportStep(i)
      PROVE  next = now \/ next = PackOf[i]
  <2>1. CASE Prepare(i) \/ FinalCheck(i)
    BY <2>1 DEF Prepare, FinalCheck, files
  <2>2. CASE Announce(i)
    BY <1>4, <2>2 DEF Announce
  <2>3. CASE WriteIntent(i)
    <3>1. intent = Torn \/ intent # Torn
      OBVIOUS
    <3> QED
      BY <1>1, <1>4, <2>3 DEF WriteIntent, OwnFiles
  <2>4. CASE SetLiveAside(i)
    BY <1>1, <2>4 DEF SetLiveAside, OwnFiles
  <2>5. CASE Activate(i)
    BY <1>1, <2>5, PackIsLedger DEF Activate, OwnFiles
  <2>6. CASE Finish(i)
    <3>1. intent \in Import => intent = i
      BY <2>6 DEF Finish
    <3>2. intent \in Import => live # NoFile
      BY <1>1, <2>6, <3>1 DEF Finish, Staged
    <3> QED
      BY <1>4, <2>6, <3>2 DEF Finish
  <2> QED
    BY <1>8, <2>1, <2>2, <2>3, <2>4, <2>5, <2>6 DEF ImportStep
<1>9. ASSUME NEW c \in Command, Crash(c) PROVE next = now
  BY <1>9 DEF Crash, files
<1>10. ASSUME (\E w \in Writer : Append(w) \/ StartInitialize(w) \/ StartWrite(w))
              \/ InitializeCrash
       PROVE  Atomic!Next \/ UNCHANGED Atomic!vars
  <2>1. intent = NoIntent /\ intent' = NoIntent
    BY <1>10 DEF Append, StartInitialize, StartWrite, InitializeCrash, Writes
  <2>2. Effective = live /\ Effective' = live'
    BY <1>2, <1>3, <1>4, <2>1
  <2>3. ~Ready(live) => live.entries = {}
    BY <1>1, NothingThere DEF TypeOK, Ready, Databases
  <2>4. ASSUME NEW w \in Writer, live' = With(live, w), Ready(live) PROVE Atomic!Write
    <3>1. w \in Entry
      BY DEF Entry
    <3>2. Ready(live') /\ live'.entries = live.entries \cup {w}
      BY <1>1, <2>4, <3>1, WithTyped DEF TypeOK, Ready, Databases
    <3> QED
      BY <2>2, <2>4, <3>1, <3>2 DEF Atomic!Write
  <2>5. ASSUME live' = Blank, ~Ready(live) PROVE UNCHANGED Atomic!vars
    <3>1. Ready(live) = FALSE /\ Ready(live') = FALSE
      BY <2>5, NothingReady DEF Ready
    <3>2. live.entries = {} /\ live'.entries = {}
      BY <2>3, <2>5, NothingThere
    <3> QED
      BY <2>2, <3>1, <3>2 DEF Atomic!vars
  <2>6. ASSUME live' = Database({}), ~Ready(live) PROVE Atomic!Create
    <3>1. Ready(live') /\ live'.entries = {}
      BY <2>6 DEF Database, Ready
    <3> QED
      BY <2>2, <2>6, <3>1 DEF Atomic!Create
  <2>7. ASSUME live' = live PROVE UNCHANGED Atomic!vars
    BY <2>2, <2>7 DEF Atomic!vars
  <2>8. CASE InitializeCrash
    BY <2>5, <2>8, NothingReady DEF InitializeCrash
  <2>9. ASSUME NEW w \in Writer, Append(w) \/ StartInitialize(w) \/ StartWrite(w)
        PROVE  Atomic!Next \/ UNCHANGED Atomic!vars
    BY <2>4, <2>5, <2>6, <2>7, <2>9 DEF Append, StartInitialize, StartWrite, Atomic!Next
  <2> QED
    BY <1>10, <2>8, <2>9
<1>11. CASE UNCHANGED vars
  BY <1>5, <1>11 DEF vars
<1> HIDE DEF now, next
<1>12. ASSUME NEW i \in Import, ImportStep(i) PROVE Atomic!Next \/ UNCHANGED Atomic!vars
  BY <1>5, <1>6, <1>8, <1>12 DEF Atomic!Next
<1> QED
  BY <1>5, <1>7, <1>9, <1>10, <1>11, <1>12 DEF Next

\* For any number of imports, recoveries, writers and crashes: until somebody
\* writes beside a pending intent, or an import removes the intent of another,
\* import_pack and recover_import replace the ledger in one atomic step.
THEOREM ImportIsAtomic == Spec => ImplementsAtomicImport
<1>1. Init => Atomic!Init
  <2> SUFFICES ASSUME Init PROVE Atomic!Init
    OBVIOUS
  <2>1. Effective = live
    BY ActivationAssumption DEF Init, Effective
  <2>2. CASE live = NoFile
    <3>1. Ready(live) = FALSE /\ live.entries = {}
      BY <2>2, NothingReady, NothingThere DEF Ready
    <3> QED
      BY <2>1, <3>1 DEF Atomic!Init
  <2>3. CASE live = Database({Old})
    <3>1. Ready(live) /\ live.entries = {Old}
      BY <2>3 DEF Database, Ready
    <3> QED
      BY <2>1, <3>1 DEF Atomic!Init, Entry
  <2> QED
    BY <2>2, <2>3 DEF Init
<1>2. ActivationInv /\ ActivationInv' /\ [Next]_vars
         => [disturbed' \/ Atomic!Next]_(Atomic!vars)
  BY StepIsAtomic
<1> QED
  BY <1>1, <1>2, ActivationSound, PTL DEF Spec, ImplementsAtomicImport

=============================================================================

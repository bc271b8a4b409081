# A TLA+ model of palimnex

palimnex keeps a project's memory: a durable ledger of sessions and events in
SQLite, a search cache of the sources in Redis, a stream of recent events beside
it, and packs that carry memory from one machine to another.  Every command is a
process of its own, several may run at once, and any of them may die.  This
directory models the parts where that matters, checks them with TLC on small
instances and proves their main invariants with TLAPS for every instance.

1. [The system](#1-the-system)
2. [Modules and code](#2-modules-and-code)
3. [Runs, bounds and fairness](#3-runs-bounds-and-fairness)
4. [What the model found](#4-what-the-model-found)
5. [Proofs](#5-proofs)
6. [Abstractions, and what is not modelled](#6-abstractions-and-what-is-not-modelled)
7. [Plan](#7-plan)

To check a run or a proof, from this directory:

    tlc -workers 2 -config MCLedger_calls.cfg MCLedger.tla
    tlapm LedgerProofs.tla

## 1. The system

| Component | State | Operations | What is hard | What makes it correct |
|---|---|---|---|---|
| Durable ledger, `durable.py` | SQLite tables: sessions, events, evidence, verification attempts, verifications, promotions, workflows, outbox | start, append, close, reverify, consolidate, put_workflow, recall, restore, export | clocks and sources are read before the lock; each call first checks the *whole* ledger, so one row that breaks a rule stops every later call | no sequence of legal calls builds a ledger its own check refuses; derived trust follows its evidence; past recalls keep their answers |
| Pack import, `portable.py` | live ledger, candidate, backup, failed copies, intent file | import with activation, recovery | a crash between any two file operations; writers that know nothing of the intent; recovery that crashes | an import is one atomic replacement; no acknowledged entry leaves the disk; a pending intent is resolved |
| Generation cache, `cache_v3.py` | Redis: records, registry, active pointer, index lock, reader leases | index, garbage collection, search, clear | locks and leases that expire under a live process, records shared by generations, edits during a build | the active, the leased and the retained generations are whole; nothing is orphaned; a search is refused for a known cause only, and not for long |
| Hot projection, `durable.py` | outbox rows, Redis stream and receipts per ledger epoch | project-hot, rebuild, hot-events | commit, script and commit in three steps; replies that are lost or late; a cache that restarts from an old snapshot | no event twice or unknown in the stream; order; delivery; no row sent before its attempt is on record |
| Redis launcher, `redis_launcher.sh` | pid file, socket, dump | start, stop, status, reset | concurrent starts, stale pid files | one server per project |
| Migrations, `migrations.py` | intent, guard, snapshot, ledger schema | plan, apply, resume | a crash at each named boundary, writers and imports between the crash and the rerun, files that are lost | what was reviewed is migrated, behind a guard, and what was interrupted can be resumed |
| Retention, `retention.py` | a chained control log over the ledger | policies, holds, pins, packs, authorizations, supports, propose, apply, finalize | plans that are stale when applied; a closure that takes in events by other rules than those that chose; erasure and compaction in two transactions | nothing protected is erased; what goes goes for a reason, with all that depends on it, and out of the file |
| Cache of version 2, `core.py` | Redis: records, manifests, registry, active pointer, index lock | index, search, clear | plain writes under a lock that expires; records shared by generations; builds that die half way | a search finds all the active manifest names; nothing is orphaned; an overlap is repaired by the next build |
| Adapters, `adapters.py`, `semantica.py` | tables of derivatives, graph and other stores outside the ledger | put, project, plan, apply | an erasure over several stores that fail one by one; puts and other callers between its steps; plans that expire; retries | what apply returns, and what receipts say, is true; whoever goes on erases in the end |
| Scanner, retrieval, documents, audit, onboarding, MCP server | none, or files written once | pure or read-only | — | — |

How they meet.  Every ledger call takes an flock beside the database (shared for
reads), checks the ledger and runs one transaction.  An event commits with its
outbox row; project-hot takes rows to Redis later.  An import builds a candidate
database through the same restore code and moves it into place, with a new
projection epoch, so a stream of the old ledger is never read as the new one's.
Consolidation and reverification read the sources, which anybody edits.
Promotions carry the digest of the installed scanner policy.  Retention decides
what may be erased from the outbox row of an event.  A ledger that was migrated may
have erased something, so a pack must not replace it: migration and import refuse
to run beside each other's files.

The hazards of this code are listed, each at its line, in `PROJECT.json`, with
the properties that watch them or the reason why none does yet.

## 2. Modules and code

**Ledger** (`durable.py`).  The tables are functions from identifiers to rows.  A
writing call is `Call...` (the clock is read), `ReadEvidence` (the sources are
hashed) and one transaction under the lock: `StartSession`, `AppendEvent`,
`CloseSession`, `PutWorkflow`, `Consolidate`; `Reverify` reads everything under
the lock and is one step, and so is `Restore` (restore_untrusted_document).
`SemanticallyValid` is `_semantic_errors`, and guards every transaction as
`connection()` does: a ledger that fails it is stuck.  `Recall` and
`PortableDocument` are what the readers return.  `EditSource`, `UpgradePolicy`,
`Tick` and `StepBack` are the surroundings.

**PackActivation** (`portable.py`, import_pack and recover_import).  Each file is
a record of its kind and entries.  There is one action per file operation between
which the process can die: `RecoverDecide`, `RecoverAside`, `RecoverPlace`,
`RecoverTidy`, `RecoverDrop`, then `Prepare`, `Announce`, `WriteIntent`,
`SetLiveAside`, `Activate`, `FinalCheck`, `Finish`.  Writers (`Append`,
`StartInitialize`, `StartWrite`) come in whenever the lock is free.

**AtomicImport** is what an import promises: one ledger that grows by what it
acknowledges and is replaced in one step.  PackActivation implements it
(`ImplementsAtomicImport`) until somebody writes beside a pending intent or an import
removes the intent of another, which the
history variable `disturbed` remembers; the mapping, `Effective`, is the ledger that
recovery would choose.

**CacheGenerations** (`cache_v3.py`).  `store` is Redis by key.  A build is
`TakeSnapshot` (before the lock), `LockForBuild`, `Stage`, `WriteRecords`,
`WritePostings`, `WriteManifest`, `RegisterComplete`, `CheckSources`, `Activate`,
then collection: `PlanCollection`, `DeleteDoomed`, `ForgetDoomed`.  A clear is
`LockForClear`, `Detach`, `CheckReaders`, `Restore` or `Wipe` and `Unregister`.  A
search is `Look` (is the cache fresh), `Acquire` (the lease script),
`OpenManifest`, `ReadChunks`, `ReadGraphs`, `ReleaseLease`.  `ExpireLock`,
`ExpireLease`, `LoseFence`, `CrashCommand`, `CrashReader` and the edits happen
anywhere.  `moved` is history: the paths at which a document has come or gone, for which
the code does not build the graphs of the documents that link to them anew.

**HotProjection** (`durable.py`, project_outbox, reset_hot_projection, hot_events;
the `project-hot` command of `core.py`; Redis as `redis_launcher.sh` starts it).
`Attempt`, `Send` and `Acknowledge` are the three commits of a row; `LoseReply`
and `RunLate` are the failures of the socket, `Expire`, `TakeSnapshot` and
`Restart` those of Redis; `LookUp`, `Fetch` and `Check` are hot_events.  `Record`,
`Replace`, `GetStuck` and `Migrate` are all it sees of Ledger, PackActivation and
Migrations: `standing` says whether the ledger passes its own check and is not migrated,
without which `Open` and hot_events refuse.

**Migrations** (`migrations.py`; what `portable.py` refuses because of it).  A digest
is the number of the last write.  `Review` is what `plan` shows, `Start` what
`apply` checks under the lock (`Admitted`); then `PublishGuard`, `RecordIntent`,
the snapshot (`ReuseSnapshot`, `NeedSnapshot` or `Quarantine` and `AllocatePath`;
`BeginCopy`, `EndCopy` or `FailCopy`; `NoteSnapshot`), `Commit`, `NoteTarget` or
`RefuseTarget`, `RemoveIntent`.  `Crash` falls between any two.  `Write`, `Import`
and `EndImport` are the others, `LoseGuard` and `LoseLedger` what the doctor of the
code is for, and `EditIgnore` changes what git says of the files.  `PlanStatus` is the
plan's own decision, which `PlanIsTrue` compares with that of apply for the same digest
and the same `--allow-unignored-ledger` (`allowed`).

**Retention** (`retention.py`).  The control log is kept as what its reader makes of
it: the active policy, sets of holds, pins and packs, authorizations, supports,
receipts.  Each call is one action, as it is one transaction.  `Propose` writes
nothing: it puts `Affected` (the closure over corrections and supports of what is
due, or nothing if any of it is blocked) into the hands of a reader.  `Erase` and
`Refuse` are `apply`; `Compact` and `RecordCompaction` are `finalize`, and `residue`
is what the file may still hold.  A plan is bound to the digest of the ledger,
which never returns to an earlier value: `fresh` until something is written.

**LegacyCache** (`core.py`, build_index, clear_cache and the lock).  One action per
Redis command, or per run of commands between which nothing matters: a build is
`LockForBuild`, `ReadRecords`, `Register`, `Refresh`, `WriteRecords`,
`WriteManifest`, `Validate`, `CheckSources`, `Activate`, `DeleteChunks`,
`DeleteGraphs`, `DeleteManifests`, `ShrinkRegistry`, `Release`; a clear is
`LockForClear`, `ReadKeys`, `Wipe`, `Release`.  `ExpireLock`, `LoseLock`, `Crash` and
`EditSource` come anywhere.  Unlike version 3 nothing is fenced but the activation,
so commands overlap when a lock expires; `overlap` remembers whether they did and
whether a build has run alone since.

**Derivatives** (`adapters.py` and `semantica.py`).  Both adapters, as a main table
(`rows`) and a projection (`shadow`); for Semantica also what the graph and the
other stores hold.  `PutRow`, `PutOver` and `AddNode` are the application; `Plan`,
`Start`, `CheckScope`, then for each object `DeleteRow` or `DeleteNode` (or `Refuse`,
`Withhold`, `KeepNode`), `Invalidate`, `Verify`, `Receipt`, and `Finish` are apply,
call by call on the adapter.  `Fail`, `Expire` and `Restart` come in anywhere;
`Retry` and `Replan` are what a caller does then.  `orphans` is history: the objects that
the graph and the stores hold while the index has lost them.

The MC modules hold nothing but model values and the small sets the
configurations assign.  In each module, the definitions whose comment starts with
`Mutant:` state a plausible slip in the code; each checked property is violated
when its mutant takes the place of the definition it is paired with in
`PROJECT.json`.

## 3. Runs, bounds and fairness

| Run | Instance | Shows |
|---|---|---|
| `ledger_calls` | 1 session, 3 events, 2 processes whose calls overlap, a clock that steps back, one source that is edited or lost | `HistoryConsistent`, `VerificationFollowsAttempts`, `PromotionsBacked` |
| `ledger_memory` | 5 events: a pack with a superseded decision, or local decisions that supersede each other, session-scoped or durable; reverified, promoted, policy upgraded | `RelationsSound`, `PackRestorable`, `AsOfStable`, `PromotedIsRecalled` |
| `ledger_stale_successor` | 4 events on 2 sources, one edited | violates `PromotionsActive` |
| `pack_files` | 1 import, 2 recoveries, 3 crashes, 2 writers, over a ledger or none | `KeptOnDisk`, `ImplementsAtomicImport`, `WrittenIntentResolved` |
| `cache_builds` | 2 indexers, 3 builds of 2 documents under one policy; one is edited, and comes and goes, and shares a chunk between its versions, the other links to it; locks expire, edits at any time | `RetainedPresent`, `FreshServable` |
| `cache_clears` | 2 builds and a clear of the same documents, 2 policies, a search, 1 crash; locks and leases expire; edits between commands | `TypeOK`, `ActivePresent`, `LeasedPresent`, `Owned`, `RefusalsHaveCause` |
| `legacy_overlaps` | 2 processes, 3 builds or clears of 2 files, one edited and edited back; locks expire at any time, 1 crash | `ActiveWhole`, `Repairs`, `NothingOrphaned`, `OnlyNewestActivates` |
| `hot_outbox` | 1 projector, 1 reader, 3 events, a stream of 2, batches of 2, 2 ledgers, 1 rebuild, 1 failure; a ledger that gets stuck or is migrated | `SentWasAttempted`, `HotReadable`, `StreamIsNewest`, `Delivered` |
| `migrations` | 2 appliers, 1 of which wants a snapshot; 3 more writes or imports, 3 crashes or failures, 4 snapshot names, 2 losses of the guard, 1 of the ledger; `.gitignore` edited at any time, with and without the override | `IntentTrue`, `NeverBothPending`, `PlanIsTrue`, `MigratedStays`, `ReviewedAndKept`, `Resumes` |
| `retention_plans` | a corrected event, its correction in an open session, a durable source, a fact derived of both; 2 policies, 1 hold or pack, 1 authorization, 1 plan in hand, 1 crash, 3 instants | `ChainsGoWhole`, `CompactedIsGone`, `ProtectedStays`, `FactsStaySupported`, `CompactionHappens` |
| `retention_durable` | a durable event and its correction of class session | violates `DurableByAuthority` |
| `derivatives` | SQLite tables shared by 2 callers, or Semantica with one caller and no, a full, a partial or a failing coordinator; 2 objects, 2 events, 2 versions, 1 put after the first round, 2 failures | `GenerationsAgree`, `ReceiptsTrue`, `ReturnedIsGone`, `ErasedAtLast` |

Every bound is a constant (`Max...`) and stands in a guard.  They were chosen so
that each race has room: a session needs two anchor events, so three events give
one user event that a second process overlaps; five leave room for two that supersede
each other or, instead, for the four of a pack (whose session is then the only one: a
local successor of an imported event is in no run); three generations are one more than are retained
(`Retention` is 1 here and 3 in the code), so collection happens while an older
generation is leased; one crash more than the steps of recovery that can fail in
a row (three) covers a recovery of a recovery; a stream of two with three events
trims, and batches of two leave a remainder; four snapshot names are one more than
three failed copies use up; three instants are before, at and after the end of a
time to live, a grace and a plan; three commands on the old cache are one that lost
its lock, one that overlaps it and one that repairs; two failures let a plan fail
half way, and its retry too.  The safety part of `hot_outbox` was
also run with two failures (14,815,271 states).

`CHECK_DEADLOCK FALSE` everywhere: commands, writers and builds run out, and a
refused ledger stops for good, which is what `ledger_stale_successor` is about.
Symmetry is used for sessions, clients, commands, searches and texts, in runs
without liveness properties.  The type invariants are proved
(section 5), and so are `GuardFirst` and `ErasedForCause`; of these only `TypeOK` of
the cache of version 3 is in a run as well.

Fairness is assumed in five runs.  `pack_files`: an intent is resolved when
somebody runs recovery again and again and each step proceeds when it can; the
code's messages ask the user to do so.  It is claimed of behaviours with one
crash in which nobody writes beside the intent, since either can leave it stuck
(section 4).  `migrations`: an
applier that holds the lock goes on (weakly fair), and the operator reads the plan
and runs apply again, without the override, however often others get the lock first
(strongly fair, as a writer may always come before); that is what the code's messages and
`MIGRATIONS.md` ask for.  `retention_plans`: somebody calls `finalize` until it has
come to its end; a receipt says `compaction_pending` until then.  `hot_outbox`:
somebody runs `project-hot` again and again, as the documents say to do after an outage; a weakly fair
disjunction of the projector's own steps, none on failures, resets or readers.
Failures are bounded, which is the assumption that Redis comes back.  It is claimed of
a ledger that is sound: one that fails its own check delivers nothing until it is
replaced, and a migrated one nothing at all.
`derivatives`: each caller goes on with what it began (weakly fair), and does not
retry an old plan for ever but makes a new one (strongly fair): a plan is refused
five minutes after it was made, and the message is "replan required".  Puts end,
which is what erasing an event for good needs.

## 4. What the model found

Each of these was reproduced on the code itself.  Two have a run:

- **A promotion that stops the ledger** (`ledger_stale_successor`).  A superseding
  event whose evidence is stale does not keep `consolidate` from promoting what
  it superseded (`durable.py:1997`), but the ledger check counts it (1273-1284):
  "promotion is not evidence-verified, active, and policy-bound".  Every later
  call fails, reads included.
- **A durable event erased without authorization** (`retention_durable`).  A plan asks
  for an authorization only of the events it chooses (`retention.py:378-384`); the
  closure over corrections (390-417) adds what they are linked to, and the blockers
  (419-429) do not ask.  When a session-class correction expires, an unscoped plan
  erases the durable event it corrects, though `RETENTION.md:38-41` says that it
  requires a per-event authorization.

The others have no run; where a small change of a configuration shows one in TLC,
it is named:

- Recovery takes back an activated import.  One entry written between activation
  and the unlink of the intent changes the digest, and recovery puts the backup in
  place (`portable.py:847-877`).  Nothing leaves the disk (`KeptOnDisk`), but the live
  ledger has lost an acknowledged entry.
- A fresh cache that cannot be searched.  The graph of a document is reused by an
  identity that leaves out the other paths (`cache_v3.py:347-350`, 1152-1171), so when a
  document that it links to has come or gone, every search is refused and only
  `--repair-deep` helps.  `FreshServable` and `RefusalsHaveCause` except just these
  graphs (`Relinked`); without the exception both runs find it.
- A chunk's key leaves out the hash of its file (`cache_v3.py:306-317`), so a build
  that follows an edit overwrites a chunk that the edit left as it was, and a search
  under a lease of the older generation is refused (1660).  `RefusalsHaveCause` allows
  this refusal once a later build has begun, and no other.  If that build does not get to
  its activation (the sources changed again, or it died) the older generation stays
  active, and if the sources are as it has them, it is fresh and refuses all searches
  until the next build: `FreshServable` without `active = built`.
- Two calls in the same instant: `append_event` reads the clock before the lock
  (`durable.py:1480`); `consolidate` runs between; the appended successor is
  recorded before the promotion it should have prevented, with the same effect
  as above (it takes two clients, two sessions and six events).
- `reverify` of an imported successor does the same (2309-2379).
- `api.record(kind="workflow")` is accepted and leaves a workflow event without
  its record (`api.py:88-94`, `durable.py:1264`): add `"workflow"` to `UserKinds`
  in `ledger_calls`.
- A crash after the live ledger was set aside leaves its path empty; a writer that
  comes before recovery starts a ledger there, and recovery keeps that one,
  neither the old ledger nor the pack (`portable.py:847-862`): `pack_files` without
  `disturbed'` in `ImplementsAtomicImport`.
- A second crash, inside recovery, can leave an intent that nobody can resolve
  (881-887), and so can a write to a ledger that was activated where there was none
  (no backup, and the live file is not the pack any more): which is why
  `WrittenIntentResolved` lets `crashes > 1` and `disturbed` pass.
- The last unlink of an import can remove the intent of another (979-982), after which
  its set-aside ledger is where no recovery looks (`disturbed` counts it), and an
  import without `--replace` can replace a ledger created since it looked (925,
  965-968), though `RUNBOOK.md:334` says that activation "requires both flags".
- When the policy changes between a build's activation and its collection, the
  collection cannot load the manifest that was just activated, and deletes the
  records it shares with a generation that goes (`cache_v3.py:1348-1358`):
  `cache_clears` with `QuietEdits = FALSE` violates `ActivePresent`.
- A reader whose lease expired releases it late and deletes the lease of another
  (676-683): `LeasedPresent` in `cache_clears` with two readers.
- In the same way it cannot load older manifests after a policy change, and deletes
  records that retained and leased generations use: `RetainedPresent` in
  `cache_builds` with two policies (a leased one takes a third build, which
  `cache_clears` does not have).
- An event that an open session has pinned is not chosen by a plan, but the closure
  takes it in with its correction and the blockers do not look at pins
  (`retention.py:375`, 419-429).
- `register_support` accepts a source that is erased (315-342), and every later call
  refuses the ledger: `LedgerOpens` with `LiveSupports = FALSE`.
- A fact that was erased is taken in again with a source of its support (407-413);
  its tombstone would then name another receipt, so the plan that was offered
  always fails with "cleanup validation failed".
- A write between a crash and the rerun of a migration leaves an intent that no
  rerun resumes ("preserve it for review"), though `migrations.py:9-10` says that
  rerunning is the recovery for every interruption; `Resumes` excepts it
  (`LeftToReview`).
- The plan of a migration asks git whatever has been done (`migrations.py:546-548`), apply
  only before it creates an intent or names a snapshot in one (1017-1021).  After an
  interrupted run with `--allow-unignored-ledger` the plan without it says "refused", and
  apply without it resumes; it then writes the snapshot too, if that had not been
  begun, though `MIGRATIONS.md:344` has a rerun validate the "Git-ignore state" first.
  `PlanIsTrue` allows this much, and that nothing is begun.
- A ledger that is stuck (the first finding above) is not projected
  (`durable.py:2705-2710`), and a migrated one never (`retention.py:605-606`): what is
  pending stays pending.  `Delivered` is about the others.
- The index of the Semantica adapter lives in its process: when that ends, the graph and
  the stores still hold their nodes, and no plan finds them (`semantica.py:153-154`,
  173-180).  An object that is put again as it was, between its deletion and the
  invalidation of its projection, loses the projection (214-218); if the graph then fails
  to remove its node in a later deletion, which drops the row first (194-196), the node is
  lost in the same way, though `SDK.md:140` says that survivors "remain discoverable".
  Without a coordinator an erasure reaches the graph only.  `ErasedAtLast` counts as
  forgotten what these leave (`orphans`, `Reached`), and nothing else.
- In the cache of version 2, a build or a clear whose lock has expired goes on writing
  and deleting among the steps of the next one, since only the activation compares the
  owner (`core.py:1528`): the active generation can lose records, and records can be
  left that no registry names.  The next build that runs alone repairs the first, never
  the second: the properties of `legacy_overlaps` say `overlap` where they must.
- A `project-hot --rebuild` of a stream that already holds newer events appends the
  missing older ones behind them, and later trimming drops the newer ones;
  `StreamIsNewest` therefore claims nothing once Redis lost entries or ran a
  script late, until a rebuild that starts from an empty stream.

## 5. Proofs

`LedgerProofs`, `PackActivationProofs`, `CacheGenerationsProofs`, `HotProjectionProofs`,
`MigrationsProofs`, `RetentionProofs`, `DerivativesProofs` and `LegacyCacheProofs` extend
the modules they are about.  Every safety property that a passing run checks is proved
here for every value of the constants.  The assumptions are the named ones on the constants
(`LedgerAssumption`, `PackAssumption`, `ActivationAssumption`, `GenerationsAssumption`,
`ProjectionAssumption`, `MigrationAssumption`, `RetentionAssumption`,
`DerivativesAssumption`, `LegacyAssumption`), which TLC evaluates
in each run, and the hypotheses of eight theorems (`CommandKinds` of three in
`LedgerProofs`; `SamePolicy`, `CalmPolicy` and `LastingLeases` of five in
`CacheGenerationsProofs`), each there because section 4 has a counterexample without it.

- **`TypeCorrect`**, `Spec => []TypeOK` for the ledger.
- **`VerificationCorrect`**, `Spec => []VerificationFollowsAttempts`.  The property
  is not inductive: that a new event's first attempt agrees with its evidence
  depends on what its call read before the lock.  `VerificationInv` adds
  `RowsFresh` (a call holds rows whose sources were read, with a time for each)
  and `LocalTried` (a local event with evidence has an attempt).  The lemmas go
  table by table: alignment of times, insertion of an event, reverification,
  restore.
- **`RelationsHold`**, `Spec => []RelationsSound`.  That neither relation has a circle
  is not inductive; that one order of the events runs along both is (`RelationInv`): a
  new event comes last, an imported document brings its own order before its events.
- **`HistoryHolds`** and **`LedgerOpens`**.  `HistoryInv` adds that each call in flight
  writes the kinds of its own operation, and that an open session is local.  They assume
  `CommandKinds`: callers pass the kinds `remember` offers (`core.py:2766-2768`), as all
  three configurations do; the API takes others, and section 4 says what they do.
  `PackAssumption` says of the document that its sessions are closed, as
  `_validate_pack_selection` asks (`portable.py:292-295`).  `LedgerOpens` puts the other
  invariants together: of the rules that `_semantic_errors` applies before every call,
  only the one on active promotions can fail, which is the finding of
  `ledger_stale_successor`.
- **`PromotionsHold`** and the action properties **`PromotedAreRecalled`** and
  **`KnownStaysKnown`** (`AsOfStable`).  Closed sessions do not move, and only a stale
  reverify takes a verification away.  For the past: `Watermark` is what the clock and
  every call in flight are bound by, so a step writes rows at or after it only
  (`EarliestExists`, `LastKnownIs`), also when the clock steps back; an import marks its
  rows so that no such recall shows them.
- **`PacksRestore`**, `Spec => []PackRestorable`, under `CommandKinds`.  An event's new
  number is its rank among the exported ones of its session.  Ranks keep the order and
  leave no gap (`RankIsMonotone`, `RanksAreDense`); anchors are durable, so they stay first and
  last (`AnchorsArePacked`); the targets of what is exported are exported, by
  `RelationInv`.
- **`ActivationTyped`** and **`NothingLost`**, `Spec => []KeptOnDisk` for pack
  activation.  The strengthening `BackupIsFree` says that an import about to set
  the live ledger aside finds its backup name unused, so that the rename
  overwrites nothing.  One lemma per file operation.
- **`ImportIsAtomic`**, `Spec => ImplementsAtomicImport`: PackActivation implements
  AtomicImport, for any number of imports at once.  `ActivationInv` adds `OwnFiles` (an
  import that has not activated has its candidate; past its announcement the intent is
  its own, and it gets there only once) and `Staged`: while an intent is pending and
  nothing disturbed it, the files are at one of three stages, and no recovery has chosen
  the backup or moves a live file aside.  At each stage `Effective` is the pack if there
  is no live file and the live file otherwise (`EffectiveIs`), so every file operation but
  two is a stutter, and those two are `Replace`.  The run has one import; two imports, one
  recovery and one writer were checked besides.
- **`OutboxTyped`** and **`NothingSentUnattempted`**, `Spec => []SentWasAttempted` for
  the hot projection.  `OutboxInv` adds `Guarded` (a projector past its attempt
  holds the lock, so the attempt stays committed until the row is sent) and
  `AllSound`: the rows in the stream, in the snapshot Redis may restart from, and
  in scripts still to run are attempted rows of this ledger or rows of an earlier
  one.  Without the snapshot and the late scripts the invariant is not preserved
  by `Restart` and `RunLate`.
- **`ReadsAreNeverPoisoned`**, `Spec => []HotReadable`.  `ReadInv`: a namespace holds
  rows of its own ledger (`Own`), each once (`EachOnce`).  The script looks into the
  stream only for a retry, so the first attempt must be new to the stream, the snapshot
  and the late scripts (`FirstAttempts`), and one that comes late must find the
  receipt of the retry that was faster (`LateFirsts`).
- **`DeliveredIsNewest`**, `Spec => []StreamIsNewest`.  `Batches`: rows are delivered from
  the oldest on, and a batch is the beginning of what is pending.  `Sequel`: each entry
  of the stream is followed by the next event of the ledger or, once, by its first, when
  a rebuild began again after what an earlier pass had left; then something is
  missing behind the last entry, so when nothing is pending the second pass has pushed the first
  out.  It claims nothing while the stream is `disturbed` (section 4).
- **`CacheTypes`**, **`NothingOrphaned`** (`Owned`), **`PointerIsComplete`**,
  **`ActiveIsWhole`**, **`RetainedAreWhole`**, **`LeasedAreWhole`**, **`SearchesAreWhole`**
  and **`FreshIsServable`**: all the safety of CacheGenerations, from one invariant.
  `CacheInv` says of the command that owns the lock what it has staged, written and
  planned (`Builds`, `BuildsChunks`, `Collects`, `Clears`), of any other only `Shape`;
  of the store, that it is covered by the registry, and of leases, that each counts at
  least its holders.  The three properties about collection are kept together: what is
  `doomed` is disjoint from the keys of the active, the retained and the leased
  generations (`Spared`) from the moment it is planned until it is deleted.
  `Serves` says of the active generation that it is there and, until another build
  begins, has the chunks it was built from.  A second layer, `SearchInv`, is about what
  records hold: what any command or search has read of the sources agrees with them on
  the paths at which no document has come or gone (`Stands`, `Watches`), so every graph in
  the cache shows just these, unless its document links to another (`GraphsStand`); the
  chunks of a leased generation stay until a build begins (`Matched`), which leaves the
  refusals that `Answered` lists.  The hypotheses:
  collection keeps shared records only of manifests it can load, so the policy must not
  change between an activation and its collection (`CalmPolicy`; `SamePolicy` for older
  generations); a late release takes the lease of another (`LastingLeases`).  None is
  about edits.  Each run satisfies what the theorems of its properties assume, except that
  `LeasedPresent` and `RefusalsHaveCause` are checked with two policies, and two builds.
- **`MigrationTyped`**, **`IntentsTrue`**, **`NoMutualRefusal`**, **`GuardedFirst`**,
  **`PlansTrue`** and the action properties **`MigratedLedgerStays`** and
  **`ReviewedIsMigrated`**: all the safety of Migrations.  `MigrationInv` adds what the applier that holds the
  lock has found or done so far (`Underway`: the ledger is still the reviewed one, the
  intent is its own; `Copying`: where the snapshot is; `Guarding`: the guard was
  published, and is not an empty one).  It is what the lock protects: every other action asks that the lock
  be free, or only deletes the guard or edits `.gitignore`.  One lemma per step.
- **`RetentionTyped`**, **`ChainsErasedWhole`**, **`CompactionTrue`** and the action
  properties **`ProtectedIsKept`**, **`ErasedWithCause`** and **`FactsKeepSupport`**: all the
  safety of Retention.  The lemmas are about the operators: a closure contains its
  roots, is closed, and is empty only without roots (`ClosureClosed`); a plan that
  does not fail names a closure, of what is due and not blocked at the moment it is
  applied (`PlanHolds`); only `apply` erases (`OnlyErase`).  `Grounded` (links and
  supports are between events that exist) and `Emptied` (nobody writes between a
  compaction and its record) make it inductive.  That a last authorization exists
  (`AuthorityTyped`) rests on the well-foundedness of the naturals.
- **`DerivativesTyped`**, **`AgreementHolds`**, **`ReceiptsHold`**, **`NodesTraced`** and the
  action property **`ReturnedGone`**: all the safety of Derivatives.  What apply returns is not
  inductive: that the graph has nothing of the plan rests on what was verified object
  by object, while others put and delete.  `Verified` says that every object that an
  apply is through with is `Covered` (in the graph only if the index, or a projection
  under way, has it too); it stays so since puts cover what they add, a deletion
  uncovers only an object that is still to do (`DeletionVerified`), SQLite has no graph
  and a Semantica index no second caller (`Alone`, an assumption on the adapters that
  the code's documentation makes too).  That the last look of apply sees both tables
  needs `GenerationsAgree` (`FinishGone`).  `NodesTraced` is the safety part of
  `ErasedAtLast`: what the stores hold has a trace in the index, with the exceptions of
  section 4.  `TraceInv` adds what is true between the deletion of a row and the
  invalidation of its projection.
- **`LegacyTyped`**, **`WholeHolds`**, **`RepairsHold`**, **`NoOrphans`** and the action
  property **`NewestOnly`**: all the safety of LegacyCache.  `LegacyInv` has four more
  parts.  `Shape` is what a build knows of itself whatever others do: while it owns the
  lock its generation is the last one begun.  `Apart` says that nobody works beside a
  command that is alone, nor two while no overlap counts; `Tracked`, that such a command
  has in Redis, or among its writes, all that its plan names, and that the pointer is
  its own only once it switched, so that its manifest overwrites no active one;
  `Registered`, that before the switch the registry names the old and the new keys, and
  that after the deletions only the new ones are left.  They make no claim of commands
  that overlapped, which is why `overlap` is in the model.  One lemma per step;
  `CollectKept` covers the three deletions.

Only model-checked: the five liveness properties (`Delivered`, `Resumes`,
`ErasedAtLast`, `WrittenIntentResolved`, `CompactionHappens`), as this prover has neither
fairness nor ENABLED.  No module has a recursive definition: circles and closures are stated with sets.

## 6. Abstractions, and what is not modelled

- *Ledger.*  Payloads, terms, ranking, sensitivity, record digests and the graph
  tables follow from the events and are left out; `require_claim_support` is at its
  default.  The number of verification attempts is bounded (`MaxAttempts`).
  Restored documents are such as an exporter writes: session status 1 in a
  hand-made document is outside.
- *PackActivation.*  A ledger is the set of its entries and equals the pack's when
  its digest would.  A crash of the process leaves a prefix of the file operations.  So
  does a loss of power during an import, which fsyncs the directory after each rename and
  unlink, but not one inside recovery, which moves two files and removes a third before
  its one fsync (`portable.py:868-869`, 876-886): that is outside the model.  What
  recovery does after its choice only reads.  The one import of `pack_files` is forced
  (`--replace`); the other branch is in the proofs.
- *CacheGenerations.*  The snapshot of the sources is one step, as the code compares
  it again.  A fenced batch is one step: up to 50 records, 200 postings or 1000
  deletions the code sends one script, and above that the fence is checked
  between.  The age of a generation is left open, so grace is a choice.  An empty
  registry stands for a missing one.  Contents of postings, vectors and counts are
  left out; status and validate change nothing.
- *HotProjection.*  The pointers beside the stream (latest-projected,
  superseded-by, contradicted-by) are left out: nothing reads them.  A receipt is
  the event's entry, without its stream id, as no event is twice in a stream.
  Stream fields other than the event and its ledger follow from them.  A script
  whose client is gone runs before any key expires, thirty days later.  A ledger gets
  stuck or migrated between calls, at any time; a rebuild of a migrated ledger resets its
  delivered rows before it is refused, as in the code.
- *Migrations.*  The registry has one step, v1 to v2, and one version.  Temporaries,
  the path of a snapshot that the caller names and the refusal of unsafe files are left
  out.  What git says is one bit (`ignored`) for the intent and the snapshots together,
  true also where it has no say.  An import is two steps here, the refusals and the
  activation in one (PackActivation has its files).
- *Retention.*  Which reason excludes an event, reason codes, the identity of a
  policy beside its version, the scrubbing of payloads and anchors, commitments and
  the graph are left out, and of an adapter's receipt all but that it was written
  (`WriteElse`).  A plan is proposed at the time it is read.  An erased fact keeps its
  support on record, as in the code.  In the instance nothing was sent to a hot
  projection and there is no anchor, so that those two clauses of `ProtectedStays` rest on
  the proof.
- *LegacyCache.*  Searches have no state and are left out: what one would find is
  `Searchable`.  The reads at the beginning of a build are one step, as it ends at its
  next refresh if it lost its lock between them.  A chunk stands for all chunks of a
  file, texts and vectors are left out, and so is the deep repair.
- *Derivatives.*  Calls on an adapter are serialized, as its documentation asks.  A
  version stands for its digest, the event of an object is part of its generation, and
  a caller wants one set of events forgotten.  Edges of the graph, the text of receipts
  and the resolver are left out.  `renewed` (what was added to a store after its receipt)
  and `orphans` are history.
- *Not modelled*: the launcher's pid file (planned below); scanner, retrieval, document parsing, audit
  and the MCP server (pure or read-only); onboarding (interactive, writes files
  once); the offline Redis (a test double).

## 7. Plan

Done, in the order of importance: Ledger, PackActivation over AtomicImport,
CacheGenerations, HotProjection, Retention, Migrations, Derivatives, LegacyCache; and for
each the proof of all the safety that its runs check.

1. Proofs: that a restored document is again one that can be exported; what
   `LeasedPresent` still says of commands whose policy differs.
   Runs: a local successor of an imported event; an import that is not forced.
2. *Migrations* as an implementation of one atomic schema step; an intent left by
   another version.
3. *Launcher*: two shells, a pid file, a server that dies.

Composition stays at the level of what one module sees of another (`Replace` in
HotProjection is an import, `Restore` in Ledger its contents, `Import` in Migrations
its refusals, `Attempted` in Retention the outbox): a product of the modules would
multiply their states without a property that needs both.

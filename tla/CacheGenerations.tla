-------------------------- MODULE CacheGenerations --------------------------
(* The v3 source cache (src/palimnex/cache_v3.py): index builds that stage a *)
(* generation of records in Redis and switch the active pointer to it,      *)
(* readers that lease the generation they search, garbage collection and    *)
(* `clear`.  Every Redis command and every Lua script is one step; what     *)
(* happens between two of them (another command, an edit of the sources, a  *)
(* key that expires, a process that dies) may happen here too.              *)
(*                                                                          *)
(* A build reads the registry, the old manifest and the old records only    *)
(* while its fence holds, and every write after them carries the fence, so  *)
(* the reads of one phase and the first fenced write after them are one     *)
(* step.  Leases, the active pointer and the sources change without the     *)
(* lock: they are read in the step where the code reads them.               *)
EXTENDS Naturals, FiniteSets

CONSTANTS Paths, Contents, NoFile,  \* source paths, what a file may hold, and no file
          Versions,                 \* [Paths -> what each path may hold]
          PiecesOf,                 \* [Contents -> the chunks of that content]
          LinksOf,                  \* [Contents -> the paths a document links to]
          Policies,                 \* index policies (part of every record key)
          Commands, Readers,        \* processes running index/clear, and searches
          None,
          Retention, Grace,         \* GENERATION_RETENTION, MAX_UNLEASED_GRACE_GENERATIONS
          MaxBuilds, MaxClears, MaxCrashes,  \* bounds
          LocksExpire,              \* may a live command outlive INDEX_LOCK_MS?
          LeasesExpire,             \* may a live search outlive LEASE_TTL_MS?
          QuietEdits                \* are the sources edited only between commands?

ASSUME GenerationsAssumption ==
    /\ Retention \in Nat \ {0} /\ Grace \in Nat
    /\ MaxBuilds \in Nat /\ MaxClears \in Nat /\ MaxCrashes \in Nat
    /\ NoFile \notin Contents
    /\ IsFiniteSet(Readers)
    /\ None \notin Commands /\ None \notin Nat
    /\ Versions \in [Paths -> SUBSET (Contents \cup {NoFile})]
    /\ \A p \in Paths : Versions[p] # {}
    /\ DOMAIN PiecesOf = Contents
    /\ LinksOf \in [Contents -> SUBSET Paths]
    /\ {LocksExpire, LeasesExpire, QuietEdits} \subseteq BOOLEAN

VARIABLES files, policy,   \* the repository: its sources and its configuration
          moved,           \* history: the paths at which a document has come or gone
          store,           \* the Redis records by key: chunks, graphs, postings, manifests
          registry,        \* the registered generations ({}: the key is missing)
          active,          \* the active-generation pointer
          lock,            \* the index-lock key: its owner or None
          leases,          \* the reader-lease counter of each generation
          command,         \* each index or clear process
          reader,          \* each search process
          built, cleared, crashes   \* counters for the bounds

vars == <<files, policy, moved, store, registry, active, lock, leases, command, reader,
          built, cleared, crashes>>
repository == <<files, policy, moved>>
cache == <<store, registry, active>>
counters == <<built, cleared, crashes>>

-----------------------------------------------------------------------------
(* What one corpus (the sources and the policy) becomes in the cache.       *)

Trees == {f \in [Paths -> Contents \cup {NoFile}] : \A p \in Paths : f[p] \in Versions[p]}
Corpora == [files : Trees, policy : Policies]
\* A command reads the policy once it has the lock, a search finds it in the manifest.
Snapshots == [files : Trees, policy : Policies \cup {None}]
Sources == [files |-> files, policy |-> None]
Generations == 1..MaxBuilds

KnownPaths(c) == {p \in Paths : c.files[p] # NoFile}

\* A chunk's key holds its path, text and policy, not the file's digest.
ChunkKeys(c) == UNION {{<<"chunk", p, piece, c.policy>> : piece \in PiecesOf[c.files[p]]} :
                           p \in KnownPaths(c)}
\* A graph's key holds its path, file digest and policy, not the other paths.
GraphKeys(c) == {<<"graph", p, c.files[p], c.policy>> : p \in KnownPaths(c)}
PostingKey(c) == <<"postings", ChunkKeys(c)>>
RecordKeys(c) == ChunkKeys(c) \cup GraphKeys(c) \cup {PostingKey(c)}
ManifestKey(g) == <<"manifest", g>>

ChunkPayload(c, key) == c.files[key[2]]
GraphPayload(c, key) == LinksOf[key[3]] \cap KnownPaths(c)

Entry(g, c, s) == [generation |-> g, corpus |-> c, state |-> s]
Complete(entries) == {e \in entries : e.state = "complete"}
Newest(n, entries) ==
    {e \in entries : Cardinality({f \in entries : f.generation > e.generation}) < n}
EntryKeys(e) == RecordKeys(e.corpus) \cup {ManifestKey(e.generation)}

\* _load_manifest: a manifest of another policy reads as no manifest at all.
Loadable(g) == /\ ManifestKey(g) \in DOMAIN store
               /\ store[ManifestKey(g)].policy = policy

EmptyStore == [key \in {} |-> None]
\* The store with some records written, and with some keys deleted.
Put(records) == [key \in DOMAIN records \cup DOMAIN store |->
                     IF key \in DOMAIN records THEN records[key] ELSE store[key]]
Without(keys) == [key \in DOMAIN store \ keys |-> store[key]]

NoCommand == [pc |-> "idle", corpus |-> None, generation |-> None, entries |-> {},
              writes |-> {}, doomed |-> {}, saved |-> None]
NoReader == [pc |-> "idle", corpus |-> None, generation |-> None, held |-> FALSE]

\* Mutant: the scripts do not compare the owner.
OwnsAnyway(i) == TRUE
Owns(i) == lock = i
At(i, pc) == command[i].pc = pc
Goes(i, pc) == command' = [command EXCEPT ![i].pc = pc]
Ends(i) == command' = [command EXCEPT ![i] = NoCommand]

Init == /\ files \in Trees /\ policy \in Policies /\ moved = {}
        /\ store = EmptyStore /\ registry = {} /\ active = None /\ lock = None
        /\ leases = [g \in Generations |-> 0]
        /\ command = [i \in Commands |-> NoCommand]
        /\ reader = [r \in Readers |-> NoReader]
        /\ built = 0 /\ cleared = 0 /\ crashes = 0

-----------------------------------------------------------------------------
(* The repository.                                                          *)

Idle == \A i \in Commands : At(i, "idle")

EditSource == /\ QuietEdits => Idle
              /\ \E p \in Paths : \E content \in Versions[p] \ {files[p]} :
                     /\ files' = [files EXCEPT ![p] = content]
                     /\ moved' = IF NoFile \in {files[p], content} THEN moved \cup {p} ELSE moved
              /\ UNCHANGED <<policy, cache, lock, leases, command, reader, counters>>

ChangePolicy == /\ QuietEdits => Idle
                /\ policy' \in Policies \ {policy}
                /\ UNCHANGED <<files, moved, cache, lock, leases, command, reader, counters>>

-----------------------------------------------------------------------------
(* index: build_index and _build_locked.                                    *)

\* The sources are read before the lock is taken.  (The bound: as many commands wait
\* for the lock as there are generations left.)
Waiting == {i \in Commands : At(i, "snapped")}
TakeSnapshot(i) ==
    /\ At(i, "idle") /\ built + Cardinality(Waiting) < MaxBuilds
    /\ command' = [command EXCEPT ![i].pc = "snapped", ![i].corpus = Sources]
    /\ UNCHANGED <<repository, cache, lock, leases, reader, counters>>

LockForBuild(i) ==
    /\ At(i, "snapped") /\ lock = None /\ built < MaxBuilds
    /\ lock' = i /\ built' = built + 1
    /\ command' = [command EXCEPT ![i].pc = "locked", ![i].generation = built + 1,
                                  ![i].corpus.policy = policy]
    /\ UNCHANGED <<repository, cache, leases, reader, cleared, crashes>>

\* "another Palimnex v3 indexer is active"
FindsLocked(i) ==
    /\ At(i, "snapped") /\ lock # None
    /\ Ends(i)
    /\ UNCHANGED <<repository, cache, lock, leases, reader, counters>>

\* Mutant: a stored chunk is left as it is.
MissingChunks(c) == ChunkKeys(c) \ DOMAIN store
\* A chunk is written unless the stored one is equal; a graph of an unchanged
\* file is reused as it is stored, unless a deep repair was asked for.
OldGraphKeys == IF active # None /\ Loadable(active)
                THEN GraphKeys(store[ManifestKey(active)]) ELSE {}
ChunkWrites(c) == {key \in ChunkKeys(c) :
                      key \notin DOMAIN store \/ store[key] # ChunkPayload(c, key)}
GraphWrites(c, repair) == {key \in GraphKeys(c) :
                              repair \/ key \notin OldGraphKeys \/ key \notin DOMAIN store}
Writes(c, repair) == ChunkWrites(c) \cup GraphWrites(c, repair)
Payload(c, key) == IF key \in ChunkKeys(c) THEN ChunkPayload(c, key) ELSE GraphPayload(c, key)

\* Mutant: the staged generation is not registered.
StageUnregistered(i) ==
    LET c == command[i].corpus
        g == command[i].generation
    IN  /\ At(i, "locked") /\ Owns(i)
        /\ \E repair \in BOOLEAN :
               command' = [command EXCEPT
                              ![i].pc = "staged", ![i].writes = Writes(c, repair),
                              ![i].entries = registry \cup {Entry(g, c, "complete")}]
        /\ UNCHANGED <<repository, cache, lock, leases, reader, counters>>

\* The generation is registered as staging before any record of it exists.
Stage(i) ==
    LET c == command[i].corpus
        g == command[i].generation
    IN  /\ At(i, "locked") /\ Owns(i)
        /\ registry' = registry \cup {Entry(g, c, "staging")}
        /\ \E repair \in BOOLEAN :
               command' = [command EXCEPT
                              ![i].pc = "staged", ![i].writes = Writes(c, repair),
                              ![i].entries = registry \cup {Entry(g, c, "complete")}]
        /\ UNCHANGED <<repository, store, active, lock, leases, reader, counters>>

WriteRecords(i) ==
    /\ At(i, "staged") /\ Owns(i)
    /\ store' = Put([key \in command[i].writes |-> Payload(command[i].corpus, key)])
    /\ command' = [command EXCEPT ![i].pc = "recorded", ![i].writes = {}]
    /\ UNCHANGED <<repository, registry, active, lock, leases, reader, counters>>

WritePostings(i) ==
    /\ At(i, "recorded") /\ Owns(i)
    /\ store' = Put([key \in {PostingKey(command[i].corpus)} |-> ChunkKeys(command[i].corpus)])
    /\ Goes(i, "posted")
    /\ UNCHANGED <<repository, registry, active, lock, leases, reader, counters>>

WriteManifest(i) ==
    /\ At(i, "posted") /\ Owns(i)
    /\ store' = Put([key \in {ManifestKey(command[i].generation)} |-> command[i].corpus])
    /\ Goes(i, "described")
    /\ UNCHANGED <<repository, registry, active, lock, leases, reader, counters>>

RegisterComplete(i) ==
    /\ At(i, "described") /\ Owns(i)
    /\ registry' = command[i].entries
    /\ Goes(i, "complete")
    /\ UNCHANGED <<repository, store, active, lock, leases, reader, counters>>

\* The sources are read again: "repository changed during indexing".
CheckSources(i) ==
    /\ At(i, "complete") /\ Owns(i)
    /\ Goes(i, IF files = command[i].corpus.files THEN "checked" ELSE "releasing")
    /\ UNCHANGED <<repository, cache, lock, leases, reader, counters>>

Activate(i) ==
    /\ At(i, "checked") /\ Owns(i)
    /\ active' = command[i].generation
    /\ Goes(i, "activated")
    /\ UNCHANGED <<repository, store, registry, lock, leases, reader, counters>>

-----------------------------------------------------------------------------
(* _collect_garbage: what is kept is planned from the registry, the leases  *)
(* and the manifests that load; the doomed keys go in one fenced delete and *)
(* the registry is written after it.  The age of a generation is left open: *)
(* any number of the newest unleased ones may be inside the grace period.   *)

\* Mutant: a kept generation is thought to share nothing.
CurrentKeys(kept, current) == {ManifestKey(current)}
\* The records of every kept generation stay: generations share records.
UsedKeys(kept, current) ==
    {ManifestKey(current)}
        \cup UNION {EntryKeys(e) : e \in {f \in kept : Loadable(f.generation)}}

\* Mutant: a single reader is overlooked.
LeasedTwice(entries) == {e \in entries : leases[e.generation] > 1}
Leased(entries) == {e \in entries : leases[e.generation] > 0}

PlanCollection(i) ==
    LET last == Newest(Retention, Complete(registry))
        candidates == registry \ last
        leased == Leased(candidates)
    IN  /\ At(i, "activated") /\ Owns(i)
        /\ \E young \in 0..Grace :
               LET kept == last \cup leased
                               \cup Newest(young, Complete(candidates) \ leased)
                   doomed == UNION {EntryKeys(e) : e \in registry \ kept}
               IN  command' = [command EXCEPT
                       ![i].pc = "collecting", ![i].entries = kept,
                       ![i].doomed = doomed \ UsedKeys(kept, command[i].generation)]
        /\ UNCHANGED <<repository, cache, lock, leases, reader, counters>>

DeleteDoomed(i) ==
    /\ At(i, "collecting") /\ Owns(i)
    /\ store' = Without(command[i].doomed)
    /\ Goes(i, "collected")
    /\ UNCHANGED <<repository, registry, active, lock, leases, reader, counters>>

ForgetDoomed(i) ==
    /\ At(i, "collected") /\ Owns(i)
    /\ registry' = command[i].entries
    /\ Goes(i, "releasing")
    /\ UNCHANGED <<repository, store, active, lock, leases, reader, counters>>

-----------------------------------------------------------------------------
(* clear                                                                    *)

LockForClear(i) ==
    /\ At(i, "idle") /\ cleared < MaxClears /\ lock = None
    /\ lock' = i /\ cleared' = cleared + 1
    /\ Goes(i, "clearing")
    /\ UNCHANGED <<repository, cache, leases, reader, built, crashes>>

ActiveIsComplete == active = None \/ \E e \in Complete(registry) : e.generation = active

\* Nothing registered, or an active pointer to no complete generation.
RefuseClear(i) ==
    /\ At(i, "clearing") /\ Owns(i)
    /\ registry = {} \/ ~ActiveIsComplete
    /\ Goes(i, "releasing")
    /\ UNCHANGED <<repository, cache, lock, leases, reader, counters>>

\* Mutant: the leases are read while the pointer is still there.
LeaveAttached(i) ==
    /\ At(i, "clearing") /\ Owns(i)
    /\ registry # {} /\ ActiveIsComplete
    /\ command' = [command EXCEPT ![i].pc = "detached", ![i].entries = registry,
                                  ![i].saved = active,
                                  ![i].doomed = UNION {EntryKeys(e) : e \in registry}]
    /\ UNCHANGED <<repository, cache, lock, leases, reader, counters>>

\* The pointer is detached before the leases are read: no reader can enter.
Detach(i) ==
    /\ At(i, "clearing") /\ Owns(i)
    /\ registry # {} /\ ActiveIsComplete
    /\ active' = None
    /\ command' = [command EXCEPT ![i].pc = "detached", ![i].entries = registry,
                                  ![i].saved = active,
                                  ![i].doomed = UNION {EntryKeys(e) : e \in registry}]
    /\ UNCHANGED <<repository, store, registry, lock, leases, reader, counters>>

CheckReaders(i) ==
    /\ At(i, "detached")
    /\ Goes(i, IF Leased(command[i].entries) = {} THEN "wiping" ELSE "restoring")
    /\ UNCHANGED <<repository, cache, lock, leases, reader, counters>>

\* "cache has active readers and cannot be cleared"
Restore(i) ==
    /\ At(i, "restoring")
    /\ command[i].saved # None => Owns(i)
    /\ active' = IF command[i].saved = None THEN active ELSE command[i].saved
    /\ Goes(i, "releasing")
    /\ UNCHANGED <<repository, store, registry, lock, leases, reader, counters>>

\* Keys go in sorted batches: the registry sorts after every record.
Wipe(i) ==
    /\ At(i, "wiping") /\ Owns(i)
    /\ store' = Without(command[i].doomed)
    /\ active' = None
    /\ Goes(i, "wiped")
    /\ UNCHANGED <<repository, registry, lock, leases, reader, counters>>

Unregister(i) ==
    /\ At(i, "wiped") /\ Owns(i)
    /\ registry' = {}
    /\ Goes(i, "releasing")
    /\ UNCHANGED <<repository, store, active, lock, leases, reader, counters>>

-----------------------------------------------------------------------------
(* The writer lock.                                                         *)

Unlocked == {"idle", "snapped"}

Release(i) ==
    /\ At(i, "releasing")
    /\ lock' = IF Owns(i) THEN None ELSE lock
    /\ Ends(i)
    /\ UNCHANGED <<repository, cache, leases, reader, counters>>

\* Every fenced write checks the owner: a command that lost the lock fails.
LoseFence(i) ==
    /\ command[i].pc \notin Unlocked \cup {"releasing", "detached"} /\ ~Owns(i)
    /\ At(i, "restoring") => command[i].saved # None
    /\ Ends(i)
    /\ UNCHANGED <<repository, cache, lock, leases, reader, counters>>

\* The process dies at any point after its snapshot; its lock stays behind.
CrashCommand(i) ==
    /\ ~At(i, "idle") /\ crashes < MaxCrashes
    /\ crashes' = crashes + 1
    /\ Ends(i)
    /\ UNCHANGED <<repository, cache, lock, leases, reader, built, cleared>>

\* INDEX_LOCK_MS after the last refresh, whatever became of the owner.
Abandoned(owner) == command[owner].pc \in Unlocked
ExpireLock ==
    /\ lock # None
    /\ LocksExpire \/ Abandoned(lock)
    /\ lock' = None
    /\ UNCHANGED <<repository, cache, leases, command, reader, counters>>

-----------------------------------------------------------------------------
(* A search: _fresh_context, generation_reader, the record reads, release.  *)

ReaderAt(r, pc) == reader[r].pc = pc
ReaderGoes(r, pc) == reader' = [reader EXCEPT ![r].pc = pc]
Leaves(r) == reader' = [reader EXCEPT ![r].pc = "releasing", ![r].corpus = None]

Look(r) ==
    /\ ReaderAt(r, "idle")
    /\ reader' = [reader EXCEPT ![r].pc = "looked", ![r].corpus = Sources]
    /\ UNCHANGED <<repository, cache, lock, leases, command, counters>>

\* One script reads the pointer, counts the lease up and renews its TTL.
Acquire(r) ==
    /\ ReaderAt(r, "looked") /\ active # None
    /\ leases' = [leases EXCEPT ![active] = @ + 1]
    /\ reader' = [reader EXCEPT ![r].pc = "leased", ![r].generation = active, ![r].held = TRUE]
    /\ UNCHANGED <<repository, cache, lock, command, counters>>

FindsNoCache(r) ==
    /\ ReaderAt(r, "looked") /\ active = None
    /\ reader' = [reader EXCEPT ![r] = NoReader]
    /\ UNCHANGED <<repository, cache, lock, leases, command, counters>>

\* A manifest that is gone is an error; one of other sources is a stale cache.
OpenManifest(r) ==
    LET g == reader[r].generation
        fresh == Loadable(g) /\ store[ManifestKey(g)].files = reader[r].corpus.files
    IN  /\ ReaderAt(r, "leased")
        /\ \/ ManifestKey(g) \notin DOMAIN store /\ ReaderGoes(r, "missing")
           \/ /\ ManifestKey(g) \in DOMAIN store /\ ~fresh
              /\ Leaves(r)
           \/ /\ ManifestKey(g) \in DOMAIN store /\ fresh
              /\ reader' = [reader EXCEPT ![r].pc = "reading",
                                          ![r].corpus = store[ManifestKey(g)]]
        /\ UNCHANGED <<repository, cache, lock, leases, command, counters>>

ChunksMatch(c) == \A key \in ChunkKeys(c) :
    key \in DOMAIN store /\ store[key] = ChunkPayload(c, key)
GraphsMatch(c) == \A key \in GraphKeys(c) :
    key \in DOMAIN store /\ store[key] = GraphPayload(c, key)

\* The lease is renewed after each read; a lapsed one ends the search.
Refreshed(r) == leases[reader[r].generation] > 0

\* The postings and the chunks are read, then checked against the sources.
ReadChunks(r) ==
    LET c == reader[r].corpus
        there == ChunkKeys(c) \cup {PostingKey(c)} \subseteq DOMAIN store
    IN  /\ ReaderAt(r, "reading")
        /\ \/ ~Refreshed(r) /\ Leaves(r)
           \/ Refreshed(r) /\ ~there /\ ReaderGoes(r, "missing")
           \/ /\ Refreshed(r) /\ there
              /\ ReaderGoes(r, IF ChunksMatch(c) THEN "linking" ELSE "chunk_differs")
        /\ UNCHANGED <<repository, cache, lock, leases, command, counters>>

ReadGraphs(r) ==
    LET c == reader[r].corpus
        there == GraphKeys(c) \subseteq DOMAIN store
    IN  /\ ReaderAt(r, "linking")
        /\ \/ ~Refreshed(r) /\ Leaves(r)
           \/ Refreshed(r) /\ ~there /\ ReaderGoes(r, "missing")
           \/ /\ Refreshed(r) /\ there
              /\ IF GraphsMatch(c) THEN Leaves(r) ELSE ReaderGoes(r, "graph_differs")
        /\ UNCHANGED <<repository, cache, lock, leases, command, counters>>

\* A search that has got so far, or was refused, gives its lease back.
Refused == {"missing", "chunk_differs", "graph_differs"}
Leaving(r) == reader[r].pc \in {"releasing"} \cup Refused

\* Mutant: a reader that is not the last one leaves the count as it is.
KeepCount(r) ==
    /\ Leaving(r)
    /\ leases' = [leases EXCEPT ![reader[r].generation] = IF @ <= 0 THEN 0 ELSE @]
    /\ reader' = [reader EXCEPT ![r] = NoReader]
    /\ UNCHANGED <<repository, cache, lock, command, counters>>

\* One key counts every reader of a generation: the last one deletes it.
ReleaseLease(r) ==
    /\ Leaving(r)
    /\ leases' = [leases EXCEPT ![reader[r].generation] = IF @ <= 1 THEN 0 ELSE @ - 1]
    /\ reader' = [reader EXCEPT ![r] = NoReader]
    /\ UNCHANGED <<repository, cache, lock, command, counters>>

\* The process dies and its count stays until the key expires.
CrashReader(r) ==
    /\ ~ReaderAt(r, "idle") /\ crashes < MaxCrashes
    /\ crashes' = crashes + 1
    /\ reader' = [reader EXCEPT ![r] = NoReader]
    /\ UNCHANGED <<repository, cache, lock, leases, command, built, cleared>>

\* LEASE_TTL_MS after the last renewal: every reader of g lapses at once.
HoldersOf(g) == {r \in Readers : reader[r].held /\ reader[r].generation = g}
ExpireLease(g) ==
    /\ leases[g] > 0
    /\ LeasesExpire \/ HoldersOf(g) = {}
    /\ leases' = [leases EXCEPT ![g] = 0]
    /\ reader' = [r \in Readers |-> IF r \in HoldersOf(g)
                                    THEN [reader[r] EXCEPT !.held = FALSE] ELSE reader[r]]
    /\ UNCHANGED <<repository, cache, lock, command, counters>>

-----------------------------------------------------------------------------
Build(i) == \/ TakeSnapshot(i) \/ LockForBuild(i) \/ FindsLocked(i) \/ Stage(i)
            \/ WriteRecords(i) \/ WritePostings(i) \/ WriteManifest(i)
            \/ RegisterComplete(i) \/ CheckSources(i) \/ Activate(i)
            \/ PlanCollection(i) \/ DeleteDoomed(i) \/ ForgetDoomed(i)
Clear(i) == \/ LockForClear(i) \/ RefuseClear(i) \/ Detach(i) \/ CheckReaders(i)
            \/ Restore(i) \/ Wipe(i) \/ Unregister(i)
Search(r) == \/ Look(r) \/ Acquire(r) \/ FindsNoCache(r) \/ OpenManifest(r)
             \/ ReadChunks(r) \/ ReadGraphs(r) \/ ReleaseLease(r)

Next == \/ EditSource \/ ChangePolicy
        \/ \E i \in Commands : Build(i) \/ Clear(i) \/ Release(i) \/ LoseFence(i)
                                   \/ CrashCommand(i)
        \/ \E r \in Readers : Search(r) \/ CrashReader(r)
        \/ ExpireLock \/ \E g \in Generations : ExpireLease(g)

Spec == Init /\ [][Next]_vars

-----------------------------------------------------------------------------
(* Type correctness.                                                        *)

Keys == UNION {EntryKeys(e) : e \in [generation : Generations, corpus : Corpora,
                                     state : {"complete"}]}
Entries == [generation : Generations, corpus : Corpora, state : {"staging", "complete"}]

CommandPCs == {"idle", "snapped", "locked", "staged", "recorded", "posted", "described",
               "complete", "checked", "activated", "collecting", "collected", "clearing",
               "detached", "wiping", "restoring", "wiped", "releasing"}
ReaderPCs == {"idle", "looked", "leased", "reading", "linking", "releasing"} \cup Refused

CommandStates == [pc : CommandPCs, corpus : Snapshots \cup {None},
                  generation : Generations \cup {None}, entries : SUBSET Entries,
                  writes : SUBSET Keys, doomed : SUBSET Keys,
                  saved : Generations \cup {None}]
ReaderStates == [pc : ReaderPCs, corpus : Snapshots \cup {None},
                 generation : Generations \cup {None}, held : BOOLEAN]

\* Every variable keeps to its type, and a counter to its bound.
TypeOK ==
    /\ files \in Trees /\ policy \in Policies /\ moved \subseteq Paths
    /\ DOMAIN store \subseteq Keys
    /\ \A g \in Generations : ManifestKey(g) \in DOMAIN store =>
           store[ManifestKey(g)] \in Corpora
    /\ registry \subseteq Entries
    /\ active \in Generations \cup {None}
    /\ lock \in Commands \cup {None}
    /\ leases \in [Generations -> 0..Cardinality(Readers) + MaxCrashes]
    /\ command \in [Commands -> CommandStates] /\ reader \in [Readers -> ReaderStates]
    /\ built \in 0..MaxBuilds /\ cleared \in 0..MaxClears /\ crashes \in 0..MaxCrashes

-----------------------------------------------------------------------------
(* Properties.                                                              *)

\* The manifest of an entry and every record it names are in the cache.
Present(e) == /\ ManifestKey(e.generation) \in DOMAIN store
              /\ store[ManifestKey(e.generation)] = e.corpus
              /\ EntryKeys(e) \subseteq DOMAIN store

\* Whatever indexers, clears, expired locks and crashes do to each other, the
\* active pointer names a registered, complete generation with every record of
\* it in the cache: no stale writer activates what another has removed
\* (_activate, _fenced_delete, clear).
ActivePresent ==
    active # None => \E e \in Complete(registry) : e.generation = active /\ Present(e)

\* While the lease of a search has not run out, its generation keeps its
\* manifest and every record, also those it shares with doomed generations
\* (generation_reader, _collect_garbage, the lease check of clear).
LeasedPresent ==
    \A r \in Readers : reader[r].held =>
        \E e \in registry : e.generation = reader[r].generation /\ Present(e)

\* Garbage collection keeps every record of the newest complete generations,
\* which share records with the generations it removes (_collect_garbage).  A clear
\* that dies half way leaves generations that are registered and gone.
RetainedPresent ==
    cleared = 0 => \A e \in Newest(Retention, Complete(registry)) : Present(e)

\* No record is orphaned: whenever a build dies, a registered generation names
\* each record in the cache, so a later collection or clear can remove it
\* (the registry is written before the records and cut after the deletes).
Owned == DOMAIN store \subseteq UNION {EntryKeys(e) : e \in registry}

\* Some version of a document keeps a chunk of the one in corpus c.
KeepsChunk(c) == \E d \in Corpora : \E key \in ChunkKeys(c) \cap ChunkKeys(d) :
                     ChunkPayload(c, key) # ChunkPayload(d, key)
\* The document of a graph links to a path that has come or gone.
Relinked(key) == LinksOf[key[3]] \cap moved # {}

\* A search whose lease holds is never told that a record is missing.  It is told that a
\* chunk differs from the sources only if a later build has begun and an edit can leave
\* that chunk as it was, and that a graph differs only if a document of its generation
\* links to a path that has come or gone (search, _load_graphs).
RefusalsHaveCause ==
    \A r \in Readers : reader[r].held =>
        LET c == reader[r].corpus
        IN  /\ ~ReaderAt(r, "missing")
            /\ ReaderAt(r, "chunk_differs") => built > reader[r].generation /\ KeepsChunk(c)
            /\ ReaderAt(r, "graph_differs") => \E key \in GraphKeys(c) : Relinked(key)

\* What status calls a fresh cache can be searched: until another build begins, an
\* active generation built from the current sources has every record, with the chunks
\* these sources call for, and the graph of each document but those that link to a path
\* that has come or gone (status, search, _build_locked).
FreshServable ==
    LET c == store[ManifestKey(active)]
    IN  active = built /\ Loadable(active) /\ c.files = files =>
            /\ RecordKeys(c) \subseteq DOMAIN store /\ ChunksMatch(c)
            /\ \A key \in GraphKeys(c) : Relinked(key) \/ store[key] = GraphPayload(c, key)

=============================================================================

---------------------------- MODULE LegacyCache ----------------------------
(* The cache of version 2 (src/palimnex/core.py), which `cache_mode' off and *)
(* shadow still use: index builds, searches and `clear'.  It has one         *)
(* registry of keys and one active manifest.  The lock is a key that         *)
(* expires; a build looks whether it still owns it at four moments, and only *)
(* the activation compares the owner in the script that writes.  All other   *)
(* writes are plain commands that run also after the lock has passed on.     *)
EXTENDS Naturals, FiniteSets

CONSTANTS Paths, Contents, NoFile,  \* source paths, what a file may hold, and no file
          Versions,                 \* [Paths -> what each path may hold]
          Commands,                 \* processes running index or clear
          None,
          MaxCommands, MaxCrashes   \* bounds

ASSUME LegacyAssumption ==
    /\ MaxCommands \in Nat /\ MaxCrashes \in Nat
    /\ NoFile \notin Contents
    /\ None \notin Commands /\ None \notin Nat
    /\ None \notin [files : [Paths -> Contents \cup {NoFile}],
                    origin : [Paths -> 0..MaxCommands]]
    /\ Versions \in [Paths -> SUBSET (Contents \cup {NoFile})]

VARIABLES files,      \* the sources
          records,    \* the keys of the chunks and graphs that are in Redis
          manifests,  \* the manifests in Redis, by generation
          registry,   \* the keys in the chunk registry ({}: it is missing)
          active,     \* the active-generation pointer
          lock,       \* the index-lock key: its owner or None
          command,    \* each index or clear process
          overlap,    \* history: did two commands work at once (see Overlapped)?
          begun, crashes   \* counters for the bounds

cache == <<records, manifests, registry, active>>
counters == <<begun, crashes>>
vars == <<files, cache, lock, command, overlap, counters>>

-----------------------------------------------------------------------------
(* Keys.  A chunk's key ends in the build that wrote it; a graph's key holds *)
(* its path and the digest of the file, so builds share it.                  *)

Trees == {f \in [Paths -> Contents \cup {NoFile}] : \A p \in Paths : f[p] \in Versions[p]}
\* A generation is numbered by the command that took the lock for it; 0 is one
\* that was there before.
Generations == 0..MaxCommands
Present(f) == {p \in Paths : f[p] # NoFile}

Key(kind, p, content, g) == [kind |-> kind, path |-> p, content |-> content, build |-> g]
ChunkKey(p, content, g) == Key("chunk", p, content, g)
GraphKey(p, content) == Key("graph", p, content, None)
ManifestKey(g) == Key("manifest", None, None, g)

\* The manifest of sources f whose chunks were written by the builds origin[p].
Manifest(f, origin) == [files |-> f, origin |-> origin]
ChunksOf(m) == {ChunkKey(p, m.files[p], m.origin[p]) : p \in Present(m.files)}
GraphsOf(m) == {GraphKey(p, m.files[p]) : p \in Present(m.files)}
RecordsOf(m) == ChunksOf(m) \cup GraphsOf(m)

NoManifests == [g \in Generations |-> None]
ActiveManifest == IF active = None THEN None ELSE manifests[active]
\* What the active manifest names, itself included.
ActiveKeys == IF ActiveManifest = None THEN {}
              ELSE RecordsOf(ActiveManifest) \cup {ManifestKey(active)}

NoCommand == [pc |-> "idle", files |-> None, generation |-> None, old |-> None,
              known |-> {}, plan |-> None, writes |-> {}, alone |-> FALSE]

Owns(i) == lock = i
At(i, pc) == command[i].pc = pc
Goes(i, pc) == command' = [command EXCEPT ![i].pc = pc]
Ends(i) == command' = [command EXCEPT ![i] = NoCommand]

\* Nothing indexed yet, or one generation that an index run has left.
NothingBuilt == records = {} /\ manifests = NoManifests /\ registry = {} /\ active = None
FirstBuilt(m) == /\ records = RecordsOf(m) /\ manifests = [NoManifests EXCEPT ![0] = m]
                 /\ registry = RecordsOf(m) \cup {ManifestKey(0)} /\ active = 0

Init == /\ files \in Trees
        /\ NothingBuilt \/ \E f \in Trees : FirstBuilt(Manifest(f, [p \in Paths |-> 0]))
        /\ lock = None
        /\ command = [i \in Commands |-> NoCommand]
        /\ overlap = "never"
        /\ begun = 0 /\ crashes = 0

-----------------------------------------------------------------------------
(* The lock.                                                                *)

\* Nothing that these still do writes to the cache.
Ending == {"refused", "cleared", "releasing"}
Harmless == {"idle"} \cup Ending
Working(j) == command[j].pc \notin Harmless

\* A command takes the lock while another, whose lock expired, is at work.
Overlapped(i) == \E j \in Commands \ {i} : Working(j)

\* The command starts as `first', and others are not alone any more.
Locks(i, first) ==
    /\ At(i, "idle") /\ begun < MaxCommands
    /\ lock = None /\ lock' = i
    /\ begun' = begun + 1
    /\ overlap' = IF Overlapped(i) THEN "now" ELSE overlap
    /\ command' = [j \in Commands |->
                      IF j = i THEN [first EXCEPT !.alone = ~Overlapped(i)]
                      ELSE [command[j] EXCEPT !.alone = FALSE]]

\* The `finally' of _index_lock, also after a failure.
Release(i) ==
    /\ command[i].pc \in Ending
    /\ lock' = IF Owns(i) THEN None ELSE lock
    /\ Ends(i)
    /\ UNCHANGED <<files, cache, overlap, counters>>

\* INDEX_LOCK_MS after the last refresh, whatever its owner is doing.
ExpireLock ==
    /\ lock # None /\ lock' = None
    /\ UNCHANGED <<files, cache, command, overlap, counters>>

-----------------------------------------------------------------------------
(* index: build_index and _build_index_locked.                              *)

\* The sources were read before the lock was taken: they may have been any tree,
\* as they are edited at any time, back as well.  The active manifest and the
\* registry are read at once after it: a build that has lost the lock by then ends
\* at its first refresh, and nothing others do depends on it before.
LockForBuild(i) ==
    /\ \E f \in Trees :
           Locks(i, [NoCommand EXCEPT !.pc = "surveyed", !.files = f, !.generation = begun + 1,
                                      !.old = ActiveManifest,
                                      !.known = registry \cup ActiveKeys])
    /\ UNCHANGED <<files, cache, crashes>>

\* The chunks of an unchanged file are reused if every one of them is there.
Reusable(i, p) ==
    /\ command[i].old # None
    /\ command[i].old.files[p] = command[i].files[p]
    /\ ChunkKey(p, command[i].old.files[p], command[i].old.origin[p]) \in records

\* The plan of the new manifest; the lock is refreshed after the reads.
ReadRecords(i) ==
    LET origin == [p \in Paths |-> IF Reusable(i, p) THEN command[i].old.origin[p]
                                   ELSE command[i].generation]
    IN  /\ At(i, "surveyed") /\ Owns(i)
        /\ command' = [command EXCEPT ![i].pc = "planned", ![i].old = None,
                                      ![i].plan = Manifest(command[i].files, origin)]
        /\ UNCHANGED <<files, cache, lock, overlap, counters>>

OwnKeys(i) == RecordsOf(command[i].plan) \cup {ManifestKey(command[i].generation)}

\* Mutant: what is registered is taken to be there.
Unknown(i) == {key \in RecordsOf(command[i].plan) \ command[i].known :
                   key.kind = "graph" \/ key.build = command[i].generation}
\* What the build has made itself, and the graphs that are not there.
Missing(i) == {key \in RecordsOf(command[i].plan) \ records :
                   key.kind = "graph" \/ key.build = command[i].generation}

\* Mutant: only the keys of the new generation are registered.
RegisterOwn(i) ==
    /\ At(i, "planned")
    /\ registry' = OwnKeys(i)
    /\ command' = [command EXCEPT ![i].pc = "registered", ![i].writes = Missing(i)]
    /\ UNCHANGED <<files, records, manifests, active, lock, overlap, counters>>

\* "Register every old and staged key before any staged write can create an
\* orphan": a plain SET of what was read above and of the new keys.
Register(i) ==
    /\ At(i, "planned")
    /\ registry' = command[i].known \cup OwnKeys(i)
    /\ command' = [command EXCEPT ![i].pc = "registered", ![i].writes = Missing(i)]
    /\ UNCHANGED <<files, records, manifests, active, lock, overlap, counters>>

Refresh(i) ==
    /\ At(i, "registered") /\ Owns(i)
    /\ Goes(i, "writing")
    /\ UNCHANGED <<files, cache, lock, overlap, counters>>

\* One pipeline: the missing chunks and graphs, then the manifest.
WriteRecords(i) ==
    /\ At(i, "writing")
    /\ records' = records \cup command[i].writes
    /\ command' = [command EXCEPT ![i].pc = "recorded", ![i].writes = {}]
    /\ UNCHANGED <<files, manifests, registry, active, lock, overlap, counters>>

WriteManifest(i) ==
    /\ At(i, "recorded")
    /\ manifests' = [manifests EXCEPT ![command[i].generation] = command[i].plan]
    /\ Goes(i, "described")
    /\ UNCHANGED <<files, records, registry, active, lock, overlap, counters>>

\* "staged generation failed chunk validation", or graph validation
Validate(i) ==
    /\ At(i, "described")
    /\ Goes(i, IF RecordsOf(command[i].plan) \subseteq records
               THEN "validated" ELSE "refused")
    /\ UNCHANGED <<files, cache, lock, overlap, counters>>

\* "repository changed during indexing; staged generation was not activated"
CheckSources(i) ==
    /\ At(i, "validated")
    /\ Goes(i, IF files = command[i].files THEN "checked" ELSE "releasing")
    /\ UNCHANGED <<files, cache, lock, overlap, counters>>

\* Mutant: the pointer is set without a look at the owner.
ActivateAnyway(i) ==
    /\ At(i, "checked")
    /\ active' = command[i].generation
    /\ overlap' = IF overlap = "now" /\ command[i].alone THEN "mended" ELSE overlap
    /\ Goes(i, "activated")
    /\ UNCHANGED <<files, records, manifests, registry, lock, counters>>

\* The one script that compares the owner and writes.  A build that was alone
\* from its lock to here ends an overlap.
Activate(i) ==
    /\ At(i, "checked") /\ Owns(i)
    /\ active' = command[i].generation
    /\ overlap' = IF overlap = "now" /\ command[i].alone THEN "mended" ELSE overlap
    /\ Goes(i, "activated")
    /\ UNCHANGED <<files, records, manifests, registry, lock, counters>>

\* Mutant: what the new generation takes over is taken for obsolete.
DoomedReused(i) == {key \in command[i].known : key.kind # "manifest"
                        /\ key.build # command[i].generation}
\* What was registered, or of the old generation, and is not of the new one.
Doomed(i) == command[i].known \ OwnKeys(i)

\* The manifests that are left when some keys are deleted.
Without(keys) ==
    [g \in Generations |-> IF ManifestKey(g) \in keys THEN None ELSE manifests[g]]

DeleteChunks(i) ==
    /\ At(i, "activated")
    /\ records' = {key \in records : ~(key.kind = "chunk" /\ key \in Doomed(i))}
    /\ Goes(i, "unchunked")
    /\ UNCHANGED <<files, manifests, registry, active, lock, overlap, counters>>

DeleteGraphs(i) ==
    /\ At(i, "unchunked")
    /\ records' = records \ Doomed(i)
    /\ Goes(i, "ungraphed")
    /\ UNCHANGED <<files, manifests, registry, active, lock, overlap, counters>>

DeleteManifests(i) ==
    /\ At(i, "ungraphed")
    /\ manifests' = Without(Doomed(i))
    /\ Goes(i, "collected")
    /\ UNCHANGED <<files, records, registry, active, lock, overlap, counters>>

\* "Shrink the registry only after obsolete keys have actually been removed."
ShrinkRegistry(i) ==
    /\ At(i, "collected")
    /\ registry' = OwnKeys(i)
    /\ Goes(i, "releasing")
    /\ UNCHANGED <<files, records, manifests, active, lock, overlap, counters>>

\* "Palimnex index lock ownership was lost"
LoseLock(i) ==
    /\ command[i].pc \in {"surveyed", "registered", "checked"} /\ ~Owns(i)
    /\ Ends(i)
    /\ UNCHANGED <<files, cache, lock, overlap, counters>>

-----------------------------------------------------------------------------
(* clear: under the lock, but it never looks at it again.                    *)

LockForClear(i) ==
    /\ Locks(i, [NoCommand EXCEPT !.pc = "clearing"])
    /\ UNCHANGED <<files, cache, crashes>>

\* The registry and the active manifest say what there is.
ReadKeys(i) ==
    /\ At(i, "clearing")
    /\ command' = [command EXCEPT ![i].pc = "wiping", ![i].known = registry \cup ActiveKeys]
    /\ UNCHANGED <<files, cache, lock, overlap, counters>>

\* One DEL of them all, the registry and the pointer with them.
Wipe(i) ==
    /\ At(i, "wiping")
    /\ records' = records \ command[i].known
    /\ manifests' = Without(command[i].known)
    /\ registry' = {} /\ active' = None
    /\ command' = [command EXCEPT ![i].pc = "cleared", ![i].known = {}]
    /\ UNCHANGED <<files, lock, overlap, counters>>

-----------------------------------------------------------------------------
EditSource ==
    /\ \E p \in Paths : \E content \in Versions[p] \ {files[p]} :
           files' = [files EXCEPT ![p] = content]
    /\ UNCHANGED <<cache, lock, command, overlap, counters>>

\* A command dies between two of its commands; its lock stays until it expires.
Crash(i) ==
    /\ ~At(i, "idle") /\ crashes < MaxCrashes
    /\ crashes' = crashes + 1
    /\ Ends(i)
    /\ UNCHANGED <<files, cache, lock, overlap, begun>>

Build(i) == \/ LockForBuild(i)
            \/ ReadRecords(i) \/ Register(i) \/ Refresh(i) \/ WriteRecords(i)
            \/ WriteManifest(i) \/ Validate(i) \/ CheckSources(i) \/ Activate(i)
            \/ DeleteChunks(i) \/ DeleteGraphs(i) \/ DeleteManifests(i)
            \/ ShrinkRegistry(i) \/ LoseLock(i)
Clear(i) == LockForClear(i) \/ ReadKeys(i) \/ Wipe(i)

Next == \/ EditSource \/ ExpireLock
        \/ \E i \in Commands : Build(i) \/ Clear(i) \/ Release(i) \/ Crash(i)

Spec == Init /\ [][Next]_vars

-----------------------------------------------------------------------------
(* Type correctness.                                                        *)

Keys == {ChunkKey(p, c, g) : p \in Paths, c \in Contents, g \in Generations}
        \cup {GraphKey(p, c) : p \in Paths, c \in Contents}
AllKeys == Keys \cup {ManifestKey(g) : g \in Generations}
AllManifests == [files : Trees, origin : [Paths -> Generations]]

CommandPCs == {"idle", "surveyed", "planned", "registered", "writing",
               "recorded", "described", "validated", "refused", "checked", "activated",
               "unchunked", "ungraphed", "collected", "clearing", "wiping", "cleared",
               "releasing"}

CommandStates == [pc : CommandPCs, files : Trees \cup {None},
                  generation : Generations \cup {None}, old : AllManifests \cup {None},
                  known : SUBSET AllKeys, plan : AllManifests \cup {None},
                  writes : SUBSET Keys, alone : BOOLEAN]

\* Every variable keeps to its type.
TypeOK ==
    /\ files \in Trees
    /\ records \subseteq Keys /\ registry \subseteq AllKeys
    /\ manifests \in [Generations -> AllManifests \cup {None}]
    /\ active \in Generations \cup {None}
    /\ lock \in Commands \cup {None}
    /\ command \in [Commands -> CommandStates]
    /\ overlap \in {"never", "now", "mended"}
    /\ begun \in 0..MaxCommands /\ crashes \in 0..MaxCrashes

-----------------------------------------------------------------------------
(* Properties.                                                              *)

\* A search finds the active manifest, and every chunk and graph that it names.
Searchable == ActiveManifest # None /\ RecordsOf(ActiveManifest) \subseteq records

\* Whatever crashed, lost its lock or was refused, the active generation can be
\* searched, with the records it took over from others: collection spares them,
\* and until the switch nothing of the old one goes ("readers continue using the
\* old complete generation until this SET succeeds").  Commands that overlapped
\* are forgiven only until one build has run alone.
ActiveWhole == overlap # "now" /\ active # None => Searchable

\* Whatever earlier commands, also such as overlapped, have deleted or left half
\* done, a build that runs alone does not fail on its own staged records: it
\* notices what is missing of what it wants to reuse (_valid_chunk_value,
\* _load_graph_record, "staged generation failed chunk validation").
Repairs == \A i \in Commands : At(i, "refused") => ~command[i].alone

InRedis == records \cup {ManifestKey(g) : g \in {h \in Generations : manifests[h] # None}}

\* As long as no two commands overlapped, every record and manifest in Redis is in
\* the registry, wherever a build dies or is refused ("before any staged write can
\* create an orphan"), so that the next build or clear finds it; and a clear that
\* is through leaves nothing at all (_clear_locked).
NothingOrphaned ==
    overlap = "never" =>
        /\ InRedis \subseteq registry
        /\ (\E i \in Commands : At(i, "cleared") /\ command[i].alone) => InRedis = {}

\* The pointer is only ever moved to the build that was begun last: one that lost
\* its lock to a later build never switches it back (_activate_generation).
OnlyNewestActivates == [][active' \in {active, None, begun}]_vars

=============================================================================

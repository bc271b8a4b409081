----------------------- MODULE CacheGenerationsProofs -----------------------
(***************************************************************************)
(* What the cache of version 3 keeps to, for any commands, searches,       *)
(* sources, crashes and keys that expire.                                  *)
(***************************************************************************)
EXTENDS CacheGenerations, FiniteSetTheorems, WellFoundedInduction, TLAPS

(* What some of the theorems assume of the surroundings; section 4 of the  *)
(* README says what happens without it.                                    *)

\* The index policy does not change, or only while no command runs.
SamePolicy == \A p, q \in Policies : p = q
CalmPolicy == QuietEdits \/ SamePolicy
\* No search outlives its lease, or there is one at most.
LastingLeases == ~LeasesExpire \/ \A r, s \in Readers : r = s

-----------------------------------------------------------------------------
(* The inductive invariant.                                                 *)

Staging == {"staged", "recorded", "posted", "described"}
Finished == {"complete", "checked"}
Collecting == {"activated", "collecting", "collected"}
Building == {"locked"} \cup Staging \cup Finished \cup Collecting
Clearing == {"clearing", "detached", "wiping", "restoring", "wiped"}

Corpus(i) == command[i].corpus
Staged(i) == Entry(command[i].generation, Corpus(i), "staging")
Completed(i) == Entry(command[i].generation, Corpus(i), "complete")
ContentKeys(c) == ChunkKeys(c) \cup GraphKeys(c)
KeysOf(entries) == UNION {EntryKeys(e) : e \in entries}

\* One of the entries is that of generation g, complete; it is all there if `whole'.
Secured(entries, g, whole) ==
    \E e \in Complete(entries) : e.generation = g /\ (whole => Present(e))
\* The same after the deletion of the keys as well.
Spared(entries, g, keys, whole) ==
    \E e \in Complete(entries) :
        e.generation = g /\ (whole => Present(e) /\ EntryKeys(e) \cap keys = {})

\* What a command knows of itself, with the lock or without.
Shape(i) ==
    /\ command[i].pc = "snapped" => Corpus(i) \in Snapshots
    /\ command[i].pc \in Building =>
           Corpus(i) \in Corpora /\ (QuietEdits => Corpus(i).policy = policy)
    /\ command[i].pc \in Building => command[i].generation \in 1..built
    /\ command[i].pc \in Clearing => cleared # 0
    /\ command[i].pc = "staged" => command[i].writes \subseteq ContentKeys(Corpus(i))

\* The build that owns the lock, up to its activation.
Builds(i) ==
    /\ command[i].pc \in Building => command[i].generation = built
    /\ command[i].pc = "locked" => \A e \in registry : e.generation < built
    /\ command[i].pc \in Staging =>
           /\ Staged(i) \in registry
           /\ command[i].entries = (registry \ {Staged(i)}) \cup {Completed(i)}
           /\ \A e \in registry \ {Staged(i)} : e.generation < built
    /\ command[i].pc = "staged" =>
           \A key \in ContentKeys(Corpus(i)) : key \in DOMAIN store \/ key \in command[i].writes
    /\ command[i].pc \in {"recorded", "posted"} => ContentKeys(Corpus(i)) \subseteq DOMAIN store
    /\ command[i].pc = "posted" => PostingKey(Corpus(i)) \in DOMAIN store
    /\ command[i].pc \in {"described", "activated"} \cup Finished => Present(Completed(i))
    /\ command[i].pc \in Finished \cup {"activated"} => Completed(i) \in registry

\* The chunks that it has written, or found to be equal.
BuildsChunks(i) ==
    /\ command[i].pc = "staged" =>
           \A key \in ChunkKeys(Corpus(i)) \ command[i].writes :
               key \in DOMAIN store /\ store[key] = ChunkPayload(Corpus(i), key)
    /\ command[i].pc \in Staging \cup Finished /\ command[i].pc # "staged" => ChunksMatch(Corpus(i))

Kept == Newest(Retention, Complete(registry))
HeldBy(r) == reader[r].held
LeasesHold == SamePolicy /\ LastingLeases

\* Collection: what it is going to delete, or has deleted.
Collects(i) ==
    /\ command[i].pc \in Collecting => active = command[i].generation
    /\ command[i].pc \in {"collecting", "collected"} =>
           /\ command[i].entries \subseteq registry /\ Kept \subseteq command[i].entries
           /\ Secured(command[i].entries, active, CalmPolicy)
           /\ LeasesHold => \A r \in Readers : HeldBy(r) =>
                  Secured(command[i].entries, reader[r].generation, TRUE)
    /\ command[i].pc = "collecting" =>
           /\ DOMAIN store \ command[i].doomed \subseteq KeysOf(command[i].entries)
           /\ Spared(command[i].entries, active, command[i].doomed, CalmPolicy)
           /\ SamePolicy /\ cleared = 0 =>
                  \A e \in Kept : EntryKeys(e) \cap command[i].doomed = {}
           /\ LeasesHold => \A r \in Readers : HeldBy(r) =>
                  Spared(command[i].entries, reader[r].generation, command[i].doomed, TRUE)
    /\ command[i].pc = "collected" => DOMAIN store \subseteq KeysOf(command[i].entries)

\* The active generation is in the registry, whole, with the chunks of its sources.
Serves(g) ==
    /\ Secured(registry, g, CalmPolicy)
    /\ CalmPolicy /\ g = built => ChunksMatch(store[ManifestKey(g)])

\* A clear, from the moment it has detached the pointer.
Clears(i) ==
    /\ command[i].pc \in {"detached", "wiping", "restoring", "wiped"} => active = None
    /\ command[i].pc \in {"detached", "wiping", "restoring"} =>
           command[i].entries = registry /\ command[i].doomed = KeysOf(registry)
    /\ command[i].pc \in {"detached", "restoring"} /\ command[i].saved # None =>
           Serves(command[i].saved)
    /\ command[i].pc \in {"wiping", "wiped"} /\ LeasesHold => \A r \in Readers : ~HeldBy(r)
    /\ command[i].pc = "wiped" => DOMAIN store = {}

Owner(i) == Builds(i) /\ BuildsChunks(i) /\ Collects(i) /\ Clears(i)

\* Every chunk that is stored is one of some version of its document.
Records ==
    \A c \in Corpora : \A key \in ChunkKeys(c) \cap DOMAIN store :
        \E d \in Corpora : key \in ChunkKeys(d) /\ store[key] = ChunkPayload(d, key)

\* The registry and what needs its generations.
Registered ==
    /\ IsFiniteSet(registry) /\ \A e \in registry : e.generation <= built
    /\ Owned
    /\ active # None => Serves(active)
    /\ LeasesHold => \A r \in Readers : HeldBy(r) => Secured(registry, reader[r].generation, TRUE)
    /\ SamePolicy => RetainedPresent

\* The lease of a generation counts the readers that hold it, and some that died.
Counted(g) ==
    /\ leases[g] <= Cardinality(HoldersOf(g)) + crashes
    /\ LastingLeases => Cardinality(HoldersOf(g)) <= leases[g]

Holding == {"leased", "reading", "linking", "releasing"} \cup Refused
Reads(r) ==
    /\ reader[r].pc \in Holding => reader[r].generation \in Generations
    /\ HeldBy(r) => reader[r].pc \in Holding
    /\ ~LeasesExpire /\ reader[r].pc \in Holding => HeldBy(r)

\* What a search has opened is what its generation says.
Opened(r) ==
    LeasesHold /\ HeldBy(r) /\ reader[r].pc \in {"reading", "linking"} =>
        reader[r].corpus = store[ManifestKey(reader[r].generation)]

CacheInv ==
    /\ TypeOK /\ Records /\ Registered
    /\ \A i \in Commands : Shape(i) /\ (lock = i => Owner(i))
    /\ \A g \in Generations : Counted(g)
    /\ \A r \in Readers : Reads(r) /\ Opened(r)

-----------------------------------------------------------------------------
(* Constants, keys and entries.                                             *)

LEMMA Constants ==
    /\ Retention \in Nat \ {0} /\ Grace \in Nat /\ IsFiniteSet(Readers)
    /\ MaxBuilds \in Nat /\ MaxClears \in Nat /\ MaxCrashes \in Nat
    /\ NoFile \notin Contents
    /\ None \notin Commands /\ None \notin Nat /\ None \notin Generations
    /\ Generations \subseteq Nat /\ \A g \in Generations : 1 <= g /\ g <= MaxBuilds
    /\ {LocksExpire, LeasesExpire, QuietEdits} \subseteq BOOLEAN
    /\ SamePolicy => CalmPolicy
BY GenerationsAssumption DEF Generations, CalmPolicy

\* Keys of one kind are not keys of another.
LEMMA KindOfKey ==
    /\ \A c : \A key \in ChunkKeys(c) : key[1] = "chunk"
    /\ \A c : \A key \in GraphKeys(c) : key[1] = "graph"
    /\ \A c : PostingKey(c)[1] = "postings"
    /\ \A g : ManifestKey(g)[1] = "manifest" /\ ManifestKey(g)[2] = g
BY DEF ChunkKeys, GraphKeys, PostingKey, ManifestKey

LEMMA KeysApart ==
    /\ \A c, g : ManifestKey(g) \notin RecordKeys(c) /\ ManifestKey(g) \notin ContentKeys(c)
    /\ \A g, h : ManifestKey(g) = ManifestKey(h) => g = h
    /\ \A c, d : ChunkKeys(c) \cap GraphKeys(d) = {}
    /\ \A c, d : PostingKey(d) \notin ChunkKeys(c) /\ PostingKey(d) \notin GraphKeys(c)
    /\ \A c, g : ManifestKey(g) # PostingKey(c)
<1>1. \A c, g : ManifestKey(g) \notin RecordKeys(c) /\ ManifestKey(g) \notin ContentKeys(c)
  BY KindOfKey DEF RecordKeys, ContentKeys
<1>2. \A g, h : ManifestKey(g) = ManifestKey(h) => g = h
  BY KindOfKey
<1>3. \A c, d : ChunkKeys(c) \cap GraphKeys(d) = {}
  BY KindOfKey
<1>4. \A c, d : PostingKey(d) \notin ChunkKeys(c) /\ PostingKey(d) \notin GraphKeys(c)
  BY KindOfKey
<1>5. \A c, g : ManifestKey(g) # PostingKey(c)
  BY KindOfKey
<1> QED
  BY <1>1, <1>2, <1>3, <1>4, <1>5

LEMMA EntryFields ==
    \A g, c, s : Entry(g, c, s).generation = g /\ Entry(g, c, s).corpus = c /\ Entry(g, c, s).state = s
BY DEF Entry

LEMMA EntryTyped ==
    /\ \A e \in Entries : /\ e.generation \in Generations /\ e.corpus \in Corpora
                          /\ EntryKeys(e) \subseteq Keys
    /\ \A g \in Generations, c \in Corpora, s \in {"staging", "complete"} : Entry(g, c, s) \in Entries
<1>1. ASSUME NEW e \in Entries PROVE EntryKeys(e) \subseteq Keys
  <2> DEFINE d == [generation |-> e.generation, corpus |-> e.corpus, state |-> "complete"]
  <2>1. d \in [generation : Generations, corpus : Corpora, state : {"complete"}]
    BY DEF Entries
  <2>2. EntryKeys(d) = EntryKeys(e)
    BY DEF EntryKeys
  <2> HIDE DEF d
  <2> QED
    BY <2>1, <2>2 DEF Keys
<1> QED
  BY <1>1 DEF Entries, Entry

LEMMA StagedAndCompleted ==
    ASSUME NEW i \in Commands
    PROVE  /\ EntryKeys(Staged(i)) = EntryKeys(Completed(i))
           /\ EntryKeys(Completed(i)) = RecordKeys(Corpus(i)) \cup {ManifestKey(command[i].generation)}
           /\ Completed(i).state = "complete" /\ Staged(i).state = "staging"
           /\ Completed(i).generation = command[i].generation /\ Completed(i).corpus = Corpus(i)
           /\ Staged(i).generation = command[i].generation /\ Staged(i).corpus = Corpus(i)
BY EntryFields DEF Staged, Completed, EntryKeys

\* The store after records were written, and after keys were deleted.
LEMMA PutIs ==
    ASSUME NEW records, store' = Put(records)
    PROVE  /\ DOMAIN store' = DOMAIN records \cup DOMAIN store
           /\ \A key \in DOMAIN records : store'[key] = records[key]
           /\ \A key \in DOMAIN store \ DOMAIN records : store'[key] = store[key]
BY DEF Put

LEMMA WithoutIs ==
    ASSUME NEW keys, store' = Without(keys)
    PROVE  /\ DOMAIN store' = DOMAIN store \ keys
           /\ \A key \in DOMAIN store \ keys : store'[key] = store[key]
BY DEF Without

\* A generation stays whole if none of its keys goes and its manifest is not replaced.
LEMMA PresentStays ==
    ASSUME NEW e, Present(e), EntryKeys(e) \subseteq DOMAIN store',
           store'[ManifestKey(e.generation)] = store[ManifestKey(e.generation)]
    PROVE  Present(e)'
BY DEF Present, EntryKeys

-----------------------------------------------------------------------------
(* The newest entries.                                                      *)

\* In a finite set of entries some is the newest.
LEMMA SomeNewest ==
    ASSUME NEW S, S # {}, NEW n \in Nat, \A e \in S : e.generation \in 0..n
    PROVE  \E e \in S : \A f \in S : f.generation <= e.generation
<1> DEFINE Above == {m \in Nat : \A e \in S : e.generation <= m}
           Less == {pair \in Nat \X Nat : pair[1] < pair[2]}
<1>1. n \in Above
  OBVIOUS
<1>2. PICK k \in Above : \A m \in Above : k <= m
  <2>1. IsWellFoundedOn(Less, Nat)
    BY NatLessThanWellFounded DEF OpToRel
  <2>2. PICK k \in Above : \A m \in Above : <<m, k>> \notin Less
    <3> HIDE DEF Less, Above
    <3>1. Above \subseteq Nat
      BY DEF Above
    <3> QED
      BY <1>1, <2>1, <3>1, WFMin
  <2>3. \A m \in Nat : m < k => <<m, k>> \in Less
    OBVIOUS
  <2>4. \A m \in Above : m \in Nat /\ k \in Nat /\ ~(m < k)
    BY <2>2, <2>3
  <2> QED
    BY <2>4
<1>3. SUFFICES ASSUME \A e \in S : e.generation # k PROVE FALSE
  BY <1>2
<1>4. \A e \in S : e.generation \in Nat /\ e.generation < k
  BY <1>2, <1>3
<1>5. k - 1 \in Above
  BY <1>2, <1>4
<1> QED
  BY <1>2, <1>5

\* An entry above which there is none is among the newest.
LEMMA TopIsNewest ==
    ASSUME NEW S, NEW e \in S, \A f \in S : ~(f.generation > e.generation), NEW n \in Nat \ {0}
    PROVE  e \in Newest(n, S)
<1>1. {f \in S : f.generation > e.generation} = {}
  OBVIOUS
<1> QED
  BY <1>1, FS_EmptySet DEF Newest

LEMMA NewestIn == \A n, S : Newest(n, S) \subseteq S
BY DEF Newest

\* What is new makes no other entry newer than it was.
LEMMA NewestOfMore ==
    ASSUME NEW n \in Nat, NEW T, IsFiniteSet(T), NEW S \in SUBSET T
    PROVE  Newest(n, T) \cap S \subseteq Newest(n, S)
<1> SUFFICES ASSUME NEW e \in S, e \in Newest(n, T) PROVE e \in Newest(n, S)
  OBVIOUS
<1> DEFINE inT == {f \in T : f.generation > e.generation}
           inS == {f \in S : f.generation > e.generation}
<1>1. IsFiniteSet(inT) /\ inS \subseteq inT
  BY FS_Subset
<1>2. Cardinality(inS) <= Cardinality(inT) /\ Cardinality(inS) \in Nat /\ Cardinality(inT) \in Nat
  BY <1>1, FS_Subset, FS_CardinalityType
<1>3. Cardinality(inT) < n
  BY DEF Newest
<1>4. Cardinality(inS) < n
  BY <1>2, <1>3
<1> QED
  BY <1>4 DEF Newest

\* What loses none of its newest entries has the same newest entries.
LEMMA NewestOfKept ==
    ASSUME NEW n \in Nat, NEW m \in Nat, NEW S, IsFiniteSet(S),
           \A e \in S : e.generation \in 0..m,
           NEW T \in SUBSET S, Newest(n, S) \subseteq T
    PROVE  Newest(n, T) \subseteq Newest(n, S)
<1> SUFFICES ASSUME NEW e \in Newest(n, T), e \notin Newest(n, S) PROVE FALSE
  OBVIOUS
<1> DEFINE newer == {f \in S : f.generation > e.generation}
           newerT == {f \in T : f.generation > e.generation}
           others == {f \in newer : f \notin Newest(n, S)}
<1>1. e \in T /\ Cardinality(newerT) < n
  BY DEF Newest
<1>2. ~(Cardinality(newer) < n)
  BY <1>1 DEF Newest
<1>3. IsFiniteSet(newer) /\ IsFiniteSet(newerT) /\ newerT \subseteq newer
  BY FS_Subset
<1>4. newer # newerT
  BY <1>1, <1>2
<1>5. others # {}
  BY <1>3, <1>4
<1>6. PICK d \in others : \A f \in others : f.generation <= d.generation
  <2>1. \A f \in others : f.generation \in 0..m
    OBVIOUS
  <2> HIDE DEF others
  <2> QED
    BY <1>5, <2>1, SomeNewest
<1> DEFINE newest == {f \in S : f.generation > d.generation}
<1>7. newest \subseteq newerT
  <2> SUFFICES ASSUME NEW f \in S, f.generation > d.generation PROVE f \in newerT
    OBVIOUS
  <2>1. f.generation \in 0..m /\ d.generation \in 0..m /\ e.generation \in 0..m
    BY <1>1, <1>6
  <2>2. f.generation > e.generation /\ f \notin others
    BY <1>6, <2>1
  <2> QED
    BY <2>2
<1>8. Cardinality(newest) < n
  <2>1. /\ Cardinality(newest) <= Cardinality(newerT)
        /\ Cardinality(newest) \in Nat /\ Cardinality(newerT) \in Nat
    BY <1>3, <1>7, FS_Subset, FS_CardinalityType
  <2> QED
    BY <1>1, <2>1
<1> QED
  BY <1>6, <1>8 DEF Newest

-----------------------------------------------------------------------------
(* Frames: what a step leaves as it is.                                     *)

\* All that the parts of the invariant look at, when the cache stays.
LEMMA CacheStays ==
    ASSUME UNCHANGED cache
    PROVE  /\ \A e : Present(e)' <=> Present(e)
           /\ \A entries, g, whole : Secured(entries, g, whole)' <=> Secured(entries, g, whole)
           /\ \A entries, g, keys, whole :
                  Spared(entries, g, keys, whole)' <=> Spared(entries, g, keys, whole)
           /\ \A c : ChunksMatch(c)' <=> ChunksMatch(c)
           /\ Kept' = Kept /\ (Records' <=> Records) /\ (Owned' <=> Owned)
           /\ UNCHANGED <<store, registry, active>>
<1>1. UNCHANGED <<store, registry, active>>
  BY DEF cache
<1>2. \A e : Present(e)' <=> Present(e)
  BY <1>1 DEF Present
<1>3. \A entries, g, whole : Secured(entries, g, whole)' <=> Secured(entries, g, whole)
  BY <1>2 DEF Secured
<1>4. \A entries, g, keys, whole : Spared(entries, g, keys, whole)' <=> Spared(entries, g, keys, whole)
  BY <1>2 DEF Spared
<1>5. \A c : ChunksMatch(c)' <=> ChunksMatch(c)
  BY <1>1 DEF ChunksMatch
<1>6. Kept' = Kept /\ (Records' <=> Records) /\ (Owned' <=> Owned)
  BY <1>1 DEF Kept, Records, Owned
<1> QED
  BY <1>1, <1>2, <1>3, <1>4, <1>5, <1>6

LEMMA ServesStays ==
    ASSUME UNCHANGED <<cache, built>>
    PROVE  \A g : Serves(g)' <=> Serves(g)
BY CacheStays DEF Serves

\* An owner's part of the invariant, when neither it nor the cache changes, and no
\* search holds a generation but the active one that it did not hold before.
LEMMA OwnerStays ==
    ASSUME NEW i \in Commands, Owner(i), command'[i] = command[i],
           UNCHANGED <<cache, built, cleared>>,
           active # None => Serves(active), LeasesHold => CalmPolicy,
           \A r \in Readers : HeldBy(r)' =>
               \/ HeldBy(r) /\ reader'[r].generation = reader[r].generation
               \/ active # None /\ reader'[r].generation = active
    PROVE  Owner(i)'
<1>1. /\ Corpus(i)' = Corpus(i) /\ Staged(i)' = Staged(i) /\ Completed(i)' = Completed(i)
      /\ UNCHANGED <<store, registry, active>>
  BY CacheStays DEF Corpus, Staged, Completed
<1>2. Builds(i)'
  BY <1>1, CacheStays DEF Owner, Builds
<1>3. BuildsChunks(i)'
  BY <1>1, CacheStays DEF Owner, BuildsChunks
<1>4. Collects(i)'
  <2>1. /\ command[i].pc \in Collecting => active = command[i].generation
        /\ command[i].pc \in {"collecting", "collected"} =>
               /\ command[i].entries \subseteq registry /\ Kept \subseteq command[i].entries
               /\ Secured(command[i].entries, active, CalmPolicy)
        /\ command[i].pc = "collecting" =>
               /\ DOMAIN store \ command[i].doomed \subseteq KeysOf(command[i].entries)
               /\ Spared(command[i].entries, active, command[i].doomed, CalmPolicy)
               /\ SamePolicy /\ cleared = 0 =>
                      \A e \in Kept : EntryKeys(e) \cap command[i].doomed = {}
        /\ command[i].pc = "collected" => DOMAIN store \subseteq KeysOf(command[i].entries)
    BY DEF Owner, Collects
  <2>2. ASSUME LeasesHold, NEW r \in Readers, HeldBy(r)',
               command[i].pc \in {"collecting", "collected"}
        PROVE  /\ Secured(command[i].entries, reader'[r].generation, TRUE)
               /\ command[i].pc = "collecting" =>
                      Spared(command[i].entries, reader'[r].generation, command[i].doomed, TRUE)
    <3>1. CASE HeldBy(r) /\ reader'[r].generation = reader[r].generation
      BY <2>2, <3>1 DEF Owner, Collects
    <3>2. CASE reader'[r].generation = active
      BY <2>1, <2>2, <3>2 DEF Secured, Spared
    <3> QED
      BY <2>2, <3>1, <3>2
  <2>3. LeasesHold' <=> LeasesHold
    BY DEF LeasesHold
  <2> QED
    BY <1>1, <2>1, <2>2, <2>3, CacheStays DEF Collects
<1>5. Clears(i)'
  BY <1>1, ServesStays, CacheStays DEF Owner, Clears, LeasesHold
<1> QED
  BY <1>2, <1>3, <1>4, <1>5 DEF Owner

LEMMA ShapeStays ==
    ASSUME NEW i \in Commands, Shape(i), command'[i] = command[i],
           built \in Nat, built' \in Nat, built <= built', cleared # 0 => cleared' # 0,
           QuietEdits => policy' = policy \/ command[i].pc \notin {"snapped"} \cup Building
    PROVE  Shape(i)'
BY DEF Shape, Corpus

\* The registered part, when the cache stays.
LEMMA RegisteredStays ==
    ASSUME Registered, TypeOK, UNCHANGED cache, built' \in Nat, built <= built',
           cleared = 0 \/ cleared' # 0, LeasesHold => CalmPolicy,
           \A r \in Readers : HeldBy(r)' =>
               \/ HeldBy(r) /\ reader'[r].generation = reader[r].generation
               \/ active # None /\ reader'[r].generation = active
    PROVE  Registered'
<1>1. UNCHANGED <<store, registry, active>> /\ Kept' = Kept
  BY CacheStays
<1>2. built \in Nat /\ \A e \in registry : e.generation \in Nat /\ e.generation <= built
  <2>1. built \in Nat
    BY Constants DEF TypeOK
  <2>2. \A e \in registry : e.generation \in Nat
    BY EntryTyped, Constants DEF TypeOK
  <2>3. \A e \in registry : e.generation <= built
    BY DEF Registered
  <2> QED
    BY <2>1, <2>2, <2>3
<1>3. \A e \in registry' : e.generation <= built'
  BY <1>1, <1>2
<1>4. active # None => Serves(active)'
  <2>1. active # None => Secured(registry, active, CalmPolicy) /\ active <= built
    BY <1>2 DEF Registered, Serves, Secured, Complete
  <2>2. active # None /\ active = built' => active = built
    <3>1. active \in Nat \cup {None}
      BY Constants DEF TypeOK
    <3> QED
      BY <1>2, <2>1, <3>1
  <2> QED
    BY <1>1, <2>1, <2>2, CacheStays DEF Registered, Serves
<1>5. ASSUME LeasesHold, NEW r \in Readers, HeldBy(r)'
      PROVE  Secured(registry, reader'[r].generation, TRUE)
  <2>1. CASE HeldBy(r) /\ reader'[r].generation = reader[r].generation
    BY <1>5, <2>1 DEF Registered
  <2>2. CASE active # None /\ reader'[r].generation = active
    BY <1>5, <2>2 DEF Registered, Serves, Secured
  <2> QED
    BY <1>5, <2>1, <2>2
<1>6. SamePolicy => RetainedPresent'
  BY <1>1, CacheStays DEF Registered, RetainedPresent, Kept
<1> QED
  BY <1>1, <1>3, <1>4, <1>5, <1>6, CacheStays DEF Registered, LeasesHold

-----------------------------------------------------------------------------
(* Steps.                                                                   *)

\* A step of a command that changes neither the cache nor a search.
LEMMA SideStep ==
    ASSUME CacheInv, NEW i \in Commands, command' = [command EXCEPT ![i] = command'[i]],
           command'[i] \in CommandStates, UNCHANGED <<repository, cache, leases, reader>>,
           lock' \in {lock, None, i}, built' \in 0..MaxBuilds, built <= built',
           cleared' \in 0..MaxClears, cleared <= cleared',
           crashes' \in 0..MaxCrashes, crashes <= crashes',
           lock' = i \/ UNCHANGED <<built, cleared>>,
           Shape(i)', lock' = i => Owner(i)'
    PROVE  CacheInv'
<1>1. /\ command' \in [Commands -> CommandStates]
      /\ \A j \in Commands \ {i} : command'[j] = command[j]
  BY DEF CacheInv, TypeOK
<1>2. UNCHANGED <<store, registry, active, files, policy, moved>>
  BY CacheStays DEF repository
<1>3. built \in Nat /\ built' \in Nat /\ cleared \in Nat /\ cleared' \in Nat
  BY Constants DEF CacheInv, TypeOK
<1>4. TypeOK'
  BY <1>1, <1>2 DEF CacheInv, TypeOK
<1>5. Records'
  BY CacheStays DEF CacheInv
<1>6. Registered'
  BY <1>3, RegisteredStays, Constants DEF CacheInv, LeasesHold, HeldBy
<1>7. ASSUME NEW j \in Commands PROVE Shape(j)' /\ (lock' = j => Owner(j)')
  <2>1. CASE j = i
    BY <2>1
  <2>2. CASE j # i
    <3>1. Shape(j)'
      BY <1>1, <1>2, <1>3, <2>2, ShapeStays DEF CacheInv
    <3>2. ASSUME lock' = j PROVE Owner(j)'
      <4>1. lock = j /\ UNCHANGED <<built, cleared>>
        BY <2>2, <3>2, Constants
      <4>2. Owner(j) /\ (active # None => Serves(active))
        BY <4>1 DEF CacheInv, Registered
      <4> QED
        BY <1>1, <2>2, <4>1, <4>2, OwnerStays, Constants DEF LeasesHold, HeldBy
    <3> QED
      BY <3>1, <3>2
  <2> QED
    BY <2>1, <2>2
<1>8. ASSUME NEW g \in Generations PROVE Counted(g)'
  <2>1. Counted(g) /\ leases' = leases /\ HoldersOf(g)' = HoldersOf(g)
    BY DEF CacheInv, HoldersOf
  <2>2. IsFiniteSet(HoldersOf(g))
    BY Constants, FS_Subset DEF HoldersOf
  <2>3. Cardinality(HoldersOf(g)) \in Nat /\ leases[g] \in Nat /\ crashes \in Nat /\ crashes' \in Nat
    <3>1. Cardinality(Readers) \in Nat
      BY Constants, FS_CardinalityType
    <3> QED
      BY <2>2, <3>1, Constants, FS_CardinalityType DEF CacheInv, TypeOK
  <2> QED
    BY <2>1, <2>3 DEF Counted
<1>9. \A r \in Readers : Reads(r)' /\ Opened(r)'
  BY <1>2 DEF CacheInv, Reads, Opened, HeldBy
<1> QED
  BY <1>4, <1>5, <1>6, <1>7, <1>8, <1>9 DEF CacheInv

\* A step of the owner of the lock that changes the cache.
LEMMA OwnerStep ==
    ASSUME CacheInv, NEW i \in Commands, lock = i, command' = [command EXCEPT ![i] = command'[i]],
           command'[i] \in CommandStates,
           UNCHANGED <<repository, lock, leases, reader, counters>>,
           DOMAIN store' \subseteq Keys, registry' \subseteq Entries,
           \A g \in Generations : ManifestKey(g) \in DOMAIN store' =>
               store'[ManifestKey(g)] \in Corpora,
           active' \in Generations \cup {None},
           Shape(i)', Owner(i)', Records', Registered', \A r \in Readers : Opened(r)'
    PROVE  CacheInv'
<1>1. /\ command' \in [Commands -> CommandStates]
      /\ \A j \in Commands \ {i} : command'[j] = command[j]
  BY DEF CacheInv, TypeOK
<1>2. UNCHANGED <<files, policy, moved, built, cleared, crashes>>
  BY DEF repository, counters
<1>3. TypeOK'
  BY <1>1, <1>2 DEF CacheInv, TypeOK
<1>4. ASSUME NEW j \in Commands PROVE Shape(j)' /\ (lock' = j => Owner(j)')
  <2>1. CASE j = i
    BY <2>1
  <2>2. CASE j # i
    BY <1>1, <1>2, <2>2 DEF CacheInv, Shape, Corpus
  <2> QED
    BY <2>1, <2>2
<1>5. \A g \in Generations : Counted(g)'
  BY <1>2 DEF CacheInv, Counted, HoldersOf
<1>6. \A r \in Readers : Reads(r)'
  BY DEF CacheInv, Reads, HeldBy
<1> QED
  BY <1>3, <1>4, <1>5, <1>6 DEF CacheInv

\* A step of a search, or of the leases.
LEMMA ReaderStep ==
    ASSUME CacheInv, UNCHANGED <<repository, cache, lock, command, built, cleared>>,
           crashes' \in 0..MaxCrashes,
           leases' \in [Generations -> 0..Cardinality(Readers) + MaxCrashes],
           reader' \in [Readers -> ReaderStates],
           \A r \in Readers : HeldBy(r)' =>
               \/ HeldBy(r) /\ reader'[r].generation = reader[r].generation
               \/ active # None /\ reader'[r].generation = active,
           \A g \in Generations : Counted(g)',
           \A r \in Readers : Reads(r)' /\ Opened(r)'
    PROVE  CacheInv'
<1>1. UNCHANGED <<store, registry, active, files, policy, moved>>
  BY CacheStays DEF repository
<1>2. built \in Nat /\ cleared \in Nat
  BY Constants DEF CacheInv, TypeOK
<1>3. TypeOK'
  BY <1>1 DEF CacheInv, TypeOK
<1>4. Records'
  BY CacheStays DEF CacheInv
<1>5. Registered'
  BY <1>2, RegisteredStays, Constants DEF CacheInv, LeasesHold
<1>6. ASSUME NEW j \in Commands PROVE Shape(j)' /\ (lock' = j => Owner(j)')
  <2>1. Shape(j) /\ (lock = j => Owner(j)) /\ (active # None => Serves(active))
    BY DEF CacheInv, Registered
  <2>2. Shape(j)'
    BY <1>1, <1>2, <2>1, ShapeStays
  <2>3. lock = j => Owner(j)'
    BY <2>1, OwnerStays, Constants DEF LeasesHold
  <2> QED
    BY <2>2, <2>3
<1> QED
  BY <1>3, <1>4, <1>5, <1>6 DEF CacheInv

\* A command becomes c.
LEMMA Updated ==
    ASSUME TypeOK, NEW i \in Commands, NEW c \in CommandStates, command' = [command EXCEPT ![i] = c]
    PROVE  /\ command'[i] = c
           /\ command' = [command EXCEPT ![i] = command'[i]]
           /\ command'[i] \in CommandStates
BY DEF TypeOK

LEMMA Gone ==
    ASSUME TypeOK, NEW i \in Commands, NEW pc \in CommandPCs, Goes(i, pc)
    PROVE  /\ command' = [command EXCEPT ![i] = command'[i]]
           /\ command'[i] \in CommandStates
           /\ command'[i].pc = pc /\ command'[i].corpus = command[i].corpus
           /\ command'[i].generation = command[i].generation
           /\ command'[i].entries = command[i].entries /\ command'[i].writes = command[i].writes
           /\ command'[i].doomed = command[i].doomed /\ command'[i].saved = command[i].saved
<1> DEFINE c == [command[i] EXCEPT !.pc = pc]
<1>1. command' = [command EXCEPT ![i] = c]
  BY DEF Goes
<1>2. command[i] \in CommandStates
  BY DEF TypeOK
<1>3. c \in CommandStates
  BY <1>2 DEF CommandStates
<1>4. /\ c.pc = pc /\ c.corpus = command[i].corpus /\ c.generation = command[i].generation
      /\ c.entries = command[i].entries /\ c.writes = command[i].writes
      /\ c.doomed = command[i].doomed /\ c.saved = command[i].saved
  BY <1>2 DEF CommandStates
<1> HIDE DEF c
<1> QED
  BY <1>1, <1>3, <1>4, Updated

LEMMA Ended ==
    ASSUME TypeOK, NEW i \in Commands, Ends(i)
    PROVE  /\ command' = [command EXCEPT ![i] = command'[i]]
           /\ command'[i] \in CommandStates /\ command'[i].pc = "idle"
<1>1. NoCommand \in CommandStates /\ NoCommand.pc = "idle"
  BY DEF NoCommand, CommandStates, CommandPCs
<1> QED
  BY <1>1, Updated DEF Ends

\* Outside of a build and of a clear there is little to know.
LEMMA AtRest ==
    ASSUME NEW i \in Commands, command'[i].pc \in {"idle", "snapped", "releasing", "clearing"}
    PROVE  /\ Owner(i)'
           /\ command'[i].pc \in {"idle", "releasing"} => Shape(i)'
BY DEF Owner, Builds, BuildsChunks, Collects, Clears, Shape, Building, Staging, Finished,
       Collecting, Clearing

LEMMA Numbers ==
    ASSUME CacheInv
    PROVE  /\ built \in 0..MaxBuilds /\ cleared \in 0..MaxClears /\ crashes \in 0..MaxCrashes
           /\ built \in Nat /\ cleared \in Nat /\ crashes \in Nat
           /\ \A i \in Commands : command[i] \in CommandStates /\ i # None
           /\ TypeOK
BY Constants DEF CacheInv, TypeOK

\* A step after which a command is at rest, and the cache is as it was.
LEMMA RestStep ==
    ASSUME CacheInv, NEW i \in Commands, command' = [command EXCEPT ![i] = command'[i]],
           command'[i] \in CommandStates, command'[i].pc \in {"idle", "releasing"},
           UNCHANGED <<repository, cache, leases, reader, built, cleared>>,
           lock' \in {lock, None}, crashes' \in 0..MaxCrashes, crashes <= crashes'
    PROVE  CacheInv'
<1>1. Owner(i)' /\ Shape(i)'
  BY AtRest
<1> QED
  BY <1>1, Numbers, SideStep

LEMMA TakeSnapshotKept == ASSUME CacheInv, NEW i \in Commands, TakeSnapshot(i) PROVE CacheInv'
<1> DEFINE here == Sources
           c == [command[i] EXCEPT !.pc = "snapped", !.corpus = here]
<1>1. command' = [command EXCEPT ![i] = c]
  BY DEF TakeSnapshot
<1>2. here \in Snapshots
  BY Numbers DEF TypeOK, Snapshots, Sources
<1>3. c \in CommandStates /\ c.pc = "snapped" /\ c.corpus = here
  BY <1>2, Numbers DEF CommandStates, CommandPCs
<1> HIDE DEF c, here
<1>4. command'[i] = c /\ command' = [command EXCEPT ![i] = command'[i]]
  BY <1>1, <1>3, Numbers, Updated
<1>5. UNCHANGED <<repository, cache, leases, lock, reader, built, cleared, crashes, policy>>
  BY DEF TakeSnapshot, counters, repository
<1>6. Shape(i)' /\ Owner(i)'
  BY <1>2, <1>3, <1>4, <1>5, AtRest
  DEF Shape, Corpus, Building, Staging, Finished, Collecting, Clearing
<1> QED
  BY <1>3, <1>4, <1>5, <1>6, Numbers, SideStep

LEMMA LockForBuildKept == ASSUME CacheInv, NEW i \in Commands, LockForBuild(i) PROVE CacheInv'
<1> DEFINE corpus == [command[i].corpus EXCEPT !.policy = policy]
           c == [command[i] EXCEPT !.pc = "locked", !.generation = built + 1, !.corpus = corpus]
<1>1. command' = [command EXCEPT ![i] = c]
  BY DEF LockForBuild
<1>2. corpus \in Corpora /\ corpus \in Snapshots /\ corpus.policy = policy
  <2>1. command[i].corpus \in Snapshots /\ policy \in Policies
    BY DEF LockForBuild, At, CacheInv, TypeOK, Shape, Corpus
  <2> QED
    BY <2>1 DEF Corpora, Snapshots
<1>3. built + 1 \in Generations /\ built' = built + 1 /\ built' \in 0..MaxBuilds
  BY Numbers, Constants DEF LockForBuild, Generations
<1>4. c \in CommandStates /\ c.pc = "locked" /\ c.corpus = corpus /\ c.generation = built'
  BY <1>2, <1>3, Numbers DEF CommandStates, CommandPCs
<1> HIDE DEF c, corpus
<1>5. command'[i] = c /\ command' = [command EXCEPT ![i] = command'[i]]
  BY <1>1, <1>4, Numbers, Updated
<1>6. UNCHANGED <<repository, cache, leases, reader, cleared, crashes, policy>> /\ lock' = i
  BY DEF LockForBuild, repository
<1>7. Shape(i)'
  BY <1>2, <1>3, <1>4, <1>5, <1>6, Numbers
  DEF Shape, Corpus, Building, Staging, Finished, Collecting, Clearing
<1>8. \A e \in registry' : e.generation < built'
  <2>1. \A e \in registry : e.generation \in Nat /\ e.generation <= built
    BY EntryTyped, Constants DEF CacheInv, TypeOK, Registered
  <2> QED
    BY <1>3, <1>6, <2>1, CacheStays, Numbers
<1>9. Owner(i)'
  BY <1>4, <1>5, <1>8
  DEF Owner, Builds, BuildsChunks, Collects, Clears, Building, Staging, Finished, Collecting
<1> QED
  BY <1>3, <1>4, <1>5, <1>6, <1>7, <1>9, Numbers, SideStep

LEMMA FindsLockedKept == ASSUME CacheInv, NEW i \in Commands, FindsLocked(i) PROVE CacheInv'
BY Numbers, Ended, RestStep DEF FindsLocked, counters

LEMMA ReleaseKept == ASSUME CacheInv, NEW i \in Commands, Release(i) PROVE CacheInv'
BY Numbers, Ended, RestStep DEF Release, counters

LEMMA LoseFenceKept == ASSUME CacheInv, NEW i \in Commands, LoseFence(i) PROVE CacheInv'
BY Numbers, Ended, RestStep DEF LoseFence, counters

LEMMA CrashCommandKept == ASSUME CacheInv, NEW i \in Commands, CrashCommand(i) PROVE CacheInv'
<1>1. crashes' \in 0..MaxCrashes /\ crashes <= crashes'
  BY Numbers, Constants DEF CrashCommand
<1> QED
  BY <1>1, Numbers, Ended, RestStep DEF CrashCommand

LEMMA RefuseClearKept == ASSUME CacheInv, NEW i \in Commands, RefuseClear(i) PROVE CacheInv'
<1>1. "releasing" \in CommandPCs
  BY DEF CommandPCs
<1> QED
  BY <1>1, Numbers, Gone, RestStep DEF RefuseClear, counters

LEMMA LockForClearKept == ASSUME CacheInv, NEW i \in Commands, LockForClear(i) PROVE CacheInv'
<1>1. /\ command' = [command EXCEPT ![i] = command'[i]] /\ command'[i] \in CommandStates
      /\ command'[i].pc = "clearing"
  <2>1. "clearing" \in CommandPCs
    BY DEF CommandPCs
  <2> QED
    BY <2>1, Numbers, Gone DEF LockForClear
<1>2. /\ UNCHANGED <<repository, cache, leases, reader, built, crashes>> /\ lock' = i
      /\ cleared' = cleared + 1 /\ cleared' \in 0..MaxClears
  BY Numbers, Constants DEF LockForClear
<1>3. Shape(i)' /\ Owner(i)'
  BY <1>1, <1>2, Numbers, AtRest DEF Shape, Building, Staging, Finished, Collecting
<1> QED
  BY <1>1, <1>2, <1>3, Numbers, SideStep

LEMMA CheckSourcesKept == ASSUME CacheInv, NEW i \in Commands, CheckSources(i) PROVE CacheInv'
<1>1. UNCHANGED <<repository, cache, leases, reader, lock, built, cleared, crashes, policy>>
  BY DEF CheckSources, counters, repository
<1>2. {"checked", "releasing"} \subseteq CommandPCs
  BY DEF CommandPCs
<1>3. CASE Goes(i, "releasing")
  BY <1>1, <1>2, <1>3, Numbers, Gone, RestStep
<1>4. CASE Goes(i, "checked")
  <2>1. /\ command' = [command EXCEPT ![i] = command'[i]] /\ command'[i] \in CommandStates
        /\ command'[i].pc = "checked" /\ command'[i].corpus = command[i].corpus
        /\ command'[i].generation = command[i].generation
    BY <1>2, <1>4, Numbers, Gone
  <2>2. command[i].pc = "complete" /\ Shape(i) /\ Owner(i)
    BY DEF CheckSources, At, Owns, CacheInv
  <2>3. Shape(i)'
    BY <1>1, <2>1, <2>2 DEF Shape, Corpus, Building, Staging, Finished, Collecting, Clearing
  <2>4. Corpus(i)' = Corpus(i) /\ Completed(i)' = Completed(i)
    BY <2>1 DEF Corpus, Completed
  <2>5. Builds(i)' /\ BuildsChunks(i)'
    BY <1>1, <2>1, <2>2, <2>4, CacheStays
    DEF Owner, Builds, BuildsChunks, Building, Staging, Finished, Collecting
  <2>6. Owner(i)'
    BY <2>1, <2>5 DEF Owner, Collects, Clears, Collecting
  <2> QED
    BY <1>1, <2>1, <2>3, <2>6, Numbers, SideStep
<1> QED
  BY <1>3, <1>4 DEF CheckSources

\* A lease that holds is counted.
LEMMA HeldIsLeased ==
    ASSUME CacheInv, LastingLeases, NEW r \in Readers, HeldBy(r)
    PROVE  /\ reader[r].generation \in Generations /\ leases[reader[r].generation] \in Nat
           /\ leases[reader[r].generation] > 0
<1> DEFINE g == reader[r].generation
<1>1. g \in Generations
  BY DEF CacheInv, Reads
<1>2. r \in HoldersOf(g) /\ IsFiniteSet(HoldersOf(g))
  BY Constants, FS_Subset DEF HoldersOf, HeldBy
<1>3. Cardinality(HoldersOf(g)) \in Nat /\ Cardinality(HoldersOf(g)) # 0
  BY <1>2, FS_EmptySet, FS_CardinalityType
<1>4. Cardinality(HoldersOf(g)) <= leases[g]
  BY <1>1 DEF CacheInv, Counted
<1>5. leases[g] \in 0..Cardinality(Readers) + MaxCrashes
  BY <1>1 DEF CacheInv, TypeOK
<1>6. leases[g] \in Nat
  BY <1>5
<1> QED
  BY <1>1, <1>3, <1>4, <1>6

LEMMA CheckReadersKept == ASSUME CacheInv, NEW i \in Commands, CheckReaders(i) PROVE CacheInv'
<1>1. UNCHANGED <<repository, cache, leases, reader, lock, built, cleared, crashes, policy>>
  BY DEF CheckReaders, counters, repository
<1>2. PICK pc \in {"wiping", "restoring"} :
          Goes(i, pc) /\ (pc = "wiping" => Leased(command[i].entries) = {})
  BY DEF CheckReaders
<1>3. /\ command' = [command EXCEPT ![i] = command'[i]] /\ command'[i] \in CommandStates
      /\ command'[i].pc = pc /\ command'[i].entries = command[i].entries
      /\ command'[i].doomed = command[i].doomed /\ command'[i].saved = command[i].saved
  <2>1. pc \in CommandPCs
    BY DEF CommandPCs
  <2> QED
    BY <1>2, <2>1, Numbers, Gone
<1>4. command[i].pc = "detached" /\ Shape(i)
  BY DEF CheckReaders, At, CacheInv
<1>5. Shape(i)'
  BY <1>1, <1>3, <1>4 DEF Shape, Building, Staging, Finished, Collecting, Clearing
<1>6. ASSUME lock = i PROVE Owner(i)'
  <2>1. Clears(i)
    BY <1>6 DEF CacheInv, Owner
  <2>2. ASSUME pc = "wiping", LeasesHold, NEW r \in Readers, HeldBy(r) PROVE FALSE
    <3>1. PICK e \in registry : e.generation = reader[r].generation
      BY <2>2 DEF CacheInv, Registered, Secured, Complete
    <3>2. leases[e.generation] > 0
      BY <2>2, <3>1, HeldIsLeased DEF LeasesHold
    <3> QED
      BY <1>2, <1>4, <2>1, <2>2, <3>1, <3>2 DEF Clears, Leased
  <2>3. Clears(i)'
    BY <1>1, <1>3, <1>4, <2>1, <2>2, CacheStays, ServesStays DEF Clears, LeasesHold, HeldBy
  <2> QED
    BY <1>3, <2>3
    DEF Owner, Builds, BuildsChunks, Collects, Building, Staging, Finished, Collecting
<1> QED
  BY <1>1, <1>3, <1>5, <1>6, Numbers, SideStep

-----------------------------------------------------------------------------
(* Collection.                                                              *)

\* The entry that the manifest of its generation tells, under the policy of now.
LEMMA PresentLoads ==
    ASSUME CacheInv, NEW e \in registry, Present(e), SamePolicy \/ e.corpus.policy = policy
    PROVE  Loadable(e.generation)
<1>1. e.corpus.policy \in Policies /\ policy \in Policies
  BY EntryTyped, Numbers DEF TypeOK, Corpora
<1>2. e.corpus.policy = policy
  BY <1>1 DEF SamePolicy
<1> QED
  BY <1>2 DEF Loadable, Present

LEMMA PlanCollectionKept == ASSUME CacheInv, NEW i \in Commands, PlanCollection(i) PROVE CacheInv'
<1> DEFINE last == Newest(Retention, Complete(registry))
           candidates == registry \ last
           leased == Leased(candidates)
           kept(young) == last \cup leased \cup Newest(young, Complete(candidates) \ leased)
           doomed(young) == KeysOf(registry \ kept(young)) \ UsedKeys(kept(young), command[i].generation)
<1>1. /\ UNCHANGED <<repository, cache, leases, reader, lock, built, cleared, crashes, policy>>
      /\ command[i].pc = "activated" /\ lock = i
  BY DEF PlanCollection, counters, repository, At, Owns
<1>2. PICK young \in 0..Grace :
          command' = [command EXCEPT ![i].pc = "collecting", ![i].entries = kept(young),
                                     ![i].doomed = doomed(young)]
  BY DEF PlanCollection, KeysOf
<1> DEFINE K == kept(young)
           D == doomed(young)
           c == [command[i] EXCEPT !.pc = "collecting", !.entries = K, !.doomed = D]
<1>3. command' = [command EXCEPT ![i] = c]
  BY <1>2
<1>4. /\ last = Kept /\ Kept \subseteq K /\ K \subseteq registry
      /\ \A e \in registry : leases[e.generation] > 0 => e \in K
  BY NewestIn DEF Complete, Leased, Kept
<1>5. registry \subseteq Entries /\ DOMAIN store \subseteq KeysOf(registry)
  BY DEF CacheInv, TypeOK, Registered, Owned, KeysOf
<1>6. D \subseteq Keys
  BY <1>5, EntryTyped DEF KeysOf
<1>7. D = KeysOf(registry \ K) \ UsedKeys(K, command[i].generation)
  OBVIOUS
<1> HIDE DEF K, D
<1>8. /\ c \in CommandStates /\ c.pc = "collecting" /\ c.entries = K /\ c.doomed = D
      /\ c.corpus = command[i].corpus /\ c.generation = command[i].generation
  BY <1>4, <1>5, <1>6, Numbers DEF CommandStates, CommandPCs
<1> HIDE DEF c
<1>9. command'[i] = c /\ command' = [command EXCEPT ![i] = command'[i]]
  BY <1>3, <1>8, Numbers, Updated
<1>10. Shape(i) /\ Owner(i)
  BY <1>1 DEF CacheInv
<1>11. Shape(i)'
  BY <1>1, <1>8, <1>9, <1>10 DEF Shape, Corpus, Building, Staging, Finished, Collecting, Clearing
<1>12. /\ active = command[i].generation /\ command[i].generation = built
       /\ Completed(i) \in registry /\ Present(Completed(i))
       /\ QuietEdits => Corpus(i).policy = policy
  BY <1>1, <1>10 DEF Owner, Builds, Collects, Building, Collecting, Shape
<1>13. Completed(i) \in Kept
  <2>1. Completed(i) \in Complete(registry)
    BY <1>12, StagedAndCompleted DEF Complete
  <2>2. \A f \in Complete(registry) : ~(f.generation > Completed(i).generation)
    <3>1. \A f \in registry : f.generation \in Nat /\ f.generation <= built
      BY <1>5, EntryTyped, Constants DEF CacheInv, Registered
    <3> QED
      BY <1>12, <3>1, StagedAndCompleted, Numbers DEF Complete
  <2> QED
    BY <2>1, <2>2, TopIsNewest, Constants DEF Kept
<1>14. ASSUME NEW e \in K, Present(e), SamePolicy \/ e.corpus.policy = policy
       PROVE  EntryKeys(e) \cap D = {}
  <2>1. Loadable(e.generation)
    BY <1>4, <1>14, PresentLoads
  <2>2. EntryKeys(e) \subseteq UsedKeys(K, command[i].generation)
    BY <2>1 DEF UsedKeys
  <2> QED
    BY <1>7, <2>2
<1>15. Completed(i) \in K /\ (CalmPolicy => EntryKeys(Completed(i)) \cap D = {})
  <2>1. Completed(i) \in K
    BY <1>4, <1>13
  <2> QED
    BY <2>1, <1>12, <1>14, StagedAndCompleted DEF CalmPolicy
<1>16. Secured(K, active, CalmPolicy) /\ Spared(K, active, D, CalmPolicy)
  BY <1>12, <1>15, StagedAndCompleted DEF Secured, Spared, Complete
<1>17. ASSUME LeasesHold, NEW r \in Readers, HeldBy(r)
       PROVE  Secured(K, reader[r].generation, TRUE) /\ Spared(K, reader[r].generation, D, TRUE)
  <2>1. PICK e \in Complete(registry) : e.generation = reader[r].generation /\ Present(e)
    BY <1>17 DEF CacheInv, Registered, Secured
  <2>2. leases[e.generation] > 0
    BY <1>17, <2>1, HeldIsLeased DEF LeasesHold
  <2>3. e \in K /\ e \in Complete(K)
    BY <1>4, <2>1, <2>2 DEF Complete
  <2>4. EntryKeys(e) \cap D = {}
    BY <1>14, <1>17, <2>1, <2>3 DEF LeasesHold
  <2> QED
    BY <2>1, <2>3, <2>4 DEF Secured, Spared
<1>18. DOMAIN store \ D \subseteq KeysOf(K)
  <2>1. SUFFICES ASSUME NEW key \in DOMAIN store \ D, key \notin KeysOf(K) PROVE FALSE
    OBVIOUS
  <2>2. key \in KeysOf(registry \ K)
    BY <1>5, <2>1 DEF KeysOf
  <2>3. key \in UsedKeys(K, command[i].generation)
    BY <1>7, <2>1, <2>2
  <2>4. ManifestKey(command[i].generation) \in EntryKeys(Completed(i))
    BY StagedAndCompleted
  <2>5. UsedKeys(K, command[i].generation) \subseteq KeysOf(K)
    BY <1>15, <2>4 DEF UsedKeys, KeysOf
  <2> QED
    BY <2>1, <2>3, <2>5
<1>19. SamePolicy /\ cleared = 0 => \A e \in Kept : EntryKeys(e) \cap D = {}
  BY <1>4, <1>14 DEF CacheInv, Registered, RetainedPresent, Kept
<1>20. Collects(i)'
  <2>1. LeasesHold' <=> LeasesHold
    BY DEF LeasesHold
  <2> QED
    BY <1>1, <1>4, <1>8, <1>9, <1>12, <1>16, <1>17, <1>18, <1>19, <2>1, CacheStays
    DEF Collects, Collecting, HeldBy
<1>21. Owner(i)'
  BY <1>1, <1>8, <1>9, <1>12, <1>20
  DEF Owner, Builds, BuildsChunks, Clears, Building, Staging, Finished, Collecting
<1> QED
  BY <1>1, <1>8, <1>9, <1>11, <1>21, Numbers, SideStep

-----------------------------------------------------------------------------
(* The writes of a build.                                                   *)

\* What a search has opened is known to it as long as that manifest stays.
LEMMA OpenedStays ==
    ASSUME CacheInv, UNCHANGED reader, NEW r \in Readers,
           LeasesHold /\ HeldBy(r) =>
               store'[ManifestKey(reader[r].generation)] = store[ManifestKey(reader[r].generation)]
    PROVE  Opened(r)'
<1>1. Opened(r)
  BY DEF CacheInv
<1> QED
  BY <1>1 DEF Opened, HeldBy, LeasesHold

\* What the entries say is registered stays so in a larger registry.
LEMMA SecuredMore ==
    ASSUME NEW S, NEW T, Complete(S) \subseteq Complete(T), UNCHANGED store
    PROVE  \A g, whole : Secured(S, g, whole) => Secured(T, g, whole)'
BY DEF Secured, Present

LEMMA StageKept == ASSUME CacheInv, NEW i \in Commands, Stage(i) PROVE CacheInv'
<1>1. /\ UNCHANGED <<repository, store, active, leases, reader, lock, counters>>
      /\ UNCHANGED <<files, policy, built, cleared, crashes>>
      /\ command[i].pc = "locked" /\ lock = i
  BY DEF Stage, counters, repository, At, Owns
<1>2. Shape(i) /\ Owner(i)
  BY <1>1 DEF CacheInv
<1>3. /\ command[i].generation = built /\ built \in Generations /\ Corpus(i) \in Corpora
      /\ \A e \in registry : e.generation < built
  <2>1. command[i].generation \in 1..built
    BY <1>1, <1>2 DEF Shape, Building
  <2>2. command[i].generation = built
    BY <1>1, <1>2 DEF Owner, Builds, Building
  <2> QED
    BY <1>1, <1>2, <2>1, <2>2, Numbers, Constants DEF Owner, Builds, Shape, Building, Generations
<1>4. registry' = registry \cup {Staged(i)}
  BY DEF Stage, Staged, Corpus
<1>5. PICK repair \in BOOLEAN :
          command' = [command EXCEPT ![i].pc = "staged", ![i].writes = Writes(Corpus(i), repair),
                                     ![i].entries = registry \cup {Completed(i)}]
  BY DEF Stage, Completed, Corpus
<1> DEFINE W == Writes(Corpus(i), repair)
           entries == registry \cup {Completed(i)}
           c == [command[i] EXCEPT !.pc = "staged", !.writes = W, !.entries = entries]
<1>6. command' = [command EXCEPT ![i] = c]
  BY <1>5
<1>7. /\ W \subseteq ContentKeys(Corpus(i))
      /\ \A key \in ContentKeys(Corpus(i)) : key \in DOMAIN store \/ key \in W
      /\ \A key \in ChunkKeys(Corpus(i)) \ W :
             key \in DOMAIN store /\ store[key] = ChunkPayload(Corpus(i), key)
  BY DEF Writes, ChunkWrites, GraphWrites, ContentKeys
<1> HIDE DEF W
<1>8. /\ Completed(i) \in Entries /\ Staged(i) \in Entries
      /\ EntryKeys(Completed(i)) \subseteq Keys /\ ContentKeys(Corpus(i)) \subseteq Keys
  <2>1. Completed(i) \in Entries /\ Staged(i) \in Entries
    BY <1>3, EntryTyped DEF Completed, Staged
  <2>2. ContentKeys(Corpus(i)) \subseteq EntryKeys(Completed(i))
    BY StagedAndCompleted DEF ContentKeys, RecordKeys
  <2> QED
    BY <2>1, <2>2, EntryTyped
<1>9. registry \subseteq Entries /\ entries \subseteq Entries
  BY <1>8, Numbers DEF TypeOK
<1>10. /\ c \in CommandStates /\ c.pc = "staged" /\ c.entries = entries /\ c.writes = W
       /\ c.corpus = command[i].corpus /\ c.generation = command[i].generation
  BY <1>7, <1>8, <1>9, Numbers DEF CommandStates, CommandPCs
<1> HIDE DEF c, entries
<1>11. command'[i] = c /\ command' = [command EXCEPT ![i] = command'[i]]
  BY <1>6, <1>10, Numbers, Updated
<1>12. Corpus(i)' = Corpus(i) /\ Staged(i)' = Staged(i) /\ Completed(i)' = Completed(i)
  BY <1>10, <1>11 DEF Corpus, Staged, Completed
<1>13. Shape(i)'
  BY <1>1, <1>2, <1>7, <1>10, <1>11, <1>12
  DEF Shape, Building, Staging, Finished, Collecting, Clearing
<1>14. Owner(i)'
  <2>1. entries = (registry' \ {Staged(i)}) \cup {Completed(i)}
    <3>1. Staged(i) \notin registry
      BY <1>3, StagedAndCompleted, Numbers
    <3>2. Staged(i) # Completed(i)
      BY StagedAndCompleted
    <3> QED
      BY <1>4, <3>1, <3>2 DEF entries
  <2>2. \A e \in registry' \ {Staged(i)} : e.generation < built
    BY <1>3, <1>4
  <2>3. Builds(i)'
    BY <1>1, <1>3, <1>4, <1>7, <1>10, <1>11, <1>12, <2>1, <2>2
    DEF Builds, Building, Staging, Finished, Collecting
  <2>4. BuildsChunks(i)'
    BY <1>1, <1>7, <1>10, <1>11, <1>12 DEF BuildsChunks
  <2> QED
    BY <1>10, <1>11, <2>3, <2>4 DEF Owner, Collects, Clears, Collecting
<1>15. Registered'
  <2>1. Complete(registry') = Complete(registry)
    BY <1>4, StagedAndCompleted DEF Complete
  <2>2. IsFiniteSet(registry') /\ \A e \in registry' : e.generation <= built'
    <3>1. \A e \in registry : e.generation <= built
      BY DEF CacheInv, Registered
    <3>2. built <= built
      BY Numbers
    <3> QED
      BY <1>1, <1>3, <1>4, <3>1, <3>2, StagedAndCompleted, FS_AddElement DEF CacheInv, Registered
  <2>3. Owned'
    BY <1>1, <1>4 DEF CacheInv, Registered, Owned
  <2>4. \A g, whole : Secured(registry, g, whole) => Secured(registry, g, whole)'
    BY <1>1, <2>1, SecuredMore DEF Secured
  <2>5. active # None => Serves(active)'
    BY <1>1, <2>4 DEF CacheInv, Registered, Serves, ChunksMatch
  <2>6. SamePolicy => RetainedPresent'
    BY <1>1, <2>1 DEF CacheInv, Registered, RetainedPresent, Present
  <2> QED
    BY <1>1, <2>2, <2>3, <2>4, <2>5, <2>6 DEF CacheInv, Registered, LeasesHold, HeldBy
<1>16. Records' /\ \A r \in Readers : Opened(r)'
  BY <1>1, OpenedStays DEF CacheInv, Records
<1>17. registry' \subseteq Entries
  BY <1>4, <1>8, <1>9
<1> QED
  BY <1>1, <1>10, <1>11, <1>13, <1>14, <1>15, <1>16, <1>17, Numbers, OwnerStep DEF TypeOK

\* The owner of the lock writes records of the generation that it has registered.
LEMMA RecordsAdded ==
    ASSUME CacheInv, NEW i \in Commands, lock = i, command[i].pc \in Staging,
           NEW records, store' = Put(records), DOMAIN records \subseteq EntryKeys(Completed(i)),
           \A key \in DOMAIN records \cap ChunkKeys(Corpus(i)) :
               records[key] = ChunkPayload(Corpus(i), key),
           \A key \in DOMAIN records \cap GraphKeys(Corpus(i)) :
               records[key] = GraphPayload(Corpus(i), key),
           ManifestKey(built) \in DOMAIN records => records[ManifestKey(built)] = Corpus(i),
           UNCHANGED <<registry, active, leases, reader, counters, lock, repository>>
    PROVE  /\ DOMAIN store' \subseteq Keys
           /\ \A g \in Generations : ManifestKey(g) \in DOMAIN store' =>
                  store'[ManifestKey(g)] \in Corpora
           /\ Records' /\ Registered' /\ \A r \in Readers : Opened(r)'
<1>1. UNCHANGED <<built, cleared, crashes>>
  BY DEF counters
<1>2. Shape(i) /\ Builds(i) /\ TypeOK /\ Records /\ Registered
  BY DEF CacheInv, Owner
<1>3. /\ command[i].generation = built /\ built \in Generations /\ Corpus(i) \in Corpora
      /\ Staged(i) \in registry /\ \A e \in registry \ {Staged(i)} : e.generation < built
  <2>1. command[i].generation \in 1..built /\ Corpus(i) \in Corpora
    BY <1>2 DEF Shape, Building
  <2>2. command[i].generation = built
    BY <1>2 DEF Builds, Building
  <2> QED
    BY <1>2, <2>1, <2>2, Numbers, Constants DEF Builds, Generations
<1>4. /\ DOMAIN store' = DOMAIN records \cup DOMAIN store
      /\ \A key \in DOMAIN records : store'[key] = records[key]
      /\ \A key \in DOMAIN store \ DOMAIN records : store'[key] = store[key]
  BY PutIs
<1>5. /\ DOMAIN records \subseteq RecordKeys(Corpus(i)) \cup {ManifestKey(built)}
      /\ \A g : ManifestKey(g) \in DOMAIN records => g = built
  BY <1>3, StagedAndCompleted, KeysApart
<1>6. DOMAIN store' \subseteq Keys
  <2>1. EntryKeys(Completed(i)) \subseteq Keys
    BY <1>3, EntryTyped DEF Completed
  <2> QED
    BY <1>2, <1>4, <2>1 DEF TypeOK
<1>7. ASSUME NEW g \in Generations, ManifestKey(g) \in DOMAIN store'
      PROVE  store'[ManifestKey(g)] \in Corpora
  BY <1>2, <1>3, <1>4, <1>5, <1>7 DEF TypeOK
<1>8. Records'
  <2>1. ASSUME NEW c \in Corpora, NEW key \in ChunkKeys(c) \cap DOMAIN store'
        PROVE  \E d \in Corpora : key \in ChunkKeys(d) /\ store'[key] = ChunkPayload(d, key)
    <3>1. CASE key \in DOMAIN records
      <4>1. key \in ChunkKeys(Corpus(i))
        BY <1>5, <2>1, <3>1, KindOfKey DEF RecordKeys
      <4> QED
        BY <1>3, <1>4, <3>1, <4>1
    <3>2. CASE key \notin DOMAIN records
      BY <1>2, <1>4, <2>1, <3>2 DEF Records
    <3> QED
      BY <3>1, <3>2
  <2> QED
    BY <2>1 DEF Records
<1>9. ASSUME NEW e \in Complete(registry)
      PROVE  /\ e.generation # built /\ (Present(e) => Present(e)')
             /\ Present(e) => store'[ManifestKey(e.generation)] = store[ManifestKey(e.generation)]
  <2>1. e # Staged(i)
    BY StagedAndCompleted DEF Complete
  <2>2. e.generation # built
    BY <1>3, <2>1, Numbers DEF Complete
  <2>3. ASSUME Present(e)
        PROVE  store'[ManifestKey(e.generation)] = store[ManifestKey(e.generation)]
    BY <1>4, <1>5, <2>2, <2>3 DEF Present
  <2>4. ASSUME Present(e) PROVE Present(e)'
    BY <1>4, <2>3, <2>4, PresentStays DEF Present
  <2> QED
    BY <2>2, <2>3, <2>4
<1>10. \A g, whole : Secured(registry, g, whole) => Secured(registry, g, whole)' /\ g # built
  BY <1>9 DEF Secured
<1>11. Registered'
  <2>1. \A e \in registry' : e.generation <= built'
    BY <1>1, <1>2 DEF Registered
  <2>2. Owned'
    BY <1>2, <1>3, <1>4, StagedAndCompleted DEF Registered, Owned
  <2>3. active # None => Serves(active)'
    BY <1>1, <1>2, <1>10 DEF Registered, Serves
  <2>4. SamePolicy => RetainedPresent'
    BY <1>1, <1>2, <1>9, NewestIn DEF Registered, RetainedPresent
  <2> QED
    BY <1>2, <1>10, <2>1, <2>2, <2>3, <2>4 DEF Registered, LeasesHold, HeldBy
<1>12. ASSUME NEW r \in Readers PROVE Opened(r)'
  <2>1. ASSUME LeasesHold, HeldBy(r)
        PROVE  store'[ManifestKey(reader[r].generation)] = store[ManifestKey(reader[r].generation)]
    BY <1>2, <1>9, <2>1 DEF Registered, Secured
  <2> QED
    BY <2>1, OpenedStays
<1> QED
  BY <1>6, <1>7, <1>8, <1>11, <1>12

LEMMA WriteRecordsKept == ASSUME CacheInv, NEW i \in Commands, WriteRecords(i) PROVE CacheInv'
<1> DEFINE W == command[i].writes
           c == [command[i] EXCEPT !.pc = "recorded", !.writes = {}]
           records == [key \in W |-> Payload(Corpus(i), key)]
<1>1. /\ UNCHANGED <<registry, active, leases, reader, counters, lock, repository>>
      /\ UNCHANGED <<files, policy, built, cleared, crashes>>
      /\ command[i].pc = "staged" /\ lock = i /\ store' = Put(records)
      /\ command' = [command EXCEPT ![i] = c]
  BY DEF WriteRecords, counters, repository, At, Owns, Corpus
<1>2. Shape(i) /\ Owner(i)
  BY <1>1 DEF CacheInv
<1>3. /\ c \in CommandStates /\ c.pc = "recorded" /\ c.entries = command[i].entries
      /\ c.corpus = command[i].corpus /\ c.generation = command[i].generation
  BY Numbers DEF CommandStates, CommandPCs
<1> HIDE DEF c
<1>4. command'[i] = c /\ command' = [command EXCEPT ![i] = command'[i]]
  BY <1>1, <1>3, Numbers, Updated
<1>5. Corpus(i)' = Corpus(i) /\ Staged(i)' = Staged(i) /\ Completed(i)' = Completed(i)
  BY <1>3, <1>4 DEF Corpus, Staged, Completed
<1>6. Shape(i)'
  BY <1>1, <1>2, <1>3, <1>4, <1>5 DEF Shape, Building, Staging, Finished, Collecting, Clearing
<1>7. /\ DOMAIN records = W /\ W \subseteq ContentKeys(Corpus(i))
      /\ \A key \in W \cap ChunkKeys(Corpus(i)) : records[key] = ChunkPayload(Corpus(i), key)
      /\ \A key \in W \cap GraphKeys(Corpus(i)) : records[key] = GraphPayload(Corpus(i), key)
  <2>1. W \subseteq ContentKeys(Corpus(i))
    BY <1>1, <1>2 DEF Shape
  <2> QED
    BY <2>1, KeysApart DEF Payload
<1> HIDE DEF records
<1>8. /\ ContentKeys(Corpus(i)) \subseteq EntryKeys(Completed(i))
      /\ ManifestKey(built) \notin W
  BY <1>7, StagedAndCompleted, KeysApart DEF ContentKeys, RecordKeys
<1>9. command[i].pc \in Staging
  BY <1>1 DEF Staging
<1>10. /\ DOMAIN store' \subseteq Keys
       /\ \A g \in Generations : ManifestKey(g) \in DOMAIN store' => store'[ManifestKey(g)] \in Corpora
       /\ Records' /\ Registered' /\ \A r \in Readers : Opened(r)'
  BY <1>1, <1>7, <1>8, <1>9, RecordsAdded
<1>11. /\ DOMAIN store' = W \cup DOMAIN store
       /\ \A key \in W : store'[key] = records[key]
       /\ \A key \in DOMAIN store \ W : store'[key] = store[key]
  BY <1>1, <1>7, PutIs
<1>12. Owner(i)'
  <2>1. ContentKeys(Corpus(i)) \subseteq DOMAIN store'
    BY <1>1, <1>2, <1>11 DEF Owner, Builds
  <2>2. ChunksMatch(Corpus(i))'
    <3>1. ASSUME NEW key \in ChunkKeys(Corpus(i))
          PROVE  key \in DOMAIN store' /\ store'[key] = ChunkPayload(Corpus(i), key)
      <4>1. CASE key \in W
        BY <1>7, <1>11, <4>1
      <4>2. CASE key \notin W
        BY <1>1, <1>2, <1>11, <4>2 DEF Owner, BuildsChunks
      <4> QED
        BY <4>1, <4>2
    <3> QED
      BY <1>5, <3>1 DEF ChunksMatch
  <2>3. Builds(i)'
    BY <1>1, <1>2, <1>3, <1>4, <1>5, <2>1
    DEF Owner, Builds, Building, Staging, Finished, Collecting
  <2>4. BuildsChunks(i)'
    BY <1>4, <1>3, <1>5, <2>2 DEF BuildsChunks
  <2> QED
    BY <1>3, <1>4, <2>3, <2>4 DEF Owner, Collects, Clears, Collecting
<1> QED
  BY <1>1, <1>3, <1>4, <1>6, <1>10, <1>12, Numbers, OwnerStep DEF TypeOK

LEMMA WritePostingsKept == ASSUME CacheInv, NEW i \in Commands, WritePostings(i) PROVE CacheInv'
<1> DEFINE records == [key \in {PostingKey(Corpus(i))} |-> ChunkKeys(Corpus(i))]
<1>1. /\ UNCHANGED <<registry, active, leases, reader, counters, lock, repository>>
      /\ UNCHANGED <<files, policy, built, cleared, crashes>>
      /\ command[i].pc = "recorded" /\ lock = i /\ store' = Put(records) /\ Goes(i, "posted")
  BY DEF WritePostings, counters, repository, At, Owns, Corpus
<1>2. Shape(i) /\ Owner(i) /\ command[i].pc \in Staging
  BY <1>1 DEF CacheInv, Staging
<1>3. /\ command' = [command EXCEPT ![i] = command'[i]] /\ command'[i] \in CommandStates
      /\ command'[i].pc = "posted" /\ command'[i].entries = command[i].entries
      /\ command'[i].corpus = command[i].corpus /\ command'[i].generation = command[i].generation
  <2>1. "posted" \in CommandPCs
    BY DEF CommandPCs
  <2> QED
    BY <1>1, <2>1, Numbers, Gone
<1>4. Corpus(i)' = Corpus(i) /\ Staged(i)' = Staged(i) /\ Completed(i)' = Completed(i)
  BY <1>3 DEF Corpus, Staged, Completed
<1>5. Shape(i)'
  BY <1>1, <1>2, <1>3, <1>4 DEF Shape, Building, Staging, Finished, Collecting, Clearing
<1>6. DOMAIN records = {PostingKey(Corpus(i))}
  OBVIOUS
<1> HIDE DEF records
<1>7. /\ DOMAIN records \subseteq EntryKeys(Completed(i)) /\ ManifestKey(built) \notin DOMAIN records
      /\ DOMAIN records \cap ChunkKeys(Corpus(i)) = {} /\ DOMAIN records \cap GraphKeys(Corpus(i)) = {}
  BY <1>6, StagedAndCompleted, KeysApart DEF RecordKeys
<1>8. /\ DOMAIN store' \subseteq Keys
      /\ \A g \in Generations : ManifestKey(g) \in DOMAIN store' => store'[ManifestKey(g)] \in Corpora
      /\ Records' /\ Registered' /\ \A r \in Readers : Opened(r)'
  BY <1>1, <1>2, <1>7, RecordsAdded
<1>9. /\ DOMAIN store' = DOMAIN records \cup DOMAIN store
      /\ \A key \in DOMAIN store \ DOMAIN records : store'[key] = store[key]
  BY <1>1, PutIs
<1>10. Owner(i)'
  <2>1. ContentKeys(Corpus(i)) \subseteq DOMAIN store' /\ PostingKey(Corpus(i)) \in DOMAIN store'
    BY <1>1, <1>2, <1>6, <1>9 DEF Owner, Builds
  <2>2. ChunksMatch(Corpus(i))'
    BY <1>1, <1>2, <1>4, <1>7, <1>9 DEF Owner, BuildsChunks, ChunksMatch
  <2>3. Builds(i)'
    BY <1>1, <1>2, <1>3, <1>4, <2>1
    DEF Owner, Builds, Building, Staging, Finished, Collecting
  <2>4. BuildsChunks(i)'
    BY <1>3, <1>4, <2>2 DEF BuildsChunks
  <2> QED
    BY <1>3, <2>3, <2>4 DEF Owner, Collects, Clears, Collecting
<1> QED
  BY <1>1, <1>3, <1>5, <1>8, <1>10, Numbers, OwnerStep DEF TypeOK

LEMMA WriteManifestKept == ASSUME CacheInv, NEW i \in Commands, WriteManifest(i) PROVE CacheInv'
<1> DEFINE records == [key \in {ManifestKey(command[i].generation)} |-> Corpus(i)]
<1>1. /\ UNCHANGED <<registry, active, leases, reader, counters, lock, repository>>
      /\ UNCHANGED <<files, policy, built, cleared, crashes>>
      /\ command[i].pc = "posted" /\ lock = i /\ store' = Put(records) /\ Goes(i, "described")
  BY DEF WriteManifest, counters, repository, At, Owns, Corpus
<1>2. Shape(i) /\ Owner(i) /\ command[i].pc \in Staging
  BY <1>1 DEF CacheInv, Staging
<1>3. /\ command' = [command EXCEPT ![i] = command'[i]] /\ command'[i] \in CommandStates
      /\ command'[i].pc = "described" /\ command'[i].entries = command[i].entries
      /\ command'[i].corpus = command[i].corpus /\ command'[i].generation = command[i].generation
  <2>1. "described" \in CommandPCs
    BY DEF CommandPCs
  <2> QED
    BY <1>1, <2>1, Numbers, Gone
<1>4. Corpus(i)' = Corpus(i) /\ Staged(i)' = Staged(i) /\ Completed(i)' = Completed(i)
  BY <1>3 DEF Corpus, Staged, Completed
<1>5. Shape(i)' /\ command[i].generation = built
  BY <1>1, <1>2, <1>3, <1>4
  DEF Owner, Builds, Shape, Building, Staging, Finished, Collecting, Clearing
<1>6. DOMAIN records = {ManifestKey(built)} /\ records[ManifestKey(built)] = Corpus(i)
  BY <1>5
<1> HIDE DEF records
<1>7. /\ DOMAIN records \subseteq EntryKeys(Completed(i))
      /\ DOMAIN records \cap ChunkKeys(Corpus(i)) = {} /\ DOMAIN records \cap GraphKeys(Corpus(i)) = {}
  BY <1>5, <1>6, StagedAndCompleted, KeysApart DEF RecordKeys
<1>8. /\ DOMAIN store' \subseteq Keys
      /\ \A g \in Generations : ManifestKey(g) \in DOMAIN store' => store'[ManifestKey(g)] \in Corpora
      /\ Records' /\ Registered' /\ \A r \in Readers : Opened(r)'
  BY <1>1, <1>2, <1>6, <1>7, RecordsAdded
<1>9. /\ DOMAIN store' = {ManifestKey(built)} \cup DOMAIN store
      /\ store'[ManifestKey(built)] = Corpus(i)
      /\ \A key \in DOMAIN store \ {ManifestKey(built)} : store'[key] = store[key]
  BY <1>1, <1>6, PutIs
<1>10. Owner(i)'
  <2>1. Present(Completed(i))'
    <3>1. RecordKeys(Corpus(i)) \subseteq DOMAIN store'
      BY <1>1, <1>2, <1>9 DEF Owner, Builds, RecordKeys, ContentKeys
    <3> QED
      BY <1>4, <1>5, <1>9, <3>1, StagedAndCompleted DEF Present
  <2>2. ChunksMatch(Corpus(i))'
    BY <1>1, <1>2, <1>4, <1>6, <1>7, <1>9 DEF Owner, BuildsChunks, ChunksMatch
  <2>3. Builds(i)'
    BY <1>1, <1>2, <1>3, <1>4, <2>1
    DEF Owner, Builds, Building, Staging, Finished, Collecting
  <2>4. BuildsChunks(i)'
    BY <1>3, <1>4, <2>2 DEF BuildsChunks
  <2> QED
    BY <1>3, <2>3, <2>4 DEF Owner, Collects, Clears, Collecting
<1> QED
  BY <1>1, <1>3, <1>5, <1>8, <1>10, Numbers, OwnerStep DEF TypeOK

LEMMA RegisterCompleteKept ==
    ASSUME CacheInv, NEW i \in Commands, RegisterComplete(i) PROVE CacheInv'
<1>1. /\ UNCHANGED <<store, active, leases, reader, counters, lock, repository>>
      /\ UNCHANGED <<files, policy, built, cleared, crashes>>
      /\ command[i].pc = "described" /\ lock = i /\ registry' = command[i].entries
      /\ Goes(i, "complete")
  BY DEF RegisterComplete, counters, repository, At, Owns
<1>2. Shape(i) /\ Owner(i) /\ TypeOK /\ Registered
  BY <1>1 DEF CacheInv
<1>3. /\ command' = [command EXCEPT ![i] = command'[i]] /\ command'[i] \in CommandStates
      /\ command'[i].pc = "complete"
      /\ command'[i].corpus = command[i].corpus /\ command'[i].generation = command[i].generation
  <2>1. "complete" \in CommandPCs
    BY DEF CommandPCs
  <2> QED
    BY <1>1, <2>1, Numbers, Gone
<1>4. Corpus(i)' = Corpus(i) /\ Staged(i)' = Staged(i) /\ Completed(i)' = Completed(i)
  BY <1>3 DEF Corpus, Staged, Completed
<1>5. Shape(i)'
  BY <1>1, <1>2, <1>3, <1>4 DEF Shape, Building, Staging, Finished, Collecting, Clearing
<1>6. /\ command[i].generation = built /\ Staged(i) \in registry /\ Present(Completed(i))
      /\ registry' = (registry \ {Staged(i)}) \cup {Completed(i)}
      /\ ChunksMatch(Corpus(i))
  BY <1>1, <1>2 DEF Owner, Builds, BuildsChunks, Building, Staging
<1>7. registry' \subseteq Entries
  BY <1>1, Numbers DEF CommandStates
<1>8. Present(Completed(i))' /\ \A e : Present(e)' <=> Present(e)
  BY <1>1, <1>4, <1>6 DEF Present
<1>9. Owner(i)'
  <2>1. Builds(i)' /\ BuildsChunks(i)'
    BY <1>1, <1>3, <1>4, <1>6, <1>8
    DEF Builds, BuildsChunks, ChunksMatch, Building, Staging, Finished, Collecting
  <2> QED
    BY <1>3, <2>1 DEF Owner, Collects, Clears, Collecting
<1>10. Complete(registry') = Complete(registry) \cup {Completed(i)}
  BY <1>6, StagedAndCompleted DEF Complete
<1>11. Registered'
  <2>1. IsFiniteSet(registry')
    <3>1. IsFiniteSet(registry \ {Staged(i)})
      BY <1>2, FS_Subset DEF Registered
    <3> QED
      BY <1>6, <3>1, FS_AddElement
  <2>2. \A e \in registry' : e.generation <= built'
    <3>1. built <= built
      BY Numbers
    <3> QED
      BY <1>1, <1>2, <1>6, <3>1, StagedAndCompleted DEF Registered
  <2>3. Owned'
    <3>1. KeysOf(registry) \subseteq KeysOf(registry')
      BY <1>6, StagedAndCompleted DEF KeysOf
    <3> QED
      BY <1>1, <1>2, <3>1 DEF Registered, Owned, KeysOf
  <2>4. \A g, whole : Secured(registry, g, whole) => Secured(registry, g, whole)'
    BY <1>1, <1>10, SecuredMore DEF Secured
  <2>5. active # None => Serves(active)'
    BY <1>1, <1>2, <2>4 DEF Registered, Serves, ChunksMatch
  <2>6. ASSUME SamePolicy, cleared = 0, NEW e \in Newest(Retention, Complete(registry')), ~Present(e)
        PROVE  FALSE
    <3>1. e \in Complete(registry)
      BY <1>6, <1>10, <2>6, NewestIn
    <3>2. IsFiniteSet(Complete(registry'))
      BY <2>1, FS_Subset DEF Complete
    <3>3. e \in Newest(Retention, Complete(registry))
      BY <1>10, <2>6, <3>1, <3>2, NewestOfMore, Constants
    <3> QED
      BY <1>2, <2>6, <3>3 DEF Registered, RetainedPresent
  <2>7. SamePolicy => RetainedPresent'
    BY <1>1, <1>8, <2>6 DEF RetainedPresent
  <2> QED
    BY <1>1, <1>2, <2>1, <2>2, <2>3, <2>4, <2>5, <2>7 DEF Registered, LeasesHold, HeldBy
<1>12. Records' /\ \A r \in Readers : Opened(r)'
  BY <1>1, OpenedStays DEF CacheInv, Records
<1> QED
  BY <1>1, <1>3, <1>5, <1>7, <1>9, <1>11, <1>12, Numbers, OwnerStep DEF TypeOK

LEMMA ActivateKept == ASSUME CacheInv, NEW i \in Commands, Activate(i) PROVE CacheInv'
<1>1. /\ UNCHANGED <<store, registry, leases, reader, counters, lock, repository>>
      /\ UNCHANGED <<files, policy, built, cleared, crashes>>
      /\ command[i].pc = "checked" /\ lock = i /\ active' = command[i].generation
      /\ Goes(i, "activated")
  BY DEF Activate, counters, repository, At, Owns
<1>2. Shape(i) /\ Owner(i) /\ TypeOK /\ Registered
  BY <1>1 DEF CacheInv
<1>3. /\ command' = [command EXCEPT ![i] = command'[i]] /\ command'[i] \in CommandStates
      /\ command'[i].pc = "activated"
      /\ command'[i].corpus = command[i].corpus /\ command'[i].generation = command[i].generation
  <2>1. "activated" \in CommandPCs
    BY DEF CommandPCs
  <2> QED
    BY <1>1, <2>1, Numbers, Gone
<1>4. Corpus(i)' = Corpus(i) /\ Staged(i)' = Staged(i) /\ Completed(i)' = Completed(i)
  BY <1>3 DEF Corpus, Staged, Completed
<1>5. Shape(i)'
  BY <1>1, <1>2, <1>3, <1>4 DEF Shape, Building, Staging, Finished, Collecting, Clearing
<1>6. /\ command[i].generation = built /\ built \in Generations
      /\ Present(Completed(i)) /\ Completed(i) \in registry /\ ChunksMatch(Corpus(i))
  <2>1. command[i].generation \in 1..built
    BY <1>1, <1>2 DEF Shape, Building, Finished
  <2> QED
    BY <1>1, <1>2, <2>1, Numbers, Constants
    DEF Owner, Builds, BuildsChunks, Building, Finished, Generations
<1>7. \A e : Present(e)' <=> Present(e)
  BY <1>1 DEF Present
<1>8. Owner(i)'
  <2>1. Builds(i)' /\ BuildsChunks(i)'
    BY <1>1, <1>3, <1>4, <1>6, <1>7
    DEF Builds, BuildsChunks, Present, Building, Staging, Finished, Collecting
  <2>2. Collects(i)'
    BY <1>1, <1>3 DEF Collects, Collecting
  <2> QED
    BY <1>3, <2>1, <2>2 DEF Owner, Clears
<1>9. Serves(active)'
  <2>1. Secured(registry, built, CalmPolicy)'
    BY <1>1, <1>6, <1>7, StagedAndCompleted DEF Secured, Complete
  <2>2. store[ManifestKey(built)] = Corpus(i)
    BY <1>6, StagedAndCompleted DEF Present
  <2>3. ChunksMatch(store[ManifestKey(built)])'
    BY <1>1, <1>6, <2>2 DEF ChunksMatch
  <2> QED
    BY <1>1, <1>6, <2>1, <2>3 DEF Serves
<1>10. \A entries, g, whole : Secured(entries, g, whole)' <=> Secured(entries, g, whole)
  BY <1>7 DEF Secured
<1>11. Registered'
  <2>1. Owned' /\ (SamePolicy => RetainedPresent')
    BY <1>1, <1>2, <1>7 DEF Registered, Owned, RetainedPresent
  <2> QED
    BY <1>1, <1>2, <1>9, <1>10, <2>1 DEF Registered, LeasesHold, HeldBy
<1>12. Records' /\ \A r \in Readers : Opened(r)'
  BY <1>1, OpenedStays DEF CacheInv, Records
<1> QED
  BY <1>1, <1>3, <1>5, <1>6, <1>8, <1>11, <1>12, Numbers, OwnerStep DEF TypeOK

-----------------------------------------------------------------------------
(* The deletes of a collection.                                             *)

LEMMA DeleteDoomedKept == ASSUME CacheInv, NEW i \in Commands, DeleteDoomed(i) PROVE CacheInv'
<1> DEFINE D == command[i].doomed
           K == command[i].entries
<1>1. /\ UNCHANGED <<registry, active, leases, reader, counters, lock, repository>>
      /\ UNCHANGED <<files, policy, built, cleared, crashes>>
      /\ command[i].pc = "collecting" /\ lock = i /\ store' = Without(D) /\ Goes(i, "collected")
  BY DEF DeleteDoomed, counters, repository, At, Owns
<1>2. Shape(i) /\ Owner(i) /\ TypeOK /\ Registered /\ Records
  BY <1>1 DEF CacheInv
<1>3. /\ command' = [command EXCEPT ![i] = command'[i]] /\ command'[i] \in CommandStates
      /\ command'[i].pc = "collected" /\ command'[i].entries = K
      /\ command'[i].corpus = command[i].corpus /\ command'[i].generation = command[i].generation
  <2>1. "collected" \in CommandPCs
    BY DEF CommandPCs
  <2> QED
    BY <1>1, <2>1, Numbers, Gone
<1>4. Shape(i)'
  BY <1>1, <1>2, <1>3 DEF Shape, Corpus, Building, Staging, Finished, Collecting, Clearing
<1>5. /\ active = command[i].generation /\ command[i].generation = built
      /\ K \subseteq registry /\ Kept \subseteq K
      /\ Spared(K, active, D, CalmPolicy)
      /\ LeasesHold => \A r \in Readers : HeldBy(r) => Spared(K, reader[r].generation, D, TRUE)
      /\ SamePolicy /\ cleared = 0 => \A e \in Kept : EntryKeys(e) \cap D = {}
      /\ DOMAIN store \ D \subseteq KeysOf(K)
  BY <1>1, <1>2 DEF Owner, Builds, Collects, Building, Collecting
<1>6. DOMAIN store' = DOMAIN store \ D /\ \A key \in DOMAIN store \ D : store'[key] = store[key]
  BY <1>1, WithoutIs
<1>7. ASSUME NEW e, Present(e), EntryKeys(e) \cap D = {}
      PROVE  /\ Present(e)'
             /\ store'[ManifestKey(e.generation)] = store[ManifestKey(e.generation)]
  <2>1. store'[ManifestKey(e.generation)] = store[ManifestKey(e.generation)]
    BY <1>6, <1>7 DEF Present, EntryKeys
  <2>2. EntryKeys(e) \subseteq DOMAIN store'
    BY <1>6, <1>7 DEF Present
  <2> QED
    BY <1>7, <2>1, <2>2, PresentStays
<1>8. \A g, whole : Spared(K, g, D, whole) =>
          Secured(K, g, whole)' /\ Secured(registry, g, whole)'
  BY <1>1, <1>3, <1>5, <1>7 DEF Spared, Secured, Complete
<1>9. Owner(i)'
  <2>1. Builds(i)' /\ BuildsChunks(i)'
    BY <1>1, <1>3, <1>5 DEF Builds, BuildsChunks, Building, Staging, Finished, Collecting
  <2>2. Collects(i)'
    <3>1. Kept' = Kept /\ DOMAIN store' \subseteq KeysOf(K)
      BY <1>1, <1>5, <1>6 DEF Kept
    <3> QED
      BY <1>1, <1>3, <1>5, <1>8, <3>1 DEF Collects, Collecting, LeasesHold, HeldBy
  <2> QED
    BY <1>3, <2>1, <2>2 DEF Owner, Clears
<1>10. active # None => Serves(active)'
  <2>1. ASSUME CalmPolicy PROVE ChunksMatch(store[ManifestKey(active)])'
                              /\ store'[ManifestKey(active)] = store[ManifestKey(active)]
    <3>1. PICK e \in Complete(K) : e.generation = active /\ Present(e) /\ EntryKeys(e) \cap D = {}
      BY <1>5, <2>1 DEF Spared
    <3>2. store[ManifestKey(active)] = e.corpus /\ ChunkKeys(e.corpus) \subseteq EntryKeys(e)
      BY <3>1 DEF Present, EntryKeys, RecordKeys
    <3>3. ChunksMatch(e.corpus)
      <4>1. Serves(active)
        BY <1>2, <1>5, Numbers, Constants DEF Registered
      <4> QED
        BY <1>5, <2>1, <3>2, <4>1 DEF Serves
    <3>4. ChunksMatch(e.corpus)'
      BY <1>6, <3>1, <3>2, <3>3 DEF ChunksMatch
    <3> QED
      BY <1>1, <1>7, <3>1, <3>2, <3>4
  <2> QED
    BY <1>1, <1>5, <1>8, <2>1 DEF Serves
<1>11. Registered'
  <2>1. SamePolicy => RetainedPresent'
    BY <1>1, <1>2, <1>5, <1>7 DEF Registered, RetainedPresent, Kept
  <2>2. Owned'
    BY <1>1, <1>2, <1>6 DEF Registered, Owned
  <2>3. LeasesHold => \A r \in Readers : HeldBy(r) => Secured(registry, reader[r].generation, TRUE)'
    BY <1>1, <1>5, <1>8
  <2> QED
    BY <1>1, <1>2, <1>10, <2>1, <2>2, <2>3 DEF Registered, LeasesHold, HeldBy
<1>12. Records'
  BY <1>2, <1>6 DEF Records
<1>13. ASSUME NEW r \in Readers PROVE Opened(r)'
  <2>1. ASSUME LeasesHold, HeldBy(r)
        PROVE  store'[ManifestKey(reader[r].generation)] = store[ManifestKey(reader[r].generation)]
    BY <1>5, <1>7, <2>1 DEF Spared
  <2> QED
    BY <1>1, <2>1, OpenedStays
<1>14. /\ DOMAIN store' \subseteq Keys
       /\ \A g \in Generations : ManifestKey(g) \in DOMAIN store' => store'[ManifestKey(g)] \in Corpora
  BY <1>2, <1>6 DEF TypeOK
<1> QED
  BY <1>1, <1>2, <1>3, <1>4, <1>9, <1>11, <1>12, <1>13, <1>14, OwnerStep DEF TypeOK

LEMMA ForgetDoomedKept == ASSUME CacheInv, NEW i \in Commands, ForgetDoomed(i) PROVE CacheInv'
<1> DEFINE K == command[i].entries
<1>1. /\ UNCHANGED <<store, active, leases, reader, counters, lock, repository>>
      /\ UNCHANGED <<files, policy, built, cleared, crashes>>
      /\ command[i].pc = "collected" /\ lock = i /\ registry' = K /\ Goes(i, "releasing")
  BY DEF ForgetDoomed, counters, repository, At, Owns
<1>2. Owner(i) /\ TypeOK /\ Registered /\ Records
  BY <1>1 DEF CacheInv
<1>3. /\ command' = [command EXCEPT ![i] = command'[i]] /\ command'[i] \in CommandStates
      /\ command'[i].pc = "releasing"
  <2>1. "releasing" \in CommandPCs
    BY DEF CommandPCs
  <2> QED
    BY <1>1, <2>1, Numbers, Gone
<1>4. Shape(i)' /\ Owner(i)'
  BY <1>3, AtRest
<1>5. /\ K \subseteq registry /\ Kept \subseteq K /\ Secured(K, active, CalmPolicy)
      /\ LeasesHold => \A r \in Readers : HeldBy(r) => Secured(K, reader[r].generation, TRUE)
      /\ DOMAIN store \subseteq KeysOf(K)
  BY <1>1, <1>2 DEF Owner, Collects
<1>6. \A e : Present(e)' <=> Present(e)
  BY <1>1 DEF Present
<1>7. \A g, whole : Secured(K, g, whole) => Secured(registry, g, whole)'
  BY <1>1, <1>6 DEF Secured
<1>8. Newest(Retention, Complete(K)) \subseteq Kept
  <2>1. IsFiniteSet(Complete(registry)) /\ Complete(K) \subseteq Complete(registry)
    BY <1>2, <1>5, FS_Subset DEF Registered, Complete
  <2>2. \A e \in Complete(registry) : e.generation \in 0..built
    <3>1. \A e \in registry : e.generation \in Nat
      BY <1>2, EntryTyped, Constants DEF TypeOK
    <3> QED
      BY <1>2, <3>1, Numbers DEF Registered, Complete
  <2>3. Newest(Retention, Complete(registry)) \subseteq Complete(K)
    BY <1>5, NewestIn DEF Kept, Complete
  <2> QED
    BY <2>1, <2>2, <2>3, NewestOfKept, Numbers, Constants DEF Kept
<1>9. Registered'
  <2>1. IsFiniteSet(registry') /\ \A e \in registry' : e.generation <= built'
    BY <1>1, <1>2, <1>5, FS_Subset DEF Registered
  <2>2. Owned'
    BY <1>1, <1>5 DEF Owned, KeysOf
  <2>3. active # None => Serves(active)'
    BY <1>1, <1>2, <1>5, <1>7 DEF Registered, Serves, ChunksMatch
  <2>4. SamePolicy => RetainedPresent'
    BY <1>1, <1>2, <1>6, <1>8 DEF Registered, RetainedPresent, Kept
  <2> QED
    BY <1>1, <1>5, <1>7, <2>1, <2>2, <2>3, <2>4 DEF Registered, LeasesHold, HeldBy
<1>10. Records' /\ \A r \in Readers : Opened(r)'
  BY <1>1, <1>2, OpenedStays DEF Records
<1>11. registry' \subseteq Entries
  BY <1>1, <1>2, <1>5 DEF TypeOK
<1> QED
  BY <1>1, <1>2, <1>3, <1>4, <1>9, <1>10, <1>11, OwnerStep DEF TypeOK

-----------------------------------------------------------------------------
(* Clear.                                                                   *)

LEMMA DetachKept == ASSUME CacheInv, NEW i \in Commands, Detach(i) PROVE CacheInv'
<1> DEFINE c == [command[i] EXCEPT !.pc = "detached", !.entries = registry, !.saved = active,
                                   !.doomed = KeysOf(registry)]
<1>1. /\ UNCHANGED <<store, registry, leases, reader, counters, lock, repository>>
      /\ UNCHANGED <<files, policy, built, cleared, crashes>>
      /\ command[i].pc = "clearing" /\ lock = i /\ active' = None
      /\ command' = [command EXCEPT ![i] = c]
  BY DEF Detach, counters, repository, At, Owns, KeysOf
<1>2. Shape(i) /\ TypeOK /\ Registered /\ Records
  BY <1>1 DEF CacheInv
<1>3. /\ c \in CommandStates /\ c.pc = "detached" /\ c.entries = registry /\ c.saved = active
      /\ c.doomed = KeysOf(registry)
  <2>1. registry \subseteq Entries /\ active \in Generations \cup {None}
    BY <1>2 DEF TypeOK
  <2>2. KeysOf(registry) \subseteq Keys
    BY <2>1, EntryTyped DEF KeysOf
  <2> HIDE DEF KeysOf
  <2> QED
    BY <2>1, <2>2, Numbers DEF CommandStates, CommandPCs
<1> HIDE DEF c
<1>4. command'[i] = c /\ command' = [command EXCEPT ![i] = command'[i]]
  BY <1>1, <1>3, Numbers, Updated
<1>5. Shape(i)'
  BY <1>1, <1>2, <1>3, <1>4 DEF Shape, Building, Staging, Finished, Collecting, Clearing
<1>6. \A e : Present(e)' <=> Present(e)
  BY <1>1 DEF Present
<1>7. \A g : Serves(g)' <=> Serves(g)
  <2>1. \A g, whole : Secured(registry, g, whole)' <=> Secured(registry, g, whole)
    BY <1>1, <1>6 DEF Secured
  <2> QED
    BY <1>1, <2>1 DEF Serves, ChunksMatch
<1>8. Owner(i)'
  <2>1. Clears(i)'
    BY <1>1, <1>2, <1>3, <1>4, <1>7 DEF Clears, Registered, KeysOf
  <2> QED
    BY <1>3, <1>4, <2>1
    DEF Owner, Builds, BuildsChunks, Collects, Building, Staging, Finished, Collecting
<1>9. Registered'
  BY <1>1, <1>2, <1>6 DEF Registered, Owned, Secured, RetainedPresent, LeasesHold, HeldBy
<1>10. Records' /\ \A r \in Readers : Opened(r)'
  BY <1>1, <1>2, OpenedStays DEF Records
<1> QED
  BY <1>1, <1>2, <1>3, <1>4, <1>5, <1>8, <1>9, <1>10, OwnerStep DEF TypeOK

LEMMA RestoreKept == ASSUME CacheInv, NEW i \in Commands, Restore(i) PROVE CacheInv'
<1>1. /\ UNCHANGED <<store, registry, leases, reader, counters, lock, repository>>
      /\ UNCHANGED <<files, policy, built, cleared, crashes>>
      /\ command[i].pc = "restoring" /\ Goes(i, "releasing")
  BY DEF Restore, counters, repository, At
<1>2. /\ command' = [command EXCEPT ![i] = command'[i]] /\ command'[i] \in CommandStates
      /\ command'[i].pc = "releasing"
  <2>1. "releasing" \in CommandPCs
    BY DEF CommandPCs
  <2> QED
    BY <1>1, <2>1, Numbers, Gone
<1>3. CASE command[i].saved = None
  <2>1. UNCHANGED cache
    BY <1>1, <1>3 DEF Restore, cache
  <2> QED
    BY <1>1, <1>2, <2>1, Numbers, RestStep
<1>4. CASE command[i].saved # None
  <2>1. lock = i /\ active' = command[i].saved /\ active' \in Generations
    <3>1. lock = i /\ active' = command[i].saved
      BY <1>4 DEF Restore, Owns
    <3>2. command[i].saved \in Generations \cup {None}
      BY Numbers DEF CommandStates
    <3> QED
      BY <1>4, <3>1, <3>2
  <2>2. Serves(command[i].saved) /\ Registered /\ Records /\ TypeOK
    BY <1>1, <1>4, <2>1 DEF CacheInv, Owner, Clears
  <2>3. \A e : Present(e)' <=> Present(e)
    BY <1>1 DEF Present
  <2>4. \A g, whole : Secured(registry, g, whole)' <=> Secured(registry, g, whole)
    BY <1>1, <2>3 DEF Secured
  <2>5. Serves(active)'
    BY <1>1, <2>1, <2>2, <2>4 DEF Serves, ChunksMatch
  <2>6. Registered'
    BY <1>1, <2>2, <2>3, <2>4, <2>5 DEF Registered, Owned, RetainedPresent, LeasesHold, HeldBy
  <2>7. Records' /\ \A r \in Readers : Opened(r)'
    BY <1>1, <2>2, OpenedStays DEF Records
  <2>8. Shape(i)' /\ Owner(i)'
    BY <1>2, AtRest
  <2> QED
    BY <1>1, <1>2, <2>1, <2>2, <2>6, <2>7, <2>8, OwnerStep DEF TypeOK
<1> QED
  BY <1>3, <1>4

LEMMA WipeKept == ASSUME CacheInv, NEW i \in Commands, Wipe(i) PROVE CacheInv'
<1>1. /\ UNCHANGED <<registry, leases, reader, counters, lock, repository>>
      /\ UNCHANGED <<files, policy, built, cleared, crashes>>
      /\ command[i].pc = "wiping" /\ lock = i /\ active' = None
      /\ store' = Without(command[i].doomed) /\ Goes(i, "wiped")
  BY DEF Wipe, counters, repository, At, Owns
<1>2. Shape(i) /\ Owner(i) /\ TypeOK /\ Registered /\ Records
  BY <1>1 DEF CacheInv
<1>3. /\ command' = [command EXCEPT ![i] = command'[i]] /\ command'[i] \in CommandStates
      /\ command'[i].pc = "wiped"
  <2>1. "wiped" \in CommandPCs
    BY DEF CommandPCs
  <2> QED
    BY <1>1, <2>1, Numbers, Gone
<1>4. cleared # 0 /\ Shape(i)'
  BY <1>1, <1>2, <1>3 DEF Shape, Building, Staging, Finished, Collecting, Clearing
<1>5. /\ command[i].doomed = KeysOf(registry)
      /\ LeasesHold => \A r \in Readers : ~HeldBy(r)
  BY <1>1, <1>2 DEF Owner, Clears
<1>6. DOMAIN store' = {}
  <2>1. DOMAIN store' = DOMAIN store \ command[i].doomed
    BY <1>1, WithoutIs
  <2> QED
    BY <1>2, <1>5, <2>1 DEF Registered, Owned, KeysOf
<1>7. Owner(i)'
  BY <1>1, <1>3, <1>5, <1>6
  DEF Owner, Clears, Builds, BuildsChunks, Collects, Building, Staging, Finished, Collecting,
      LeasesHold, HeldBy
<1>8. Registered'
  BY <1>1, <1>2, <1>4, <1>5, <1>6 DEF Registered, Owned, RetainedPresent, LeasesHold, HeldBy
<1>9. Records' /\ \A r \in Readers : Opened(r)'
  BY <1>1, <1>5, <1>6, OpenedStays DEF Records
<1> QED
  BY <1>1, <1>2, <1>3, <1>4, <1>6, <1>7, <1>8, <1>9, OwnerStep DEF TypeOK

LEMMA UnregisterKept == ASSUME CacheInv, NEW i \in Commands, Unregister(i) PROVE CacheInv'
<1>1. /\ UNCHANGED <<store, active, leases, reader, counters, lock, repository>>
      /\ UNCHANGED <<files, policy, built, cleared, crashes>>
      /\ command[i].pc = "wiped" /\ lock = i /\ registry' = {} /\ Goes(i, "releasing")
  BY DEF Unregister, counters, repository, At, Owns
<1>2. Shape(i) /\ Owner(i) /\ TypeOK /\ Records
  BY <1>1 DEF CacheInv
<1>3. /\ command' = [command EXCEPT ![i] = command'[i]] /\ command'[i] \in CommandStates
      /\ command'[i].pc = "releasing"
  <2>1. "releasing" \in CommandPCs
    BY DEF CommandPCs
  <2> QED
    BY <1>1, <2>1, Numbers, Gone
<1>4. Shape(i)' /\ Owner(i)'
  BY <1>3, AtRest
<1>5. /\ cleared # 0 /\ active = None /\ DOMAIN store = {}
      /\ LeasesHold => \A r \in Readers : ~HeldBy(r)
  BY <1>1, <1>2 DEF Shape, Owner, Clears, Clearing
<1>6. Registered'
  BY <1>1, <1>5, FS_EmptySet DEF Registered, Owned, RetainedPresent, LeasesHold, HeldBy
<1>7. Records' /\ \A r \in Readers : Opened(r)'
  BY <1>1, <1>2, OpenedStays DEF Records
<1> QED
  BY <1>1, <1>2, <1>3, <1>4, <1>6, <1>7, OwnerStep DEF TypeOK

-----------------------------------------------------------------------------
(* Searches.                                                                *)

LEMMA ReaderUpdated ==
    ASSUME TypeOK, NEW r \in Readers, NEW c \in ReaderStates, reader' = [reader EXCEPT ![r] = c]
    PROVE  /\ reader'[r] = c /\ reader' \in [Readers -> ReaderStates]
           /\ \A q \in Readers \ {r} : reader'[q] = reader[q]
BY DEF TypeOK

LEMMA LeaseNumbers ==
    ASSUME CacheInv
    PROVE  /\ Cardinality(Readers) \in Nat
           /\ \A g \in Generations :
                  /\ IsFiniteSet(HoldersOf(g)) /\ Cardinality(HoldersOf(g)) \in Nat
                  /\ leases[g] \in Nat
<1>1. Cardinality(Readers) \in Nat
  BY Constants, FS_CardinalityType
<1>2. ASSUME NEW g \in Generations PROVE IsFiniteSet(HoldersOf(g))
  BY Constants, FS_Subset DEF HoldersOf
<1>3. ASSUME NEW g \in Generations PROVE leases[g] \in Nat
  <2>1. leases[g] \in 0..Cardinality(Readers) + MaxCrashes
    BY DEF CacheInv, TypeOK
  <2> QED
    BY <2>1
<1> QED
  BY <1>1, <1>2, <1>3, FS_CardinalityType

\* A step of a search that neither takes a lease nor gives one back.
LEMMA SearchStep ==
    ASSUME CacheInv, NEW r \in Readers, NEW c \in ReaderStates, reader' = [reader EXCEPT ![r] = c],
           UNCHANGED <<repository, cache, lock, command, counters, leases>>,
           c.held = reader[r].held, c.held => c.generation = reader[r].generation,
           Reads(r)', Opened(r)'
    PROVE  CacheInv'
<1>1. /\ reader'[r] = c /\ reader' \in [Readers -> ReaderStates]
      /\ \A q \in Readers \ {r} : reader'[q] = reader[q]
  BY Numbers, ReaderUpdated
<1>2. UNCHANGED <<built, cleared, crashes, store, registry, active>>
  BY CacheStays DEF counters
<1>3. \A q \in Readers : HeldBy(q)' => HeldBy(q) /\ reader'[q].generation = reader[q].generation
  BY <1>1 DEF HeldBy
<1>4. \A g : HoldersOf(g)' = HoldersOf(g)
  BY <1>1 DEF HoldersOf
<1>5. \A g \in Generations : Counted(g)'
  BY <1>2, <1>4 DEF CacheInv, Counted
<1>6. \A q \in Readers : Reads(q)' /\ Opened(q)'
  BY <1>1, <1>2 DEF CacheInv, Reads, Opened, HeldBy
<1> QED
  BY <1>1, <1>2, <1>3, <1>5, <1>6, Numbers, ReaderStep DEF TypeOK

LEMMA LookKept == ASSUME CacheInv, NEW r \in Readers, Look(r) PROVE CacheInv'
<1> DEFINE here == Sources
           c == [reader[r] EXCEPT !.pc = "looked", !.corpus = here]
<1>1. reader' = [reader EXCEPT ![r] = c] /\ reader[r].pc = "idle"
  BY DEF Look, ReaderAt
<1>2. UNCHANGED <<repository, cache, lock, command, counters, leases>>
  BY DEF Look
<1>3. here \in Snapshots /\ reader[r] \in ReaderStates
  BY Numbers DEF TypeOK, Snapshots, Sources
<1>4. /\ c \in ReaderStates /\ c.pc = "looked" /\ c.held = reader[r].held
      /\ c.generation = reader[r].generation
  BY <1>3 DEF ReaderStates, ReaderPCs, Refused
<1> HIDE DEF c, here
<1>5. reader'[r] = c
  BY <1>1, <1>4, Numbers, ReaderUpdated
<1>6. Reads(r)' /\ Opened(r)'
  BY <1>1, <1>4, <1>5 DEF CacheInv, Reads, Opened, Holding, Refused, HeldBy
<1> QED
  BY <1>1, <1>2, <1>4, <1>6, SearchStep

LEMMA FindsNoCacheKept == ASSUME CacheInv, NEW r \in Readers, FindsNoCache(r) PROVE CacheInv'
<1>1. reader' = [reader EXCEPT ![r] = NoReader] /\ reader[r].pc = "looked"
  BY DEF FindsNoCache, ReaderAt
<1>2. UNCHANGED <<repository, cache, lock, command, counters, leases>>
  BY DEF FindsNoCache
<1>3. NoReader \in ReaderStates /\ NoReader.pc = "idle" /\ NoReader.held = FALSE
  BY DEF NoReader, ReaderStates, ReaderPCs, Refused
<1>4. reader'[r] = NoReader
  BY <1>1, <1>3, Numbers, ReaderUpdated
<1>5. reader[r].held = FALSE
  BY <1>1, Numbers DEF CacheInv, Reads, Holding, Refused, HeldBy, TypeOK, ReaderStates
<1>6. Reads(r)' /\ Opened(r)'
  BY <1>3, <1>4 DEF Reads, Opened, Holding, Refused, HeldBy
<1> QED
  BY <1>1, <1>2, <1>3, <1>5, <1>6, SearchStep

\* The generation of a search is there while its lease holds.
LEMMA HeldIsThere ==
    ASSUME CacheInv, LeasesHold, NEW r \in Readers, HeldBy(r)
    PROVE  \E e \in registry : /\ e.generation = reader[r].generation /\ e.generation \in Generations
                              /\ e.generation <= built /\ Present(e) /\ e.corpus \in Corpora
<1>1. PICK e \in registry : e.generation = reader[r].generation /\ Present(e)
  BY DEF CacheInv, Registered, Secured, Complete
<1> QED
  BY <1>1, EntryTyped, Numbers DEF CacheInv, Registered, TypeOK

LEMMA ReaderGone ==
    ASSUME TypeOK, NEW r \in Readers, NEW pc \in ReaderPCs,
           ReaderGoes(r, pc) \/ (Leaves(r) /\ pc = "releasing")
    PROVE  \E c \in ReaderStates :
               /\ reader' = [reader EXCEPT ![r] = c] /\ reader'[r] = c
               /\ c.pc = pc /\ c.held = reader[r].held /\ c.generation = reader[r].generation
               /\ ReaderGoes(r, pc) => c.corpus = reader[r].corpus
<1>1. reader[r] \in ReaderStates
  BY DEF TypeOK
<1>2. CASE ReaderGoes(r, pc)
  <2> DEFINE c == [reader[r] EXCEPT !.pc = pc]
  <2>1. reader' = [reader EXCEPT ![r] = c]
    BY <1>2 DEF ReaderGoes
  <2>2. /\ c \in ReaderStates /\ c.pc = pc /\ c.held = reader[r].held
        /\ c.generation = reader[r].generation /\ c.corpus = reader[r].corpus
    BY <1>1 DEF ReaderStates
  <2> HIDE DEF c
  <2> QED
    BY <2>1, <2>2, ReaderUpdated
<1>3. CASE ~ReaderGoes(r, pc) /\ Leaves(r) /\ pc = "releasing"
  <2> DEFINE c == [reader[r] EXCEPT !.pc = "releasing", !.corpus = None]
  <2>1. reader' = [reader EXCEPT ![r] = c]
    BY <1>3 DEF Leaves
  <2>2. /\ c \in ReaderStates /\ c.pc = pc /\ c.held = reader[r].held
        /\ c.generation = reader[r].generation
    BY <1>1, <1>3 DEF ReaderStates
  <2> HIDE DEF c
  <2> QED
    BY <1>3, <2>1, <2>2, ReaderUpdated
<1> QED
  BY <1>2, <1>3

\* A search goes on, is refused or ends, with the lease that it has.
LEMMA GoesOn ==
    ASSUME CacheInv, NEW r \in Readers, reader[r].pc \in Holding,
           NEW pc \in {"linking", "releasing"} \cup Refused,
           ReaderGoes(r, pc) \/ (Leaves(r) /\ pc = "releasing"),
           UNCHANGED <<repository, cache, lock, command, counters, leases>>,
           pc = "linking" => reader[r].pc = "reading"
    PROVE  CacheInv'
<1>1. PICK c \in ReaderStates :
          /\ reader' = [reader EXCEPT ![r] = c] /\ reader'[r] = c
          /\ c.pc = pc /\ c.held = reader[r].held /\ c.generation = reader[r].generation
          /\ ReaderGoes(r, pc) => c.corpus = reader[r].corpus
  <2>1. pc \in ReaderPCs
    BY DEF ReaderPCs, Refused
  <2> QED
    BY <2>1, Numbers, ReaderGone
<1>2. pc # "reading" /\ (pc = "linking" => ReaderGoes(r, pc))
  BY DEF Refused
<1>3. Reads(r)' /\ Opened(r)'
  BY <1>1, <1>2, CacheStays DEF CacheInv, Reads, Opened, Holding, Refused, HeldBy, LeasesHold
<1> QED
  BY <1>1, <1>3, SearchStep

LEMMA OpenManifestKept == ASSUME CacheInv, NEW r \in Readers, OpenManifest(r) PROVE CacheInv'
<1> DEFINE m == ManifestKey(reader[r].generation)
<1>1. /\ UNCHANGED <<repository, cache, lock, command, counters, leases>>
      /\ reader[r].pc = "leased" /\ reader[r].pc \in Holding
  BY DEF OpenManifest, ReaderAt, Holding
<1>2. CASE ReaderGoes(r, "missing")
  <2>1. "missing" \in Refused /\ "missing" # "linking"
    BY DEF Refused
  <2> QED
    BY <1>1, <1>2, <2>1, GoesOn
<1>4. CASE Leaves(r)
  BY <1>1, <1>4, GoesOn
<1>3. CASE m \in DOMAIN store
           /\ reader' = [reader EXCEPT ![r].pc = "reading", ![r].corpus = store[m]]
  <2> DEFINE c == [reader[r] EXCEPT !.pc = "reading", !.corpus = store[m]]
  <2>1. reader' = [reader EXCEPT ![r] = c]
    BY <1>3
  <2>2. reader[r] \in ReaderStates /\ store[m] \in Snapshots
    BY <1>1, <1>3 DEF CacheInv, TypeOK, Reads, Corpora, Snapshots
  <2>3. /\ c \in ReaderStates /\ c.pc = "reading" /\ c.held = reader[r].held
        /\ c.generation = reader[r].generation /\ c.corpus = store[m]
    BY <2>2 DEF ReaderStates, ReaderPCs, Refused
  <2> HIDE DEF c
  <2>4. reader'[r] = c
    BY <2>1, <2>3, Numbers, ReaderUpdated
  <2>5. Reads(r)' /\ Opened(r)'
    BY <1>1, <2>3, <2>4, CacheStays DEF CacheInv, Reads, Opened, Holding, Refused, HeldBy
  <2> QED
    BY <1>1, <2>1, <2>3, <2>5, SearchStep
<1> QED
  BY <1>2, <1>3, <1>4 DEF OpenManifest

LEMMA ReadChunksKept == ASSUME CacheInv, NEW r \in Readers, ReadChunks(r) PROVE CacheInv'
<1>1. /\ UNCHANGED <<repository, cache, lock, command, counters, leases>>
      /\ reader[r].pc = "reading" /\ reader[r].pc \in Holding
  BY DEF ReadChunks, ReaderAt, Holding
<1>2. Leaves(r) \/ \E pc \in {"linking"} \cup Refused : ReaderGoes(r, pc)
  BY DEF ReadChunks, Refused
<1>3. CASE Leaves(r)
  BY <1>1, <1>3, GoesOn
<1>4. ASSUME NEW pc \in {"linking"} \cup Refused, ReaderGoes(r, pc) PROVE CacheInv'
  BY <1>1, <1>4, GoesOn
<1> QED
  BY <1>2, <1>3, <1>4

LEMMA ReadGraphsKept == ASSUME CacheInv, NEW r \in Readers, ReadGraphs(r) PROVE CacheInv'
<1>1. /\ UNCHANGED <<repository, cache, lock, command, counters, leases>>
      /\ reader[r].pc = "linking" /\ reader[r].pc \in Holding
  BY DEF ReadGraphs, ReaderAt, Holding
<1>2. Leaves(r) \/ \E pc \in Refused : ReaderGoes(r, pc)
  BY DEF ReadGraphs, Refused
<1>3. \A pc \in Refused : pc # "linking"
  BY DEF Refused
<1>4. CASE Leaves(r)
  BY <1>1, <1>4, GoesOn
<1>5. ASSUME NEW pc \in Refused, ReaderGoes(r, pc) PROVE CacheInv'
  BY <1>1, <1>3, <1>5, GoesOn
<1> QED
  BY <1>2, <1>4, <1>5

\* A search takes the lease of the active generation: one reader more, one count more.
LEMMA AcquireKept == ASSUME CacheInv, NEW r \in Readers, Acquire(r) PROVE CacheInv'
<1> DEFINE c == [reader[r] EXCEPT !.pc = "leased", !.generation = active, !.held = TRUE]
<1>1. /\ UNCHANGED <<repository, cache, lock, command>> /\ UNCHANGED <<built, cleared, crashes>>
      /\ reader[r].pc = "looked" /\ active \in Generations
      /\ leases' = [leases EXCEPT ![active] = @ + 1] /\ reader' = [reader EXCEPT ![r] = c]
  BY Numbers DEF Acquire, ReaderAt, counters, TypeOK
<1>2. reader[r] \in ReaderStates /\ ~HeldBy(r)
  BY <1>1, Numbers DEF CacheInv, Reads, Holding, Refused, HeldBy, TypeOK
<1>3. c \in ReaderStates /\ c.pc = "leased" /\ c.held = TRUE /\ c.generation = active
  BY <1>1, <1>2 DEF ReaderStates, ReaderPCs, Refused
<1> HIDE DEF c
<1>4. /\ reader'[r] = c /\ reader' \in [Readers -> ReaderStates]
      /\ \A q \in Readers \ {r} : reader'[q] = reader[q]
  BY <1>1, <1>3, Numbers, ReaderUpdated
<1>5. /\ HoldersOf(active)' = HoldersOf(active) \cup {r} /\ r \notin HoldersOf(active)
      /\ \A g \in Generations \ {active} : HoldersOf(g)' = HoldersOf(g)
  <2>1. active' = active
    BY <1>1, CacheStays
  <2> QED
    BY <1>2, <1>3, <1>4, <2>1 DEF HoldersOf, HeldBy
<1>6. /\ leases'[active] = leases[active] + 1
      /\ \A g \in Generations \ {active} : leases'[g] = leases[g]
      /\ leases \in [Generations -> 0..Cardinality(Readers) + MaxCrashes]
  BY <1>1, Numbers DEF TypeOK
<1>7. /\ Cardinality(HoldersOf(active)') = Cardinality(HoldersOf(active)) + 1
      /\ Cardinality(HoldersOf(active)') <= Cardinality(Readers)
  <2>1. HoldersOf(active)' \subseteq Readers
    BY <1>5 DEF HoldersOf
  <2>2. Cardinality(HoldersOf(active)') <= Cardinality(Readers)
    BY <2>1, Constants, FS_Subset
  <2> QED
    BY <1>1, <1>5, <2>2, LeaseNumbers, FS_AddElement
<1>8. leases[active] <= Cardinality(HoldersOf(active)) + crashes
  BY <1>1 DEF CacheInv, Counted
<1>9. ASSUME NEW g \in Generations PROVE Counted(g)' /\ leases'[g] \in 0..Cardinality(Readers) + MaxCrashes
  <2>1. CASE g = active
    <3>1. Counted(active)
      BY <1>1 DEF CacheInv
    <3>2. active' = active /\ crashes' = crashes
      BY <1>1, CacheStays
    <3>3. /\ Cardinality(HoldersOf(active)) \in Nat /\ leases[active] \in Nat /\ crashes \in 0..MaxCrashes
          /\ crashes \in Nat /\ MaxCrashes \in Nat /\ Cardinality(Readers) \in Nat
      BY <1>1, LeaseNumbers, Numbers, Constants
    <3>4. leases'[active] \in 0..Cardinality(Readers) + MaxCrashes
      BY <1>6, <1>7, <1>8, <3>3
    <3>5. HoldersOf(g)' = HoldersOf(active)'
      BY <2>1, <3>2
    <3> QED
      BY <1>6, <1>7, <2>1, <3>1, <3>2, <3>3, <3>4, <3>5 DEF Counted
  <2>2. CASE g # active
    BY <1>1, <1>5, <1>6, <2>2 DEF CacheInv, Counted
  <2> QED
    BY <2>1, <2>2
<1>10. leases' \in [Generations -> 0..Cardinality(Readers) + MaxCrashes]
  BY <1>1, <1>6, <1>9
<1>11. \A q \in Readers : Reads(q)' /\ Opened(q)'
  BY <1>1, <1>3, <1>4, CacheStays DEF CacheInv, Reads, Opened, Holding, Refused, HeldBy
<1>12. \A q \in Readers : HeldBy(q)' =>
           \/ HeldBy(q) /\ reader'[q].generation = reader[q].generation
           \/ active # None /\ reader'[q].generation = active
  BY <1>1, <1>3, <1>4, Constants DEF HeldBy
<1>13. crashes' \in 0..MaxCrashes
  BY <1>1, Numbers
<1> QED
  BY <1>1, <1>4, <1>9, <1>10, <1>11, <1>12, <1>13, ReaderStep

\* A search ends: its lease is given back, or stays behind with the crash that ended it.
LEMMA SearchEnds ==
    ASSUME CacheInv, NEW r \in Readers, reader' = [reader EXCEPT ![r] = NoReader],
           UNCHANGED <<repository, cache, lock, command, built, cleared>>,
           \/ /\ reader[r].pc \in Holding /\ crashes' = crashes
              /\ leases' = [leases EXCEPT ![reader[r].generation] = IF @ <= 1 THEN 0 ELSE @ - 1]
           \/ leases' = leases /\ crashes' = crashes + 1 /\ crashes < MaxCrashes
    PROVE  CacheInv'
<1> DEFINE h == reader[r].generation
<1>1. NoReader \in ReaderStates /\ NoReader.pc = "idle" /\ NoReader.held = FALSE
  BY DEF NoReader, ReaderStates, ReaderPCs, Refused
<1>2. /\ reader'[r] = NoReader /\ reader' \in [Readers -> ReaderStates]
      /\ \A q \in Readers \ {r} : reader'[q] = reader[q]
  BY <1>1, Numbers, ReaderUpdated
<1>3. \A g : HoldersOf(g)' = HoldersOf(g) \ {r}
  BY <1>1, <1>2 DEF HoldersOf
<1>4. /\ leases \in [Generations -> 0..Cardinality(Readers) + MaxCrashes] /\ Reads(r)
      /\ crashes \in 0..MaxCrashes /\ crashes \in Nat /\ MaxCrashes \in Nat
      /\ Cardinality(Readers) \in Nat
  BY Numbers, LeaseNumbers, Constants DEF CacheInv, TypeOK
<1>5. crashes' \in 0..MaxCrashes /\ crashes' \in Nat
  BY <1>4
<1>6. ASSUME NEW g \in Generations
      PROVE  Counted(g)' /\ leases'[g] \in 0..Cardinality(Readers) + MaxCrashes
  <2> DEFINE n == Cardinality(HoldersOf(g))
             l == leases[g]
  <2>1. n \in Nat /\ l \in Nat /\ l <= Cardinality(Readers) + MaxCrashes /\ IsFiniteSet(HoldersOf(g))
    <3>1. l \in 0..Cardinality(Readers) + MaxCrashes
      BY <1>4
    <3> QED
      BY <1>4, <3>1, LeaseNumbers
  <2>2. l <= n + crashes /\ (LastingLeases => n <= l)
    BY DEF CacheInv, Counted
  <2>3. /\ r \in HoldersOf(g) => Cardinality(HoldersOf(g)') = n - 1 /\ n > 0
        /\ r \notin HoldersOf(g) => Cardinality(HoldersOf(g)') = n
    <3>1. r \in HoldersOf(g) => Cardinality(HoldersOf(g) \ {r}) = n - 1
      BY <2>1, FS_RemoveElement
    <3>2. r \in HoldersOf(g) => n # 0
      BY <2>1, FS_EmptySet
    <3>3. r \notin HoldersOf(g) => HoldersOf(g) \ {r} = HoldersOf(g)
      OBVIOUS
    <3> QED
      BY <1>3, <2>1, <3>1, <3>2, <3>3
  <2>4. CASE crashes' = crashes /\ reader[r].pc \in Holding /\ g = h
             /\ leases' = [leases EXCEPT ![h] = IF @ <= 1 THEN 0 ELSE @ - 1]
    <3>1. leases'[g] = IF l <= 1 THEN 0 ELSE l - 1
      BY <1>4, <2>4
    <3>2. LastingLeases /\ r \notin HoldersOf(g) => n = 0
      <4>1. HeldBy(r) => r \in HoldersOf(g)
        BY <2>4 DEF HoldersOf, HeldBy
      <4>2. LastingLeases /\ ~HeldBy(r) => \A s \in Readers : s = r
        BY <1>4, <2>4 DEF Reads, LastingLeases
      <4>3. LastingLeases /\ r \notin HoldersOf(g) => HoldersOf(g) = {}
        BY <4>1, <4>2 DEF HoldersOf
      <4> QED
        BY <4>3, FS_EmptySet
    <3>3. leases'[g] \in 0..Cardinality(Readers) + MaxCrashes
      BY <1>4, <2>1, <3>1
    <3>4. leases'[g] <= Cardinality(HoldersOf(g)') + crashes'
      BY <1>4, <2>1, <2>2, <2>3, <2>4, <3>1
    <3>5. LastingLeases => Cardinality(HoldersOf(g)') <= leases'[g]
      BY <1>4, <2>1, <2>2, <2>3, <2>4, <3>1, <3>2
    <3> QED
      BY <3>3, <3>4, <3>5 DEF Counted
  <2>5. CASE crashes' = crashes /\ reader[r].pc \in Holding /\ g # h
             /\ leases' = [leases EXCEPT ![h] = IF @ <= 1 THEN 0 ELSE @ - 1]
    <3>1. leases'[g] = l /\ r \notin HoldersOf(g)
      BY <1>4, <2>5 DEF HoldersOf
    <3>2. leases'[g] \in 0..Cardinality(Readers) + MaxCrashes
      BY <1>4, <3>1
    <3> QED
      BY <2>2, <2>3, <2>5, <3>1, <3>2 DEF Counted
  <2>6. CASE leases' = leases /\ crashes' = crashes + 1
    <3>1. leases'[g] \in 0..Cardinality(Readers) + MaxCrashes
      BY <1>4, <2>6
    <3>2. leases'[g] <= Cardinality(HoldersOf(g)') + crashes'
      BY <1>4, <2>1, <2>2, <2>3, <2>6
    <3>3. LastingLeases => Cardinality(HoldersOf(g)') <= leases'[g]
      BY <2>1, <2>2, <2>3, <2>6
    <3> QED
      BY <3>1, <3>2, <3>3 DEF Counted
  <2> QED
    BY <2>4, <2>5, <2>6
<1>7. leases' \in [Generations -> 0..Cardinality(Readers) + MaxCrashes]
  BY <1>4, <1>6
<1>8. \A q \in Readers : HeldBy(q)' => HeldBy(q) /\ reader'[q].generation = reader[q].generation
  BY <1>1, <1>2 DEF HeldBy
<1>9. \A q \in Readers : Reads(q)' /\ Opened(q)'
  BY <1>1, <1>2, CacheStays DEF CacheInv, Reads, Opened, Holding, Refused, HeldBy
<1> QED
  BY <1>2, <1>5, <1>6, <1>7, <1>8, <1>9, ReaderStep

LEMMA ReleaseLeaseKept == ASSUME CacheInv, NEW r \in Readers, ReleaseLease(r) PROVE CacheInv'
BY SearchEnds DEF ReleaseLease, Leaving, Holding, Refused, counters

LEMMA CrashReaderKept == ASSUME CacheInv, NEW r \in Readers, CrashReader(r) PROVE CacheInv'
BY SearchEnds DEF CrashReader

LEMMA ExpireLeaseKept == ASSUME CacheInv, NEW h \in Generations, ExpireLease(h) PROVE CacheInv'
<1>1. /\ UNCHANGED <<repository, cache, lock, command>> /\ UNCHANGED <<built, cleared, crashes>>
      /\ LeasesExpire \/ HoldersOf(h) = {}
      /\ leases' = [leases EXCEPT ![h] = 0]
      /\ reader' = [r \in Readers |-> IF r \in HoldersOf(h)
                                      THEN [reader[r] EXCEPT !.held = FALSE] ELSE reader[r]]
  BY DEF ExpireLease, counters
<1>2. ASSUME NEW r \in Readers
      PROVE  /\ reader'[r] \in ReaderStates /\ reader'[r].pc = reader[r].pc
             /\ reader'[r].corpus = reader[r].corpus /\ reader'[r].generation = reader[r].generation
             /\ reader'[r].held <=> reader[r].held /\ reader[r].generation # h
  <2>1. reader[r] \in ReaderStates
    BY Numbers DEF TypeOK
  <2>2. CASE r \in HoldersOf(h)
    <3> DEFINE c == [reader[r] EXCEPT !.held = FALSE]
    <3>1. reader'[r] = c
      BY <1>1, <2>2
    <3>2. /\ c \in ReaderStates /\ c.pc = reader[r].pc /\ c.corpus = reader[r].corpus
          /\ c.generation = reader[r].generation /\ c.held = FALSE
      BY <2>1 DEF ReaderStates
    <3>3. reader[r].generation = h
      BY <2>2 DEF HoldersOf
    <3> HIDE DEF c
    <3> QED
      BY <3>1, <3>2, <3>3
  <2>3. CASE r \notin HoldersOf(h)
    BY <1>1, <2>1, <2>3 DEF HoldersOf
  <2> QED
    BY <2>2, <2>3
<1>3. reader' \in [Readers -> ReaderStates]
  BY <1>1, <1>2
<1>4. HoldersOf(h)' = {} /\ \A g \in Generations \ {h} : HoldersOf(g)' = HoldersOf(g)
  BY <1>2 DEF HoldersOf
<1>5. /\ leases \in [Generations -> 0..Cardinality(Readers) + MaxCrashes] /\ crashes \in Nat
      /\ Cardinality(Readers) \in Nat /\ MaxCrashes \in Nat
  BY Numbers, Constants, LeaseNumbers DEF TypeOK
<1>6. leases' \in [Generations -> 0..Cardinality(Readers) + MaxCrashes]
  BY <1>1, <1>5
<1>7. ASSUME NEW g \in Generations PROVE Counted(g)'
  <2>1. CASE g = h
    BY <1>1, <1>4, <1>5, <2>1, FS_EmptySet DEF Counted
  <2>2. CASE g # h
    BY <1>1, <1>4, <1>5, <2>2 DEF CacheInv, Counted
  <2> QED
    BY <2>1, <2>2
<1>8. ASSUME NEW r \in Readers PROVE Reads(r)' /\ Opened(r)'
  <2>1. Reads(r) /\ Opened(r) /\ store' = store
    BY <1>1, CacheStays DEF CacheInv
  <2>2. ~LeasesExpire /\ HeldBy(r) => reader[r].generation # h
    BY <1>1 DEF HoldersOf, HeldBy
  <2>3. Reads(r)'
    BY <1>2, <2>1, <2>2 DEF Reads, HeldBy
  <2>4. Opened(r)'
    BY <1>2, <2>1 DEF Opened, HeldBy, LeasesHold
  <2> QED
    BY <2>3, <2>4
<1>9. \A r \in Readers : HeldBy(r)' => HeldBy(r) /\ reader'[r].generation = reader[r].generation
  BY <1>2 DEF HeldBy
<1>10. crashes' \in 0..MaxCrashes
  BY <1>1, Numbers
<1> QED
  BY <1>1, <1>3, <1>6, <1>7, <1>8, <1>9, <1>10, ReaderStep

-----------------------------------------------------------------------------
(* The repository, the lock that expires, and all steps together.           *)

\* A step of the repository, or of a clock.
LEMMA OutsideStep ==
    ASSUME CacheInv, UNCHANGED <<cache, leases, command, reader, counters>>,
           files' \in Trees, policy' \in Policies, moved' \subseteq Paths, lock' \in {lock, None},
           policy' = policy \/ (QuietEdits => Idle)
    PROVE  CacheInv'
<1>1. UNCHANGED <<store, registry, active, built, cleared, crashes>>
  BY CacheStays DEF counters
<1>2. TypeOK'
  BY <1>1 DEF CacheInv, TypeOK
<1>3. Records' /\ (Registered)'
  BY <1>1, CacheStays, RegisteredStays, Numbers, Constants DEF CacheInv, LeasesHold, HeldBy
<1>4. ASSUME NEW i \in Commands PROVE Shape(i)' /\ (lock' = i => Owner(i)')
  <2>1. Shape(i) /\ (lock = i => Owner(i)) /\ (active # None => Serves(active)) /\ i # None
    BY Numbers DEF CacheInv, Registered
  <2>2. QuietEdits => policy' = policy \/ command[i].pc \notin {"snapped"} \cup Building
    BY DEF Idle, At, Building, Staging, Finished, Collecting
  <2>3. Shape(i)'
    BY <1>1, <2>1, <2>2, Numbers, ShapeStays
  <2>4. lock' = i => Owner(i)'
    BY <1>1, <2>1, OwnerStays, Constants DEF LeasesHold, HeldBy
  <2> QED
    BY <2>3, <2>4
<1>5. \A g \in Generations : Counted(g)'
  BY <1>1 DEF CacheInv, Counted, HoldersOf
<1>6. \A r \in Readers : Reads(r)' /\ Opened(r)'
  BY <1>1 DEF CacheInv, Reads, Opened, HeldBy
<1> QED
  BY <1>2, <1>3, <1>4, <1>5, <1>6 DEF CacheInv

LEMMA EditSourceKept == ASSUME CacheInv, EditSource PROVE CacheInv'
<1>1. PICK p \in Paths : \E content \in Versions[p] : files' = [files EXCEPT ![p] = content]
  BY DEF EditSource
<1>2. PICK content \in Versions[p] : files' = [files EXCEPT ![p] = content]
  BY <1>1
<1>5. moved' \subseteq Paths
  BY Numbers DEF EditSource, TypeOK
<1>3. files' \in Trees
  <2>1. files \in Trees /\ content \in Contents \cup {NoFile}
    BY GenerationsAssumption, Numbers DEF TypeOK
  <2> QED
    BY <1>2, <2>1 DEF Trees
<1>4. policy \in Policies
  BY Numbers DEF TypeOK
<1> QED
  BY <1>3, <1>4, <1>5, OutsideStep DEF EditSource

LEMMA ChangePolicyKept == ASSUME CacheInv, ChangePolicy PROVE CacheInv'
<1>1. files \in Trees /\ moved \subseteq Paths
  BY Numbers DEF TypeOK
<1> QED
  BY <1>1, OutsideStep DEF ChangePolicy

LEMMA ExpireLockKept == ASSUME CacheInv, ExpireLock PROVE CacheInv'
<1>1. files \in Trees /\ policy \in Policies /\ moved \subseteq Paths
  BY Numbers DEF TypeOK
<1> QED
  BY <1>1, OutsideStep DEF ExpireLock, repository

LEMMA StutterKept == ASSUME CacheInv, UNCHANGED vars PROVE CacheInv'
<1>1. files \in Trees /\ policy \in Policies /\ moved \subseteq Paths
  BY Numbers DEF TypeOK
<1> QED
  BY <1>1, OutsideStep DEF vars, repository, cache, counters

LEMMA NextKept == CacheInv /\ [Next]_vars => CacheInv'
<1> SUFFICES ASSUME CacheInv, [Next]_vars PROVE CacheInv'
  OBVIOUS
<1>1. CASE EditSource \/ ChangePolicy \/ ExpireLock \/ UNCHANGED vars
  BY <1>1, EditSourceKept, ChangePolicyKept, ExpireLockKept, StutterKept
<1>2. ASSUME NEW i \in Commands, Build(i) PROVE CacheInv'
  BY <1>2, TakeSnapshotKept, LockForBuildKept, FindsLockedKept, StageKept, WriteRecordsKept,
     WritePostingsKept, WriteManifestKept, RegisterCompleteKept, CheckSourcesKept, ActivateKept,
     PlanCollectionKept, DeleteDoomedKept, ForgetDoomedKept DEF Build
<1>3. ASSUME NEW i \in Commands, Clear(i) PROVE CacheInv'
  BY <1>3, LockForClearKept, RefuseClearKept, DetachKept, CheckReadersKept, RestoreKept, WipeKept,
     UnregisterKept DEF Clear
<1>4. ASSUME NEW i \in Commands, Release(i) \/ LoseFence(i) \/ CrashCommand(i) PROVE CacheInv'
  BY <1>4, ReleaseKept, LoseFenceKept, CrashCommandKept
<1>5. ASSUME NEW r \in Readers, Search(r) \/ CrashReader(r) PROVE CacheInv'
  BY <1>5, LookKept, AcquireKept, FindsNoCacheKept, OpenManifestKept, ReadChunksKept,
     ReadGraphsKept, ReleaseLeaseKept, CrashReaderKept DEF Search
<1>6. ASSUME NEW g \in Generations, ExpireLease(g) PROVE CacheInv'
  BY <1>6, ExpireLeaseKept
<1> QED
  BY <1>1, <1>2, <1>3, <1>4, <1>5, <1>6 DEF Next

LEMMA InitCache == Init => CacheInv
<1> SUFFICES ASSUME Init PROVE CacheInv
  OBVIOUS
<1>1. NoCommand \in CommandStates /\ NoCommand.pc = "idle"
  BY DEF NoCommand, CommandStates, CommandPCs
<1>2. NoReader \in ReaderStates /\ NoReader.pc = "idle" /\ NoReader.held = FALSE
  BY DEF NoReader, ReaderStates, ReaderPCs, Refused
<1>3. Cardinality(Readers) \in Nat
  BY Constants, FS_CardinalityType
<1>4. DOMAIN store = {}
  BY DEF Init, EmptyStore
<1>5. TypeOK
  BY <1>1, <1>2, <1>3, <1>4, Constants DEF Init, TypeOK
<1>6. Records
  BY <1>4 DEF Records
<1>7. \A r \in Readers : Reads(r) /\ Opened(r) /\ ~HeldBy(r)
  BY <1>2 DEF Init, Reads, Opened, Holding, Refused, HeldBy
<1>8. Registered
  <2>1. RetainedPresent
    BY NewestIn DEF Init, RetainedPresent, Complete
  <2> QED
    BY <1>4, <1>7, <2>1, FS_EmptySet DEF Init, Registered, Owned
<1>9. ASSUME NEW i \in Commands PROVE Shape(i) /\ lock # i
  BY <1>1, Constants
  DEF Init, Shape, Building, Staging, Finished, Collecting, Clearing
<1>10. ASSUME NEW g \in Generations PROVE Counted(g)
  <2>1. HoldersOf(g) = {}
    BY <1>7 DEF HoldersOf, HeldBy
  <2> QED
    BY <2>1, FS_EmptySet DEF Init, Counted
<1> QED
  BY <1>5, <1>6, <1>7, <1>8, <1>9, <1>10 DEF CacheInv

LEMMA CacheInvariant == Spec => []CacheInv
BY InitCache, NextKept, PTL DEF Spec

-----------------------------------------------------------------------------
(* What searches are told: the graphs in the cache and the paths that stay. *)

Standing == {p \in Paths : files[p] # NoFile}
\* No path of the tree has come or gone since, but those at which one ever did.
StandsAs(tree) == \A p \in Paths \ moved : tree[p] = NoFile <=> files[p] = NoFile

\* A stored graph shows the paths that stand, unless its document links to one that moved.
GraphsStand ==
    \A c \in Corpora : \A key \in GraphKeys(c) \cap DOMAIN store :
        Relinked(key) \/ store[key] = LinksOf[key[3]] \cap Standing

Snapped == {"snapped"} \cup Building
Stands(i) == command[i].pc \in Snapped => StandsAs(Corpus(i).files)
Looking == {"looked", "leased", "reading", "linking"}
Watches(r) == reader[r].pc \in Looking => StandsAs(reader[r].corpus.files)

\* Until another build begins the chunks of a leased generation are those of its corpus.
Matched(r) ==
    LeasesHold /\ HeldBy(r) /\ reader[r].generation = built =>
        ChunksMatch(store[ManifestKey(built)])

\* What a search may have been told while its lease held.
Answered(r) ==
    LeasesHold /\ HeldBy(r) =>
        /\ ~ReaderAt(r, "missing")
        /\ ReaderAt(r, "chunk_differs") =>
               built > reader[r].generation /\ KeepsChunk(reader[r].corpus)
        /\ ReaderAt(r, "graph_differs") => \E key \in GraphKeys(reader[r].corpus) : Relinked(key)

SearchInv ==
    /\ GraphsStand /\ \A i \in Commands : Stands(i)
    /\ \A r \in Readers : Watches(r) /\ Matched(r) /\ Answered(r)

\* The graph of a document in a tree that stands.
LEMMA GraphOfStanding ==
    ASSUME NEW c \in Corpora, StandsAs(c.files), NEW key \in GraphKeys(c), ~Relinked(key)
    PROVE  GraphPayload(c, key) = LinksOf[key[3]] \cap Standing
<1>1. PICK p \in Paths : key = <<"graph", p, c.files[p], c.policy>> /\ c.files[p] # NoFile
  BY DEF GraphKeys, KnownPaths
<1>2. key[3] \in Contents
  <2>1. c.files[p] \in Versions[p] /\ Versions[p] \subseteq Contents \cup {NoFile}
    BY GenerationsAssumption DEF Corpora, Trees
  <2> QED
    BY <1>1, <2>1
<1>3. LinksOf[key[3]] \subseteq Paths \ moved
  BY <1>2, GenerationsAssumption DEF Relinked
<1> QED
  BY <1>3 DEF GraphPayload, KnownPaths, Standing, StandsAs

\* The same as a formula, to be used after a step as well.
LeasedThere ==
    \A r \in Readers : LeasesHold /\ HeldBy(r) =>
        \E e \in registry : e.generation = reader[r].generation /\ Present(e)

LEMMA HeldAreThere == CacheInv => LeasedThere
BY HeldIsThere DEF LeasedThere

LEMMA MovedStays == ASSUME moved \subseteq moved', NEW key, Relinked(key) PROVE Relinked(key)'
BY DEF Relinked

\* What a search was told stays true.
LEMMA AnsweredStays ==
    ASSUME CacheInv, NEW r \in Readers, Answered(r), moved \subseteq moved',
           built \in Nat, built' \in Nat, built <= built', reader'[r] = reader[r]
    PROVE  Answered(r)'
<1>1. ASSUME LeasesHold, HeldBy(r), ReaderAt(r, "chunk_differs") PROVE built' > reader[r].generation
  <2>1. reader[r].generation \in Nat
    BY <1>1, HeldIsThere, Constants
  <2>2. built > reader[r].generation
    BY <1>1 DEF Answered
  <2> QED
    BY <2>1, <2>2
<1>2. \A key : Relinked(key) => Relinked(key)'
  BY MovedStays
<1> QED
  BY <1>1, <1>2 DEF Answered, HeldBy, LeasesHold, ReaderAt, KeepsChunk

\* A command takes a snapshot of the sources, or keeps the one it has until it is done.
Follows(i) ==
    /\ command' = [command EXCEPT ![i] = command'[i]]
    /\ command'[i].pc \in Snapped =>
           \/ command'[i].corpus = Sources
           \/ command[i].pc \in Snapped /\ command'[i].corpus.files = command[i].corpus.files

LEMMA SnapshotFollows ==
    ASSUME CacheInv, NEW i \in Commands,
           Build(i) \/ Clear(i) \/ Release(i) \/ LoseFence(i) \/ CrashCommand(i)
    PROVE  Follows(i)
<1>1. TypeOK /\ command[i] \in CommandStates
  BY Numbers
<1>2. ASSUME NEW pc \in CommandPCs, Goes(i, pc), pc \in Snapped => command[i].pc \in Snapped
      PROVE  Follows(i)
  BY <1>1, <1>2, Gone DEF Follows
<1>3. ASSUME Ends(i) PROVE Follows(i)
  <2>1. "idle" \notin Snapped
    BY DEF Snapped, Building, Staging, Finished, Collecting
  <2> QED
    BY <1>1, <1>3, <2>1, Ended DEF Follows
<1>4. ASSUME NEW c, command' = [command EXCEPT ![i] = c],
             c.pc \in Snapped => c.corpus = Sources
                 \/ (command[i].pc \in Snapped /\ c.corpus.files = command[i].corpus.files)
      PROVE  Follows(i)
  <2>1. command'[i] = c
    BY <1>1, <1>4 DEF TypeOK
  <2> QED
    BY <1>4, <2>1 DEF Follows
<1>5. CASE TakeSnapshot(i)
  <2> DEFINE c == [command[i] EXCEPT !.pc = "snapped", !.corpus = Sources]
  <2>1. c.corpus = Sources /\ command' = [command EXCEPT ![i] = c]
    BY <1>1, <1>5 DEF TakeSnapshot, CommandStates
  <2> HIDE DEF c
  <2> QED
    BY <1>4, <2>1
<1>6. CASE LockForBuild(i)
  <2> DEFINE c == [command[i] EXCEPT !.pc = "locked", !.generation = built + 1,
                                     !.corpus = [command[i].corpus EXCEPT !.policy = policy]]
  <2>1. command[i].pc = "snapped" /\ command[i].corpus \in Snapshots
    BY <1>6 DEF LockForBuild, At, CacheInv, Shape, Corpus
  <2>2. c.corpus.files = command[i].corpus.files /\ command' = [command EXCEPT ![i] = c]
    BY <1>1, <1>6, <2>1 DEF LockForBuild, CommandStates, Snapshots
  <2> HIDE DEF c
  <2> QED
    BY <1>4, <2>1, <2>2 DEF Snapped
<1>7. CASE Stage(i)
  <2>1. PICK repair \in BOOLEAN :
            command' = [command EXCEPT ![i].pc = "staged",
                           ![i].writes = Writes(command[i].corpus, repair),
                           ![i].entries = registry \cup
                               {Entry(command[i].generation, command[i].corpus, "complete")}]
    BY <1>7 DEF Stage
  <2> DEFINE c == [command[i] EXCEPT !.pc = "staged",
                      !.writes = Writes(command[i].corpus, repair),
                      !.entries = registry \cup
                          {Entry(command[i].generation, command[i].corpus, "complete")}]
  <2>2. c.corpus = command[i].corpus /\ command' = [command EXCEPT ![i] = c]
    BY <1>1, <2>1 DEF CommandStates
  <2>3. command[i].pc = "locked"
    BY <1>7 DEF Stage, At
  <2> HIDE DEF c
  <2> QED
    BY <1>4, <2>2, <2>3 DEF Snapped, Building
<1>8. CASE WriteRecords(i)
  <2> DEFINE c == [command[i] EXCEPT !.pc = "recorded", !.writes = {}]
  <2>1. c.corpus = command[i].corpus /\ command' = [command EXCEPT ![i] = c]
    BY <1>1, <1>8 DEF WriteRecords, CommandStates
  <2>2. command[i].pc = "staged"
    BY <1>8 DEF WriteRecords, At
  <2> HIDE DEF c
  <2> QED
    BY <1>4, <2>1, <2>2 DEF Snapped, Building, Staging
<1>9. CASE PlanCollection(i)
  <2>1. PICK kept, doomed : command' = [command EXCEPT ![i].pc = "collecting",
                                           ![i].entries = kept, ![i].doomed = doomed]
    BY <1>9 DEF PlanCollection
  <2> DEFINE c == [command[i] EXCEPT !.pc = "collecting", !.entries = kept, !.doomed = doomed]
  <2>2. c.corpus = command[i].corpus /\ command' = [command EXCEPT ![i] = c]
    BY <1>1, <2>1 DEF CommandStates
  <2>3. command[i].pc = "activated"
    BY <1>9 DEF PlanCollection, At
  <2> HIDE DEF c
  <2> QED
    BY <1>4, <2>2, <2>3 DEF Snapped, Building, Collecting
<1>10. CASE Detach(i)
  <2>1. PICK doomed : command' = [command EXCEPT ![i].pc = "detached", ![i].entries = registry,
                                      ![i].saved = active, ![i].doomed = doomed]
    BY <1>10 DEF Detach
  <2> DEFINE c == [command[i] EXCEPT !.pc = "detached", !.entries = registry, !.saved = active,
                                     !.doomed = doomed]
  <2>2. c.pc = "detached" /\ command' = [command EXCEPT ![i] = c]
    BY <1>1, <2>1 DEF CommandStates
  <2> HIDE DEF c
  <2> QED
    BY <1>4, <2>2 DEF Snapped, Building, Staging, Finished, Collecting
<1>11. CASE \/ WritePostings(i) \/ WriteManifest(i) \/ RegisterComplete(i) \/ CheckSources(i)
            \/ Activate(i) \/ DeleteDoomed(i)
  <2>1. \E pc \in CommandPCs : Goes(i, pc)
    BY <1>11 DEF WritePostings, WriteManifest, RegisterComplete, CheckSources, Activate,
                 DeleteDoomed, CommandPCs
  <2>2. command[i].pc \in Snapped
    BY <1>11 DEF WritePostings, WriteManifest, RegisterComplete, CheckSources, Activate,
                 DeleteDoomed, At, Snapped, Building, Staging, Finished, Collecting
  <2> QED
    BY <1>2, <2>1, <2>2
<1>12. CASE \/ ForgetDoomed(i) \/ LockForClear(i) \/ RefuseClear(i) \/ CheckReaders(i)
            \/ Restore(i) \/ Wipe(i) \/ Unregister(i)
  <2>1. \E pc \in {"releasing", "clearing", "wiping", "restoring", "wiped"} : Goes(i, pc)
    BY <1>12 DEF ForgetDoomed, LockForClear, RefuseClear, CheckReaders, Restore, Wipe, Unregister
  <2>2. \A pc \in {"releasing", "clearing", "wiping", "restoring", "wiped"} :
            pc \in CommandPCs /\ pc \notin Snapped
    BY DEF CommandPCs, Snapped, Building, Staging, Finished, Collecting
  <2> QED
    BY <1>2, <2>1, <2>2
<1>13. CASE FindsLocked(i) \/ Release(i) \/ LoseFence(i) \/ CrashCommand(i)
  BY <1>3, <1>13 DEF FindsLocked, Release, LoseFence, CrashCommand
<1> QED
  BY <1>5, <1>6, <1>7, <1>8, <1>9, <1>10, <1>11, <1>12, <1>13 DEF Build, Clear

LEMMA SnapshotKept ==
    ASSUME CacheInv, NEW i \in Commands,
           Build(i) \/ Clear(i) \/ Release(i) \/ LoseFence(i) \/ CrashCommand(i)
    PROVE  Follows(i) /\ UNCHANGED <<repository, reader>> /\ built <= built' /\ built' \in Nat
<1>1. UNCHANGED <<repository, reader>> /\ built' \in {built, built + 1}
  BY DEF Build, Clear, TakeSnapshot, LockForBuild, FindsLocked, Stage, WriteRecords, WritePostings,
         WriteManifest, RegisterComplete, CheckSources, Activate, PlanCollection, DeleteDoomed,
         ForgetDoomed, LockForClear, RefuseClear, Detach, CheckReaders, Restore, Wipe, Unregister,
         Release, LoseFence, CrashCommand, repository, counters
<1> QED
  BY <1>1, Numbers, SnapshotFollows

\* A step of a command, given what it does to the records.
LEMMA CommandTold ==
    ASSUME CacheInv, SearchInv, NEW i \in Commands,
           Build(i) \/ Clear(i) \/ Release(i) \/ LoseFence(i) \/ CrashCommand(i),
           GraphsStand', \A r \in Readers : Matched(r)'
    PROVE  SearchInv'
<1>1. /\ command' = [command EXCEPT ![i] = command'[i]]
      /\ UNCHANGED <<repository, reader>> /\ built <= built' /\ built' \in Nat /\ built \in Nat
      /\ command'[i].pc \in Snapped =>
             \/ command'[i].corpus = Sources
             \/ command[i].pc \in Snapped /\ command'[i].corpus.files = command[i].corpus.files
  BY SnapshotKept, Numbers DEF Follows
<1>2. UNCHANGED <<files, moved>> /\ \A j \in Commands \ {i} : command'[j] = command[j]
  BY <1>1, Numbers DEF repository, TypeOK
<1>3. ASSUME NEW j \in Commands PROVE Stands(j)'
  <2>1. Stands(j) /\ Stands(i)
    BY DEF SearchInv
  <2>2. StandsAs(files)' /\ Sources.files = files
    BY DEF StandsAs, Sources
  <2>3. CASE j # i
    BY <1>2, <2>1, <2>3 DEF Stands, StandsAs, Corpus
  <2>4. CASE j = i
    BY <1>1, <1>2, <2>1, <2>2, <2>4 DEF Stands, StandsAs, Corpus
  <2> QED
    BY <2>3, <2>4
<1>4. ASSUME NEW r \in Readers PROVE Watches(r)' /\ Answered(r)'
  BY <1>1, <1>2, AnsweredStays DEF SearchInv, Watches, StandsAs
<1> QED
  BY <1>3, <1>4 DEF SearchInv

\* Records change in four steps of a command.
LEMMA StoreStays ==
    ASSUME NEW i \in Commands,
           Build(i) \/ Clear(i) \/ Release(i) \/ LoseFence(i) \/ CrashCommand(i),
           ~WriteRecords(i), ~WritePostings(i), ~WriteManifest(i), ~DeleteDoomed(i), ~Wipe(i)
    PROVE  store' = store
BY DEF Build, Clear, TakeSnapshot, LockForBuild, FindsLocked, Stage, RegisterComplete,
       CheckSources, Activate, PlanCollection, ForgetDoomed, LockForClear, RefuseClear, Detach,
       CheckReaders, Restore, Unregister, Release, LoseFence, CrashCommand, cache

LEMMA SameStoreTold ==
    ASSUME CacheInv, SearchInv, NEW i \in Commands,
           Build(i) \/ Clear(i) \/ Release(i) \/ LoseFence(i) \/ CrashCommand(i), store' = store
    PROVE  SearchInv'
<1>1. UNCHANGED <<files, moved, reader>> /\ built <= built' /\ built' \in Nat /\ built \in Nat
  BY SnapshotKept, Numbers DEF repository
<1>2. GraphsStand'
  BY <1>1 DEF SearchInv, GraphsStand, Relinked, Standing
<1>3. ASSUME NEW r \in Readers PROVE Matched(r)'
  <2>1. ASSUME LeasesHold, HeldBy(r), reader[r].generation = built' PROVE built' = built
    <3>1. reader[r].generation <= built
      BY <2>1, HeldIsThere
    <3> QED
      BY <1>1, <2>1, <3>1
  <2> QED
    BY <1>1, <2>1 DEF SearchInv, Matched, HeldBy, LeasesHold, ChunksMatch
<1> QED
  BY <1>2, <1>3, CommandTold

\* The records of a build are written.
LEMMA PutTold ==
    ASSUME CacheInv, SearchInv, NEW i \in Commands, Build(i), lock = i, command[i].pc \in Staging,
           NEW records, store' = Put(records), built' = built,
           \A c \in Corpora : \A key \in DOMAIN records \cap GraphKeys(c) :
               key \in GraphKeys(Corpus(i)) /\ records[key] = GraphPayload(Corpus(i), key)
    PROVE  SearchInv'
<1>1. UNCHANGED <<files, moved, reader>>
  BY SnapshotKept DEF repository
<1>2. Shape(i) /\ Builds(i) /\ Registered
  BY DEF CacheInv, Owner
<1>3. /\ Corpus(i) \in Corpora /\ StandsAs(Corpus(i).files)
      /\ \A e \in registry \ {Staged(i)} : e.generation < built
  BY <1>2 DEF SearchInv, Stands, Shape, Builds, Snapped, Building
<1>4. GraphsStand'
  <2>1. ASSUME NEW c \in Corpora, NEW key \in GraphKeys(c) \cap DOMAIN store', ~Relinked(key)
        PROVE  store'[key] = LinksOf[key[3]] \cap Standing
    <3>1. CASE key \in DOMAIN records
      <4>1. key \in GraphKeys(Corpus(i)) /\ records[key] = GraphPayload(Corpus(i), key)
        BY <2>1, <3>1
      <4>2. GraphPayload(Corpus(i), key) = LinksOf[key[3]] \cap Standing
        BY <1>3, <2>1, <4>1, GraphOfStanding
      <4>3. store'[key] = records[key]
        BY <3>1, PutIs
      <4> QED
        BY <4>1, <4>2, <4>3
    <3>2. CASE key \notin DOMAIN records
      BY <2>1, <3>2, PutIs DEF SearchInv, GraphsStand
    <3> QED
      BY <3>1, <3>2
  <2> QED
    BY <1>1, <2>1 DEF GraphsStand, Relinked, Standing
<1>5. ASSUME NEW r \in Readers PROVE Matched(r)'
  <2>1. ASSUME LeasesHold, HeldBy(r) PROVE reader[r].generation # built
    <3>1. PICK e \in Complete(registry) : e.generation = reader[r].generation
      BY <1>2, <2>1 DEF Registered, Secured
    <3>2. e # Staged(i) /\ e \in registry
      BY <3>1, StagedAndCompleted DEF Complete
    <3> QED
      BY <1>3, <3>1, <3>2, Numbers
  <2> QED
    BY <1>1, <2>1 DEF Matched, HeldBy, LeasesHold
<1> QED
  BY <1>4, <1>5, CommandTold

LEMMA WriteRecordsTold ==
    ASSUME CacheInv, SearchInv, NEW i \in Commands, WriteRecords(i) PROVE SearchInv'
<1> DEFINE records == [key \in command[i].writes |-> Payload(Corpus(i), key)]
<1>1. /\ command[i].pc = "staged" /\ lock = i /\ store' = Put(records) /\ built' = built
  BY DEF WriteRecords, At, Owns, Corpus, counters
<1>2. command[i].writes \subseteq ContentKeys(Corpus(i))
  BY <1>1 DEF CacheInv, Shape
<1>3. ASSUME NEW c, NEW key \in DOMAIN records \cap GraphKeys(c)
      PROVE  key \in GraphKeys(Corpus(i)) /\ records[key] = GraphPayload(Corpus(i), key)
  <2>1. key \notin ChunkKeys(Corpus(i))
    BY KeysApart
  <2> QED
    BY <1>2, <2>1 DEF ContentKeys, Payload
<1> HIDE DEF records
<1> QED
  BY <1>1, <1>3, PutTold DEF Build, Staging

LEMMA WritePostingsTold ==
    ASSUME CacheInv, SearchInv, NEW i \in Commands, WritePostings(i) PROVE SearchInv'
<1> DEFINE records == [key \in {PostingKey(Corpus(i))} |-> ChunkKeys(Corpus(i))]
<1>1. command[i].pc = "recorded" /\ lock = i /\ store' = Put(records) /\ built' = built
  BY DEF WritePostings, At, Owns, Corpus, counters
<1>2. \A c : DOMAIN records \cap GraphKeys(c) = {}
  BY KeysApart
<1> HIDE DEF records
<1> QED
  BY <1>1, <1>2, PutTold DEF Build, Staging

LEMMA WriteManifestTold ==
    ASSUME CacheInv, SearchInv, NEW i \in Commands, WriteManifest(i) PROVE SearchInv'
<1> DEFINE records == [key \in {ManifestKey(command[i].generation)} |-> Corpus(i)]
<1>1. command[i].pc = "posted" /\ lock = i /\ store' = Put(records) /\ built' = built
  BY DEF WriteManifest, At, Owns, Corpus, counters
<1>2. \A c : DOMAIN records \cap GraphKeys(c) = {}
  BY KindOfKey
<1> HIDE DEF records
<1> QED
  BY <1>1, <1>2, PutTold DEF Build, Staging

\* Records are deleted: those of a leased generation stay.
LEMMA DeletionTold ==
    ASSUME CacheInv, CacheInv', SearchInv, NEW i \in Commands, Build(i) \/ Clear(i),
           NEW keys, store' = Without(keys), built' = built
    PROVE  SearchInv'
<1>1. UNCHANGED <<files, moved, reader>>
  BY SnapshotKept DEF repository
<1>2. DOMAIN store' \subseteq DOMAIN store /\ \A key \in DOMAIN store' : store'[key] = store[key]
  BY WithoutIs
<1>3. GraphsStand'
  BY <1>1, <1>2 DEF SearchInv, GraphsStand, Relinked, Standing
<1>4. ASSUME NEW r \in Readers PROVE Matched(r)'
  <2>1. ASSUME LeasesHold, HeldBy(r), reader[r].generation = built
        PROVE  ChunksMatch(store[ManifestKey(built)])'
    <3> DEFINE m == ManifestKey(built)
    <3>1. LeasedThere'
      BY HeldAreThere, PTL
    <3>2. HeldBy(r)' /\ LeasesHold' /\ reader'[r].generation = built
      BY <1>1, <2>1 DEF HeldBy, LeasesHold
    <3>3. PICK e \in registry' : e.generation = built /\ Present(e)'
      BY <3>1, <3>2 DEF LeasedThere
    <3>4. m \in DOMAIN store' /\ store'[m] = e.corpus /\ ChunkKeys(e.corpus) \subseteq DOMAIN store'
      BY <3>3 DEF Present, EntryKeys, RecordKeys
    <3>5. ChunksMatch(store[m])
      BY <2>1 DEF SearchInv, Matched
    <3> QED
      BY <1>2, <3>4, <3>5 DEF ChunksMatch
  <2> QED
    BY <1>1, <2>1 DEF Matched, HeldBy, LeasesHold
<1> QED
  BY <1>3, <1>4, CommandTold

LEMMA CommandStepTold ==
    ASSUME CacheInv, CacheInv', SearchInv, NEW i \in Commands,
           Build(i) \/ Clear(i) \/ Release(i) \/ LoseFence(i) \/ CrashCommand(i)
    PROVE  SearchInv'
<1>1. CASE DeleteDoomed(i) \/ Wipe(i)
  <2>1. built' = built /\ \E keys : store' = Without(keys)
    BY <1>1 DEF DeleteDoomed, Wipe, counters
  <2> QED
    BY <1>1, <2>1, DeletionTold DEF Build, Clear
<1>2. CASE ~(DeleteDoomed(i) \/ Wipe(i) \/ WriteRecords(i) \/ WritePostings(i) \/ WriteManifest(i))
  BY <1>2, StoreStays, SameStoreTold
<1> QED
  BY <1>1, <1>2, WriteRecordsTold, WritePostingsTold, WriteManifestTold

\* A document is edited, comes or goes.
LEMMA EditTold == ASSUME CacheInv, SearchInv, EditSource PROVE SearchInv'
<1>1. PICK p \in Paths, content \in Contents \cup {NoFile} :
          /\ files' = [files EXCEPT ![p] = content]
          /\ moved' = IF NoFile \in {files[p], content} THEN moved \cup {p} ELSE moved
  BY GenerationsAssumption DEF EditSource
<1>2. /\ UNCHANGED <<store, command, reader, built>> /\ built \in Nat /\ moved \subseteq moved'
      /\ DOMAIN files = Paths
  BY <1>1, CacheStays, Numbers DEF EditSource, counters, TypeOK, Trees
<1>3. \A q \in Paths \ moved' : files'[q] = NoFile <=> files[q] = NoFile
  BY <1>1, <1>2
<1>4. \A tree : StandsAs(tree) => StandsAs(tree)'
  BY <1>2, <1>3 DEF StandsAs
<1>5. GraphsStand'
  <2>1. ASSUME NEW c \in Corpora, NEW key \in GraphKeys(c) \cap DOMAIN store, ~Relinked(key)'
        PROVE  store[key] = LinksOf[key[3]] \cap Standing'
    <3>1. ~Relinked(key) /\ LinksOf[key[3]] \cap moved' = {}
      BY <1>2, <2>1, MovedStays DEF Relinked
    <3>2. store[key] = LinksOf[key[3]] \cap Standing
      BY <2>1, <3>1 DEF SearchInv, GraphsStand
    <3> QED
      BY <1>3, <3>1, <3>2 DEF Standing
  <2> QED
    BY <1>2, <2>1 DEF GraphsStand
<1>6. \A i \in Commands : Stands(i)'
  BY <1>2, <1>4 DEF SearchInv, Stands, Corpus
<1>7. ASSUME NEW r \in Readers PROVE Watches(r)' /\ Matched(r)' /\ Answered(r)'
  BY <1>2, <1>4, AnsweredStays DEF SearchInv, Watches, Matched, HeldBy, LeasesHold, ChunksMatch
<1> QED
  BY <1>5, <1>6, <1>7 DEF SearchInv

\* A step that touches neither the sources nor the records nor a command, given what
\* each search has been told.
LEMMA OtherTold ==
    ASSUME CacheInv, SearchInv, UNCHANGED <<files, moved, store, command, built>>,
           \A r \in Readers : reader'[r] = reader[r] \/ (Watches(r)' /\ Matched(r)' /\ Answered(r)')
    PROVE  SearchInv'
<1>1. GraphsStand' /\ \A i \in Commands : Stands(i)'
  BY DEF SearchInv, GraphsStand, Relinked, Standing, Stands, StandsAs, Corpus
<1>2. ASSUME NEW r \in Readers, reader'[r] = reader[r] PROVE Watches(r)' /\ Matched(r)' /\ Answered(r)'
  BY <1>2, AnsweredStays, Numbers
  DEF SearchInv, Watches, StandsAs, Matched, HeldBy, LeasesHold, ChunksMatch
<1> QED
  BY <1>1, <1>2 DEF SearchInv

\* The chunks and the graphs that a search reads while its lease holds.
LEMMA ChunksRead ==
    ASSUME CacheInv, SearchInv, NEW r \in Readers, LeasesHold, HeldBy(r),
           reader[r].pc \in {"reading", "linking"}
    PROVE  LET c == reader[r].corpus
           IN  /\ c \in Corpora /\ RecordKeys(c) \subseteq DOMAIN store
               /\ ChunksMatch(c) \/ (built > reader[r].generation /\ KeepsChunk(c))
               /\ GraphsMatch(c) \/ \E key \in GraphKeys(c) : Relinked(key)
<1> DEFINE c == reader[r].corpus
           g == reader[r].generation
<1>1. PICK e \in registry : /\ e.generation = g /\ g \in Generations /\ g <= built
                            /\ Present(e) /\ e.corpus \in Corpora
  BY HeldIsThere
<1>2. store[ManifestKey(g)] = c
  BY DEF CacheInv, Opened
<1>3. c = e.corpus /\ RecordKeys(c) \subseteq DOMAIN store
  BY <1>1, <1>2 DEF Present, EntryKeys
<1>4. ASSUME ~ChunksMatch(c) PROVE built > g /\ KeepsChunk(c)
  <2>1. PICK key \in ChunkKeys(c) : store[key] # ChunkPayload(c, key)
    BY <1>3, <1>4 DEF ChunksMatch, RecordKeys
  <2>2. PICK d \in Corpora : key \in ChunkKeys(d) /\ store[key] = ChunkPayload(d, key)
    BY <1>1, <1>3, <2>1 DEF CacheInv, Records, RecordKeys
  <2>3. g # built
    BY <1>2, <1>4 DEF SearchInv, Matched
  <2>4. built > g
    <3>1. g \in Nat /\ built \in Nat /\ g <= built
      BY <1>1, Numbers, Constants
    <3> HIDE DEF g
    <3> QED
      BY <2>3, <3>1
  <2> QED
    BY <2>1, <2>2, <2>4 DEF KeepsChunk
<1>5. ASSUME ~GraphsMatch(c) PROVE \E key \in GraphKeys(c) : Relinked(key)
  <2>1. PICK key \in GraphKeys(c) : store[key] # GraphPayload(c, key)
    BY <1>3, <1>5 DEF GraphsMatch, RecordKeys
  <2>2. StandsAs(c.files)
    BY DEF SearchInv, Watches, Looking
  <2>3. Relinked(key) \/ store[key] = LinksOf[key[3]] \cap Standing
    BY <1>1, <1>3, <2>1 DEF SearchInv, GraphsStand, RecordKeys
  <2> QED
    BY <1>1, <1>3, <2>1, <2>2, <2>3, GraphOfStanding
<1> QED
  BY <1>1, <1>3, <1>4, <1>5

\* A search goes on with the corpus and the lease that it has.
LEMMA GoingTold ==
    ASSUME CacheInv, SearchInv, NEW r \in Readers, reader[r].pc \in Looking,
           NEW pc \in {"linking", "releasing"} \cup Refused,
           ReaderGoes(r, pc) \/ (Leaves(r) /\ pc = "releasing"),
           UNCHANGED <<repository, cache, lock, command, counters>>,
           LeasesHold /\ HeldBy(r) => pc # "missing",
           LeasesHold /\ HeldBy(r) /\ pc = "chunk_differs" =>
               built > reader[r].generation /\ KeepsChunk(reader[r].corpus),
           LeasesHold /\ HeldBy(r) /\ pc = "graph_differs" =>
               \E key \in GraphKeys(reader[r].corpus) : Relinked(key)
    PROVE  SearchInv'
<1>1. UNCHANGED <<files, moved, store, built>> /\ TypeOK
  BY CacheStays, Numbers DEF repository, counters
<1>2. PICK c \in ReaderStates :
          /\ reader' = [reader EXCEPT ![r] = c] /\ reader'[r] = c
          /\ c.pc = pc /\ c.held = reader[r].held /\ c.generation = reader[r].generation
          /\ ReaderGoes(r, pc) => c.corpus = reader[r].corpus
  <2>1. pc \in ReaderPCs
    BY DEF ReaderPCs
  <2> QED
    BY <1>1, <2>1, ReaderGone
<1>3. \A q \in Readers \ {r} : reader'[q] = reader[q]
  BY <1>1, <1>2, ReaderUpdated
<1>4. Watches(r) /\ Matched(r)
  BY DEF SearchInv
<1>5. pc \in Looking => pc = "linking"
  BY DEF Looking, Refused
<1>6. pc # "releasing" => ReaderGoes(r, pc)
  OBVIOUS
<1>7. Watches(r)' /\ Matched(r)'
  BY <1>1, <1>2, <1>4, <1>5, <1>6 DEF Watches, StandsAs, Matched, HeldBy, LeasesHold, ChunksMatch
<1>8. Answered(r)'
  BY <1>1, <1>2, <1>6 DEF Answered, HeldBy, LeasesHold, ReaderAt, KeepsChunk, Relinked
<1> QED
  BY <1>1, <1>3, <1>7, <1>8, OtherTold

LEMMA OpenManifestTold ==
    ASSUME CacheInv, CacheInv', SearchInv, NEW r \in Readers, OpenManifest(r) PROVE SearchInv'
<1> DEFINE m == ManifestKey(reader[r].generation)
<1>1. /\ UNCHANGED <<repository, cache, lock, command, counters>>
      /\ UNCHANGED <<files, moved, store, built>>
      /\ reader[r].pc = "leased" /\ reader[r].pc \in Looking
  BY CacheStays DEF OpenManifest, ReaderAt, Looking, repository, counters
<1>2. LeasesHold /\ HeldBy(r) => m \in DOMAIN store
  BY HeldIsThere DEF Present
<1>3. CASE m \notin DOMAIN store /\ ReaderGoes(r, "missing")
  <2>1. "missing" \in Refused
    BY DEF Refused
  <2> QED
    BY <1>1, <1>2, <1>3, <2>1, GoingTold
<1>4. CASE Leaves(r)
  BY <1>1, <1>4, GoingTold
<1>5. CASE /\ m \in DOMAIN store /\ store[m].files = reader[r].corpus.files
           /\ reader' = [reader EXCEPT ![r].pc = "reading", ![r].corpus = store[m]]
  <2> DEFINE c == [reader[r] EXCEPT !.pc = "reading", !.corpus = store[m]]
  <2>1. reader' = [reader EXCEPT ![r] = c] /\ reader[r] \in ReaderStates
    BY <1>5, Numbers DEF TypeOK
  <2>2. /\ c.pc = "reading" /\ c.held = reader[r].held /\ c.generation = reader[r].generation
        /\ c.corpus = store[m]
    BY <2>1 DEF ReaderStates
  <2> HIDE DEF c
  <2>3. reader'[r] = c /\ \A q \in Readers \ {r} : reader'[q] = reader[q]
    BY <2>1, Numbers DEF TypeOK
  <2>4. Watches(r)' /\ Matched(r)' /\ Answered(r)'
    <3>1. Watches(r) /\ Matched(r)
      BY DEF SearchInv
    <3>2. Watches(r)'
      BY <1>1, <1>5, <2>2, <2>3, <3>1 DEF Watches, StandsAs
    <3>3. Matched(r)' /\ Answered(r)'
      BY <1>1, <2>2, <2>3, <3>1 DEF Matched, Answered, HeldBy, LeasesHold, ChunksMatch, ReaderAt
    <3> QED
      BY <3>2, <3>3
  <2> QED
    BY <1>1, <2>3, <2>4, OtherTold
<1> QED
  BY <1>3, <1>4, <1>5 DEF OpenManifest

LEMMA ReadChunksTold ==
    ASSUME CacheInv, SearchInv, NEW r \in Readers, ReadChunks(r) PROVE SearchInv'
<1> DEFINE c == reader[r].corpus
<1>1. /\ UNCHANGED <<repository, cache, lock, command, counters>>
      /\ reader[r].pc = "reading" /\ reader[r].pc \in Looking
  BY DEF ReadChunks, ReaderAt, Looking
<1>2. LeasesHold /\ HeldBy(r) =>
          /\ RecordKeys(c) \subseteq DOMAIN store
          /\ ChunksMatch(c) \/ (built > reader[r].generation /\ KeepsChunk(c))
  BY <1>1, ChunksRead
<1>3. CASE Leaves(r)
  BY <1>1, <1>3, GoingTold
<1>4. CASE ~(ChunkKeys(c) \cup {PostingKey(c)} \subseteq DOMAIN store) /\ ReaderGoes(r, "missing")
  <2>1. "missing" \in Refused
    BY DEF Refused
  <2>2. ~(LeasesHold /\ HeldBy(r))
    BY <1>2, <1>4 DEF RecordKeys
  <2> QED
    BY <1>1, <1>4, <2>1, <2>2, GoingTold
<1>5. CASE ~ChunksMatch(c) /\ ReaderGoes(r, "chunk_differs")
  <2>1. "chunk_differs" \in Refused
    BY DEF Refused
  <2> QED
    BY <1>1, <1>2, <1>5, <2>1, GoingTold
<1>6. CASE ReaderGoes(r, "linking")
  BY <1>1, <1>6, GoingTold
<1> QED
  BY <1>3, <1>4, <1>5, <1>6 DEF ReadChunks

LEMMA ReadGraphsTold ==
    ASSUME CacheInv, SearchInv, NEW r \in Readers, ReadGraphs(r) PROVE SearchInv'
<1> DEFINE c == reader[r].corpus
<1>1. /\ UNCHANGED <<repository, cache, lock, command, counters>>
      /\ reader[r].pc = "linking" /\ reader[r].pc \in Looking
  BY DEF ReadGraphs, ReaderAt, Looking
<1>2. LeasesHold /\ HeldBy(r) =>
          /\ RecordKeys(c) \subseteq DOMAIN store
          /\ GraphsMatch(c) \/ \E key \in GraphKeys(c) : Relinked(key)
  BY <1>1, ChunksRead
<1>3. CASE Leaves(r)
  BY <1>1, <1>3, GoingTold
<1>4. CASE ~(GraphKeys(c) \subseteq DOMAIN store) /\ ReaderGoes(r, "missing")
  <2>1. "missing" \in Refused
    BY DEF Refused
  <2>2. ~(LeasesHold /\ HeldBy(r))
    BY <1>2, <1>4 DEF RecordKeys
  <2> QED
    BY <1>1, <1>4, <2>1, <2>2, GoingTold
<1>5. CASE ~GraphsMatch(c) /\ ReaderGoes(r, "graph_differs")
  <2>1. "graph_differs" \in Refused
    BY DEF Refused
  <2> QED
    BY <1>1, <1>2, <1>5, <2>1, GoingTold
<1> QED
  BY <1>3, <1>4, <1>5 DEF ReadGraphs

\* A search begins, takes the lease of the active generation, or ends.
LEMMA ReaderSetTold ==
    ASSUME CacheInv, SearchInv, NEW r \in Readers, NEW c, reader' = [reader EXCEPT ![r] = c],
           UNCHANGED <<files, moved, store, command, built>>,
           c.pc \in {"idle", "looked", "leased"},
           c.pc # "idle" => StandsAs(c.corpus.files),
           LeasesHold /\ c.held /\ c.generation = built => ChunksMatch(store[ManifestKey(built)])
    PROVE  SearchInv'
<1>1. reader'[r] = c /\ \A q \in Readers \ {r} : reader'[q] = reader[q]
  BY Numbers DEF TypeOK
<1>2. Watches(r)' /\ Matched(r)' /\ Answered(r)'
  BY <1>1 DEF Watches, StandsAs, Looking, Matched, HeldBy, LeasesHold, ChunksMatch, Answered, ReaderAt
<1> QED
  BY <1>1, <1>2, OtherTold

LEMMA LookTold == ASSUME CacheInv, SearchInv, NEW r \in Readers, Look(r) PROVE SearchInv'
<1> DEFINE c == [reader[r] EXCEPT !.pc = "looked", !.corpus = Sources]
<1>1. /\ reader[r] \in ReaderStates /\ reader' = [reader EXCEPT ![r] = c]
      /\ UNCHANGED <<files, moved, store, command, built>>
  BY CacheStays, Numbers DEF Look, TypeOK, repository, counters
<1>2. /\ c.pc = "looked" /\ c.corpus.files = files /\ c.held = reader[r].held
      /\ c.generation = reader[r].generation
  BY <1>1 DEF ReaderStates, Sources
<1> HIDE DEF c
<1>3. StandsAs(c.corpus.files) /\ Matched(r)
  BY <1>2 DEF StandsAs, SearchInv
<1> QED
  BY <1>1, <1>2, <1>3, ReaderSetTold DEF Matched, HeldBy

LEMMA AcquireTold == ASSUME CacheInv, SearchInv, NEW r \in Readers, Acquire(r) PROVE SearchInv'
<1> DEFINE c == [reader[r] EXCEPT !.pc = "leased", !.generation = active, !.held = TRUE]
<1>1. /\ reader[r] \in ReaderStates /\ reader' = [reader EXCEPT ![r] = c] /\ active # None
      /\ UNCHANGED <<files, moved, store, command, built>> /\ reader[r].pc = "looked"
  BY CacheStays, Numbers DEF Acquire, ReaderAt, TypeOK, repository, counters
<1>2. /\ c.pc = "leased" /\ c.corpus = reader[r].corpus /\ c.generation = active
  BY <1>1 DEF ReaderStates
<1> HIDE DEF c
<1>3. StandsAs(c.corpus.files)
  BY <1>1, <1>2 DEF SearchInv, Watches, Looking
<1>4. LeasesHold /\ active = built => ChunksMatch(store[ManifestKey(built)])
  BY <1>1, Constants DEF CacheInv, Registered, Serves, LeasesHold
<1> QED
  BY <1>1, <1>2, <1>3, <1>4, ReaderSetTold

LEMMA SearchEndTold ==
    ASSUME CacheInv, SearchInv, NEW r \in Readers, FindsNoCache(r) \/ ReleaseLease(r) \/ CrashReader(r)
    PROVE  SearchInv'
<1>1. /\ reader' = [reader EXCEPT ![r] = NoReader]
      /\ UNCHANGED <<files, moved, store, command, built>>
  BY CacheStays DEF FindsNoCache, ReleaseLease, CrashReader, repository, counters, cache
<1>2. NoReader.pc = "idle" /\ NoReader.held = FALSE
  BY DEF NoReader
<1> QED
  BY <1>1, <1>2, ReaderSetTold

LEMMA ExpireLeaseTold ==
    ASSUME CacheInv, SearchInv, NEW h \in Generations, ExpireLease(h) PROVE SearchInv'
<1>1. UNCHANGED <<files, moved, store, command, built>>
  BY DEF ExpireLease, repository, cache, counters
<1>2. ASSUME NEW r \in Readers, reader'[r] # reader[r] PROVE Watches(r)' /\ Matched(r)' /\ Answered(r)'
  <2> DEFINE c == [reader[r] EXCEPT !.held = FALSE]
  <2>1. reader'[r] = c /\ reader[r] \in ReaderStates
    BY <1>2, Numbers DEF ExpireLease, TypeOK
  <2>2. c.pc = reader[r].pc /\ c.corpus = reader[r].corpus /\ c.held = FALSE
    BY <2>1 DEF ReaderStates
  <2> HIDE DEF c
  <2> QED
    BY <1>1, <2>1, <2>2 DEF SearchInv, Watches, StandsAs, Matched, Answered, HeldBy
<1> QED
  BY <1>1, <1>2, OtherTold

LEMMA QuietTold ==
    ASSUME CacheInv, SearchInv, ChangePolicy \/ ExpireLock \/ UNCHANGED vars PROVE SearchInv'
<1>1. UNCHANGED <<files, moved, store, command, built, reader>>
  BY DEF ChangePolicy, ExpireLock, vars, repository, cache, counters
<1> QED
  BY <1>1, OtherTold

LEMMA NextTold == CacheInv /\ CacheInv' /\ SearchInv /\ [Next]_vars => SearchInv'
<1> SUFFICES ASSUME CacheInv, CacheInv', SearchInv, [Next]_vars PROVE SearchInv'
  OBVIOUS
<1>1. CASE EditSource \/ ChangePolicy \/ ExpireLock \/ UNCHANGED vars
  BY <1>1, EditTold, QuietTold
<1>2. ASSUME NEW i \in Commands,
             Build(i) \/ Clear(i) \/ Release(i) \/ LoseFence(i) \/ CrashCommand(i)
      PROVE  SearchInv'
  BY <1>2, CommandStepTold
<1>3. ASSUME NEW r \in Readers, Search(r) \/ CrashReader(r) PROVE SearchInv'
  BY <1>3, LookTold, AcquireTold, SearchEndTold, OpenManifestTold, ReadChunksTold, ReadGraphsTold
  DEF Search
<1>4. ASSUME NEW g \in Generations, ExpireLease(g) PROVE SearchInv'
  BY <1>4, ExpireLeaseTold
<1> QED
  BY <1>1, <1>2, <1>3, <1>4 DEF Next

LEMMA InitTold == Init => SearchInv
<1> SUFFICES ASSUME Init PROVE SearchInv
  OBVIOUS
<1>1. \A i \in Commands : command[i].pc = "idle"
  BY DEF Init, NoCommand
<1>2. \A r \in Readers : reader[r].pc = "idle" /\ reader[r].held = FALSE
  BY DEF Init, NoReader
<1>3. GraphsStand
  BY DEF Init, EmptyStore, GraphsStand
<1> QED
  BY <1>1, <1>2, <1>3 DEF SearchInv, Stands, Watches, Matched, Answered, HeldBy, Snapped, Building,
     Staging, Finished, Collecting, Looking

LEMMA SearchInvariant == Spec => [](CacheInv /\ SearchInv)
<1>1. Init => CacheInv /\ SearchInv
  BY InitCache, InitTold
<1>2. CacheInv /\ SearchInv /\ [Next]_vars => (CacheInv /\ SearchInv)'
  BY NextKept, NextTold
<1> QED
  BY <1>1, <1>2, PTL DEF Spec

-----------------------------------------------------------------------------
(* The theorems.                                                            *)

\* Every variable of the cache, of the commands and of the searches keeps to its
\* type and bound; in particular a lease never counts more than the searches
\* there are and the crashes there were (_acquire_lease, _release_lease).
THEOREM CacheTypes == Spec => []TypeOK
<1>1. CacheInv => TypeOK
  BY DEF CacheInv
<1> QED
  BY <1>1, CacheInvariant, PTL

\* Without any assumption on policies, edits, locks, leases or crashes: each
\* record in the cache belongs to a registered generation, so a collection or a
\* clear can still remove it (_register, _collect_garbage, clear).
THEOREM NothingOrphaned == Spec => []Owned
<1>1. CacheInv => Owned
  BY DEF CacheInv, Registered
<1> QED
  BY <1>1, CacheInvariant, PTL

\* With no assumption either: the active pointer names a registered, complete
\* generation, so the refusal of clear for any other pointer is never what two
\* indexers or a crash bring about (clear, _activate).
THEOREM PointerIsComplete == Spec => []ActiveIsComplete
<1>1. CacheInv => ActiveIsComplete
  BY DEF CacheInv, Registered, Serves, Secured, ActiveIsComplete
<1> QED
  BY <1>1, CacheInvariant, PTL

\* The active generation has its manifest and every record in the cache, whatever
\* indexers, clears, expired locks and crashes do, if the index policy does not
\* change while a command runs (_activate, _collect_garbage, clear).
THEOREM ActiveIsWhole == ASSUME CalmPolicy PROVE Spec => []ActivePresent
<1>1. CacheInv => ActivePresent
  BY DEF CacheInv, Registered, Serves, Secured, ActivePresent
<1> QED
  BY <1>1, CacheInvariant, PTL

\* Under one policy a collection leaves the newest generations whole, although
\* they share records with the ones it removes (_collect_garbage).
THEOREM RetainedAreWhole == ASSUME SamePolicy PROVE Spec => []RetainedPresent
<1>1. CacheInv => RetainedPresent
  BY DEF CacheInv, Registered
<1> QED
  BY <1>1, CacheInvariant, PTL

\* Under one policy a search keeps the generation whose lease it holds, if no search
\* outlives its lease (or there is one at most, so that it gives back no lease but its
\* own): neither a collection nor a clear takes a record of it (generation_reader).
THEOREM LeasedAreWhole == ASSUME SamePolicy, LastingLeases PROVE Spec => []LeasedPresent
<1>1. CacheInv => LeasedPresent
  BY DEF CacheInv, Registered, Secured, Complete, LeasedPresent, LeasesHold, HeldBy
<1> QED
  BY <1>1, CacheInvariant, PTL

\* Under one policy, and with the same assumption on leases: a search whose lease holds
\* finds every record, and is refused only for a chunk that an edit left as it was, after
\* a later build has begun, or for a link to a path that has come or gone (search).
THEOREM SearchesAreWhole == ASSUME SamePolicy, LastingLeases PROVE Spec => []RefusalsHaveCause
<1>1. CacheInv /\ SearchInv => RefusalsHaveCause
  BY DEF SearchInv, Answered, RefusalsHaveCause, LeasesHold, HeldBy
<1> QED
  BY <1>1, SearchInvariant, PTL

\* If the index policy does not change while a command runs, a generation that status
\* calls fresh has what a search reads, until another build begins: its records, its
\* chunks, and its graphs but for links to paths that have come or gone (status, search).
THEOREM FreshIsServable == ASSUME CalmPolicy PROVE Spec => []FreshServable
<1>1. CacheInv /\ SearchInv => FreshServable
  <2> SUFFICES ASSUME CacheInv, SearchInv, active = built, Loadable(active),
                      store[ManifestKey(active)].files = files
               PROVE  LET c == store[ManifestKey(active)]
                      IN  /\ RecordKeys(c) \subseteq DOMAIN store /\ ChunksMatch(c)
                          /\ \A key \in GraphKeys(c) :
                                 Relinked(key) \/ store[key] = GraphPayload(c, key)
    BY DEF FreshServable
  <2> DEFINE c == store[ManifestKey(active)]
  <2>1. active # None /\ Serves(active)
    BY Numbers, Constants DEF CacheInv, Registered
  <2>2. PICK e \in registry : e.generation = active /\ Present(e) /\ e.corpus \in Corpora
    BY <2>1, EntryTyped, Numbers DEF Serves, Secured, Complete, TypeOK
  <2>3. c = e.corpus /\ RecordKeys(c) \subseteq DOMAIN store /\ ChunksMatch(c)
    BY <2>1, <2>2 DEF Present, EntryKeys, Serves
  <2>4. StandsAs(c.files)
    BY DEF StandsAs
  <2>5. ASSUME NEW key \in GraphKeys(c), ~Relinked(key) PROVE store[key] = GraphPayload(c, key)
    <3>1. store[key] = LinksOf[key[3]] \cap Standing
      BY <2>2, <2>3, <2>5 DEF SearchInv, GraphsStand, RecordKeys
    <3> QED
      BY <2>2, <2>3, <2>4, <2>5, <3>1, GraphOfStanding
  <2> QED
    BY <2>3, <2>5
<1> QED
  BY <1>1, SearchInvariant, PTL

=============================================================================

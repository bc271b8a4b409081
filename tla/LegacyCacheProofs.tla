------------------------- MODULE LegacyCacheProofs -------------------------
(***************************************************************************)
(* What the old cache keeps to, for any commands, sources, crashes and     *)
(* locks that expire.                                                      *)
(***************************************************************************)
EXTENDS LegacyCache, TLAPS

Switched == {"activated", "unchunked", "ungraphed", "collected"}
Described == {"described", "validated", "checked"}
Staging == {"registered", "writing"}
\* A build that has not switched yet, from its lock and from its plan on.
Planning == {"planned", "recorded"} \cup Staging \cup Described
Before == {"surveyed"} \cup Planning
Building == Before \cup Switched

\* What a build knows of itself, whatever others do.
Shape(i) ==
    /\ command[i].pc \in Building =>
           command[i].files \in Trees /\ command[i].generation \in 1..begun
    /\ command[i].pc \in Building /\ lock = i => command[i].generation = begun
    /\ command[i].pc \in Planning \cup Switched => command[i].plan \in AllManifests
    /\ command[i].pc \in Staging => command[i].writes \subseteq RecordsOf(command[i].plan)

\* Nobody works beside a command that is alone, or two while no overlap counts.
Apart ==
    /\ \A i, j \in Commands : i # j /\ command[i].alone => ~Working(j)
    /\ overlap # "now" => \A i, j \in Commands : Working(i) /\ Working(j) => i = j
Solo(i) == overlap # "now" \/ command[i].alone

\* A build that nobody disturbs has what it staged, and the pointer is not its own
\* until it switches.
Tracked(i) ==
    Solo(i) =>
        /\ command[i].pc = "planned" =>
               \A key \in RecordsOf(command[i].plan) :
                   key.kind = "graph" \/ key.build = command[i].generation \/ key \in records
        /\ command[i].pc \in Staging =>
               RecordsOf(command[i].plan) \subseteq records \cup command[i].writes
        /\ command[i].pc \in {"recorded"} \cup Described \cup Switched =>
               RecordsOf(command[i].plan) \subseteq records
        /\ command[i].pc \in Described \cup Switched =>
               manifests[command[i].generation] = command[i].plan
        /\ command[i].pc \in Before => active # command[i].generation
        /\ command[i].pc \in Switched /\ overlap # "now" => active = command[i].generation

\* What is in the registry before the old keys are deleted, and in Redis after.
Registered(i) ==
    overlap = "never" =>
        /\ command[i].pc \in {"surveyed", "planned", "wiping"} => registry \subseteq command[i].known
        /\ command[i].pc \in Staging \cup {"recorded"} \cup Described \cup Switched =>
               registry = command[i].known \cup OwnKeys(i)
        /\ command[i].pc = "ungraphed" => records \cap Doomed(i) = {}
        /\ command[i].pc = "collected" => InRedis \subseteq OwnKeys(i)
        /\ command[i].pc = "cleared" /\ command[i].alone => InRedis = {}

LegacyInv ==
    /\ TypeOK /\ Apart /\ ActiveWhole /\ Repairs /\ NothingOrphaned
    /\ active # None => active <= begun
    /\ \A i \in Commands : Shape(i) /\ Tracked(i) /\ Registered(i)

-----------------------------------------------------------------------------
(* Constants, keys and manifests.                                           *)

LEMMA Constants ==
    /\ MaxCommands \in Nat /\ MaxCrashes \in Nat /\ NoFile \notin Contents
    /\ None \notin Commands /\ None \notin Generations
    /\ Generations \subseteq Nat /\ 0 \in Generations
    /\ None \notin AllManifests
<1>1. AllManifests \subseteq [files : [Paths -> Contents \cup {NoFile}],
                              origin : [Paths -> 0..MaxCommands]]
  BY DEF AllManifests, Trees, Generations
<1> QED
  BY <1>1, LegacyAssumption DEF Generations

\* What a manifest names are chunks and graphs.
LEMMA RecordsTyped ==
    ASSUME NEW m \in AllManifests
    PROVE  RecordsOf(m) \subseteq Keys
<1>1. \A p \in Present(m.files) : p \in Paths /\ m.files[p] \in Contents /\ m.origin[p] \in Generations
  BY DEF AllManifests, Trees, Present
<1> QED
  BY <1>1 DEF RecordsOf, ChunksOf, GraphsOf, Keys

LEMMA KindOfKey ==
    /\ \A key \in Keys : key.kind \in {"chunk", "graph"}
    /\ \A g : ManifestKey(g).kind = "manifest" /\ ManifestKey(g).build = g
BY DEF Keys, ChunkKey, GraphKey, ManifestKey, Key

LEMMA KeysApart ==
    /\ \A g : ManifestKey(g) \notin Keys
    /\ \A g, h : ManifestKey(g) = ManifestKey(h) => g = h
    /\ Keys \subseteq AllKeys /\ \A g \in Generations : ManifestKey(g) \in AllKeys
<1>1. \A g : ManifestKey(g) \notin Keys
  BY KindOfKey
<1>2. \A g, h : ManifestKey(g) = ManifestKey(h) => g = h
  BY KindOfKey
<1> QED
  BY <1>1, <1>2 DEF AllKeys

LEMMA ManifestTyped ==
    ASSUME NEW f \in Trees, NEW origin \in [Paths -> Generations]
    PROVE  Manifest(f, origin) \in AllManifests
BY DEF Manifest, AllManifests

LEMMA ActiveTyped ==
    ASSUME TypeOK
    PROVE  ActiveManifest \in AllManifests \cup {None} /\ ActiveKeys \subseteq AllKeys
<1>1. ActiveManifest \in AllManifests \cup {None}
  BY DEF TypeOK, ActiveManifest
<1>2. ActiveKeys \subseteq AllKeys
  BY <1>1, RecordsTyped, KeysApart DEF ActiveKeys, ActiveManifest, TypeOK
<1> QED
  BY <1>1, <1>2

LEMMA OwnTyped ==
    ASSUME LegacyInv, NEW i \in Commands, command[i].pc \in Planning \cup Switched
    PROVE  /\ OwnKeys(i) \subseteq AllKeys /\ RecordsOf(command[i].plan) \subseteq Keys
           /\ command[i].plan \in AllManifests /\ command[i].plan # None
           /\ command[i].generation \in Generations /\ command[i].generation # 0
<1>1. command[i].plan \in AllManifests /\ command[i].generation \in 1..begun
  BY DEF LegacyInv, Shape, Building, Before
<1>2. command[i].generation \in Generations /\ command[i].generation # 0
  BY <1>1, Constants DEF LegacyInv, TypeOK, Generations
<1> QED
  BY <1>1, <1>2, RecordsTyped, KeysApart, Constants DEF OwnKeys

\* The manifests in Redis, by their keys.
LEMMA InRedisIs ==
    /\ \A key \in InRedis : key \in records \/ \E g \in Generations : manifests[g] # None /\ key = ManifestKey(g)
    /\ records \subseteq InRedis
    /\ \A g \in Generations : manifests[g] # None => ManifestKey(g) \in InRedis
BY DEF InRedis

-----------------------------------------------------------------------------
(* Steps of a command at work.                                              *)

\* A command goes on, and its own part of the invariant holds after.
LEMMA WorkStep ==
    ASSUME LegacyInv, NEW i \in Commands, Working(i),
           command' = [command EXCEPT ![i] = command'[i]], command'[i] \in CommandStates,
           command'[i].alone = command[i].alone,
           UNCHANGED <<files, lock, counters>>,
           overlap' = overlap \/ (overlap' = "mended" /\ command[i].alone),
           records' \subseteq Keys, registry' \subseteq AllKeys,
           manifests' \in [Generations -> AllManifests \cup {None}],
           active' \in Generations \cup {None}, active' # None => active' <= begun,
           Shape(i)', Tracked(i)', Registered(i)', ActiveWhole',
           overlap' = "never" => InRedis' \subseteq registry',
           command'[i].pc = "refused" => ~command[i].alone
    PROVE  LegacyInv'
<1>1. /\ command' \in [Commands -> CommandStates]
      /\ \A j \in Commands \ {i} : command'[j] = command[j]
  BY DEF LegacyInv, TypeOK
<1>2. \A j \in Commands : (Working(j)' => Working(j)) /\ command'[j].alone = command[j].alone
  BY <1>1 DEF Working
<1>3. TypeOK'
  BY <1>1 DEF LegacyInv, TypeOK, counters
<1>4. Apart'
  BY <1>2 DEF LegacyInv, Apart
<1>5. ASSUME NEW j \in Commands, j # i
      PROVE  /\ ~command[j].alone
             /\ overlap' # "now" => ~Working(j)
  BY <1>5 DEF LegacyInv, Apart
<1>6. ASSUME NEW j \in Commands, j # i PROVE Shape(j)'
  <2>1. command'[j] = command[j] /\ Shape(j)
    BY <1>1, <1>6 DEF LegacyInv
  <2> QED
    BY <2>1 DEF Shape, counters
<1>7. ASSUME NEW j \in Commands, j # i PROVE Tracked(j)' /\ Registered(j)'
  <2>1. command'[j] = command[j] /\ ~command[j].alone /\ (overlap' # "now" => ~Working(j))
    BY <1>1, <1>5, <1>7
  <2>2. ~Working(j) => command[j].pc \notin Building \cup {"wiping"}
    BY DEF Working, Harmless, Ending, Building, Before, Planning, Staging, Described, Switched
  <2>3. Tracked(j)'
    BY <2>1, <2>2 DEF Tracked, Solo, Building, Before, Planning
  <2>4. Registered(j)'
    BY <2>1, <2>2 DEF Registered, Building, Before, Planning, Switched
  <2> QED
    BY <2>3, <2>4
<1>8. Repairs'
  BY <1>1 DEF LegacyInv, Repairs, At
<1>9. NothingOrphaned'
  <2>1. ASSUME NEW j \in Commands, command'[j].pc = "cleared", command'[j].alone, overlap' = "never"
        PROVE  InRedis' = {}
    <3>1. j = i
      BY <1>1, <1>5, <2>1
    <3> QED
      BY <2>1, <3>1 DEF Registered
  <2> QED
    BY <2>1 DEF NothingOrphaned, At
<1> QED
  BY <1>3, <1>4, <1>6, <1>7, <1>8, <1>9 DEF LegacyInv, counters

\* A change of the pc leaves the rest of a command.
LEMMA GoesTo ==
    ASSUME LegacyInv, NEW i \in Commands, NEW pc \in CommandPCs, Goes(i, pc)
    PROVE  /\ command' = [command EXCEPT ![i] = command'[i]]
           /\ command'[i] \in CommandStates /\ command'[i].pc = pc
           /\ command'[i].alone = command[i].alone
           /\ command'[i].generation = command[i].generation
           /\ command'[i].files = command[i].files /\ command'[i].plan = command[i].plan
           /\ command'[i].known = command[i].known /\ command'[i].writes = command[i].writes
<1>1. command[i] \in CommandStates /\ command' = [command EXCEPT ![i].pc = pc]
  BY DEF LegacyInv, TypeOK, Goes
<1>2. command'[i] = [command[i] EXCEPT !.pc = pc]
  BY <1>1 DEF LegacyInv, TypeOK
<1>3. [command EXCEPT ![i].pc = pc] = [command EXCEPT ![i] = command'[i]]
  BY <1>1, <1>2 DEF LegacyInv, TypeOK
<1> QED
  BY <1>1, <1>2, <1>3 DEF CommandStates

\* What does not change Redis or the commands changes nothing about the active
\* generation.
LEMMA CacheSame ==
    ASSUME LegacyInv, UNCHANGED <<cache, overlap>>
    PROVE  /\ ActiveWhole' /\ InRedis' = InRedis /\ (overlap' = "never" => InRedis' \subseteq registry')
           /\ records' \subseteq Keys /\ registry' \subseteq AllKeys
           /\ manifests' \in [Generations -> AllManifests \cup {None}]
           /\ active' \in Generations \cup {None} /\ (active' # None => active' <= begun)
BY DEF LegacyInv, TypeOK, cache, ActiveWhole, Searchable, ActiveManifest, InRedis, NothingOrphaned

LEMMA ReadRecordsKept == ASSUME LegacyInv, NEW i \in Commands, ReadRecords(i) PROVE LegacyInv'
<1> DEFINE f == command[i].files
           g == command[i].generation
           old == command[i].old
           origin == [p \in Paths |-> IF Reusable(i, p) THEN old.origin[p] ELSE g]
           plan == Manifest(f, origin)
<1>1. /\ command[i].pc = "surveyed" /\ Working(i) /\ command[i] \in CommandStates
      /\ Shape(i) /\ Tracked(i) /\ Registered(i)
      /\ UNCHANGED <<files, cache, lock, overlap, counters>>
  BY DEF LegacyInv, TypeOK, ReadRecords, At, Working, Harmless, Ending
<1>2. f \in Trees /\ g \in 1..begun /\ g \in Generations /\ old \in AllManifests \cup {None}
      /\ (lock = i => g = begun)
  BY <1>1, Constants DEF Shape, Building, Before, LegacyInv, TypeOK, Generations, CommandStates
<1>3. plan \in AllManifests
  <2>1. origin \in [Paths -> Generations]
    BY <1>2 DEF Reusable, AllManifests
  <2> QED
    BY <1>2, <2>1, ManifestTyped
<1>4. \A key \in RecordsOf(plan) : key.kind = "graph" \/ key.build = g \/ key \in records
  <2> DEFINE chunk(p) == ChunkKey(p, f[p], IF Reusable(i, p) THEN old.origin[p] ELSE g)
  <2>1. \A key \in RecordsOf(plan) :
            (\E p \in Present(f) : key = chunk(p)) \/ \E p \in Present(f) : key = GraphKey(p, f[p])
    BY DEF RecordsOf, ChunksOf, GraphsOf, Manifest, Present
  <2>2. \A p : GraphKey(p, f[p]).kind = "graph"
    BY DEF GraphKey, Key
  <2>3. ASSUME NEW p \in Present(f) PROVE chunk(p).build = g \/ chunk(p) \in records
    <3>1. CASE Reusable(i, p)
      BY <3>1 DEF Reusable
    <3>2. CASE ~Reusable(i, p)
      BY <3>2 DEF ChunkKey, Key
    <3> QED
      BY <3>1, <3>2
  <2> HIDE DEF chunk
  <2> QED
    BY <2>1, <2>2, <2>3
<1> DEFINE c == [command[i] EXCEPT !.pc = "planned", !.old = None, !.plan = plan]
<1>5. command' = [command EXCEPT ![i] = c]
  BY DEF ReadRecords
<1> HIDE DEF plan
<1>6. /\ c \in CommandStates /\ c.pc = "planned" /\ c.plan = plan /\ c.generation = g /\ c.files = f
      /\ c.known = command[i].known /\ c.alone = command[i].alone
  BY <1>1, <1>3 DEF CommandStates, CommandPCs
<1> HIDE DEF c
<1>7. command'[i] = c
  BY <1>5 DEF LegacyInv, TypeOK
<1>8. UNCHANGED <<records, manifests, registry, active, begun>>
  BY <1>1 DEF cache, counters
<1>9. Shape(i)'
  BY <1>1, <1>2, <1>3, <1>6, <1>7, <1>8 DEF Shape, Staging
<1>10. Tracked(i)'
  BY <1>1, <1>4, <1>6, <1>7, <1>8
  DEF Tracked, Solo, Staging, Described, Switched, Before, Planning
<1>11. Registered(i)'
  BY <1>1, <1>6, <1>7, <1>8 DEF Registered, Staging, Described, Switched
<1> QED
  BY <1>1, <1>5, <1>6, <1>7, <1>9, <1>10, <1>11, CacheSame, WorkStep

LEMMA RegisterKept == ASSUME LegacyInv, NEW i \in Commands, Register(i) PROVE LegacyInv'
<1> DEFINE missing == Missing(i)
           c == [command[i] EXCEPT !.pc = "registered", !.writes = missing]
<1>1. /\ command[i].pc = "planned" /\ Working(i) /\ command[i] \in CommandStates
      /\ Shape(i) /\ Tracked(i) /\ Registered(i)
      /\ UNCHANGED <<files, records, manifests, active, lock, overlap, counters>>
      /\ registry' = command[i].known \cup OwnKeys(i)
      /\ command' = [command EXCEPT ![i] = c]
  BY DEF LegacyInv, TypeOK, Register, At, Working, Harmless, Ending
<1>2. /\ OwnKeys(i) \subseteq AllKeys /\ RecordsOf(command[i].plan) \subseteq Keys
  BY <1>1, OwnTyped DEF Planning
<1>3. /\ missing \subseteq RecordsOf(command[i].plan)
      /\ Solo(i) => RecordsOf(command[i].plan) \subseteq records \cup missing
  BY <1>1 DEF Missing, Tracked
<1> HIDE DEF missing
<1>4. missing \in SUBSET Keys
  BY <1>2, <1>3
<1>5. /\ c \in CommandStates /\ c.pc = "registered" /\ c.plan = command[i].plan
      /\ c.generation = command[i].generation /\ c.files = command[i].files
      /\ c.known = command[i].known /\ c.alone = command[i].alone /\ c.writes = missing
  BY <1>1, <1>4 DEF CommandStates, CommandPCs
<1> HIDE DEF c
<1>6. command'[i] = c
  BY <1>1 DEF LegacyInv, TypeOK
<1>7. registry' \subseteq AllKeys /\ UNCHANGED begun
  BY <1>1, <1>2 DEF CommandStates, counters
<1>8. Shape(i)'
  BY <1>1, <1>3, <1>5, <1>6, <1>7 DEF Shape, Building, Before, Planning, Staging
<1>9. Tracked(i)'
  BY <1>1, <1>3, <1>5, <1>6
  DEF Tracked, Solo, Staging, Described, Switched, Before, Planning
<1>10. OwnKeys(i)' = OwnKeys(i)
  BY <1>5, <1>6 DEF OwnKeys
<1>11. Registered(i)'
  BY <1>1, <1>5, <1>6, <1>10 DEF Registered
<1>12. ActiveWhole'
  BY <1>1 DEF LegacyInv, ActiveWhole, Searchable, ActiveManifest
<1>13. overlap' = "never" => InRedis' \subseteq registry'
  BY <1>1 DEF LegacyInv, NothingOrphaned, InRedis, Registered
<1> QED
  BY <1>1, <1>5, <1>6, <1>7, <1>8, <1>9, <1>11, <1>12, <1>13, WorkStep DEF LegacyInv, TypeOK

\* Steps that change the pc only.
LEMMA QuietStep ==
    ASSUME LegacyInv, NEW i \in Commands, Working(i), NEW pc \in CommandPCs, Goes(i, pc),
           UNCHANGED <<files, cache, lock, overlap, counters>>,
           Shape(i)', Tracked(i)', Registered(i)', pc = "refused" => ~command[i].alone
    PROVE  LegacyInv'
BY GoesTo, CacheSame, WorkStep

LEMMA RefreshKept == ASSUME LegacyInv, NEW i \in Commands, Refresh(i) PROVE LegacyInv'
<1>1. /\ command[i].pc = "registered" /\ Working(i) /\ Shape(i) /\ Tracked(i) /\ Registered(i)
      /\ UNCHANGED <<files, cache, lock, overlap, counters>> /\ Goes(i, "writing")
      /\ "writing" \in CommandPCs
  BY DEF LegacyInv, Refresh, At, Working, Harmless, Ending, CommandPCs
<1>2. UNCHANGED <<records, manifests, registry, active, begun>>
  BY <1>1 DEF cache, counters
<1>3. Shape(i)'
  BY <1>1, <1>2, GoesTo DEF Shape, Building, Before, Planning, Staging
<1>4. Tracked(i)'
  BY <1>1, <1>2, GoesTo DEF Tracked, Solo, Staging, Described, Switched, Before, Planning
<1>5. OwnKeys(i)' = OwnKeys(i)
  BY <1>1, GoesTo DEF OwnKeys
<1>6. Registered(i)'
  BY <1>1, <1>2, <1>5, GoesTo DEF Registered, Staging
<1> QED
  BY <1>1, <1>3, <1>4, <1>6, QuietStep


LEMMA WriteRecordsKept == ASSUME LegacyInv, NEW i \in Commands, WriteRecords(i) PROVE LegacyInv'
<1> DEFINE c == [command[i] EXCEPT !.pc = "recorded", !.writes = {}]
<1>1. /\ command[i].pc = "writing" /\ Working(i) /\ command[i] \in CommandStates
      /\ Shape(i) /\ Tracked(i) /\ Registered(i)
      /\ UNCHANGED <<files, manifests, registry, active, lock, overlap, counters>>
      /\ records' = records \cup command[i].writes
      /\ command' = [command EXCEPT ![i] = c]
  BY DEF LegacyInv, TypeOK, WriteRecords, At, Working, Harmless, Ending
<1>2. /\ RecordsOf(command[i].plan) \subseteq Keys
      /\ command[i].writes \subseteq RecordsOf(command[i].plan)
  BY <1>1, OwnTyped DEF Planning, Staging, Shape
<1>3. /\ c \in CommandStates /\ c.pc = "recorded" /\ c.plan = command[i].plan
      /\ c.generation = command[i].generation /\ c.files = command[i].files
      /\ c.known = command[i].known /\ c.alone = command[i].alone
  BY <1>1 DEF CommandStates, CommandPCs
<1> HIDE DEF c
<1>4. command'[i] = c /\ UNCHANGED begun
  BY <1>1 DEF LegacyInv, TypeOK, counters
<1>5. Shape(i)'
  BY <1>1, <1>3, <1>4 DEF Shape, Building, Before, Planning, Staging
<1>6. Tracked(i)'
  BY <1>1, <1>3, <1>4 DEF Tracked, Solo, Staging, Described, Switched, Before, Planning
<1>7. OwnKeys(i)' = OwnKeys(i)
  BY <1>3, <1>4 DEF OwnKeys
<1>8. Registered(i)'
  BY <1>1, <1>3, <1>4, <1>7 DEF Registered, Staging
<1>9. ActiveWhole'
  BY <1>1 DEF LegacyInv, ActiveWhole, Searchable, ActiveManifest
<1>10. ASSUME overlap' = "never" PROVE InRedis' \subseteq registry'
  <2>1. InRedis' = InRedis \cup command[i].writes
    BY <1>1 DEF InRedis
  <2>2. InRedis \subseteq registry /\ OwnKeys(i) \subseteq registry
    BY <1>1, <1>10 DEF LegacyInv, NothingOrphaned, Registered, Staging
  <2> QED
    BY <1>1, <1>2, <2>1, <2>2 DEF OwnKeys
<1> QED
  BY <1>1, <1>2, <1>3, <1>4, <1>5, <1>6, <1>8, <1>9, <1>10, WorkStep DEF LegacyInv, TypeOK

\* A build writes its manifest beside the active one.
LEMMA WriteManifestKept == ASSUME LegacyInv, NEW i \in Commands, WriteManifest(i) PROVE LegacyInv'
<1> DEFINE g == command[i].generation
           plan == command[i].plan
<1>1. /\ command[i].pc = "recorded" /\ Working(i)
      /\ Shape(i) /\ Tracked(i) /\ Registered(i) /\ "described" \in CommandPCs
      /\ UNCHANGED <<files, records, registry, active, lock, overlap, counters>>
      /\ manifests' = [manifests EXCEPT ![g] = plan] /\ Goes(i, "described")
  BY DEF LegacyInv, WriteManifest, At, Working, Harmless, Ending, CommandPCs
<1>2. g \in Generations /\ plan \in AllManifests
  BY <1>1, OwnTyped DEF Planning
<1>3. /\ manifests' \in [Generations -> AllManifests \cup {None}] /\ manifests'[g] = plan
      /\ \A h \in Generations : h # g => manifests'[h] = manifests[h]
  BY <1>1, <1>2 DEF LegacyInv, TypeOK
<1>4. UNCHANGED begun
  BY <1>1 DEF counters
<1>5. Shape(i)'
  BY <1>1, <1>4, GoesTo DEF Shape, Building, Before, Planning, Staging, Described, Switched
<1>6. Tracked(i)'
  BY <1>1, <1>3, GoesTo DEF Tracked, Solo, Staging, Described, Switched, Before, Planning
<1>7. OwnKeys(i)' = OwnKeys(i)
  BY <1>1, GoesTo DEF OwnKeys
<1>8. Registered(i)'
  BY <1>1, <1>7, GoesTo DEF Registered, Staging, Described, Switched
<1>9. ActiveWhole'
  <2>1. overlap # "now" => active # g
    BY <1>1 DEF Tracked, Solo, Before, Planning
  <2>2. active \in Generations \cup {None}
    BY DEF LegacyInv, TypeOK
  <2>3. overlap # "now" /\ active # None => manifests'[active] = manifests[active]
    BY <1>3, <2>1, <2>2
  <2> QED
    BY <1>1, <2>3 DEF LegacyInv, ActiveWhole, Searchable, ActiveManifest
<1>10. ASSUME overlap' = "never" PROVE InRedis' \subseteq registry'
  <2>1. InRedis' \subseteq InRedis \cup {ManifestKey(g)}
    BY <1>1, <1>3 DEF InRedis
  <2>2. InRedis \subseteq registry /\ OwnKeys(i) \subseteq registry
    BY <1>1, <1>10 DEF LegacyInv, NothingOrphaned, Registered
  <2> QED
    BY <1>1, <2>1, <2>2 DEF OwnKeys
<1> QED
  BY <1>1, <1>3, <1>5, <1>6, <1>8, <1>9, <1>10, GoesTo, WorkStep DEF LegacyInv, TypeOK, counters

\* A build that is alone is not refused: nobody deletes what it found or wrote.
LEMMA ValidateKept == ASSUME LegacyInv, NEW i \in Commands, Validate(i) PROVE LegacyInv'
<1> DEFINE pc == IF RecordsOf(command[i].plan) \subseteq records THEN "validated" ELSE "refused"
<1>1. /\ command[i].pc = "described" /\ Working(i) /\ Shape(i) /\ Tracked(i) /\ Registered(i)
      /\ UNCHANGED <<files, cache, lock, overlap, counters>> /\ Goes(i, pc)
      /\ pc \in CommandPCs /\ pc \in {"validated", "refused"}
  BY DEF LegacyInv, Validate, At, Working, Harmless, Ending, CommandPCs
<1>2. UNCHANGED <<records, manifests, registry, active, begun>>
  BY <1>1 DEF cache, counters
<1>3. pc = "refused" => ~command[i].alone
  BY <1>1 DEF Tracked, Solo, Described
<1> HIDE DEF pc
<1>4. Shape(i)'
  BY <1>1, <1>2, GoesTo DEF Shape, Building, Before, Planning, Staging, Described, Switched
<1>5. Tracked(i)'
  BY <1>1, <1>2, GoesTo DEF Tracked, Solo, Staging, Described, Switched, Before, Planning
<1>6. OwnKeys(i)' = OwnKeys(i)
  BY <1>1, GoesTo DEF OwnKeys
<1>7. Registered(i)'
  BY <1>1, <1>2, <1>6, GoesTo DEF Registered, Staging, Described, Switched
<1> QED
  BY <1>1, <1>3, <1>4, <1>5, <1>7, QuietStep

LEMMA CheckSourcesKept == ASSUME LegacyInv, NEW i \in Commands, CheckSources(i) PROVE LegacyInv'
<1> DEFINE pc == IF files = command[i].files THEN "checked" ELSE "releasing"
<1>1. /\ command[i].pc = "validated" /\ Working(i) /\ Shape(i) /\ Tracked(i) /\ Registered(i)
      /\ UNCHANGED <<files, cache, lock, overlap, counters>> /\ Goes(i, pc)
      /\ pc \in CommandPCs /\ pc \in {"checked", "releasing"}
  BY DEF LegacyInv, CheckSources, At, Working, Harmless, Ending, CommandPCs
<1> HIDE DEF pc
<1>2. UNCHANGED <<records, manifests, registry, active, begun>>
  BY <1>1 DEF cache, counters
<1>3. Shape(i)'
  BY <1>1, <1>2, GoesTo DEF Shape, Building, Before, Planning, Staging, Described, Switched
<1>4. Tracked(i)'
  BY <1>1, <1>2, GoesTo DEF Tracked, Solo, Staging, Described, Switched, Before, Planning
<1>5. OwnKeys(i)' = OwnKeys(i)
  BY <1>1, GoesTo DEF OwnKeys
<1>6. Registered(i)'
  BY <1>1, <1>2, <1>5, GoesTo DEF Registered, Staging, Described, Switched
<1> QED
  BY <1>1, <1>3, <1>4, <1>6, QuietStep

\* The switch: to a whole generation, if the build has run undisturbed.
LEMMA ActivateKept == ASSUME LegacyInv, NEW i \in Commands, Activate(i) PROVE LegacyInv'
<1>1. /\ command[i].pc = "checked" /\ Working(i) /\ Shape(i) /\ Tracked(i) /\ Registered(i)
      /\ UNCHANGED <<files, records, manifests, registry, lock, counters>>
      /\ Goes(i, "activated") /\ "activated" \in CommandPCs
      /\ active' = command[i].generation
      /\ overlap' = IF overlap = "now" /\ command[i].alone THEN "mended" ELSE overlap
  BY DEF LegacyInv, Activate, At, Working, Harmless, Ending, CommandPCs
<1>2. /\ command[i].generation \in Generations /\ command[i].generation \in 1..begun
      /\ command[i].plan # None
  BY <1>1, OwnTyped DEF Planning, Described, Shape, Building, Before
<1>3. command[i].generation # None /\ command[i].generation <= begun
  BY <1>2, Constants DEF LegacyInv, TypeOK
<1>4. /\ overlap' # "now" => Solo(i)
      /\ overlap' = "never" => overlap = "never"
  BY <1>1 DEF Solo
<1>5. Solo(i) => /\ RecordsOf(command[i].plan) \subseteq records
                 /\ manifests[command[i].generation] = command[i].plan
  BY <1>1 DEF Tracked, Described
<1>6. UNCHANGED begun
  BY <1>1 DEF counters
<1>7. Shape(i)'
  BY <1>1, <1>6, GoesTo DEF Shape, Building, Before, Planning, Staging, Described, Switched
<1>8. Tracked(i)'
  <2>1. Solo(i)' => Solo(i)
    BY <1>1, <1>4, GoesTo DEF Solo
  <2> QED
    BY <1>1, <1>5, <2>1, GoesTo DEF Tracked, Staging, Described, Switched, Before, Planning
<1>9. OwnKeys(i)' = OwnKeys(i)
  BY <1>1, GoesTo DEF OwnKeys
<1>10. Registered(i)'
  BY <1>1, <1>4, <1>9, GoesTo DEF Registered, Staging, Described, Switched
<1>11. ActiveWhole'
  BY <1>1, <1>2, <1>3, <1>4, <1>5 DEF ActiveWhole, Searchable, ActiveManifest
<1>12. overlap' = "never" => InRedis' \subseteq registry'
  BY <1>1, <1>4 DEF LegacyInv, NothingOrphaned, InRedis
<1>13. overlap' = overlap \/ (overlap' = "mended" /\ command[i].alone)
  BY <1>1
<1> QED
  BY <1>1, <1>2, <1>3, <1>6, <1>7, <1>8, <1>10, <1>11, <1>12, <1>13, GoesTo, WorkStep
  DEF LegacyInv, TypeOK

-----------------------------------------------------------------------------
(* Collection.                                                              *)

\* Collection takes away nothing of the new generation.
LEMMA CollectKept ==
    ASSUME LegacyInv, NEW i \in Commands, command[i].pc \in Switched,
           NEW pc \in {"unchunked", "ungraphed", "collected"}, Goes(i, pc),
           UNCHANGED <<files, registry, active, lock, overlap, counters>>,
           records' \subseteq records, records \ Doomed(i) \subseteq records',
           \A g \in Generations : manifests'[g] \in {manifests[g], None},
           \A g \in Generations : ManifestKey(g) \notin Doomed(i) => manifests'[g] = manifests[g],
           manifests' \in [Generations -> AllManifests \cup {None}],
           overlap = "never" /\ pc = "ungraphed" => records' \cap Doomed(i) = {},
           overlap = "never" /\ pc = "collected" => InRedis' \cap Doomed(i) = {}
    PROVE  LegacyInv'
<1> DEFINE g == command[i].generation
           plan == command[i].plan
<1>1. /\ Working(i) /\ Shape(i) /\ Tracked(i) /\ Registered(i)
      /\ pc \in CommandPCs /\ pc \in Switched /\ pc \notin {"surveyed", "wiping", "cleared", "refused"}
      /\ pc \notin Before
  BY DEF LegacyInv, Working, Harmless, Ending, CommandPCs, Switched, Before, Planning, Staging, Described
<1>2. UNCHANGED begun
  BY DEF counters
<1>3. g \in Generations /\ plan \in AllManifests /\ plan # None
  BY OwnTyped
<1>4. OwnKeys(i) \cap Doomed(i) = {}
  BY DEF Doomed
<1>5. Solo(i) => RecordsOf(plan) \subseteq records' /\ manifests'[g] = plan
  <2>1. Solo(i) => RecordsOf(plan) \subseteq records /\ manifests[g] = plan
    BY <1>1 DEF Tracked
  <2>2. RecordsOf(plan) \cap Doomed(i) = {} /\ ManifestKey(g) \notin Doomed(i)
    BY <1>4 DEF OwnKeys
  <2> QED
    BY <1>3, <2>1, <2>2
<1>6. Shape(i)'
  BY <1>1, <1>2, GoesTo DEF Shape, Building, Before, Planning, Staging, Described, Switched
<1>7. Tracked(i)'
  BY <1>1, <1>5, GoesTo DEF Tracked, Solo, Staging, Described, Switched, Before, Planning
<1>8. OwnKeys(i)' = OwnKeys(i) /\ Doomed(i)' = Doomed(i)
  BY <1>1, GoesTo DEF OwnKeys, Doomed
<1>9. InRedis' \subseteq InRedis
  BY DEF InRedis
<1>10. ASSUME overlap = "never" PROVE InRedis \subseteq registry /\ registry = command[i].known \cup OwnKeys(i)
  BY <1>1, <1>10 DEF LegacyInv, NothingOrphaned, Registered
<1>11. overlap = "never" /\ pc = "collected" => InRedis' \subseteq OwnKeys(i)
  BY <1>9, <1>10 DEF Doomed
<1>12. Registered(i)'
  BY <1>1, <1>8, <1>10, <1>11, GoesTo DEF Registered, Staging, Described, Switched
<1>13. ActiveWhole'
  <2>1. overlap # "now" => active = g
    BY <1>1 DEF Tracked, Solo
  <2> QED
    BY <1>3, <1>5, <2>1 DEF ActiveWhole, Searchable, ActiveManifest, Solo
<1>14. overlap' = "never" => InRedis' \subseteq registry'
  BY <1>9, <1>10
<1> QED
  BY <1>1, <1>2, <1>6, <1>7, <1>12, <1>13, <1>14, GoesTo, WorkStep DEF LegacyInv, TypeOK

LEMMA DeleteChunksKept == ASSUME LegacyInv, NEW i \in Commands, DeleteChunks(i) PROVE LegacyInv'
<1>1. /\ records' \subseteq records /\ records \ Doomed(i) \subseteq records'
      /\ UNCHANGED manifests /\ manifests \in [Generations -> AllManifests \cup {None}]
  BY DEF LegacyInv, TypeOK, DeleteChunks
<1>2. /\ command[i].pc \in Switched /\ Goes(i, "unchunked")
      /\ UNCHANGED <<files, registry, active, lock, overlap, counters>>
  BY DEF DeleteChunks, At, Switched
<1> QED
  BY <1>1, <1>2, CollectKept

LEMMA DeleteGraphsKept == ASSUME LegacyInv, NEW i \in Commands, DeleteGraphs(i) PROVE LegacyInv'
<1>1. /\ records' = records \ Doomed(i)
      /\ UNCHANGED manifests /\ manifests \in [Generations -> AllManifests \cup {None}]
  BY DEF LegacyInv, TypeOK, DeleteGraphs
<1>2. /\ command[i].pc \in Switched /\ Goes(i, "ungraphed")
      /\ UNCHANGED <<files, registry, active, lock, overlap, counters>>
  BY DEF DeleteGraphs, At, Switched
<1> QED
  BY <1>1, <1>2, CollectKept

\* What is left of the manifests when some keys are deleted.
LEMMA WithoutIs ==
    ASSUME LegacyInv, NEW keys, manifests' = Without(keys)
    PROVE  /\ manifests' \in [Generations -> AllManifests \cup {None}]
           /\ \A g \in Generations : manifests'[g] = IF ManifestKey(g) \in keys THEN None ELSE manifests[g]
BY DEF LegacyInv, TypeOK, Without

LEMMA DeleteManifestsKept == ASSUME LegacyInv, NEW i \in Commands, DeleteManifests(i) PROVE LegacyInv'
<1>1. /\ command[i].pc = "ungraphed" /\ command[i].pc \in Switched /\ Goes(i, "collected")
      /\ UNCHANGED <<files, records, registry, active, lock, overlap, counters>>
      /\ Registered(i) /\ manifests' = Without(Doomed(i))
  BY DEF LegacyInv, DeleteManifests, At, Switched
<1>2. /\ manifests' \in [Generations -> AllManifests \cup {None}]
      /\ \A g \in Generations :
             manifests'[g] = IF ManifestKey(g) \in Doomed(i) THEN None ELSE manifests[g]
  BY <1>1, WithoutIs
<1>3. overlap = "never" => InRedis' \cap Doomed(i) = {}
  BY <1>1, <1>2 DEF Registered, InRedis
<1> QED
  BY <1>1, <1>2, <1>3, CollectKept

LEMMA ShrinkRegistryKept == ASSUME LegacyInv, NEW i \in Commands, ShrinkRegistry(i) PROVE LegacyInv'
<1>1. /\ command[i].pc = "collected" /\ Working(i) /\ Registered(i)
      /\ UNCHANGED <<files, records, manifests, active, lock, overlap, counters>>
      /\ registry' = OwnKeys(i) /\ Goes(i, "releasing") /\ "releasing" \in CommandPCs
  BY DEF LegacyInv, ShrinkRegistry, At, Working, Harmless, Ending, CommandPCs
<1>2. OwnKeys(i) \subseteq AllKeys
  BY <1>1, OwnTyped DEF Switched
<1>3. Shape(i)' /\ Tracked(i)' /\ Registered(i)'
  BY <1>1, GoesTo
  DEF Shape, Tracked, Registered, Building, Before, Planning, Staging, Described, Switched
<1>4. ActiveWhole' /\ InRedis' = InRedis
  BY <1>1 DEF LegacyInv, ActiveWhole, Searchable, ActiveManifest, InRedis
<1>5. overlap' = "never" => InRedis' \subseteq registry'
  BY <1>1, <1>4 DEF Registered
<1>6. UNCHANGED begun
  BY <1>1 DEF counters
<1> QED
  BY <1>1, <1>2, <1>3, <1>4, <1>5, <1>6, GoesTo, WorkStep DEF LegacyInv, TypeOK

-----------------------------------------------------------------------------
(* Clearing.                                                                *)

LEMMA ReadKeysKept == ASSUME LegacyInv, NEW i \in Commands, ReadKeys(i) PROVE LegacyInv'
<1> DEFINE known == registry \cup ActiveKeys
           c == [command[i] EXCEPT !.pc = "wiping", !.known = known]
<1>1. /\ command[i].pc = "clearing" /\ Working(i) /\ command[i] \in CommandStates
      /\ UNCHANGED <<files, cache, lock, overlap, counters>>
      /\ command' = [command EXCEPT ![i] = c]
  BY DEF LegacyInv, TypeOK, ReadKeys, At, Working, Harmless, Ending
<1>2. known \subseteq AllKeys /\ registry \subseteq known
  BY ActiveTyped DEF LegacyInv, TypeOK
<1> HIDE DEF known
<1>3. c \in CommandStates /\ c.pc = "wiping" /\ c.known = known /\ c.alone = command[i].alone
  BY <1>1, <1>2 DEF CommandStates, CommandPCs
<1> HIDE DEF c
<1>4. command'[i] = c /\ UNCHANGED registry
  BY <1>1 DEF LegacyInv, TypeOK, cache
<1>5. Shape(i)' /\ Tracked(i)' /\ Registered(i)'
  BY <1>2, <1>3, <1>4
  DEF Shape, Tracked, Registered, Building, Before, Planning, Staging, Described, Switched
<1> QED
  BY <1>1, <1>3, <1>4, <1>5, CacheSame, WorkStep

\* One that nobody disturbs leaves nothing: it knows the whole registry.
LEMMA WipeKept == ASSUME LegacyInv, NEW i \in Commands, Wipe(i) PROVE LegacyInv'
<1> DEFINE c == [command[i] EXCEPT !.pc = "cleared", !.known = {}]
<1>1. /\ command[i].pc = "wiping" /\ Working(i) /\ command[i] \in CommandStates /\ Registered(i)
      /\ UNCHANGED <<files, lock, overlap, counters>>
      /\ records' = records \ command[i].known /\ manifests' = Without(command[i].known)
      /\ registry' = {} /\ active' = None
      /\ command' = [command EXCEPT ![i] = c]
  BY DEF LegacyInv, TypeOK, Wipe, At, Working, Harmless, Ending
<1>2. c \in CommandStates /\ c.pc = "cleared" /\ c.alone = command[i].alone
  BY <1>1 DEF CommandStates, CommandPCs
<1> HIDE DEF c
<1>3. command'[i] = c
  BY <1>1 DEF LegacyInv, TypeOK
<1>4. /\ manifests' \in [Generations -> AllManifests \cup {None}]
      /\ \A g \in Generations :
             manifests'[g] = IF ManifestKey(g) \in command[i].known THEN None ELSE manifests[g]
  BY <1>1, WithoutIs
<1>5. InRedis' = InRedis \ command[i].known
  BY <1>1, <1>4 DEF InRedis
<1>6. overlap = "never" => InRedis' = {}
  BY <1>1, <1>5 DEF LegacyInv, NothingOrphaned, Registered
<1>7. Shape(i)' /\ Tracked(i)' /\ Registered(i)'
  BY <1>1, <1>2, <1>3, <1>6
  DEF Shape, Tracked, Registered, Building, Before, Planning, Staging, Described, Switched
<1>8. ActiveWhole'
  BY <1>1 DEF ActiveWhole
<1> QED
  BY <1>1, <1>2, <1>3, <1>4, <1>6, <1>7, <1>8, WorkStep DEF LegacyInv, TypeOK

-----------------------------------------------------------------------------
(* Steps of the lock and of the world.                                      *)

\* A command that ends, whatever becomes of its lock.
LEMMA EndKept ==
    ASSUME LegacyInv, NEW i \in Commands, Ends(i), UNCHANGED <<files, cache, overlap, begun>>,
           lock' \in {lock, None}, crashes' \in 0..MaxCrashes
    PROVE  LegacyInv'
<1>1. /\ UNCHANGED <<records, manifests, registry, active>>
      /\ command' = [command EXCEPT ![i] = NoCommand]
      /\ NoCommand \in CommandStates /\ NoCommand.pc = "idle" /\ ~NoCommand.alone
  BY DEF cache, Ends, NoCommand, CommandStates, CommandPCs
<1>2. /\ command' \in [Commands -> CommandStates]
      /\ \A j \in Commands : command'[j] = IF j = i THEN NoCommand ELSE command[j]
  BY <1>1 DEF LegacyInv, TypeOK
<1>3. \A j \in Commands : (Working(j)' => Working(j)) /\ (command'[j].alone => command[j].alone)
  BY <1>1, <1>2 DEF Working, Harmless
<1>4. TypeOK' /\ Apart'
  BY <1>1, <1>2, <1>3 DEF LegacyInv, TypeOK, Apart
<1>5. ActiveWhole' /\ (active' # None => active' <= begun')
  BY <1>1 DEF LegacyInv, ActiveWhole, Searchable, ActiveManifest
<1>6. Repairs' /\ NothingOrphaned'
  BY <1>1, <1>2 DEF LegacyInv, Repairs, NothingOrphaned, At, InRedis
<1>7. ASSUME NEW j \in Commands PROVE Shape(j)' /\ Tracked(j)' /\ Registered(j)'
  <2>1. CASE j = i
    BY <1>1, <1>2, <2>1
    DEF Shape, Tracked, Registered, Building, Before, Planning, Staging, Described, Switched
  <2>2. CASE j # i
    <3>1. command'[j] = command[j] /\ Shape(j) /\ Tracked(j) /\ Registered(j)
      BY <1>2, <2>2 DEF LegacyInv
    <3>2. Shape(j)'
      BY <3>1, Constants DEF Shape
    <3>3. Tracked(j)'
      BY <1>1, <3>1 DEF Tracked, Solo
    <3>4. OwnKeys(j)' = OwnKeys(j) /\ Doomed(j)' = Doomed(j) /\ InRedis' = InRedis
      BY <1>1, <3>1 DEF OwnKeys, Doomed, InRedis
    <3>5. Registered(j)'
      BY <1>1, <3>1, <3>4 DEF Registered
    <3> QED
      BY <3>2, <3>3, <3>5
  <2> QED
    BY <2>1, <2>2
<1> QED
  BY <1>4, <1>5, <1>6, <1>7 DEF LegacyInv

LEMMA ReleaseKept == ASSUME LegacyInv, NEW i \in Commands, Release(i) PROVE LegacyInv'
BY EndKept DEF Release, LegacyInv, TypeOK, counters

LEMMA LoseLockKept == ASSUME LegacyInv, NEW i \in Commands, LoseLock(i) PROVE LegacyInv'
BY EndKept DEF LoseLock, LegacyInv, TypeOK, counters

LEMMA CrashKept == ASSUME LegacyInv, NEW i \in Commands, Crash(i) PROVE LegacyInv'
<1>1. crashes' \in 0..MaxCrashes
  BY Constants DEF Crash, LegacyInv, TypeOK
<1> QED
  BY <1>1, EndKept DEF Crash

\* The world changes, and no command.
LEMMA OutsideKept ==
    ASSUME LegacyInv, UNCHANGED <<cache, command, overlap, counters>>,
           files' \in Trees, lock' \in {lock, None}
    PROVE  LegacyInv'
<1>1. UNCHANGED <<records, manifests, registry, active, begun, crashes>>
  BY DEF cache, counters
<1>2. TypeOK' /\ Apart'
  BY <1>1 DEF LegacyInv, TypeOK, Apart, Working
<1>3. ActiveWhole' /\ Repairs' /\ NothingOrphaned' /\ (active' # None => active' <= begun')
  BY <1>1
  DEF LegacyInv, ActiveWhole, Searchable, ActiveManifest, Repairs, NothingOrphaned, At, InRedis
<1>4. ASSUME NEW j \in Commands PROVE Shape(j)' /\ Tracked(j)' /\ Registered(j)'
  <2>1. Shape(j) /\ Tracked(j) /\ Registered(j)
    BY DEF LegacyInv
  <2>2. OwnKeys(j)' = OwnKeys(j) /\ Doomed(j)' = Doomed(j) /\ InRedis' = InRedis
    BY <1>1 DEF OwnKeys, Doomed, InRedis
  <2>3. Shape(j)'
    BY <1>1, <2>1, Constants DEF Shape
  <2>4. Tracked(j)' /\ Registered(j)'
    BY <1>1, <2>1, <2>2 DEF Tracked, Solo, Registered
  <2> QED
    BY <2>3, <2>4
<1> QED
  BY <1>2, <1>3, <1>4 DEF LegacyInv

LEMMA EditSourceKept == ASSUME LegacyInv, EditSource PROVE LegacyInv'
<1>1. files' \in Trees
  BY LegacyAssumption DEF EditSource, LegacyInv, TypeOK, Trees
<1> QED
  BY <1>1, OutsideKept DEF EditSource

\* A command that starts is alone, or the others have lost that they are.
LEMMA LocksKept ==
    ASSUME LegacyInv, NEW i \in Commands, NEW first \in CommandStates, Locks(i, first),
           UNCHANGED <<files, cache, crashes>>, first.pc \in {"surveyed", "clearing"},
           first.pc = "surveyed" => /\ first.files \in Trees /\ first.generation = begun + 1
                                    /\ registry \subseteq first.known
    PROVE  LegacyInv'
<1> DEFINE mine == [first EXCEPT !.alone = ~Overlapped(i)]
           other(j) == [command[j] EXCEPT !.alone = FALSE]
<1>1. /\ UNCHANGED <<files, records, manifests, registry, active, crashes>>
      /\ begun' = begun + 1 /\ lock' = i /\ begun < MaxCommands /\ command[i].pc = "idle"
      /\ overlap' = IF Overlapped(i) THEN "now" ELSE overlap
      /\ command' = [j \in Commands |-> IF j = i THEN mine ELSE other(j)]
  BY DEF cache, Locks, At
<1>2. /\ mine \in CommandStates /\ mine.alone = ~Overlapped(i) /\ mine.pc = first.pc
      /\ mine.files = first.files /\ mine.generation = first.generation
      /\ mine.known = first.known
  BY DEF CommandStates, Overlapped
<1>3. ASSUME NEW j \in Commands
      PROVE  /\ other(j) \in CommandStates /\ ~other(j).alone /\ other(j).pc = command[j].pc
             /\ other(j).files = command[j].files /\ other(j).generation = command[j].generation
             /\ other(j).plan = command[j].plan /\ other(j).known = command[j].known
             /\ other(j).writes = command[j].writes
  BY DEF LegacyInv, TypeOK, CommandStates
<1> HIDE DEF mine, other
<1>4. command'[i] = mine /\ \A j \in Commands \ {i} : command'[j] = other(j)
  BY <1>1
<1>5. \A j \in Commands \ {i} : (Working(j)' <=> Working(j)) /\ ~command'[j].alone
  BY <1>3, <1>4 DEF Working
<1>6. TypeOK'
  <2>1. command' \in [Commands -> CommandStates]
    BY <1>1, <1>2, <1>3
  <2>2. begun' \in 0..MaxCommands /\ overlap' \in {"never", "now", "mended"}
    BY <1>1, Constants DEF LegacyInv, TypeOK
  <2> QED
    BY <1>1, <2>1, <2>2 DEF LegacyInv, TypeOK
<1>7. ~Overlapped(i) => \A j \in Commands \ {i} : ~Working(j)
  BY DEF Overlapped
<1>8. overlap' # "now" => ~Overlapped(i) /\ overlap' = overlap
  BY <1>1
<1>9. Apart'
  BY <1>2, <1>4, <1>5, <1>7, <1>8 DEF Apart
<1>10. ActiveWhole' /\ (active' # None => active' <= begun')
  BY <1>1, <1>8, Constants DEF LegacyInv, TypeOK, ActiveWhole, Searchable, ActiveManifest
<1>11. Repairs'
  BY <1>2, <1>4, <1>5 DEF Repairs, At
<1>12. InRedis' = InRedis
  BY <1>1 DEF InRedis
<1>13. NothingOrphaned'
  BY <1>1, <1>2, <1>4, <1>5, <1>8, <1>12 DEF LegacyInv, NothingOrphaned, At
<1>14. Shape(i)' /\ Tracked(i)' /\ Registered(i)'
  <2>1. active # begun + 1 /\ begun \in Nat
    BY Constants, LegacyAssumption DEF LegacyInv, TypeOK
  <2> QED
    BY <1>1, <1>2, <1>4, <2>1
    DEF Shape, Tracked, Registered, Building, Before, Planning, Staging, Described, Switched
<1>15. ASSUME NEW j \in Commands, j # i PROVE Shape(j)' /\ Tracked(j)' /\ Registered(j)'
  <2>1. /\ command'[j].pc = command[j].pc /\ ~command'[j].alone
        /\ command'[j].files = command[j].files /\ command'[j].generation = command[j].generation
        /\ command'[j].plan = command[j].plan /\ command'[j].writes = command[j].writes
        /\ overlap' # "now" => ~Working(j)
    BY <1>3, <1>4, <1>7, <1>8, <1>15
  <2>2. Shape(j)'
    BY <1>1, <1>15, <2>1 DEF LegacyInv, TypeOK, Shape
  <2>3. ~Working(j) => command[j].pc \notin Building \cup {"wiping"}
    BY DEF Working, Harmless, Ending, Building, Before, Planning, Staging, Described, Switched
  <2>4. Tracked(j)'
    BY <2>1, <2>3 DEF Tracked, Solo, Building, Before, Planning
  <2>5. Registered(j)'
    BY <2>1, <2>3 DEF Registered, Building, Before, Planning, Switched
  <2> QED
    BY <2>2, <2>4, <2>5
<1> QED
  BY <1>6, <1>9, <1>10, <1>11, <1>13, <1>14, <1>15 DEF LegacyInv

LEMMA LockForBuildKept == ASSUME LegacyInv, NEW i \in Commands, LockForBuild(i) PROVE LegacyInv'
<1> DEFINE first(f) == [NoCommand EXCEPT !.pc = "surveyed", !.files = f, !.generation = begun + 1,
                                         !.old = ActiveManifest,
                                         !.known = registry \cup ActiveKeys]
<1>1. PICK f \in Trees : Locks(i, first(f))
  BY DEF LockForBuild
<1>2. begun + 1 \in Generations
  BY <1>1, Constants DEF Locks, LegacyInv, TypeOK, Generations
<1>3. /\ first(f) \in CommandStates /\ first(f).pc = "surveyed" /\ first(f).files = f
      /\ first(f).generation = begun + 1 /\ registry \subseteq first(f).known
  BY <1>2, ActiveTyped DEF NoCommand, CommandStates, CommandPCs, LegacyInv, TypeOK
<1> HIDE DEF first
<1> QED
  BY <1>1, <1>3, LocksKept DEF LockForBuild

LEMMA LockForClearKept == ASSUME LegacyInv, NEW i \in Commands, LockForClear(i) PROVE LegacyInv'
<1> DEFINE first == [NoCommand EXCEPT !.pc = "clearing"]
<1>1. first \in CommandStates /\ first.pc = "clearing"
  BY DEF NoCommand, CommandStates, CommandPCs
<1> HIDE DEF first
<1>2. Locks(i, first)
  BY DEF LockForClear, first
<1> QED
  BY <1>1, <1>2, LocksKept DEF LockForClear

-----------------------------------------------------------------------------
(* The theorems.                                                            *)

LEMMA InitLegacy == Init => LegacyInv
<1> SUFFICES ASSUME Init PROVE LegacyInv
  OBVIOUS
<1>1. /\ NoCommand \in CommandStates /\ NoCommand.pc = "idle" /\ ~NoCommand.alone
      /\ command = [i \in Commands |-> NoCommand]
  BY DEF Init, NoCommand, CommandStates, CommandPCs
<1>2. \A i \in Commands : command[i] = NoCommand
  BY <1>1
<1>3. /\ records \subseteq Keys /\ registry \subseteq AllKeys
      /\ manifests \in [Generations -> AllManifests \cup {None}]
      /\ active \in {0, None} /\ ActiveWhole /\ InRedis \subseteq registry
  <2>1. CASE NothingBuilt
    BY <2>1 DEF NothingBuilt, NoManifests, ActiveWhole, InRedis
  <2>2. CASE \E f \in Trees : FirstBuilt(Manifest(f, [p \in Paths |-> 0]))
    <3>1. PICK f \in Trees : FirstBuilt(Manifest(f, [p \in Paths |-> 0]))
      BY <2>2
    <3> DEFINE m == Manifest(f, [p \in Paths |-> 0])
    <3>2. m \in AllManifests
      BY ManifestTyped, Constants
    <3> HIDE DEF m
    <3>3. /\ records = RecordsOf(m) /\ manifests = [NoManifests EXCEPT ![0] = m]
          /\ registry = RecordsOf(m) \cup {ManifestKey(0)} /\ active = 0
      BY <3>1 DEF FirstBuilt, m
    <3>4. /\ manifests \in [Generations -> AllManifests \cup {None}] /\ manifests[0] = m
          /\ \A g \in Generations : g # 0 => manifests[g] = None
      BY <3>2, <3>3, Constants DEF NoManifests
    <3>5. RecordsOf(m) \subseteq Keys /\ registry \subseteq AllKeys
      BY <3>2, <3>3, RecordsTyped, KeysApart, Constants
    <3>6. ActiveWhole
      BY <3>2, <3>3, <3>4, Constants DEF ActiveWhole, Searchable, ActiveManifest
    <3>7. InRedis \subseteq registry
      BY <3>3, <3>4 DEF InRedis
    <3> QED
      BY <3>3, <3>4, <3>5, <3>6, <3>7
  <2> QED
    BY <2>1, <2>2 DEF Init
<1>4. TypeOK
  BY <1>1, <1>3, Constants DEF Init, TypeOK
<1>5. Apart /\ Repairs /\ NothingOrphaned
  BY <1>1, <1>2, <1>3 DEF Apart, Working, Harmless, Repairs, NothingOrphaned, At
<1>6. \A i \in Commands : Shape(i) /\ Tracked(i) /\ Registered(i)
  BY <1>1, <1>2
  DEF Shape, Tracked, Registered, Building, Before, Planning, Staging, Described, Switched
<1>7. active # None => active <= begun
  BY <1>3 DEF Init
<1> QED
  BY <1>3, <1>4, <1>5, <1>6, <1>7 DEF LegacyInv

LEMMA NextKept == LegacyInv /\ [Next]_vars => LegacyInv'
<1> SUFFICES ASSUME LegacyInv, [Next]_vars PROVE LegacyInv'
  OBVIOUS
<1>1. CASE UNCHANGED vars
  BY <1>1, OutsideKept DEF vars, LegacyInv, TypeOK
<1>2. CASE EditSource
  BY <1>2, EditSourceKept
<1>3. CASE ExpireLock
  BY <1>3, OutsideKept DEF ExpireLock, LegacyInv, TypeOK
<1>4. ASSUME NEW i \in Commands, Build(i) PROVE LegacyInv'
  <2>1. CASE LockForBuild(i) \/ ReadRecords(i) \/ Register(i) \/ Refresh(i)
    BY <2>1, LockForBuildKept, ReadRecordsKept, RegisterKept, RefreshKept
  <2>2. CASE WriteRecords(i) \/ WriteManifest(i) \/ Validate(i) \/ CheckSources(i)
    BY <2>2, WriteRecordsKept, WriteManifestKept, ValidateKept, CheckSourcesKept
  <2>3. CASE Activate(i) \/ DeleteChunks(i) \/ DeleteGraphs(i) \/ DeleteManifests(i)
    BY <2>3, ActivateKept, DeleteChunksKept, DeleteGraphsKept, DeleteManifestsKept
  <2>4. CASE ShrinkRegistry(i) \/ LoseLock(i)
    BY <2>4, ShrinkRegistryKept, LoseLockKept
  <2> QED
    BY <1>4, <2>1, <2>2, <2>3, <2>4 DEF Build
<1>5. ASSUME NEW i \in Commands, Clear(i) \/ Release(i) \/ Crash(i) PROVE LegacyInv'
  BY <1>5, LockForClearKept, ReadKeysKept, WipeKept, ReleaseKept, CrashKept DEF Clear
<1> QED
  BY <1>1, <1>2, <1>3, <1>4, <1>5 DEF Next

LEMMA LegacyInvariant == Spec => []LegacyInv
BY InitLegacy, NextKept, PTL DEF Spec

\* Every variable of the old cache keeps to its type.
THEOREM LegacyTyped == Spec => []TypeOK
<1>1. LegacyInv => TypeOK
  BY DEF LegacyInv
<1> QED
  BY <1>1, LegacyInvariant, PTL

\* The active generation can be searched, whatever crashed, lost its lock or was
\* refused; after commands overlapped, again once a build has run alone.
THEOREM WholeHolds == Spec => []ActiveWhole
<1>1. LegacyInv => ActiveWhole
  BY DEF LegacyInv
<1> QED
  BY <1>1, LegacyInvariant, PTL

\* A build that runs alone is never refused for its own records, whatever others
\* have left behind.
THEOREM RepairsHold == Spec => []Repairs
<1>1. LegacyInv => Repairs
  BY DEF LegacyInv
<1> QED
  BY <1>1, LegacyInvariant, PTL

\* While no two commands overlapped the registry names all there is in Redis, and
\* a clear leaves nothing.
THEOREM NoOrphans == Spec => []NothingOrphaned
<1>1. LegacyInv => NothingOrphaned
  BY DEF LegacyInv
<1> QED
  BY <1>1, LegacyInvariant, PTL

\* The pointer only moves to the build that was begun last, or away.
LEMMA NewestStep == LegacyInv /\ [Next]_vars => [active' \in {active, None, begun}]_vars
<1> SUFFICES ASSUME LegacyInv, Next PROVE active' \in {active, None, begun}
  BY DEF vars
<1>1. ASSUME NEW i \in Commands, Activate(i) PROVE active' = begun
  BY <1>1 DEF Activate, At, Owns, LegacyInv, Shape, Building, Before, Planning, Described
<1>2. ASSUME NEW i \in Commands, Build(i), ~Activate(i) PROVE active' = active
  BY <1>2
  DEF Build, cache, LockForBuild, ReadRecords, Register, Refresh, WriteRecords, WriteManifest,
      Validate, CheckSources, DeleteChunks, DeleteGraphs, DeleteManifests, ShrinkRegistry, LoseLock
<1>3. ASSUME NEW i \in Commands, Clear(i) \/ Release(i) \/ Crash(i) PROVE active' \in {active, None}
  BY <1>3 DEF Clear, cache, LockForClear, ReadKeys, Wipe, Release, Crash
<1>4. EditSource \/ ExpireLock => active' = active
  BY DEF EditSource, ExpireLock, cache
<1> QED
  BY <1>1, <1>2, <1>3, <1>4 DEF Next

\* A build that lost its lock to a later one never switches the pointer back.
THEOREM NewestOnly == Spec => OnlyNewestActivates
BY LegacyInvariant, NewestStep, PTL DEF Spec, OnlyNewestActivates

=============================================================================

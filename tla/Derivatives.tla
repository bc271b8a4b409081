---------------------------- MODULE Derivatives ----------------------------
(* Erasing what was derived from events and is kept outside the ledger: the  *)
(* plan and apply of AdapterRegistry (src/palimnex/adapters.py) over one of  *)
(* its two adapters, the SQLite tables or the Semantica projection           *)
(* (src/palimnex/semantica.py).  The calls on an adapter are serialized, as  *)
(* its documentation asks, and everything can happen between two of them.    *)
(* An index is the adapter's main table (`rows') and projection (`shadow').  *)
EXTENDS Naturals, FiniteSets

CONSTANTS NumObjects,    \* derivatives are numbered in the order of their ids
          Events, Versions, None,
          Stores, Graph, \* the stores outside, and the graph the adapter removes from
          Callers,       \* who plans and applies erasures
          Wanted,        \* [Callers -> the events each wants forgotten]
          Adapters,      \* the adapters, and how they may be configured
          FirstRounds,   \* tables that a first round of puts may have left
          MaxPuts, MaxFailures   \* bounds

Objects == 1..NumObjects

\* An adapter, whether it has a coordinator, the stores that must report to it, the
\* stores that the coordinator knows, and who uses the adapter.
Setups == [backend : {"sqlite", "semantica"}, coordinated : BOOLEAN,
           mandatory : SUBSET Stores \ {{}}, configured : SUBSET Stores,
           callers : SUBSET Callers]

\* An object's version stands for its digest too.
Generation == [event : Events, version : Versions]

ASSUME DerivativesAssumption ==
    /\ NumObjects \in Nat /\ MaxPuts \in Nat /\ MaxFailures \in Nat
    /\ Graph \in Stores
    /\ Adapters \subseteq Setups
    /\ \A a \in Adapters : a.backend = "semantica" => a.callers \in {{i} : i \in Callers}
    /\ None \notin Generation
    /\ FirstRounds \subseteq [Objects -> Generation]
    /\ Wanted \in [Callers -> SUBSET Events]

VARIABLES setup,      \* the adapter and how it is configured; never changes
          rows,       \* the main table: [Objects -> a generation or None]
          shadow,     \* the projection table
          held,       \* the objects that each store outside holds (Semantica)
          sanitized,  \* the objects with a sanitized erasure receipt (Semantica)
          renewed,    \* history: objects added to a store after that receipt
          adding,     \* objects whose node a projection added, but has not put (yet)
          orphans,    \* history: objects in the stores that the index has lost
          caller,     \* each caller's plan and how far it has applied it
          puts, failures   \* counters for the bounds

index == <<rows, shadow>>
outside == <<held, sanitized, renewed, adding, orphans>>
counters == <<puts, failures>>
vars == <<setup, index, outside, caller, counters>>

-----------------------------------------------------------------------------
Refs == Objects \X Versions
Tables == [Objects -> Generation \cup {None}]
Empty == [o \in Objects |-> None]

SQLite == setup.backend = "sqlite"
Semantica == setup.backend = "semantica"

\* The generations an adapter finds of an object: both tables, or the main row first.
Found(o) ==
    (IF Semantica /\ rows[o] # None THEN {rows[o]} ELSE {rows[o], shadow[o]}) \ {None}

\* enumerate_derivatives, and the check of _enumerate that no object comes twice
Enumerated(ids) ==
    {r \in Refs : \E g \in Found(r[1]) : g.event \in ids /\ g.version = r[2]}
Ambiguous(refs) == \E r, q \in refs : r[1] = q[1] /\ r # q

\* verify_absent
Absent(o) == rows[o] = None /\ shadow[o] = None /\ o \notin held[Graph]

NoRef == <<0, None>>
NoPlan == [pc |-> "idle", refs |-> {}, expired |-> FALSE, todo |-> {}, beyond |-> {},
           current |-> NoRef]
At(i, pc) == caller[i].pc = pc
Goes(i, pc) == caller' = [caller EXCEPT ![i].pc = pc]
Current(i) == caller[i].current

\* Nothing derived yet, or what a first round of puts and projections has left.
Init == /\ setup \in Adapters
        /\ rows \in {Empty} \cup FirstRounds
        /\ shadow = rows
        /\ held = [s \in Stores |-> IF Semantica /\ rows # Empty THEN Objects ELSE {}]
        /\ sanitized = {} /\ renewed = {} /\ adding = {} /\ orphans = {}
        /\ caller = [i \in Callers |-> NoPlan]
        /\ puts = 0 /\ failures = 0

-----------------------------------------------------------------------------
(* The application derives.                                                 *)

\* Mutant: a row that the projection still has is left there.
PutRowAgain(o, g) ==
    /\ SQLite /\ puts < MaxPuts
    /\ rows[o] = None
    /\ rows' = [rows EXCEPT ![o] = g]
    /\ shadow' = IF shadow[o] = None THEN [shadow EXCEPT ![o] = g] ELSE shadow
    /\ puts' = puts + 1
    /\ UNCHANGED <<setup, outside, caller, failures>>

\* put of the SQLite adapter: both tables in one transaction, which a row of the
\* object in either aborts.
PutRow(o, g) ==
    /\ SQLite /\ puts < MaxPuts
    /\ rows[o] = None /\ shadow[o] = None
    /\ rows' = [rows EXCEPT ![o] = g] /\ shadow' = [shadow EXCEPT ![o] = g]
    /\ puts' = puts + 1
    /\ UNCHANGED <<setup, outside, caller, failures>>

\* put of the Semantica adapter overwrites; it does not touch the stores.  As the
\* second half of a projection it costs no further put.
PutOver(o, g) ==
    /\ Semantica
    /\ o \notin adding => puts < MaxPuts
    /\ puts' = IF o \in adding THEN puts ELSE puts + 1
    /\ rows' = [rows EXCEPT ![o] = g] /\ shadow' = [shadow EXCEPT ![o] = g]
    /\ adding' = adding \ {o} /\ orphans' = orphans \ {o}
    /\ UNCHANGED <<setup, held, sanitized, renewed, caller, failures>>

\* project_audit_graph adds the node before it puts the row, and can fail between;
\* the context may keep copies in its other stores, also in those that the
\* coordinator does not know.
AddNode(o) ==
    /\ Semantica /\ puts < MaxPuts
    /\ \E copies \in SUBSET Stores :
           /\ Graph \in copies
           /\ held' = [s \in Stores |-> IF s \in copies THEN held[s] \cup {o} ELSE held[s]]
    /\ renewed' = renewed \cup {o}
    /\ adding' = adding \cup {o}
    /\ puts' = puts + 1
    /\ UNCHANGED <<setup, index, sanitized, orphans, caller, failures>>

-----------------------------------------------------------------------------
(* AdapterRegistry.plan and apply.  An error leaves the caller its plan.    *)

Plan(i) ==
    LET refs == Enumerated(Wanted[i])
    IN  /\ At(i, "idle") /\ i \in setup.callers /\ ~Ambiguous(refs)
        /\ caller' = [caller EXCEPT ![i] = [NoPlan EXCEPT !.pc = "planned", !.refs = refs]]
        /\ UNCHANGED <<setup, index, outside, counters>>

\* "invalid, changed or expired derivative plan", "derivatives changed; replan
\* required"
Start(i) ==
    LET current == Enumerated(Wanted[i])
    IN  /\ At(i, "planned")
        /\ IF caller[i].expired \/ Ambiguous(current) \/ ~(current \subseteq caller[i].refs)
           THEN Goes(i, "failed")
           ELSE caller' = [caller EXCEPT ![i].pc = "scoping",
                                         ![i].beyond = caller[i].refs \ current]
        /\ UNCHANGED <<setup, index, outside, counters>>

\* "derivative is outside the enumerated scope"
CheckScope(i) ==
    /\ At(i, "scoping")
    /\ caller' = [caller EXCEPT
           ![i].pc = IF \A r \in caller[i].beyond : Absent(r[1]) THEN "erasing" ELSE "failed",
           ![i].beyond = {}, ![i].todo = caller[i].refs]
    /\ UNCHANGED <<setup, index, outside, counters>>

\* The objects are taken in the order of their ids.
Due(i) == {r \in caller[i].todo : \A q \in caller[i].todo : r[1] <= q[1]}
Works(i, r, pc) == caller' = [caller EXCEPT ![i].pc = pc, ![i].current = r]

\* "derivative payload changed", "derivative version changed"
Unchanged(r) == rows[r[1]] # None => rows[r[1]].version = r[2]

\* What stops apply before a deletion: "derivative plan expired during execution",
\* or the object.
Refuse(i) ==
    /\ At(i, "erasing")
    /\ \E r \in Due(i) : caller[i].expired \/ ~Unchanged(r)
    /\ Goes(i, "failed")
    /\ UNCHANGED <<setup, index, outside, counters>>

CanDelete(i, r) ==
    At(i, "erasing") /\ r \in Due(i) /\ ~caller[i].expired /\ Unchanged(r)

\* delete of the SQLite adapter, one transaction
DeleteRow(i, r) ==
    /\ SQLite /\ CanDelete(i, r)
    /\ rows' = [rows EXCEPT ![r[1]] = None]
    /\ Works(i, r, "deleted")
    /\ UNCHANGED <<setup, shadow, outside, counters>>

\* What the stores hold when the coordinator has erased o in those it knows, except
\* some that fail.
Erased(o, failed) ==
    [s \in Stores |-> IF setup.coordinated /\ s \in setup.configured \ failed
                      THEN held[s] \ {o} ELSE held[s]]

\* Mutant: a mandatory store may be not configured.
CompleteIfKnown(failed) == failed = {}

\* interpret_erasure_receipt: the mandatory stores are erased, and none failed.
\* The coordinator answers not_configured for a store it does not know.
Complete(failed) == failed = {} /\ setup.mandatory \subseteq setup.configured

\* "mandatory store ... reported ...": what was erased stays so.
Withhold(i, r, failed) ==
    /\ Semantica /\ setup.coordinated /\ CanDelete(i, r)
    /\ failed \subseteq setup.configured /\ ~Complete(failed)
    /\ failed # {} => failures < MaxFailures
    /\ failures' = IF failed = {} THEN failures ELSE failures + 1
    /\ held' = Erased(r[1], failed)
    /\ Goes(i, "failed")
    /\ UNCHANGED <<setup, index, sanitized, renewed, adding, orphans, puts>>

\* The coordinator's receipt, if there is one, and then the row goes.
Report(i, r) ==
    /\ Semantica /\ CanDelete(i, r)
    /\ setup.coordinated => Complete({})
    /\ sanitized' = IF setup.coordinated THEN sanitized \cup {r[1]} ELSE sanitized
    /\ renewed' = IF setup.coordinated THEN renewed \ {r[1]} ELSE renewed
    /\ rows' = [rows EXCEPT ![r[1]] = None]

\* delete of the Semantica adapter
DeleteNode(i, r) ==
    /\ Report(i, r)
    /\ held' = [Erased(r[1], {}) EXCEPT ![Graph] = @ \ {r[1]}]
    /\ Works(i, r, "deleted")
    /\ UNCHANGED <<setup, shadow, adding, orphans, counters>>

\* Mutant: the projection goes with the row, and the node that stays has no trace.
KeepNodeUntraced(i, r) ==
    /\ Report(i, r) /\ failures < MaxFailures
    /\ r[1] \in Erased(r[1], {})[Graph]
    /\ held' = Erased(r[1], {})
    /\ shadow' = [shadow EXCEPT ![r[1]] = None]
    /\ orphans' = IF shadow[r[1]] = None THEN orphans \cup {r[1]} ELSE orphans
    /\ failures' = failures + 1
    /\ Goes(i, "failed")
    /\ UNCHANGED <<setup, adding, puts>>

\* ... and when the graph fails to remove the node: the projection is the only trace,
\* if there is one: an object that was put again, as the same version, before the
\* projection of an earlier deletion was invalidated has lost it.
KeepNode(i, r) ==
    /\ Report(i, r) /\ failures < MaxFailures
    /\ r[1] \in Erased(r[1], {})[Graph]
    /\ held' = Erased(r[1], {})
    /\ orphans' = IF shadow[r[1]] = None THEN orphans \cup {r[1]} ELSE orphans
    /\ failures' = failures + 1
    /\ Goes(i, "failed")
    /\ UNCHANGED <<setup, shadow, adding, puts>>

\* Only the planned generation: a newer one stays, and the verification sees it.
Invalidate(i) ==
    LET o == Current(i)[1]
    IN  /\ At(i, "deleted")
        /\ shadow' = IF shadow[o] # None /\ shadow[o].version = Current(i)[2]
                     THEN [shadow EXCEPT ![o] = None] ELSE shadow
        /\ Goes(i, "invalidated")
        /\ UNCHANGED <<setup, rows, outside, counters>>

\* "derivative absence verification failed"
Verify(i) ==
    /\ At(i, "invalidated")
    /\ Goes(i, IF Absent(Current(i)[1]) THEN "verified" ELSE "failed")
    /\ UNCHANGED <<setup, index, outside, counters>>

\* produce_receipt verifies again; "invalid adapter receipt"
Receipt(i) ==
    /\ At(i, "verified")
    /\ caller' = [caller EXCEPT
           ![i].pc = IF Absent(Current(i)[1]) THEN "erasing" ELSE "failed",
           ![i].todo = @ \ {Current(i)}, ![i].current = NoRef]
    /\ UNCHANGED <<setup, index, outside, counters>>

\* Mutant: the receipts are returned without a last look.
FinishUnseen(i) ==
    /\ At(i, "erasing") /\ caller[i].todo = {}
    /\ Goes(i, "returned")
    /\ UNCHANGED <<setup, index, outside, counters>>

\* "new derivatives appeared during erasure; replan required"
Finish(i) ==
    /\ At(i, "erasing") /\ caller[i].todo = {}
    /\ Goes(i, IF Enumerated(Wanted[i]) = {} THEN "returned" ELSE "failed")
    /\ UNCHANGED <<setup, index, outside, counters>>

-----------------------------------------------------------------------------
(* What callers do next, and what fails.                                    *)

Applying == {"scoping", "erasing", "deleted", "invalidated", "verified"}

\* Any call on the adapter, or the authorization, raises before it has done
\* anything; a process that dies and has its plan on disk is no worse.
Fail(i) ==
    /\ caller[i].pc \in Applying /\ failures < MaxFailures
    /\ failures' = failures + 1
    /\ Goes(i, "failed")
    /\ UNCHANGED <<setup, index, outside, puts>>

\* Five minutes after the plan; it costs a failure.
Expire(i) ==
    /\ caller[i].pc \in Applying \cup {"planned"} /\ ~caller[i].expired
    /\ failures < MaxFailures
    /\ failures' = failures + 1
    /\ caller' = [caller EXCEPT ![i].expired = TRUE]
    /\ UNCHANGED <<setup, index, outside, puts>>

\* "Retry with the original plan is safe only for unchanged/absent objects."
Retry(i) ==
    /\ At(i, "failed")
    /\ caller' = [caller EXCEPT ![i].pc = "planned", ![i].todo = {}, ![i].current = NoRef]
    /\ UNCHANGED <<setup, index, outside, counters>>

Replan(i) ==
    /\ At(i, "failed") \/ At(i, "returned")
    /\ caller' = [caller EXCEPT ![i] = NoPlan]
    /\ UNCHANGED <<setup, index, outside, counters>>

\* The Semantica adapter keeps its index in the process.  When it dies, so do the
\* calls under way, and what is left are the stores and the plans that were saved.  No
\* plan finds what the stores hold then, until it is put again.
Restart ==
    /\ Semantica /\ failures < MaxFailures
    /\ failures' = failures + 1
    /\ rows' = Empty /\ shadow' = Empty /\ sanitized' = {}
    /\ adding' = {} /\ renewed' = {}
    /\ orphans' = orphans \cup UNION {held[s] : s \in Stores}
    /\ caller' = [i \in Callers |-> IF caller[i].pc \in Applying
                                    THEN [caller[i] EXCEPT !.pc = "failed"] ELSE caller[i]]
    /\ UNCHANGED <<setup, held, puts>>

Derive == \E o \in Objects :
              AddNode(o) \/ \E g \in Generation : PutRow(o, g) \/ PutOver(o, g)

\* What a caller does as long as nothing fails.
Step(i) == \/ Plan(i) \/ Start(i) \/ CheckScope(i) \/ Refuse(i)
           \/ \E r \in Refs : DeleteRow(i, r) \/ DeleteNode(i, r)
           \/ Invalidate(i) \/ Verify(i) \/ Receipt(i) \/ Finish(i)

Next == \/ Derive \/ Restart
        \/ \E i \in Callers : \/ Step(i) \/ Fail(i) \/ Expire(i) \/ Retry(i) \/ Replan(i)
                              \/ \E r \in Refs :
                                     \/ KeepNode(i, r)
                                     \/ \E failed \in SUBSET Stores : Withhold(i, r, failed)

\* Callers go on, and do not retry an old plan for ever (it expires).
Fairness == \A i \in Callers : WF_vars(Step(i)) /\ SF_vars(Replan(i))

Spec == Init /\ [][Next]_vars /\ Fairness

-----------------------------------------------------------------------------
(* Type correctness.                                                        *)

CallerStates == [pc : Applying \cup {"idle", "planned", "failed", "returned"},
                 refs : SUBSET Refs, expired : BOOLEAN, todo : SUBSET Refs,
                 beyond : SUBSET Refs, current : Refs \cup {NoRef}]

\* Every variable keeps to its type.
TypeOK ==
    /\ setup \in Adapters
    /\ rows \in Tables /\ shadow \in Tables
    /\ held \in [Stores -> SUBSET Objects]
    /\ sanitized \subseteq Objects /\ renewed \subseteq Objects /\ adding \subseteq Objects
    /\ orphans \subseteq Objects
    /\ caller \in [Callers -> CallerStates]
    /\ puts \in 0..MaxPuts /\ failures \in 0..MaxFailures

-----------------------------------------------------------------------------
(* Properties.                                                              *)

\* However puts, deletions of several callers and failures between the two tables
\* fall, an object that is in both is there with one generation: "inconsistent
\* generations fail closed" never makes it impossible to plan.
GenerationsAgree ==
    \A o \in Objects : rows[o] # None /\ shadow[o] # None => rows[o] = shadow[o]

\* When apply returns its receipts, nothing in the index is derived from the events,
\* and the graph holds none of the objects that the receipts name, unless one was
\* put again for another event, or its node added by a projection that has not
\* (or never) put its row.
ReturnedIsGone ==
    [][\A i \in Callers : At(i, "erasing") /\ caller'[i].pc = "returned" =>
           \A o \in Objects :
               /\ \A g \in {rows[o], shadow[o]} \ {None} : g.event \notin Wanted[i]
               /\ o \in held[Graph] /\ (\E r \in caller[i].refs : r[1] = o) =>
                      o \in adding \/ rows[o] # None \/ shadow[o] # None]_vars

\* While the adapter has an erasure receipt for an object, no mandatory store holds
\* it, unless it was added again, whichever stores failed or were not configured in
\* this or in later attempts.
ReceiptsTrue ==
    \A o \in sanitized \ renewed : \A s \in setup.mandatory : o \notin held[s]

\* A caller that goes on, with retries of the old plan or with new plans, erases in
\* the end what it wants forgotten, whatever failed half way, if the stores can be
\* erased at all: "projection-only survivors remain discoverable".  The index has
\* nothing of the events then, and the stores that apply reaches (the graph, and those
\* that the coordinator knows) only objects that the index has for another event.
\* The exceptions are the code's: a node that a projection added and never put, and the
\* nodes of an index that died with its process, are in no plan.
Erasable ==
    setup.coordinated => setup.mandatory \subseteq setup.configured
Reached == {Graph} \cup IF setup.coordinated THEN setup.configured ELSE {}
Indexed == {o \in Objects : rows[o] # None \/ shadow[o] # None}
Traced == \A s \in Reached : held[s] \subseteq Indexed \cup adding \cup orphans
Forgotten ==
    /\ Traced
    /\ \A o \in Objects : \A g \in {rows[o], shadow[o]} \ {None} :
           \A i \in setup.callers : g.event \notin Wanted[i]
ErasedAtLast == Erasable => <>[]Forgotten

=============================================================================

------------------------- MODULE DerivativesProofs -------------------------
(***************************************************************************)
(* What the receipts of an erasure say is true, for any objects, versions, *)
(* stores, callers and failures.                                           *)
(***************************************************************************)
EXTENDS Derivatives, TLAPS

\* An object that the graph holds is in the index, or a projection has just added it.
Covered(o) == o \in held[Graph] => o \in adding \/ rows[o] # None \/ shadow[o] # None

\* Why ReturnedIsGone is inductive: what an apply has verified stays covered, since
\* SQLite has no graph and Semantica no second caller.
Verified(i) ==
    /\ ~Ambiguous(caller[i].refs) /\ caller[i].todo \subseteq caller[i].refs
    /\ caller[i].pc \in {"deleted", "invalidated", "verified"} => Current(i) \in caller[i].todo
    /\ caller[i].pc \in Applying \ {"scoping"} =>
           \A r \in caller[i].refs \ caller[i].todo : Covered(r[1])
Alone == /\ SQLite => held[Graph] = {}
         /\ \A i \in Callers \ setup.callers : caller[i] = NoPlan
DerivInv == /\ TypeOK /\ GenerationsAgree /\ ReceiptsTrue /\ Alone
            /\ \A i \in Callers : Verified(i)

\* The constants.
LEMMA Constants ==
    /\ NumObjects \in Nat /\ MaxPuts \in Nat /\ MaxFailures \in Nat /\ Graph \in Stores
    /\ Adapters \subseteq Setups /\ FirstRounds \subseteq [Objects -> Generation]
    /\ \A a \in Adapters : a.backend = "semantica" => a.callers \in {{i} : i \in Callers}
    /\ None \notin Generation
BY DerivativesAssumption

LEMMA NoPlanTyped ==
    NoPlan \in CallerStates /\ NoPlan.refs = {} /\ NoPlan.pc = "idle" /\ NoPlan.todo = {}
BY DEF NoPlan, CallerStates

LEMMA InitDerived == Init => DerivInv
<1> SUFFICES ASSUME Init PROVE DerivInv
  OBVIOUS
<1>1. Empty \in Tables /\ FirstRounds \subseteq Tables
  BY Constants DEF Empty, Tables
<1>2. held \in [Stores -> SUBSET Objects] /\ (SQLite => held[Graph] = {})
  BY Constants DEF Init, SQLite, Semantica
<1>3. TypeOK
  BY <1>1, <1>2, Constants, NoPlanTyped DEF Init, TypeOK
<1>4. \A i \in Callers : Verified(i)
  BY NoPlanTyped DEF Init, Verified, Ambiguous, Applying
<1> QED
  BY <1>2, <1>3, <1>4 DEF Init, DerivInv, GenerationsAgree, ReceiptsTrue, Alone

\* Whoever takes a step on the Semantica index is its only caller.
LEMMA SoleCaller ==
    ASSUME DerivInv, NEW i \in Callers, caller[i] # NoPlan, Semantica
    PROVE  \A j \in Callers \ {i} : caller[j] = NoPlan
<1>1. setup \in Adapters /\ setup.backend = "semantica"
  BY DEF DerivInv, TypeOK, Semantica
<1>2. PICK k \in Callers : setup.callers = {k}
  BY <1>1, Constants
<1> QED
  BY <1>2 DEF DerivInv, Alone

-----------------------------------------------------------------------------
(* Steps of a caller that leave the index and the stores as they are.       *)

\* Where a caller may go, given what it has verified.
Sane(c) ==
    /\ c \in CallerStates
    /\ ~Ambiguous(c.refs) /\ c.todo \subseteq c.refs
    /\ c.pc \in {"deleted", "invalidated", "verified"} => c.current \in c.todo
    /\ c.pc \in Applying \ {"scoping"} => \A r \in c.refs \ c.todo : Covered(r[1])

\* One caller changes.
LEMMA CallerChanges ==
    ASSUME TypeOK, NEW i \in Callers, NEW c \in CallerStates, caller' = [caller EXCEPT ![i] = c]
    PROVE  /\ caller' \in [Callers -> CallerStates]
           /\ \A j \in Callers : caller'[j] = IF j = i THEN c ELSE caller[j]
BY DEF TypeOK

\* A sane step of a caller keeps the invariant.
LEMMA CallerStep ==
    ASSUME DerivInv, UNCHANGED <<setup, index, outside, puts>>, failures' \in 0..MaxFailures,
           NEW i \in setup.callers, i \in Callers, NEW c, Sane(c),
           caller' = [caller EXCEPT ![i] = c]
    PROVE  DerivInv'
<1>1. /\ caller' \in [Callers -> CallerStates]
      /\ \A j \in Callers : caller'[j] = IF j = i THEN c ELSE caller[j]
  BY CallerChanges DEF DerivInv, Sane
<1>2. TypeOK'
  BY <1>1 DEF DerivInv, TypeOK, index, outside
<1>3. GenerationsAgree' /\ ReceiptsTrue' /\ Alone'
  BY <1>1 DEF DerivInv, GenerationsAgree, ReceiptsTrue, Alone, index, outside, SQLite
<1>4. \A o : Covered(o)' <=> Covered(o)
  BY DEF Covered, index, outside
<1>5. \A j \in Callers : Verified(j)'
  BY <1>1, <1>4 DEF DerivInv, Verified, Current, Sane
<1> QED
  BY <1>2, <1>3, <1>5 DEF DerivInv

\* Callers that are not idle are callers of this adapter.
LEMMA UsesIt ==
    ASSUME DerivInv, NEW i \in Callers, ~At(i, "idle")
    PROVE  i \in setup.callers /\ caller[i] # NoPlan /\ caller[i] \in CallerStates
BY NoPlanTyped DEF DerivInv, TypeOK, Alone, At

\* To fail, to go back to the plan and to have returned is always sane.
LEMMA GoesSane ==
    ASSUME DerivInv, NEW i \in Callers,
           NEW pc \in {"idle", "planned", "failed", "returned"}
    PROVE  Sane([caller[i] EXCEPT !.pc = pc])
<1>1. caller[i] \in CallerStates /\ Verified(i)
  BY DEF DerivInv, TypeOK
<1> QED
  BY <1>1 DEF CallerStates, Sane, Verified, Applying

LEMMA FailedKept ==
    ASSUME DerivInv, NEW i \in Callers, ~At(i, "idle"),
           NEW pc \in {"planned", "failed", "returned"}, Goes(i, pc),
           UNCHANGED <<setup, index, outside, puts>>, failures' \in 0..MaxFailures
    PROVE  DerivInv'
<1> DEFINE c == [caller[i] EXCEPT !.pc = pc]
<1>1. Sane(c) /\ caller' = [caller EXCEPT ![i] = c]
  BY GoesSane DEF Goes
<1> HIDE DEF c
<1> QED
  BY <1>1, UsesIt, CallerStep

LEMMA PlanKept == ASSUME DerivInv, NEW i \in Callers, Plan(i) PROVE DerivInv'
<1> DEFINE refs == Enumerated(Wanted[i])
           c == [NoPlan EXCEPT !.pc = "planned", !.refs = refs]
<1>1. refs \in SUBSET Refs
  BY DEF Enumerated
<1>2. ~Ambiguous(refs) /\ i \in setup.callers /\ caller' = [caller EXCEPT ![i] = c]
  BY DEF Plan
<1> HIDE DEF refs
<1>3. c \in CallerStates /\ c.refs = refs /\ c.todo = {} /\ c.pc = "planned"
  BY <1>1 DEF NoPlan, CallerStates
<1>4. Sane(c)
  BY <1>2, <1>3 DEF Sane, Applying
<1> HIDE DEF c
<1> QED
  BY <1>2, <1>4, CallerStep DEF Plan, counters, DerivInv, TypeOK

LEMMA StartKept == ASSUME DerivInv, NEW i \in Callers, Start(i) PROVE DerivInv'
<1>1. ~At(i, "idle") /\ UNCHANGED <<setup, index, outside, puts>> /\ failures' \in 0..MaxFailures
  BY DEF Start, At, counters, DerivInv, TypeOK
<1>2. CASE Goes(i, "failed")
  BY <1>1, <1>2, FailedKept
<1>3. CASE ~Goes(i, "failed")
  <2> DEFINE beyond == caller[i].refs \ Enumerated(Wanted[i])
             c == [caller[i] EXCEPT !.pc = "scoping", !.beyond = beyond]
  <2>1. caller[i] \in CallerStates /\ Verified(i)
    BY DEF DerivInv, TypeOK
  <2>2. beyond \in SUBSET Refs
    BY <2>1 DEF CallerStates
  <2>3. caller' = [caller EXCEPT ![i] = c]
    BY <1>3 DEF Start, Goes
  <2> HIDE DEF beyond
  <2>4. Sane(c)
    BY <2>1, <2>2 DEF CallerStates, Sane, Verified, Applying
  <2> HIDE DEF c
  <2> QED
    BY <1>1, <2>3, <2>4, UsesIt, CallerStep
<1> QED
  BY <1>2, <1>3

LEMMA CheckScopeKept == ASSUME DerivInv, NEW i \in Callers, CheckScope(i) PROVE DerivInv'
<1>1. ~At(i, "idle") /\ UNCHANGED <<setup, index, outside, puts>> /\ failures' \in 0..MaxFailures
  BY DEF CheckScope, At, counters, DerivInv, TypeOK
<1>2. PICK pc \in {"erasing", "failed"} :
          caller' = [caller EXCEPT ![i].pc = pc, ![i].beyond = {}, ![i].todo = caller[i].refs]
  BY DEF CheckScope
<1> DEFINE c == [caller[i] EXCEPT !.pc = pc, !.beyond = {}, !.todo = caller[i].refs]
<1>3. caller' = [caller EXCEPT ![i] = c]
  BY <1>2
<1>4. caller[i] \in CallerStates /\ Verified(i)
  BY DEF DerivInv, TypeOK
<1>5. Sane(c)
  BY <1>4 DEF CallerStates, Sane, Verified, Applying
<1> HIDE DEF c
<1> QED
  BY <1>1, <1>3, <1>5, UsesIt, CallerStep

\* The object has been seen to be absent: so it is covered.
LEMMA VerifyKept == ASSUME DerivInv, NEW i \in Callers, Verify(i) PROVE DerivInv'
<1>1. ~At(i, "idle") /\ UNCHANGED <<setup, index, outside, puts>> /\ failures' \in 0..MaxFailures
  BY DEF Verify, At, counters, DerivInv, TypeOK
<1>2. CASE Goes(i, "failed")
  BY <1>1, <1>2, FailedKept
<1>3. CASE Goes(i, "verified")
  <2> DEFINE c == [caller[i] EXCEPT !.pc = "verified"]
  <2>1. caller[i] \in CallerStates /\ Verified(i) /\ caller[i].pc = "invalidated"
    BY DEF DerivInv, TypeOK, Verify, At
  <2>2. Sane(c)
    BY <2>1 DEF CallerStates, Sane, Verified, Applying, Current
  <2>3. caller' = [caller EXCEPT ![i] = c]
    BY <1>3 DEF Goes
  <2> HIDE DEF c
  <2> QED
    BY <1>1, <2>2, <2>3, UsesIt, CallerStep
<1> QED
  BY <1>2, <1>3 DEF Verify

LEMMA ReceiptKept == ASSUME DerivInv, NEW i \in Callers, Receipt(i) PROVE DerivInv'
<1>1. ~At(i, "idle") /\ UNCHANGED <<setup, index, outside, puts>> /\ failures' \in 0..MaxFailures
  BY DEF Receipt, At, counters, DerivInv, TypeOK
<1>2. PICK pc \in {"erasing", "failed"} :
          /\ pc = "erasing" => Absent(Current(i)[1])
          /\ caller' = [caller EXCEPT ![i].pc = pc, ![i].todo = @ \ {Current(i)},
                                      ![i].current = NoRef]
  BY DEF Receipt
<1> DEFINE todo == caller[i].todo \ {Current(i)}
           c == [caller[i] EXCEPT !.pc = pc, !.todo = todo, !.current = NoRef]
<1>3. caller' = [caller EXCEPT ![i] = c]
  BY <1>2
<1>4. /\ caller[i] \in CallerStates /\ Verified(i) /\ caller[i].pc = "verified"
      /\ todo \in SUBSET Refs
  BY DEF DerivInv, TypeOK, Receipt, At, CallerStates
<1> HIDE DEF todo
<1>5. c \in CallerStates /\ c.refs = caller[i].refs /\ c.pc = pc /\ c.todo = todo
  BY <1>4 DEF CallerStates, Applying
<1> HIDE DEF c
<1> USE DEF todo
<1>6. pc = "erasing" => \A r \in c.refs \ c.todo : Covered(r[1])
  BY <1>2, <1>4, <1>5 DEF Verified, Applying, Absent, Covered
<1>7. Sane(c)
  BY <1>4, <1>5, <1>6 DEF Sane, Verified, Applying
<1> QED
  BY <1>1, <1>3, <1>7, UsesIt, CallerStep

LEMMA ExpireKept == ASSUME DerivInv, NEW i \in Callers, Expire(i) PROVE DerivInv'
<1> DEFINE c == [caller[i] EXCEPT !.expired = TRUE]
<1>1. /\ ~At(i, "idle") /\ UNCHANGED <<setup, index, outside, puts>>
      /\ failures' \in 0..MaxFailures
  BY Constants DEF Expire, At, Applying, DerivInv, TypeOK
<1>2. caller[i] \in CallerStates /\ Verified(i) /\ caller' = [caller EXCEPT ![i] = c]
  BY DEF DerivInv, TypeOK, Expire
<1>3. Sane(c)
  BY <1>2 DEF CallerStates, Sane, Verified, Applying, Current
<1> HIDE DEF c
<1> QED
  BY <1>1, <1>2, <1>3, UsesIt, CallerStep

LEMMA RetryKept == ASSUME DerivInv, NEW i \in Callers, Retry(i) PROVE DerivInv'
<1> DEFINE c == [caller[i] EXCEPT !.pc = "planned", !.todo = {}, !.current = NoRef]
<1>1. /\ ~At(i, "idle") /\ UNCHANGED <<setup, index, outside, puts>>
      /\ failures' \in 0..MaxFailures
  BY DEF Retry, At, counters, DerivInv, TypeOK
<1>2. caller[i] \in CallerStates /\ Verified(i) /\ caller' = [caller EXCEPT ![i] = c]
  BY DEF DerivInv, TypeOK, Retry
<1>3. Sane(c)
  BY <1>2 DEF CallerStates, Sane, Verified, Applying
<1> HIDE DEF c
<1> QED
  BY <1>1, <1>2, <1>3, UsesIt, CallerStep

LEMMA ReplanKept == ASSUME DerivInv, NEW i \in Callers, Replan(i) PROVE DerivInv'
<1>1. /\ ~At(i, "idle") /\ UNCHANGED <<setup, index, outside, puts>>
      /\ failures' \in 0..MaxFailures /\ caller' = [caller EXCEPT ![i] = NoPlan]
  BY DEF Replan, At, counters, DerivInv, TypeOK
<1>2. Sane(NoPlan)
  BY NoPlanTyped DEF Sane, Ambiguous, Applying
<1> QED
  BY <1>1, <1>2, UsesIt, CallerStep

-----------------------------------------------------------------------------
(* Steps on the index and the stores.                                       *)

\* The SQLite adapter has no graph.
LEMMA NoGraph == Alone /\ SQLite => \A o \in Objects : Covered(o)
BY DEF Alone, Covered

\* A step that uncovers no object and moves no caller keeps what was verified.
LEMMA VerifiedKept ==
    ASSUME DerivInv, UNCHANGED caller, \A o \in Objects : Covered(o) => Covered(o)'
    PROVE  \A i \in Callers : Verified(i)'
<1>1. \A i \in Callers : caller[i].refs \subseteq Refs
  BY DEF DerivInv, TypeOK, CallerStates
<1>2. \A r \in Refs : r[1] \in Objects
  BY DEF Refs
<1> QED
  BY <1>1, <1>2 DEF DerivInv, Verified, Current

LEMMA PutRowKept ==
    ASSUME DerivInv, NEW o \in Objects, NEW g \in Generation, PutRow(o, g) PROVE DerivInv'
<1>1. TypeOK'
  BY Constants DEF DerivInv, TypeOK, PutRow, outside, Tables
<1>2. GenerationsAgree'
  BY DEF DerivInv, TypeOK, Tables, GenerationsAgree, PutRow
<1>3. ReceiptsTrue' /\ Alone'
  BY DEF DerivInv, ReceiptsTrue, Alone, PutRow, outside, SQLite
<1>4. \A p \in Objects : Covered(p)'
  BY <1>3 DEF PutRow, SQLite, Alone, Covered
<1> QED
  BY <1>1, <1>2, <1>3, <1>4, VerifiedKept DEF DerivInv, PutRow

\* Both rows are overwritten, and a node that was added is now in the index.
LEMMA PutOverKept ==
    ASSUME DerivInv, NEW o \in Objects, NEW g \in Generation, PutOver(o, g) PROVE DerivInv'
<1>1. puts' \in 0..MaxPuts /\ ~SQLite
  BY Constants DEF DerivInv, TypeOK, PutOver, Semantica, SQLite
<1>2. TypeOK'
  BY <1>1, Constants DEF DerivInv, TypeOK, PutOver, Tables
<1>3. GenerationsAgree'
  BY DEF DerivInv, TypeOK, Tables, GenerationsAgree, PutOver
<1>4. ReceiptsTrue' /\ Alone'
  BY <1>1 DEF DerivInv, ReceiptsTrue, Alone, PutOver, SQLite
<1>5. \A p \in Objects : Covered(p) => Covered(p)'
  BY Constants DEF DerivInv, TypeOK, Tables, PutOver, Covered
<1> QED
  BY <1>2, <1>3, <1>4, <1>5, VerifiedKept DEF DerivInv, PutOver

\* A node comes with its object in `adding' and in `renewed'.
LEMMA AddNodeKept == ASSUME DerivInv, NEW o \in Objects, AddNode(o) PROVE DerivInv'
<1>1. PICK copies \in SUBSET Stores :
          held' = [s \in Stores |-> IF s \in copies THEN held[s] \cup {o} ELSE held[s]]
  BY DEF AddNode
<1>2. held' \in [Stores -> SUBSET Objects] /\ \A s \in Stores : held'[s] \subseteq held[s] \cup {o}
  BY <1>1 DEF DerivInv, TypeOK
<1>3. TypeOK'
  BY <1>2, Constants DEF DerivInv, TypeOK, AddNode, index
<1>4. setup \in Setups
  BY Constants DEF DerivInv, TypeOK
<1>5. ReceiptsTrue'
  BY <1>2, <1>4 DEF DerivInv, ReceiptsTrue, AddNode, Setups
<1>6. GenerationsAgree' /\ Alone'
  BY DEF DerivInv, GenerationsAgree, Alone, AddNode, index, SQLite, Semantica
<1>7. \A p \in Objects : Covered(p) => Covered(p)'
  BY <1>2, Constants DEF AddNode, index, Covered
<1> QED
  BY <1>3, <1>5, <1>6, <1>7, VerifiedKept DEF DerivInv, AddNode

\* Where a deletion leaves its caller.
LEMMA DeletedSane ==
    ASSUME DerivInv, NEW i \in Callers, NEW r \in Refs, CanDelete(i, r), Works(i, r, "deleted")
    PROVE  /\ caller' \in [Callers -> CallerStates]
           /\ \A j \in Callers \ {i} : caller'[j] = caller[j]
           /\ caller'[i] = [caller[i] EXCEPT !.pc = "deleted", !.current = r]
           /\ r \in caller[i].todo /\ caller[i].pc = "erasing" /\ caller[i] \in CallerStates
<1> DEFINE c == [caller[i] EXCEPT !.pc = "deleted", !.current = r]
<1>1. caller[i] \in CallerStates /\ caller' = [caller EXCEPT ![i] = c]
  BY DEF DerivInv, TypeOK, Works
<1>2. c \in CallerStates
  BY <1>1 DEF CallerStates, Applying
<1>3. r \in caller[i].todo /\ caller[i].pc = "erasing"
  BY DEF CanDelete, Due, At
<1> HIDE DEF c
<1>4. /\ caller' \in [Callers -> CallerStates]
      /\ \A j \in Callers : caller'[j] = IF j = i THEN c ELSE caller[j]
  BY <1>1, <1>2, CallerChanges DEF DerivInv
<1> QED
  BY <1>1, <1>3, <1>4 DEF c

LEMMA DeletionVerified ==
    ASSUME DerivInv, NEW i \in Callers, NEW r \in Refs, CanDelete(i, r), Works(i, r, "deleted"),
           \A o \in Objects : Covered(o) => Covered(o)'
    PROVE  \A j \in Callers : Verified(j)'
<1>1. \A j \in Callers : caller[j].refs \subseteq Refs
  BY DEF DerivInv, TypeOK, CallerStates
<1>2. \A q \in Refs : q[1] \in Objects
  BY DEF Refs
<1>0. /\ \A j \in Callers \ {i} : caller'[j] = caller[j]
      /\ caller'[i] = [caller[i] EXCEPT !.pc = "deleted", !.current = r]
      /\ r \in caller[i].todo /\ caller[i].pc = "erasing" /\ caller[i] \in CallerStates
  BY DeletedSane
<1>3. ASSUME NEW j \in Callers, j # i PROVE Verified(j)'
  <2>1. caller'[j] = caller[j] /\ Verified(j)
    BY <1>0, <1>3 DEF DerivInv
  <2> QED
    BY <1>1, <1>2, <2>1 DEF Verified, Current
<1>4. /\ caller'[i].refs = caller[i].refs /\ caller'[i].todo = caller[i].todo
      /\ caller'[i].current = r /\ caller'[i].pc = "deleted"
      /\ r \in caller[i].todo /\ caller[i].pc = "erasing"
  BY <1>0 DEF CallerStates
<1>5. Verified(i)'
  BY <1>1, <1>2, <1>4 DEF DerivInv, Verified, Current, Applying
<1> QED
  BY <1>3, <1>5

\* Callers that are idle stay idle when others work.
LEMMA AloneKept ==
    ASSUME DerivInv, NEW i \in Callers, ~At(i, "idle"), UNCHANGED setup,
           \A j \in Callers \ {i} : caller'[j] = caller[j],
           SQLite => held'[Graph] = {}
    PROVE  Alone'
BY UsesIt DEF DerivInv, Alone, SQLite

LEMMA DeleteRowKept ==
    ASSUME DerivInv, NEW i \in Callers, NEW r \in Refs, DeleteRow(i, r) PROVE DerivInv'
<1>1. SQLite /\ CanDelete(i, r) /\ Works(i, r, "deleted")
  BY DEF DeleteRow
<1>2. r[1] \in Objects
  BY DEF Refs
<1>3. TypeOK'
  BY <1>1, DeletedSane DEF DerivInv, TypeOK, DeleteRow, outside, counters, Tables
<1>4. GenerationsAgree' /\ ReceiptsTrue'
  BY <1>2 DEF DerivInv, TypeOK, Tables, GenerationsAgree, ReceiptsTrue, DeleteRow, outside
<1>5. Alone'
  BY <1>1, DeletedSane, AloneKept DEF DeleteRow, outside, CanDelete, At, DerivInv, Alone
<1>6. \A o \in Objects : Covered(o)'
  BY <1>5 DEF DeleteRow, SQLite, Alone, Covered
<1>7. \A j \in Callers : Verified(j)'
  BY <1>1, <1>6, DeletionVerified
<1> QED
  BY <1>3, <1>4, <1>5, <1>7 DEF DerivInv

\* What the coordinator erases, nobody gets.
LEMMA ErasedTyped ==
    ASSUME DerivInv, NEW o \in Objects, NEW failed
    PROVE  /\ Erased(o, failed) \in [Stores -> SUBSET Objects]
           /\ \A s \in Stores : Erased(o, failed)[s] \subseteq held[s]
           /\ \A s \in Stores : held[s] \subseteq Erased(o, failed)[s] \cup {o}
BY DEF DerivInv, TypeOK, Erased

\* Where a failure leaves its caller.
LEMMA FailedSane ==
    ASSUME DerivInv, NEW i \in Callers, Goes(i, "failed")
    PROVE  /\ caller' \in [Callers -> CallerStates]
           /\ \A j \in Callers \ {i} : caller'[j] = caller[j]
           /\ caller'[i] = [caller[i] EXCEPT !.pc = "failed"]
<1> DEFINE c == [caller[i] EXCEPT !.pc = "failed"]
<1>1. c \in CallerStates /\ caller' = [caller EXCEPT ![i] = c]
  BY GoesSane DEF Sane, Goes
<1> HIDE DEF c
<1>2. /\ caller' \in [Callers -> CallerStates]
      /\ \A j \in Callers : caller'[j] = IF j = i THEN c ELSE caller[j]
  BY <1>1, CallerChanges DEF DerivInv
<1> QED
  BY <1>2 DEF c

LEMMA FailureVerified ==
    ASSUME DerivInv, NEW i \in Callers, Goes(i, "failed"),
           \A o \in Objects : Covered(o) => Covered(o)' \/ Semantica, ~At(i, "idle")
    PROVE  \A j \in Callers : Verified(j)'
<1>1. /\ \A j \in Callers \ {i} : caller'[j] = caller[j]
      /\ caller'[i] = [caller[i] EXCEPT !.pc = "failed"]
      /\ caller[i] \in CallerStates
  BY FailedSane DEF DerivInv, TypeOK
<1>2. ASSUME NEW j \in Callers, j # i PROVE Verified(j)'
  <2>1. caller'[j] = caller[j] /\ Verified(j) /\ caller[j].refs \subseteq Refs
    BY <1>1, <1>2 DEF DerivInv, TypeOK, CallerStates
  <2>2. CASE Semantica
    <3>1. caller'[j] = NoPlan
      BY <1>2, <2>1, <2>2, SoleCaller, UsesIt
    <3> QED
      BY <3>1, NoPlanTyped DEF Verified, Ambiguous, Applying
  <2>3. CASE ~Semantica
    <3>1. \A r \in Refs : Covered(r[1]) => Covered(r[1])'
      BY <2>3 DEF Refs
    <3> QED
      BY <2>1, <3>1 DEF Verified, Current
  <2> QED
    BY <2>2, <2>3
<1>3. /\ caller'[i].refs = caller[i].refs /\ caller'[i].todo = caller[i].todo
      /\ caller'[i].pc = "failed"
  BY <1>1 DEF CallerStates
<1>4. Verified(i)'
  BY <1>3 DEF DerivInv, Verified, Applying
<1> QED
  BY <1>2, <1>4

LEMMA WithholdKept ==
    ASSUME DerivInv, NEW i \in Callers, NEW r \in Refs, NEW failed \in SUBSET Stores,
           Withhold(i, r, failed)
    PROVE  DerivInv'
<1>1. r[1] \in Objects /\ Semantica /\ ~SQLite /\ ~At(i, "idle") /\ Goes(i, "failed")
  BY DEF Refs, Withhold, Semantica, SQLite, CanDelete, At
<1>2. held' \in [Stores -> SUBSET Objects] /\ \A s \in Stores : held'[s] \subseteq held[s]
  BY <1>1, ErasedTyped DEF Withhold
<1>3. failures' \in 0..MaxFailures
  BY Constants DEF DerivInv, TypeOK, Withhold
<1>4. TypeOK'
  BY <1>1, <1>2, <1>3, FailedSane DEF DerivInv, TypeOK, Withhold, index
<1>5. setup \in Setups
  BY Constants DEF DerivInv, TypeOK
<1>6. GenerationsAgree' /\ ReceiptsTrue'
  BY <1>2, <1>5 DEF DerivInv, GenerationsAgree, ReceiptsTrue, Withhold, index, Setups
<1>7. Alone'
  BY <1>1, FailedSane, AloneKept DEF Withhold
<1>8. \A j \in Callers : Verified(j)'
  BY <1>1, FailureVerified
<1> QED
  BY <1>4, <1>6, <1>7, <1>8 DEF DerivInv

\* With a complete receipt, no mandatory store holds the object.
LEMMA ReportTrue ==
    ASSUME DerivInv, NEW i \in Callers, NEW r \in Refs, Report(i, r), UNCHANGED setup,
           \A s \in Stores : held'[s] \subseteq Erased(r[1], {})[s]
    PROVE  ReceiptsTrue'
<1>1. r[1] \in Objects /\ setup \in Setups
  BY Constants DEF Refs, DerivInv, TypeOK
<1>2. \A s \in Stores : held'[s] \subseteq held[s]
  BY <1>1, ErasedTyped
<1>3. CASE setup.coordinated
  <2>1. setup.mandatory \subseteq setup.configured /\ setup.mandatory \subseteq Stores
    BY <1>1, <1>3 DEF Report, Complete, Setups
  <2>2. \A s \in setup.mandatory : r[1] \notin held'[s]
    BY <1>3, <2>1 DEF Erased
  <2>3. sanitized' = sanitized \cup {r[1]} /\ renewed' = renewed \ {r[1]}
    BY <1>3 DEF Report
  <2> QED
    BY <1>2, <2>1, <2>2, <2>3 DEF DerivInv, ReceiptsTrue
<1>4. CASE ~setup.coordinated
  BY <1>1, <1>2, <1>4 DEF DerivInv, ReceiptsTrue, Report, Setups
<1> QED
  BY <1>3, <1>4

LEMMA ReportTyped ==
    ASSUME DerivInv, NEW i \in Callers, NEW r \in Refs, Report(i, r), UNCHANGED shadow
    PROVE  /\ rows' \in Tables /\ sanitized' \subseteq Objects /\ renewed' \subseteq Objects
           /\ GenerationsAgree' /\ r[1] \in Objects
           /\ \A o \in Objects \ {r[1]} : rows'[o] = rows[o]
<1>1. r[1] \in Objects
  BY DEF Refs
<1>2. rows' \in Tables /\ rows' = [rows EXCEPT ![r[1]] = None]
  BY DEF DerivInv, TypeOK, Tables, Report
<1>3. sanitized' \subseteq Objects /\ renewed' \subseteq Objects
  BY <1>1 DEF DerivInv, TypeOK, Report
<1> QED
  BY <1>1, <1>2, <1>3 DEF DerivInv, TypeOK, Tables, GenerationsAgree

LEMMA DeleteNodeKept ==
    ASSUME DerivInv, NEW i \in Callers, NEW r \in Refs, DeleteNode(i, r) PROVE DerivInv'
<1> DEFINE left == Erased(r[1], {})
<1>1. /\ Report(i, r) /\ UNCHANGED <<setup, shadow, adding, orphans>> /\ CanDelete(i, r)
      /\ Works(i, r, "deleted") /\ Semantica /\ ~SQLite /\ ~At(i, "idle")
  BY DEF DeleteNode, Report, CanDelete, At, Semantica, SQLite
<1>2. /\ rows' \in Tables /\ sanitized' \subseteq Objects /\ renewed' \subseteq Objects
      /\ GenerationsAgree' /\ r[1] \in Objects
      /\ \A o \in Objects \ {r[1]} : rows'[o] = rows[o]
  BY <1>1, ReportTyped
<1>3. /\ left \in [Stores -> SUBSET Objects]
      /\ \A s \in Stores : left[s] \subseteq held[s]
      /\ held' = [left EXCEPT ![Graph] = @ \ {r[1]}]
  BY <1>2, ErasedTyped DEF DeleteNode
<1> HIDE DEF left
<1>4. /\ held' \in [Stores -> SUBSET Objects] /\ r[1] \notin held'[Graph]
      /\ \A s \in Stores : held'[s] \subseteq left[s]
  BY <1>3, Constants
<1>5. ReceiptsTrue'
  BY <1>1, <1>4, ReportTrue DEF left
<1>6. caller' \in [Callers -> CallerStates] /\ \A j \in Callers \ {i} : caller'[j] = caller[j]
  BY <1>1, DeletedSane
<1>7. TypeOK'
  BY <1>1, <1>2, <1>4, <1>6 DEF DerivInv, TypeOK, DeleteNode, counters
<1>8. Alone'
  BY <1>1, <1>6, AloneKept
<1>9. \A o \in Objects : Covered(o) => Covered(o)'
  BY <1>1, <1>2, <1>3, <1>4, Constants DEF Covered
<1>10. \A j \in Callers : Verified(j)'
  BY <1>1, <1>9, DeletionVerified
<1> QED
  BY <1>2, <1>5, <1>7, <1>8, <1>10 DEF DerivInv

LEMMA KeepNodeKept ==
    ASSUME DerivInv, NEW i \in Callers, NEW r \in Refs, KeepNode(i, r) PROVE DerivInv'
<1>1. /\ Report(i, r) /\ UNCHANGED <<setup, shadow, adding, puts>> /\ held' = Erased(r[1], {})
      /\ Goes(i, "failed") /\ Semantica /\ ~SQLite /\ ~At(i, "idle")
      /\ orphans' = IF shadow[r[1]] = None THEN orphans \cup {r[1]} ELSE orphans
  BY DEF KeepNode, Report, CanDelete, At, Semantica, SQLite
<1>2. /\ rows' \in Tables /\ sanitized' \subseteq Objects /\ renewed' \subseteq Objects
      /\ GenerationsAgree' /\ r[1] \in Objects
  BY <1>1, ReportTyped
<1>3. held' \in [Stores -> SUBSET Objects]
  BY <1>1, <1>2, ErasedTyped
<1>4. ReceiptsTrue'
  BY <1>1, ReportTrue
<1>5. failures' \in 0..MaxFailures
  BY Constants DEF DerivInv, TypeOK, KeepNode
<1>9. caller' \in [Callers -> CallerStates] /\ orphans' \subseteq Objects
  BY <1>1, <1>2, FailedSane DEF DerivInv, TypeOK
<1>6. TypeOK'
  BY <1>1, <1>2, <1>3, <1>5, <1>9 DEF DerivInv, TypeOK
<1>7. Alone'
  BY <1>1, FailedSane, AloneKept
<1>8. \A j \in Callers : Verified(j)'
  BY <1>1, FailureVerified
<1> QED
  BY <1>2, <1>4, <1>6, <1>7, <1>8 DEF DerivInv

\* Only the object that is being erased is uncovered, and it is still to do.
LEMMA InvalidateKept == ASSUME DerivInv, NEW i \in Callers, Invalidate(i) PROVE DerivInv'
<1> DEFINE o == Current(i)[1]
           c == [caller[i] EXCEPT !.pc = "invalidated"]
<1>1. /\ caller[i] \in CallerStates /\ Verified(i) /\ caller[i].pc = "deleted"
      /\ UNCHANGED <<setup, rows, outside, counters>> /\ caller' = [caller EXCEPT ![i] = c]
  BY DEF DerivInv, TypeOK, Invalidate, At, Goes
<1>2. Current(i) \in caller[i].todo /\ caller[i].todo \subseteq caller[i].refs
      /\ caller[i].refs \subseteq Refs /\ ~Ambiguous(caller[i].refs)
  BY <1>1 DEF Verified, CallerStates
<1>3. o \in Objects
  BY <1>2 DEF Refs
<1>4. /\ c \in CallerStates /\ c.refs = caller[i].refs /\ c.todo = caller[i].todo
      /\ c.current = Current(i) /\ c.pc = "invalidated"
  BY <1>1 DEF CallerStates, Applying, Current
<1> HIDE DEF c
<1>5. /\ caller' \in [Callers -> CallerStates]
      /\ \A j \in Callers : caller'[j] = IF j = i THEN c ELSE caller[j]
  BY <1>1, <1>4, CallerChanges DEF DerivInv
<1>6. shadow' = shadow \/ shadow' = [shadow EXCEPT ![o] = None]
  BY DEF Invalidate
<1> HIDE DEF o
<1>7. shadow' \in Tables /\ \A p \in Objects \ {o} : shadow'[p] = shadow[p]
  BY <1>3, <1>6 DEF DerivInv, TypeOK, Tables
<1>8. TypeOK'
  BY <1>1, <1>5, <1>7 DEF DerivInv, TypeOK, outside, counters
<1>9. GenerationsAgree'
  BY <1>1, <1>3, <1>6 DEF DerivInv, TypeOK, Tables, GenerationsAgree
<1>10. ReceiptsTrue'
  BY <1>1 DEF DerivInv, ReceiptsTrue, outside
<1>11. ~At(i, "idle")
  BY <1>1 DEF At
<1>12. Alone'
  BY <1>1, <1>5, <1>11, AloneKept DEF outside, DerivInv, Alone
<1>13. \A p \in Objects \ {o} : Covered(p) => Covered(p)'
  BY <1>1, <1>7 DEF Covered, outside
<1>14. Verified(i)'
  <2>1. \A r \in caller[i].refs \ caller[i].todo : r[1] \in Objects \ {o} /\ Covered(r[1])
    BY <1>1, <1>2 DEF Ambiguous, Verified, Applying, Refs, o
  <2>2. \A r \in c.refs \ c.todo : Covered(r[1])'
    BY <1>4, <1>13, <2>1
  <2>3. caller'[i] = c
    BY <1>5
  <2> QED
    BY <1>2, <1>4, <2>2, <2>3 DEF Verified, Current
<1>15. ASSUME NEW j \in Callers, j # i PROVE Verified(j)'
  <2>1. caller'[j] = caller[j] /\ Verified(j) /\ caller[j].refs \subseteq Refs
    BY <1>5, <1>15 DEF DerivInv, TypeOK, CallerStates
  <2>2. CASE Semantica
    <3>1. caller'[j] = NoPlan
      BY <1>11, <1>15, <2>1, <2>2, SoleCaller, UsesIt
    <3> QED
      BY <3>1, NoPlanTyped DEF Verified, Ambiguous, Applying
  <2>3. CASE ~Semantica
    <3>1. SQLite
      BY <2>3, Constants DEF DerivInv, TypeOK, Setups, Semantica, SQLite
    <3>2. \A r \in Refs : Covered(r[1])'
      BY <1>1, <3>1 DEF DerivInv, Alone, Covered, outside
    <3> QED
      BY <2>1, <3>2 DEF Verified, Current
  <2> QED
    BY <2>2, <2>3
<1> QED
  BY <1>8, <1>9, <1>10, <1>12, <1>14, <1>15 DEF DerivInv

LEMMA FailKept == ASSUME DerivInv, NEW i \in Callers, Fail(i) PROVE DerivInv'
<1>1. /\ ~At(i, "idle") /\ UNCHANGED <<setup, index, outside, puts>>
      /\ failures' \in 0..MaxFailures
  BY Constants DEF Fail, At, Applying, DerivInv, TypeOK
<1> QED
  BY <1>1, FailedKept DEF Fail

\* Whatever apply was under way has failed.
LEMMA RestartKept == DerivInv /\ Restart => DerivInv'
<1> SUFFICES ASSUME DerivInv, Restart PROVE DerivInv'
  OBVIOUS
<1>1. \A i \in Callers : caller'[i] = IF caller[i].pc \in Applying
                                      THEN [caller[i] EXCEPT !.pc = "failed"] ELSE caller[i]
  BY DEF Restart
<1>2. ASSUME NEW i \in Callers
      PROVE  /\ caller'[i] \in CallerStates /\ caller'[i].refs = caller[i].refs
             /\ caller'[i].todo = caller[i].todo /\ caller'[i].pc \notin Applying
  <2>1. caller[i] \in CallerStates
    BY DEF DerivInv, TypeOK
  <2>2. CASE caller[i].pc \in Applying
    BY <1>1, <2>1, <2>2 DEF CallerStates, Applying
  <2>3. CASE caller[i].pc \notin Applying
    BY <1>1, <2>1, <2>3
  <2> QED
    BY <2>2, <2>3
<1>3. caller' \in [Callers -> CallerStates]
  BY <1>2 DEF Restart
<1>4. Empty \in Tables /\ failures' \in 0..MaxFailures
  BY Constants DEF Empty, Tables, Restart, DerivInv, TypeOK
<1>5. TypeOK'
  BY <1>3, <1>4 DEF DerivInv, TypeOK, Restart
<1>6. GenerationsAgree' /\ ReceiptsTrue'
  BY DEF GenerationsAgree, ReceiptsTrue, Restart, Empty
<1>7. Alone'
  BY <1>1, NoPlanTyped DEF DerivInv, Alone, Restart, SQLite, Semantica, Applying
<1>8. \A i \in Callers : Verified(i)'
  BY <1>2 DEF DerivInv, Verified, Applying
<1> QED
  BY <1>5, <1>6, <1>7, <1>8 DEF DerivInv

-----------------------------------------------------------------------------
(* Every step.                                                              *)

LEMMA RefuseKept == ASSUME DerivInv, NEW i \in Callers, Refuse(i) PROVE DerivInv'
<1>1. /\ ~At(i, "idle") /\ UNCHANGED <<setup, index, outside, puts>>
      /\ failures' \in 0..MaxFailures
  BY DEF Refuse, At, counters, DerivInv, TypeOK
<1> QED
  BY <1>1, FailedKept DEF Refuse

LEMMA FinishKept == ASSUME DerivInv, NEW i \in Callers, Finish(i) PROVE DerivInv'
<1>1. /\ ~At(i, "idle") /\ UNCHANGED <<setup, index, outside, puts>>
      /\ failures' \in 0..MaxFailures /\ (Goes(i, "returned") \/ Goes(i, "failed"))
  BY DEF Finish, At, counters, DerivInv, TypeOK
<1> QED
  BY <1>1, FailedKept

LEMMA NextKept == DerivInv /\ [Next]_vars => DerivInv'
<1> SUFFICES ASSUME DerivInv, [Next]_vars PROVE DerivInv'
  OBVIOUS
<1>1. CASE Derive
  BY <1>1, AddNodeKept, PutRowKept, PutOverKept DEF Derive
<1>2. CASE Restart
  BY <1>2, RestartKept
<1>3. ASSUME NEW i \in Callers, Step(i) PROVE DerivInv'
  BY <1>3, PlanKept, StartKept, CheckScopeKept, RefuseKept, DeleteRowKept, DeleteNodeKept,
     InvalidateKept, VerifyKept, ReceiptKept, FinishKept DEF Step
<1>4. ASSUME NEW i \in Callers, Fail(i) \/ Expire(i) \/ Retry(i) \/ Replan(i) PROVE DerivInv'
  BY <1>4, FailKept, ExpireKept, RetryKept, ReplanKept
<1>5. ASSUME NEW i \in Callers, NEW r \in Refs, KeepNode(i, r) PROVE DerivInv'
  BY <1>5, KeepNodeKept
<1>6. ASSUME NEW i \in Callers, NEW r \in Refs, NEW failed \in SUBSET Stores,
             Withhold(i, r, failed)
      PROVE  DerivInv'
  BY <1>6, WithholdKept
<1>7. CASE UNCHANGED vars
  <2>1. UNCHANGED <<setup, index, outside, caller, counters>>
    BY <1>7 DEF vars
  <2>2. UNCHANGED <<setup, rows, shadow, held, sanitized, renewed, adding, orphans, caller,
                  puts, failures>>
    BY <2>1 DEF index, outside, counters
  <2>3. \A o : Covered(o)' <=> Covered(o)
    BY <2>2 DEF Covered
  <2>4. \A i : Verified(i)' <=> Verified(i)
    BY <2>2, <2>3 DEF Verified, Current
  <2> QED
    BY <2>2, <2>4 DEF DerivInv, TypeOK, GenerationsAgree, ReceiptsTrue, Alone, SQLite
<1> QED
  BY <1>1, <1>2, <1>3, <1>4, <1>5, <1>6, <1>7 DEF Next

-----------------------------------------------------------------------------
(* The theorems.                                                            *)

\* DerivInv is an invariant.
LEMMA DerivInvariant == Spec => []DerivInv
<1>1. Init => DerivInv
  BY InitDerived
<1>2. DerivInv /\ [Next]_vars => DerivInv'
  BY NextKept
<1> QED
  BY <1>1, <1>2, PTL DEF Spec

\* The plans, receipts and tables of src/palimnex/adapters.py and semantica.py keep
\* to their types.
THEOREM DerivativesTyped == Spec => []TypeOK
BY DerivInvariant, PTL DEF DerivInv

\* However puts, projections, deletions and failures fall, the main table and the
\* projection never have two generations of an object: enumerate_derivatives does
\* not meet what it would refuse.
THEOREM AgreementHolds == Spec => []GenerationsAgree
BY DerivInvariant, PTL DEF DerivInv

\* Whichever stores fail, are not configured or get the object again: an erasure
\* receipt that the Semantica adapter holds is true.
THEOREM ReceiptsHold == Spec => []ReceiptsTrue
BY DerivInvariant, PTL DEF DerivInv

\* Nothing but Finish returns receipts.
LEMMA ReturnsByFinish ==
    ASSUME DerivInv, [Next]_vars, NEW i \in Callers, At(i, "erasing"), caller'[i].pc = "returned"
    PROVE  Finish(i)
<1>1. ASSUME NEW j \in Callers, NEW c, caller' = [caller EXCEPT ![j] = c], c.pc # "returned"
      PROVE  FALSE
  BY <1>1 DEF DerivInv, TypeOK, At
<1>2. caller' # caller
  BY DEF At
<1>3. ~Derive /\ ~Restart
  <2>1. ~Derive
    BY <1>2 DEF Derive, AddNode, PutRow, PutOver
  <2>2. ASSUME Restart PROVE FALSE
    <3>1. caller[i] \in CallerStates /\ caller'[i] = [caller[i] EXCEPT !.pc = "failed"]
      BY <2>2 DEF Restart, At, Applying, DerivInv, TypeOK
    <3> QED
      BY <3>1 DEF CallerStates
  <2> QED
    BY <2>1, <2>2
<1>4. ~UNCHANGED vars
  BY <1>2 DEF vars
<1>5. ASSUME NEW j \in Callers, NEW pc, Goes(j, pc) PROVE j = i /\ pc = "returned"
  <2>1. caller' = [caller EXCEPT ![j].pc = pc]
    BY <1>5 DEF Goes
  <2>2. caller[i] \in CallerStates /\ caller[j] \in CallerStates
    BY DEF DerivInv, TypeOK
  <2> QED
    BY <2>1, <2>2 DEF DerivInv, TypeOK, At, CallerStates
<1>6. ASSUME NEW j \in Callers, NEW r \in Refs
      PROVE  ~Works(j, r, "deleted")
  <2> SUFFICES ASSUME Works(j, r, "deleted") PROVE FALSE
    OBVIOUS
  <2> DEFINE c == [caller[j] EXCEPT !.pc = "deleted", !.current = r]
  <2>1. caller[j] \in CallerStates
    BY DEF DerivInv, TypeOK
  <2>2. c.pc # "returned" /\ caller' = [caller EXCEPT ![j] = c]
    BY <2>1 DEF CallerStates, Works
  <2> HIDE DEF c
  <2> QED
    BY <2>2, <1>1
<1>7. ASSUME NEW j \in Callers, Step(j) PROVE Finish(i)
  <2>1. caller[j] \in CallerStates
    BY DEF DerivInv, TypeOK
  <2>2. ~Plan(j)
    <3> SUFFICES ASSUME Plan(j) PROVE FALSE
      OBVIOUS
    <3> DEFINE c == [NoPlan EXCEPT !.pc = "planned", !.refs = Enumerated(Wanted[j])]
    <3>1. c.pc # "returned" /\ caller' = [caller EXCEPT ![j] = c]
      BY DEF Plan, NoPlan
    <3> HIDE DEF c
    <3> QED
      BY <3>1, <1>1
  <2>3. ~Start(j)
    <3> SUFFICES ASSUME Start(j) PROVE FALSE
      OBVIOUS
    <3> DEFINE c == [caller[j] EXCEPT !.pc = "scoping",
                                      !.beyond = caller[j].refs \ Enumerated(Wanted[j])]
    <3>1. c.pc # "returned" /\ (Goes(j, "failed") \/ caller' = [caller EXCEPT ![j] = c])
      BY <2>1 DEF CallerStates, Start
    <3> HIDE DEF c
    <3> QED
      BY <3>1, <1>1, <1>5
  <2>4. ~CheckScope(j)
    <3> SUFFICES ASSUME CheckScope(j) PROVE FALSE
      OBVIOUS
    <3> DEFINE c(pc) == [caller[j] EXCEPT !.pc = pc, !.beyond = {}, !.todo = caller[j].refs]
    <3>1. PICK pc \in {"erasing", "failed"} : caller' = [caller EXCEPT ![j] = c(pc)]
      BY DEF CheckScope
    <3>2. c(pc).pc # "returned"
      BY <2>1 DEF CallerStates
    <3> QED
      BY <3>1, <3>2, <1>1
  <2>5. ~Refuse(j) /\ ~Invalidate(j) /\ ~Verify(j)
    BY <1>5 DEF Refuse, Invalidate, Verify
  <2>6. ~Receipt(j)
    <3> SUFFICES ASSUME Receipt(j) PROVE FALSE
      OBVIOUS
    <3> DEFINE c(pc) == [caller[j] EXCEPT !.pc = pc, !.todo = @ \ {Current(j)}, !.current = NoRef]
    <3>1. PICK pc \in {"erasing", "failed"} : caller' = [caller EXCEPT ![j] = c(pc)]
      BY DEF Receipt
    <3>2. c(pc).pc # "returned"
      BY <2>1 DEF CallerStates
    <3> QED
      BY <3>1, <3>2, <1>1
  <2>7. ASSUME NEW r \in Refs, DeleteRow(j, r) \/ DeleteNode(j, r) PROVE FALSE
    BY <2>7, <1>6 DEF DeleteRow, DeleteNode
  <2>8. CASE Finish(j)
    <3>1. j = i
      BY <2>8, <1>5 DEF Finish
    <3> QED
      BY <2>8, <3>1
  <2> QED
    BY <1>7, <2>2, <2>3, <2>4, <2>5, <2>6, <2>7, <2>8 DEF Step
<1>8. ASSUME NEW j \in Callers PROVE ~Fail(j) /\ ~Expire(j) /\ ~Retry(j) /\ ~Replan(j)
  <2>1. caller[j] \in CallerStates
    BY DEF DerivInv, TypeOK
  <2>2. ~Fail(j)
    BY <1>5 DEF Fail
  <2>3. ~Expire(j)
    <3> DEFINE c == [caller[j] EXCEPT !.expired = TRUE]
    <3>1. SUFFICES ASSUME Expire(j) PROVE FALSE
      OBVIOUS
    <3>2. c.pc # "returned" /\ caller' = [caller EXCEPT ![j] = c]
      BY <2>1, <3>1 DEF Expire, CallerStates, Applying
    <3> QED
      BY <3>2, <1>1
  <2>4. ~Retry(j)
    <3> SUFFICES ASSUME Retry(j) PROVE FALSE
      OBVIOUS
    <3> DEFINE c == [caller[j] EXCEPT !.pc = "planned", !.todo = {}, !.current = NoRef]
    <3>1. c.pc # "returned" /\ caller' = [caller EXCEPT ![j] = c]
      BY <2>1 DEF CallerStates, Retry
    <3> HIDE DEF c
    <3> QED
      BY <3>1, <1>1
  <2>5. ~Replan(j)
    BY <1>1, NoPlanTyped DEF Replan
  <2> QED
    BY <2>2, <2>3, <2>4, <2>5
<1>9. ASSUME NEW j \in Callers, NEW r \in Refs PROVE ~KeepNode(j, r)
  BY <1>5 DEF KeepNode
<1>10. ASSUME NEW j \in Callers, NEW r \in Refs, NEW failed \in SUBSET Stores
       PROVE  ~Withhold(j, r, failed)
  BY <1>5 DEF Withhold
<1> QED
  BY <1>3, <1>4, <1>7, <1>8, <1>9, <1>10 DEF Next

\* The last look of apply sees every generation in the two tables, since they agree.
LEMMA FinishGone ==
    ASSUME DerivInv, NEW i \in Callers, Finish(i), caller'[i].pc = "returned"
    PROVE  \A o \in Objects :
               /\ \A g \in {rows[o], shadow[o]} \ {None} : g.event \notin Wanted[i]
               /\ o \in held[Graph] /\ (\E r \in caller[i].refs : r[1] = o) =>
                      o \in adding \/ rows[o] # None \/ shadow[o] # None
<1>1. Enumerated(Wanted[i]) = {} /\ caller[i].todo = {} /\ caller[i].pc = "erasing"
  BY DEF Finish, Goes, At, DerivInv, TypeOK, CallerStates
<1>2. ASSUME NEW o \in Objects, NEW g \in {rows[o], shadow[o]} \ {None}
      PROVE  g.event \notin Wanted[i]
  <2>1. g \in Generation /\ g \in Found(o)
    BY <1>2 DEF DerivInv, TypeOK, Tables, GenerationsAgree, Found
  <2>2. <<o, g.version>> \in Refs
    BY <2>1 DEF Refs, Generation
  <2>3. SUFFICES ASSUME g.event \in Wanted[i] PROVE FALSE
    OBVIOUS
  <2>4. <<o, g.version>> \in Enumerated(Wanted[i])
    BY <2>1, <2>2, <2>3 DEF Enumerated
  <2> QED
    BY <1>1, <2>4
<1>3. \A r \in caller[i].refs : Covered(r[1])
  BY <1>1 DEF DerivInv, Verified, Applying
<1> QED
  BY <1>2, <1>3 DEF Covered

\* What apply returns is true: nothing in the index is derived from the events, and
\* the graph holds none of the objects of the receipts that was not put or added again.
THEOREM ReturnedGone == Spec => ReturnedIsGone
<1>1. DerivInv /\ [Next]_vars =>
          [\A i \in Callers : At(i, "erasing") /\ caller'[i].pc = "returned" =>
               \A o \in Objects :
                   /\ \A g \in {rows[o], shadow[o]} \ {None} : g.event \notin Wanted[i]
                   /\ o \in held[Graph] /\ (\E r \in caller[i].refs : r[1] = o) =>
                          o \in adding \/ rows[o] # None \/ shadow[o] # None]_vars
  BY ReturnsByFinish, FinishGone
<1> QED
  BY <1>1, DerivInvariant, PTL DEF Spec, ReturnedIsGone

-----------------------------------------------------------------------------
(* What the stores hold has a trace.                                        *)

\* Why Traced is inductive: between the deletion of a row and the invalidation of its
\* projection, the stores do not hold the object, or something else has it.
Dropped(i) ==
    Semantica /\ At(i, "deleted") =>
        \A s \in Reached : Current(i)[1] \in held[s] =>
            Current(i)[1] \in adding \cup orphans \/ rows[Current(i)[1]] # None
TraceInv == /\ DerivInv /\ Traced
            /\ SQLite => \A s \in Stores : held[s] = {}
            /\ \A i \in Callers : Dropped(i)

LEMMA ReachedStores == TypeOK => Reached \subseteq Stores /\ Graph \in Reached
BY Constants DEF TypeOK, Setups, Reached

LEMMA InitTraced == Init => TraceInv
<1> SUFFICES ASSUME Init PROVE TraceInv
  OBVIOUS
<1>1. DerivInv /\ Reached \subseteq Stores
  BY InitDerived, ReachedStores DEF DerivInv
<1>2. Semantica /\ rows # Empty => Objects \subseteq Indexed
  BY Constants DEF Init, Indexed
<1>3. \A s \in Stores : held[s] \subseteq Indexed
  BY <1>2 DEF Init
<1>4. SQLite => \A s \in Stores : held[s] = {}
  BY DEF Init, SQLite, Semantica
<1>5. \A i \in Callers : Dropped(i)
  BY NoPlanTyped DEF Init, Dropped, At
<1> QED
  BY <1>1, <1>3, <1>4, <1>5 DEF TraceInv, Traced

\* A step that leaves the index and the stores, and deletes nothing.
LEMMA QuietTraced ==
    ASSUME TraceInv, DerivInv', UNCHANGED <<setup, index, outside>>,
           \A j \in Callers : At(j, "deleted")' =>
               At(j, "deleted") /\ caller'[j].current = caller[j].current
    PROVE  TraceInv'
<1>1. UNCHANGED <<setup, rows, shadow, held, adding, orphans>>
  BY DEF index, outside
<1>2. Traced' /\ (SQLite => \A s \in Stores : held[s] = {})'
  BY <1>1 DEF TraceInv, Traced, Reached, Indexed, SQLite
<1>3. \A j \in Callers : Dropped(j)'
  BY <1>1 DEF TraceInv, Dropped, Reached, Current, Semantica
<1> QED
  BY <1>2, <1>3 DEF TraceInv

LEMMA MovesTraced ==
    ASSUME TraceInv, DerivInv', UNCHANGED <<setup, index, outside>>,
           NEW i \in Callers, NEW c, c.pc # "deleted", caller' = [caller EXCEPT ![i] = c]
    PROVE  TraceInv'
<1>1. \A j \in Callers : caller'[j] = IF j = i THEN c ELSE caller[j]
  BY DEF TraceInv, DerivInv, TypeOK
<1> QED
  BY <1>1, QuietTraced DEF At

LEMMA GoesTraced ==
    ASSUME TraceInv, DerivInv', UNCHANGED <<setup, index, outside>>,
           NEW i \in Callers, NEW pc \in {"failed", "verified", "returned"}, Goes(i, pc)
    PROVE  TraceInv'
<1> DEFINE c == [caller[i] EXCEPT !.pc = pc]
<1>1. c.pc # "deleted" /\ caller' = [caller EXCEPT ![i] = c]
  BY DEF TraceInv, DerivInv, TypeOK, CallerStates, Goes
<1> HIDE DEF c
<1> QED
  BY <1>1, MovesTraced

\* Plans, looks and failures.
LEMMA QuietStepTraced ==
    ASSUME TraceInv, DerivInv', NEW i \in Callers,
           \/ Plan(i) \/ Start(i) \/ CheckScope(i) \/ Refuse(i) \/ Verify(i) \/ Receipt(i)
           \/ Finish(i) \/ Fail(i) \/ Expire(i) \/ Retry(i) \/ Replan(i)
    PROVE  TraceInv'
<1>1. UNCHANGED <<setup, index, outside>>
  BY DEF Plan, Start, CheckScope, Refuse, Verify, Receipt, Finish, Fail, Expire, Retry, Replan
<1>2. caller[i] \in CallerStates
  BY DEF TraceInv, DerivInv, TypeOK
<1>3. CASE Plan(i)
  <2> DEFINE c == [NoPlan EXCEPT !.pc = "planned", !.refs = Enumerated(Wanted[i])]
  <2>1. c.pc # "deleted" /\ caller' = [caller EXCEPT ![i] = c]
    BY <1>3 DEF Plan, NoPlan
  <2> HIDE DEF c
  <2> QED
    BY <1>1, <2>1, MovesTraced
<1>4. CASE Start(i)
  <2> DEFINE c == [caller[i] EXCEPT !.pc = "scoping",
                                    !.beyond = caller[i].refs \ Enumerated(Wanted[i])]
  <2>1. c.pc # "deleted" /\ (Goes(i, "failed") \/ caller' = [caller EXCEPT ![i] = c])
    BY <1>2, <1>4 DEF CallerStates, Start
  <2> HIDE DEF c
  <2> QED
    BY <1>1, <2>1, MovesTraced, GoesTraced
<1>5. CASE CheckScope(i)
  <2> DEFINE c(pc) == [caller[i] EXCEPT !.pc = pc, !.beyond = {}, !.todo = caller[i].refs]
  <2>1. PICK pc \in {"erasing", "failed"} : caller' = [caller EXCEPT ![i] = c(pc)]
    BY <1>5 DEF CheckScope
  <2>2. c(pc).pc # "deleted"
    BY <1>2 DEF CallerStates
  <2> QED
    BY <1>1, <2>1, <2>2, MovesTraced
<1>6. CASE Refuse(i) \/ Verify(i) \/ Finish(i) \/ Fail(i)
  <2>1. \E pc \in {"failed", "verified", "returned"} : Goes(i, pc)
    BY <1>6 DEF Refuse, Verify, Finish, Fail
  <2> QED
    BY <1>1, <2>1, GoesTraced
<1>7. CASE Receipt(i)
  <2> DEFINE c(pc) == [caller[i] EXCEPT !.pc = pc, !.todo = @ \ {Current(i)}, !.current = NoRef]
  <2>1. PICK pc \in {"erasing", "failed"} : caller' = [caller EXCEPT ![i] = c(pc)]
    BY <1>7 DEF Receipt
  <2>2. c(pc).pc # "deleted"
    BY <1>2 DEF CallerStates
  <2> QED
    BY <1>1, <2>1, <2>2, MovesTraced
<1>8. CASE Expire(i)
  <2>1. caller' = [caller EXCEPT ![i].expired = TRUE] /\ caller \in [Callers -> CallerStates]
    BY <1>8 DEF Expire, TraceInv, DerivInv, TypeOK
  <2>2. \A j \in Callers : caller'[j].pc = caller[j].pc /\ caller'[j].current = caller[j].current
    BY <2>1 DEF CallerStates
  <2> QED
    BY <1>1, <2>2, QuietTraced DEF At
<1>9. CASE Retry(i)
  <2> DEFINE c == [caller[i] EXCEPT !.pc = "planned", !.todo = {}, !.current = NoRef]
  <2>1. c.pc # "deleted" /\ caller' = [caller EXCEPT ![i] = c]
    BY <1>2, <1>9 DEF CallerStates, Retry
  <2> HIDE DEF c
  <2> QED
    BY <1>1, <2>1, MovesTraced
<1>10. CASE Replan(i)
  BY <1>1, <1>10, NoPlanTyped, MovesTraced DEF Replan
<1> QED
  BY <1>3, <1>4, <1>5, <1>6, <1>7, <1>8, <1>9, <1>10

\* A put brings its object (back) into the index.
LEMMA DeriveTraced == ASSUME TraceInv, DerivInv', Derive PROVE TraceInv'
<1>0. TypeOK /\ None \notin Generation
  BY Constants DEF TraceInv, DerivInv
<1>1. ASSUME NEW o \in Objects, NEW g \in Generation, PutRow(o, g) PROVE TraceInv'
  <2>1. SQLite /\ UNCHANGED <<setup, held, caller>>
    BY <1>1 DEF PutRow, outside
  <2>2. (\A s \in Stores : held[s] = {})' /\ (Reached \subseteq Stores)'
    BY <2>1, ReachedStores DEF TraceInv, DerivInv, Reached
  <2>3. ~Semantica'
    BY <2>1 DEF SQLite, Semantica
  <2> QED
    BY <2>2, <2>3 DEF TraceInv, Traced, Dropped
<1>2. ASSUME NEW o \in Objects, NEW g \in Generation, PutOver(o, g) PROVE TraceInv'
  <2>1. /\ UNCHANGED <<setup, held, caller>> /\ adding' = adding \ {o}
        /\ orphans' = orphans \ {o} /\ rows' = [rows EXCEPT ![o] = g]
        /\ shadow' = [shadow EXCEPT ![o] = g] /\ ~SQLite
    BY <1>2 DEF PutOver, Semantica, SQLite
  <2>2. /\ rows'[o] # None /\ Indexed \cup {o} \subseteq Indexed'
        /\ \A p \in Objects \ {o} : rows'[p] = rows[p]
    BY <1>0, <2>1 DEF TypeOK, Tables, Indexed
  <2>3. Reached' = Reached /\ \A i : Current(i)' = Current(i)
    BY <2>1 DEF Reached, Current
  <2>4. Traced'
    BY <2>1, <2>2, <2>3 DEF TraceInv, Traced
  <2>5. ASSUME NEW i \in Callers PROVE Dropped(i)'
    <3>1. \A s \in Reached : held[s] \subseteq Objects
      BY <1>0, ReachedStores DEF TypeOK
    <3> QED
      BY <2>1, <2>2, <2>3, <3>1 DEF TraceInv, Dropped, At, Semantica
  <2> QED
    BY <2>1, <2>4, <2>5 DEF TraceInv, SQLite
<1>3. ASSUME NEW o \in Objects, AddNode(o) PROVE TraceInv'
  <2>1. PICK copies \in SUBSET Stores :
            held' = [s \in Stores |-> IF s \in copies THEN held[s] \cup {o} ELSE held[s]]
    BY <1>3 DEF AddNode
  <2>2. /\ UNCHANGED <<setup, rows, shadow, orphans, caller>> /\ adding' = adding \cup {o}
        /\ ~SQLite
    BY <1>3 DEF AddNode, index, Semantica, SQLite
  <2>3. Reached' = Reached /\ Indexed' = Indexed /\ \A i : Current(i)' = Current(i)
    BY <2>2 DEF Reached, Indexed, Current
  <2>4. \A s \in Reached : held'[s] \subseteq held[s] \cup {o}
    BY <1>0, <2>1, ReachedStores
  <2>5. Traced' /\ \A i \in Callers : Dropped(i)'
    BY <2>2, <2>3, <2>4 DEF TraceInv, Traced, Dropped, At, Semantica
  <2> QED
    BY <2>2, <2>5 DEF TraceInv, SQLite
<1> QED
  BY <1>1, <1>2, <1>3 DEF Derive

\* A process that dies leaves orphans.
LEMMA RestartTraced == ASSUME TraceInv, DerivInv', Restart PROVE TraceInv'
<1>1. ~SQLite /\ UNCHANGED <<setup, held>> /\ Reached \subseteq Stores
  BY ReachedStores DEF Restart, Semantica, SQLite, TraceInv, DerivInv
<1>2. Traced'
  BY <1>1 DEF Restart, Traced, Reached
<1>3. ASSUME NEW i \in Callers PROVE ~At(i, "deleted")'
  BY <1>3 DEF TraceInv, DerivInv, TypeOK, Restart, CallerStates, Applying, At
<1> QED
  BY <1>1, <1>2, <1>3 DEF TraceInv, Dropped, SQLite

-----------------------------------------------------------------------------
(* Deletions.                                                               *)

LEMMA DeleteRowTraced ==
    ASSUME TraceInv, DerivInv', NEW i \in Callers, NEW r \in Refs, DeleteRow(i, r)
    PROVE  TraceInv'
<1>1. SQLite /\ UNCHANGED <<setup, held>> /\ Reached \subseteq Stores
  BY ReachedStores DEF DeleteRow, outside, TraceInv, DerivInv
<1>2. (\A s \in Stores : held[s] = {})' /\ Reached' = Reached /\ ~Semantica'
  BY <1>1 DEF TraceInv, Reached, SQLite, Semantica
<1> QED
  BY <1>1, <1>2 DEF TraceInv, Traced, Dropped

\* The only caller at work deletes, and another could not be at a deletion.
LEMMA OthersIdle ==
    ASSUME DerivInv, DerivInv', UNCHANGED setup, Semantica,
           NEW i \in Callers, ~At(i, "idle")
    PROVE  \A j \in Callers \ {i} : ~At(j, "deleted")'
<1>1. setup \in Adapters /\ i \in setup.callers
  BY UsesIt DEF DerivInv, TypeOK
<1>2. PICK k \in Callers : setup.callers = {k}
  BY <1>1, Constants DEF Semantica
<1>3. \A j \in Callers \ {i} : caller'[j] = NoPlan
  BY <1>1, <1>2 DEF DerivInv, Alone
<1> QED
  BY <1>3, NoPlanTyped DEF At

LEMMA DeleteNodeTraced ==
    ASSUME TraceInv, DerivInv', NEW i \in Callers, NEW r \in Refs, DeleteNode(i, r)
    PROVE  TraceInv'
<1> DEFINE left == Erased(r[1], {})
<1>1. /\ DerivInv /\ Semantica /\ ~SQLite /\ UNCHANGED <<setup, shadow, adding, orphans>>
      /\ CanDelete(i, r) /\ Works(i, r, "deleted") /\ ~At(i, "idle")
      /\ held' = [left EXCEPT ![Graph] = @ \ {r[1]}]
  BY DEF TraceInv, DeleteNode, Report, CanDelete, At, Semantica, SQLite
<1>2. /\ r[1] \in Objects /\ \A o \in Objects \ {r[1]} : rows'[o] = rows[o]
  BY <1>1, ReportTyped DEF DeleteNode
<1>3. left \in [Stores -> SUBSET Objects] /\ \A s \in Stores : left[s] \subseteq held[s]
  BY <1>1, <1>2, ErasedTyped
<1>4. \A s \in Reached \ {Graph} : r[1] \notin left[s]
  BY <1>1, ReachedStores DEF DerivInv, Reached, Erased
<1> HIDE DEF left
<1>5. \A s \in Reached : held'[s] \subseteq held[s] \ {r[1]}
  BY <1>1, <1>3, <1>4, ReachedStores DEF DerivInv
<1>6. Reached' = Reached /\ Indexed \ {r[1]} \subseteq Indexed'
  BY <1>1, <1>2 DEF Reached, Indexed
<1>7. Traced'
  BY <1>1, <1>5, <1>6 DEF TraceInv, Traced
<1>8. caller'[i].current = r
  <2>1. caller'[i] = [caller[i] EXCEPT !.pc = "deleted", !.current = r]
    BY <1>1, DeletedSane
  <2>2. caller[i] \in CallerStates
    BY <1>1 DEF DerivInv, TypeOK
  <2> QED
    BY <2>1, <2>2 DEF CallerStates
<1>9. Dropped(i)'
  BY <1>5, <1>6, <1>8 DEF Dropped, Current
<1>10. \A j \in Callers \ {i} : ~At(j, "deleted")'
  BY <1>1, OthersIdle
<1> QED
  BY <1>1, <1>7, <1>9, <1>10 DEF TraceInv, Dropped, SQLite

LEMMA KeepNodeTraced ==
    ASSUME TraceInv, DerivInv', NEW i \in Callers, NEW r \in Refs, KeepNode(i, r)
    PROVE  TraceInv'
<1>1. /\ DerivInv /\ Semantica /\ ~SQLite /\ UNCHANGED <<setup, shadow, adding>>
      /\ orphans' = IF shadow[r[1]] = None THEN orphans \cup {r[1]} ELSE orphans
      /\ ~At(i, "idle") /\ Goes(i, "failed") /\ held' = Erased(r[1], {})
  BY DEF TraceInv, KeepNode, Report, CanDelete, At, Semantica, SQLite
<1>2. /\ r[1] \in Objects /\ \A o \in Objects \ {r[1]} : rows'[o] = rows[o]
  BY <1>1, ReportTyped DEF KeepNode
<1>3. \A s \in Stores : held'[s] \subseteq held[s]
  BY <1>1, <1>2, ErasedTyped
<1>4. Indexed \subseteq Indexed' \cup orphans' /\ orphans \subseteq orphans'
  BY <1>1, <1>2 DEF Indexed
<1>5. Reached' = Reached /\ Reached \subseteq Stores
  BY <1>1, ReachedStores DEF Reached, DerivInv
<1>6. Traced'
  BY <1>1, <1>3, <1>4, <1>5 DEF TraceInv, Traced
<1>7. ~At(i, "deleted")'
  BY <1>1, FailedSane DEF At, DerivInv, TypeOK, CallerStates
<1>8. \A j \in Callers \ {i} : ~At(j, "deleted")'
  BY <1>1, OthersIdle
<1> QED
  BY <1>1, <1>6, <1>7, <1>8 DEF TraceInv, Dropped, SQLite

\* A receipt that is not complete keeps the row.
LEMMA WithholdTraced ==
    ASSUME TraceInv, DerivInv', NEW i \in Callers, NEW r \in Refs,
           NEW failed \in SUBSET Stores, Withhold(i, r, failed)
    PROVE  TraceInv'
<1>1. /\ DerivInv /\ Semantica /\ ~SQLite /\ r[1] \in Objects
      /\ UNCHANGED <<setup, rows, shadow, adding, orphans>>
      /\ ~At(i, "idle") /\ Goes(i, "failed") /\ held' = Erased(r[1], failed)
  BY DEF TraceInv, Withhold, CanDelete, At, Semantica, SQLite, Refs, index
<1>2. \A s \in Stores : held'[s] \subseteq held[s]
  BY <1>1, ErasedTyped
<1>3. Reached' = Reached /\ Reached \subseteq Stores /\ Indexed' = Indexed
  BY <1>1, ReachedStores DEF Reached, Indexed, DerivInv
<1>4. Traced'
  BY <1>1, <1>2, <1>3 DEF TraceInv, Traced
<1>5. ~At(i, "deleted")'
  BY <1>1, FailedSane DEF At, DerivInv, TypeOK, CallerStates
<1>6. \A j \in Callers \ {i} : ~At(j, "deleted")'
  BY <1>1, OthersIdle
<1> QED
  BY <1>1, <1>4, <1>5, <1>6 DEF TraceInv, Dropped, SQLite

\* What loses its projection is in no store that apply reaches, or has another trace.
LEMMA InvalidateTraced ==
    ASSUME TraceInv, DerivInv', NEW i \in Callers, Invalidate(i) PROVE TraceInv'
<1> DEFINE o == Current(i)[1]
<1>1. /\ DerivInv /\ At(i, "deleted") /\ Goes(i, "invalidated") /\ ~At(i, "idle")
      /\ UNCHANGED <<setup, rows, held, adding, orphans>>
      /\ shadow' = shadow \/ shadow' = [shadow EXCEPT ![o] = None]
  BY DEF TraceInv, Invalidate, outside, At
<1>2. Reached' = Reached /\ Reached \subseteq Stores /\ TypeOK
  BY <1>1, ReachedStores DEF Reached, DerivInv
<1>3. CASE SQLite
  <2>1. \A s \in Stores : held'[s] = {}
    BY <1>1, <1>3 DEF TraceInv
  <2>2. ~Semantica'
    BY <1>1, <1>3 DEF SQLite, Semantica
  <2> QED
    BY <1>2, <2>1, <2>2 DEF TraceInv, Traced, Dropped
<1>4. CASE ~SQLite
  <2>1. Semantica
    BY <1>2, <1>4, Constants DEF TypeOK, Setups, Semantica, SQLite
  <2>2. Indexed \ {o} \subseteq Indexed' /\ (rows[o] # None /\ o \in Objects => o \in Indexed')
    BY <1>1, <1>2 DEF TypeOK, Tables, Indexed
  <2>3. \A s \in Reached : held[s] \subseteq Objects
    BY <1>2 DEF TypeOK
  <2>4. Traced'
    BY <1>1, <1>2, <2>1, <2>2, <2>3 DEF TraceInv, Traced, Dropped
  <2>5. ~At(i, "deleted")'
    BY <1>1, <1>2 DEF At, Goes, TypeOK, CallerStates
  <2>6. \A j \in Callers \ {i} : ~At(j, "deleted")'
    BY <1>1, <2>1, OthersIdle
  <2> QED
    BY <1>1, <1>4, <2>4, <2>5, <2>6 DEF TraceInv, Dropped, SQLite
<1> QED
  BY <1>3, <1>4

LEMMA StepTraced == TraceInv /\ [Next]_vars => TraceInv'
<1> SUFFICES ASSUME TraceInv, [Next]_vars PROVE TraceInv'
  OBVIOUS
<1>1. DerivInv'
  BY NextKept DEF TraceInv
<1>2. CASE Derive \/ Restart
  BY <1>1, <1>2, DeriveTraced, RestartTraced
<1>3. ASSUME NEW i \in Callers, Step(i) PROVE TraceInv'
  BY <1>1, <1>3, QuietStepTraced, DeleteRowTraced, DeleteNodeTraced, InvalidateTraced DEF Step
<1>4. ASSUME NEW i \in Callers, Fail(i) \/ Expire(i) \/ Retry(i) \/ Replan(i) PROVE TraceInv'
  BY <1>1, <1>4, QuietStepTraced
<1>5. ASSUME NEW i \in Callers, NEW r \in Refs, KeepNode(i, r) PROVE TraceInv'
  BY <1>1, <1>5, KeepNodeTraced
<1>6. ASSUME NEW i \in Callers, NEW r \in Refs, NEW failed \in SUBSET Stores,
             Withhold(i, r, failed)
      PROVE  TraceInv'
  BY <1>1, <1>6, WithholdTraced
<1>7. CASE UNCHANGED vars
  BY <1>1, <1>7, QuietTraced DEF vars, At
<1> QED
  BY <1>2, <1>3, <1>4, <1>5, <1>6, <1>7 DEF Next

\* What ErasedAtLast says of the stores, at every moment: the graph, and the stores that
\* the coordinator knows, hold no object without a trace in the index, but for nodes of a
\* projection that has not put their rows, and those that the index has lost.
THEOREM NodesTraced == Spec => []Traced
<1>1. Init => TraceInv
  BY InitTraced
<1>2. TraceInv /\ [Next]_vars => TraceInv'
  BY StepTraced
<1> QED
  BY <1>1, <1>2, PTL DEF Spec, TraceInv

=============================================================================

-------------------------- MODULE RetentionProofs --------------------------
(***************************************************************************)
(* What is erased was unprotected and due, goes with the chain it is in,   *)
(* leaves no fact without support and no receipt that is wrong about the   *)
(* file: for any events, plans, holds, packs, authorizations and crashes.  *)
(***************************************************************************)
EXTENDS Retention, WellFoundedInduction, TLAPS

\* Why it is inductive: links and supports are between events that exist...
Grounded ==
    /\ \A e \in Written : LinksOf[e] \subseteq Written
    /\ \A f \in Fact : support[f] # {} => f \in Written
    /\ Forgotten \subseteq Written
\* ...and between the compaction and the record of it the lock is held.
Emptied == finalizing # 0 => residue = {}

RetentionInv == TypeOK /\ ChainsGoWhole /\ CompactedIsGone /\ Grounded /\ Emptied

-----------------------------------------------------------------------------
(* The operators a plan is made of *)

\* The last authorization exists, so Authority is one of those given, or 0.
LEMMA AuthorityTyped ==
    ASSUME TypeOK, NEW e \in Event, NEW at \in Time
    PROVE  Authority(e, at) \in 0..MaxAuthorizations
<1> DEFINE granted == {i \in DOMAIN authorizations :
                          authorizations[i].event = e /\ authorizations[i].expires >= at}
           Above == {n \in Nat : \A i \in granted : i <= n}
<1>1. /\ Len(authorizations) \in 0..MaxAuthorizations
      /\ DOMAIN authorizations = 1..Len(authorizations)
  BY RetentionAssumption DEF TypeOK
<1>2. granted \subseteq 1..Len(authorizations)
  BY <1>1
<1>3. CASE granted = {}
  BY <1>3, RetentionAssumption DEF Authority
<1>4. CASE granted # {}
  <2>1. Len(authorizations) \in Above
    BY <1>1, <1>2
  <2> HIDE DEF granted
  <2>2. PICK k \in Above : \A m \in Above : k <= m
    <3> DEFINE Less == {pair \in Nat \X Nat : pair[1] < pair[2]}
    <3>1. IsWellFoundedOn(Less, Nat)
      BY NatLessThanWellFounded DEF OpToRel
    <3>2. PICK k \in Above : \A m \in Above : <<m, k>> \notin Less
      <4> HIDE DEF Less, Above
      <4>1. Above \subseteq Nat
        BY DEF Above
      <4> QED
        BY <2>1, <3>1, <4>1, WFMin
    <3>3. \A m \in Nat : m < k => <<m, k>> \in Less
      OBVIOUS
    <3>4. \A m \in Above : m \in Nat /\ k \in Nat /\ ~(m < k)
      BY <3>2, <3>3
    <3> QED
      BY <3>4
  <2>3. k \in granted
    <3>1. SUFFICES ASSUME k \notin granted PROVE FALSE
      OBVIOUS
    <3>2. \A i \in granted : i \in Nat /\ 1 <= i /\ i < k
      BY <1>1, <1>2, <2>2, <3>1
    <3>3. k - 1 \in Above
      BY <1>4, <3>2
    <3> QED
      BY <2>2, <3>3
  <2>4. (CHOOSE i \in granted : \A j \in granted : j <= i) \in granted
    BY <2>2, <2>3
  <2>5. Authority(e, at) \in granted
    BY <1>4, <2>4 DEF Authority, granted
  <2>6. Authority(e, at) \in 1..Len(authorizations)
    BY <1>2, <2>5
  <2> QED
    BY <1>1, <2>6, RetentionAssumption
<1> QED
  BY <1>3, <1>4

\* A closure has the roots it is of, and is itself closed.
LEMMA ClosureClosed ==
    ASSUME TypeOK, Grounded, NEW roots \in SUBSET Written
    PROVE  /\ roots \subseteq Closure(roots) /\ Closure(roots) \subseteq Written
           /\ ClosedUnderLoss(Closure(roots))
           /\ roots = {} => Closure(roots) = {}
<1>1. roots \subseteq Closure(roots) /\ Closure(roots) \subseteq Written
  BY DEF Closure
<1>2. ASSUME NEW e \in Written \ Forgotten, NEW f \in Written \ Forgotten,
             e \in Closure(roots), Linked(e, f)
      PROVE  f \in Closure(roots)
  BY <1>2 DEF Closure, ClosedUnderLoss
<1>3. ASSUME NEW f \in Fact, NEW s \in support[f],
             s.sources \cap Closure(roots) # {}, s.strong \subseteq Closure(roots)
      PROVE  f \in Closure(roots)
  <2>1. f \in Written
    BY DEF Grounded
  <2>2. ASSUME NEW set \in SUBSET Written, roots \subseteq set, ClosedUnderLoss(set)
        PROVE  f \in set
    <3>1. Closure(roots) \subseteq set
      BY <2>2 DEF Closure
    <3> QED
      BY <1>3, <2>2, <3>1 DEF ClosedUnderLoss
  <2> QED
    BY <2>1, <2>2 DEF Closure
<1>4. ClosedUnderLoss({})
  BY DEF ClosedUnderLoss
<1>5. roots = {} => Closure(roots) = {}
  BY <1>4 DEF Closure
<1> QED
  BY <1>1, <1>2, <1>3, <1>5 DEF ClosedUnderLoss

\* What a plan says, where it says anything.
LEMMA AffectedTyped ==
    ASSUME TypeOK, NEW scope \in Scopes, NEW at \in Time
    PROVE  Affected(scope, at) \in UNION {[set -> 0..MaxAuthorizations] : set \in SUBSET Event}
<1> DEFINE roots == {e \in Written : Eligible(e, at, scope)}
<1>1. [e \in {} |-> 0] \in [{} -> 0..MaxAuthorizations]
  OBVIOUS
<1>2. Closure(roots) \in SUBSET Event
  BY DEF Closure, Written
<1>3. [e \in Closure(roots) |-> Authority(e, at)] \in [Closure(roots) -> 0..MaxAuthorizations]
  BY <1>2, AuthorityTyped
<1>4. \/ Affected(scope, at) = [e \in {} |-> 0]
      \/ Affected(scope, at) = [e \in Closure(roots) |-> Authority(e, at)]
  BY DEF Affected
<1> QED
  BY <1>1, <1>2, <1>3, <1>4

\* A plan that does not fail: what it erases is closed, some of it is due now,
\* and nothing of it is blocked now.
LEMMA PlanHolds ==
    ASSUME TypeOK, Grounded, NEW plan \in plans, ~Fails(plan)
    PROVE  /\ EventsOf(plan) \subseteq Written /\ ClosedUnderLoss(EventsOf(plan))
           /\ \E f \in EventsOf(plan) : Eligible(f, now, plan.scope)
           /\ \A e \in EventsOf(plan) : ~Blocked(e, now)
<1> DEFINE roots == {e \in Written : Eligible(e, now, plan.scope)}
<1>1. Affected(plan.scope, now) = plan.affected /\ EventsOf(plan) # {}
  BY DEF Fails
<1>2. /\ ~\E e \in Closure(roots) : Blocked(e, now)
      /\ plan.affected = [e \in Closure(roots) |-> Authority(e, now)]
  BY <1>1 DEF Affected, EventsOf
<1>3. EventsOf(plan) = Closure(roots)
  BY <1>2 DEF EventsOf
<1>4. /\ roots \subseteq Closure(roots) /\ Closure(roots) \subseteq Written
      /\ ClosedUnderLoss(Closure(roots)) /\ roots # {}
  BY <1>1, <1>3, ClosureClosed
<1> QED
  BY <1>2, <1>3, <1>4

\* Only apply erases, and only what its plan names.
LEMMA OnlyErase ==
    ASSUME [Next]_vars, NEW e \in Event, GoesNow(e)
    PROVE  \E plan \in plans : Erase(plan) /\ e \in EventsOf(plan)
<1>1. tombstone'[e] # tombstone[e]
  BY DEF GoesNow, Forgotten
<1>2. PICK plan \in plans : Erase(plan)
  BY <1>1 DEF Next, vars, history, control, erasure, ActivatePolicy, WriteElse, Tick, RecordCompaction,
     Crash, AppendEvent, AuthorizeErasure, CloseSession, Pin, Hold, Release, RegisterPack,
     RegisterSupport, Propose, Refuse, Compact
<1> QED
  BY <1>1, <1>2 DEF Erase

-----------------------------------------------------------------------------
(* The invariant *)

LEMMA InitRetention == Init => RetentionInv
<1> SUFFICES ASSUME Init PROVE RetentionInv
  OBVIOUS
<1> USE RetentionAssumption
<1>1. TypeOK
  <2>1. /\ now \in Time /\ crashes \in 0..MaxCrashes /\ policy \in 0..Len(Policies)
        /\ observed \in [Event -> Time \cup {NotWritten}] /\ ended \in [Session -> Time \cup {Open}]
    BY DEF Init, Time
  <2>2. authorizations \in Seq([event : Event, expires : Nat]) /\ Len(authorizations) = 0
    BY DEF Init
  <2>3. receipts \in Seq(SUBSET Event) /\ Len(receipts) = 0 /\ DOMAIN receipts = {}
    BY DEF Init
  <2> QED
    BY <2>1, <2>2, <2>3 DEF Init, TypeOK
<1>2. Written = History /\ Forgotten = {}
  BY DEF Init, Written, Forgotten, NotWritten
<1>3. ChainsGoWhole
  BY <1>2 DEF ChainsGoWhole
<1> QED
  BY <1>1, <1>2, <1>3 DEF Init, RetentionInv, CompactedIsGone, Grounded, Emptied

\* Plans are only outdated, or taken away.
LEMMA OutdatedTyped == ASSUME NEW set \in SUBSET Plan PROVE Outdated(set) \subseteq Plan
<1> DEFINE Choices == UNION {[chosen -> 0..MaxAuthorizations] : chosen \in SUBSET Event}
<1>1. Plan = [fresh : BOOLEAN, at : Time, scope : Scopes, affected : Choices]
  BY DEF Plan
<1> HIDE DEF Choices
<1>2. \A plan \in set : [plan EXCEPT !.fresh = FALSE] \in Plan
  BY <1>1
<1> QED
  BY <1>2 DEF Outdated

\* A call that leaves events, supports and erasures alone.
LEMMA KeepsRest ==
    ASSUME RetentionInv, TypeOK', UNCHANGED <<observed, support, erasure>>,
           finalizing' \in {finalizing, 0}
    PROVE  RetentionInv'
BY DEF RetentionInv, TypeOK, ChainsGoWhole, CompactedIsGone, Grounded, Emptied, Written, Forgotten, erasure

LEMMA KeepsAppendEvent ==
    ASSUME NEW e \in Event PROVE RetentionInv /\ AppendEvent(e) => RetentionInv'
<1> SUFFICES ASSUME RetentionInv, AppendEvent(e) PROVE RetentionInv'
  OBVIOUS
<1> USE DEF RetentionInv
<1>1. now # NotWritten /\ observed[e] = NotWritten /\ e \notin Forgotten
  BY DEF AppendEvent, Written, Grounded, TypeOK, Time, NotWritten
<1>2. Written' = Written \cup {e} /\ Forgotten' = Forgotten
  BY <1>1 DEF AppendEvent, Written, Forgotten, TypeOK, erasure
<1>3. TypeOK'
  BY OutdatedTyped DEF AppendEvent, Writes, TypeOK, control, erasure, Forgotten
<1>4. Grounded'
  BY <1>2 DEF AppendEvent, Grounded, control
<1>5. ChainsGoWhole'
  <2> SUFFICES ASSUME NEW f \in Written', NEW g \in Written', Linked(f, g)
               PROVE  f \in Forgotten <=> g \in Forgotten
    BY <1>2 DEF ChainsGoWhole
  <2>1. CASE f # e /\ g # e
    BY <1>2, <2>1 DEF ChainsGoWhole
  <2>2. ASSUME NEW h \in Written, Linked(e, h) PROVE h \notin Forgotten
    BY <1>1, <2>2 DEF AppendEvent, Linked, Grounded, Written
  <2> QED
    BY <1>1, <1>2, <2>1, <2>2 DEF Linked
<1> QED
  BY <1>3, <1>4, <1>5 DEF AppendEvent, CompactedIsGone, Emptied, erasure

LEMMA KeepsRegisterSupport ==
    ASSUME NEW s \in Supports PROVE RetentionInv /\ RegisterSupport(s) => RetentionInv'
<1> SUFFICES ASSUME RetentionInv, RegisterSupport(s) PROVE RetentionInv'
  OBVIOUS
<1> USE DEF RetentionInv
<1>1. s \in Support /\ s.fact \in Fact
  BY RetentionAssumption DEF RegisterSupport, Support
<1>2. TypeOK'
  BY <1>1, OutdatedTyped
  DEF RegisterSupport, Writes, TypeOK, history, erasure, Forgotten
<1>3. Grounded'
  BY DEF RegisterSupport, Grounded, TypeOK, Written, Forgotten, history, erasure
<1> QED
  BY <1>2, <1>3
  DEF RegisterSupport, ChainsGoWhole, CompactedIsGone, Emptied, Written, Forgotten, history, erasure

\* The calls that write to the control log, and the clock.
LEMMA KeepsControl ==
    RetentionInv /\ ( \/ ActivatePolicy \/ WriteElse \/ Tick \/ Crash
                      \/ \E s \in Session : CloseSession(s) \/ \E e \in Readable : Pin(s, e)
                      \/ \E set \in Holdings : Hold(set) \/ Release(set) \/ RegisterPack(set) )
    => RetentionInv'
<1> SUFFICES ASSUME RetentionInv,
                    \/ ActivatePolicy \/ WriteElse \/ Tick \/ Crash
                    \/ \E s \in Session : CloseSession(s) \/ \E e \in Readable : Pin(s, e)
                    \/ \E set \in Holdings : Hold(set) \/ Release(set) \/ RegisterPack(set)
             PROVE  RetentionInv'
  OBVIOUS
<1>1. /\ UNCHANGED <<observed, support, erasure, authorizations>>
      /\ finalizing' \in {finalizing, 0} /\ plans' \in {plans, Outdated(plans)}
  BY DEF ActivatePolicy, WriteElse, Tick, Crash, CloseSession, Pin, Hold, Release, RegisterPack,
         Writes, control, history, erasure
<1>2. now' \in Time /\ crashes' \in 0..MaxCrashes /\ policy' \in 0..Len(Policies)
  <2>1. {MaxTime, MaxCrashes, Len(Policies)} \subseteq Nat
    BY RetentionAssumption
  <2>2. now \in Time /\ crashes \in 0..MaxCrashes /\ policy \in 0..Len(Policies)
    BY DEF RetentionInv, TypeOK
  <2>3. CASE ActivatePolicy
    BY <2>1, <2>2, <2>3 DEF ActivatePolicy
  <2>4. CASE Tick
    BY <2>1, <2>2, <2>4 DEF Tick, Time, control
  <2>5. CASE Crash
    BY <2>1, <2>2, <2>5 DEF Crash, control
  <2> QED
    BY <2>2, <2>3, <2>4, <2>5
    DEF WriteElse, CloseSession, Pin, Hold, Release, RegisterPack, control
<1>3. ended' \in [Session -> Time \cup {Open}]
  BY DEF RetentionInv, TypeOK, ActivatePolicy, WriteElse, Tick, Crash, CloseSession, Pin, Hold,
         Release, RegisterPack, history
<1>4. holds' \subseteq Holdings /\ packs' \subseteq Holdings /\ pins' \subseteq Session \X Event
  <2>1. /\ holds \subseteq Holdings /\ packs \subseteq Holdings /\ pins \subseteq Session \X Event
        /\ Readable \subseteq Event
    BY RetentionAssumption DEF RetentionInv, TypeOK
  <2>2. ASSUME NEW s \in Session, CloseSession(s) \/ \E e \in Readable : Pin(s, e)
        PROVE  holds' = holds /\ packs' = packs /\ pins' \subseteq Session \X Event
    <3>1. CASE CloseSession(s)
      BY <2>1, <3>1 DEF CloseSession, control
    <3>2. ASSUME NEW e \in Readable, Pin(s, e)
          PROVE  holds' = holds /\ packs' = packs /\ pins' \subseteq Session \X Event
      <4>1. <<s, e>> \in Session \X Event
        BY <2>1
      <4> QED
        BY <2>1, <3>2, <4>1 DEF Pin
    <3> QED
      BY <2>2, <3>1, <3>2
  <2>3. CASE \E set \in Holdings : Hold(set) \/ Release(set) \/ RegisterPack(set)
    BY <2>1, <2>3 DEF Hold, Release, RegisterPack
  <2> QED
    BY <2>1, <2>2, <2>3 DEF ActivatePolicy, WriteElse, Tick, Crash, control
<1>5. plans' \subseteq Plan
  BY <1>1, OutdatedTyped DEF RetentionInv, TypeOK
<1>6. TypeOK'
  BY <1>1, <1>2, <1>3, <1>4, <1>5 DEF RetentionInv, TypeOK, erasure, Forgotten
<1> QED
  BY <1>1, <1>6, KeepsRest

LEMMA KeepsAuthorizeErasure ==
    ASSUME NEW e \in Event PROVE RetentionInv /\ AuthorizeErasure(e) => RetentionInv'
<1> SUFFICES ASSUME RetentionInv, AuthorizeErasure(e) PROVE RetentionInv'
  OBVIOUS
<1>1. [event |-> e, expires |-> now + AuthorityTime] \in [event : Event, expires : Nat]
  BY RetentionAssumption DEF RetentionInv, TypeOK, Time, AuthorityTime
<1>2. /\ authorizations' \in Seq([event : Event, expires : Nat])
      /\ Len(authorizations') <= MaxAuthorizations
  BY <1>1, RetentionAssumption DEF AuthorizeErasure, RetentionInv, TypeOK
<1>3. TypeOK'
  BY <1>2, OutdatedTyped DEF AuthorizeErasure, Writes, RetentionInv, TypeOK, history, erasure, Forgotten
<1> QED
  BY <1>3, KeepsRest DEF AuthorizeErasure, history

LEMMA KeepsPropose ==
    ASSUME NEW scope \in Scopes, RetentionInv, Propose(scope) PROVE RetentionInv'
<1>1. [fresh |-> TRUE, at |-> now, scope |-> scope, affected |-> Affected(scope, now)] \in Plan
  BY AffectedTyped DEF RetentionInv, TypeOK, Plan
<1>2. TypeOK'
  BY <1>1 DEF Propose, RetentionInv, TypeOK, history, control, erasure, Forgotten
<1> QED
  BY <1>2, KeepsRest DEF Propose, history, control

LEMMA KeepsRefuse ==
    ASSUME NEW plan \in plans, RetentionInv, Refuse(plan) PROVE RetentionInv'
<1>1. TypeOK'
  BY OutdatedTyped DEF Refuse, RetentionInv, TypeOK, history, control, erasure, Forgotten
<1> QED
  BY <1>1, KeepsRest DEF Refuse, history, control

\* What a support is after an erasure.
LEMMA RecomputedTyped ==
    ASSUME NEW set, support \in [Fact -> SUBSET Support]
    PROVE  /\ Recomputed(set) \in [Fact -> SUBSET Support]
           /\ \A f \in Fact : Recomputed(set)[f] # {} => support[f] # {}
<1>1. ASSUME NEW s \in Support
      PROVE  [s EXCEPT !.sources = @ \ set, !.strong = @ \ set] \in Support
  BY DEF Support
<1> QED
  BY <1>1 DEF Recomputed

LEMMA KeepsErase ==
    ASSUME NEW plan \in plans PROVE RetentionInv /\ Erase(plan) => RetentionInv'
<1> SUFFICES ASSUME RetentionInv, Erase(plan) PROVE RetentionInv'
  OBVIOUS
<1> USE DEF RetentionInv
<1> DEFINE set == EventsOf(plan)
           next == Len(receipts) + 1
<1>1. set \subseteq Written /\ ClosedUnderLoss(set)
  BY PlanHolds DEF Erase
<1>2. Written \subseteq Event /\ Written' = Written
  BY DEF Erase, Written, history
<1>3. /\ receipts' = Append(receipts, set) /\ receipts' \in Seq(SUBSET Event)
      /\ Len(receipts) \in Nat /\ Len(receipts') = next
      /\ DOMAIN receipts' = DOMAIN receipts \cup {next} /\ next \notin DOMAIN receipts
      /\ \A r \in DOMAIN receipts : receipts'[r] = receipts[r]
  BY <1>1, <1>2 DEF Erase, TypeOK
<1>4. tombstone' = [e \in Event |-> IF e \in set THEN next ELSE tombstone[e]]
  BY <1>3 DEF Erase
<1>5. Forgotten' = Forgotten \cup set
  BY <1>1, <1>2, <1>3, <1>4 DEF Forgotten
<1> HIDE DEF set, next
<1>6. TypeOK'
  <2>1. tombstone' \in [Event -> 0..Len(receipts')]
    BY <1>3, <1>4 DEF TypeOK, next
  <2>2. compacted' \subseteq DOMAIN receipts' /\ finalizing' \in 0..Len(receipts')
    BY <1>3 DEF Erase, TypeOK, next
  <2>3. support' \in [Fact -> SUBSET Support]
    BY RecomputedTyped DEF Erase, TypeOK
  <2>4. residue' \subseteq Forgotten'
    BY <1>5 DEF Erase, TypeOK, set
  <2>5. plans' \subseteq Plan
    BY OutdatedTyped DEF Erase, TypeOK
  <2> QED
    BY <1>3, <2>1, <2>2, <2>3, <2>4, <2>5 DEF Erase, TypeOK, history
<1>7. ChainsGoWhole'
  <2> SUFFICES ASSUME NEW e \in Written, NEW f \in Written, Linked(e, f)
               PROVE  e \in Forgotten \cup set <=> f \in Forgotten \cup set
    BY <1>2, <1>5 DEF ChainsGoWhole
  <2>1. Linked(f, e) /\ (e \in Forgotten <=> f \in Forgotten)
    BY DEF ChainsGoWhole, Linked
  <2> QED
    BY <1>1, <2>1 DEF ClosedUnderLoss
<1>8. CompactedIsGone'
  <2> SUFFICES ASSUME NEW r \in compacted PROVE receipts'[r] \cap residue' = {}
    BY DEF CompactedIsGone, Erase
  <2>1. r \in DOMAIN receipts /\ receipts'[r] = receipts[r] /\ r # next
    BY <1>3 DEF TypeOK
  <2>2. \A e \in receipts'[r] : e \in Event /\ tombstone'[e] = r
    <3>1. r \in DOMAIN receipts' /\ receipts'[r] \in SUBSET Event
      BY <1>3, <2>1
    <3> QED
      BY <3>1 DEF Erase, Sound
  <2>3. receipts'[r] \cap set = {}
    BY <1>4, <2>1, <2>2
  <2> QED
    BY <2>1, <2>3 DEF Erase, CompactedIsGone, set
<1>9. Grounded'
  BY <1>1, <1>2, <1>5, RecomputedTyped DEF Erase, Grounded, TypeOK
<1> QED
  BY <1>6, <1>7, <1>8, <1>9 DEF Erase, Emptied, Opens

LEMMA KeepsFinalize ==
    RetentionInv /\ (RecordCompaction \/ \E r \in DOMAIN receipts : Compact(r)) => RetentionInv'
<1>1. ASSUME RetentionInv, NEW r \in DOMAIN receipts, Compact(r) PROVE RetentionInv'
  <2>1. TypeOK'
    BY <1>1 DEF Compact, RetentionInv, TypeOK, history, control, Forgotten
  <2> QED
    BY <1>1, <2>1
    DEF Compact, RetentionInv, ChainsGoWhole, CompactedIsGone, Grounded, Emptied, Written,
        Forgotten, history, control
<1>2. ASSUME RetentionInv, RecordCompaction PROVE RetentionInv'
  <2>1. finalizing \in DOMAIN receipts
    BY <1>2 DEF RecordCompaction, RetentionInv, TypeOK
  <2>2. TypeOK'
    BY <1>2, <2>1, OutdatedTyped
    DEF RecordCompaction, RetentionInv, TypeOK, history, control, Forgotten
  <2> QED
    BY <1>2, <2>2
    DEF RecordCompaction, RetentionInv, ChainsGoWhole, CompactedIsGone, Grounded, Emptied, Written,
        Forgotten, history, control
<1> QED
  BY <1>1, <1>2

\* One step per action of Next.
LEMMA StepRetention == RetentionInv /\ [Next]_vars => RetentionInv'
<1> SUFFICES ASSUME RetentionInv, [Next]_vars PROVE RetentionInv'
  OBVIOUS
<1>1. CASE UNCHANGED vars
  <2>1. TypeOK'
    BY <1>1 DEF RetentionInv, TypeOK, vars, history, control, erasure, Forgotten
  <2> QED
    BY <1>1, <2>1, KeepsRest DEF vars, history, control
<1>2. CASE \E e \in Event : AppendEvent(e) \/ AuthorizeErasure(e)
  BY <1>2, KeepsAppendEvent, KeepsAuthorizeErasure
<1>3. CASE \E s \in Supports : RegisterSupport(s)
  BY <1>3, KeepsRegisterSupport
<1>4. CASE \E scope \in Scopes : Propose(scope)
  <2>1. \A scope \in Scopes : Propose(scope) => RetentionInv'
    BY KeepsPropose
  <2> QED
    BY <1>4, <2>1
<1>5. CASE \E plan \in plans : Refuse(plan) \/ Erase(plan)
  BY <1>5, KeepsRefuse, KeepsErase
<1>6. CASE RecordCompaction \/ \E r \in DOMAIN receipts : Compact(r)
  BY <1>6, KeepsFinalize
<1> QED
  BY <1>1, <1>2, <1>3, <1>4, <1>5, <1>6, KeepsControl DEF Next

\* The invariant of all that follows.
THEOREM RetentionCorrect == Spec => []RetentionInv
<1> QED
  BY InitRetention, StepRetention, PTL DEF Spec

\* Every variable keeps to its type (Retention).
THEOREM RetentionTyped == Spec => []TypeOK
<1>1. RetentionInv => TypeOK
  BY DEF RetentionInv
<1> QED
  BY <1>1, RetentionCorrect, PTL

\* A chain of corrections is erased as a whole or not at all (_propose).
THEOREM ChainsErasedWhole == Spec => []ChainsGoWhole
<1>1. RetentionInv => ChainsGoWhole
  BY DEF RetentionInv
<1> QED
  BY <1>1, RetentionCorrect, PTL

\* What a receipt calls compacted is not in the file any more (finalize).
THEOREM CompactionTrue == Spec => []CompactedIsGone
<1>1. RetentionInv => CompactedIsGone
  BY DEF RetentionInv
<1> QED
  BY <1>1, RetentionCorrect, PTL

\* Nothing held, packed, sent out or in use is erased, whatever plan is applied
\* and whenever (_propose, apply).
THEOREM ProtectedIsKept == Spec => ProtectedStays
<1>1. ASSUME RetentionInv, [Next]_vars, NEW e \in Event, GoesNow(e) PROVE ~Blocked(e, now)
  <2>1. PICK plan \in plans : Erase(plan) /\ e \in EventsOf(plan)
    BY <1>1, OnlyErase
  <2> QED
    BY <1>1, <2>1, PlanHolds DEF Erase, RetentionInv
<1>2. RetentionInv /\ [Next]_vars
      => [\A e \in Event : GoesNow(e) =>
             /\ ~Held(e) /\ ~Sealed(e) /\ ~Active(SessionOf[e], now)
             /\ e \notin Attempted /\ ClassOf[e] # "anchor"]_vars
  BY <1>1 DEF Blocked
<1> QED
  BY <1>2, RetentionCorrect, PTL DEF Spec, ProtectedStays

\* One of the events that go is due at that moment (apply).
THEOREM ErasedWithCause == Spec => ErasedForCause
<1>1. ASSUME RetentionInv, [Next]_vars, NEW e \in Event, GoesNow(e)
      PROVE  \E f \in Event, scope \in Scopes : GoesNow(f) /\ Eligible(f, now, scope)
  <2>1. PICK plan \in plans : Erase(plan)
    BY <1>1, OnlyErase
  <2>2. plan.scope \in Scopes
    BY <1>1 DEF RetentionInv, TypeOK, Plan
  <2>3. PICK f \in Written : Eligible(f, now, plan.scope) /\ f \in EventsOf(plan)
    BY <1>1, <2>1, PlanHolds DEF Erase, RetentionInv
  <2>4. f \in Event /\ f \notin Forgotten
    BY <2>3 DEF Written, Eligible
  <2>5. tombstone'[f] = Len(receipts')  /\ Len(receipts') # 0
    BY <1>1, <2>1, <2>3, <2>4 DEF Erase, RetentionInv, TypeOK
  <2>6. GoesNow(f)
    BY <2>4, <2>5 DEF GoesNow, Forgotten
  <2> QED
    BY <2>2, <2>3, <2>4, <2>6
<1>2. RetentionInv /\ [Next]_vars
      => [\A e \in Event : GoesNow(e) =>
             \E f \in Event, scope \in Scopes : GoesNow(f) /\ Eligible(f, now, scope)]_vars
  BY <1>1
<1> QED
  BY <1>2, RetentionCorrect, PTL DEF Spec, ErasedForCause

\* A fact that outlives a source keeps a strong one (_propose, apply).
THEOREM FactsKeepSupport == Spec => FactsStaySupported
<1>1. ASSUME RetentionInv, [Next]_vars, NEW f \in Fact \ Forgotten', NEW s \in support[f],
             NEW e \in s.sources, GoesNow(e)
      PROVE  \E t \in support'[f] : t.strong # {} /\ t.sources \cap Forgotten' = {}
  <2>1. s \in Support /\ e \in Event /\ f \in Event
    BY <1>1, RetentionAssumption DEF RetentionInv, TypeOK, Support
  <2>2. PICK plan \in plans : Erase(plan) /\ e \in EventsOf(plan)
    BY <1>1, <2>1, OnlyErase
  <2> DEFINE set == EventsOf(plan)
             t == [s EXCEPT !.sources = @ \ set, !.strong = @ \ set]
  <2>3. ClosedUnderLoss(set)
    BY <1>1, <2>2, PlanHolds DEF Erase, RetentionInv
  <2>4. tombstone'[f] = 0 /\ f \notin set
    BY <1>1, <2>1, <2>2 DEF Forgotten, Erase, RetentionInv, TypeOK
  <2>5. t \in support'[f]
    BY <1>1, <2>2, <2>4 DEF Erase, Recomputed
  <2>6. t.strong # {}
    BY <1>1, <2>1, <2>2, <2>3, <2>4 DEF ClosedUnderLoss, Support
  <2>7. \A g \in t.sources : tombstone'[g] = 0
    BY <1>1, <2>2, <2>4, <2>5 DEF Erase, Sound
  <2> QED
    BY <2>5, <2>6, <2>7 DEF Forgotten
<1>2. RetentionInv /\ [Next]_vars
      => [\A f \in Fact \ Forgotten' : \A s \in support[f] :
             (\E e \in s.sources : GoesNow(e)) =>
                 \E t \in support'[f] : t.strong # {} /\ t.sources \cap Forgotten' = {}]_vars
  BY <1>1
<1> QED
  BY <1>2, RetentionCorrect, PTL DEF Spec, FactsStaySupported

=============================================================================

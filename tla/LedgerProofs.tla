---------------------------- MODULE LedgerProofs ----------------------------
(***************************************************************************)
(* Theorems about the ledger, for every value of its constants: any number *)
(* of clients, sessions, events, sources and times: verifications,         *)
(* relations, promotions, histories, what recalls answer and what a pack   *)
(* restores.                                                               *)
(***************************************************************************)
EXTENDS Ledger, FiniteSetTheorems, WellFoundedInduction, TLAPS

-----------------------------------------------------------------------------
(* Lemmas about the operators of the model *)

\* A finite set of integers has a largest element.  (A smallest subset
\* without one would still lack one when an element is taken out of it.)
LEMMA FiniteHasLargest ==
    ASSUME NEW S \in SUBSET Int, IsFiniteSet(S), S # {}
    PROVE  \E x \in S : \A y \in S : x >= y
<1> DEFINE HasMax(A) == \E x \in A : \A y \in A : x >= y
           T == {A \in FiniteSubsetsOf(S) : A # {} /\ ~HasMax(A)}
<1>1. SUFFICES ASSUME ~HasMax(S) PROVE FALSE
  OBVIOUS
<1>2. S \in T
  BY <1>1 DEF FiniteSubsetsOf
<1>3. PICK A \in T : \A B \in T : ~(<<B, A>> \in StrictSubsetOrdering(S))
  <2>1. IsWellFoundedOn(StrictSubsetOrdering(S), FiniteSubsetsOf(S))
    BY FS_StrictSubsetOrderingWellFounded
  <2> QED
    BY <1>2, <2>1, WFMin
<1>4. A \subseteq S /\ IsFiniteSet(A) /\ A # {} /\ ~HasMax(A)
  BY DEF FiniteSubsetsOf
<1>5. PICK x \in A : TRUE
  BY <1>4
<1> DEFINE B == A \ {x}
<1>6. B \subseteq S /\ IsFiniteSet(B)
  BY <1>4, FS_RemoveElement
<1>7. <<B, A>> \in StrictSubsetOrdering(S)
  BY <1>4, <1>5, <1>6 DEF StrictSubsetOrdering
<1>8. B = {} \/ HasMax(B)
  BY <1>3, <1>6, <1>7 DEF FiniteSubsetsOf
<1>9. CASE B = {}
  BY <1>4, <1>5, <1>9
<1>10. CASE HasMax(B)
  <2>1. PICK y \in B : \A z \in B : y >= z
    BY <1>10
  <2>2. x \in Int /\ y \in Int /\ A \subseteq Int /\ \A z \in A : z = x \/ z \in B
    BY <1>4, <1>5, <2>1
  <2>3. (\A z \in A : x >= z) \/ (\A z \in A : y >= z)
    BY <2>1, <2>2
  <2> QED
    BY <1>4, <1>5, <2>1, <2>3
<1> QED
  BY <1>8, <1>9, <1>10

\* `Max' of a finite set of times is its largest member.
LEMMA MaxOfFinite ==
    ASSUME NEW S \in SUBSET Int, IsFiniteSet(S), S # {}
    PROVE  Max(S) \in S /\ \A y \in S : Max(S) >= y
BY FiniteHasLargest DEF Max

LEMMA PairIsFinite ==
    ASSUME NEW a, NEW b
    PROVE  IsFiniteSet({a, b})
<1>1. IsFiniteSet({a})
  BY FS_Singleton, Zenon
<1>2. IsFiniteSet({a} \cup {b})
  BY <1>1, FS_AddElement, Zenon
<1>3. {a, b} = {a} \cup {b}
  OBVIOUS
<1> QED
  BY <1>2, <1>3

LEMMA MaxOfTwo ==
    ASSUME NEW a \in Int, NEW b \in Int
    PROVE  Max({a, b}) \in {a, b} /\ Max({a, b}) >= a /\ Max({a, b}) >= b
BY PairIsFinite, MaxOfFinite

\* The values a function takes on a finite set are finitely many.
LEMMA ImageIsFinite ==
    ASSUME NEW D, IsFiniteSet(D), NEW R, NEW f \in [D -> R]
    PROVE  IsFiniteSet({f[x] : x \in D}) /\ {f[x] : x \in D} \in SUBSET R
<1> DEFINE T == {f[x] : x \in D}
<1>1. f \in Surjection(D, T)
  BY DEF Surjection
<1> QED
  BY <1>1, FS_Surjection

LEMMA FreshIdIs ==
    ASSUME HasFreshId
    PROVE  FreshId \in EventId /\ FreshId \notin Recorded
BY DEF HasFreshId, FreshId

\* `_next_session_observed_at' gives a time that precedes neither the call,
\* nor the session, nor any of its events.
LEMMA ObservedAtIs ==
    ASSUME TypeOK, NEW s \in DOMAIN sessions, NEW requested \in Time
    PROVE  /\ ObservedAt(s, requested) \in Time
           /\ ObservedAt(s, requested) >= requested
           /\ ObservedAt(s, requested) >= sessions[s].started
           /\ \A e \in EventsOf(s) : ObservedAt(s, requested) >= events[e].observed
<1> DEFINE A == {requested, sessions[s].started}
           f == [e \in EventsOf(s) |-> events[e].observed]
           T == {f[e] : e \in EventsOf(s)}
<1>1. sessions[s].started \in Nat /\ requested \in Nat
  BY DEF TypeOK, SessionsTyped, SessionRow, Time
<1>2. IsFiniteSet(A) /\ A \in SUBSET Int /\ A # {}
  <2>1. IsFiniteSet(A)
    BY PairIsFinite, Zenon
  <2> QED
    BY <1>1, <2>1
<1>3. IsFiniteSet(EventsOf(s))
  BY FS_Subset DEF TypeOK, EventsTyped, EventsOf, Recorded
<1>4. f \in [EventsOf(s) -> Int]
  BY DEF TypeOK, EventsTyped, EventsOf, EventRow, Time
<1>5. T = {events[e].observed : e \in EventsOf(s)}
  OBVIOUS
<1> HIDE DEF f
<1>6. IsFiniteSet(T) /\ T \in SUBSET Int
  BY <1>3, <1>4, ImageIsFinite
<1> HIDE DEF A, T
<1>7. IsFiniteSet(A \cup T) /\ A \cup T \in SUBSET Int /\ A \cup T # {}
  BY <1>2, <1>6, FS_Union
<1>8. Max(A \cup T) \in Int /\ \A y \in A \cup T : Max(A \cup T) >= y
  BY <1>7, MaxOfFinite
<1>9. ObservedAt(s, requested) = Max(A \cup T)
  BY <1>5 DEF ObservedAt, A
<1> DEFINE m == ObservedAt(s, requested)
<1>10. m \in Int /\ m >= requested /\ m >= sessions[s].started
  BY <1>8, <1>9 DEF A
<1>11. \A e \in EventsOf(s) : m >= events[e].observed
  BY <1>5, <1>8, <1>9
<1> HIDE DEF m
<1>12. m \in Time
  BY <1>1, <1>10 DEF Time
<1> QED
  BY <1>10, <1>11, <1>12 DEF m

\* The next sequence number is one more than the largest in use.
LEMMA NextSequenceIs ==
    ASSUME TypeOK, NEW s \in DOMAIN sessions
    PROVE  /\ NextSequence(s) \in Nat \ {0}
           /\ \A e \in EventsOf(s) : events[e].seq < NextSequence(s)
           /\ NextSequence(s) = 1 \/ \E e \in EventsOf(s) : events[e].seq = NextSequence(s) - 1
<1> DEFINE f == [e \in EventsOf(s) |-> events[e].seq]
           T == {f[e] : e \in EventsOf(s)}
<1>1. IsFiniteSet({0}) /\ {0} \in SUBSET Int
  <2>1. IsFiniteSet({0})
    BY FS_Singleton, Zenon
  <2> QED
    BY <2>1
<1>2. IsFiniteSet(EventsOf(s))
  BY FS_Subset DEF TypeOK, EventsTyped, EventsOf, Recorded
<1>3. \A e \in EventsOf(s) : events[e].seq \in Nat \ {0}
  BY DEF TypeOK, EventsTyped, EventsOf, EventRow
<1>4. f \in [EventsOf(s) -> Int]
  BY <1>3
<1>5. T = {events[e].seq : e \in EventsOf(s)}
  OBVIOUS
<1> HIDE DEF f
<1>6. IsFiniteSet(T) /\ T \in SUBSET Int
  BY <1>2, <1>4, ImageIsFinite
<1> HIDE DEF T
<1>7. IsFiniteSet({0} \cup T) /\ {0} \cup T \in SUBSET Int /\ {0} \cup T # {}
  BY <1>1, <1>6, FS_Union
<1>8. Max({0} \cup T) \in {0} \cup T /\ \A y \in {0} \cup T : Max({0} \cup T) >= y
  BY <1>7, MaxOfFinite
<1>9. NextSequence(s) = Max({0} \cup T) + 1
  BY <1>5 DEF NextSequence
<1> HIDE DEF NextSequence
<1> DEFINE m == Max({0} \cup T)
<1>10. m \in Int /\ m >= 0 /\ NextSequence(s) = m + 1
  BY <1>7, <1>8, <1>9
<1>11. \A e \in EventsOf(s) : m >= events[e].seq
  BY <1>5, <1>8
<1>12. m = 0 \/ \E e \in EventsOf(s) : events[e].seq = m
  BY <1>5, <1>8
<1> HIDE DEF m
<1> QED
  BY <1>3, <1>10, <1>11, <1>12

LEMMA EvidenceRowFields ==
    ASSUME NEW r \in EvidenceRow
    PROVE  r.at \in Int
<1>1. CASE r \in [kind : {"source"}, source : Source, digest : Content,
                  verified : BOOLEAN, at : Time \cup {NoTime}]
  <2>1. r.at \in Time \cup {NoTime}
    BY <1>1
  <2> QED
    BY <2>1 DEF Time, NoTime
<1>2. CASE r \in [kind : {"external"}, source : {"external"}, digest : {"claimed"},
                  verified : {FALSE}, at : {NoTime}]
  <2>1. r.at \in {NoTime}
    BY <1>2
  <2> QED
    BY <2>1 DEF NoTime
<1> QED
  BY <1>1, <1>2 DEF EvidenceRow

\* The first attempt on an event precedes neither the event nor its evidence.
LEMMA VerifiedAtIs ==
    ASSUME now \in Time, NEW row \in EventRow,
           NEW rows \in SUBSET EvidenceRow, IsFiniteSet(rows)
    PROVE  /\ VerifiedAt(row, rows) \in Time
           /\ VerifiedAt(row, rows) >= row.observed
           /\ \A r \in rows : VerifiedAt(row, rows) >= r.at
<1> DEFINE A == {now, row.observed}
           f == [r \in rows |-> r.at]
           T == {f[r] : r \in rows}
<1>1. now \in Nat /\ row.observed \in Nat
  BY DEF EventRow, Time
<1>2. IsFiniteSet(A) /\ A \in SUBSET Int /\ A # {}
  <2>1. IsFiniteSet(A)
    BY PairIsFinite, Zenon
  <2> QED
    BY <1>1, <2>1
<1>3. f \in [rows -> Int]
  BY EvidenceRowFields
<1>4. T = {r.at : r \in rows}
  OBVIOUS
<1> HIDE DEF f
<1>5. IsFiniteSet({f[r] : r \in rows}) /\ {f[r] : r \in rows} \in SUBSET Int
  BY <1>3, ImageIsFinite
<1> HIDE DEF A
<1>6. IsFiniteSet(A \cup T) /\ A \cup T \in SUBSET Int /\ A \cup T # {}
  BY <1>2, <1>5, FS_Union
<1>7. Max(A \cup T) \in Int /\ \A y \in A \cup T : Max(A \cup T) >= y
  BY <1>6, MaxOfFinite
<1>8. VerifiedAt(row, rows) = Max(A \cup T)
  BY <1>4 DEF VerifiedAt, A
<1> DEFINE m == VerifiedAt(row, rows)
<1>9. m \in Int /\ m >= now /\ m >= row.observed
  BY <1>7, <1>8 DEF A
<1>10. \A r \in rows : m >= r.at
  BY <1>4, <1>7, <1>8
<1> HIDE DEF m
<1>11. m \in Time
  BY <1>1, <1>9 DEF Time
<1> QED
  BY <1>9, <1>10, <1>11 DEF m

\* `_align_verified_evidence' keeps rows well formed, and leaves no verified
\* row before the event.
LEMMA AlignedIs ==
    ASSUME NEW rows \in SUBSET EvidenceRow, IsFiniteSet(rows), NEW observed \in Time
    PROVE  /\ Aligned(rows, observed) \in SUBSET EvidenceRow
           /\ IsFiniteSet(Aligned(rows, observed))
           /\ \A r \in Aligned(rows, observed) : r.verified => r.at >= observed
<1> DEFINE g(r) == [r EXCEPT !.at = IF r.verified THEN Max({r.at, observed}) ELSE r.at]
           f == [r \in rows |-> g(r)]
<1>1. ASSUME NEW r \in rows
      PROVE  g(r) \in EvidenceRow /\ (g(r).verified => g(r).at >= observed)
  <2>1. r.at \in Int /\ observed \in Int /\ observed >= 0
    BY <1>1, EvidenceRowFields DEF Time
  <2>2. /\ Max({r.at, observed}) \in {r.at, observed}
        /\ Max({r.at, observed}) >= r.at /\ Max({r.at, observed}) >= observed
    BY <2>1, MaxOfTwo
  <2> DEFINE m == Max({r.at, observed})
  <2>3. m \in Time /\ m >= observed
    BY <2>1, <2>2 DEF Time
  <2> HIDE DEF m
  <2>4. CASE r.verified
    <3>1. r \in [kind : {"source"}, source : Source, digest : Content, verified : BOOLEAN,
                 at : Time \cup {NoTime}]
      BY <2>4 DEF EvidenceRow
    <3>2. g(r) = [r EXCEPT !.at = m]
      BY <2>4 DEF m
    <3> QED
      BY <2>3, <3>1, <3>2 DEF EvidenceRow
  <2>5. CASE ~r.verified
    <3>1. g(r) = r
      <4>1. g(r) = [r EXCEPT !.at = r.at]
        BY <2>5
      <4> QED
        BY <4>1 DEF EvidenceRow
    <3> QED
      BY <2>5, <3>1
  <2> QED
    BY <2>4, <2>5 DEF EvidenceRow
<1>2. f \in [rows -> EvidenceRow]
  BY <1>1
<1>3. Aligned(rows, observed) = {f[r] : r \in rows}
  BY DEF Aligned
<1> HIDE DEF f
<1>4. IsFiniteSet({f[r] : r \in rows}) /\ {f[r] : r \in rows} \in SUBSET EvidenceRow
  BY <1>2, ImageIsFinite
<1> QED
  BY <1>1, <1>3, <1>4 DEF f

-----------------------------------------------------------------------------
(* Type correctness *)

LEMMA CallOfEvent ==
    ASSUME TypeOK, NEW c \in Client, calls[c].op \in {"append", "close", "workflow"}
    PROVE  calls[c] \in EventCall /\ IsFiniteSet(calls[c].rows)
<1>1. calls[c] # Idle /\ calls[c] \notin SessionCall
  BY DEF Idle, SessionCall
<1> QED
  BY <1>1 DEF TypeOK, CallsTyped

LEMMA CallOfSession ==
    ASSUME TypeOK, NEW c \in Client, calls[c].op \in {"start", "consolidate"}
    PROVE  calls[c] \in SessionCall
<1>1. calls[c] # Idle /\ calls[c] \notin EventCall
  BY DEF Idle, EventCall
<1> QED
  BY <1>1 DEF TypeOK, CallsTyped

\* What a new event does to the tables.
LEMMA InsertTyped ==
    ASSUME TypeOK, SessionsTyped',
           NEW e \in EventId, e \notin Recorded,
           NEW row \in EventRow, row.session \in DOMAIN sessions',
           DOMAIN sessions \subseteq DOMAIN sessions',
           NEW rows \in SUBSET EvidenceRow, IsFiniteSet(rows),
           InsertEvent(e, row, rows),
           promotions' = promotions, workflows' \subseteq workflows \cup {e}
    PROVE  EventsTyped' /\ TrustTyped'
<1> USE DEF Recorded
<1> DEFINE at == VerifiedAt(row, rows)
<1>1. at \in Time
  BY VerifiedAtIs DEF TypeOK, WorldTyped
<1>2. /\ DOMAIN events' = Recorded \cup {e}
      /\ events'[e] = row /\ \A f \in Recorded : events'[f] = events[f]
  BY DEF InsertEvent, Put
<1>3. /\ DOMAIN evidence' = Recorded \cup {e}
      /\ evidence'[e] = rows /\ \A f \in Recorded : evidence'[f] = evidence[f]
  BY DEF InsertEvent, Put, TypeOK, TrustTyped
<1>4. EventsTyped'
  BY <1>2, FS_AddElement DEF TypeOK, EventsTyped
<1>5. Attempt(at, "verified", "none") \in AttemptRow
  BY <1>1 DEF Attempt, AttemptRow, Failures, TypeOK, WorldTyped
<1> DEFINE tries == IF AllVerified(rows) THEN <<Attempt(at, "verified", "none")>> ELSE << >>
<1>6. tries \in Seq(AttemptRow)
  BY <1>5
<1>7. attempts' = Put(attempts, e, tries)
  BY DEF InsertEvent
<1> HIDE DEF tries
<1>8. /\ DOMAIN attempts' = Recorded \cup {e}
      /\ attempts'[e] = tries /\ \A f \in Recorded : attempts'[f] = attempts[f]
  BY <1>7 DEF TypeOK, TrustTyped, Put
<1>9. /\ DOMAIN verifications' \subseteq Recorded \cup {e}
      /\ \A f \in DOMAIN verifications' : verifications'[f] \in [at : Time, policy : Nat]
  <2>1. CASE AllVerified(rows)
    <3>1. verifications' = Put(verifications, e, [at |-> at, policy |-> policy])
      BY <2>1 DEF InsertEvent
    <3>2. [at |-> at, policy |-> policy] \in [at : Time, policy : Nat]
      BY <1>1 DEF TypeOK, WorldTyped
    <3> QED
      BY <3>1, <3>2 DEF TypeOK, TrustTyped, Put
  <2>2. CASE ~AllVerified(rows)
    BY <2>2 DEF InsertEvent, TypeOK, TrustTyped
  <2> QED
    BY <2>1, <2>2
<1> QED
  BY <1>2, <1>3, <1>4, <1>6, <1>8, <1>9 DEF TypeOK, TrustTyped

LEMMA ReturnTyped ==
    ASSUME TypeOK, NEW c \in Client, Return(c)
    PROVE  calls' = [d \in Client |-> calls'[d]] /\ CallsTyped'
<1>1. Idle \notin EventCall
  BY DEF Idle, EventCall
<1>2. calls' = [calls EXCEPT ![c] = Idle]
  BY DEF Return
<1> QED
  BY <1>1, <1>2 DEF TypeOK, CallsTyped

LEMMA WorldUnchanged ==
    ASSUME TypeOK, UNCHANGED world
    PROVE  WorldTyped'
BY DEF TypeOK, WorldTyped, world

LEMMA StartSessionTyped ==
    ASSUME TypeOK, NEW c \in Client, StartSession(c)
    PROVE  TypeOK'
<1> DEFINE call == calls[c]
           start == [session |-> call.session, seq |-> 1, kind |-> "session_started",
                     subject |-> SessionSubject(call.session), observed |-> call.requested,
                     valid |-> call.requested, supersedes |-> NoEvent,
                     contradicts |-> NoEvent, trust |-> "observed",
                     retention |-> "durable", imported |-> FALSE]
           opened == [started |-> call.requested, ended |-> NoTime, imported |-> FALSE]
<1>1. call \in SessionCall
  BY CallOfSession DEF StartSession
<1>2. call.session \in SessionId /\ call.requested \in Time
  BY <1>1 DEF SessionCall
<1>3. start \in EventRow
  BY <1>2 DEF EventRow, EventKinds, AnchorKinds, AnySubject, Retentions, Time
<1>4. opened \in SessionRow
  BY <1>2 DEF SessionRow
<1>5. sessions' = Put(sessions, call.session, opened)
  BY DEF StartSession
<1> HIDE DEF opened
<1>6. SessionsTyped' /\ DOMAIN sessions' = DOMAIN sessions \cup {call.session}
  BY <1>2, <1>4, <1>5 DEF TypeOK, SessionsTyped, Put
<1>7. FreshId \in EventId /\ FreshId \notin Recorded
  BY FreshIdIs DEF StartSession
<1>8. InsertEvent(FreshId, start, {}) /\ promotions' = promotions /\ workflows' = workflows
      /\ UNCHANGED world /\ Return(c)
  BY DEF StartSession
<1>9. IsFiniteSet({}) /\ {} \in SUBSET EvidenceRow
  BY FS_EmptySet
<1>10. start.session = call.session
  OBVIOUS
<1> HIDE DEF start
<1>11. EventsTyped' /\ TrustTyped'
  BY <1>3, <1>6, <1>7, <1>8, <1>9, <1>10, InsertTyped
<1> QED
  BY <1>6, <1>8, <1>11, ReturnTyped, WorldUnchanged DEF TypeOK

LEMMA RowTyped ==
    ASSUME TypeOK, NEW call \in EventCall, call.session \in DOMAIN sessions,
           NEW observed \in Time
    PROVE  Row(call, observed) \in EventRow /\ Row(call, observed).session = call.session
<1>1. NextSequence(call.session) \in Nat \ {0}
  BY NextSequenceIs
<1>2. (IF call.valid = NoTime THEN observed ELSE call.valid) \in Time
  BY DEF EventCall
<1> QED
  BY <1>1, <1>2 DEF Row, EventRow, EventCall

LEMMA RecordEventTyped ==
    ASSUME TypeOK, NEW c \in Client, calls[c].op \in {"append", "close", "workflow"},
           RecordEvent(c), SessionsTyped', DOMAIN sessions \subseteq DOMAIN sessions',
           workflows' \subseteq workflows \cup {FreshId}
    PROVE  TypeOK'
<1> DEFINE call == calls[c]
           observed == ObservedAt(call.session, call.requested)
<1>1. call \in EventCall /\ IsFiniteSet(call.rows)
  BY CallOfEvent
<1>2. call.session \in DOMAIN sessions /\ call.requested \in Time
      /\ call.rows \in SUBSET EvidenceRow
  BY <1>1 DEF RecordEvent, IsOpen, EventCall
<1>3. observed \in Time
  BY <1>2, ObservedAtIs
<1>4. Row(call, observed) \in EventRow /\ Row(call, observed).session = call.session
  BY <1>1, <1>2, <1>3, RowTyped
<1>5. /\ Aligned(call.rows, observed) \in SUBSET EvidenceRow
      /\ IsFiniteSet(Aligned(call.rows, observed))
  BY <1>1, <1>2, <1>3, AlignedIs
<1>6. FreshId \in EventId /\ FreshId \notin Recorded
  BY FreshIdIs DEF RecordEvent
<1>7. /\ InsertEvent(FreshId, Row(call, observed), Aligned(call.rows, observed))
      /\ promotions' = promotions /\ UNCHANGED world /\ Return(c)
  BY DEF RecordEvent
<1> HIDE DEF observed
<1>8. EventsTyped' /\ TrustTyped'
  BY <1>2, <1>4, <1>5, <1>6, <1>7, InsertTyped
<1> QED
  BY <1>7, <1>8, ReturnTyped, WorldUnchanged DEF TypeOK

LEMMA CloseSessionTyped ==
    ASSUME TypeOK, NEW c \in Client, CloseSession(c)
    PROVE  TypeOK'
<1> DEFINE s == calls[c].session
           ended == ObservedAt(s, calls[c].requested)
<1>1. calls[c] \in EventCall
  BY CallOfEvent DEF CloseSession
<1>2. s \in DOMAIN sessions /\ calls[c].requested \in Time
  BY <1>1 DEF CloseSession, RecordEvent, IsOpen, EventCall
<1>3. ended \in Time
  BY <1>2, ObservedAtIs
<1>4. sessions' = [sessions EXCEPT ![s].ended = ended]
  BY DEF CloseSession
<1> HIDE DEF ended
<1>5. SessionsTyped' /\ DOMAIN sessions' = DOMAIN sessions
  BY <1>2, <1>3, <1>4 DEF TypeOK, SessionsTyped, SessionRow
<1> QED
  BY <1>5, RecordEventTyped DEF CloseSession

LEMMA ConsolidateTyped ==
    ASSUME TypeOK, NEW c \in Client, Consolidate(c)
    PROVE  TypeOK'
<1> DEFINE s == calls[c].session
           t == PromotedAt(calls[c])
<1>1. calls[c] \in SessionCall
  BY CallOfSession DEF Consolidate
<1>2. calls[c].requested \in Time /\ sessions[s].ended \in Time
  BY <1>1 DEF Consolidate, IsClosed, TypeOK, SessionsTyped, SessionCall, SessionRow
<1>3. t \in Time
  <2>1. calls[c].requested \in Int /\ sessions[s].ended \in Int
    BY <1>2 DEF Time
  <2>2. t \in {calls[c].requested, sessions[s].ended}
    BY <2>1, MaxOfTwo DEF PromotedAt
  <2> QED
    BY <1>2, <2>2
<1> HIDE DEF t
<1>4. promotions' = [e \in DOMAIN promotions \cup Promotable(s, t) |->
                        IF e \in DOMAIN promotions THEN promotions[e] ELSE t]
  BY DEF Consolidate, t
<1>5. Promotable(s, t) \subseteq Recorded
  BY DEF Promotable, EventsOf
<1>6. TrustTyped'
  BY <1>3, <1>4, <1>5 DEF TypeOK, TrustTyped, Consolidate, Recorded
<1>7. SessionsTyped' /\ EventsTyped'
  BY DEF TypeOK, SessionsTyped, EventsTyped, Consolidate, Recorded
<1>8. Return(c) /\ UNCHANGED world
  BY DEF Consolidate
<1> QED
  BY <1>6, <1>7, <1>8, ReturnTyped, WorldUnchanged DEF TypeOK

\* The attempts of an event in time order, so that the last of them has a time.
LEMMA CheckedAtIs ==
    ASSUME TypeOK, NEW e \in Recorded
    PROVE  /\ CheckedAt(e) \in Time /\ CheckedAt(e) >= now
           /\ attempts[e] # << >> => CheckedAt(e) >= attempts[e][Len(attempts[e])].at
<1>1. now \in Nat
  BY DEF TypeOK, WorldTyped, Time
<1>2. CASE attempts[e] = << >>
  BY <1>1, <1>2 DEF CheckedAt, Time
<1>3. CASE attempts[e] # << >>
  <2> DEFINE last == attempts[e][Len(attempts[e])]
  <2>1. attempts[e] \in Seq(AttemptRow)
    BY DEF TypeOK, TrustTyped
  <2>2. last \in AttemptRow
    BY <1>3, <2>1
  <2>3. last.at \in Nat
    BY <2>2 DEF AttemptRow, Time
  <2>4. CheckedAt(e) = Max({now, last.at})
    BY <1>3 DEF CheckedAt
  <2> HIDE DEF last
  <2> DEFINE b == last.at
             m == Max({now, b})
  <2>5. m \in {now, b} /\ m >= b /\ m >= now
    <3>1. now \in Int /\ b \in Int
      BY <1>1, <2>3
    <3> HIDE DEF b
    <3> QED
      BY <3>1, MaxOfTwo
  <2> QED
    BY <1>1, <2>3, <2>4, <2>5 DEF Time, last
<1> QED
  BY <1>2, <1>3

\* A supported event has source rows only.
LEMMA SourceRowIs ==
    ASSUME NEW r \in EvidenceRow, r.kind = "source"
    PROVE  r \in [kind : {"source"}, source : Source, digest : Content,
                  verified : BOOLEAN, at : Time \cup {NoTime}]
BY DEF EvidenceRow

LEMMA ReverifyTyped ==
    ASSUME TypeOK, NEW e \in Recorded, Reverify(e)
    PROVE  TypeOK'
<1> DEFINE failure == StaleReason(e, policy)
           at == CheckedAt(e)
           passed == failure = "none"
           attempt == Attempt(at, IF passed THEN "verified" ELSE "stale", failure)
           g(r) == [r EXCEPT !.verified = passed, !.at = IF passed THEN at ELSE NoTime]
<1>1. at \in Time
  BY CheckedAtIs
<1>2. policy \in Nat
  BY DEF TypeOK, WorldTyped
<1>3. failure \in Failures
  BY DEF StaleReason, Failures, Reverify, Supported
<1>4. attempt \in AttemptRow
  <2>1. (IF passed THEN "verified" ELSE "stale") \in {"verified", "stale"}
    OBVIOUS
  <2> HIDE DEF failure, passed, at
  <2> QED
    BY <1>1, <1>2, <1>3, <2>1 DEF Attempt, AttemptRow
<1>5. \A r \in evidence[e] : g(r) \in EvidenceRow
  <2> SUFFICES ASSUME NEW r \in evidence[e] PROVE g(r) \in EvidenceRow
    OBVIOUS
  <2>1. r \in EvidenceRow /\ r.kind = "source"
    BY DEF TypeOK, TrustTyped, Reverify, Supported
  <2> HIDE DEF failure, at
  <2>2. passed \in BOOLEAN /\ (IF passed THEN at ELSE NoTime) \in Time \cup {NoTime}
    BY <1>1
  <2> DEFINE stamp == IF passed THEN at ELSE NoTime
  <2> HIDE DEF passed, stamp
  <2>3. [r EXCEPT !.verified = passed, !.at = stamp] \in
           [kind : {"source"}, source : Source, digest : Content,
            verified : BOOLEAN, at : Time \cup {NoTime}]
    BY <2>1, <2>2, SourceRowIs, Zenon DEF stamp
  <2> QED
    BY <2>3 DEF EvidenceRow, stamp
<1>6. evidence' = [evidence EXCEPT ![e] = {g(r) : r \in @}]
  BY DEF Reverify
<1>7. attempts' = [attempts EXCEPT ![e] = @ \o <<attempt>>]
  BY DEF Reverify
<1>8. /\ DOMAIN verifications' \subseteq Recorded
      /\ \A f \in DOMAIN verifications' : verifications'[f] \in [at : Time, policy : Nat]
  <2>1. CASE passed
    <3>1. verifications' = Put(verifications, e, [at |-> at, policy |-> policy])
      BY <2>1 DEF Reverify
    <3>2. [at |-> at, policy |-> policy] \in [at : Time, policy : Nat]
      BY <1>1, <1>2
    <3> HIDE DEF at
    <3> QED
      BY <3>1, <3>2 DEF TypeOK, TrustTyped, Put
  <2>2. CASE ~passed
    BY <2>2 DEF Reverify, TypeOK, TrustTyped, Without
  <2> QED
    BY <2>1, <2>2
<1>9. /\ DOMAIN promotions' \subseteq DOMAIN promotions
      /\ \A f \in DOMAIN promotions' : promotions'[f] = promotions[f]
  BY DEF Reverify, Without
<1>10. UNCHANGED <<sessions, events, workflows, calls, world>>
  BY DEF Reverify
<1> HIDE DEF attempt, g, passed
<1>11. \A f \in Recorded : evidence'[f] \subseteq EvidenceRow
  BY <1>5, <1>6 DEF TypeOK, TrustTyped
<1>12. \A f \in Recorded : attempts'[f] \in Seq(AttemptRow)
  BY <1>4, <1>7 DEF TypeOK, TrustTyped
<1>13. TrustTyped'
  BY <1>6, <1>7, <1>8, <1>9, <1>10, <1>11, <1>12 DEF TypeOK, TrustTyped, Recorded
<1> QED
  BY <1>10, <1>13
  DEF TypeOK, SessionsTyped, EventsTyped, CallsTyped, WorldTyped, world, Recorded

LEMMA RestoreTyped ==
    ASSUME TypeOK, NEW pack \in Packs, Restore(pack)
    PROVE  TypeOK'
<1>1. /\ DOMAIN pack.sessions \subseteq SessionId
      /\ \A s \in DOMAIN pack.sessions : pack.sessions[s] \in SessionRow
      /\ DOMAIN pack.events \subseteq EventId /\ IsFiniteSet(DOMAIN pack.events)
      /\ \A e \in DOMAIN pack.events : /\ pack.events[e] \in EventRow
                                       /\ pack.events[e].session \in DOMAIN pack.sessions
      /\ DOMAIN pack.evidence = DOMAIN pack.events
      /\ \A e \in DOMAIN pack.events : pack.evidence[e] \subseteq EvidenceRow
      /\ pack.workflows \subseteq DOMAIN pack.events
  BY PackAssumption
<1>2. SessionsTyped' /\ DOMAIN sessions' = DOMAIN pack.sessions
  BY <1>1 DEF Restore, RestoredSessions, SessionsTyped, SessionRow
<1>3. DOMAIN events' = DOMAIN pack.events
  BY DEF Restore, RestoredEvents
<1>4. EventsTyped'
  <2>1. ASSUME NEW e \in DOMAIN pack.events
        PROVE  events'[e] \in EventRow /\ events'[e].session = pack.events[e].session
    BY <1>1 DEF Restore, RestoredEvents, EventRow
  <2> QED
    BY <1>1, <1>2, <1>3, <2>1 DEF EventsTyped, Recorded
<1>5. \A e \in DOMAIN pack.events : \A r \in pack.evidence[e] :
          [r EXCEPT !.verified = FALSE, !.at = NoTime] \in EvidenceRow
  <2> SUFFICES ASSUME NEW e \in DOMAIN pack.events, NEW r \in pack.evidence[e]
               PROVE  [r EXCEPT !.verified = FALSE, !.at = NoTime] \in EvidenceRow
    OBVIOUS
  <2>1. r \in EvidenceRow
    BY <1>1
  <2>2. CASE r \in [kind : {"source"}, source : Source, digest : Content,
                    verified : BOOLEAN, at : Time \cup {NoTime}]
    BY <2>2 DEF EvidenceRow
  <2>3. CASE r \in [kind : {"external"}, source : {"external"}, digest : {"claimed"},
                    verified : {FALSE}, at : {NoTime}]
    BY <2>3 DEF EvidenceRow
  <2> QED
    BY <2>1, <2>2, <2>3 DEF EvidenceRow
<1>6. TrustTyped'
  <2>1. DOMAIN evidence' = DOMAIN pack.events /\ DOMAIN attempts' = DOMAIN pack.events
    BY <1>1 DEF Restore, RestoredEvidence
  <2>2. \A e \in DOMAIN pack.events :
            evidence'[e] \subseteq EvidenceRow /\ attempts'[e] \in Seq(AttemptRow)
    <3>1. \A e \in DOMAIN pack.events : evidence'[e] =
             {[r EXCEPT !.verified = FALSE, !.at = NoTime] : r \in pack.evidence[e]}
      BY <1>1 DEF Restore, RestoredEvidence
    <3>2. \A e \in DOMAIN pack.events : attempts'[e] = << >>
      BY DEF Restore
    <3>3. \A e \in DOMAIN pack.events : evidence'[e] \subseteq EvidenceRow
      <4> SUFFICES ASSUME NEW e \in DOMAIN pack.events, NEW q \in evidence'[e]
                   PROVE  q \in EvidenceRow
        OBVIOUS
      <4>1. \E r \in pack.evidence[e] : q = [r EXCEPT !.verified = FALSE, !.at = NoTime]
        BY <3>1
      <4> QED
        BY <1>5, <4>1
    <3>4. << >> \in Seq(AttemptRow)
      OBVIOUS
    <3> QED
      BY <3>2, <3>3, <3>4
  <2>3. DOMAIN verifications' = {} /\ DOMAIN promotions' = {}
        /\ workflows' \subseteq DOMAIN pack.events
    BY <1>1 DEF Restore
  <2> QED
    BY <1>3, <2>1, <2>2, <2>3 DEF TrustTyped, Recorded
<1> QED
  BY <1>2, <1>4, <1>6 DEF Restore, TypeOK, CallsTyped, WorldTyped, world

\* A call before the lock changes nothing but the client's own state.
LEMMA BeginTyped ==
    ASSUME TypeOK, NEW c \in Client, NEW call \in SessionCall \cup EventCall,
           call \in EventCall => IsFiniteSet(call.rows), Begin(c, call)
    PROVE  TypeOK'
<1>1. calls' = [calls EXCEPT ![c] = call] /\ UNCHANGED <<tables, world>>
  BY DEF Begin
<1>2. calls' = [d \in Client |-> calls'[d]] /\ CallsTyped'
  BY <1>1 DEF TypeOK, CallsTyped
<1> QED
  BY <1>1, <1>2
  DEF TypeOK, SessionsTyped, EventsTyped, TrustTyped, WorldTyped, tables, world, Recorded

LEMMA CallFixedTyped ==
    ASSUME TypeOK, NEW c \in Client, NEW op \in {"close", "workflow"},
           NEW kind \in EventKinds, NEW subject \in AnySubject,
           NEW s \in DOMAIN sessions, NEW input \in EvidenceInputs,
           CallFixed(c, op, kind, subject, s, input)
    PROVE  TypeOK'
<1> DEFINE call == [op |-> op, session |-> s, requested |-> now, input |-> input,
                    rows |-> {}, read |-> ~Unread(input), kind |-> kind, subject |-> subject,
                    retention |-> "durable", trust |-> "observed", supersedes |-> NoEvent,
                    contradicts |-> NoEvent, valid |-> NoTime]
<1>1. s \in SessionId /\ now \in Time
  BY DEF TypeOK, SessionsTyped, WorldTyped
<1>2. call \in EventCall /\ call.rows = {}
  BY <1>1 DEF EventCall, Retentions, Unread
<1>3. Begin(c, call)
  BY DEF CallFixed
<1> HIDE DEF call
<1> QED
  BY <1>2, <1>3, FS_EmptySet, BeginTyped

LEMMA CallAppendTyped ==
    ASSUME TypeOK, NEW c \in Client, CallAppend(c)
    PROVE  TypeOK'
<1>1. PICK s \in DOMAIN sessions, kind \in UserKinds, subject \in Subject,
           retention \in UserRetention, trust \in UserTrust, input \in EvidenceInputs,
           supersedes \in Targets("supersedes"), contradicts \in Targets("contradicts"),
           valid \in EffectiveTimes \cup {NoTime} :
           Begin(c, AppendCall(s, kind, subject, retention, trust, input,
                               supersedes, contradicts, valid))
  BY DEF CallAppend
<1> DEFINE call == AppendCall(s, kind, subject, retention, trust, input,
                              supersedes, contradicts, valid)
<1>2. s \in SessionId /\ now \in Time
  BY DEF TypeOK, SessionsTyped, WorldTyped
<1>3. supersedes \in EventId \cup {NoEvent} /\ contradicts \in EventId \cup {NoEvent}
  BY DEF Targets, TypeOK, EventsTyped
<1>4. /\ kind \in EventKinds /\ retention \in Retentions
      /\ trust \in {"observed", "untrusted"} /\ valid \in Time \cup {NoTime}
      /\ subject \in AnySubject
  BY LedgerAssumption DEF AnySubject
<1>5. call \in EventCall /\ call.rows = {}
  BY <1>2, <1>3, <1>4 DEF EventCall, AppendCall, Unread
<1>6. Begin(c, call)
  BY <1>1
<1> HIDE DEF call
<1> QED
  BY <1>5, <1>6, FS_EmptySet, BeginTyped

\* Reading the sources gives well formed rows, and finitely many.
LEMMA PreparedRowsAre ==
    ASSUME WorldTyped, NEW input \in EvidenceInputs,
           \A s \in input.sources : content[s] # Unavailable
    PROVE  PreparedRows(input) \in SUBSET EvidenceRow /\ IsFiniteSet(PreparedRows(input))
<1>1. input.sources \in SUBSET Source /\ IsFiniteSet(input.sources)
  BY LedgerAssumption
<1> DEFINE f == [s \in input.sources |-> SourceRow(s)]
           extra == IF input.external THEN {ExternalRow} ELSE {}
<1>2. \A s \in input.sources : SourceRow(s) \in EvidenceRow
  <2> SUFFICES ASSUME NEW s \in input.sources PROVE SourceRow(s) \in EvidenceRow
    OBVIOUS
  <2>1. s \in Source /\ content[s] \in Content /\ now \in Time
    BY <1>1 DEF WorldTyped
  <2> QED
    BY <2>1 DEF SourceRow, EvidenceRow
<1>3. f \in [input.sources -> EvidenceRow]
  BY <1>2
<1> HIDE DEF f
<1>4. IsFiniteSet({f[s] : s \in input.sources})
      /\ {f[s] : s \in input.sources} \in SUBSET EvidenceRow
  BY <1>1, <1>3, ImageIsFinite
<1>5. ExternalRow \in EvidenceRow
  BY DEF ExternalRow, EvidenceRow
<1>6. IsFiniteSet(extra) /\ extra \in SUBSET EvidenceRow
  BY <1>5, FS_EmptySet, FS_Singleton
<1>7. PreparedRows(input) = {f[s] : s \in input.sources} \cup extra
  BY DEF PreparedRows, f
<1> HIDE DEF extra
<1> QED
  BY <1>4, <1>6, <1>7, FS_Union

LEMMA ReadEvidenceTyped ==
    ASSUME TypeOK, NEW c \in Client, ReadEvidence(c)
    PROVE  TypeOK'
<1> DEFINE rows == PreparedRows(calls[c].input)
<1>1. calls[c] \in EventCall
  BY CallOfEvent DEF ReadEvidence
<1>2. calls[c].input \in EvidenceInputs
  BY <1>1 DEF EventCall
<1>3. rows \in SUBSET EvidenceRow /\ IsFiniteSet(rows)
  BY <1>2, PreparedRowsAre DEF ReadEvidence, TypeOK
<1>4. calls' = [calls EXCEPT ![c].rows = rows, ![c].read = TRUE]
  BY DEF ReadEvidence
<1> HIDE DEF rows
<1> DEFINE call == [calls[c] EXCEPT !.rows = rows, !.read = TRUE]
<1>5. call \in EventCall /\ call.rows = rows
  BY <1>1, <1>3 DEF EventCall
<1>6. calls' = [calls EXCEPT ![c] = call]
  BY <1>4
<1> HIDE DEF call
<1>7. calls' = [d \in Client |-> calls'[d]] /\ CallsTyped'
  BY <1>3, <1>5, <1>6 DEF TypeOK, CallsTyped
<1> QED
  BY <1>7
  DEF ReadEvidence, TypeOK, SessionsTyped, EventsTyped, TrustTyped, WorldTyped, tables,
      world, Recorded

LEMMA OutsideTyped ==
    ASSUME TypeOK, NEW c \in Client, Outside(c)
    PROVE  TypeOK'
<1>1. CASE CallStart(c)
  <2>1. PICK s \in SessionId : Begin(c, [op |-> "start", session |-> s, requested |-> now])
    BY <1>1 DEF CallStart
  <2> DEFINE call == [op |-> "start", session |-> s, requested |-> now]
  <2>2. call \in SessionCall /\ call \notin EventCall
    BY DEF TypeOK, WorldTyped, SessionCall, EventCall
  <2> QED
    BY <2>1, <2>2, BeginTyped
<1>2. CASE CallAppend(c)
  BY <1>2, CallAppendTyped
<1>3. CASE CallClose(c)
  <2>1. PICK s \in DOMAIN sessions, input \in EvidenceInputs :
            CallFixed(c, "close", "session_closed", SessionSubject(s), s, input)
    BY <1>3 DEF CallClose
  <2>2. SessionSubject(s) \in AnySubject /\ "session_closed" \in EventKinds
    BY DEF AnySubject, EventKinds, AnchorKinds, TypeOK, SessionsTyped
  <2> QED
    BY <2>1, <2>2, CallFixedTyped
<1>4. CASE CallWorkflow(c)
  <2>1. PICK s \in DOMAIN sessions, input \in EvidenceInputs :
            CallFixed(c, "workflow", "workflow", WorkflowSubject, s, input)
    BY <1>4 DEF CallWorkflow
  <2>2. WorkflowSubject \in AnySubject /\ "workflow" \in EventKinds
    BY DEF AnySubject, EventKinds, PromotableKinds
  <2> QED
    BY <2>1, <2>2, CallFixedTyped
<1>5. CASE CallConsolidate(c)
  <2>1. PICK s \in DOMAIN sessions :
            Begin(c, [op |-> "consolidate", session |-> s, requested |-> now])
    BY <1>5 DEF CallConsolidate
  <2> DEFINE call == [op |-> "consolidate", session |-> s, requested |-> now]
  <2>2. call \in SessionCall /\ call \notin EventCall
    BY DEF TypeOK, SessionsTyped, WorldTyped, SessionCall, EventCall
  <2> QED
    BY <2>1, <2>2, BeginTyped
<1>6. CASE ReadEvidence(c)
  BY <1>6, ReadEvidenceTyped
<1>7. CASE Abandon(c)
  <2>1. Return(c) /\ UNCHANGED <<tables, world>>
    BY <1>7 DEF Abandon, Return
  <2> QED
    BY <2>1, ReturnTyped
    DEF TypeOK, SessionsTyped, EventsTyped, TrustTyped, WorldTyped, tables, world, Recorded
<1> QED
  BY <1>1, <1>2, <1>3, <1>4, <1>5, <1>6, <1>7 DEF Outside

LEMMA CommitTyped ==
    ASSUME TypeOK, NEW c \in Client, Commit(c)
    PROVE  TypeOK'
<1>1. CASE StartSession(c)
  BY <1>1, StartSessionTyped
<1>2. CASE AppendEvent(c)
  <2>1. SessionsTyped' /\ DOMAIN sessions' = DOMAIN sessions
    BY <1>2 DEF AppendEvent, TypeOK, SessionsTyped
  <2> QED
    BY <1>2, <2>1, RecordEventTyped DEF AppendEvent
<1>3. CASE CloseSession(c)
  BY <1>3, CloseSessionTyped
<1>4. CASE PutWorkflow(c)
  <2>1. SessionsTyped' /\ DOMAIN sessions' = DOMAIN sessions
    BY <1>4 DEF PutWorkflow, TypeOK, SessionsTyped
  <2> QED
    BY <1>4, <2>1, RecordEventTyped DEF PutWorkflow, WithWorkflow
<1>5. CASE Consolidate(c)
  BY <1>5, ConsolidateTyped
<1> QED
  BY <1>1, <1>2, <1>3, <1>4, <1>5 DEF Commit

\* The surroundings leave the ledger and the calls alone.
LEMMA SurroundingsTyped ==
    ASSUME TypeOK,
           (\E s \in Editable : EditSource(s)) \/ UpgradePolicy \/ Tick \/ StepBack
    PROVE  TypeOK'
<1>1. UNCHANGED <<tables, calls>>
  BY DEF EditSource, UpgradePolicy, Tick, StepBack
<1>2. WorldTyped'
  <2>1. CASE \E s \in Editable : EditSource(s)
    BY <2>1, LedgerAssumption DEF EditSource, TypeOK, WorldTyped
  <2>2. CASE UpgradePolicy
    BY <2>2 DEF UpgradePolicy, TypeOK, WorldTyped
  <2>3. CASE Tick \/ StepBack
    BY <2>3 DEF Tick, StepBack, TypeOK, WorldTyped, Time
  <2> QED
    BY <2>1, <2>2, <2>3
<1> QED
  BY <1>1, <1>2
  DEF TypeOK, SessionsTyped, EventsTyped, TrustTyped, CallsTyped, tables, Recorded

\* Every table of the ledger holds well formed rows about recorded events only,
\* finitely many of them, whatever the callers, the sources and the clock do.
THEOREM TypeCorrect == Spec => []TypeOK
<1>1. Init => TypeOK
  <2> SUFFICES ASSUME Init PROVE TypeOK
    OBVIOUS
  <2>1. SessionsTyped /\ EventsTyped /\ TrustTyped
    BY FS_EmptySet DEF Init, SessionsTyped, EventsTyped, TrustTyped, Recorded
  <2>2. calls = [c \in Client |-> calls[c]] /\ CallsTyped
    BY DEF Init, CallsTyped, Idle, EventCall
  <2>3. WorldTyped
    BY DEF Init, WorldTyped, Time
  <2> QED
    BY <2>1, <2>2, <2>3 DEF TypeOK
<1>2. TypeOK /\ [Next]_vars => TypeOK'
  <2> SUFFICES ASSUME TypeOK, [Next]_vars PROVE TypeOK'
    OBVIOUS
  <2>1. CASE \E c \in Client : Outside(c)
    BY <2>1, OutsideTyped
  <2>2. CASE Transaction
    BY <2>2, CommitTyped, ReverifyTyped DEF Transaction
  <2>3. CASE \E pack \in Packs : Restore(pack)
    BY <2>3, RestoreTyped
  <2>4. CASE (\E s \in Editable : EditSource(s)) \/ UpgradePolicy \/ Tick \/ StepBack
    BY <2>4, SurroundingsTyped
  <2>5. CASE UNCHANGED vars
    BY <2>5 DEF vars, TypeOK, SessionsTyped, EventsTyped, TrustTyped, CallsTyped,
                WorldTyped, Recorded
  <2> QED
    BY <2>1, <2>2, <2>3, <2>4, <2>5 DEF Next
<1> QED
  BY <1>1, <1>2, PTL DEF Spec

-----------------------------------------------------------------------------
(* Verification follows the attempts *)

\* Why it is inductive: the rows a call carries to the lock are verified exactly
\* when they quote a source, so an event recorded here that could be reverified
\* at all has an attempt already, and no later attempt can precede the event.
RowsFresh ==
    \A c \in Client : calls[c] \in EventCall =>
        \A r \in calls[c].rows : /\ r.verified <=> r.at # NoTime
                                 /\ r.kind = "source" => r.verified
LocalTried ==
    \A e \in Recorded : Supported(e) /\ ~events[e].imported => attempts[e] # << >>
VerificationInv == TypeOK /\ RowsFresh /\ LocalTried /\ ValidVerification

\* Alignment moves times, not flags.
LEMMA AlignedFresh ==
    ASSUME NEW rows \in SUBSET EvidenceRow, NEW observed \in Time,
           \A r \in rows : /\ r.verified <=> r.at # NoTime
                           /\ r.kind = "source" => r.verified
    PROVE  \A q \in Aligned(rows, observed) :
              /\ q.verified <=> q.at # NoTime
              /\ q.kind = "source" => q.verified
              /\ q.verified => q.at >= observed /\ q.kind = "source"
<1> SUFFICES ASSUME NEW r \in rows,
                    NEW q, q = [r EXCEPT !.at = IF r.verified THEN Max({r.at, observed}) ELSE r.at]
             PROVE  /\ q.verified <=> q.at # NoTime
                    /\ q.kind = "source" => q.verified
                    /\ q.verified => q.at >= observed /\ q.kind = "source"
  BY DEF Aligned
<1>1. r.at \in Int /\ observed \in Int /\ observed >= 0
  BY EvidenceRowFields DEF Time
<1> DEFINE m == Max({r.at, observed})
<1>2. m \in Int /\ m >= observed
  BY <1>1, MaxOfTwo
<1>3. m # NoTime
  BY <1>1, <1>2 DEF NoTime
<1> HIDE DEF m
<1>4. q.verified = r.verified /\ q.kind = r.kind
      /\ q.at = IF r.verified THEN m ELSE r.at
  BY DEF EvidenceRow, m
<1>5. r.verified => r.kind = "source"
  BY DEF EvidenceRow
<1> QED
  BY <1>2, <1>3, <1>4, <1>5

\* A new event that is not imported starts with evidence, attempt and
\* verification that agree; the other events keep theirs.
LEMMA InsertVerified ==
    ASSUME TypeOK, LocalTried, ValidVerification,
           NEW e \in EventId, e \notin Recorded,
           NEW row \in EventRow, ~row.imported,
           NEW rows \in SUBSET EvidenceRow, IsFiniteSet(rows),
           \A r \in rows : /\ r.verified <=> r.at # NoTime
                           /\ r.kind = "source" => r.verified
                           /\ r.verified => r.at >= row.observed /\ r.kind = "source",
           InsertEvent(e, row, rows)
    PROVE  LocalTried' /\ ValidVerification'
<1> USE DEF Recorded
<1> DEFINE at == VerifiedAt(row, rows)
           all == AllVerified(rows)
           tries == IF all THEN <<Attempt(at, "verified", "none")>> ELSE << >>
           current == [at |-> at, policy |-> policy]
<1>1. at \in Time /\ at >= row.observed /\ \A r \in rows : at >= r.at
  BY VerifiedAtIs DEF TypeOK, WorldTyped
<1>2. /\ events' = Put(events, e, row) /\ evidence' = Put(evidence, e, rows)
      /\ attempts' = Put(attempts, e, tries)
      /\ verifications' = IF all THEN Put(verifications, e, current) ELSE verifications
  BY DEF InsertEvent
<1>3. /\ DOMAIN evidence = Recorded /\ DOMAIN attempts = Recorded
      /\ DOMAIN verifications \subseteq Recorded
  BY DEF TypeOK, TrustTyped
<1>4. DOMAIN events' = Recorded \cup {e}
  BY <1>2 DEF Put
<1> HIDE DEF all, at, tries, current
<1>5. /\ events'[e] = row /\ evidence'[e] = rows /\ attempts'[e] = tries
      /\ e \in DOMAIN verifications' <=> all
      /\ all => verifications'[e] = current
  BY <1>2, <1>3 DEF Put
<1>6. \A f \in Recorded :
         /\ events'[f] = events[f] /\ evidence'[f] = evidence[f] /\ attempts'[f] = attempts[f]
         /\ f \in DOMAIN verifications' <=> f \in DOMAIN verifications
         /\ f \in DOMAIN verifications => verifications'[f] = verifications[f]
  BY <1>2, <1>3 DEF Put
<1>7. \A f \in Recorded : (ValidRows(f) /\ ValidAttempts(f) /\ ValidCurrent(f))'
  BY <1>6 DEF ValidVerification, ValidRows, ValidAttempts, ValidCurrent, Floor
<1>8. Floor(e)' = row.observed
  BY <1>5 DEF Floor
<1>9. ValidRows(e)'
  BY <1>5, <1>8 DEF ValidRows
<1>10. row.observed \in Int
  BY DEF EventRow, Time
<1>11. ValidAttempts(e)'
  <2>1. CASE all
    <3>1. tries = <<Attempt(at, "verified", "none")>>
      BY <2>1 DEF tries
    <3>2. DOMAIN tries = {1} /\ tries[1].at = at /\ tries[1].outcome = "verified"
          /\ tries[1].failure = "none"
      BY <3>1 DEF Attempt
    <3> QED
      BY <1>1, <1>5, <1>8, <3>2 DEF ValidAttempts, Time
  <2>2. CASE ~all
    BY <1>5, <2>2 DEF ValidAttempts, tries
  <2> QED
    BY <2>1, <2>2
<1>12. ValidCurrent(e)'
  <2>1. CASE all
    <3>1. tries = <<Attempt(at, "verified", "none")>>
      BY <2>1 DEF tries
    <3>2. tries # << >> /\ Len(tries) = 1 /\ tries[1].at = at
          /\ tries[1].outcome = "verified" /\ tries[1].policy = policy
      BY <3>1 DEF Attempt
    <3>3. AllVerified(rows) /\ \A r \in rows : r.kind = "source" /\ r.at <= at
      <4>1. AllVerified(rows) /\ \A r \in rows : r.kind = "source"
        BY <2>1 DEF AllVerified, all
      <4>2. \A r \in rows : r.at \in Int
        BY EvidenceRowFields
      <4> QED
        BY <1>1, <4>1, <4>2 DEF Time
    <3>4. e \in DOMAIN verifications' /\ verifications'[e] = current
      BY <1>5, <2>1
    <3>5. current.at = at /\ current = [at |-> tries[Len(tries)].at,
                                        policy |-> tries[Len(tries)].policy]
      BY <3>2 DEF current
    <3> QED
      BY <1>5, <3>2, <3>3, <3>4, <3>5 DEF ValidCurrent
  <2>2. CASE ~all
    <3>1. tries = << >> /\ e \notin DOMAIN verifications'
      BY <1>5, <2>2 DEF tries
    <3> QED
      BY <1>5, <3>1 DEF ValidCurrent
  <2> QED
    BY <2>1, <2>2
<1>13. Supported(e)' => attempts'[e] # << >>
  <2> SUFFICES ASSUME Supported(e)' PROVE all
    BY <1>5 DEF tries
  <2>1. rows # {} /\ \A r \in rows : r.kind = "source"
    BY <1>5 DEF Supported
  <2> QED
    BY <2>1 DEF AllVerified, all
<1>14. LocalTried'
  BY <1>4, <1>6, <1>13 DEF LocalTried, Supported
<1> QED
  BY <1>4, <1>7, <1>9, <1>11, <1>12, <1>14 DEF ValidVerification

LEMMA StartSessionVerified ==
    ASSUME VerificationInv, NEW c \in Client, StartSession(c)
    PROVE  LocalTried' /\ ValidVerification'
<1> DEFINE call == calls[c]
           start == [session |-> call.session, seq |-> 1, kind |-> "session_started",
                     subject |-> SessionSubject(call.session), observed |-> call.requested,
                     valid |-> call.requested, supersedes |-> NoEvent,
                     contradicts |-> NoEvent, trust |-> "observed",
                     retention |-> "durable", imported |-> FALSE]
<1>1. call \in SessionCall
  BY CallOfSession DEF StartSession, VerificationInv
<1>2. call.session \in SessionId /\ call.requested \in Time
  BY <1>1 DEF SessionCall
<1>3. start \in EventRow /\ ~start.imported
  BY <1>2 DEF EventRow, EventKinds, AnchorKinds, AnySubject, Retentions, Time
<1>4. FreshId \in EventId /\ FreshId \notin Recorded
  BY FreshIdIs DEF StartSession
<1>5. InsertEvent(FreshId, start, {})
  BY DEF StartSession
<1>6. IsFiniteSet({}) /\ {} \in SUBSET EvidenceRow
  BY FS_EmptySet
<1> HIDE DEF start
<1> QED
  BY <1>3, <1>4, <1>5, <1>6, InsertVerified DEF VerificationInv

LEMMA RecordEventVerified ==
    ASSUME VerificationInv, NEW c \in Client,
           calls[c].op \in {"append", "close", "workflow"}, RecordEvent(c)
    PROVE  LocalTried' /\ ValidVerification'
<1> DEFINE call == calls[c]
           observed == ObservedAt(call.session, call.requested)
           row == Row(call, observed)
           rows == Aligned(call.rows, observed)
<1>1. TypeOK /\ call \in EventCall /\ IsFiniteSet(call.rows)
  BY CallOfEvent DEF VerificationInv
<1>2. call.session \in DOMAIN sessions /\ call.requested \in Time
      /\ call.rows \in SUBSET EvidenceRow
  BY <1>1 DEF RecordEvent, IsOpen, EventCall
<1>3. observed \in Time
  BY <1>1, <1>2, ObservedAtIs
<1>4. row \in EventRow
  BY <1>1, <1>2, <1>3, RowTyped
<1>5. ~row.imported /\ row.observed = observed
  BY DEF Row
<1>6. rows \in SUBSET EvidenceRow /\ IsFiniteSet(rows)
  BY <1>1, <1>2, <1>3, AlignedIs
<1>7. \A r \in call.rows : /\ r.verified <=> r.at # NoTime
                           /\ r.kind = "source" => r.verified
  BY <1>1 DEF VerificationInv, RowsFresh
<1>8. \A r \in rows : /\ r.verified <=> r.at # NoTime
                      /\ r.kind = "source" => r.verified
                      /\ r.verified => r.at >= observed /\ r.kind = "source"
  BY <1>2, <1>3, <1>7, AlignedFresh
<1>9. FreshId \in EventId /\ FreshId \notin Recorded
  BY FreshIdIs DEF RecordEvent
<1>10. InsertEvent(FreshId, row, rows)
  BY DEF RecordEvent
<1> HIDE DEF row, rows, observed
<1> QED
  BY <1>1, <1>4, <1>5, <1>6, <1>8, <1>9, <1>10, InsertVerified DEF VerificationInv

\* Reverifying adds an attempt after the others and makes evidence and
\* verification say the same.
LEMMA ReverifyVerified ==
    ASSUME VerificationInv, NEW e \in Recorded, Reverify(e)
    PROVE  LocalTried' /\ ValidVerification'
<1> USE DEF Recorded
<1> DEFINE failure == StaleReason(e, policy)
           at == CheckedAt(e)
           passed == failure = "none"
           attempt == Attempt(at, IF passed THEN "verified" ELSE "stale", failure)
           before == attempts[e]
           tries == before \o <<attempt>>
           stamp == IF passed THEN at ELSE NoTime
           current == [at |-> at, policy |-> policy]
           rows == {[r EXCEPT !.verified = passed, !.at = stamp] : r \in evidence[e]}
<1>1. TypeOK /\ LocalTried /\ ValidRows(e) /\ ValidAttempts(e)
  BY DEF VerificationInv, ValidVerification
<1>2. /\ at \in Time
      /\ before # << >> => at >= before[Len(before)].at
  BY <1>1, CheckedAtIs
<1>3. /\ DOMAIN evidence = Recorded /\ DOMAIN attempts = Recorded
      /\ DOMAIN verifications \subseteq Recorded
      /\ before \in Seq(AttemptRow) /\ evidence[e] \subseteq EvidenceRow
  BY <1>1 DEF TypeOK, TrustTyped
<1>4. /\ attempts' = [attempts EXCEPT ![e] = tries]
      /\ evidence' = [evidence EXCEPT ![e] = rows]
      /\ verifications' = IF passed THEN Put(verifications, e, current)
                          ELSE Without(verifications, e)
      /\ events' = events
  BY DEF Reverify
<1>5. evidence[e] # {} /\ \A r \in evidence[e] : r.kind = "source"
  BY DEF Reverify, Supported
<1>6. Floor(e) \in Int /\ at >= Floor(e) /\ Floor(e)' = Floor(e)
  <2>1. events[e].observed \in Nat
    BY <1>1 DEF TypeOK, EventsTyped, EventRow, Time
  <2>2. CASE events[e].imported
    <3>1. Floor(e) = 0 /\ Floor(e)' = 0
      BY <1>4, <2>2 DEF Floor
    <3>2. at >= 0
      BY <1>2 DEF Time
    <3> QED
      BY <3>1, <3>2
  <2>3. CASE ~events[e].imported
    <3>1. before # << >>
      BY <1>1, <2>3 DEF LocalTried, Reverify
    <3>2. Len(before) \in DOMAIN before
      BY <1>3, <3>1
    <3>3. before[Len(before)].at >= Floor(e)
      BY <1>1, <3>2 DEF ValidAttempts
    <3>5. before[Len(before)] \in AttemptRow
      BY <1>3, <3>2
    <3>6. before[Len(before)].at \in Int
      BY <3>5 DEF AttemptRow, Time
    <3>4. Floor(e) = events[e].observed /\ Floor(e)' = events[e].observed
      BY <1>4, <2>3 DEF Floor
    <3> QED
      BY <1>2, <2>1, <3>1, <3>3, <3>4, <3>6 DEF Time
  <2> QED
    BY <2>2, <2>3
<1>7. /\ attempt.at = at /\ attempt.policy = policy
      /\ attempt.outcome = "verified" <=> passed
      /\ attempt.failure = "none" <=> passed
  BY DEF Attempt
<1>8. passed \in BOOLEAN
  OBVIOUS
<1> HIDE DEF failure, at, passed, attempt
<1>9. /\ attempts'[e] = tries /\ evidence'[e] = rows
      /\ e \in DOMAIN verifications' <=> passed
      /\ passed => verifications'[e] = current
  BY <1>3, <1>4 DEF Put, Without
<1>10. \A f \in Recorded \ {e} :
         /\ evidence'[f] = evidence[f] /\ attempts'[f] = attempts[f]
         /\ f \in DOMAIN verifications' <=> f \in DOMAIN verifications
         /\ f \in DOMAIN verifications => verifications'[f] = verifications[f]
  BY <1>3, <1>4 DEF Put, Without
<1>11. \A f \in Recorded \ {e} : (ValidRows(f) /\ ValidAttempts(f) /\ ValidCurrent(f))'
  <2> SUFFICES ASSUME NEW f \in Recorded \ {e}
               PROVE  ValidRows(f)' /\ ValidAttempts(f)' /\ ValidCurrent(f)'
    OBVIOUS
  <2>1. ValidRows(f) /\ ValidAttempts(f) /\ ValidCurrent(f)
    BY DEF VerificationInv, ValidVerification
  <2>2. Floor(f)' = Floor(f)
    BY <1>4 DEF Floor
  <2>3. /\ evidence'[f] = evidence[f] /\ attempts'[f] = attempts[f]
        /\ f \in DOMAIN verifications' <=> f \in DOMAIN verifications
        /\ f \in DOMAIN verifications => verifications'[f] = verifications[f]
    BY <1>10
  <2>4. ValidRows(f)'
    BY <2>1, <2>2, <2>3 DEF ValidRows
  <2>5. ValidAttempts(f)'
    BY <2>1, <2>2, <2>3 DEF ValidAttempts
  <2>6. ValidCurrent(f)'
    BY <2>1, <2>3 DEF ValidCurrent
  <2> QED
    BY <2>4, <2>5, <2>6
<1>12. stamp # NoTime <=> passed
  BY <1>2 DEF Time, NoTime
<1>13. \A q \in rows : q.verified = passed /\ q.at = stamp /\ q.kind = "source"
  <2> SUFFICES ASSUME NEW r \in evidence[e],
                      NEW q, q = [r EXCEPT !.verified = passed, !.at = stamp]
               PROVE  q.verified = passed /\ q.at = stamp /\ q.kind = "source"
    OBVIOUS
  <2>1. r \in [kind : {"source"}, source : Source, digest : Content,
               verified : BOOLEAN, at : Time \cup {NoTime}]
    BY <1>3, <1>5, SourceRowIs
  <2> HIDE DEF stamp
  <2> QED
    BY <2>1
<1>14. ValidRows(e)'
  <2> HIDE DEF rows
  <2>1. stamp # NoTime => stamp >= Floor(e)
    BY <1>6, <1>12
  <2> HIDE DEF stamp
  <2> QED
    BY <1>6, <1>9, <1>12, <1>13, <2>1 DEF ValidRows
<1>15. ValidAttempts(e)'
  <2> DEFINE n == Len(before)
  <2>1. n \in Nat /\ DOMAIN tries = 1..(n + 1) /\ DOMAIN before = 1..n
        /\ tries[n + 1] = attempt /\ \A i \in 1..n : tries[i] = before[i]
    BY <1>3
  <2>2. \A i \in 1..n : before[i].at \in Int
    <3>1. \A i \in 1..n : before[i] \in AttemptRow
      BY <1>3
    <3> QED
      BY <3>1 DEF AttemptRow, Time
  <2>3. \A i \in 1..n : before[i].at <= at
    <3> SUFFICES ASSUME NEW i \in 1..n PROVE before[i].at <= at
      OBVIOUS
    <3>1. before # << >> /\ n \in 1..n
      BY <1>3, <2>1
    <3>2. before[i].at <= before[n].at
      <4>1. CASE i = n
        BY <2>2, <4>1
      <4>2. CASE i < n
        BY <1>1, <2>1, <3>1, <4>2 DEF ValidAttempts
      <4> QED
        BY <2>1, <4>1, <4>2
    <3> QED
      BY <1>2, <2>2, <3>1, <3>2 DEF Time
  <2>4. \A i \in 1..n : /\ before[i].at >= Floor(e)
                        /\ before[i].outcome = "verified" <=> before[i].failure = "none"
                        /\ \A j \in 1..n : i < j => before[i].at <= before[j].at
    BY <1>1, <2>1 DEF ValidAttempts
  <2> HIDE DEF tries, n
  <2>5. ASSUME NEW i \in 1..(n + 1)
        PROVE  /\ tries[i].at >= Floor(e)
               /\ tries[i].outcome = "verified" <=> tries[i].failure = "none"
               /\ \A j \in 1..(n + 1) : i < j => tries[i].at <= tries[j].at
    <3>1. CASE i = n + 1
      BY <1>6, <1>7, <2>1, <3>1
    <3>2. CASE i \in 1..n
      <4>1. \A j \in 1..(n + 1) : i < j => tries[i].at <= tries[j].at
        BY <1>7, <2>1, <2>3, <2>4, <3>2
      <4> QED
        BY <2>1, <2>4, <3>2, <4>1
    <3> QED
      BY <2>1, <3>1, <3>2
  <2> QED
    BY <1>6, <1>9, <2>1, <2>5 DEF ValidAttempts
<1>16. ValidCurrent(e)'
  <2>1. tries # << >> /\ tries[Len(tries)] = attempt
    BY <1>3
  <2>2. rows # {}
    BY <1>5
  <2>3. passed => \A q \in rows : q.verified /\ q.at <= at
    <3>1. passed => stamp = at /\ at <= at
      BY <1>2 DEF Time
    <3> HIDE DEF rows, stamp
    <3> QED
      BY <1>13, <3>1
  <2>4. current = [at |-> attempt.at, policy |-> attempt.policy] /\ current.at = at
    BY <1>7
  <2>5. passed => AllVerified(rows)
    BY <2>2, <2>3 DEF AllVerified
  <2> HIDE DEF tries, rows, current, stamp
  <2> QED
    BY <1>7, <1>9, <1>13, <2>1, <2>3, <2>4, <2>5 DEF ValidCurrent
<1>17. LocalTried'
  <2>1. tries # << >>
    BY <1>3
  <2> HIDE DEF tries
  <2> QED
    BY <1>1, <1>4, <1>9, <1>10, <2>1 DEF LocalTried, Supported
<1> QED
  BY <1>4, <1>11, <1>14, <1>15, <1>16, <1>17 DEF ValidVerification

\* An import brings no attempt and no verified row.
LEMMA RestoreVerified ==
    ASSUME VerificationInv, NEW pack \in Packs, Restore(pack)
    PROVE  LocalTried' /\ ValidVerification'
<1>1. /\ DOMAIN events' = DOMAIN pack.events /\ DOMAIN pack.evidence = DOMAIN pack.events
      /\ DOMAIN verifications' = {}
  <2>1. DOMAIN pack.evidence = DOMAIN pack.events
    BY PackAssumption
  <2>2. DOMAIN verifications' = {}
    BY DEF Restore
  <2>3. events' = RestoredEvents(pack)
    BY DEF Restore
  <2> QED
    BY <2>1, <2>2, <2>3 DEF RestoredEvents
<1>2. \A e \in DOMAIN pack.events : events'[e].imported
  <2> SUFFICES ASSUME NEW e \in DOMAIN pack.events PROVE events'[e].imported
    OBVIOUS
  <2>1. pack.events[e] \in EventRow
    BY PackAssumption
  <2>2. events'[e] = [pack.events[e] EXCEPT !.trust = "untrusted", !.imported = TRUE]
    BY DEF Restore, RestoredEvents
  <2> QED
    BY <2>1, <2>2 DEF EventRow
<1>3. \A e \in DOMAIN pack.events :
         /\ attempts'[e] = << >>
         /\ \A q \in evidence'[e] : q.verified = FALSE /\ q.at = NoTime
  <2> SUFFICES ASSUME NEW e \in DOMAIN pack.events
               PROVE  /\ attempts'[e] = << >>
                      /\ \A q \in evidence'[e] : q.verified = FALSE /\ q.at = NoTime
    OBVIOUS
  <2>1. attempts'[e] = << >>
    BY DEF Restore
  <2>2. evidence'[e] = {[r EXCEPT !.verified = FALSE, !.at = NoTime] : r \in pack.evidence[e]}
    BY <1>1 DEF Restore, RestoredEvidence
  <2>3. ASSUME NEW r \in pack.evidence[e],
               NEW q, q = [r EXCEPT !.verified = FALSE, !.at = NoTime]
        PROVE  q.verified = FALSE /\ q.at = NoTime
    <3>1. r \in EvidenceRow
      BY PackAssumption
    <3>2. CASE r \in [kind : {"source"}, source : Source, digest : Content,
                      verified : BOOLEAN, at : Time \cup {NoTime}]
      BY <2>3, <3>2
    <3>3. CASE r \in [kind : {"external"}, source : {"external"}, digest : {"claimed"},
                      verified : {FALSE}, at : {NoTime}]
      BY <2>3, <3>3
    <3> QED
      BY <3>1, <3>2, <3>3 DEF EvidenceRow
  <2> QED
    BY <2>1, <2>2, <2>3
<1>4. ASSUME NEW e \in DOMAIN pack.events
      PROVE  ValidRows(e)' /\ ValidAttempts(e)' /\ ValidCurrent(e)'
  <2>1. ValidRows(e)'
    BY <1>3 DEF ValidRows
  <2>2. DOMAIN attempts'[e] = {} /\ ~(attempts'[e] # << >>)
    BY <1>3
  <2>3. ValidAttempts(e)'
    BY <2>2 DEF ValidAttempts
  <2>4. ValidCurrent(e)'
    BY <1>1, <2>2 DEF ValidCurrent
  <2> QED
    BY <2>1, <2>3, <2>4
<1> QED
  BY <1>1, <1>2, <1>4 DEF LocalTried, ValidVerification, Recorded

\* A step that leaves the tables of trust alone keeps what relates them.
LEMMA TablesVerified ==
    ASSUME VerificationInv, UNCHANGED <<events, evidence, attempts, verifications>>
    PROVE  LocalTried' /\ ValidVerification'
<1>1. LocalTried'
  BY DEF VerificationInv, LocalTried, Supported, Recorded
<1>2. ValidVerification'
  BY DEF VerificationInv, ValidVerification, ValidRows, ValidAttempts, ValidCurrent,
         Floor, Recorded
<1> QED
  BY <1>1, <1>2

\* A call begins without rows.
LEMMA BeginFresh ==
    ASSUME TypeOK, RowsFresh, NEW c \in Client, NEW call,
           call \in EventCall => call.rows = {}, Begin(c, call)
    PROVE  RowsFresh'
<1>1. \A d \in Client : calls'[d] = IF d = c THEN call ELSE calls[d]
  BY DEF Begin, TypeOK
<1> QED
  BY <1>1 DEF RowsFresh

\* Only rows read from a source count as verified, and those carry a time.
LEMMA ReadEvidenceFresh ==
    ASSUME TypeOK, RowsFresh, NEW c \in Client, ReadEvidence(c)
    PROVE  RowsFresh'
<1> DEFINE rows == PreparedRows(calls[c].input)
<1>1. now # NoTime
  BY DEF TypeOK, WorldTyped, Time, NoTime
<1>2. \A r \in rows : /\ r.verified <=> r.at # NoTime
                      /\ r.kind = "source" => r.verified
  BY <1>1 DEF PreparedRows, SourceRow, ExternalRow
<1>3. calls[c] \in EventCall
  BY CallOfEvent DEF ReadEvidence
<1>4. calls' = [calls EXCEPT ![c].rows = rows, ![c].read = TRUE]
  BY DEF ReadEvidence
<1> HIDE DEF rows
<1>5. calls'[c].rows = rows /\ \A d \in Client \ {c} : calls'[d] = calls[d]
  BY <1>3, <1>4 DEF TypeOK, EventCall
<1> QED
  BY <1>2, <1>5 DEF RowsFresh

LEMMA ReturnFresh ==
    ASSUME TypeOK, RowsFresh, NEW c \in Client, calls' = [calls EXCEPT ![c] = Idle]
    PROVE  RowsFresh'
<1>1. Idle \notin EventCall
  BY DEF Idle, EventCall
<1> QED
  BY <1>1 DEF RowsFresh, TypeOK

LEMMA OutsideFresh ==
    ASSUME TypeOK, RowsFresh, NEW c \in Client, Outside(c)
    PROVE  RowsFresh'
<1>1. CASE CallStart(c) \/ CallConsolidate(c)
  <2>1. PICK op \in {"start", "consolidate"}, s \in SessionId \cup DOMAIN sessions :
           Begin(c, [op |-> op, session |-> s, requested |-> now])
    BY <1>1 DEF CallStart, CallConsolidate
  <2>2. [op |-> op, session |-> s, requested |-> now] \notin EventCall
    BY <2>1 DEF EventCall
  <2> QED
    BY <2>1, <2>2, BeginFresh
<1>2. CASE CallAppend(c)
  <2>1. PICK call : Begin(c, call) /\ call.rows = {}
    BY <1>2 DEF CallAppend, AppendCall
  <2> QED
    BY <2>1, BeginFresh
<1>3. CASE CallClose(c) \/ CallWorkflow(c)
  <2>1. PICK op, kind, subject, s, input : CallFixed(c, op, kind, subject, s, input)
    BY <1>3 DEF CallClose, CallWorkflow
  <2> DEFINE call == [op |-> op, session |-> s, requested |-> now, input |-> input,
                      rows |-> {}, read |-> ~Unread(input), kind |-> kind,
                      subject |-> subject, retention |-> "durable", trust |-> "observed",
                      supersedes |-> NoEvent, contradicts |-> NoEvent, valid |-> NoTime]
  <2>2. call.rows = {}
    OBVIOUS
  <2>3. Begin(c, call)
    BY <2>1 DEF CallFixed
  <2> HIDE DEF call
  <2> QED
    BY <2>2, <2>3, BeginFresh
<1>4. CASE ReadEvidence(c)
  BY <1>4, ReadEvidenceFresh
<1>5. CASE Abandon(c)
  BY <1>5, ReturnFresh DEF Abandon
<1> QED
  BY <1>1, <1>2, <1>3, <1>4, <1>5 DEF Outside

LEMMA CommitVerified ==
    ASSUME VerificationInv, NEW c \in Client, Commit(c)
    PROVE  RowsFresh' /\ LocalTried' /\ ValidVerification'
<1>1. CASE StartSession(c)
  <2>1. RowsFresh'
    BY <1>1, ReturnFresh DEF StartSession, Return, VerificationInv
  <2> QED
    BY <1>1, <2>1, StartSessionVerified
<1>2. CASE AppendEvent(c) \/ CloseSession(c) \/ PutWorkflow(c)
  <2>1. RecordEvent(c) /\ calls[c].op \in {"append", "close", "workflow"}
    BY <1>2 DEF AppendEvent, CloseSession, PutWorkflow
  <2>2. RowsFresh'
    BY <2>1, ReturnFresh DEF RecordEvent, Return, VerificationInv
  <2> QED
    BY <2>1, <2>2, RecordEventVerified
<1>3. CASE Consolidate(c)
  <2>1. RowsFresh'
    BY <1>3, ReturnFresh DEF Consolidate, Return, VerificationInv
  <2>2. UNCHANGED <<events, evidence, attempts, verifications>>
    BY <1>3 DEF Consolidate
  <2> QED
    BY <2>1, <2>2, TablesVerified
<1> QED
  BY <1>1, <1>2, <1>3 DEF Commit

\* For any number of clients, events, sources and attempts, and however the
\* clock moves between hashing a source and recording it, the current
\* verification of every event is what its latest attempt says
\* (`_append_event_tx', `_align_verified_evidence', reverify).
THEOREM VerificationCorrect == Spec => []VerificationFollowsAttempts
<1>1. Init => RowsFresh /\ LocalTried /\ ValidVerification
  <2> SUFFICES ASSUME Init PROVE RowsFresh /\ LocalTried /\ ValidVerification
    OBVIOUS
  <2>1. RowsFresh
    BY DEF Init, RowsFresh, Idle, EventCall
  <2>2. Recorded = {}
    BY DEF Init, Recorded
  <2> QED
    BY <2>1, <2>2 DEF LocalTried, ValidVerification
<1>2. VerificationInv /\ [Next]_vars => (RowsFresh /\ LocalTried /\ ValidVerification)'
  <2> SUFFICES ASSUME VerificationInv, [Next]_vars
               PROVE  RowsFresh' /\ LocalTried' /\ ValidVerification'
    OBVIOUS
  <2> USE DEF VerificationInv
  <2>1. CASE \E c \in Client : Outside(c)
    <3>1. UNCHANGED tables
      BY <2>1 DEF Outside, CallStart, CallAppend, CallClose, CallWorkflow, CallFixed,
                  CallConsolidate, ReadEvidence, Abandon, Begin
    <3>2. RowsFresh'
      BY <2>1, OutsideFresh
    <3> QED
      BY <3>1, <3>2, TablesVerified DEF tables
  <2>2. CASE \E c \in Client : Commit(c)
    BY <2>2, CommitVerified
  <2>3. CASE \E e \in Recorded : Reverify(e)
    <3>1. UNCHANGED calls
      BY <2>3 DEF Reverify
    <3> QED
      BY <2>3, <3>1, ReverifyVerified DEF RowsFresh
  <2>4. CASE \E pack \in Packs : Restore(pack)
    <3>1. UNCHANGED calls
      BY <2>4 DEF Restore
    <3> QED
      BY <2>4, <3>1, RestoreVerified DEF RowsFresh
  <2>5. CASE (\E s \in Editable : EditSource(s)) \/ UpgradePolicy \/ Tick \/ StepBack
    <3>1. UNCHANGED tables /\ UNCHANGED calls
      BY <2>5 DEF EditSource, UpgradePolicy, Tick, StepBack
    <3> QED
      BY <3>1, TablesVerified DEF tables, RowsFresh
  <2>6. CASE UNCHANGED vars
    BY <2>6, TablesVerified DEF vars, RowsFresh
  <2> QED
    BY <2>1, <2>2, <2>3, <2>4, <2>5, <2>6 DEF Next, Transaction
<1>3. VerificationInv => VerificationFollowsAttempts
  BY DEF VerificationInv, VerificationFollowsAttempts
<1>4. Spec => [](RowsFresh /\ LocalTried /\ ValidVerification)
  <2>1. Spec => []TypeOK
    BY TypeCorrect
  <2> QED
    BY <1>1, <1>2, <2>1, PTL DEF Spec, VerificationInv
<1> QED
  BY <1>3, <1>4, TypeCorrect, PTL DEF VerificationInv

-----------------------------------------------------------------------------
(* What the steps do to the tables *)

\* A step changes no table, or is one of the four that do.
LEMMA StepCases ==
    ASSUME [Next]_vars
    PROVE  \/ UNCHANGED tables
           \/ \E c \in Client : Commit(c)
           \/ \E e \in Recorded : Reverify(e)
           \/ \E pack \in Packs : Restore(pack)
<1>1. CASE \E c \in Client : Outside(c)
  BY <1>1 DEF Outside, CallStart, CallAppend, CallClose, CallWorkflow, CallFixed,
              CallConsolidate, ReadEvidence, Abandon, Begin
<1>2. CASE (\E s \in Editable : EditSource(s)) \/ UpgradePolicy \/ Tick \/ StepBack
  BY <1>2 DEF EditSource, UpgradePolicy, Tick, StepBack
<1>3. CASE UNCHANGED vars
  BY <1>3 DEF vars, tables
<1> QED
  BY <1>1, <1>2, <1>3 DEF Next, Transaction

\* The row of the event that a committing call inserts.
StartRow(call) ==
    [session |-> call.session, seq |-> 1, kind |-> "session_started",
     subject |-> SessionSubject(call.session), observed |-> call.requested,
     valid |-> call.requested, supersedes |-> NoEvent, contradicts |-> NoEvent,
     trust |-> "observed", retention |-> "durable", imported |-> FALSE]

\* What insertion leaves in the tables.
LEMMA Inserted ==
    ASSUME TypeOK, NEW e, e \notin Recorded, NEW row, NEW rows, InsertEvent(e, row, rows)
    PROVE  /\ Recorded' = Recorded \cup {e} /\ events'[e] = row
           /\ \A f \in Recorded : /\ events'[f] = events[f]
                                  /\ evidence'[f] = evidence[f]
                                  /\ attempts'[f] = attempts[f]
           /\ DOMAIN verifications \subseteq DOMAIN verifications'
<1>1. /\ events' = Put(events, e, row) /\ evidence' = Put(evidence, e, rows)
      /\ \E tries : attempts' = Put(attempts, e, tries)
      /\ verifications' = verifications \/ \E v : verifications' = Put(verifications, e, v)
  BY DEF InsertEvent
<1> QED
  BY <1>1 DEF Put, Recorded, TypeOK, TrustTyped

\* A session begins with its start event...
LEMMA StartRecords ==
    ASSUME TypeOK, NEW c \in Client, StartSession(c)
    PROVE  /\ calls[c] \in SessionCall
           /\ FreshId \in EventId /\ FreshId \notin Recorded
           /\ calls[c].session \notin DOMAIN sessions
           /\ Recorded' = Recorded \cup {FreshId}
           /\ events'[FreshId] = StartRow(calls[c])
           /\ \A f \in Recorded : /\ events'[f] = events[f]
                                  /\ evidence'[f] = evidence[f]
                                  /\ attempts'[f] = attempts[f]
           /\ DOMAIN verifications \subseteq DOMAIN verifications'
           /\ UNCHANGED promotions /\ UNCHANGED workflows
           /\ sessions' = Put(sessions, calls[c].session,
                              [started |-> calls[c].requested, ended |-> NoTime,
                               imported |-> FALSE])
<1>1. calls[c] \in SessionCall
  BY CallOfSession DEF StartSession
<1>2. FreshId \in EventId /\ FreshId \notin Recorded
  BY FreshIdIs DEF StartSession
<1>3. InsertEvent(FreshId, StartRow(calls[c]), {})
  BY DEF StartSession, StartRow
<1>4. calls[c].session \notin DOMAIN sessions /\ UNCHANGED promotions /\ UNCHANGED workflows
      /\ sessions' = Put(sessions, calls[c].session,
                         [started |-> calls[c].requested, ended |-> NoTime,
                          imported |-> FALSE])
  BY DEF StartSession
<1> HIDE DEF StartRow
<1> QED
  BY <1>1, <1>2, <1>3, <1>4, Inserted

\* ...and the other recording calls add one event to an open session.
LEMMA RecordRecords ==
    ASSUME TypeOK, NEW c \in Client, calls[c].op \in {"append", "close", "workflow"},
           RecordEvent(c)
    PROVE  /\ calls[c] \in EventCall
           /\ FreshId \in EventId /\ FreshId \notin Recorded
           /\ IsOpen(calls[c].session)
           /\ ObservedAt(calls[c].session, calls[c].requested) \in Time
           /\ Recorded' = Recorded \cup {FreshId}
           /\ events'[FreshId] =
                Row(calls[c], ObservedAt(calls[c].session, calls[c].requested))
           /\ events'[FreshId] \in EventRow
           /\ \A f \in Recorded : /\ events'[f] = events[f]
                                  /\ evidence'[f] = evidence[f]
                                  /\ attempts'[f] = attempts[f]
           /\ DOMAIN verifications \subseteq DOMAIN verifications'
           /\ UNCHANGED promotions
<1> DEFINE call == calls[c]
           observed == ObservedAt(call.session, call.requested)
           rows == Aligned(call.rows, observed)
<1>1. call \in EventCall
  BY CallOfEvent
<1>2. FreshId \in EventId /\ FreshId \notin Recorded
  BY FreshIdIs DEF RecordEvent
<1>3. InsertEvent(FreshId, Row(call, observed), rows)
  BY DEF RecordEvent
<1>4. IsOpen(call.session) /\ UNCHANGED promotions
  BY DEF RecordEvent
<1>5. call.session \in DOMAIN sessions /\ call.requested \in Time
  BY <1>1, <1>4 DEF IsOpen, EventCall
<1>6. observed \in Time
  BY <1>5, ObservedAtIs
<1>7. Row(call, observed) \in EventRow
  BY <1>1, <1>5, <1>6, RowTyped
<1> HIDE DEF observed, rows
<1>8. /\ Recorded' = Recorded \cup {FreshId} /\ events'[FreshId] = Row(call, observed)
      /\ \A f \in Recorded : /\ events'[f] = events[f]
                             /\ evidence'[f] = evidence[f]
                             /\ attempts'[f] = attempts[f]
      /\ DOMAIN verifications \subseteq DOMAIN verifications'
  BY <1>2, <1>3, Inserted
<1> QED
  BY <1>1, <1>2, <1>4, <1>6, <1>7, <1>8 DEF observed

-----------------------------------------------------------------------------
(* Relations *)

\* Without a set of events that refers to itself throughout, no relation goes
\* round in a circle.
LEMMA OrderedIsAcyclic ==
    ASSUME NEW E, HasRelationOrder(E)
    PROVE  Acyclic(E)
<1> SUFFICES ASSUME NEW field \in {"supersedes", "contradicts"},
                    NEW ring \in SUBSET {e \in DOMAIN E : E[e][field] # NoEvent},
                    ring # {}
             PROVE  \E e \in ring : E[e][field] \notin ring
  BY DEF Acyclic
<1>1. PICK e \in ring : {E[e].supersedes, E[e].contradicts} \cap ring = {}
  BY DEF HasRelationOrder
<1>2. E[e].supersedes \notin ring /\ E[e].contradicts \notin ring
  BY <1>1
<1>3. CASE field = "supersedes"
  BY <1>2, <1>3
<1>4. CASE field = "contradicts"
  BY <1>2, <1>4
<1> QED
  BY <1>3, <1>4

\* An event whose targets were recorded before it keeps the order.
LEMMA RelationsExtended ==
    ASSUME TypeOK, ValidTargets(events), HasRelationOrder(events),
           NEW e \in EventId, e \notin Recorded, Recorded' = Recorded \cup {e},
           \A f \in Recorded : events'[f] = events[f],
           \A target \in {events'[e].supersedes, events'[e].contradicts} \ {NoEvent} :
              /\ target \in Recorded
              /\ events[target].subject = events'[e].subject
              /\ events'[e].retention = "durable" => events[target].retention = "durable"
    PROVE  ValidTargets(events)' /\ HasRelationOrder(events)'
<1> USE DEF Recorded
<1> DEFINE Refs(f) == {events[f].supersedes, events[f].contradicts}
           Refs2(f) == {events'[f].supersedes, events'[f].contradicts}
<1>1. e # NoEvent
  BY LedgerAssumption
<1>2. \A f \in Recorded : Refs(f) \subseteq Recorded \cup {NoEvent}
  BY DEF ValidTargets
<1>3. Refs2(e) \subseteq Recorded \cup {NoEvent} /\ \A f \in Recorded : Refs2(f) = Refs(f)
  BY Zenon
<1>4. ValidTargets(events')
  BY DEF ValidTargets
<1>5. HasRelationOrder(events')
  <2> SUFFICES ASSUME NEW ring \in SUBSET (Recorded \cup {e}), ring # {}
               PROVE  \E f \in ring : Refs2(f) \cap ring = {}
    BY DEF HasRelationOrder
  <2> HIDE DEF Refs2
  <2>1. CASE ring \ {e} = {}
    BY <1>1, <1>3, <2>1
  <2>2. CASE ring \ {e} # {}
    <3>1. PICK f \in ring \ {e} : Refs(f) \cap (ring \ {e}) = {}
      BY <2>2 DEF HasRelationOrder
    <3> HIDE DEF Refs
    <3> QED
      BY <1>1, <1>2, <1>3, <3>1
  <2> QED
    BY <2>1, <2>2
<1> QED
  BY <1>4, <1>5

\* That no field forms a circle by itself is not inductive: an import orders
\* both relations together, and so does every later event.
RelationInv == ValidTargets(events) /\ HasRelationOrder(events)

LEMMA RelationsOrdered == Spec => []RelationInv
<1> USE DEF RelationInv
<1>1. Init => RelationInv
  BY DEF Init, ValidTargets, HasRelationOrder
<1>2. TypeOK /\ RelationInv /\ [Next]_vars => RelationInv'
  <2> SUFFICES ASSUME TypeOK, RelationInv, [Next]_vars PROVE RelationInv'
    OBVIOUS
  <2>1. CASE UNCHANGED tables
    BY <2>1 DEF tables
  <2>2. ASSUME NEW c \in Client, Commit(c) PROVE RelationInv'
    <3>1. CASE StartSession(c)
      <4> DEFINE row == events'[FreshId]
      <4>1. row = StartRow(calls[c])
        BY <3>1, StartRecords
      <4> HIDE DEF row
      <4>2. row.supersedes = NoEvent /\ row.contradicts = NoEvent
        BY <4>1 DEF StartRow
      <4> QED
        BY <3>1, <4>2, StartRecords, RelationsExtended DEF row
    <3>2. CASE AppendEvent(c) \/ CloseSession(c) \/ PutWorkflow(c)
      <4>1. RecordEvent(c) /\ calls[c].op \in {"append", "close", "workflow"}
        BY <3>2 DEF AppendEvent, CloseSession, PutWorkflow
      <4>2. AcceptsTarget(calls[c], calls[c].supersedes)
            /\ AcceptsTarget(calls[c], calls[c].contradicts)
        BY <4>1 DEF RecordEvent
      <4> DEFINE row == events'[FreshId]
      <4>3. row = Row(calls[c], ObservedAt(calls[c].session, calls[c].requested))
        BY <4>1, RecordRecords
      <4>4. /\ FreshId \in EventId /\ FreshId \notin Recorded
            /\ Recorded' = Recorded \cup {FreshId}
            /\ \A f \in Recorded : events'[f] = events[f]
        BY <4>1, RecordRecords
      <4> HIDE DEF row
      <4>5. /\ row.supersedes = calls[c].supersedes /\ row.contradicts = calls[c].contradicts
            /\ row.subject = calls[c].subject /\ row.retention = calls[c].retention
        BY <4>3 DEF Row
      <4>6. \A target \in {row.supersedes, row.contradicts} \ {NoEvent} :
              /\ target \in Recorded
              /\ events[target].subject = row.subject
              /\ row.retention = "durable" => events[target].retention = "durable"
        BY <4>2, <4>5 DEF AcceptsTarget
      <4> QED
        BY <4>4, <4>6, RelationsExtended DEF row
    <3>3. CASE Consolidate(c)
      BY <3>3 DEF Consolidate
    <3> QED
      BY <2>2, <3>1, <3>2, <3>3 DEF Commit
  <2>3. CASE \E e \in Recorded : Reverify(e)
    BY <2>3 DEF Reverify
  <2>4. CASE \E pack \in Packs : Restore(pack)
    BY <2>4 DEF Restore, Restorable
  <2> QED
    BY <2>1, <2>2, <2>3, <2>4, StepCases
<1> QED
  BY <1>1, <1>2, TypeCorrect, PTL DEF Spec

\* Superseding and contradicting events keep to the subject and the durability
\* of their targets and never go round in a circle, whatever calls overlap and
\* whatever packs are restored (`_append_event_tx', restore_untrusted_document).
THEOREM RelationsHold == Spec => []RelationsSound
<1>1. RelationInv => RelationsSound
  BY OrderedIsAcyclic DEF RelationInv, RelationsSound
<1> QED
  BY <1>1, RelationsOrdered, PTL

-----------------------------------------------------------------------------
(* Promotions *)

\* A step that is no consolidation and no withdrawal keeps the promotions, and
\* what they rest on.
LEMMA BackingKept ==
    ASSUME TypeOK, PromotionsBacked, UNCHANGED promotions,
           \A f \in Recorded : events'[f] = events[f],
           DOMAIN verifications \subseteq DOMAIN verifications',
           \A s \in DOMAIN sessions : sessions[s].ended # NoTime =>
              s \in DOMAIN sessions' /\ sessions'[s].ended = sessions[s].ended
    PROVE  PromotionsBacked'
<1>1. DOMAIN promotions \subseteq Recorded
  BY DEF TypeOK, TrustTyped
<1>2. ValidPromotion'
  BY <1>1 DEF PromotionsBacked, ValidPromotion
<1> QED
  BY <1>1, <1>2 DEF PromotionsBacked, IsClosed

\* What consolidate promotes, and when.
LEMMA PromotedAtIs ==
    ASSUME TypeOK, NEW c \in Client, Consolidate(c)
    PROVE  /\ PromotedAt(calls[c]) \in Time
           /\ PromotedAt(calls[c]) >= sessions[calls[c].session].ended
<1> DEFINE s == calls[c].session
<1>1. calls[c].requested \in Time
  BY CallOfSession DEF Consolidate, SessionCall
<1>2. sessions[s] \in SessionRow /\ sessions[s].ended # NoTime
  BY DEF TypeOK, SessionsTyped, Consolidate, IsClosed
<1>3. sessions[s].ended \in Time
  BY <1>2 DEF SessionRow
<1> DEFINE a == calls[c].requested
           b == sessions[s].ended
<1>4. a \in Int /\ b \in Int
  BY <1>1, <1>3 DEF Time
<1>5. PromotedAt(calls[c]) = Max({a, b})
  BY DEF PromotedAt
<1>6. a \in Time /\ b \in Time
  BY <1>1, <1>3
<1> HIDE DEF a, b
<1>7. Max({a, b}) \in {a, b} /\ Max({a, b}) >= b
  BY <1>4, MaxOfTwo
<1>8. PromotedAt(calls[c]) \in Time /\ PromotedAt(calls[c]) >= b
  BY <1>5, <1>6, <1>7
<1> QED
  BY <1>8 DEF b

LEMMA ConsolidateBacks ==
    ASSUME TypeOK, PromotionsBacked, NEW c \in Client, Consolidate(c)
    PROVE  PromotionsBacked'
<1> DEFINE s == calls[c].session
           t == PromotedAt(calls[c])
<1>1. t \in Time /\ t >= sessions[s].ended
  BY PromotedAtIs
<1>2. /\ DOMAIN promotions' = DOMAIN promotions \cup Promotable(s, t)
      /\ \A e \in DOMAIN promotions : promotions'[e] = promotions[e]
      /\ \A e \in Promotable(s, t) \ DOMAIN promotions : promotions'[e] = t
      /\ IsClosed(s) /\ UNCHANGED <<sessions, events, verifications>>
  BY DEF Consolidate
<1> HIDE DEF t
<1>3. \A e \in Promotable(s, t) :
         /\ events[e].session = s /\ e \in DOMAIN verifications
         /\ events[e].kind \in PromotableKinds /\ events[e].retention = "durable"
         /\ t >= events[e].observed
  <2> SUFFICES ASSUME NEW e \in Promotable(s, t)
               PROVE  t >= events[e].observed
    BY DEF Promotable, EventsOf
  <2>1. events[e].observed \in Nat /\ events[e].observed <= t
    BY DEF Promotable, EventsOf, TypeOK, EventsTyped, EventRow, Time
  <2> QED
    BY <1>1, <2>1 DEF Time
<1>4. ValidPromotion'
  BY <1>2, <1>3 DEF PromotionsBacked, ValidPromotion
<1> HIDE DEF s
<1>5. ASSUME NEW e \in DOMAIN promotions'
      PROVE  /\ IsClosed(events[e].session)
             /\ promotions'[e] >= sessions[events[e].session].ended
             /\ promotions'[e] >= events[e].observed
  <2>1. CASE e \in DOMAIN promotions
    BY <1>2, <2>1 DEF PromotionsBacked
  <2>2. CASE e \notin DOMAIN promotions
    BY <1>1, <1>2, <1>3, <2>2 DEF s
  <2> QED
    BY <2>1, <2>2
<1> QED
  BY <1>2, <1>4, <1>5 DEF PromotionsBacked, IsClosed

\* A stale result takes the promotion away with the verification.
LEMMA ReverifyBacks ==
    ASSUME TypeOK, PromotionsBacked, NEW e \in Recorded, Reverify(e)
    PROVE  PromotionsBacked'
<1>1. UNCHANGED <<sessions, events>>
  BY DEF Reverify
<1>2. CASE StaleReason(e, policy) = "none"
  <2>1. /\ UNCHANGED promotions
        /\ verifications' = Put(verifications, e, [at |-> CheckedAt(e), policy |-> policy])
    BY <1>2 DEF Reverify
  <2>2. DOMAIN verifications \subseteq DOMAIN verifications'
    BY <2>1 DEF Put
  <2> QED
    BY <1>1, <2>1, <2>2, BackingKept
<1>3. CASE StaleReason(e, policy) # "none"
  <2>1. /\ verifications' = Without(verifications, e)
        /\ promotions' = Without(promotions, e)
    BY <1>3 DEF Reverify
  <2>2. /\ DOMAIN verifications' = DOMAIN verifications \ {e}
        /\ DOMAIN promotions' = DOMAIN promotions \ {e}
        /\ \A f \in DOMAIN promotions \ {e} : promotions'[f] = promotions[f]
    BY <2>1 DEF Without
  <2>3. ValidPromotion'
    BY <1>1, <2>2 DEF PromotionsBacked, ValidPromotion
  <2> QED
    BY <1>1, <2>2, <2>3 DEF PromotionsBacked, IsClosed
<1> QED
  BY <1>2, <1>3

LEMMA CommitBacks ==
    ASSUME TypeOK, PromotionsBacked, NEW c \in Client, Commit(c)
    PROVE  PromotionsBacked'
<1>1. CASE StartSession(c)
  <2>1. \A s \in DOMAIN sessions : s \in DOMAIN sessions' /\ sessions'[s] = sessions[s]
    BY <1>1, StartRecords DEF Put
  <2> QED
    BY <1>1, <2>1, StartRecords, BackingKept
<1>2. CASE AppendEvent(c) \/ CloseSession(c) \/ PutWorkflow(c)
  <2>1. RecordEvent(c) /\ calls[c].op \in {"append", "close", "workflow"}
    BY <1>2 DEF AppendEvent, CloseSession, PutWorkflow
  <2>2. sessions[calls[c].session].ended = NoTime
    BY <2>1 DEF RecordEvent, IsOpen
  <2>3. \A s \in DOMAIN sessions : s \in DOMAIN sessions'
           /\ (s # calls[c].session => sessions'[s] = sessions[s])
    BY <1>2 DEF AppendEvent, CloseSession, PutWorkflow
  <2> QED
    BY <2>1, <2>2, <2>3, RecordRecords, BackingKept
<1>3. CASE Consolidate(c)
  BY <1>3, ConsolidateBacks
<1> QED
  BY <1>1, <1>2, <1>3 DEF Commit

\* A promoted event is durable, promotable, verified, and was promoted after
\* its session closed and not before it was recorded, however consolidate,
\* reverify and other calls overlap and however the clock moves (consolidate,
\* reverify).  It holds because nothing reopens or moves the end of a closed
\* session, and only a stale reverify withdraws a verification.
THEOREM PromotionsHold == Spec => []PromotionsBacked
<1>1. Init => PromotionsBacked
  BY DEF Init, PromotionsBacked, ValidPromotion
<1>2. TypeOK /\ PromotionsBacked /\ [Next]_vars => PromotionsBacked'
  <2> SUFFICES ASSUME TypeOK, PromotionsBacked, [Next]_vars PROVE PromotionsBacked'
    OBVIOUS
  <2>1. CASE UNCHANGED tables
    BY <2>1, BackingKept DEF tables
  <2>2. CASE \E c \in Client : Commit(c)
    BY <2>2, CommitBacks
  <2>3. CASE \E e \in Recorded : Reverify(e)
    BY <2>3, ReverifyBacks
  <2>4. CASE \E pack \in Packs : Restore(pack)
    <3>1. DOMAIN promotions' = {}
      BY <2>4 DEF Restore
    <3> QED
      BY <3>1 DEF PromotionsBacked, ValidPromotion
  <2> QED
    BY <2>1, <2>2, <2>3, <2>4, StepCases
<1> QED
  BY <1>1, <1>2, TypeCorrect, PTL DEF Spec

\* Whatever consolidate promotes, an audit recall at the time of the promotion
\* returns (consolidate, recall): the two agree on what is stale and what is
\* superseded.
THEOREM PromotedAreRecalled == Spec => PromotedIsRecalled
<1>1. ASSUME TypeOK, [Next]_vars, NEW e \in DOMAIN promotions' \ DOMAIN promotions
      PROVE  e \in Recall(promotions'[e], promotions'[e], FALSE, FALSE)
  <2>1. CASE UNCHANGED promotions
    BY <1>1, <2>1
  <2>2. CASE \E c \in Client : Consolidate(c)
    <3>1. PICK c \in Client : Consolidate(c)
      BY <2>2
    <3> DEFINE s == calls[c].session
               t == PromotedAt(calls[c])
    <3>2. e \in Promotable(s, t) /\ promotions'[e] = t
      BY <1>1, <3>1 DEF Consolidate
    <3> HIDE DEF s, t
    <3>3. /\ e \in Recorded
          /\ events[e].observed <= t /\ events[e].valid <= t
          /\ VerificationState(e, t) = "current"
          /\ ~HasEligibleSupersessor(e, t, t, FALSE, FALSE)
      BY <3>2 DEF Promotable, EventsOf
    <3>4. e \in Recall(t, t, FALSE, FALSE)
      BY <3>3 DEF Recall
    <3> QED
      BY <3>2, <3>4
  <2>3. CASE \E f \in Recorded : Reverify(f)
    <3>1. DOMAIN promotions' \subseteq DOMAIN promotions
      BY <2>3 DEF Reverify, Without
    <3> QED
      BY <1>1, <3>1
  <2>4. CASE \E pack \in Packs : Restore(pack)
    <3>1. DOMAIN promotions' = {}
      BY <2>4 DEF Restore
    <3> QED
      BY <1>1, <3>1
  <2>5. \A c \in Client : Commit(c) => UNCHANGED promotions \/ Consolidate(c)
    BY DEF Commit, StartSession, AppendEvent, CloseSession, PutWorkflow, RecordEvent
  <2> QED
    BY <1>1, <2>1, <2>2, <2>3, <2>4, <2>5, StepCases DEF tables
<1>2. TypeOK /\ [Next]_vars =>
        \A e \in DOMAIN promotions' \ DOMAIN promotions :
           e \in Recall(promotions'[e], promotions'[e], FALSE, FALSE)
  BY <1>1
<1> QED
  BY <1>2, TypeCorrect, PTL DEF Spec, PromotedIsRecalled

-----------------------------------------------------------------------------
(* Histories *)

SessionHistory(S, E, s) ==
    /\ OrderedHistory(E, s) /\ StartAnchored(S, E, s)
    /\ CloseAnchored(S, E, s) /\ WithinSession(S, E, s)

\* E2 has one more event than E, the last one of session s so far.
Follows(E, E2, e, s) ==
    /\ e \notin DOMAIN E /\ DOMAIN E2 = DOMAIN E \cup {e}
    /\ \A f \in DOMAIN E : E2[f] = E[f]
    /\ E2[e].session = s /\ E2[e].seq \in Nat \ {0} /\ E2[e].observed \in Nat
    /\ \A f \in Mine(E, s) : /\ E[f].seq \in Nat \ {0} /\ E[f].observed \in Nat
                             /\ E[f].seq < E2[e].seq /\ E[f].observed <= E2[e].observed
    /\ E2[e].seq = 1 \/ \E f \in Mine(E, s) : E[f].seq = E2[e].seq - 1

\* The history of a session depends on its own rows only.
LEMMA HistoryKept ==
    ASSUME NEW S, NEW S2, NEW E, NEW E2, NEW s, S2[s] = S[s],
           Mine(E2, s) = Mine(E, s), \A f \in Mine(E, s) : E2[f] = E[f],
           SessionHistory(S, E, s)
    PROVE  SessionHistory(S2, E2, s)
<1>1. OrderedHistory(E2, s)
  BY DEF SessionHistory, OrderedHistory
<1>2. StartAnchored(S2, E2, s)
  BY DEF SessionHistory, StartAnchored
<1>3. CloseAnchored(S2, E2, s)
  BY DEF SessionHistory, CloseAnchored
<1>4. WithinSession(S2, E2, s)
  BY DEF SessionHistory, WithinSession
<1> QED
  BY <1>1, <1>2, <1>3, <1>4 DEF SessionHistory

LEMMA FollowsMine ==
    ASSUME NEW E, NEW E2, NEW e, NEW s, Follows(E, E2, e, s)
    PROVE  /\ Mine(E2, s) = Mine(E, s) \cup {e} /\ e \notin Mine(E, s)
           /\ \A f \in Mine(E, s) : E2[f] = E[f]
           /\ \A t : t # s => /\ Mine(E2, t) = Mine(E, t)
                              /\ \A f \in Mine(E, t) : E2[f] = E[f]
BY DEF Follows, Mine

\* A last event continues the numbering and the time of its session.
LEMMA OrderFollows ==
    ASSUME NEW E, NEW E2, NEW e, NEW s, Follows(E, E2, e, s), OrderedHistory(E, s)
    PROVE  OrderedHistory(E2, s)
<1> DEFINE M == Mine(E, s)
<1>1. Mine(E2, s) = M \cup {e} /\ e \notin M /\ \A f \in M : E2[f] = E[f]
  BY FollowsMine
<1>2. /\ E2[e].seq \in Nat \ {0} /\ E2[e].observed \in Nat
      /\ \A f \in M : /\ E[f].seq \in Nat \ {0} /\ E[f].observed \in Nat
                      /\ E[f].seq < E2[e].seq /\ E[f].observed <= E2[e].observed
      /\ E2[e].seq = 1 \/ \E f \in M : E[f].seq = E2[e].seq - 1
  BY DEF Follows
<1>3. /\ \A f, g \in M : /\ E[f].seq = E[g].seq => f = g
                         /\ E[f].seq < E[g].seq => E[f].observed <= E[g].observed
      /\ \A f \in M : \A n \in 1..E[f].seq : \E g \in M : E[g].seq = n
  BY DEF OrderedHistory
<1> HIDE DEF M
<1>4. ASSUME NEW f \in M \cup {e}, NEW g \in M \cup {e}
      PROVE  /\ E2[f].seq = E2[g].seq => f = g
             /\ E2[f].seq < E2[g].seq => E2[f].observed <= E2[g].observed
  <2>1. CASE f \in M /\ g \in M
    BY <1>1, <1>3, <2>1
  <2>2. CASE f = e /\ g = e
    BY <1>2, <2>2
  <2>3. CASE f \in M /\ g = e
    BY <1>1, <1>2, <2>3
  <2>4. CASE f = e /\ g \in M
    BY <1>1, <1>2, <2>4
  <2> QED
    BY <2>1, <2>2, <2>3, <2>4
<1>5. ASSUME NEW f \in M \cup {e}, NEW n \in 1..E2[f].seq
      PROVE  \E g \in M \cup {e} : E2[g].seq = n
  <2>1. CASE f \in M
    BY <1>1, <1>3, <2>1
  <2>2. CASE f = e /\ n = E2[e].seq
    BY <2>2
  <2>3. CASE f = e /\ n # E2[e].seq
    <3>1. E2[e].seq # 1 /\ n \in 1..(E2[e].seq - 1)
      BY <1>2, <2>3
    <3>2. PICK g \in M : E[g].seq = E2[e].seq - 1
      BY <1>2, <3>1
    <3>3. PICK h \in M : E[h].seq = n
      BY <1>3, <3>1, <3>2
    <3> QED
      BY <1>1, <3>3
  <2> QED
    BY <2>1, <2>2, <2>3
<1> QED
  BY <1>1, <1>4, <1>5 DEF OrderedHistory

\* A new session consists of its start event.
LEMMA HistoryBegins ==
    ASSUME NEW S, NEW E, NEW E2, NEW e, NEW s, Follows(E, E2, e, s), Mine(E, s) = {},
           S[s].started \in Nat, S[s].ended = NoTime, ~S[s].imported,
           E2[e].kind = "session_started", E2[e].observed = S[s].started,
           E2[e].retention = "durable", E2[e].imported = S[s].imported
    PROVE  SessionHistory(S, E2, s)
<1>1. Mine(E2, s) = {e}
  BY FollowsMine
<1>2. E2[e].seq = 1
  BY DEF Follows
<1>3. OrderedHistory(E2, s)
  <2>1. OrderedHistory(E, s)
    BY DEF OrderedHistory
  <2> QED
    BY <2>1, OrderFollows
<1>4. StartAnchored(S, E2, s)
  BY <1>1, <1>2 DEF StartAnchored
<1>5. CloseAnchored(S, E2, s)
  BY <1>1 DEF CloseAnchored
<1>6. WithinSession(S, E2, s)
  BY <1>1 DEF WithinSession
<1> QED
  BY <1>3, <1>4, <1>5, <1>6 DEF SessionHistory

\* An open session goes on with an event of any other kind, or ends with its
\* close event.
LEMMA HistoryGoesOn ==
    ASSUME NEW S, NEW S2, NEW E, NEW E2, NEW e, NEW s, Follows(E, E2, e, s),
           SessionHistory(S, E, s),
           S[s].started \in Nat, S[s].ended = NoTime, S[s].imported = FALSE,
           S2[s].started = S[s].started, S2[s].imported = S[s].imported,
           E2[e].kind # "session_started", E2[e].observed >= S[s].started,
           E2[e].imported = FALSE,
           \/ S2[s].ended = NoTime /\ E2[e].kind # "session_closed"
           \/ /\ S2[s].ended = E2[e].observed /\ E2[e].kind = "session_closed"
              /\ E2[e].retention = "durable"
    PROVE  SessionHistory(S2, E2, s)
<1> DEFINE M == Mine(E, s)
<1>1. Mine(E2, s) = M \cup {e} /\ e \notin M /\ \A f \in M : E2[f] = E[f]
  BY FollowsMine
<1>2. /\ E2[e].seq \in Nat \ {0} /\ E2[e].observed \in Nat
      /\ \A f \in M : /\ E[f].seq \in Nat \ {0} /\ E[f].observed \in Nat
                      /\ E[f].seq < E2[e].seq /\ E[f].observed <= E2[e].observed
  BY DEF Follows
<1>3. OrderedHistory(E2, s)
  BY OrderFollows DEF SessionHistory
<1>4. StartAnchored(S2, E2, s)
  <2>1. /\ \E f \in M : E[f].seq = 1
        /\ \A f \in M : /\ E[f].kind = "session_started" <=> E[f].seq = 1
                        /\ E[f].seq = 1 => /\ E[f].observed = S[s].started
                                           /\ E[f].retention = "durable"
    BY DEF SessionHistory, StartAnchored
  <2>2. E2[e].seq # 1
    BY <1>2, <2>1
  <2> HIDE DEF M
  <2> QED
    BY <1>1, <2>1, <2>2 DEF StartAnchored
<1>5. CloseAnchored(S2, E2, s)
  <2>1. \A f \in M : E[f].kind # "session_closed"
    BY DEF SessionHistory, CloseAnchored
  <2> HIDE DEF M
  <2>2. CASE S2[s].ended = NoTime /\ E2[e].kind # "session_closed"
    BY <1>1, <2>1, <2>2 DEF CloseAnchored
  <2>3. CASE /\ S2[s].ended = E2[e].observed /\ E2[e].kind = "session_closed"
             /\ E2[e].retention = "durable"
    <3>1. \A f \in M \cup {e} : E2[f].seq <= E2[e].seq
      BY <1>1, <1>2
    <3>2. E2[e].observed # NoTime
      BY <1>2 DEF NoTime
    <3> QED
      BY <1>1, <2>1, <2>3, <3>1, <3>2 DEF CloseAnchored
  <2> QED
    BY <2>2, <2>3
<1>6. WithinSession(S2, E2, s)
  <2>1. \A f \in M : /\ E[f].observed >= S[s].started
                     /\ E[f].imported = S[s].imported
                     /\ E[f].imported => E[f].trust = "untrusted"
    BY DEF SessionHistory, WithinSession
  <2>2. S2[s].ended # NoTime => \A f \in M \cup {e} : E2[f].observed <= S2[s].ended
    BY <1>1, <1>2
  <2> HIDE DEF M
  <2> QED
    BY <1>1, <2>1, <2>2 DEF WithinSession
<1> QED
  BY <1>3, <1>4, <1>5, <1>6 DEF SessionHistory

\* Callers that keep to the kinds the command line offers for `remember'.
CommandKinds == UserKinds \cap (AnchorKinds \cup {"workflow"}) = {}

\* Each recording call writes events of its own kinds.
CallsKind ==
    \A c \in Client : calls[c] \in EventCall =>
        /\ calls[c].kind # "session_started"
        /\ calls[c].kind = "session_closed" <=> calls[c].op = "close"
        /\ calls[c].kind = "workflow" <=> calls[c].op = "workflow"
        /\ calls[c].op = "close" => calls[c].retention = "durable"
\* Imported sessions are closed: what is still recorded is local.
OpenAreLocal == \A s \in DOMAIN sessions : sessions[s].ended = NoTime => ~sessions[s].imported

HistoryInv == CallsKind /\ OpenAreLocal /\ HistoryConsistent

\* A call begins with a kind that its operation may record.
LEMMA BeginKind ==
    ASSUME TypeOK, CallsKind, NEW c \in Client, NEW call, Begin(c, call),
           call \in EventCall =>
              /\ call.kind # "session_started"
              /\ call.kind = "session_closed" <=> call.op = "close"
              /\ call.kind = "workflow" <=> call.op = "workflow"
              /\ call.op = "close" => call.retention = "durable"
    PROVE  CallsKind'
<1>1. \A d \in Client : calls'[d] = IF d = c THEN call ELSE calls[d]
  BY DEF Begin, TypeOK
<1> QED
  BY <1>1 DEF CallsKind

LEMMA ReturnKind ==
    ASSUME TypeOK, CallsKind, NEW c \in Client, calls' = [calls EXCEPT ![c] = Idle]
    PROVE  CallsKind'
<1>1. Idle \notin EventCall
  BY DEF Idle, EventCall
<1> QED
  BY <1>1 DEF CallsKind, TypeOK

LEMMA OutsideKind ==
    ASSUME CommandKinds, TypeOK, CallsKind, NEW c \in Client, Outside(c)
    PROVE  CallsKind'
<1>1. CASE CallStart(c) \/ CallConsolidate(c)
  <2>1. PICK op \in {"start", "consolidate"}, s \in SessionId \cup DOMAIN sessions :
           Begin(c, [op |-> op, session |-> s, requested |-> now])
    BY <1>1 DEF CallStart, CallConsolidate
  <2>2. [op |-> op, session |-> s, requested |-> now] \notin EventCall
    BY <2>1 DEF EventCall
  <2> QED
    BY <2>1, <2>2, BeginKind
<1>2. CASE CallAppend(c)
  <2>1. PICK call : /\ Begin(c, call) /\ call.op = "append" /\ call.kind \in UserKinds
    BY <1>2 DEF CallAppend, AppendCall
  <2>2. call.kind \notin {"session_started", "session_closed", "workflow"}
    BY <2>1 DEF CommandKinds, AnchorKinds
  <2> QED
    BY <2>1, <2>2, BeginKind
<1>3. CASE CallClose(c) \/ CallWorkflow(c)
  <2>1. PICK op, kind, subject, s, input :
           /\ CallFixed(c, op, kind, subject, s, input)
           /\ <<op, kind>> \in {<<"close", "session_closed">>, <<"workflow", "workflow">>}
    BY <1>3 DEF CallClose, CallWorkflow
  <2> DEFINE call == [op |-> op, session |-> s, requested |-> now, input |-> input,
                      rows |-> {}, read |-> ~Unread(input), kind |-> kind,
                      subject |-> subject, retention |-> "durable", trust |-> "observed",
                      supersedes |-> NoEvent, contradicts |-> NoEvent, valid |-> NoTime]
  <2>2. call.op = op /\ call.kind = kind /\ call.retention = "durable"
    OBVIOUS
  <2>3. Begin(c, call)
    BY <2>1 DEF CallFixed
  <2> HIDE DEF call
  <2> QED
    BY <2>1, <2>2, <2>3, BeginKind
<1>4. CASE ReadEvidence(c)
  <2>1. calls[c] \in EventCall
    BY <1>4, CallOfEvent DEF ReadEvidence
  <2>2. calls' = [calls EXCEPT ![c].rows = PreparedRows(calls[c].input), ![c].read = TRUE]
    BY <1>4 DEF ReadEvidence
  <2>3. /\ \A d \in Client \ {c} : calls'[d] = calls[d]
        /\ calls'[c].kind = calls[c].kind /\ calls'[c].op = calls[c].op
        /\ calls'[c].retention = calls[c].retention
    BY <2>1, <2>2 DEF TypeOK, EventCall
  <2> QED
    BY <2>1, <2>3 DEF CallsKind
<1>5. CASE Abandon(c)
  BY <1>5, ReturnKind DEF Abandon
<1> QED
  BY <1>1, <1>2, <1>3, <1>4, <1>5 DEF Outside

\* What a recording call adds follows the history of its session.
LEMMA StartFollows ==
    ASSUME TypeOK, NEW c \in Client, StartSession(c)
    PROVE  /\ Follows(events, events', FreshId, calls[c].session)
           /\ Mine(events, calls[c].session) = {}
<1> DEFINE s == calls[c].session
<1>1. s \notin DOMAIN sessions /\ calls[c].requested \in Time
  BY StartRecords DEF SessionCall
<1>2. Mine(events, s) = {}
  BY <1>1 DEF TypeOK, EventsTyped, Mine, Recorded
<1>3. /\ FreshId \notin DOMAIN events /\ DOMAIN events' = DOMAIN events \cup {FreshId}
      /\ \A f \in DOMAIN events : events'[f] = events[f]
      /\ events'[FreshId] = StartRow(calls[c])
  BY StartRecords DEF Recorded
<1>4. /\ StartRow(calls[c]).session = s /\ StartRow(calls[c]).seq = 1
      /\ StartRow(calls[c]).observed = calls[c].requested
  BY DEF StartRow
<1> QED
  BY <1>1, <1>2, <1>3, <1>4 DEF Follows, Time

LEMMA RecordFollows ==
    ASSUME TypeOK, NEW c \in Client, calls[c].op \in {"append", "close", "workflow"},
           RecordEvent(c)
    PROVE  /\ Follows(events, events', FreshId, calls[c].session)
           /\ events'[FreshId].observed >= sessions[calls[c].session].started
           /\ events'[FreshId].observed = ObservedAt(calls[c].session, calls[c].requested)
           /\ events'[FreshId].kind = calls[c].kind
           /\ events'[FreshId].retention = calls[c].retention
           /\ events'[FreshId].imported = FALSE
<1> DEFINE s == calls[c].session
           t == ObservedAt(s, calls[c].requested)
           row == events'[FreshId]
<1>1. /\ calls[c] \in EventCall /\ s \in DOMAIN sessions
      /\ FreshId \notin DOMAIN events /\ DOMAIN events' = DOMAIN events \cup {FreshId}
      /\ \A f \in DOMAIN events : events'[f] = events[f]
  BY RecordRecords DEF Recorded, IsOpen
<1>2. row = Row(calls[c], t) /\ row \in EventRow
  BY RecordRecords
<1>3. calls[c].requested \in Time
  BY <1>1 DEF EventCall
<1>4. /\ t \in Time /\ t >= sessions[s].started
      /\ \A e \in EventsOf(s) : t >= events[e].observed
  BY <1>1, <1>3, ObservedAtIs
<1>5. /\ NextSequence(s) \in Nat \ {0}
      /\ \A e \in EventsOf(s) : events[e].seq < NextSequence(s)
      /\ NextSequence(s) = 1 \/ \E e \in EventsOf(s) : events[e].seq = NextSequence(s) - 1
  BY <1>1, NextSequenceIs
<1> HIDE DEF row, t
<1>6. /\ row.session = s /\ row.seq = NextSequence(s) /\ row.observed = t
      /\ row.kind = calls[c].kind /\ row.retention = calls[c].retention
      /\ row.imported = FALSE
  BY <1>2 DEF Row
<1>7. Mine(events, s) = EventsOf(s)
  BY DEF Mine, EventsOf, Recorded
<1>8. \A f \in EventsOf(s) : events[f].seq \in Nat \ {0} /\ events[f].observed \in Nat
  BY DEF EventsOf, TypeOK, EventsTyped, EventRow, Time
<1> HIDE DEF s
<1>9. \A f \in EventsOf(s) : events[f].observed <= t
  BY <1>4, <1>8 DEF Time
<1>10. Follows(events, events', FreshId, s)
  BY <1>1, <1>4, <1>5, <1>6, <1>7, <1>8, <1>9 DEF Follows, row, Time
<1> QED
  BY <1>4, <1>6, <1>10 DEF s, t, row

\* A commit keeps every session's history...
LEMMA CommitHistory ==
    ASSUME TypeOK, HistoryInv, NEW c \in Client, Commit(c)
    PROVE  ValidHistory(sessions', events') /\ OpenAreLocal'
<1> DEFINE s == calls[c].session
<1> SUFFICES ASSUME NEW t \in DOMAIN sessions'
             PROVE  /\ SessionHistory(sessions', events', t)
                    /\ sessions'[t].ended = NoTime => ~sessions'[t].imported
  BY DEF ValidHistory, SessionHistory, OpenAreLocal
<1>1. /\ \A u \in DOMAIN sessions : SessionHistory(sessions, events, u)
      /\ \A u \in DOMAIN sessions : sessions[u].ended = NoTime => ~sessions[u].imported
  BY DEF HistoryInv, HistoryConsistent, ValidHistory, SessionHistory, OpenAreLocal
<1>2. CASE StartSession(c)
  <2>1. Follows(events, events', FreshId, s) /\ Mine(events, s) = {}
    BY <1>2, StartFollows
  <2> DEFINE new == [started |-> calls[c].requested, ended |-> NoTime, imported |-> FALSE]
  <2>2. /\ calls[c] \in SessionCall /\ s \notin DOMAIN sessions
        /\ events'[FreshId] = StartRow(calls[c])
        /\ sessions' = Put(sessions, s, new)
    BY <1>2, StartRecords
  <2>3. CASE t = s
    <3>1. sessions'[s] = new
      BY <2>2 DEF Put
    <3>2. /\ sessions'[s].started = calls[c].requested /\ sessions'[s].ended = NoTime
          /\ sessions'[s].imported = FALSE
      BY <3>1
    <3>3. calls[c].requested \in Nat
      BY <2>2 DEF SessionCall, Time
    <3>4. /\ events'[FreshId].kind = "session_started"
          /\ events'[FreshId].observed = calls[c].requested
          /\ events'[FreshId].retention = "durable" /\ events'[FreshId].imported = FALSE
      BY <2>2 DEF StartRow
    <3> HIDE DEF s, new
    <3>5. SessionHistory(sessions', events', s)
      BY <2>1, <3>2, <3>3, <3>4, HistoryBegins
    <3> QED
      BY <2>3, <3>2, <3>5
  <2>4. CASE t # s
    <3>1. t \in DOMAIN sessions /\ sessions'[t] = sessions[t]
      BY <2>2, <2>4 DEF Put
    <3>2. Mine(events', t) = Mine(events, t) /\ \A f \in Mine(events, t) : events'[f] = events[f]
      BY <2>1, <2>4, FollowsMine
    <3>3. SessionHistory(sessions', events', t)
      BY <1>1, <3>1, <3>2, HistoryKept
    <3> QED
      BY <1>1, <3>1, <3>3
  <2> QED
    BY <2>3, <2>4
<1>3. CASE AppendEvent(c) \/ CloseSession(c) \/ PutWorkflow(c)
  <2>1. RecordEvent(c) /\ calls[c].op \in {"append", "close", "workflow"}
    BY <1>3 DEF AppendEvent, CloseSession, PutWorkflow
  <2>2. /\ Follows(events, events', FreshId, s)
        /\ events'[FreshId].observed >= sessions[s].started
        /\ events'[FreshId].observed = ObservedAt(s, calls[c].requested)
        /\ events'[FreshId].kind = calls[c].kind
        /\ events'[FreshId].retention = calls[c].retention
        /\ events'[FreshId].imported = FALSE
    BY <2>1, RecordFollows
  <2>3. calls[c] \in EventCall /\ s \in DOMAIN sessions /\ sessions[s].ended = NoTime
    BY <2>1, RecordRecords DEF IsOpen
  <2>4. sessions[s].started \in Nat /\ sessions[s].imported = FALSE
    BY <1>1, <2>3 DEF TypeOK, SessionsTyped, SessionRow, Time
  <2>5. /\ DOMAIN sessions' = DOMAIN sessions
        /\ \A u \in DOMAIN sessions \ {s} : sessions'[u] = sessions[u]
        /\ sessions'[s].started = sessions[s].started
        /\ sessions'[s].imported = sessions[s].imported
        /\ \/ calls[c].op # "close" /\ sessions'[s].ended = NoTime
           \/ calls[c].op = "close" /\ sessions'[s].ended = ObservedAt(s, calls[c].requested)
    <3>1. CASE UNCHANGED sessions /\ calls[c].op # "close"
      BY <2>3, <3>1
    <3>2. CASE CloseSession(c)
      <4>1. sessions' = [sessions EXCEPT ![s].ended = ObservedAt(s, calls[c].requested)]
            /\ calls[c].op = "close"
        BY <3>2 DEF CloseSession
      <4>2. sessions[s] \in SessionRow
        BY <2>3 DEF TypeOK, SessionsTyped
      <4> DEFINE t2 == ObservedAt(s, calls[c].requested)
      <4> HIDE DEF t2
      <4> QED
        BY <2>3, <4>1, <4>2 DEF SessionRow, t2
    <3> QED
      BY <1>3, <3>1, <3>2 DEF AppendEvent, PutWorkflow
  <2>6. /\ calls[c].kind # "session_started"
        /\ calls[c].kind = "session_closed" <=> calls[c].op = "close"
        /\ calls[c].op = "close" => calls[c].retention = "durable"
    BY <2>3 DEF HistoryInv, CallsKind
  <2>7. CASE t = s
    <3> HIDE DEF s
    <3>1. SessionHistory(sessions', events', s)
      BY <1>1, <2>2, <2>3, <2>4, <2>5, <2>6, HistoryGoesOn
    <3> QED
      BY <2>4, <2>5, <2>7, <3>1
  <2>8. CASE t # s
    <3>1. t \in DOMAIN sessions /\ sessions'[t] = sessions[t]
      BY <2>5, <2>8
    <3>2. Mine(events', t) = Mine(events, t) /\ \A f \in Mine(events, t) : events'[f] = events[f]
      BY <2>2, <2>8, FollowsMine
    <3>3. SessionHistory(sessions', events', t)
      BY <1>1, <3>1, <3>2, HistoryKept
    <3> QED
      BY <1>1, <3>1, <3>3
  <2> QED
    BY <2>7, <2>8
<1>4. CASE Consolidate(c)
  <2>1. UNCHANGED <<sessions, events>>
    BY <1>4 DEF Consolidate
  <2> QED
    BY <1>1, <2>1
<1> QED
  BY <1>2, <1>3, <1>4 DEF Commit

\* ...and writes a workflow record with every workflow event, and with no other.
LEMMA CommitWorkflows ==
    ASSUME TypeOK, HistoryInv, NEW c \in Client, Commit(c)
    PROVE  ValidWorkflows(events', workflows')
<1>1. workflows = {e \in DOMAIN events : events[e].kind = "workflow"}
  BY DEF HistoryInv, HistoryConsistent, ValidWorkflows
<1>2. CASE StartSession(c)
  <2>1. /\ DOMAIN events' = DOMAIN events \cup {FreshId}
        /\ \A f \in DOMAIN events : events'[f] = events[f]
        /\ events'[FreshId] = StartRow(calls[c]) /\ FreshId \notin DOMAIN events
        /\ UNCHANGED workflows
    BY <1>2, StartRecords DEF Recorded
  <2>2. events'[FreshId].kind = "session_started"
    BY <2>1 DEF StartRow
  <2> QED
    BY <1>1, <2>1, <2>2 DEF ValidWorkflows
<1>3. CASE AppendEvent(c) \/ CloseSession(c) \/ PutWorkflow(c)
  <2>1. RecordEvent(c) /\ calls[c].op \in {"append", "close", "workflow"}
    BY <1>3 DEF AppendEvent, CloseSession, PutWorkflow
  <2>2. /\ DOMAIN events' = DOMAIN events \cup {FreshId} /\ FreshId \notin DOMAIN events
        /\ \A f \in DOMAIN events : events'[f] = events[f]
        /\ calls[c] \in EventCall
    BY <2>1, RecordRecords DEF Recorded
  <2>3. events'[FreshId].kind = calls[c].kind
    BY <2>1, RecordFollows
  <2>4. calls[c].kind = "workflow" <=> calls[c].op = "workflow"
    BY <2>2 DEF HistoryInv, CallsKind
  <2>5. workflows' = IF calls[c].op = "workflow" THEN workflows \cup {FreshId} ELSE workflows
    BY <1>3 DEF AppendEvent, CloseSession, PutWorkflow, WithWorkflow
  <2> QED
    BY <1>1, <2>2, <2>3, <2>4, <2>5 DEF ValidWorkflows
<1>4. CASE Consolidate(c)
  BY <1>1, <1>4 DEF Consolidate, ValidWorkflows
<1> QED
  BY <1>2, <1>3, <1>4 DEF Commit

\* What a pack brings was judged by the same rules before it was inserted.
LEMMA RestoreHistory ==
    ASSUME NEW pack \in Packs, Restore(pack)
    PROVE  HistoryConsistent' /\ OpenAreLocal'
<1>1. HistoryConsistent'
  BY DEF Restore, Restorable, HistoryConsistent
<1>2. \A s \in DOMAIN pack.sessions : RestoredSessions(pack)[s].ended # NoTime
  BY PackAssumption DEF RestoredSessions
<1>3. DOMAIN RestoredSessions(pack) = DOMAIN pack.sessions
  BY DEF RestoredSessions
<1>4. sessions' = RestoredSessions(pack)
  BY DEF Restore
<1> QED
  BY <1>1, <1>2, <1>3, <1>4 DEF OpenAreLocal

LEMMA HistoryInvHolds ==
    ASSUME CommandKinds
    PROVE  Spec => []HistoryInv
<1>1. Init => HistoryInv
  <2> SUFFICES ASSUME Init PROVE HistoryInv
    OBVIOUS
  <2>1. CallsKind
    BY DEF Init, CallsKind, Idle, EventCall
  <2>2. DOMAIN sessions = {} /\ DOMAIN events = {} /\ workflows = {}
    BY DEF Init
  <2> QED
    BY <2>1, <2>2 DEF HistoryInv, HistoryConsistent, OpenAreLocal, ValidHistory, ValidWorkflows
<1>2. TypeOK /\ HistoryInv /\ [Next]_vars => HistoryInv'
  <2> SUFFICES ASSUME TypeOK, HistoryInv, [Next]_vars PROVE HistoryInv'
    OBVIOUS
  <2>1. CallsKind /\ OpenAreLocal /\ HistoryConsistent
    BY DEF HistoryInv
  <2>2. CallsKind'
    <3>1. CASE \E c \in Client : Outside(c)
      BY <2>1, <3>1, OutsideKind
    <3>2. CASE \E c \in Client : Commit(c)
      <4>1. PICK c \in Client : calls' = [calls EXCEPT ![c] = Idle]
        BY <3>2 DEF Commit, StartSession, AppendEvent, CloseSession, PutWorkflow,
                    RecordEvent, Consolidate, Return
      <4> QED
        BY <2>1, <4>1, ReturnKind
    <3>3. CASE UNCHANGED calls
      BY <2>1, <3>3 DEF CallsKind
    <3> QED
      BY <3>1, <3>2, <3>3 DEF Next, Transaction, Reverify, Restore, EditSource,
                              UpgradePolicy, Tick, StepBack, vars
  <2>3. (OpenAreLocal /\ HistoryConsistent)'
    <3>1. CASE UNCHANGED <<sessions, events, workflows>>
      BY <2>1, <3>1 DEF OpenAreLocal, HistoryConsistent
    <3>2. CASE \E c \in Client : Commit(c)
      BY <3>2, CommitHistory, CommitWorkflows DEF HistoryConsistent
    <3>3. CASE \E pack \in Packs : Restore(pack)
      BY <3>3, RestoreHistory
    <3> QED
      BY <3>1, <3>2, <3>3, StepCases DEF tables, Reverify
  <2> QED
    BY <2>2, <2>3 DEF HistoryInv
<1> QED
  BY <1>1, <1>2, TypeCorrect, PTL DEF Spec

\* For callers that keep to the kinds the command line offers (core.py), the
\* events of every session tell one history, however calls overlap between
\* their reading of the clock and the lock and whatever the clock does:
\* numbered without a gap, never moving back in time, opened by the start
\* event, closed by the close event; and every workflow event has its record
\* (`_append_event_tx', `_next_session_observed_at', close_session,
\* put_workflow, restore_untrusted_document).
THEOREM HistoryHolds ==
    ASSUME CommandKinds
    PROVE  Spec => []HistoryConsistent
BY HistoryInvHolds, PTL DEF HistoryInv

\* For callers that keep to the kinds the command line offers: of what every
\* call checks before it goes on, only that promotions are active can fail.  The
\* other rules of `_semantic_errors' hold in every state that the operations
\* reach.  A caller of the library that records an event of kind "workflow"
\* (api.py) breaks one more of them, since put_workflow alone writes its record.
THEOREM LedgerOpens ==
    ASSUME CommandKinds
    PROVE  Spec => [](PromotionsActive => SemanticallyValid)
<1>1. /\ HistoryConsistent /\ RelationsSound /\ VerificationFollowsAttempts
      /\ PromotionsBacked
      => (PromotionsActive => SemanticallyValid)
  BY DEF HistoryConsistent, RelationsSound, VerificationFollowsAttempts, PromotionsBacked,
         SemanticallyValid
<1> QED
  BY <1>1, HistoryHolds, RelationsHold, VerificationCorrect, PromotionsHold, PTL

-----------------------------------------------------------------------------
(* What was known before the watermark *)

\* A set of times has an earliest one.
LEMMA EarliestExists ==
    ASSUME NEW S \in SUBSET Nat, S # {}
    PROVE  \E x \in S : \A y \in S : x <= y
<1>1. PICK n \in S : TRUE
  OBVIOUS
<1> DEFINE A == {m \in S : m <= n}
           f == [m \in A |-> n - m]
           T == {f[m] : m \in A}
<1>2. IsFiniteSet(0..n) /\ A \subseteq 0..n
  <2>1. n \in Nat /\ \A m \in S : m \in Nat
    OBVIOUS
  <2>2. IsFiniteSet(0..n)
    BY <2>1, FS_Interval
  <2>3. A \subseteq 0..n
    <3> SUFFICES ASSUME NEW m \in S, m <= n PROVE m \in 0..n
      OBVIOUS
    <3> QED
      BY <2>1
  <2> HIDE DEF A
  <2> QED
    BY <2>2, <2>3
<1>3. IsFiniteSet(A) /\ n \in A
  BY <1>2, FS_Subset
<1>4. f \in [A -> Int]
  <2>1. \A m \in A : n - m \in Int
    BY <1>1
  <2> QED
    BY <2>1
<1>5. \A m \in A : f[m] = n - m
  OBVIOUS
<1> HIDE DEF f
<1>6. IsFiniteSet(T) /\ T \in SUBSET Int /\ T # {}
  BY <1>3, <1>4, ImageIsFinite
<1>7. PICK x \in T : \A y \in T : x >= y
  BY <1>6, FiniteHasLargest
<1>8. PICK m \in A : x = f[m]
  OBVIOUS
<1>9. \A k \in A : n - m >= n - k
  BY <1>5, <1>7, <1>8
<1>10. ASSUME NEW k \in S PROVE m <= k
  <2>1. m \in Nat /\ k \in Nat /\ n \in Nat /\ m <= n
    BY <1>8
  <2>2. CASE k <= n
    BY <1>9, <2>1, <2>2
  <2>3. CASE k > n
    BY <2>1, <2>3
  <2> QED
    BY <2>1, <2>2, <2>3
<1> QED
  BY <1>10

\* What is before the watermark is before now and before every call's time.
LEMMA WatermarkIs ==
    ASSUME TypeOK, NEW known \in 0..(Watermark - 1)
    PROVE  known < now /\ \A c \in InFlight : known < calls[c].requested
<1> DEFINE S == {now} \cup {calls[c].requested : c \in InFlight}
<1>1. now \in Nat
  BY DEF TypeOK, WorldTyped, Time
<1>2. \A c \in InFlight : calls[c].requested \in Nat
  BY DEF InFlight, TypeOK, CallsTyped, SessionCall, EventCall, Time
<1>3. S \in SUBSET Nat /\ S # {}
  BY <1>1, <1>2
<1>4. Watermark = Min(S)
  BY DEF Watermark
<1> HIDE DEF S
<1>5. Min(S) \in S /\ \A y \in S : Min(S) <= y
  BY <1>3, EarliestExists DEF Min
<1>6. ASSUME NEW y \in S PROVE known < y
  <2>1. Min(S) \in Nat /\ y \in Nat /\ Min(S) <= y
    BY <1>3, <1>5
  <2>2. known \in 0..(Min(S) - 1)
    BY <1>4
  <2> QED
    BY <2>1, <2>2
<1> QED
  BY <1>6 DEF S

\* Of the attempts known by some time there is a last one.
LEMMA LastKnownIs ==
    ASSUME NEW e, NEW known, attempts[e] \in Seq(AttemptRow), KnownAttempts(e, known) # {}
    PROVE  LastKnown(e, known) \in KnownAttempts(e, known)
<1> DEFINE K == KnownAttempts(e, known)
<1>1. K \subseteq 1..Len(attempts[e]) /\ Len(attempts[e]) \in Nat
  BY DEF KnownAttempts
<1>2. IsFiniteSet(1..Len(attempts[e]))
  BY <1>1, FS_Interval
<1>3. IsFiniteSet(K) /\ K \in SUBSET Int
  BY <1>1, <1>2, FS_Subset
<1>4. \E i \in K : \A j \in K : i >= j
  BY <1>3, FiniteHasLargest
<1>5. \E i \in K : \A j \in K : j <= i
  BY <1>3, <1>4
<1> QED
  BY <1>5 DEF LastKnown

\* An event's state at a known time rests on its attempts up to then, and on
\* what its evidence cites.
LEMMA StateKept ==
    ASSUME NEW e, NEW known, attempts[e] \in Seq(AttemptRow),
           KnownAttempts(e, known)' = KnownAttempts(e, known),
           \A i \in KnownAttempts(e, known) : attempts'[e][i] = attempts[e][i],
           Supported(e)' = Supported(e),
           Supported(e) => \A p : StaleReason(e, p)' = StaleReason(e, p)
    PROVE  VerificationState(e, known)' = VerificationState(e, known)
<1>1. LastKnown(e, known)' = LastKnown(e, known)
  BY DEF LastKnown
<1>2. CASE KnownAttempts(e, known) = {}
  BY <1>2 DEF VerificationState
<1>3. CASE KnownAttempts(e, known) # {}
  <2> DEFINE i == LastKnown(e, known)
  <2>1. PICK a : a = attempts[e][i]
    OBVIOUS
  <2>2. attempts'[e][i] = a
    BY <1>3, <2>1, LastKnownIs
  <2>3. VerificationState(e, known)
          = IF a.outcome = "verified" /\ Supported(e) /\ StaleReason(e, a.policy) = "none"
            THEN "current" ELSE "stale"
    BY <1>3, <2>1 DEF VerificationState
  <2>4. VerificationState(e, known)'
          = IF a.outcome = "verified" /\ Supported(e)' /\ StaleReason(e, a.policy)' = "none"
            THEN "current" ELSE "stale"
    BY <1>1, <1>3, <2>2 DEF VerificationState
  <2> QED
    BY <2>3, <2>4
<1> QED
  BY <1>2, <1>3

\* A recall changes neither by events observed after its knowledge time nor as
\* long as the state of every older event stays as it was.
LEMMA RecallKept ==
    ASSUME NEW known, NEW valid, Recorded \subseteq Recorded',
           \A f \in Recorded : /\ events'[f] = events[f]
                               /\ VerificationState(f, known)' = VerificationState(f, known),
           \A f \in Recorded' \ Recorded : ~(events'[f].observed <= known)
    PROVE  Recall(known, valid, FALSE, FALSE)' = Recall(known, valid, FALSE, FALSE)
<1>1. \A e : Supersessors(e, known, valid)' = Supersessors(e, known, valid)
  BY DEF Supersessors
<1>2. \A e : Supersessors(e, known, valid) \subseteq Recorded
  BY DEF Supersessors
<1>3. \A e : HasEligibleSupersessor(e, known, valid, FALSE, FALSE)'
               <=> HasEligibleSupersessor(e, known, valid, FALSE, FALSE)
  BY <1>1, <1>2 DEF HasEligibleSupersessor
<1> DEFINE Shown(e) ==
             /\ events[e].observed <= known /\ events[e].valid <= valid
             /\ VerificationState(e, known) # "stale"
             /\ events[e].trust = "observed" \/ VerificationState(e, known) = "current"
             /\ ~HasEligibleSupersessor(e, known, valid, FALSE, FALSE)
<1>4. Recall(known, valid, FALSE, FALSE) = {e \in Recorded : Shown(e)}
  BY DEF Recall
<1>5. Recall(known, valid, FALSE, FALSE)' = {e \in Recorded' : Shown(e)'}
  BY DEF Recall
<1>6. \A e \in Recorded : Shown(e)' <=> Shown(e)
  BY <1>3
<1>7. \A e \in Recorded' \ Recorded : ~Shown(e)'
  OBVIOUS
<1> HIDE DEF Shown
<1> QED
  BY <1>4, <1>5, <1>6, <1>7

\* An event whose rows do not change keeps its state.
LEMMA UntouchedState ==
    ASSUME TypeOK, UNCHANGED <<content, policy>>, NEW f \in Recorded, NEW known,
           evidence'[f] = evidence[f], attempts'[f] = attempts[f]
    PROVE  VerificationState(f, known)' = VerificationState(f, known)
<1>1. KnownAttempts(f, known)' = KnownAttempts(f, known)
  BY DEF KnownAttempts
<1>2. Supported(f)' = Supported(f)
  BY DEF Supported
<1>3. \A p : StaleReason(f, p)' = StaleReason(f, p)
  BY DEF StaleReason
<1>4. attempts[f] \in Seq(AttemptRow)
  BY DEF TypeOK, TrustTyped
<1> QED
  BY <1>1, <1>2, <1>3, <1>4, StateKept

\* Verifying an event again leaves what was known of it earlier.
LEMMA ReverifiedState ==
    ASSUME TypeOK, NEW e \in Recorded, Reverify(e), NEW known \in Nat, known < now
    PROVE  VerificationState(e, known)' = VerificationState(e, known)
<1> DEFINE before == attempts[e]
           n == Len(before)
           failure == StaleReason(e, policy)
           passed == failure = "none"
           stamp == IF passed THEN CheckedAt(e) ELSE NoTime
           attempt == Attempt(CheckedAt(e), IF passed THEN "verified" ELSE "stale", failure)
<1>1. /\ before \in Seq(AttemptRow) /\ DOMAIN attempts = Recorded
      /\ DOMAIN evidence = Recorded /\ evidence[e] \subseteq EvidenceRow
  BY DEF TypeOK, TrustTyped
<1>2. /\ attempts' = [attempts EXCEPT ![e] = @ \o <<attempt>>]
      /\ evidence' = [evidence EXCEPT ![e] =
                         {[r EXCEPT !.verified = passed, !.at = stamp] : r \in @}]
      /\ Supported(e) /\ UNCHANGED <<content, policy>>
  BY DEF Reverify, world
<1>3. CheckedAt(e) \in Time /\ CheckedAt(e) >= now
  BY CheckedAtIs
<1>4. attempt.at = CheckedAt(e)
  BY DEF Attempt
<1>5. now \in Nat
  BY DEF TypeOK, WorldTyped, Time
<1>6. ~(attempt.at <= known)
  BY <1>3, <1>4, <1>5 DEF Time
<1> HIDE DEF attempt, stamp, passed
<1>7. attempts'[e] = before \o <<attempt>>
  BY <1>1, <1>2
<1>8. /\ n \in Nat /\ DOMAIN before = 1..n /\ DOMAIN attempts'[e] = 1..(n + 1)
      /\ attempts'[e][n + 1] = attempt
      /\ \A i \in 1..n : attempts'[e][i] = before[i]
  BY <1>1, <1>7
<1>9. KnownAttempts(e, known) = {i \in 1..n : before[i].at <= known}
  BY <1>8 DEF KnownAttempts
<1>10. KnownAttempts(e, known)' = {i \in 1..(n + 1) : attempts'[e][i].at <= known}
  BY <1>8 DEF KnownAttempts
<1>11. KnownAttempts(e, known)' = KnownAttempts(e, known)
  <2> HIDE DEF n, before
  <2>1. \A i \in 1..(n + 1) : i \in 1..n \/ i = n + 1
    BY <1>8
  <2>2. 1..n \subseteq 1..(n + 1)
    BY <1>8
  <2> QED
    BY <1>6, <1>8, <1>9, <1>10, <2>1, <2>2
<1>12. evidence'[e] = {[r EXCEPT !.verified = passed, !.at = stamp] : r \in evidence[e]}
  BY <1>1, <1>2
<1>13. \A r \in evidence[e] :
          LET q == [r EXCEPT !.verified = passed, !.at = stamp]
          IN q.kind = r.kind /\ q.source = r.source /\ q.digest = r.digest
  <2> SUFFICES ASSUME NEW r \in evidence[e], NEW q,
                      q = [r EXCEPT !.verified = passed, !.at = stamp]
               PROVE  q.kind = r.kind /\ q.source = r.source /\ q.digest = r.digest
    OBVIOUS
  <2>1. r \in EvidenceRow /\ r.kind = "source"
    BY <1>1, <1>2 DEF Supported
  <2>2. r \in [kind : {"source"}, source : Source, digest : Content, verified : BOOLEAN,
               at : Time \cup {NoTime}]
    BY <2>1 DEF EvidenceRow
  <2> QED
    BY <2>2
<1>14. /\ \A r \in evidence[e] : \E q \in evidence'[e] :
             q.kind = r.kind /\ q.source = r.source /\ q.digest = r.digest
       /\ \A q \in evidence'[e] : \E r \in evidence[e] :
             q.kind = r.kind /\ q.source = r.source /\ q.digest = r.digest
  BY <1>12, <1>13
<1>15. Supported(e)' = Supported(e)
  BY <1>14 DEF Supported
<1>16. \A p : StaleReason(e, p)' = StaleReason(e, p)
  <2> SUFFICES ASSUME NEW p PROVE StaleReason(e, p)' = StaleReason(e, p)
    OBVIOUS
  <2>1. (\E r \in evidence'[e] : r.kind # "source") <=> \E r \in evidence[e] : r.kind # "source"
    BY <1>14
  <2>2. (\E r \in evidence'[e] : content[r.source] = Unavailable)
          <=> \E r \in evidence[e] : content[r.source] = Unavailable
    BY <1>14
  <2>3. (\E r \in evidence'[e] : content[r.source] # r.digest)
          <=> \E r \in evidence[e] : content[r.source] # r.digest
    BY <1>14
  <2> QED
    BY <1>2, <2>1, <2>2, <2>3 DEF StaleReason
<1>17. \A i \in KnownAttempts(e, known) : attempts'[e][i] = attempts[e][i]
  BY <1>8, <1>9
<1> QED
  BY <1>1, <1>11, <1>15, <1>16, <1>17, StateKept

\* What is inserted was asked for after the watermark.
LEMMA CommitState ==
    ASSUME TypeOK, NEW c \in Client, Commit(c), UNCHANGED <<content, policy>>,
           NEW known \in 0..(Watermark - 1)
    PROVE  /\ Recorded \subseteq Recorded'
           /\ \A f \in Recorded : /\ events'[f] = events[f]
                                  /\ VerificationState(f, known)' = VerificationState(f, known)
           /\ \A f \in Recorded' \ Recorded : ~(events'[f].observed <= known)
<1>1. known \in Nat /\ \A d \in InFlight : known < calls[d].requested
  BY WatermarkIs
<1>2. CASE StartSession(c)
  <2>1. /\ calls[c] \in SessionCall
        /\ Recorded' = Recorded \cup {FreshId}
        /\ events'[FreshId] = StartRow(calls[c])
        /\ \A f \in Recorded : /\ events'[f] = events[f]
                               /\ evidence'[f] = evidence[f]
                               /\ attempts'[f] = attempts[f]
    BY <1>2, StartRecords
  <2>2. events'[FreshId].observed = calls[c].requested
    BY <2>1 DEF StartRow
  <2>3. c \in InFlight /\ calls[c].requested \in Nat
    BY <2>1 DEF InFlight, Idle, SessionCall, Time
  <2>4. ~(calls[c].requested <= known)
    BY <1>1, <2>3
  <2> QED
    BY <2>1, <2>2, <2>4, UntouchedState
<1>3. CASE AppendEvent(c) \/ CloseSession(c) \/ PutWorkflow(c)
  <2>1. RecordEvent(c) /\ calls[c].op \in {"append", "close", "workflow"}
    BY <1>3 DEF AppendEvent, CloseSession, PutWorkflow
  <2> DEFINE t == ObservedAt(calls[c].session, calls[c].requested)
  <2>2. /\ calls[c] \in EventCall /\ calls[c].session \in DOMAIN sessions
        /\ Recorded' = Recorded \cup {FreshId}
        /\ \A f \in Recorded : /\ events'[f] = events[f]
                               /\ evidence'[f] = evidence[f]
                               /\ attempts'[f] = attempts[f]
    BY <2>1, RecordRecords DEF IsOpen
  <2>3. events'[FreshId].observed = t
    BY <2>1, RecordFollows
  <2>4. c \in InFlight /\ calls[c].requested \in Time
    BY <2>2 DEF InFlight, Idle, EventCall
  <2>5. t \in Time /\ t >= calls[c].requested
    BY <2>2, <2>4, ObservedAtIs
  <2> HIDE DEF t
  <2>6. ~(t <= known)
    BY <1>1, <2>4, <2>5 DEF Time
  <2> QED
    BY <2>2, <2>3, <2>6, UntouchedState
<1>4. CASE Consolidate(c)
  <2>1. UNCHANGED <<events, evidence, attempts>>
    BY <1>4 DEF Consolidate
  <2>2. Recorded' = Recorded
    BY <2>1 DEF Recorded
  <2> QED
    BY <2>1, <2>2, UntouchedState
<1> QED
  BY <1>2, <1>3, <1>4 DEF Commit

\* An import brings untrusted events without an attempt, which no such recall
\* returns.
LEMMA RestoredIsHidden ==
    ASSUME NEW pack \in Packs, Restore(pack), NEW known, NEW valid
    PROVE  Recall(known, valid, FALSE, FALSE)' = Recall(known, valid, FALSE, FALSE)
<1>1. Recall(known, valid, FALSE, FALSE) = {}
  BY DEF Recall, Restore
<1>2. \A e \in Recorded' : events'[e].trust = "untrusted" /\ attempts'[e] = << >>
  <2> SUFFICES ASSUME NEW e \in DOMAIN pack.events
               PROVE  events'[e].trust = "untrusted" /\ attempts'[e] = << >>
    BY DEF Restore, RestoredEvents, Recorded
  <2>1. pack.events[e] \in EventRow
    BY PackAssumption
  <2>2. events'[e] = [pack.events[e] EXCEPT !.trust = "untrusted", !.imported = TRUE]
    BY DEF Restore, RestoredEvents
  <2>3. events'[e].trust = "untrusted"
    BY <2>1, <2>2 DEF EventRow
  <2> QED
    BY <2>3 DEF Restore
<1>3. \A e \in Recorded' : VerificationState(e, known)' = "unverified"
  BY <1>2 DEF VerificationState, KnownAttempts
<1>4. Recall(known, valid, FALSE, FALSE)' = {}
  BY <1>2, <1>3 DEF Recall
<1> QED
  BY <1>1, <1>4

\* A recall of what was known before the watermark, the earliest time a call in
\* flight can still record, gives the same answer after every step that leaves
\* the sources and the policy as they are: for every knowledge time and
\* validity time, with any number of calls overlapping, events verified again,
\* and packs restored (recall, `_verification_state', append_event, reverify).
THEOREM KnownStaysKnown == Spec => AsOfStable
<1>1. ASSUME TypeOK, [Next]_vars, UNCHANGED <<content, policy>>,
             NEW known \in 0..(Watermark - 1), NEW valid \in 0..MaxTime
      PROVE  Recall(known, valid, FALSE, FALSE)' = Recall(known, valid, FALSE, FALSE)
  <2>1. CASE UNCHANGED tables
    <3>1. UNCHANGED <<events, evidence, attempts>> /\ Recorded' = Recorded
      BY <2>1 DEF tables, Recorded
    <3> QED
      BY <1>1, <3>1, UntouchedState, RecallKept
  <2>2. CASE \E c \in Client : Commit(c)
    BY <1>1, <2>2, CommitState, RecallKept
  <2>3. CASE \E e \in Recorded : Reverify(e)
    <3>1. PICK e \in Recorded : Reverify(e)
      BY <2>3
    <3>2. UNCHANGED events /\ Recorded' = Recorded
      BY <3>1 DEF Reverify, Recorded
    <3>3. known \in Nat /\ known < now
      BY <1>1, WatermarkIs
    <3>4. VerificationState(e, known)' = VerificationState(e, known)
      BY <1>1, <3>1, <3>3, ReverifiedState
    <3>5. \A f \in Recorded \ {e} : evidence'[f] = evidence[f] /\ attempts'[f] = attempts[f]
      BY <1>1, <3>1 DEF Reverify, TypeOK, TrustTyped
    <3>6. \A f \in Recorded \ {e} : VerificationState(f, known)' = VerificationState(f, known)
      BY <1>1, <3>5, UntouchedState
    <3> QED
      BY <3>2, <3>4, <3>6, RecallKept
  <2>4. CASE \E pack \in Packs : Restore(pack)
    BY <2>4, RestoredIsHidden
  <2> QED
    BY <1>1, <2>1, <2>2, <2>3, <2>4, StepCases
<1>2. TypeOK /\ [Next]_vars =>
        (UNCHANGED <<content, policy>> =>
           \A known \in 0..(Watermark - 1), valid \in 0..MaxTime :
              Recall(known, valid, FALSE, FALSE)' = Recall(known, valid, FALSE, FALSE))
  BY <1>1
<1> QED
  BY <1>2, TypeCorrect, PTL DEF Spec, AsOfStable

-----------------------------------------------------------------------------
(* Packs *)

\* The place of e when the members of A are put in the order of w.
Rank(A, w, e) == Cardinality({f \in A : w[f] <= w[e]})

LEMMA RankIsMonotone ==
    ASSUME NEW A, IsFiniteSet(A), NEW w \in [A -> Int],
           NEW e \in A, NEW f \in A, w[e] < w[f]
    PROVE  Rank(A, w, e) < Rank(A, w, f)
<1> DEFINE X == {g \in A : w[g] <= w[e]}
           Y == {g \in A : w[g] <= w[f]}
<1>1. \A g \in A : w[g] \in Int
  OBVIOUS
<1>2. X \subseteq Y /\ f \in Y /\ f \notin X
  BY <1>1
<1>3. IsFiniteSet(X) /\ IsFiniteSet(Y)
  BY FS_Subset
<1> HIDE DEF X, Y
<1>4. Cardinality(X) <= Cardinality(Y) /\ Cardinality(X) # Cardinality(Y)
  BY <1>2, <1>3, FS_Subset
<1>5. Cardinality(X) \in Nat /\ Cardinality(Y) \in Nat
  BY <1>3, FS_CardinalityType
<1>6. Cardinality(X) < Cardinality(Y)
  BY <1>4, <1>5
<1> QED
  BY <1>6 DEF Rank, X, Y

LEMMA RankIsPositive ==
    ASSUME NEW A, IsFiniteSet(A), NEW w \in [A -> Int], NEW e \in A
    PROVE  Rank(A, w, e) \in Nat \ {0}
<1> DEFINE X == {g \in A : w[g] <= w[e]}
<1>1. IsFiniteSet(X) /\ e \in X
  <2>1. w[e] \in Int
    OBVIOUS
  <2> QED
    BY <2>1, FS_Subset
<1> HIDE DEF X
<1>2. Cardinality(X) \in Nat /\ Cardinality(X) # 0
  BY <1>1, FS_CardinalityType, FS_EmptySet
<1> QED
  BY <1>2 DEF Rank, X

\* The first has place 1.
LEMMA FirstRank ==
    ASSUME NEW A, IsFiniteSet(A), NEW w \in [A -> Int], NEW e \in A,
           \A f \in A : f # e => w[e] < w[f]
    PROVE  Rank(A, w, e) = 1
<1>1. \A f \in A : w[f] \in Int
  OBVIOUS
<1>2. {g \in A : w[g] <= w[e]} = {e}
  BY <1>1
<1>3. Cardinality({e}) = 1
  BY FS_Singleton, Zenon
<1> QED
  BY <1>2, <1>3 DEF Rank

\* Who is not first has somebody right before it.
LEMMA RankBefore ==
    ASSUME NEW A, IsFiniteSet(A), NEW w \in [A -> Int],
           \A f, g \in A : w[f] = w[g] => f = g,
           NEW e \in A, Rank(A, w, e) # 1
    PROVE  \E f \in A : Rank(A, w, f) = Rank(A, w, e) - 1
<1> DEFINE X == {g \in A : w[g] <= w[e]}
           B == X \ {e}
           v == [f \in B |-> w[f]]
<1>1. \A g \in A : w[g] \in Int
  OBVIOUS
<1>2. IsFiniteSet(X) /\ e \in X
  BY <1>1, FS_Subset
<1>3. IsFiniteSet(B) /\ Cardinality(B) = Cardinality(X) - 1
  <2> HIDE DEF X
  <2> QED
    BY <1>2, FS_RemoveElement
<1>4. Cardinality(X) = Rank(A, w, e) /\ Cardinality(X) \in Nat
  BY <1>2, FS_CardinalityType DEF Rank
<1>5. B # {}
  <2> HIDE DEF B, X
  <2> QED
    BY <1>3, <1>4, FS_EmptySet
<1>6. v \in [B -> Int] /\ \A f \in B : v[f] = w[f]
  BY <1>1
<1> HIDE DEF v
<1> DEFINE V == {v[f] : f \in B}
<1>7. IsFiniteSet(V) /\ V \in SUBSET Int /\ V # {}
  <2> HIDE DEF B
  <2> QED
    BY <1>3, <1>5, <1>6, ImageIsFinite
<1>8. PICK x \in V : \A y \in V : x >= y
  <2> HIDE DEF V
  <2> QED
    BY <1>7, FiniteHasLargest
<1>9. PICK h \in B : x = v[h]
  BY <1>8
<1>10. \A f \in B : w[f] <= w[h]
  BY <1>1, <1>6, <1>8, <1>9
<1>11. h \in A /\ w[h] < w[e]
  BY <1>1, <1>9
<1>12. {g \in A : w[g] <= w[h]} = B
  BY <1>1, <1>10, <1>11
<1> QED
  BY <1>3, <1>4, <1>11, <1>12 DEF Rank

\* The places are 1, 2, 3... without a gap.
LEMMA RanksAreDense ==
    ASSUME NEW A, IsFiniteSet(A), NEW w \in [A -> Int],
           \A f, g \in A : w[f] = w[g] => f = g,
           NEW e \in A, NEW n \in 1..Rank(A, w, e)
    PROVE  \E f \in A : Rank(A, w, f) = n
<1> DEFINE r == Rank(A, w, e)
           H == {m \in n..r : \E f \in A : Rank(A, w, f) = m}
<1>1. r \in Nat \ {0}
  BY RankIsPositive
<1>2. n \in Nat \ {0} /\ n <= r
  BY <1>1
<1>3. H \in SUBSET Nat /\ r \in H
  BY <1>1, <1>2
<1> HIDE DEF H
<1>4. PICK m \in H : \A k \in H : m <= k
  BY <1>3, EarliestExists
<1>5. m \in n..r /\ m \in Nat /\ n <= m
  BY <1>2, <1>3, <1>4 DEF H
<1>6. PICK g \in A : Rank(A, w, g) = m
  BY <1>4 DEF H
<1>7. CASE m = n
  BY <1>6, <1>7
<1>8. CASE m # n
  <2>1. m # 1 /\ m - 1 \in n..r /\ ~(m <= m - 1)
    BY <1>1, <1>2, <1>5, <1>8
  <2>2. PICK f \in A : Rank(A, w, f) = m - 1
    BY <1>6, <2>1, RankBefore
  <2>3. m - 1 \in H
    BY <2>1, <2>2 DEF H
  <2> QED
    BY <1>4, <2>1, <2>3
<1> QED
  BY <1>7, <1>8

\* The tables that the restoring ledger judges, for the pack it is given here.
PackSessions == RestoredSessions(PortableDocument)
PackEvents == RestoredEvents(PortableDocument)
\* The events of a session that go into the pack, and their numbers.
Packed(s) == {e \in PortableEvents : events[e].session = s}
Numbers(s) == [e \in Packed(s) |-> events[e].seq]

LEMMA PackTables ==
    ASSUME TypeOK
    PROVE  /\ DOMAIN PackSessions = PortableSessions /\ DOMAIN PackEvents = PortableEvents
           /\ \A s \in PortableSessions :
                 /\ PackSessions[s].started = sessions[s].started
                 /\ PackSessions[s].ended = sessions[s].ended
                 /\ PackSessions[s].imported = TRUE
           /\ \A e \in PortableEvents :
                 /\ PackEvents[e].session = events[e].session
                 /\ PackEvents[e].seq = Resequenced(e)
                 /\ PackEvents[e].kind = events[e].kind
                 /\ PackEvents[e].subject = events[e].subject
                 /\ PackEvents[e].observed = events[e].observed
                 /\ PackEvents[e].supersedes = events[e].supersedes
                 /\ PackEvents[e].contradicts = events[e].contradicts
                 /\ PackEvents[e].retention = events[e].retention
                 /\ PackEvents[e].trust = "untrusted" /\ PackEvents[e].imported = TRUE
<1> DEFINE D == PortableDocument
<1>1. /\ D.sessions = [s \in PortableSessions |-> sessions[s]]
      /\ D.events = [e \in PortableEvents |-> [events[e] EXCEPT !.seq = Resequenced(e)]]
  BY DEF PortableDocument
<1> HIDE DEF D
<1>2. PackSessions = [s \in PortableSessions |->
                         [started |-> sessions[s].started, ended |-> sessions[s].ended,
                          imported |-> TRUE]]
  BY <1>1 DEF PackSessions, RestoredSessions, D
<1>3. PackEvents = [e \in PortableEvents |->
                       [[events[e] EXCEPT !.seq = Resequenced(e)]
                           EXCEPT !.trust = "untrusted", !.imported = TRUE]]
  BY <1>1 DEF PackEvents, RestoredEvents, D
<1>4. ASSUME NEW e \in PortableEvents
      PROVE  /\ PackEvents[e].session = events[e].session
             /\ PackEvents[e].seq = Resequenced(e)
             /\ PackEvents[e].kind = events[e].kind
             /\ PackEvents[e].subject = events[e].subject
             /\ PackEvents[e].observed = events[e].observed
             /\ PackEvents[e].supersedes = events[e].supersedes
             /\ PackEvents[e].contradicts = events[e].contradicts
             /\ PackEvents[e].retention = events[e].retention
             /\ PackEvents[e].trust = "untrusted" /\ PackEvents[e].imported = TRUE
  <2>1. events[e] \in EventRow
    BY DEF TypeOK, EventsTyped, PortableEvents
  <2>2. PackEvents[e] = [[events[e] EXCEPT !.seq = Resequenced(e)]
                            EXCEPT !.trust = "untrusted", !.imported = TRUE]
    BY <1>3
  <2> QED
    BY <2>1, <2>2 DEF EventRow
<1> QED
  BY <1>2, <1>3, <1>4

\* The numbers in the pack are the places among the events of the session.
LEMMA ResequencedIs ==
    ASSUME TypeOK, NEW s \in PortableSessions, OrderedHistory(events, s)
    PROVE  /\ IsFiniteSet(Packed(s)) /\ Numbers(s) \in [Packed(s) -> Int]
           /\ \A e, f \in Packed(s) : Numbers(s)[e] = Numbers(s)[f] => e = f
           /\ \A e \in Packed(s) : /\ Numbers(s)[e] = events[e].seq
                                   /\ Resequenced(e) = Rank(Packed(s), Numbers(s), e)
<1>1. /\ Packed(s) \subseteq Mine(events, s) /\ Packed(s) \subseteq Recorded
      /\ \A e \in Packed(s) : events[e].seq \in Int
  BY DEF Packed, PortableEvents, Mine, Recorded, TypeOK, EventsTyped, EventRow
<1>2. IsFiniteSet(Packed(s))
  BY <1>1, FS_Subset DEF TypeOK, EventsTyped
<1>3. Numbers(s) \in [Packed(s) -> Int] /\ \A e \in Packed(s) : Numbers(s)[e] = events[e].seq
  BY <1>1 DEF Numbers
<1>4. \A e, f \in Packed(s) : events[e].seq = events[f].seq => e = f
  BY <1>1 DEF OrderedHistory
<1>5. ASSUME NEW e \in Packed(s)
      PROVE  Resequenced(e) = Rank(Packed(s), Numbers(s), e)
  <2>1. events[e].session = s
    BY DEF Packed
  <2>2. {f \in PortableEvents : /\ events[f].session = events[e].session
                                /\ events[f].seq <= events[e].seq}
          = {f \in Packed(s) : Numbers(s)[f] <= Numbers(s)[e]}
    BY <1>3, <2>1 DEF Packed
  <2> QED
    BY <2>2 DEF Resequenced, Rank
<1> QED
  BY <1>2, <1>3, <1>4, <1>5

\* The start event and the close event of a session travel with it.
LEMMA AnchorsArePacked ==
    ASSUME TypeOK, HistoryConsistent, NEW s \in PortableSessions
    PROVE  /\ SessionHistory(sessions, events, s) /\ sessions[s].ended # NoTime
           /\ \A e \in Mine(events, s) : events[e].kind \in AnchorKinds => e \in Packed(s)
<1>1. s \in DOMAIN sessions /\ sessions[s].ended # NoTime
  BY DEF PortableSessions, IsClosed
<1>2. SessionHistory(sessions, events, s)
  BY <1>1 DEF HistoryConsistent, ValidHistory, SessionHistory
<1>3. ASSUME NEW e \in Mine(events, s), events[e].kind \in AnchorKinds
      PROVE  e \in Packed(s)
  <2>1. events[e].retention = "durable"
    BY <1>2, <1>3 DEF SessionHistory, StartAnchored, CloseAnchored, AnchorKinds
  <2> QED
    BY <2>1 DEF Packed, PortableEvents, Mine, Recorded
<1> QED
  BY <1>1, <1>2, <1>3

\* Compacting keeps the order, the anchors and the times of a session.
LEMMA PackedHistory ==
    ASSUME TypeOK, HistoryConsistent, NEW s \in PortableSessions
    PROVE  SessionHistory(PackSessions, PackEvents, s)
<1> DEFINE A == Packed(s)
           R(e) == Rank(A, Numbers(s), e)
<1>1. /\ SessionHistory(sessions, events, s) /\ sessions[s].ended # NoTime
      /\ \A e \in Mine(events, s) : events[e].kind \in AnchorKinds => e \in A
  BY AnchorsArePacked
<1>2. /\ OrderedHistory(events, s) /\ StartAnchored(sessions, events, s)
      /\ CloseAnchored(sessions, events, s) /\ WithinSession(sessions, events, s)
  BY <1>1 DEF SessionHistory
<1>3. /\ IsFiniteSet(A) /\ Numbers(s) \in [A -> Int]
      /\ \A e, f \in A : Numbers(s)[e] = Numbers(s)[f] => e = f
      /\ \A e \in A : /\ Numbers(s)[e] = events[e].seq
                      /\ Resequenced(e) = R(e)
  BY <1>2, ResequencedIs
<1>4. /\ Mine(PackEvents, s) = A /\ A \subseteq Mine(events, s)
      /\ A \subseteq PortableEvents
  BY PackTables DEF Mine, Packed, PortableEvents, Recorded
<1>5. \A e \in A : /\ PackEvents[e].seq = R(e)
                   /\ PackEvents[e].kind = events[e].kind
                   /\ PackEvents[e].observed = events[e].observed
                   /\ PackEvents[e].retention = events[e].retention
                   /\ PackEvents[e].trust = "untrusted" /\ PackEvents[e].imported = TRUE
  BY <1>3, <1>4, PackTables
<1>6. /\ PackSessions[s].started = sessions[s].started
      /\ PackSessions[s].ended = sessions[s].ended /\ PackSessions[s].imported = TRUE
  BY PackTables
<1>7. \A e \in A : /\ events[e].seq \in Nat \ {0} /\ R(e) \in Nat \ {0}
  <2>1. \A e \in A : R(e) \in Nat \ {0}
    BY <1>3, RankIsPositive
  <2>2. \A e \in A : events[e].seq \in Nat \ {0}
    BY <1>4 DEF Mine, TypeOK, EventsTyped, EventRow, Recorded
  <2> QED
    BY <2>1, <2>2
<1>8. \A e, f \in A : events[e].seq < events[f].seq => R(e) < R(f)
  BY <1>3, RankIsMonotone
<1> HIDE DEF A, R
<1>9. \A e, f \in A : events[e].seq = events[f].seq => e = f
  BY <1>3
<1>10. \A e, f \in A : /\ R(e) = R(f) => e = f
                       /\ R(e) < R(f) => events[e].seq < events[f].seq
                       /\ events[e].seq <= events[f].seq => R(e) <= R(f)
  <2> SUFFICES ASSUME NEW e \in A, NEW f \in A
               PROVE  /\ R(e) = R(f) => e = f
                      /\ R(e) < R(f) => events[e].seq < events[f].seq
                      /\ events[e].seq <= events[f].seq => R(e) <= R(f)
    OBVIOUS
  <2>1. R(e) \in Int /\ R(f) \in Int /\ events[e].seq \in Int /\ events[f].seq \in Int
    BY <1>7
  <2>2. /\ events[e].seq < events[f].seq => R(e) < R(f)
        /\ events[f].seq < events[e].seq => R(f) < R(e)
        /\ events[e].seq = events[f].seq => e = f
    BY <1>8, <1>9
  <2> QED
    BY <2>1, <2>2
<1>11. OrderedHistory(PackEvents, s)
  <2>1. \A e, f \in A : events[e].seq < events[f].seq => events[e].observed <= events[f].observed
    BY <1>2, <1>4 DEF OrderedHistory
  <2>2. ASSUME NEW e \in A, NEW n \in 1..R(e) PROVE \E f \in A : R(f) = n
    BY <1>3, <2>2, RanksAreDense DEF R
  <2> QED
    BY <1>4, <1>5, <1>10, <2>1, <2>2 DEF OrderedHistory
<1>12. PICK first \in A : events[first].seq = 1
  <2>1. PICK e \in Mine(events, s) : events[e].seq = 1
    BY <1>2 DEF StartAnchored
  <2>2. events[e].kind = "session_started"
    BY <1>2, <2>1 DEF StartAnchored
  <2> QED
    BY <1>1, <2>1, <2>2 DEF AnchorKinds
<1>13. R(first) = 1
  <2>1. \A f \in A : f # first => Numbers(s)[first] < Numbers(s)[f]
    <3> SUFFICES ASSUME NEW f \in A, f # first PROVE events[first].seq < events[f].seq
      BY <1>3
    <3> QED
      BY <1>7, <1>9, <1>12
  <2> QED
    BY <1>3, <2>1, FirstRank DEF R
<1>14. StartAnchored(PackSessions, PackEvents, s)
  <2>1. \A e \in A : R(e) = 1 <=> events[e].seq = 1
    BY <1>9, <1>10, <1>12, <1>13
  <2>2. \A e \in A : /\ events[e].kind = "session_started" <=> events[e].seq = 1
                     /\ events[e].seq = 1 => /\ events[e].observed = sessions[s].started
                                             /\ events[e].retention = "durable"
    BY <1>2, <1>4 DEF StartAnchored
  <2> QED
    BY <1>4, <1>5, <1>6, <1>12, <1>13, <2>1, <2>2 DEF StartAnchored
<1>15. CloseAnchored(PackSessions, PackEvents, s)
  <2>1. PICK last \in A : events[last].kind = "session_closed"
    <3>1. PICK e \in Mine(events, s) : events[e].kind = "session_closed"
      BY <1>1, <1>2 DEF CloseAnchored
    <3> QED
      BY <1>1, <3>1 DEF AnchorKinds
  <2>2. \A e \in A : events[e].kind = "session_closed" =>
           /\ events[e].observed = sessions[s].ended /\ events[e].retention = "durable"
           /\ \A f \in A : events[f].seq <= events[e].seq
    BY <1>2, <1>4 DEF CloseAnchored
  <2>3. sessions[s].ended >= sessions[s].started
    BY <1>1, <1>2 DEF CloseAnchored
  <2> QED
    BY <1>1, <1>4, <1>5, <1>6, <1>10, <2>1, <2>2, <2>3 DEF CloseAnchored
<1>16. WithinSession(PackSessions, PackEvents, s)
  <2>1. \A e \in A : /\ events[e].observed >= sessions[s].started
                     /\ events[e].observed <= sessions[s].ended
    BY <1>1, <1>2, <1>4 DEF WithinSession
  <2> QED
    BY <1>4, <1>5, <1>6, <2>1 DEF WithinSession
<1> QED
  BY <1>11, <1>14, <1>15, <1>16 DEF SessionHistory

\* Relations in the pack are those of the ledger.
LEMMA PackedRelations ==
    ASSUME TypeOK, RelationInv, Exportable
    PROVE  HasRelationOrder(PackEvents) /\ ValidTargets(PackEvents)
<1>1. /\ DOMAIN PackEvents = PortableEvents /\ PortableEvents \subseteq DOMAIN events
      /\ \A e \in PortableEvents :
            /\ PackEvents[e].subject = events[e].subject
            /\ PackEvents[e].supersedes = events[e].supersedes
            /\ PackEvents[e].contradicts = events[e].contradicts
            /\ PackEvents[e].retention = events[e].retention
  BY PackTables DEF PortableEvents, Recorded
<1>2. HasRelationOrder(PackEvents)
  <2> SUFFICES ASSUME NEW ring \in SUBSET PortableEvents, ring # {}
               PROVE  \E e \in ring :
                         {PackEvents[e].supersedes, PackEvents[e].contradicts} \cap ring = {}
    BY <1>1 DEF HasRelationOrder
  <2>1. PICK e \in ring : {events[e].supersedes, events[e].contradicts} \cap ring = {}
    BY <1>1 DEF RelationInv, HasRelationOrder
  <2> QED
    BY <1>1, <2>1
<1>3. ValidTargets(PackEvents)
  <2> SUFFICES ASSUME NEW e \in PortableEvents,
                      NEW target \in {events[e].supersedes, events[e].contradicts} \ {NoEvent}
               PROVE  /\ target \in PortableEvents
                      /\ PackEvents[target].subject = PackEvents[e].subject
                      /\ PackEvents[e].retention = "durable" =>
                            PackEvents[target].retention = "durable"
    BY <1>1 DEF ValidTargets
  <2>1. target \in PortableEvents
    BY DEF Exportable
  <2>2. /\ events[target].subject = events[e].subject
        /\ events[e].retention = "durable" => events[target].retention = "durable"
    BY <1>1 DEF RelationInv, ValidTargets
  <2> QED
    BY <1>1, <2>1, <2>2
<1> QED
  BY <1>2, <1>3

\* For callers that keep to the kinds the command line offers, every document
\* that portable_document selects without refusing is one that
\* restore_untrusted_document accepts, for every history the ledger can reach:
\* compacting the numbers of durable events, dropping the others and marking
\* all as untrusted breaks no history, no relation and no workflow.
THEOREM PacksRestore ==
    ASSUME CommandKinds
    PROVE  Spec => []PackRestorable
<1>1. ASSUME TypeOK, HistoryConsistent, RelationInv, Exportable
      PROVE  Restorable(PortableDocument)
  <2>1. HasRelationOrder(PackEvents) /\ ValidTargets(PackEvents) /\ Acyclic(PackEvents)
    BY <1>1, PackedRelations, OrderedIsAcyclic
  <2>2. ValidHistory(PackSessions, PackEvents)
    BY <1>1, PackTables, PackedHistory DEF ValidHistory, SessionHistory
  <2>3. ValidWorkflows(PackEvents, PortableDocument.workflows)
    <3>1. PortableDocument.workflows = workflows \cap PortableEvents
      BY DEF PortableDocument
    <3>2. workflows = {e \in DOMAIN events : events[e].kind = "workflow"}
      BY <1>1 DEF HistoryConsistent, ValidWorkflows
    <3>3. /\ DOMAIN PackEvents = PortableEvents /\ PortableEvents \subseteq DOMAIN events
          /\ \A e \in PortableEvents : PackEvents[e].kind = events[e].kind
      BY <1>1, PackTables DEF PortableEvents, Recorded
    <3> QED
      BY <3>1, <3>2, <3>3 DEF ValidWorkflows
  <2> QED
    BY <2>1, <2>2, <2>3 DEF Restorable, PackSessions, PackEvents
<1>2. TypeOK /\ HistoryConsistent /\ RelationInv => PackRestorable
  BY <1>1 DEF PackRestorable
<1> QED
  BY <1>2, TypeCorrect, HistoryHolds, RelationsOrdered, PTL

=============================================================================

------------------------------- MODULE Retention -------------------------------
(***************************************************************************)
(* The retention ledger (palimnex/retention.py): an append-only control    *)
(* log of policies, holds, pins, packs, authorizations and supports; plans *)
(* that say what may be erased, which a person reads and applies later;    *)
(* the transaction that replaces the events of a plan by tombstones, and   *)
(* the compaction that removes their bytes from the file.                  *)
(*                                                                         *)
(* Every call below is one transaction under the exclusive flock of the    *)
(* ledger, except `propose', which writes nothing and whose plan lives     *)
(* outside the ledger, and `finalize', which can die between its steps.    *)
(*                                                                         *)
(* The ledger only ever grows (its control log is a hash chain), so the    *)
(* digest a plan is bound to is that of the ledger exactly as long as      *)
(* nothing was written since: until then the plan is `fresh'.              *)
(***************************************************************************)
EXTENDS Integers, Sequences, FiniteSets

CONSTANTS
    Event, Session,
    SessionOf,      \* event -> its session
    ClassOf,        \* event -> "session", "durable" (imported too) or "anchor"
    LinksOf,        \* event -> the events it supersedes or contradicts
    Fact,           \* events of kind `fact'
    History,        \* events written before the migration
    Closed,         \* sessions closed before the migration
    Attempted,      \* events whose hot projection was attempted before it
    Policies,       \* the policies an operator activates, in order of version
    Activated,      \* how many of them are before the behaviour begins
    Readable,       \* events that an open session reads
    Holdings,       \* sets of events that a hold or a pack can name
    Supports,       \* the supports a caller registers: [fact, sources, strong]
    Scopes,         \* what a plan can be asked for: All or certain events
    LiveSupports,   \* do callers name only sources that are not erased?
    EmptyPlans,     \* are plans kept that affect nothing, and are only refused?
    MaxTime, MaxAuthorizations, MaxPlans, MaxCrashes    \* bounds

\* A plan that names no events is about all of them.
All == {}
Open == -1
NotWritten == -1
AuthorityTime == 1      \* how long an authorization lasts

ASSUME RetentionAssumption ==
    /\ SessionOf \in [Event -> Session]
    /\ ClassOf \in [Event -> {"session", "durable", "anchor"}]
    /\ LinksOf \in [Event -> SUBSET Event]
    /\ Fact \subseteq Event /\ Attempted \subseteq History /\ History \subseteq Event
    /\ \A e \in History : LinksOf[e] \subseteq History
    /\ Closed \subseteq Session
    /\ Policies \in Seq([ttl : Nat, grace : Nat, lasts : Nat])
    /\ Activated \in 0..Len(Policies)
    /\ Readable \subseteq Event /\ Holdings \subseteq SUBSET Event
    /\ Supports \subseteq [fact : Event, sources : SUBSET Event, strong : SUBSET Event]
    /\ Scopes \subseteq SUBSET Event
    /\ {LiveSupports, EmptyPlans} \subseteq BOOLEAN
    /\ {MaxTime, MaxAuthorizations, MaxPlans, MaxCrashes} \subseteq Nat

VARIABLES
    now,
    observed,       \* event -> when it was written, or NotWritten
    ended,          \* session -> when it was closed, or Open
    policy,         \* version of the active policy, 0 without one
    holds,          \* the sets of events of the active holds
    pins,           \* pairs of a session and an event it has read
    packs,          \* the sets of events of the registered packs
    authorizations, \* [event, expires], in the order they were given
    support,        \* fact -> {} or {its latest support}
    receipts,       \* the events of each deletion receipt, in their order
    tombstone,      \* event -> the receipt its tombstone names, or 0
    compacted,      \* receipts whose compaction is on record
    plans,          \* the plans in the hands of their readers, not yet applied
    residue,        \* events whose bytes may still be in the file or its log
    finalizing,     \* the receipt whose compaction has run and is not recorded
    crashes

control == <<policy, holds, pins, packs, authorizations, support>>
history == <<observed, ended>>
erasure == <<receipts, tombstone, compacted, residue>>
vars == <<now, history, control, erasure, plans, finalizing, crashes>>

-----------------------------------------------------------------------------
(* What the ledger says *)

Written == {e \in Event : observed[e] # NotWritten}
Forgotten == {e \in Event : tombstone[e] # 0}

Held(e) == \E h \in holds : e \in h
Sealed(e) == \E p \in packs : e \in p

\* An open session, or one in the grace period of the active policy.
Active(s, at) ==
    policy # 0 /\ (ended[s] = Open \/ at < ended[s] + Policies[policy].grace)

Pinned(e, at) == \E s \in Session : <<s, e>> \in pins /\ Active(s, at)

\* The last authorization for e that is in force, 0 without one.
Authority(e, at) ==
    LET granted == {i \in DOMAIN authorizations :
                        authorizations[i].event = e /\ authorizations[i].expires >= at}
    IN  IF granted = {} THEN 0 ELSE CHOOSE i \in granted : \A j \in granted : j <= i

\* Its time is up, or somebody asked for it by name and is authorized.
Due(e, at, scope) ==
    IF ClassOf[e] = "durable" THEN scope # All /\ Authority(e, at) # 0
    ELSE at >= observed[e] + Policies[policy].ttl

\* The first reason that excludes an event is reported; here, that none does.
Eligible(e, at, scope) ==
    /\ scope # All => e \in scope
    /\ ~Held(e) /\ ~Active(SessionOf[e], at) /\ ~Pinned(e, at)
    /\ e \notin Forgotten /\ ClassOf[e] # "anchor"
    /\ Due(e, at, scope)

Linked(e, f) == f \in LinksOf[e] \/ e \in LinksOf[f]

\* Mutant: a correction takes what it corrects with it, and not the reverse.
ClosedForward(set) ==
    /\ \A e, f \in Written \ Forgotten : e \in set /\ f \in LinksOf[e] => f \in set
    /\ \A f \in Fact : \A s \in support[f] :
           s.sources \cap set # {} /\ s.strong \subseteq set => f \in set

\* Mutant: a fact is kept as long as it has any source left.
ClosedUnderAll(set) ==
    /\ \A e, f \in Written \ Forgotten : e \in set /\ Linked(e, f) => f \in set
    /\ \A f \in Fact : \A s \in support[f] : s.sources \subseteq set => f \in set

\* A temporal chain goes as one; a fact goes with its last strong source.
ClosedUnderLoss(set) ==
    /\ \A e, f \in Written \ Forgotten : e \in set /\ Linked(e, f) => f \in set
    /\ \A f \in Fact : \A s \in support[f] :
           s.sources \cap set # {} /\ s.strong \subseteq set => f \in set

Closure(roots) ==
    {e \in Written : \A set \in SUBSET Written :
        roots \subseteq set /\ ClosedUnderLoss(set) => e \in set}

\* Mutant: holds only protect what a plan would choose by itself.
BlockedUnheld(e, at) ==
    ClassOf[e] = "anchor" \/ Active(SessionOf[e], at) \/ e \in Attempted \/ Sealed(e)

\* What keeps a member of the closure, and with it the whole plan.
Blocked(e, at) ==
    ClassOf[e] = "anchor" \/ Held(e) \/ Active(SessionOf[e], at) \/ e \in Attempted \/ Sealed(e)

\* `affected' of _propose: each event with the authorization it goes under.
Affected(scope, at) ==
    LET roots == {e \in Written : Eligible(e, at, scope)}
        closure == Closure(roots)
    IN  IF policy = 0 \/ \E e \in closure : Blocked(e, at) THEN [e \in {} |-> 0]
        ELSE [e \in closure |-> Authority(e, at)]

EventsOf(plan) == DOMAIN plan.affected

\* `_semantic_errors': every receipt finds its own tombstones, and no fact that
\* is kept names a source that is not.
Sound(given, stones, supported) ==
    /\ \A r \in DOMAIN given : \A e \in given[r] : stones[e] = r
    /\ \A f \in Fact : stones[f] = 0 =>
           \A s \in supported[f] : \A e \in s.sources : stones[e] = 0

-----------------------------------------------------------------------------
(* Every call opens the ledger, which checks it first; one that writes leaves *)
(* no plan that is bound to the digest of the ledger.                         *)

Opens == finalizing = 0 /\ Sound(receipts, tombstone, support)
Outdated(set) == {[plan EXCEPT !.fresh = FALSE] : plan \in set}
Writes == Opens /\ plans' = Outdated(plans)

\* Links are to events of the same subject, which no tombstone has, and
\* durable history never depends on what is not durable.
AppendEvent(e) ==
    /\ Writes /\ e \notin Written /\ ended[SessionOf[e]] = Open
    /\ LinksOf[e] \subseteq Written \ Forgotten
    /\ ClassOf[e] = "durable" => \A f \in LinksOf[e] : ClassOf[f] = "durable"
    /\ observed' = [observed EXCEPT ![e] = now]
    /\ UNCHANGED <<now, ended, control, erasure, finalizing, crashes>>

CloseSession(s) ==
    /\ Writes /\ ended[s] = Open
    /\ ended' = [ended EXCEPT ![s] = now]
    /\ UNCHANGED <<now, observed, control, erasure, finalizing, crashes>>

\* `pin', and a recall with an open session.
Pin(s, e) ==
    /\ Writes /\ ended[s] = Open /\ e \in Written /\ <<s, e>> \notin pins
    /\ pins' = pins \cup {<<s, e>>}
    /\ UNCHANGED <<now, history, policy, holds, packs, authorizations, support, erasure,
                   finalizing, crashes>>

ActivatePolicy ==
    /\ Writes /\ policy < Len(Policies)
    /\ policy' = policy + 1
    /\ UNCHANGED <<now, history, holds, pins, packs, authorizations, support, erasure,
                   finalizing, crashes>>

Hold(set) ==
    /\ Writes /\ set \subseteq Written /\ set \notin holds
    /\ holds' = holds \cup {set}
    /\ UNCHANGED <<now, history, policy, pins, packs, authorizations, support, erasure,
                   finalizing, crashes>>

Release(set) ==
    /\ Writes /\ set \in holds
    /\ holds' = holds \ {set}
    /\ UNCHANGED <<now, history, policy, pins, packs, authorizations, support, erasure,
                   finalizing, crashes>>

RegisterPack(set) ==
    /\ Writes /\ set \subseteq Written /\ set \notin packs
    /\ packs' = packs \cup {set}
    /\ UNCHANGED <<now, history, policy, holds, pins, authorizations, support, erasure,
                   finalizing, crashes>>

\* A tombstone counts as a durable record.
AuthorizeErasure(e) ==
    /\ Writes /\ policy # 0 /\ e \in Written /\ Len(authorizations) < MaxAuthorizations
    /\ ClassOf[e] = "durable" \/ (ClassOf[e] = "session" /\ e \in Forgotten)
    /\ authorizations' = Append(authorizations, [event |-> e, expires |-> now + AuthorityTime])
    /\ UNCHANGED <<now, history, policy, holds, pins, packs, support, erasure,
                   finalizing, crashes>>

RegisterSupport(s) ==
    /\ Writes /\ {s.fact} \cup s.sources \subseteq Written
    /\ s.fact \in Fact \ Forgotten          \* a tombstone is of kind `evidence'
    /\ LiveSupports => s.sources \cap Forgotten = {}
    /\ support[s.fact] # {s}
    /\ support' = [support EXCEPT ![s.fact] = {s}]
    /\ UNCHANGED <<now, history, policy, holds, pins, packs, authorizations, erasure,
                   finalizing, crashes>>

\* reverify, consolidate, the receipt of an adapter and whatever else is written:
\* a plan only sees that the ledger is another one.
WriteElse ==
    /\ Writes
    /\ UNCHANGED <<now, history, control, erasure, finalizing, crashes>>

-----------------------------------------------------------------------------
(* Plans *)

\* `propose' writes nothing; the plan is bound to what it has read.
Propose(scope) ==
    LET plan == [fresh |-> TRUE, at |-> now, scope |-> scope, affected |-> Affected(scope, now)]
    IN  /\ Opens /\ Cardinality(plans) < MaxPlans
        /\ scope # All => scope \subseteq Written
        /\ EmptyPlans \/ EventsOf(plan) # {}
        /\ plans' = plans \cup {plan}
        /\ UNCHANGED <<now, history, control, erasure, finalizing, crashes>>

\* The world the plan was bound to is not the one it is applied in.
Fails(plan) ==
    \/ ~plan.fresh \/ policy = 0
    \/ policy # 0 /\ now \notin plan.at .. plan.at + Policies[policy].lasts
    \/ \E s \in Session : Active(s, plan.at) # Active(s, now)
    \/ Affected(plan.scope, now) # plan.affected
    \/ EventsOf(plan) = {}

\* STALE_PLAN and the like: on record as invalid, and refused ever after.
Refuse(plan) ==
    /\ Opens /\ Fails(plan)
    /\ plans' = Outdated(plans \ {plan})
    /\ UNCHANGED <<now, history, control, erasure, finalizing, crashes>>

\* A fact that stays is supported by the sources that are left; one that goes,
\* or has gone and is pulled in again, keeps its support on record.
Recomputed(set) ==
    [f \in Fact |->
        IF f \in set THEN support[f]
        ELSE {[s EXCEPT !.sources = @ \ set, !.strong = @ \ set] : s \in support[f]}]

\* The transaction of `apply': checked before it commits, undone if it is not
\* sound.  Applying the plan again only returns its receipt.
Erase(plan) ==
    LET set == EventsOf(plan)
    IN  /\ Opens /\ ~Fails(plan)
        /\ receipts' = Append(receipts, set)
        /\ tombstone' = [e \in Event |-> IF e \in set THEN Len(receipts') ELSE tombstone[e]]
        /\ support' = Recomputed(set)
        /\ Sound(receipts', tombstone', support')
        /\ residue' = residue \cup set
        /\ plans' = Outdated(plans \ {plan})
        /\ UNCHANGED <<now, history, policy, holds, pins, packs, authorizations, compacted,
                       finalizing, crashes>>

-----------------------------------------------------------------------------
(* finalize, which apply calls and which can be called again *)

Uncompacted == DOMAIN receipts \ compacted

\* Mutant: the write-ahead log is left as it is.
CompactFileOnly(r) ==
    /\ Opens /\ r \in Uncompacted
    /\ finalizing' = r
    /\ UNCHANGED <<now, history, control, erasure, plans, crashes>>

\* Checkpoint, VACUUM, checkpoint...
Compact(r) ==
    /\ Opens /\ r \in Uncompacted
    /\ residue' = {} /\ finalizing' = r
    /\ UNCHANGED <<now, history, control, receipts, tombstone, compacted, plans, crashes>>

\* Mutant: the transaction is not committed.
CloseUncommitted ==
    /\ finalizing # 0 /\ finalizing' = 0
    /\ UNCHANGED <<now, history, control, erasure, plans, crashes>>

\* ...and, still under the lock, a transaction that says so.
RecordCompaction ==
    /\ finalizing # 0
    /\ compacted' = compacted \cup {finalizing} /\ finalizing' = 0
    /\ plans' = Outdated(plans)
    /\ UNCHANGED <<now, history, control, receipts, tombstone, residue, crashes>>

\* The process dies, and the flock goes with it.
Crash ==
    /\ finalizing # 0 /\ crashes < MaxCrashes
    /\ finalizing' = 0 /\ crashes' = crashes + 1
    /\ UNCHANGED <<now, history, control, erasure, plans>>

Tick ==
    /\ now < MaxTime /\ now' = now + 1
    /\ UNCHANGED <<history, control, erasure, plans, finalizing, crashes>>

-----------------------------------------------------------------------------
Init ==
    /\ now = 0
    /\ observed = [e \in Event |-> IF e \in History THEN 0 ELSE NotWritten]
    /\ ended = [s \in Session |-> IF s \in Closed THEN 0 ELSE Open]
    /\ policy = Activated /\ holds = {} /\ pins = {} /\ packs = {} /\ authorizations = <<>>
    /\ support = [f \in Fact |-> {}]
    /\ receipts = <<>> /\ tombstone = [e \in Event |-> 0]
    /\ compacted = {} /\ residue = {}
    /\ plans = {} /\ finalizing = 0 /\ crashes = 0

Next ==
    \/ ActivatePolicy \/ WriteElse \/ Tick \/ RecordCompaction \/ Crash
    \/ \E e \in Event : AppendEvent(e) \/ AuthorizeErasure(e)
    \/ \E s \in Session : CloseSession(s) \/ \E e \in Readable : Pin(s, e)
    \/ \E set \in Holdings : Hold(set) \/ Release(set) \/ RegisterPack(set)
    \/ \E s \in Supports : RegisterSupport(s)
    \/ \E scope \in Scopes : Propose(scope)
    \/ \E plan \in plans : Refuse(plan) \/ Erase(plan)
    \/ \E r \in DOMAIN receipts : Compact(r)

Spec == Init /\ [][Next]_vars

\* Somebody calls finalize until it has come to its end.
Fairness == WF_vars(RecordCompaction) /\ WF_vars(\E r \in DOMAIN receipts : Compact(r))
FairSpec == Spec /\ Fairness

-----------------------------------------------------------------------------
Time == 0..MaxTime
Support == [fact : Event, sources : SUBSET Event, strong : SUBSET Event]
Plan == [fresh : BOOLEAN, at : Time, scope : Scopes,
         affected : UNION {[set -> 0..MaxAuthorizations] : set \in SUBSET Event}]

TypeOK ==
    /\ now \in Time /\ crashes \in 0..MaxCrashes
    /\ observed \in [Event -> Time \cup {NotWritten}]
    /\ ended \in [Session -> Time \cup {Open}]
    /\ policy \in 0..Len(Policies)
    /\ holds \subseteq Holdings /\ packs \subseteq Holdings
    /\ pins \subseteq Session \X Event
    /\ authorizations \in Seq([event : Event, expires : Nat])
    /\ Len(authorizations) <= MaxAuthorizations
    /\ support \in [Fact -> SUBSET Support]
    /\ receipts \in Seq(SUBSET Event)
    /\ tombstone \in [Event -> 0..Len(receipts)]
    /\ compacted \subseteq DOMAIN receipts /\ finalizing \in 0..Len(receipts)
    /\ residue \subseteq Forgotten
    /\ plans \subseteq Plan

-----------------------------------------------------------------------------
(* Properties *)

GoesNow(e) == e \in Forgotten' \ Forgotten

\* What is held, belongs to a session that is open or in its grace, was sent to
\* a hot projection, is in a managed pack or is an audit anchor is not erased,
\* however long ago the plan was shown and whatever it is linked to (_propose).
ProtectedStays ==
    [][\A e \in Event : GoesNow(e) =>
           /\ ~Held(e) /\ ~Sealed(e) /\ ~Active(SessionOf[e], now)
           /\ e \notin Attempted /\ ClassOf[e] # "anchor"]_vars

\* No erasure without cause: one of the events that go is due at that very
\* moment, by its age or by an authorization that is still in force (apply).
ErasedForCause ==
    [][\A e \in Event : GoesNow(e) =>
           \E f \in Event, scope \in Scopes : GoesNow(f) /\ Eligible(f, now, scope)]_vars

\* Deleting a correction cannot bring back what it corrected: a chain of events
\* is erased as a whole or not at all (docs/RETENTION.md).
ChainsGoWhole ==
    \A e, f \in Written : Linked(e, f) => (e \in Forgotten <=> f \in Forgotten)

\* An erasure that takes a source from a fact it leaves leaves it a strong one.
FactsStaySupported ==
    [][\A f \in Fact \ Forgotten' : \A s \in support[f] :
           (\E e \in s.sources : GoesNow(e)) =>
               \E t \in support'[f] : t.strong # {} /\ t.sources \cap Forgotten' = {}]_vars

\* The ledger can be opened: receipts and tombstones agree, and no fact that is
\* kept names an erased source (_semantic_errors).  It is so only as long as
\* callers register no support by an erased source: LiveSupports.
LedgerOpens == Sound(receipts, tombstone, support)

\* What a receipt calls compacted is not in the file any more (finalize).
CompactedIsGone == \A r \in compacted : receipts[r] \cap residue = {}

\* Every erasure is compacted at last, though a process may die in between.
CompactionHappens == (Uncompacted # {}) ~> (Uncompacted = {})

\* Durable records never become eligible through rules or an unscoped plan; they
\* require an authorization of their own (docs/RETENTION.md), unless they are
\* facts whose support goes.
DurableByAuthority ==
    [][\A e \in Event : GoesNow(e) /\ ClassOf[e] = "durable" =>
           \/ Authority(e, now) # 0
           \/ e \in Fact /\ \E s \in support[e] : \E f \in s.sources : GoesNow(f)]_vars

=============================================================================

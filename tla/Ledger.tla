------------------------------- MODULE Ledger -------------------------------
(***************************************************************************)
(* The durable ledger of palimnex/durable.py: sessions, events with their  *)
(* supersession and contradiction edges, source evidence, the append-only  *)
(* verification attempts, current verifications, promotions and workflow   *)
(* records, as the rows of the SQLite tables of the same names.            *)
(*                                                                         *)
(* Every writing call runs in two parts.  Before the exclusive flock it    *)
(* reads the wall clock (`requested') and, when evidence is given, hashes  *)
(* the cited source bytes; under the lock it validates the whole ledger    *)
(* (`_semantic_errors'), runs one SQLite transaction and commits.  Between *)
(* the parts other processes commit, sources change and the clock moves.   *)
(* A call that is refused or whose process dies leaves no row behind.      *)
(*                                                                         *)
(* Payloads, terms, digests of records and sensitivity are left out.       *)
(* Times are milliseconds; NoTime stands for SQL NULL.                     *)
(***************************************************************************)
EXTENDS Integers, Sequences, FiniteSets, FiniteSetsExt

CONSTANTS
    EventId,        \* event identifiers `_new_id' can draw
    NoEvent,        \* SQL NULL in supersedes_event_id, contradicts_event_id
    SessionId,      \* session identifiers
    Client,         \* processes holding a MemoryLedger on the same file
    Source,         \* source locators that evidence can cite
    Content,        \* what the bytes behind a locator can hash to
    Unavailable,    \* the cited file or line range cannot be read
    Subject,        \* subjects of user events
    UserKinds,      \* kinds callers pass to append_event
    UserTrust,      \* trust values callers pass to append_event
    UserRetention,  \* retention values callers pass to append_event
    EffectiveTimes, \* explicit valid_from values callers pass
    UserRelations,  \* relations callers use: supersedes, contradicts
    EvidenceInputs, \* evidence lists callers pass: [sources, external]
    Editable,       \* sources that are edited while the ledger is in use
    Packs,          \* portable documents that can be restored
    ClockMayStepBack,
    MaxTime,        \* bound on the wall clock
    MaxAttempts,    \* bound on verification attempts of all events
    MaxPolicy       \* bound on scanner policy upgrades

NoTime == -1
Time == Nat

AnchorKinds == {"session_started", "session_closed"}
PromotableKinds == {"decision", "failure", "outcome", "workflow", "fact"}
EventKinds == AnchorKinds \cup PromotableKinds \cup
              {"task", "evidence", "correction", "revocation"}
Retentions == {"volatile", "session", "durable"}
Failures == {"none", "changed", "unavailable", "policy_changed"}
\* The subject of the two anchor events of a session.
SessionSubject(s) == <<"session", s>>
\* The subject of a stored workflow (one workflow name suffices).
WorkflowSubject == <<"workflow", "name">>

ASSUME LedgerAssumption ==
    /\ NoEvent \notin EventId
    /\ Unavailable \notin Content
    /\ UserKinds \subseteq EventKinds
    /\ UserTrust \subseteq {"observed", "untrusted"}
    /\ UserRetention \subseteq Retentions
    /\ EffectiveTimes \subseteq Time
    /\ UserRelations \subseteq {"supersedes", "contradicts"}
    /\ Editable \subseteq Source
    /\ EvidenceInputs \subseteq [sources : SUBSET Source, external : BOOLEAN]
    /\ \A input \in EvidenceInputs : IsFiniteSet(input.sources)
    /\ ClockMayStepBack \in BOOLEAN
    /\ MaxTime \in Nat /\ MaxAttempts \in Nat /\ MaxPolicy \in Nat

VARIABLES
    sessions,       \* sessions: session -> [started, ended, imported]
    events,         \* events: event -> row
    evidence,       \* evidence: event -> set of rows
    attempts,       \* verification_attempts: event -> sequence of rows
    verifications,  \* verifications: event -> [at, policy]
    promotions,     \* promotions: event -> promoted_at
    workflows,      \* events with a workflows row
    calls,          \* the call each client has in flight
    content,        \* source locator -> current bytes, or Unavailable
    policy,         \* installed scanner policy (`policy_digest')
    now             \* wall clock (`now_ms')

tables == <<sessions, events, evidence, attempts, verifications, promotions, workflows>>
world == <<content, policy, now>>
vars == <<sessions, events, evidence, attempts, verifications, promotions,
          workflows, calls, content, policy, now>>

-----------------------------------------------------------------------------
(* Helpers *)

\* INSERT OR REPLACE of one row.
Put(f, k, v) == [x \in DOMAIN f \cup {k} |-> IF x = k THEN v ELSE f[x]]
\* DELETE of one row.
Without(f, k) == [x \in DOMAIN f \ {k} |-> f[x]]

Recorded == DOMAIN events
IsOpen(s) == s \in DOMAIN sessions /\ sessions[s].ended = NoTime
IsClosed(s) == s \in DOMAIN sessions /\ sessions[s].ended # NoTime
EventsOf(s) == {e \in Recorded : events[e].session = s}
\* `_new_id': random, so only known not to be in use.
FreshId == CHOOSE e \in EventId : e \notin Recorded
HasFreshId == \E e \in EventId : e \notin Recorded

\* Mutant: a timestamp that is only kept after the session's start.
ObservedAtSinceStart(s, requested) == Max({requested, sessions[s].started})

\* `_next_session_observed_at': never before the session's start or its
\* latest event, whatever the clock said when the call was made.
ObservedAt(s, requested) ==
    Max({requested, sessions[s].started} \cup {events[e].observed : e \in EventsOf(s)})

NextSequence(s) == Max({0} \cup {events[e].seq : e \in EventsOf(s)}) + 1

-----------------------------------------------------------------------------
(* Evidence and derived trust *)

\* `_prepare_evidence': a source row carries the hash of the bytes read now and
\* counts as locally verified; any other kind never does.
SourceRow(s) == [kind |-> "source", source |-> s, digest |-> content[s],
                 verified |-> TRUE, at |-> now]
ExternalRow == [kind |-> "external", source |-> "external", digest |-> "claimed",
                verified |-> FALSE, at |-> NoTime]
PreparedRows(input) ==
    {SourceRow(s) : s \in input.sources} \cup
    (IF input.external THEN {ExternalRow} ELSE {})

\* `_align_verified_evidence'
Aligned(rows, observed) ==
    {[r EXCEPT !.at = IF r.verified THEN Max({r.at, observed}) ELSE r.at] : r \in rows}

AllVerified(rows) == rows # {} /\ \A r \in rows : r.verified

\* `_current_source_evidence': the first reason the evidence of event e,
\* verified under policy p, does not match the sources as they are now.
StaleReason(e, p) ==
    IF \E r \in evidence[e] : r.kind # "source" THEN "unsupported"
    ELSE IF p # policy THEN "policy_changed"
    ELSE IF \E r \in evidence[e] : content[r.source] = Unavailable THEN "unavailable"
    ELSE IF \E r \in evidence[e] : content[r.source] # r.digest THEN "changed"
    ELSE "none"

Supported(e) == evidence[e] # {} /\ \A r \in evidence[e] : r.kind = "source"

\* Mutant: trust at an earlier knowledge time read from the latest attempt.
AllAttempts(e, known) == DOMAIN attempts[e]

\* The attempts on e recorded no later than `known', and the last of them.
KnownAttempts(e, known) == {i \in DOMAIN attempts[e] : attempts[e][i].at <= known}
LastKnown(e, known) ==
    CHOOSE i \in KnownAttempts(e, known) : \A j \in KnownAttempts(e, known) : j <= i

\* `_verification_state': trust is bitemporal.
VerificationState(e, known) ==
    IF KnownAttempts(e, known) = {} THEN "unverified"
    ELSE LET a == attempts[e][LastKnown(e, known)]
         IN IF a.outcome = "verified" /\ Supported(e) /\ StaleReason(e, a.policy) = "none"
            THEN "current" ELSE "stale"

\* `_has_eligible_current_supersessor'
Supersessors(e, known, valid) ==
    {a \in Recorded : /\ events[a].supersedes = e
                      /\ events[a].observed <= known /\ events[a].valid <= valid}
HasEligibleSupersessor(e, known, valid, untrusted, promotedOnly) ==
    \E a \in Supersessors(e, known, valid) :
        LET state == VerificationState(a, known)
        IN /\ state # "stale"
           /\ IF promotedOnly
              THEN a \in DOMAIN promotions /\ promotions[a] <= known /\ state = "current"
              ELSE untrusted \/ events[a].trust = "observed" \/ state = "current"

\* `recall' with visibility "audit" and without history: the events it can
\* return at a pair of knowledge and validity times.
Recall(known, valid, untrusted, promotedOnly) ==
    {e \in Recorded :
        LET state == VerificationState(e, known)
        IN /\ events[e].observed <= known /\ events[e].valid <= valid
           /\ state # "stale"
           /\ promotedOnly => /\ e \in DOMAIN promotions /\ promotions[e] <= known
                              /\ e \in DOMAIN verifications
                              /\ state = "current"
           /\ untrusted \/ events[e].trust = "observed" \/ state = "current"
           /\ ~HasEligibleSupersessor(e, known, valid, untrusted, promotedOnly)}

-----------------------------------------------------------------------------
(* `_semantic_errors': what a ledger must satisfy for any call to open it.  *)
(* S, E, W stand for the sessions, events and workflows tables, so that the *)
(* same rules judge a restored ledger.                                      *)

Mine(E, s) == {e \in DOMAIN E : E[e].session = s}

\* Sequence numbers count 1, 2, 3... without a gap or a repetition, and
\* observation times never move backwards along them.
OrderedHistory(E, s) ==
    /\ \A e, f \in Mine(E, s) :
          /\ E[e].seq = E[f].seq => e = f
          /\ E[e].seq < E[f].seq => E[e].observed <= E[f].observed
    /\ \A e \in Mine(E, s) : \A n \in 1..E[e].seq : \E f \in Mine(E, s) : E[f].seq = n

\* Exactly one start event, the first, recorded when the session started.
StartAnchored(S, E, s) ==
    /\ \E e \in Mine(E, s) : E[e].seq = 1
    /\ \A e \in Mine(E, s) :
          /\ E[e].kind = "session_started" <=> E[e].seq = 1
          /\ E[e].seq = 1 => E[e].observed = S[s].started /\ E[e].retention = "durable"

\* A closed session has exactly one close event, the last, recorded when it
\* ended; an open session has none.
CloseAnchored(S, E, s) ==
    /\ S[s].ended # NoTime =>
          /\ S[s].ended >= S[s].started
          /\ \E e \in Mine(E, s) : E[e].kind = "session_closed"
    /\ \A e \in Mine(E, s) : E[e].kind = "session_closed" =>
          /\ S[s].ended # NoTime /\ E[e].observed = S[s].ended
          /\ E[e].retention = "durable"
          /\ \A f \in Mine(E, s) : E[f].seq <= E[e].seq

\* Every event lies inside its session, and imported ones are untrusted.
WithinSession(S, E, s) ==
    \A e \in Mine(E, s) :
        /\ E[e].observed >= S[s].started
        /\ S[s].ended # NoTime => E[e].observed <= S[s].ended
        /\ E[e].imported = S[s].imported
        /\ E[e].imported => E[e].trust = "untrusted"

ValidHistory(S, E) ==
    \A s \in DOMAIN S : /\ OrderedHistory(E, s)
                        /\ StartAnchored(S, E, s)
                        /\ CloseAnchored(S, E, s)
                        /\ WithinSession(S, E, s)

\* Relation targets exist, concern the same subject and are durable when the
\* asserting event is; no relation forms a cycle.
ValidTargets(E) ==
    \A e \in DOMAIN E : \A target \in {E[e].supersedes, E[e].contradicts} \ {NoEvent} :
        /\ target \in DOMAIN E
        /\ E[target].subject = E[e].subject
        /\ E[e].retention = "durable" => E[target].retention = "durable"
Acyclic(E) ==
    \A field \in {"supersedes", "contradicts"} :
        \A ring \in SUBSET {e \in DOMAIN E : E[e][field] # NoEvent} :
            ring # {} => \E e \in ring : E[e][field] \notin ring

\* Nothing about an event is verified before it was recorded; an imported one
\* carries times of another machine.
Floor(e) == IF events[e].imported THEN 0 ELSE events[e].observed

\* Flags and times of the evidence agree.
ValidRows(e) ==
    \A r \in evidence[e] : /\ r.verified <=> r.at # NoTime
                           /\ r.verified => r.at >= Floor(e)
\* Attempts are in the order of time.
ValidAttempts(e) ==
    LET tries == attempts[e]
    IN \A i \in DOMAIN tries :
          /\ tries[i].at >= Floor(e)
          /\ tries[i].outcome = "verified" <=> tries[i].failure = "none"
          /\ \A j \in DOMAIN tries : i < j => tries[i].at <= tries[j].at
\* The current verification repeats the latest attempt, when that succeeded,
\* and covers every row of the evidence.
ValidCurrent(e) ==
    LET tries == attempts[e]
    IN /\ e \in DOMAIN verifications <=>
             tries # <<>> /\ tries[Len(tries)].outcome = "verified"
       /\ e \in DOMAIN verifications =>
             /\ verifications[e] = [at |-> tries[Len(tries)].at,
                                    policy |-> tries[Len(tries)].policy]
             /\ AllVerified(evidence[e])
             /\ \A r \in evidence[e] : r.kind = "source" /\ r.at <= verifications[e].at
ValidVerification ==
    \A e \in Recorded : ValidRows(e) /\ ValidAttempts(e) /\ ValidCurrent(e)

\* A promotion stands on a durable promotable event that is verified now.
ValidPromotion ==
    \A e \in DOMAIN promotions :
        /\ events[e].kind \in PromotableKinds /\ events[e].retention = "durable"
        /\ e \in DOMAIN verifications

\* ...and on one that no trusted event superseded when it was promoted, by
\* the SQL of `_eligible_supersessor_exists_sql'.
PromotionsActive ==
    \A e \in DOMAIN promotions : \A a \in Recorded :
        ~ /\ events[a].supersedes = e
          /\ events[a].trust = "observed" \/ a \in DOMAIN verifications
          /\ events[a].observed <= promotions[e] /\ events[a].valid <= promotions[e]

ValidWorkflows(E, W) == W = {e \in DOMAIN E : E[e].kind = "workflow"}

\* The check every call makes on the committed ledger before it goes on.
SemanticallyValid ==
    /\ ValidHistory(sessions, events)
    /\ ValidTargets(events)
    /\ Acyclic(events)
    /\ ValidVerification
    /\ ValidPromotion
    /\ PromotionsActive
    /\ ValidWorkflows(events, workflows)

-----------------------------------------------------------------------------
(* Calls in flight, before the lock *)

Idle == [op |-> "idle"]
InFlight == {c \in Client : calls[c] # Idle}

Begin(c, call) ==
    /\ calls[c] = Idle
    /\ calls' = [calls EXCEPT ![c] = call]
    /\ UNCHANGED <<tables, world>>

\* Each writing entry point stamps the clock first.
CallStart(c) ==
    \E s \in SessionId : Begin(c, [op |-> "start", session |-> s, requested |-> now])

\* Evidence still to be read when the call begins.
Unread(input) == input.sources # {} \/ input.external

Targets(relation) == {NoEvent} \cup IF relation \in UserRelations THEN Recorded ELSE {}

AppendCall(s, kind, subject, retention, trust, input, supersedes, contradicts, valid) ==
    [op |-> "append", session |-> s, requested |-> now, input |-> input, rows |-> {},
     read |-> ~Unread(input), kind |-> kind, subject |-> subject, retention |-> retention,
     trust |-> trust, supersedes |-> supersedes, contradicts |-> contradicts,
     valid |-> valid]

\* A user event: kind, subject, relations and retention come from the caller,
\* who knows the identifiers of recorded events only.
CallAppend(c) ==
    \E s \in DOMAIN sessions, kind \in UserKinds, subject \in Subject,
       retention \in UserRetention, trust \in UserTrust, input \in EvidenceInputs,
       supersedes \in Targets("supersedes"), contradicts \in Targets("contradicts"),
       valid \in EffectiveTimes \cup {NoTime} :
        /\ kind \in {"correction", "revocation"} => supersedes # NoEvent
        /\ Begin(c, AppendCall(s, kind, subject, retention, trust, input,
                               supersedes, contradicts, valid))

\* close_session and put_workflow record one event of a fixed kind.
CallFixed(c, op, kind, subject, s, input) ==
    Begin(c, [op |-> op, session |-> s, requested |-> now, input |-> input,
              rows |-> {}, read |-> ~Unread(input), kind |-> kind, subject |-> subject,
              retention |-> "durable", trust |-> "observed", supersedes |-> NoEvent,
              contradicts |-> NoEvent, valid |-> NoTime])
CallClose(c) ==
    \E s \in DOMAIN sessions, input \in EvidenceInputs :
        CallFixed(c, "close", "session_closed", SessionSubject(s), s, input)
CallWorkflow(c) ==
    \E s \in DOMAIN sessions, input \in EvidenceInputs :
        CallFixed(c, "workflow", "workflow", WorkflowSubject, s, input)

CallConsolidate(c) ==
    \E s \in DOMAIN sessions : Begin(c, [op |-> "consolidate", session |-> s, requested |-> now])

\* `_prepare_evidence' opens the cited bytes, still without the lock, and
\* refuses locators it cannot read.
ReadEvidence(c) ==
    /\ calls[c].op \in {"append", "close", "workflow"} /\ ~calls[c].read
    /\ \A s \in calls[c].input.sources : content[s] # Unavailable
    /\ calls' = [calls EXCEPT ![c].rows = PreparedRows(calls[c].input), ![c].read = TRUE]
    /\ UNCHANGED <<tables, world>>

\* A call ends without a trace: refused by a check, or its process died.
Abandon(c) ==
    /\ calls[c] # Idle
    /\ calls' = [calls EXCEPT ![c] = Idle]
    /\ UNCHANGED <<tables, world>>

-----------------------------------------------------------------------------
(* Transactions, under the exclusive lock *)

\* These run after `connection(write=True)' found the ledger valid (see Next).
Return(c) == calls' = [calls EXCEPT ![c] = Idle]

Attempt(at, outcome, failure) ==
    [at |-> at, outcome |-> outcome, failure |-> failure, policy |-> policy]

\* The time of the first attempt: not before the event or its evidence.
VerifiedAt(row, rows) == Max({now, row.observed} \cup {r.at : r \in rows})

\* `_append_event_tx': the row, its evidence and, when every evidence row is
\* verified, the first attempt and the current verification.
InsertEvent(e, row, rows) ==
    LET stamp == VerifiedAt(row, rows)
    IN /\ events' = Put(events, e, row)
       /\ evidence' = Put(evidence, e, rows)
       /\ attempts' = Put(attempts, e,
                          IF AllVerified(rows) THEN <<Attempt(stamp, "verified", "none")>>
                          ELSE <<>>)
       /\ verifications' = IF AllVerified(rows)
                           THEN Put(verifications, e, [at |-> stamp, policy |-> policy])
                           ELSE verifications

\* The row of a call that appends to an existing session.
Row(call, observed) ==
    [session |-> call.session, seq |-> NextSequence(call.session), kind |-> call.kind,
     subject |-> call.subject, observed |-> observed,
     valid |-> IF call.valid = NoTime THEN observed ELSE call.valid,
     supersedes |-> call.supersedes, contradicts |-> call.contradicts,
     trust |-> call.trust, retention |-> call.retention, imported |-> FALSE]

\* Mutant: a durable event may rest on one that can be dropped.
AcceptsAnyRetention(call, target) ==
    target # NoEvent => target \in Recorded /\ events[target].subject = call.subject

\* What `_append_event_tx' accepts as the target of a relation.
AcceptsTarget(call, target) ==
    target # NoEvent =>
        /\ target \in Recorded /\ events[target].subject = call.subject
        /\ call.retention = "durable" => events[target].retention = "durable"

StartSession(c) ==
    LET call == calls[c]
        start == [session |-> call.session, seq |-> 1, kind |-> "session_started",
                  subject |-> SessionSubject(call.session), observed |-> call.requested,
                  valid |-> call.requested, supersedes |-> NoEvent, contradicts |-> NoEvent,
                  trust |-> "observed", retention |-> "durable", imported |-> FALSE]
    IN /\ call.op = "start" /\ HasFreshId /\ Return(c)
       /\ call.session \notin DOMAIN sessions
       /\ sessions' = Put(sessions, call.session,
                          [started |-> call.requested, ended |-> NoTime, imported |-> FALSE])
       /\ InsertEvent(FreshId, start, {})
       /\ UNCHANGED <<promotions, workflows, world>>

\* The common part of append_event, close_session and put_workflow.
RecordEvent(c) ==
    LET call == calls[c]
        observed == ObservedAt(call.session, call.requested)
    IN /\ call.read /\ HasFreshId /\ Return(c)
       /\ IsOpen(call.session)
       /\ AcceptsTarget(call, call.supersedes) /\ AcceptsTarget(call, call.contradicts)
       /\ InsertEvent(FreshId, Row(call, observed), Aligned(call.rows, observed))
       /\ UNCHANGED <<promotions, world>>

AppendEvent(c) ==
    /\ calls[c].op = "append"
    /\ RecordEvent(c)
    /\ UNCHANGED <<sessions, workflows>>

CloseSession(c) ==
    LET s == calls[c].session
    IN /\ calls[c].op = "close"
       /\ RecordEvent(c)
       /\ sessions' = [sessions EXCEPT ![s].ended = ObservedAt(s, calls[c].requested)]
       /\ UNCHANGED workflows

\* The row of the workflows table: one for every put, whatever its name.
WithWorkflow(e) == workflows \cup {e}

PutWorkflow(c) ==
    /\ calls[c].op = "workflow"
    /\ AllVerified(calls[c].rows)
    /\ RecordEvent(c)
    /\ workflows' = WithWorkflow(FreshId)
    /\ UNCHANGED sessions

\* Mutant: superseded events are promoted too.
PromotableSuperseded(s, t) ==
    {e \in EventsOf(s) :
        /\ e \in DOMAIN verifications /\ evidence[e] # {}
        /\ events[e].kind \in PromotableKinds /\ events[e].retention = "durable"
        /\ events[e].observed <= t /\ events[e].valid <= t
        /\ VerificationState(e, t) = "current"}

\* The events `consolidate' promotes in a closed session at time t.
Promotable(s, t) ==
    {e \in EventsOf(s) :
        /\ e \in DOMAIN verifications /\ evidence[e] # {}
        /\ events[e].kind \in PromotableKinds /\ events[e].retention = "durable"
        /\ events[e].observed <= t /\ events[e].valid <= t
        /\ VerificationState(e, t) = "current"
        /\ ~HasEligibleSupersessor(e, t, t, FALSE, FALSE)}

\* Mutant: the promotion keeps the time at which the call was made.
PromotedAtCall(call) == call.requested

\* A promotion is never earlier than the end of its session.
PromotedAt(call) == Max({call.requested, sessions[call.session].ended})

Consolidate(c) ==
    LET s == calls[c].session
        t == PromotedAt(calls[c])
    IN /\ calls[c].op = "consolidate" /\ Return(c)
       /\ IsClosed(s)
       /\ promotions' = [e \in DOMAIN promotions \cup Promotable(s, t) |->
                            IF e \in DOMAIN promotions THEN promotions[e] ELSE t]
       /\ UNCHANGED <<sessions, events, evidence, attempts, verifications, workflows, world>>

AttemptCount == Cardinality(UNION {{e} \X DOMAIN attempts[e] : e \in Recorded})

\* Mutant: an attempt at the time the clock shows.
CheckedNow(e) == now

\* An attempt is never earlier than the one before it.
CheckedAt(e) ==
    IF attempts[e] = <<>> THEN now ELSE Max({now, attempts[e][Len(attempts[e])].at})

\* `reverify' reads the sources under the lock.  A stale result withdraws the
\* verification and any promotion; both results add an attempt that is never
\* earlier than the one before.
Reverify(e) ==
    LET failure == StaleReason(e, policy)
        at == CheckedAt(e)
    IN /\ e \in Recorded /\ Supported(e) /\ AttemptCount < MaxAttempts
       /\ attempts' = [attempts EXCEPT ![e] = @ \o
                          <<Attempt(at, IF failure = "none" THEN "verified" ELSE "stale", failure)>>]
       /\ evidence' = [evidence EXCEPT ![e] =
                          {[r EXCEPT !.verified = (failure = "none"),
                                     !.at = IF failure = "none" THEN at ELSE NoTime] : r \in @}]
       /\ verifications' = IF failure = "none"
                           THEN Put(verifications, e, [at |-> at, policy |-> policy])
                           ELSE Without(verifications, e)
       /\ promotions' = IF failure = "none" THEN promotions ELSE Without(promotions, e)
       /\ UNCHANGED <<sessions, events, workflows, calls, world>>

-----------------------------------------------------------------------------
(* Packs *)

\* `portable_document': the closed sessions that hold a durable event besides
\* their anchors, and the durable events of those sessions.
PortableSessions ==
    {s \in DOMAIN sessions :
        IsClosed(s) /\ \E e \in EventsOf(s) : /\ events[e].retention = "durable"
                                              /\ events[e].kind \notin AnchorKinds}
PortableEvents ==
    {e \in Recorded : events[e].session \in PortableSessions /\ events[e].retention = "durable"}

\* It is refused when a selected event refers to one that stays behind.
Exportable ==
    \A e \in PortableEvents :
        {events[e].supersedes, events[e].contradicts} \subseteq PortableEvents \cup {NoEvent}

\* Mutant: the exported events keep their numbers.
KeptSequence(e) == events[e].seq

\* Sequence numbers are compacted over the selected events.
Resequenced(e) ==
    Cardinality({f \in PortableEvents : /\ events[f].session = events[e].session
                                        /\ events[f].seq <= events[e].seq})
PortableDocument ==
    [sessions |-> [s \in PortableSessions |-> sessions[s]],
     events |-> [e \in PortableEvents |-> [events[e] EXCEPT !.seq = Resequenced(e)]],
     evidence |-> [e \in PortableEvents |-> evidence[e]],
     workflows |-> workflows \cap PortableEvents]

\* `restore_untrusted_document': history comes back untrusted and quarantined.
RestoredSessions(pack) ==
    [s \in DOMAIN pack.sessions |->
        [started |-> pack.sessions[s].started, ended |-> pack.sessions[s].ended,
         imported |-> TRUE]]
RestoredEvents(pack) ==
    [e \in DOMAIN pack.events |->
        [pack.events[e] EXCEPT !.trust = "untrusted", !.imported = TRUE]]
RestoredEvidence(pack) ==
    [e \in DOMAIN pack.evidence |->
        {[r EXCEPT !.verified = FALSE, !.at = NoTime] : r \in pack.evidence[e]}]

\* Events are inserted after the ones they refer to, whichever relation refers
\* to them (Kahn's algorithm); there is such an order when no set of events
\* refers to itself throughout.
HasRelationOrder(E) ==
    \A ring \in SUBSET DOMAIN E :
        ring # {} => \E e \in ring : {E[e].supersedes, E[e].contradicts} \cap ring = {}

\* The checks of the import itself and of `_semantic_errors' on its result.
Restorable(pack) ==
    LET S == RestoredSessions(pack)
        E == RestoredEvents(pack)
    IN /\ HasRelationOrder(E) /\ ValidHistory(S, E)
       /\ ValidTargets(E) /\ Acyclic(E) /\ ValidWorkflows(E, pack.workflows)

\* Into an empty ledger only; no verification, attempt or promotion comes along.
Restore(pack) ==
    /\ Recorded = {} /\ Restorable(pack)
    /\ sessions' = RestoredSessions(pack)
    /\ events' = RestoredEvents(pack)
    /\ evidence' = RestoredEvidence(pack)
    /\ attempts' = [e \in DOMAIN pack.events |-> <<>>]
    /\ verifications' = << >> /\ promotions' = << >>
    /\ workflows' = pack.workflows
    /\ UNCHANGED <<calls, world>>

-----------------------------------------------------------------------------
(* The surroundings: source edits, scanner upgrades and the wall clock *)

EditSource(s) ==
    /\ \E d \in (Content \cup {Unavailable}) \ {content[s]} : content' = [content EXCEPT ![s] = d]
    /\ UNCHANGED <<tables, calls, policy, now>>

UpgradePolicy ==
    /\ policy < MaxPolicy /\ policy' = policy + 1
    /\ UNCHANGED <<tables, calls, content, now>>

Tick ==
    /\ now < MaxTime /\ now' = now + 1
    /\ UNCHANGED <<tables, calls, content, policy>>

StepBack ==
    /\ ClockMayStepBack /\ now > 0 /\ now' = now - 1
    /\ UNCHANGED <<tables, calls, content, policy>>

Init ==
    /\ sessions = << >> /\ events = << >> /\ evidence = << >> /\ attempts = << >>
    /\ verifications = << >> /\ promotions = << >> /\ workflows = {}
    /\ calls = [c \in Client |-> Idle]
    /\ content \in [Source -> Content]
    /\ policy = 0 /\ now = 1

\* What a client does outside the lock.
Outside(c) ==
    CallStart(c) \/ CallAppend(c) \/ CallClose(c) \/ CallWorkflow(c)
    \/ CallConsolidate(c) \/ ReadEvidence(c) \/ Abandon(c)

Commit(c) ==
    StartSession(c) \/ AppendEvent(c) \/ CloseSession(c) \/ PutWorkflow(c) \/ Consolidate(c)

\* `connection(write=True)' refuses a ledger that fails semantic validation.
Transaction ==
    /\ SemanticallyValid
    /\ (\E c \in Client : Commit(c)) \/ (\E e \in Recorded : Reverify(e))

Next ==
    \/ \E c \in Client : Outside(c)
    \/ Transaction
    \/ \E pack \in Packs : Restore(pack)
    \/ \E s \in Editable : EditSource(s)
    \/ UpgradePolicy \/ Tick \/ StepBack

Spec == Init /\ [][Next]_vars

-----------------------------------------------------------------------------
(* Types *)

AnySubject == Subject \cup {SessionSubject(s) : s \in SessionId} \cup {WorkflowSubject}
SessionRow == [started : Time, ended : Time \cup {NoTime}, imported : BOOLEAN]
EventRow ==
    [session : SessionId, seq : Nat \ {0}, kind : EventKinds, subject : AnySubject,
     observed : Time, valid : Time,
     supersedes : EventId \cup {NoEvent}, contradicts : EventId \cup {NoEvent},
     trust : {"observed", "untrusted"}, retention : Retentions, imported : BOOLEAN]
EvidenceRow ==
    [kind : {"source"}, source : Source, digest : Content, verified : BOOLEAN,
     at : Time \cup {NoTime}]
    \cup [kind : {"external"}, source : {"external"}, digest : {"claimed"},
          verified : {FALSE}, at : {NoTime}]
AttemptRow ==
    [at : Time, outcome : {"verified", "stale"}, failure : Failures, policy : Nat]

SessionCall == [op : {"start", "consolidate"}, session : SessionId, requested : Time]
EventCall ==
    [op : {"append", "close", "workflow"}, session : SessionId, requested : Time,
     input : EvidenceInputs, rows : SUBSET EvidenceRow, read : BOOLEAN,
     kind : EventKinds, subject : AnySubject, retention : Retentions,
     trust : {"observed", "untrusted"}, supersedes : EventId \cup {NoEvent},
     contradicts : EventId \cup {NoEvent}, valid : Time \cup {NoTime}]

\* A pack is a document of this shape; restore_untrusted_document checks the
\* fields one by one before it inserts anything, and `_validate_pack_selection'
\* takes closed sessions only.
ASSUME PackAssumption ==
    \A pack \in Packs :
        /\ DOMAIN pack.sessions \subseteq SessionId
        /\ \A s \in DOMAIN pack.sessions : /\ pack.sessions[s] \in SessionRow
                                           /\ pack.sessions[s].ended # NoTime
        /\ DOMAIN pack.events \subseteq EventId /\ IsFiniteSet(DOMAIN pack.events)
        /\ \A e \in DOMAIN pack.events :
              /\ pack.events[e] \in EventRow
              /\ pack.events[e].session \in DOMAIN pack.sessions
        /\ DOMAIN pack.evidence = DOMAIN pack.events
        /\ \A e \in DOMAIN pack.events : pack.evidence[e] \subseteq EvidenceRow
        /\ pack.workflows \subseteq DOMAIN pack.events

SessionsTyped ==
    /\ DOMAIN sessions \subseteq SessionId
    /\ \A s \in DOMAIN sessions : sessions[s] \in SessionRow
EventsTyped ==
    /\ Recorded \subseteq EventId /\ IsFiniteSet(Recorded)
    /\ \A e \in Recorded : events[e] \in EventRow /\ events[e].session \in DOMAIN sessions
TrustTyped ==
    /\ DOMAIN evidence = Recorded /\ DOMAIN attempts = Recorded
    /\ \A e \in Recorded : evidence[e] \subseteq EvidenceRow /\ attempts[e] \in Seq(AttemptRow)
    /\ DOMAIN verifications \subseteq Recorded
    /\ \A e \in DOMAIN verifications : verifications[e] \in [at : Time, policy : Nat]
    /\ DOMAIN promotions \subseteq Recorded
    /\ \A e \in DOMAIN promotions : promotions[e] \in Time
    /\ workflows \subseteq Recorded
CallsTyped ==
    \A c \in Client :
        /\ calls[c] \in {Idle} \cup SessionCall \cup EventCall
        /\ calls[c] \in EventCall => IsFiniteSet(calls[c].rows)
WorldTyped ==
    /\ content \in [Source -> Content \cup {Unavailable}]
    /\ policy \in Nat /\ now \in Time

TypeOK ==
    /\ SessionsTyped /\ EventsTyped /\ TrustTyped
    /\ calls = [c \in Client |-> calls[c]] /\ CallsTyped
    /\ WorldTyped

-----------------------------------------------------------------------------
(* Properties *)

\* Whatever calls overlap, whatever the clock does, the events of every session
\* tell one history: numbered without a gap, never moving back in time, opened
\* by its start event and closed by its close event (checked by
\* `_semantic_errors', kept by `_append_event_tx' and close_session).  And every
\* workflow event has its workflow record and the reverse, across the steps of
\* put_workflow and of an import.
HistoryConsistent == ValidHistory(sessions, events) /\ ValidWorkflows(events, workflows)

\* Superseding and contradicting events keep to their subject, never make
\* durable memory depend on memory that can be dropped, and never go round in
\* a circle (`_append_event_tx' and restore_untrusted_document).
RelationsSound == ValidTargets(events) /\ Acyclic(events)

\* The current verification of an event is exactly what its latest attempt
\* says, and evidence, attempts and verification are in time order, also when
\* the clock steps back between hashing a source and recording it.
VerificationFollowsAttempts == ValidVerification

\* A promoted event is durable, promotable, still verified, and was promoted
\* after its session closed: a stale reverify withdraws the promotion together
\* with the verification.
PromotionsBacked ==
    /\ ValidPromotion
    /\ \A e \in DOMAIN promotions :
          /\ IsClosed(events[e].session)
          /\ promotions[e] >= sessions[events[e].session].ended
          /\ promotions[e] >= events[e].observed

\* consolidate never promotes an event that a recall at the same knowledge and
\* validity time would hide.
PromotedIsRecalled ==
    [][\A e \in DOMAIN promotions' \ DOMAIN promotions :
          e \in Recall(promotions'[e], promotions'[e], FALSE, FALSE)]_vars

\* No call in flight can still record something before this time.
Watermark == Min({now} \cup {calls[c].requested : c \in InFlight})

\* A recall of what was known before the watermark answers the same for ever,
\* while the sources stay as they are: neither a later event, nor a later
\* verification, nor an import changes it.
AsOfStable ==
    [][UNCHANGED <<content, policy>> =>
          \A known \in 0..(Watermark - 1), valid \in 0..MaxTime :
              Recall(known, valid, FALSE, FALSE)' = Recall(known, valid, FALSE, FALSE)]_vars

\* Every document portable_document produces is one restore_untrusted_document
\* accepts: compacting sequences and dropping non-durable events never breaks a
\* history, a relation or a workflow.
PackRestorable == Exportable => Restorable(PortableDocument)

=============================================================================

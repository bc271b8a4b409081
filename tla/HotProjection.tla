--------------------------- MODULE HotProjection ---------------------------
(***************************************************************************)
(* The hot projection (palimnex/durable.py): every event of the ledger has *)
(* an outbox row, committed with it; project_outbox sends the metadata of  *)
(* undelivered rows to a bounded Redis stream and notes the delivery, and  *)
(* hot_events reads the stream back and compares it with the ledger.       *)
(*                                                                         *)
(* A projector holds the file lock of the ledger from the reading of the   *)
(* rows to its last acknowledgement, but each attempt, each script and     *)
(* each acknowledgement is a step of its own: it can die between them, and *)
(* a script whose reply did not come may have run, never run, or run later.*)
(* Redis keeps nothing but timed snapshots, drops receipts as they expire, *)
(* and may be emptied at any time.                                         *)
(*                                                                         *)
(* Events are numbered in the order of their outbox rows.  The pointers    *)
(* the script writes beside the stream are left out: nothing reads them.   *)
(***************************************************************************)
EXTENDS FiniteSets, Naturals, Sequences

CONSTANTS
    Projector,      \* processes that run project-hot
    Reader,         \* processes that run hot-events
    MaxLen,         \* HOT_STREAM_MAXLEN
    Limit,          \* rows in a batch
    MaxEvent,       \* bound on events ever recorded
    MaxEpoch,       \* bound on ledgers that follow each other
    MaxResets,      \* bound on rebuilds
    MaxFailures     \* bound on crashes, lost replies and losses of a stream

ASSUME ProjectionAssumption ==
    /\ MaxLen \in Nat \ {0} /\ Limit \in Nat \ {0} /\ MaxEpoch \in Nat \ {0}
    /\ MaxEvent \in Nat /\ MaxResets \in Nat /\ MaxFailures \in Nat
    /\ "free" \notin Projector

VARIABLES
    epoch,          \* hot_projection_epoch of the ledger
    recorded,       \* events of the ledger, one outbox row each
    attempted,      \* rows with an attempted_at
    delivered,      \* rows with a delivered_at
    last,           \* the last event ever recorded
    standing,       \* whether the ledger is sound, refuses itself, or was migrated
    lock,           \* the projector that holds the file lock
    projector,      \* what each projector is at
    redis,          \* epoch -> the stream and the receipts under its namespace
    snapshot,       \* what a restart of Redis comes back with
    late,           \* scripts Redis has still to run, their clients gone
    reader,         \* what each hot_events is at
    disturbed,      \* Redis lost entries, or got one late, and nobody rebuilt the stream
    resets, failures

ledger == <<epoch, recorded, attempted, delivered, last, standing>>
bounds == <<resets, failures>>
vars == <<ledger, lock, projector, redis, snapshot, late, reader, disturbed, bounds>>

Event == 1..MaxEvent
Epoch == 1..MaxEpoch
Free == "free"

\* What goes into the stream: the event and its metadata, which an import
\* changes (the rows it rebuilds are untrusted, under a new record digest).
Metadata(e) == [event |-> e, ledger |-> epoch]

-----------------------------------------------------------------------------
(* The ledger: events, imports, and the outbox rows they bring *)

Pending == recorded \ delivered
\* Mutant: the rows are read newest first.
LastComes(e, rows) == \A f \in rows : f <= e
\* `ORDER BY o.outbox_id'
Comes(e, rows) == \A f \in rows : e <= f
\* The first n rows, and the last n.
Oldest(n, rows) == {e \in rows : Cardinality({f \in rows : f < e}) < n}
Newest(n, rows) == {e \in rows : Cardinality({f \in rows : f > e}) < n}

\* `_append_event_tx': the outbox row is part of the transaction of the event.  A
\* migrated ledger still writes it ("later writes report projection_pending").
Record ==
    /\ lock = Free /\ standing # "stuck" /\ last < MaxEvent
    /\ last' = last + 1 /\ recorded' = recorded \cup {last + 1}
    /\ UNCHANGED <<epoch, attempted, delivered, standing, lock, projector, redis, snapshot, late,
                   reader, disturbed, bounds>>

\* import_pack puts a rebuilt ledger in place: some events come along, none of
\* them attempted, and the epoch is new.  It is what frees a ledger that refuses
\* itself, and is refused over a migrated one.
Replace ==
    /\ lock = Free /\ standing # "migrated" /\ epoch < MaxEpoch
    /\ epoch' = epoch + 1 /\ standing' = "sound"
    /\ \E kept \in SUBSET recorded : recorded' = kept
    /\ attempted' = {} /\ delivered' = {} /\ disturbed' = FALSE
    /\ UNCHANGED <<last, lock, projector, redis, snapshot, late, reader, bounds>>

\* A legal call leaves a ledger that no later call accepts (Ledger says which:
\* PromotionsActive), or the ledger is migrated to the retention profile, which
\* publishes no hot projection.
GetStuck ==
    /\ lock = Free /\ standing = "sound" /\ recorded # {} /\ standing' = "stuck"
    /\ UNCHANGED <<epoch, recorded, attempted, delivered, last, lock, projector, redis, snapshot,
                   late, reader, disturbed, bounds>>
Migrate ==
    /\ lock = Free /\ standing = "sound" /\ standing' = "migrated"
    /\ UNCHANGED <<epoch, recorded, attempted, delivered, last, lock, projector, redis, snapshot,
                   late, reader, disturbed, bounds>>

-----------------------------------------------------------------------------
(* The script of project_outbox, run atomically by Redis *)

Positions(stream, e) == {i \in DOMAIN stream : stream[i].event = e}

\* Mutant: one namespace for every ledger.
SharedNamespace(k) == 1
\* `_epoch_hot_namespace'
Namespace(k) == k

\* Mutant: XADD without a look into the stream.
AddsBlindly(space, row, retry) == "append"
\* A receipt leads to the stream record (its id is left out: no stream holds an
\* event twice); without one a first attempt is appended unseen, and a retry
\* looks through the whole stream.
Verdict(space, row, retry) ==
    LET found == Positions(space.stream, row.event)
        exact == \E i \in found : found = {i} /\ space.stream[i] = row
        receipt == {r \in space.receipts : r.event = row.event}
    IN  IF receipt \subseteq {row}
        THEN IF receipt = {} /\ ~retry THEN "append"
             ELSE IF found = {} THEN "append"
             ELSE IF exact THEN "found" ELSE "refuse"
        ELSE "refuse"

\* XADD MAXLEN = leaves the newest entries.
Trimmed(stream) ==
    IF Len(stream) <= MaxLen THEN stream
    ELSE SubSeq(stream, Len(stream) - MaxLen + 1, Len(stream))
After(space, row, verdict) ==
    CASE verdict = "append" ->
            [stream |-> Trimmed(Append(space.stream, row)),
             receipts |-> {r \in space.receipts : r.event # row.event} \cup {row}]
      [] verdict = "found" -> [space EXCEPT !.receipts = @ \cup {row}]
      [] OTHER -> space

\* The script for one row, and whether it acknowledged.
Run(call) ==
    LET space == redis[call.namespace]
    IN  redis' = [redis EXCEPT ![call.namespace] =
                     After(space, call.row, Verdict(space, call.row, call.retry))]
Acknowledged(call) == Verdict(redis[call.namespace], call.row, call.retry) # "refuse"

-----------------------------------------------------------------------------
(* project_outbox, and the loop of `project-hot' around it *)

At(p, pc) == projector[p].pc = pc
Stops(p) == projector' = [projector EXCEPT ![p] = [@ EXCEPT !.pc = "off", !.rebuild = FALSE]]
Call(p) == [namespace |-> Namespace(epoch), row |-> Metadata(projector[p].row),
            retry |-> projector[p].retry]

\* `project-hot --rebuild': every row is to be delivered again, also of a migrated
\* ledger, which then refuses the delivery.
Reset(p) ==
    /\ At(p, "off") /\ lock = Free /\ standing # "stuck" /\ resets < MaxResets
    /\ resets' = resets + 1
    /\ delivered' = {}
    /\ disturbed' = (disturbed /\ redis[Namespace(epoch)].stream # <<>>)
    /\ projector' = [projector EXCEPT ![p] = [@ EXCEPT !.pc = "between", !.rebuild = TRUE]]
    /\ UNCHANGED <<epoch, recorded, attempted, last, standing, lock, redis, snapshot, late, reader,
                   failures>>

\* A batch is read under the lock, if the ledger may be projected: "durable ledger
\* failed semantic validation", "retention profile does not publish hot projections".
Open(p) ==
    /\ (At(p, "off") \/ At(p, "between")) /\ lock = Free
    /\ IF standing # "sound" \/ Pending = {}
       THEN Stops(p) /\ UNCHANGED lock
       ELSE /\ lock' = p
            /\ projector' = [projector EXCEPT ![p] =
                   [@ EXCEPT !.pc = "attempting", !.rows = Oldest(Limit, Pending)]]
    /\ UNCHANGED <<ledger, redis, snapshot, late, reader, disturbed, bounds>>

Takes(p, e) ==
    /\ At(p, "attempting") /\ e \in projector[p].rows /\ Comes(e, projector[p].rows)
    /\ projector' = [projector EXCEPT ![p] =
           [@ EXCEPT !.pc = "sending", !.row = e, !.retry = (e \in attempted)]]
    /\ UNCHANGED <<epoch, recorded, delivered, last, standing, lock, redis, snapshot, late, reader,
                   disturbed, bounds>>

\* Mutant: the attempt is not committed before the row is sent.
SendFirst(p) == \E e \in projector[p].rows : Takes(p, e) /\ UNCHANGED attempted

\* The attempt is committed first: whoever finds it later knows it is a retry.
Attempt(p) == \E e \in projector[p].rows : Takes(p, e) /\ attempted' = attempted \cup {e}

\* "hot projection receipt is stale or differs" ends the command.
Send(p) ==
    /\ At(p, "sending")
    /\ Run(Call(p))
    /\ IF Acknowledged(Call(p))
       THEN projector' = [projector EXCEPT ![p].pc = "sent"] /\ UNCHANGED lock
       ELSE Stops(p) /\ lock' = Free
    /\ UNCHANGED <<ledger, snapshot, late, reader, disturbed, bounds>>

\* A rebuild goes on while anything remains.
Acknowledge(p) ==
    LET rest == projector[p].rows \ {projector[p].row}
    IN  /\ At(p, "sent")
        /\ delivered' = delivered \cup {projector[p].row}
        /\ IF rest # {}
           THEN /\ projector' = [projector EXCEPT ![p] =
                       [@ EXCEPT !.pc = "attempting", !.rows = rest]]
                /\ UNCHANGED lock
           ELSE /\ lock' = Free
                /\ IF projector[p].rebuild /\ recorded \ delivered' # {}
                   THEN projector' = [projector EXCEPT ![p].pc = "between"]
                   ELSE Stops(p)
        /\ UNCHANGED <<epoch, recorded, attempted, last, standing, redis, snapshot, late,
                       reader, disturbed, bounds>>

\* The reply does not come and the command ends; the script ran, was lost, or
\* is still to run.
LoseReply(p) ==
    /\ At(p, "sending") /\ failures < MaxFailures
    /\ failures' = failures + 1
    /\ Stops(p) /\ lock' = Free
    /\ \/ Run(Call(p)) /\ UNCHANGED late
       \/ UNCHANGED <<redis, late>>
       \/ late' = late \cup {Call(p)} /\ UNCHANGED redis
    /\ UNCHANGED <<ledger, snapshot, reader, disturbed, resets>>

\* The process dies; its flock goes with it.
Crash(p) ==
    /\ ~At(p, "off") /\ failures < MaxFailures
    /\ failures' = failures + 1
    /\ Stops(p)
    /\ lock' = IF lock = p THEN Free ELSE lock
    /\ UNCHANGED <<ledger, redis, snapshot, late, reader, disturbed, resets>>

-----------------------------------------------------------------------------
(* Redis *)

\* A script whose client is gone.
RunLate(call) ==
    /\ call \in late
    /\ late' = late \ {call}
    /\ Run(call)
    /\ disturbed' = (disturbed \/ redis' # redis)
    /\ UNCHANGED <<ledger, lock, projector, snapshot, reader, bounds>>

Empty == [stream |-> <<>>, receipts |-> {}]

\* The timed snapshot of the launcher (`--save 60 1 300 100 --appendonly no').
TakeSnapshot ==
    /\ failures < MaxFailures /\ snapshot' = redis
    /\ UNCHANGED <<ledger, lock, projector, redis, late, reader, disturbed, bounds>>

\* Thirty days pass: keys expire, the stream after the last of its receipts.
\* What was buffered has run long before.
Expire(left) ==
    LET space == redis[Namespace(epoch)]
    IN  /\ late = {} /\ failures < MaxFailures /\ failures' = failures + 1
        /\ left \subseteq space.receipts
        /\ \E stream \in {space.stream} \cup (IF left = {} THEN {<<>>} ELSE {}) :
              /\ redis' = [redis EXCEPT ![Namespace(epoch)] =
                               [stream |-> stream, receipts |-> left]]
              /\ disturbed' = (disturbed \/ stream # space.stream)
        /\ UNCHANGED <<ledger, lock, projector, snapshot, late, reader, resets>>

\* Redis dies, and with it what was buffered; it restarts from its snapshot, or
\* from nothing (`reset').
Restart ==
    /\ failures < MaxFailures /\ failures' = failures + 1
    /\ redis' \in {snapshot, [k \in Epoch |-> Empty]}
    /\ late' = {} /\ snapshot' = redis' /\ disturbed' = TRUE
    /\ UNCHANGED <<ledger, lock, projector, reader, resets>>

-----------------------------------------------------------------------------
(* hot_events *)

Away == [pc |-> "away", epoch |-> 1, entries |-> <<>>]

LookUp(r) ==
    /\ reader[r].pc = "away" /\ lock = Free /\ standing = "sound"
    /\ reader' = [reader EXCEPT ![r] = [@ EXCEPT !.pc = "looking", !.epoch = epoch]]
    /\ UNCHANGED <<ledger, lock, projector, redis, snapshot, late, disturbed, bounds>>

Fetch(r) ==
    /\ reader[r].pc = "looking"
    /\ reader' = [reader EXCEPT ![r] = [@ EXCEPT !.pc = "checking",
                     !.entries = redis[Namespace(reader[r].epoch)].stream]]
    /\ UNCHANGED <<ledger, lock, projector, redis, snapshot, late, disturbed, bounds>>

\* No event twice, none the ledger does not hold, none that differs from it.
Matches(entries) ==
    \A i \in DOMAIN entries :
        /\ entries[i].event \in recorded /\ entries[i] = Metadata(entries[i].event)
        /\ Positions(entries, entries[i].event) = {i}

\* "durable ledger changed during hot projection read" is reported as such, and so is
\* a ledger that no longer lets itself be read; any other mismatch refuses the whole
\* read.
Check(r) ==
    /\ reader[r].pc = "checking" /\ lock = Free
    /\ reader' = [reader EXCEPT ![r] =
           IF standing # "sound" \/ @.epoch # epoch \/ Matches(@.entries)
           THEN Away ELSE [Away EXCEPT !.pc = "refused"]]
    /\ UNCHANGED <<ledger, lock, projector, redis, snapshot, late, disturbed, bounds>>

-----------------------------------------------------------------------------
Init ==
    /\ epoch = 1 /\ recorded = {} /\ attempted = {} /\ delivered = {} /\ last = 0
    /\ standing = "sound"
    /\ lock = Free
    /\ projector = [p \in Projector |->
                       [pc |-> "off", rows |-> {}, row |-> 0, retry |-> FALSE, rebuild |-> FALSE]]
    /\ redis = [k \in Epoch |-> Empty] /\ snapshot = redis /\ late = {}
    /\ reader = [r \in Reader |-> Away] /\ disturbed = FALSE
    /\ resets = 0 /\ failures = 0

Project(p) == Open(p) \/ Attempt(p) \/ Send(p) \/ Acknowledge(p)
Read(r) == LookUp(r) \/ Fetch(r) \/ Check(r)

Next ==
    \/ Record \/ Replace \/ GetStuck \/ Migrate
    \/ \E p \in Projector : Reset(p) \/ Project(p) \/ LoseReply(p) \/ Crash(p)
    \/ \E call \in late : RunLate(call)
    \/ \E left \in SUBSET redis[Namespace(epoch)].receipts : Expire(left)
    \/ TakeSnapshot \/ Restart
    \/ \E r \in Reader : Read(r)

Spec == Init /\ [][Next]_vars

\* project-hot is run again and again, and its steps proceed.
FairSpec == Spec /\ \A p \in Projector : WF_vars(Project(p))

-----------------------------------------------------------------------------
(* Types *)

Rows == [event : Event, ledger : Epoch]
InStream(stream) == {stream[i] : i \in DOMAIN stream}
Spaces == [stream : Seq(Rows), receipts : SUBSET Rows]
Calls == [namespace : Epoch, row : Rows, retry : BOOLEAN]
ProjectorStates == [pc : {"off", "between", "attempting", "sending", "sent"},
                    rows : SUBSET Event, row : Event \cup {0},
                    retry : BOOLEAN, rebuild : BOOLEAN]
ReaderStates == [pc : {"away", "looking", "checking", "refused"},
                 epoch : Epoch, entries : Seq(Rows)]
Bounded(spaces) == \A k \in Epoch : Len(spaces[k].stream) <= MaxLen

TypeOK ==
    /\ epoch \in Epoch /\ last \in 0..MaxEvent /\ standing \in {"sound", "stuck", "migrated"}
    /\ recorded \subseteq 1..last /\ attempted \subseteq recorded /\ delivered \subseteq attempted
    /\ lock \in Projector \cup {Free}
    /\ projector \in [Projector -> ProjectorStates]
    /\ redis \in [Epoch -> Spaces] /\ Bounded(redis)
    /\ snapshot \in [Epoch -> Spaces] /\ Bounded(snapshot)
    /\ late \subseteq Calls
    /\ reader \in [Reader -> ReaderStates]
    /\ disturbed \in BOOLEAN /\ resets \in 0..MaxResets /\ failures \in 0..MaxFailures

-----------------------------------------------------------------------------
(* Properties *)

\* An event whose outbox row shows no attempt is not in Redis, nor on its way
\* there: retention relies on it when it erases an event (`store_not_adapted').
SentWasAttempted ==
    LET stream == redis[Namespace(epoch)].stream
        sent == {c.row : c \in late} \cup InStream(stream)
    IN  \A row \in sent : row.ledger = epoch => row.event \in attempted

\* Whatever crashed, came late or was lost, hot_events never finds its own
\* projection poisoned: no event twice, none unknown, none of another ledger.
HotReadable == \A r \in Reader : reader[r].pc # "refused"

\* Once nothing is pending the stream holds the newest events, as many as fit,
\* in the order of their rows, after any crash, retry or rebuild, and again
\* after `project-hot --rebuild' if Redis had lost the whole namespace.
StreamIsNewest ==
    LET stream == redis[Namespace(epoch)].stream
    IN  ~disturbed /\ Pending = {} =>
            /\ {row.event : row \in InStream(stream)} = Newest(MaxLen, recorded)
            /\ \A i, j \in DOMAIN stream : i < j => stream[i].event < stream[j].event

\* As long as somebody runs project-hot again and again, and failures come to
\* an end, everything pending is delivered: "Redis failure therefore costs
\* immediacy, not acknowledged memory" (docs/DESIGN.md).  Unless the ledger refuses: one
\* that fails its own check delivers nothing until it is replaced, a migrated one never.
Delivered == Pending # {} ~> Pending = {} \/ standing # "sound"

=============================================================================

------------------------ MODULE HotProjectionProofs ------------------------
(***************************************************************************)
(* For any number of projectors, ledgers, crashes, late scripts and        *)
(* restarts: no event reaches Redis before its attempt is in the ledger,   *)
(* hot_events fetches nothing twice and nothing unknown, and a stream that *)
(* is caught up holds the newest events in their order.                    *)
(***************************************************************************)
EXTENDS HotProjection, FiniteSetTheorems, TLAPS

\* Why it is inductive: a projector at work holds the lock, so its rows stay in
\* the ledger and its attempt stays committed until the row is sent...
Guarded ==
    \A p \in Projector :
        projector[p].pc \in {"attempting", "sending", "sent"} =>
            /\ lock = p /\ projector[p].rows \subseteq recorded
            /\ projector[p].pc # "attempting" => projector[p].row \in attempted
\* ...and whatever Redis holds, may come back with, or has still to run is of
\* this ledger or of an earlier one, and was attempted if it is of this one.
Sound(row) == row.ledger <= epoch /\ (row.ledger = epoch => row.event \in attempted)
AllSound ==
    /\ \A k \in Epoch : \A row \in InStream(redis[k].stream) : Sound(row)
    /\ \A k \in Epoch : \A row \in InStream(snapshot[k].stream) : Sound(row)
    /\ \A c \in late : Sound(c.row)
OutboxInv == TypeOK /\ Guarded /\ AllSound

\* What XADD with MAXLEN leaves is a stream of the same rows, and no longer.
LEMMA TrimmedTyped ==
    ASSUME NEW stream \in Seq(Rows)
    PROVE  /\ Trimmed(stream) \in Seq(Rows) /\ Len(Trimmed(stream)) <= MaxLen
           /\ InStream(Trimmed(stream)) \subseteq InStream(stream)
<1>1. MaxLen \in Nat \ {0}
  BY ProjectionAssumption
<1>2. CASE Len(stream) <= MaxLen
  BY <1>2 DEF Trimmed
<1>3. CASE Len(stream) > MaxLen
  <2> DEFINE from == Len(stream) - MaxLen + 1
             short == SubSeq(stream, from, Len(stream))
  <2>1. from \in 1..Len(stream) /\ Len(stream) \in Nat
    BY <1>1, <1>3
  <2>2. short \in Seq(Rows) /\ Len(short) = MaxLen
    BY <1>1, <2>1
  <2>3. \A i \in DOMAIN short : short[i] = stream[from + i - 1] /\ from + i - 1 \in DOMAIN stream
    BY <1>1, <2>1, <2>2
  <2>4. Trimmed(stream) = short
    BY <1>1, <1>3, <2>1 DEF Trimmed
  <2> HIDE DEF short
  <2> QED
    BY <1>1, <2>2, <2>3, <2>4 DEF InStream
<1> QED
  BY <1>1, <1>2, <1>3

\* The script leaves a stream within its cap, with at most its row added.
LEMMA AfterTyped ==
    ASSUME NEW space \in Spaces, Len(space.stream) <= MaxLen, NEW row \in Rows, NEW verdict
    PROVE  /\ After(space, row, verdict) \in Spaces
           /\ Len(After(space, row, verdict).stream) <= MaxLen
           /\ InStream(After(space, row, verdict).stream) \subseteq InStream(space.stream) \cup {row}
<1>1. CASE verdict = "append"
  <2> DEFINE longer == Append(space.stream, row)
  <2>1. longer \in Seq(Rows) /\ InStream(longer) \subseteq InStream(space.stream) \cup {row}
    BY DEF Spaces, InStream
  <2> HIDE DEF longer
  <2>2. /\ Trimmed(longer) \in Seq(Rows) /\ Len(Trimmed(longer)) <= MaxLen
        /\ InStream(Trimmed(longer)) \subseteq InStream(longer)
    BY <2>1, TrimmedTyped
  <2>3. After(space, row, verdict) =
            [stream |-> Trimmed(longer),
             receipts |-> {r \in space.receipts : r.event # row.event} \cup {row}]
    BY <1>1 DEF After, longer
  <2> QED
    BY <2>1, <2>2, <2>3 DEF Spaces
<1>2. CASE verdict = "found"
  BY <1>2 DEF After, Spaces
<1>3. CASE verdict \notin {"append", "found"}
  BY <1>3 DEF After
<1> QED
  BY <1>1, <1>2, <1>3

LEMMA Constants ==
    /\ MaxLen \in Nat \ {0} /\ MaxEvent \in Nat /\ MaxEpoch \in Nat \ {0}
    /\ MaxResets \in Nat /\ MaxFailures \in Nat /\ Free \notin Projector
BY ProjectionAssumption DEF Free

LEMMA EmptyTyped == Empty \in Spaces /\ Len(Empty.stream) = 0 /\ InStream(Empty.stream) = {}
BY DEF Empty, Spaces, InStream

LEMMA InitOutbox == Init => OutboxInv
<1> SUFFICES ASSUME Init PROVE OutboxInv
  OBVIOUS
<1>1. redis \in [Epoch -> Spaces] /\ snapshot = redis /\ Bounded(redis)
  BY EmptyTyped, Constants DEF Init, Bounded
<1>2. \A k \in Epoch : InStream(redis[k].stream) = {}
  BY EmptyTyped DEF Init
<1>3. projector \in [Projector -> ProjectorStates] /\ reader \in [Reader -> ReaderStates]
  BY Constants DEF Init, ProjectorStates, Away, ReaderStates, Epoch
<1>4. /\ epoch \in Epoch /\ last \in 0..MaxEvent /\ recorded \subseteq 1..last
      /\ resets \in 0..MaxResets /\ failures \in 0..MaxFailures
  BY Constants DEF Init, Epoch
<1>5. TypeOK
  BY <1>1, <1>3, <1>4 DEF Init, TypeOK
<1> QED
  BY <1>1, <1>2, <1>5 DEF Init, OutboxInv, Guarded, AllSound

\* What a script does to Redis as a whole.
LEMMA RunTyped ==
    ASSUME redis \in [Epoch -> Spaces], Bounded(redis), NEW call \in Calls, Run(call)
    PROVE  /\ redis' \in [Epoch -> Spaces] /\ Bounded(redis')
           /\ \A k \in Epoch :
                 InStream(redis'[k].stream) \subseteq InStream(redis[k].stream) \cup {call.row}
<1> DEFINE n == call.namespace
           verdict == Verdict(redis[n], call.row, call.retry)
           after == After(redis[n], call.row, verdict)
<1>1. n \in Epoch /\ call.row \in Rows /\ redis[n] \in Spaces /\ Len(redis[n].stream) <= MaxLen
  BY DEF Calls, Bounded
<1>2. redis' = [redis EXCEPT ![n] = after]
  BY DEF Run
<1> HIDE DEF n, verdict
<1>3. /\ after \in Spaces /\ Len(after.stream) <= MaxLen
      /\ InStream(after.stream) \subseteq InStream(redis[n].stream) \cup {call.row}
  BY <1>1, AfterTyped
<1> HIDE DEF after
<1>4. redis' \in [Epoch -> Spaces]
  BY <1>1, <1>2, <1>3
<1>5. \A k \in Epoch : redis'[k] = IF k = n THEN after ELSE redis[k]
  BY <1>1, <1>2
<1> QED
  BY <1>3, <1>4, <1>5 DEF Bounded

\* What a projector sends.
LEMMA CallTyped ==
    ASSUME OutboxInv, NEW p \in Projector, At(p, "sending")
    PROVE  Call(p) \in Calls /\ Sound(Call(p).row)
<1>1. projector[p].row \in attempted /\ projector[p] \in ProjectorStates
  BY DEF OutboxInv, Guarded, At, TypeOK
<1>2. projector[p].row \in Event /\ projector[p].retry \in BOOLEAN
  BY <1>1, Constants DEF OutboxInv, TypeOK, Event, ProjectorStates
<1>3. epoch \in Epoch /\ epoch <= epoch
  BY Constants DEF OutboxInv, TypeOK, Epoch
<1> QED
  BY <1>1, <1>2, <1>3 DEF Call, Calls, Metadata, Namespace, Rows, Sound

LEMMA StopsTyped ==
    ASSUME projector \in [Projector -> ProjectorStates], NEW p \in Projector, Stops(p)
    PROVE  /\ projector' \in [Projector -> ProjectorStates]
           /\ \A q \in Projector \ {p} : projector'[q] = projector[q]
           /\ projector'[p].pc = "off"
BY DEF Stops, ProjectorStates

\* Steps that leave Redis and what was sent alone keep its soundness, as long as
\* no attempt is taken back while the ledger stays.
LEMMA SoundKept ==
    ASSUME AllSound, UNCHANGED <<redis, snapshot, late, epoch>>, attempted \subseteq attempted'
    PROVE  AllSound'
BY DEF AllSound, Sound

\* A step that sends one sound row does, too.
LEMMA SoundSent ==
    ASSUME AllSound, UNCHANGED <<epoch, attempted>>, NEW call, Sound(call.row),
           \A k \in Epoch :
               InStream(redis'[k].stream) \subseteq InStream(redis[k].stream) \cup {call.row},
           UNCHANGED snapshot, late' \subseteq late \cup {call}
    PROVE  AllSound'
BY DEF AllSound, Sound

LEMMA RecordKept == OutboxInv /\ Record => OutboxInv'
<1> SUFFICES ASSUME OutboxInv, Record PROVE OutboxInv'
  OBVIOUS
<1>1. last' \in 0..MaxEvent /\ recorded' \subseteq 1..last' /\ recorded \subseteq recorded'
  BY Constants DEF OutboxInv, TypeOK, Record
<1>2. TypeOK'
  BY <1>1 DEF OutboxInv, TypeOK, Record, bounds
<1>3. Guarded'
  BY <1>1 DEF OutboxInv, Guarded, Record
<1> QED
  BY <1>2, <1>3, SoundKept DEF OutboxInv, Record

\* Nobody is at work, and nothing sent is of the new ledger.
LEMMA ReplaceKept == OutboxInv /\ Replace => OutboxInv'
<1> SUFFICES ASSUME OutboxInv, Replace PROVE OutboxInv'
  OBVIOUS
<1>1. epoch' \in Epoch /\ epoch' = epoch + 1 /\ epoch \in Nat
  BY Constants DEF OutboxInv, TypeOK, Replace, Epoch
<1>2. TypeOK'
  BY <1>1 DEF OutboxInv, TypeOK, Replace, bounds
<1>3. Guarded'
  BY Constants DEF OutboxInv, Guarded, Replace
<1>4. ASSUME NEW row \in Rows, Sound(row) PROVE Sound(row)'
  BY <1>1, <1>4 DEF Sound, Rows, Epoch
<1>5. \A k \in Epoch : /\ InStream(redis[k].stream) \subseteq Rows
                       /\ InStream(snapshot[k].stream) \subseteq Rows
  BY DEF OutboxInv, TypeOK, Spaces, InStream
<1>6. \A c \in late : c.row \in Rows
  BY DEF OutboxInv, TypeOK, Calls
<1> QED
  BY <1>2, <1>3, <1>4, <1>5, <1>6 DEF OutboxInv, AllSound, Replace

LEMMA ResetKept == ASSUME OutboxInv, NEW p \in Projector, Reset(p) PROVE OutboxInv'
<1> DEFINE next == [projector[p] EXCEPT !.pc = "between", !.rebuild = TRUE]
<1>1. next \in ProjectorStates /\ next.pc = "between"
  BY DEF OutboxInv, TypeOK, ProjectorStates
<1>2. projector' = [projector EXCEPT ![p] = next]
  BY DEF Reset
<1> HIDE DEF next
<1>3. /\ projector' \in [Projector -> ProjectorStates]
      /\ \A q \in Projector : projector'[q] = IF q = p THEN next ELSE projector[q]
  BY <1>1, <1>2 DEF OutboxInv, TypeOK
<1>4. resets' \in 0..MaxResets /\ disturbed' \in BOOLEAN
  BY Constants DEF OutboxInv, TypeOK, Reset
<1>5. TypeOK'
  BY <1>3, <1>4 DEF OutboxInv, TypeOK, Reset
<1>6. Guarded'
  BY <1>1, <1>3 DEF OutboxInv, Guarded, Reset
<1> QED
  BY <1>5, <1>6, SoundKept DEF OutboxInv, Reset

LEMMA OpenKept == ASSUME OutboxInv, NEW p \in Projector, Open(p) PROVE OutboxInv'
<1>1. CASE standing # "sound" \/ Pending = {}
  <2>1. Stops(p) /\ UNCHANGED lock
    BY <1>1 DEF Open
  <2>2. /\ projector' \in [Projector -> ProjectorStates]
        /\ \A q \in Projector \ {p} : projector'[q] = projector[q]
        /\ projector'[p].pc = "off"
    BY <2>1, StopsTyped DEF OutboxInv, TypeOK
  <2>3. TypeOK' /\ Guarded'
    BY <2>1, <2>2 DEF OutboxInv, TypeOK, Guarded, Open, ledger, bounds
  <2> QED
    BY <2>3, SoundKept DEF OutboxInv, Open, ledger
<1>2. CASE ~(standing # "sound" \/ Pending = {})
  <2> DEFINE next == [projector[p] EXCEPT !.pc = "attempting", !.rows = Oldest(Limit, Pending)]
  <2>1. Oldest(Limit, Pending) \subseteq recorded /\ recorded \subseteq Event
    BY Constants DEF Oldest, Pending, OutboxInv, TypeOK, Event
  <2>2. next \in ProjectorStates /\ next.pc = "attempting" /\ next.rows \subseteq recorded
    BY <2>1 DEF OutboxInv, TypeOK, ProjectorStates
  <2>3. projector' = [projector EXCEPT ![p] = next] /\ lock' = p /\ lock = Free
    BY <1>2 DEF Open
  <2> HIDE DEF next
  <2>4. /\ projector' \in [Projector -> ProjectorStates]
        /\ \A q \in Projector : projector'[q] = IF q = p THEN next ELSE projector[q]
    BY <2>2, <2>3 DEF OutboxInv, TypeOK
  <2>5. TypeOK'
    BY <2>3, <2>4 DEF OutboxInv, TypeOK, Open, ledger, bounds
  <2>6. Guarded'
    BY <2>2, <2>3, <2>4, Constants DEF OutboxInv, Guarded, Open, ledger
  <2> QED
    BY <2>5, <2>6, SoundKept DEF OutboxInv, Open, ledger
<1> QED
  BY <1>1, <1>2

\* The attempt is committed before the row goes anywhere.
LEMMA AttemptKept == ASSUME OutboxInv, NEW p \in Projector, Attempt(p) PROVE OutboxInv'
<1>1. PICK e \in projector[p].rows : Takes(p, e) /\ attempted' = attempted \cup {e}
  BY DEF Attempt
<1> DEFINE next == [projector[p] EXCEPT !.pc = "sending", !.row = e, !.retry = (e \in attempted)]
<1>2. lock = p /\ e \in recorded /\ recorded \subseteq Event
  BY <1>1, Constants DEF OutboxInv, Guarded, Takes, At, TypeOK, Event
<1>3. next \in ProjectorStates /\ next.pc = "sending" /\ next.row = e
      /\ next.rows = projector[p].rows
  <2> DEFINE retry == (e \in attempted)
             row == [projector[p] EXCEPT !.pc = "sending", !.row = e]
  <2>1. row \in ProjectorStates /\ row.pc = "sending" /\ row.row = e
        /\ row.rows = projector[p].rows
    BY <1>2 DEF OutboxInv, TypeOK, ProjectorStates
  <2>2. next = [row EXCEPT !.retry = retry] /\ retry \in BOOLEAN
    OBVIOUS
  <2> HIDE DEF next, row, retry
  <2> QED
    BY <2>1, <2>2 DEF ProjectorStates
<1>4. projector' = [projector EXCEPT ![p] = next]
  BY <1>1 DEF Takes
<1> HIDE DEF next
<1>5. /\ projector' \in [Projector -> ProjectorStates]
      /\ \A q \in Projector : projector'[q] = IF q = p THEN next ELSE projector[q]
  BY <1>3, <1>4 DEF OutboxInv, TypeOK
<1>6. projector[p].pc = "attempting" /\ projector[p].rows \subseteq recorded
  BY <1>1 DEF Takes, At, OutboxInv, Guarded
<1>7. TypeOK'
  BY <1>1, <1>2, <1>5 DEF OutboxInv, TypeOK, Takes, bounds
<1>8. Guarded'
  BY <1>1, <1>2, <1>3, <1>5, <1>6 DEF OutboxInv, Guarded, Takes
<1> QED
  BY <1>1, <1>7, <1>8, SoundKept DEF OutboxInv, Takes

LEMMA SendKept == ASSUME OutboxInv, NEW p \in Projector, Send(p) PROVE OutboxInv'
<1>1. Run(Call(p)) /\ Call(p) \in Calls /\ Sound(Call(p).row)
  BY CallTyped DEF Send
<1>2. /\ redis' \in [Epoch -> Spaces] /\ Bounded(redis')
      /\ \A k \in Epoch :
            InStream(redis'[k].stream) \subseteq InStream(redis[k].stream) \cup {Call(p).row}
  BY <1>1, RunTyped DEF OutboxInv, TypeOK
<1>3. AllSound'
  BY <1>1, <1>2, SoundSent DEF OutboxInv, Send, ledger
<1>4. lock = p /\ projector[p] \in ProjectorStates /\ projector[p].pc = "sending"
  BY DEF OutboxInv, Guarded, TypeOK, Send, At
<1>5. CASE Acknowledged(Call(p))
  <2> DEFINE next == [projector[p] EXCEPT !.pc = "sent"]
  <2>1. projector' = [projector EXCEPT ![p] = next] /\ UNCHANGED lock
    BY <1>5 DEF Send
  <2>2. /\ next \in ProjectorStates /\ next.pc = "sent"
        /\ next.rows = projector[p].rows /\ next.row = projector[p].row
    BY <1>4 DEF ProjectorStates
  <2> HIDE DEF next
  <2>3. /\ projector' \in [Projector -> ProjectorStates]
        /\ \A q \in Projector : projector'[q] = IF q = p THEN next ELSE projector[q]
    BY <2>1, <2>2 DEF OutboxInv, TypeOK
  <2>4. TypeOK'
    BY <1>2, <2>1, <2>3 DEF OutboxInv, TypeOK, Send, ledger, bounds
  <2>5. Guarded'
    BY <1>4, <2>1, <2>2, <2>3 DEF OutboxInv, Guarded, Send, ledger
  <2> QED
    BY <1>3, <2>4, <2>5 DEF OutboxInv
<1>6. CASE ~Acknowledged(Call(p))
  <2>1. Stops(p) /\ lock' = Free
    BY <1>6 DEF Send
  <2>2. /\ projector' \in [Projector -> ProjectorStates]
        /\ \A q \in Projector \ {p} : projector'[q] = projector[q]
        /\ projector'[p].pc = "off"
    BY <2>1, StopsTyped DEF OutboxInv, TypeOK
  <2>3. TypeOK'
    BY <1>2, <2>1, <2>2 DEF OutboxInv, TypeOK, Send, ledger, bounds
  <2>4. Guarded'
    BY <1>4, <2>2 DEF OutboxInv, Guarded, Send, ledger
  <2> QED
    BY <1>3, <2>3, <2>4 DEF OutboxInv
<1> QED
  BY <1>5, <1>6

LEMMA AcknowledgeKept == ASSUME OutboxInv, NEW p \in Projector, Acknowledge(p) PROVE OutboxInv'
<1> DEFINE rest == projector[p].rows \ {projector[p].row}
<1>1. /\ lock = p /\ projector[p].rows \subseteq recorded /\ projector[p].row \in attempted
      /\ projector[p] \in ProjectorStates
  BY DEF OutboxInv, Guarded, TypeOK, Acknowledge, At
<1>2. delivered' \subseteq attempted
  BY <1>1 DEF OutboxInv, TypeOK, Acknowledge
<1>3. AllSound'
  BY SoundKept DEF OutboxInv, Acknowledge
<1>4. CASE rest # {}
  <2> DEFINE next == [projector[p] EXCEPT !.pc = "attempting", !.rows = rest]
  <2>1. projector' = [projector EXCEPT ![p] = next] /\ UNCHANGED lock
    BY <1>4 DEF Acknowledge
  <2>2. next \in ProjectorStates /\ next.pc = "attempting" /\ next.rows \subseteq recorded
    BY <1>1 DEF ProjectorStates
  <2> HIDE DEF next
  <2>3. /\ projector' \in [Projector -> ProjectorStates]
        /\ \A q \in Projector : projector'[q] = IF q = p THEN next ELSE projector[q]
    BY <2>1, <2>2 DEF OutboxInv, TypeOK
  <2>4. TypeOK'
    BY <1>2, <2>1, <2>3 DEF OutboxInv, TypeOK, Acknowledge, bounds
  <2>5. Guarded'
    BY <1>1, <2>1, <2>2, <2>3 DEF OutboxInv, Guarded, Acknowledge
  <2> QED
    BY <1>3, <2>4, <2>5 DEF OutboxInv
<1>5. CASE rest = {}
  <2>1. lock' = Free
    BY <1>5 DEF Acknowledge
  <2>2. /\ projector' \in [Projector -> ProjectorStates]
        /\ \A q \in Projector \ {p} : projector'[q] = projector[q]
        /\ projector'[p].pc \in {"between", "off"}
    <3>1. CASE Stops(p)
      BY <3>1, StopsTyped DEF OutboxInv, TypeOK
    <3>2. CASE projector' = [projector EXCEPT ![p].pc = "between"]
      BY <1>1, <3>2 DEF OutboxInv, TypeOK, ProjectorStates
    <3> QED
      BY <1>5, <3>1, <3>2 DEF Acknowledge
  <2>3. TypeOK'
    BY <1>2, <2>1, <2>2 DEF OutboxInv, TypeOK, Acknowledge, bounds
  <2>4. Guarded'
    BY <1>1, <2>2 DEF OutboxInv, Guarded, Acknowledge
  <2> QED
    BY <1>3, <2>3, <2>4 DEF OutboxInv
<1> QED
  BY <1>4, <1>5

\* A script that ran, was lost or comes later has the same row in each case.
LEMMA LoseReplyKept == ASSUME OutboxInv, NEW p \in Projector, LoseReply(p) PROVE OutboxInv'
<1>1. Call(p) \in Calls /\ Sound(Call(p).row)
  BY CallTyped DEF LoseReply
<1>2. /\ redis' \in [Epoch -> Spaces] /\ Bounded(redis')
      /\ \A k \in Epoch :
            InStream(redis'[k].stream) \subseteq InStream(redis[k].stream) \cup {Call(p).row}
      /\ late' \subseteq late \cup {Call(p)}
  <2>1. CASE Run(Call(p)) /\ UNCHANGED late
    BY <1>1, <2>1, RunTyped DEF OutboxInv, TypeOK
  <2>2. CASE UNCHANGED redis /\ late' \in {late, late \cup {Call(p)}}
    BY <2>2 DEF OutboxInv, TypeOK, Bounded
  <2> QED
    BY <2>1, <2>2 DEF LoseReply
<1>3. AllSound'
  BY <1>1, <1>2, SoundSent DEF OutboxInv, LoseReply, ledger
<1>4. /\ projector' \in [Projector -> ProjectorStates]
      /\ \A q \in Projector \ {p} : projector'[q] = projector[q]
      /\ projector'[p].pc = "off" /\ lock = p /\ lock' = Free
  BY StopsTyped DEF OutboxInv, TypeOK, Guarded, LoseReply, At
<1>5. failures' \in 0..MaxFailures /\ late' \subseteq Calls
  BY <1>1, <1>2, Constants DEF OutboxInv, TypeOK, LoseReply
<1>6. TypeOK'
  BY <1>2, <1>4, <1>5 DEF OutboxInv, TypeOK, LoseReply, ledger
<1>7. Guarded'
  BY <1>4 DEF OutboxInv, Guarded, LoseReply, ledger
<1> QED
  BY <1>3, <1>6, <1>7 DEF OutboxInv

LEMMA CrashKept == ASSUME OutboxInv, NEW p \in Projector, Crash(p) PROVE OutboxInv'
<1>1. /\ projector' \in [Projector -> ProjectorStates]
      /\ \A q \in Projector \ {p} : projector'[q] = projector[q]
      /\ projector'[p].pc = "off" /\ lock' = IF lock = p THEN Free ELSE lock
  BY StopsTyped DEF OutboxInv, TypeOK, Crash
<1>2. failures' \in 0..MaxFailures
  BY Constants DEF OutboxInv, TypeOK, Crash
<1>3. TypeOK'
  BY <1>1, <1>2 DEF OutboxInv, TypeOK, Crash, ledger
<1>4. Guarded'
  BY <1>1 DEF OutboxInv, Guarded, Crash, ledger
<1> QED
  BY <1>3, <1>4, SoundKept DEF OutboxInv, Crash, ledger

LEMMA RunLateKept == ASSUME OutboxInv, NEW call \in late, RunLate(call) PROVE OutboxInv'
<1>1. call \in Calls /\ Sound(call.row) /\ Run(call)
  BY DEF OutboxInv, TypeOK, AllSound, RunLate
<1>2. /\ redis' \in [Epoch -> Spaces] /\ Bounded(redis')
      /\ \A k \in Epoch :
            InStream(redis'[k].stream) \subseteq InStream(redis[k].stream) \cup {call.row}
  BY <1>1, RunTyped DEF OutboxInv, TypeOK
<1>3. AllSound'
  BY <1>1, <1>2, SoundSent DEF OutboxInv, RunLate, ledger
<1>4. disturbed' \in BOOLEAN /\ late' \subseteq Calls
  BY DEF OutboxInv, TypeOK, RunLate
<1>5. TypeOK'
  BY <1>2, <1>4 DEF OutboxInv, TypeOK, RunLate, ledger, bounds
<1>6. Guarded'
  BY DEF OutboxInv, Guarded, RunLate, ledger
<1> QED
  BY <1>3, <1>5, <1>6 DEF OutboxInv

\* Expiries only take away.
LEMMA ExpireKept ==
    OutboxInv /\ (\E left \in SUBSET redis[Namespace(epoch)].receipts : Expire(left)) => OutboxInv'
<1> SUFFICES ASSUME OutboxInv, NEW left \in SUBSET redis[Namespace(epoch)].receipts, Expire(left)
             PROVE  OutboxInv'
  OBVIOUS
<1> DEFINE n == Namespace(epoch)
<1>1. n \in Epoch /\ redis \in [Epoch -> Spaces] /\ redis[n] \in Spaces
  BY DEF OutboxInv, TypeOK, Namespace
<1>2. PICK stream \in {redis[n].stream, <<>>} :
         /\ redis' = [redis EXCEPT ![n] = [stream |-> stream, receipts |-> left]]
         /\ disturbed' = (disturbed \/ stream # redis[n].stream)
  BY DEF Expire
<1> DEFINE space == [stream |-> stream, receipts |-> left]
<1>3. stream \in Seq(Rows) /\ Len(stream) <= MaxLen
      /\ InStream(stream) \subseteq InStream(redis[n].stream)
  <2>1. CASE stream = redis[n].stream
    BY <1>1, <2>1 DEF OutboxInv, TypeOK, Bounded, Spaces
  <2>2. CASE stream = <<>>
    BY <2>2, Constants DEF InStream
  <2> QED
    BY <1>2, <2>1, <2>2
<1>4. space \in Spaces /\ space.stream = stream
  BY <1>1, <1>3 DEF Spaces
<1> HIDE DEF n, space
<1>5. /\ redis' \in [Epoch -> Spaces]
      /\ \A k \in Epoch : redis'[k] = IF k = n THEN space ELSE redis[k]
  BY <1>1, <1>2, <1>4 DEF space
<1>6. Bounded(redis')
  BY <1>3, <1>4, <1>5 DEF OutboxInv, TypeOK, Bounded
<1>7. \A k \in Epoch : InStream(redis'[k].stream) \subseteq InStream(redis[k].stream)
  BY <1>3, <1>4, <1>5
<1>8. failures' \in 0..MaxFailures /\ disturbed' \in BOOLEAN
  BY <1>2, Constants DEF Expire, OutboxInv, TypeOK
<1>9. TypeOK'
  BY <1>5, <1>6, <1>8 DEF OutboxInv, TypeOK, Expire, ledger
<1>10. Guarded' /\ AllSound'
  BY <1>7 DEF OutboxInv, Guarded, AllSound, Sound, Expire, ledger
<1> QED
  BY <1>9, <1>10 DEF OutboxInv

\* What Redis comes back with was in it before, or is nothing.
LEMMA RestartKept == OutboxInv /\ Restart => OutboxInv'
<1> SUFFICES ASSUME OutboxInv, Restart PROVE OutboxInv'
  OBVIOUS
<1>1. /\ redis' \in [Epoch -> Spaces] /\ Bounded(redis')
      /\ \A k \in Epoch : InStream(redis'[k].stream) \subseteq InStream(snapshot[k].stream)
  <2>1. CASE redis' = snapshot
    BY <2>1 DEF OutboxInv, TypeOK
  <2>2. CASE redis' = [k \in Epoch |-> Empty]
    BY <2>2, EmptyTyped, Constants DEF Bounded
  <2> QED
    BY <2>1, <2>2 DEF Restart
<1>2. failures' \in 0..MaxFailures
  BY Constants DEF OutboxInv, TypeOK, Restart
<1>3. TypeOK'
  BY <1>1, <1>2 DEF OutboxInv, TypeOK, Restart, ledger
<1>4. Guarded' /\ AllSound'
  BY <1>1 DEF OutboxInv, Guarded, AllSound, Sound, Restart, ledger
<1> QED
  BY <1>3, <1>4 DEF OutboxInv

\* A reader changes nothing but itself.
LEMMA ReadKept == ASSUME OutboxInv, NEW r \in Reader, Read(r) PROVE OutboxInv'
<1>1. UNCHANGED <<ledger, lock, projector, redis, snapshot, late, disturbed, bounds>>
  BY DEF Read, LookUp, Fetch, Check
<1>2. Away \in ReaderStates /\ [Away EXCEPT !.pc = "refused"] \in ReaderStates
  <2>1. 1 \in Epoch /\ <<>> \in Seq(Rows)
    BY Constants DEF Epoch
  <2> QED
    BY <2>1 DEF Away, ReaderStates
<1>3. reader[r] \in ReaderStates /\ reader \in [Reader -> ReaderStates]
  BY DEF OutboxInv, TypeOK
<1>4. reader' \in [Reader -> ReaderStates]
  <2>1. CASE LookUp(r)
    <3>1. [reader[r] EXCEPT !.pc = "looking", !.epoch = epoch] \in ReaderStates
      BY <1>3 DEF ReaderStates, OutboxInv, TypeOK
    <3> QED
      BY <1>3, <2>1, <3>1 DEF LookUp
  <2>2. CASE Fetch(r)
    <3> DEFINE stream == redis[Namespace(reader[r].epoch)].stream
    <3>1. stream \in Seq(Rows)
      BY <1>3 DEF OutboxInv, TypeOK, Namespace, ReaderStates, Spaces
    <3>2. [reader[r] EXCEPT !.pc = "checking", !.entries = stream] \in ReaderStates
      BY <1>3, <3>1 DEF ReaderStates
    <3> QED
      BY <1>3, <2>2, <3>2 DEF Fetch
  <2>3. CASE Check(r)
    BY <1>2, <1>3, <2>3 DEF Check
  <2> QED
    BY <2>1, <2>2, <2>3 DEF Read
<1>5. TypeOK'
  BY <1>1, <1>4 DEF OutboxInv, TypeOK, ledger, bounds
<1>6. Guarded' /\ AllSound'
  BY <1>1 DEF OutboxInv, Guarded, AllSound, Sound, ledger
<1> QED
  BY <1>5, <1>6 DEF OutboxInv

LEMMA TakeSnapshotKept == OutboxInv /\ TakeSnapshot => OutboxInv'
BY DEF OutboxInv, TypeOK, Guarded, AllSound, Sound, TakeSnapshot, ledger, bounds

\* When the ledger is stuck or migrated, nothing else changes.
LEMMA StandingOnly ==
    ASSUME GetStuck \/ Migrate
    PROVE  /\ UNCHANGED <<epoch, recorded, attempted, delivered, last, lock, projector, redis>>
           /\ UNCHANGED <<snapshot, late, reader, disturbed, bounds>>
           /\ standing' \in {"stuck", "migrated"}
BY DEF GetStuck, Migrate

LEMMA StandingKept == OutboxInv /\ (GetStuck \/ Migrate) => OutboxInv'
BY StandingOnly DEF OutboxInv, TypeOK, Bounded, Guarded, AllSound, Sound, bounds

LEMMA StutterKept == OutboxInv /\ UNCHANGED vars => OutboxInv'
BY DEF OutboxInv, TypeOK, Bounded, Guarded, AllSound, Sound, vars, ledger, bounds

LEMMA NextOutbox == OutboxInv /\ [Next]_vars => OutboxInv'
<1> SUFFICES ASSUME OutboxInv, [Next]_vars PROVE OutboxInv'
  OBVIOUS
<1>1. ASSUME NEW p \in Projector, Reset(p) \/ Project(p) \/ LoseReply(p) \/ Crash(p)
      PROVE  OutboxInv'
  BY <1>1, ResetKept, OpenKept, AttemptKept, SendKept, AcknowledgeKept, LoseReplyKept, CrashKept
     DEF Project
<1> QED
  BY <1>1, RecordKept, ReplaceKept, StandingKept, RunLateKept, ExpireKept, TakeSnapshotKept, RestartKept,
     ReadKept, StutterKept DEF Next

LEMMA OutboxInvariant == Spec => []OutboxInv
<1> QED
  BY InitOutbox, NextOutbox, PTL DEF Spec

\* The types: rows of the ledger are attempted before they are delivered, and no
\* stream is ever longer than HOT_STREAM_MAXLEN.
THEOREM OutboxTyped == Spec => []TypeOK
<1>1. OutboxInv => TypeOK
  BY DEF OutboxInv
<1> QED
  BY <1>1, OutboxInvariant, PTL

\* An event without an attempt in the ledger is neither in Redis nor on its way
\* there, which is what retention concludes from `attempted_at' being NULL.
THEOREM NothingSentUnattempted == Spec => []SentWasAttempted
<1>1. OutboxInv => SentWasAttempted
  <2> SUFFICES ASSUME OutboxInv,
                      NEW row \in {c.row : c \in late} \cup InStream(redis[Namespace(epoch)].stream),
                      row.ledger = epoch
               PROVE  row.event \in attempted
    BY DEF SentWasAttempted
  <2>1. Namespace(epoch) \in Epoch
    BY DEF OutboxInv, TypeOK, Namespace
  <2>2. Sound(row)
    BY <2>1 DEF OutboxInv, AllSound
  <2> QED
    BY <2>2 DEF Sound
<1> QED
  BY <1>1, OutboxInvariant, PTL

-----------------------------------------------------------------------------
(* hot_events never refuses what the projectors have written.               *)

Events(stream) == {stream[i].event : i \in DOMAIN stream}
Once(stream) == \A i, j \in DOMAIN stream : stream[i].event = stream[j].event => i = j

\* A namespace holds the rows of its own ledger...
Own ==
    /\ \A k \in Epoch : \A row \in InStream(redis[k].stream) \cup InStream(snapshot[k].stream) :
           row.ledger = k
    /\ \A c \in late : c.row.ledger = c.namespace
\* ...each of them once.
EachOnce == \A k \in Epoch : Once(redis[k].stream) /\ Once(snapshot[k].stream)
\* That needs the two cases in which the script does not look into the stream: a
\* first attempt that its projector still has to send is nowhere in Redis...
FirstAttempts ==
    \A p \in Projector : projector[p].pc = "sending" /\ ~projector[p].retry =>
        /\ projector[p].row \notin Events(redis[epoch].stream) \cup Events(snapshot[epoch].stream)
        /\ \A c \in late : c.namespace = epoch => c.row.event # projector[p].row
\* ...and one that comes late finds the receipt of the retry that was faster.
Told(space, e) == \E r \in space.receipts : r.event = e
Firsts(c) == ~c.retry /\ c.row.event \in Events(redis[c.namespace].stream) =>
                 Told(redis[c.namespace], c.row.event)
LateFirsts == \A c \in late : Firsts(c)
\* What a hot_events has fetched.
Fetched ==
    \A r \in Reader :
        /\ reader[r].pc # "refused" /\ reader[r].epoch <= epoch
        /\ reader[r].pc = "checking" =>
               /\ Once(reader[r].entries)
               /\ \A row \in InStream(reader[r].entries) :
                      row.ledger = reader[r].epoch /\ (row.ledger = epoch => row.event \in recorded)
Streams == Own /\ EachOnce /\ FirstAttempts /\ LateFirsts
ReadInv == Streams /\ Fetched

LEMMA EventsAre ==
    ASSUME NEW stream
    PROVE  /\ \A e : e \in Events(stream) <=> Positions(stream, e) # {}
           /\ \A row \in InStream(stream) : row.event \in Events(stream)
BY DEF Events, Positions, InStream

\* A stream and one row more, cut to the bound.
Longer(stream, row) == Trimmed(Append(stream, row))
LEMMA LongerIs ==
    ASSUME NEW s \in Seq(Rows), Len(s) <= MaxLen, NEW row \in Rows
    PROVE  /\ Longer(s, row) \in Seq(Rows)
           /\ Len(s) < MaxLen => /\ Len(Longer(s, row)) = Len(s) + 1
                                 /\ Longer(s, row)[Len(s) + 1] = row
                                 /\ \A i \in 1..Len(s) : Longer(s, row)[i] = s[i]
           /\ Len(s) = MaxLen => /\ Len(Longer(s, row)) = MaxLen
                                 /\ Longer(s, row)[MaxLen] = row
                                 /\ \A i \in 1..MaxLen - 1 : Longer(s, row)[i] = s[i + 1]
<1> DEFINE t == Append(s, row)
<1>1. MaxLen \in Nat \ {0} /\ Len(s) \in Nat
  BY Constants
<1>2. /\ t \in Seq(Rows) /\ Len(t) = Len(s) + 1 /\ t[Len(s) + 1] = row
      /\ \A i \in 1..Len(s) : t[i] = s[i]
  OBVIOUS
<1> HIDE DEF t
<1>3. CASE Len(s) < MaxLen
  <2>1. Longer(s, row) = t
    BY <1>1, <1>2, <1>3 DEF Longer, Trimmed, t
  <2> QED
    BY <1>1, <1>2, <1>3, <2>1
<1>4. CASE Len(s) = MaxLen
  <2>1. Longer(s, row) = SubSeq(t, 2, MaxLen + 1)
    BY <1>1, <1>2, <1>4 DEF Longer, Trimmed, t
  <2>2. /\ SubSeq(t, 2, MaxLen + 1) \in Seq(Rows) /\ Len(SubSeq(t, 2, MaxLen + 1)) = MaxLen
        /\ \A i \in 1..MaxLen : SubSeq(t, 2, MaxLen + 1)[i] = t[i + 1]
    BY <1>1, <1>2, <1>4
  <2> QED
    BY <1>1, <1>2, <1>4, <2>1, <2>2
<1> QED
  BY <1>1, <1>3, <1>4

\* Each row but the last has come from its own place, or from the next one.
LEMMA LongerShape ==
    ASSUME NEW s \in Seq(Rows), Len(s) <= MaxLen, NEW row \in Rows
    PROVE  LET t == Longer(s, row)
               off == IF Len(s) < MaxLen THEN 0 ELSE 1
           IN  /\ Len(t) \in Nat \ {0} /\ t[Len(t)] = row
               /\ DOMAIN t = 1..Len(t) /\ DOMAIN s = 1..Len(s) /\ Len(s) = Len(t) - 1 + off
               /\ \A i \in 1..Len(t) - 1 : i + off \in 1..Len(s) /\ t[i] = s[i + off]
               /\ off = 0 => Len(s) < MaxLen
               /\ off = 1 => Len(s) = MaxLen /\ Len(t) = MaxLen
<1>1. MaxLen \in Nat \ {0} /\ Len(s) \in Nat
  BY Constants
<1> DEFINE t == Longer(s, row)
           n == Len(t)
           off == IF Len(s) < MaxLen THEN 0 ELSE 1
<1>2. CASE Len(s) < MaxLen
  BY <1>1, <1>2, LongerIs
<1>3. CASE Len(s) = MaxLen
  <2>1. /\ t \in Seq(Rows) /\ n = MaxLen /\ t[MaxLen] = row
        /\ \A i \in 1..MaxLen - 1 : t[i] = s[i + 1]
    BY <1>3, LongerIs
  <2>2. off = 1 /\ \A i \in 1..MaxLen - 1 : i + 1 \in 1..MaxLen
    BY <1>1, <1>3
  <2>3. /\ n \in Nat \ {0} /\ t[n] = row /\ DOMAIN t = 1..n
        /\ DOMAIN s = 1..Len(s) /\ Len(s) = n - 1 + off
        /\ \A i \in 1..n - 1 : i + off \in 1..Len(s) /\ t[i] = s[i + off]
    <3> HIDE DEF t, off
    <3> QED
      BY <1>1, <1>3, <2>1, <2>2
  <2> QED
    BY <1>3, <2>1, <2>2, <2>3
<1> QED
  BY <1>1, <1>2, <1>3

LEMMA LongerOnce ==
    ASSUME NEW s \in Seq(Rows), Len(s) <= MaxLen, NEW row \in Rows
    PROVE  /\ row.event \in Events(Longer(s, row))
           /\ Events(Longer(s, row)) \subseteq Events(s) \cup {row.event}
           /\ Once(s) /\ row.event \notin Events(s) => Once(Longer(s, row))
<1>1. MaxLen \in Nat \ {0} /\ Len(s) \in Nat
  BY Constants
<1> DEFINE t == Longer(s, row)
           n == Len(t)
           off == IF Len(s) < MaxLen THEN 0 ELSE 1
<1>2. /\ n \in Nat \ {0} /\ t[n] = row /\ DOMAIN t = 1..n /\ DOMAIN s = 1..Len(s)
      /\ \A i \in 1..n - 1 : i + off \in 1..Len(s) /\ t[i] = s[i + off]
  BY LongerShape
<1> HIDE DEF t, n, off
<1>3. n \in Nat \ {0} => \A i \in 1..n : i = n \/ i \in 1..n - 1
  OBVIOUS
<1>4. row.event \in Events(t)
  BY <1>2 DEF Events
<1>5. Events(t) \subseteq Events(s) \cup {row.event}
  <2> SUFFICES ASSUME NEW i \in 1..n PROVE t[i].event \in Events(s) \cup {row.event}
    BY <1>2 DEF Events
  <2> QED
    BY <1>2, <1>3 DEF Events
<1>6. ASSUME Once(s), row.event \notin Events(s) PROVE Once(t)
  <2>1. \A i \in 1..n - 1 : t[i].event # row.event
    BY <1>2, <1>6 DEF Events
  <2>2. ASSUME NEW i \in 1..n - 1, NEW j \in 1..n - 1, t[i].event = t[j].event PROVE i = j
    <3>1. i + off = j + off
      BY <1>2, <1>6, <2>2 DEF Once
    <3> QED
      BY <3>1 DEF off
  <2> QED
    BY <1>2, <1>3, <2>1, <2>2 DEF Once
<1> QED
  BY <1>4, <1>5, <1>6 DEF t, n

\* What a verdict says of the stream, and what becomes of the namespace.
LEMMA VerdictIs ==
    ASSUME NEW space \in Spaces, NEW row \in Rows, NEW retry \in BOOLEAN,
           ~retry /\ row.event \in Events(space.stream) => Told(space, row.event)
    PROVE  LET verdict == Verdict(space, row, retry)
               after == After(space, row, verdict)
           IN  \/ /\ verdict = "append" /\ row.event \notin Events(space.stream)
                  /\ after.stream = Longer(space.stream, row) /\ Told(after, row.event)
                  /\ \A e : Told(space, e) => Told(after, e)
               \/ /\ verdict = "found" /\ row.event \in Events(space.stream)
                  /\ after.stream = space.stream /\ \A e : Told(space, e) => Told(after, e)
               \/ verdict = "refuse" /\ after = space
<1> DEFINE receipt == {r \in space.receipts : r.event = row.event}
           found == Positions(space.stream, row.event)
           verdict == Verdict(space, row, retry)
           after == After(space, row, verdict)
<1>1. verdict \in {"append", "found", "refuse"}
  BY DEF Verdict
<1>2. CASE verdict = "append"
  <2>1. row.event \notin Events(space.stream)
    <3>1. (receipt = {} /\ ~retry) \/ found = {}
      BY <1>2 DEF Verdict
    <3>2. receipt = {} => ~Told(space, row.event)
      BY DEF Told
    <3> QED
      BY <3>1, <3>2, EventsAre
  <2>2. after = [stream |-> Longer(space.stream, row),
                 receipts |-> {r \in space.receipts : r.event # row.event} \cup {row}]
    BY <1>2 DEF After, Longer
  <2> QED
    BY <1>2, <2>1, <2>2 DEF Told
<1>3. CASE verdict = "found"
  <2>1. found # {}
    BY <1>3 DEF Verdict
  <2>2. after = [space EXCEPT !.receipts = @ \cup {row}]
    BY <1>3 DEF After
  <2>3. after.stream = space.stream /\ after.receipts = space.receipts \cup {row}
    BY <2>2 DEF Spaces
  <2> QED
    BY <1>3, <2>1, <2>3, EventsAre DEF Told
<1>4. CASE verdict = "refuse"
  BY <1>4 DEF After
<1> QED
  BY <1>1, <1>2, <1>3, <1>4

\* A script adds its row to its namespace at most, and there once.
LEMMA RunKeeps ==
    ASSUME TypeOK, Own, EachOnce, NEW call \in Calls, Run(call), Firsts(call),
           call.row.ledger = call.namespace
    PROVE  /\ \A k \in Epoch :
                  /\ Once(redis'[k].stream) /\ \A row \in InStream(redis'[k].stream) : row.ledger = k
                  /\ \A e \in Events(redis'[k].stream) :
                         \/ e \in Events(redis[k].stream)
                         \/ k = call.namespace /\ e = call.row.event
                  /\ \A e : Told(redis[k], e) => Told(redis'[k], e)
           /\ call.row.event \in Events(redis'[call.namespace].stream) =>
                  \/ call.row.event \in Events(redis[call.namespace].stream)
                  \/ Told(redis'[call.namespace], call.row.event)
<1> DEFINE n == call.namespace
           verdict == Verdict(redis[n], call.row, call.retry)
           after == After(redis[n], call.row, verdict)
<1>1. /\ n \in Epoch /\ call.row \in Rows /\ call.retry \in BOOLEAN
      /\ redis \in [Epoch -> Spaces] /\ redis[n] \in Spaces
      /\ Len(redis[n].stream) <= MaxLen /\ redis[n].stream \in Seq(Rows)
  BY DEF Calls, TypeOK, Bounded, Spaces
<1>2. redis' = [redis EXCEPT ![n] = after]
  BY DEF Run
<1> HIDE DEF n, verdict
<1>3. InStream(after.stream) \subseteq InStream(redis[n].stream) \cup {call.row}
  BY <1>1, AfterTyped
<1> USE DEF verdict
<1>4. /\ Once(after.stream)
      /\ Events(after.stream) \subseteq Events(redis[n].stream) \cup {call.row.event}
      /\ \A e : Told(redis[n], e) => Told(after, e)
      /\ call.row.event \in Events(redis[n].stream) \/ Told(after, call.row.event)
         \/ call.row.event \notin Events(after.stream)
  <2>1. Once(redis[n].stream)
    BY <1>1 DEF EachOnce
  <2> HIDE DEF n, after
  <2>2. \/ /\ call.row.event \notin Events(redis[n].stream)
           /\ after.stream = Longer(redis[n].stream, call.row) /\ Told(after, call.row.event)
           /\ \A e : Told(redis[n], e) => Told(after, e)
        \/ /\ after.stream = redis[n].stream /\ \A e : Told(redis[n], e) => Told(after, e)
        \/ after = redis[n]
    BY <1>1, VerdictIs DEF Firsts, n, after
  <2> QED
    BY <1>1, <2>1, <2>2, LongerOnce
<1> HIDE DEF n, after
<1>5. \A k \in Epoch : redis'[k] = IF k = n THEN after ELSE redis[k]
  BY <1>1, <1>2
<1>6. \A row \in InStream(after.stream) : row.ledger = n
  BY <1>1, <1>3 DEF Own, n
<1>7. ASSUME NEW k \in Epoch
      PROVE  /\ Once(redis'[k].stream) /\ \A row \in InStream(redis'[k].stream) : row.ledger = k
             /\ \A e \in Events(redis'[k].stream) :
                    e \in Events(redis[k].stream) \/ (k = n /\ e = call.row.event)
             /\ \A e : Told(redis[k], e) => Told(redis'[k], e)
  <2>1. CASE k = n
    BY <1>4, <1>5, <1>6, <2>1
  <2>2. CASE k # n
    BY <1>5, <2>2 DEF Own, EachOnce
  <2> QED
    BY <2>1, <2>2
<1> QED
  BY <1>1, <1>4, <1>5, <1>7 DEF n

\* A step that runs a script, or leaves it for later, or loses it.
LEMMA ScriptStep ==
    ASSUME OutboxInv, Streams, NEW call \in Calls, Run(call) \/ UNCHANGED redis,
           Firsts(call), call.row.ledger = call.namespace,
           UNCHANGED <<snapshot, epoch>>, late' \subseteq late \cup {call},
           \A p \in Projector : projector'[p].pc = "sending" /\ ~projector'[p].retry =>
               /\ projector'[p] = projector[p]
               /\ call.namespace = epoch => call.row.event # projector[p].row
    PROVE  Streams'
<1>1. /\ \A k \in Epoch :
             /\ Once(redis'[k].stream) /\ \A row \in InStream(redis'[k].stream) : row.ledger = k
             /\ \A e \in Events(redis'[k].stream) :
                    \/ e \in Events(redis[k].stream)
                    \/ k = call.namespace /\ e = call.row.event
             /\ \A e : Told(redis[k], e) => Told(redis'[k], e)
      /\ call.row.event \in Events(redis'[call.namespace].stream) =>
             \/ call.row.event \in Events(redis[call.namespace].stream)
             \/ Told(redis'[call.namespace], call.row.event)
  <2>1. CASE Run(call)
    BY <2>1, RunKeeps DEF OutboxInv, Streams
  <2>2. CASE UNCHANGED redis
    BY <2>2 DEF Streams, Own, EachOnce
  <2> QED
    BY <2>1, <2>2
<1>2. Own' /\ EachOnce'
  BY <1>1 DEF Streams, Own, EachOnce
<1>3. FirstAttempts'
  <2>1. epoch \in Epoch
    BY DEF OutboxInv, TypeOK
  <2>2. ASSUME NEW p \in Projector, projector'[p].pc = "sending", ~projector'[p].retry
        PROVE  /\ projector'[p].row \notin Events(redis'[epoch].stream)
               /\ projector'[p].row \notin Events(snapshot[epoch].stream)
               /\ \A c \in late' : c.namespace = epoch => c.row.event # projector'[p].row
    BY <1>1, <2>1, <2>2 DEF Streams, FirstAttempts
  <2> QED
    BY <2>2 DEF FirstAttempts
<1>4. ASSUME NEW c \in late' PROVE Firsts(c)'
  <2>1. c.namespace \in Epoch /\ Firsts(c)
    BY DEF OutboxInv, TypeOK, Calls, Streams, LateFirsts
  <2> QED
    BY <1>1, <2>1 DEF Firsts
<1> QED
  BY <1>2, <1>3, <1>4 DEF Streams, LateFirsts

\* A step that leaves Redis alone, and begins no attempt.
LEMMA QuietStep ==
    ASSUME Streams, UNCHANGED <<redis, snapshot, late, epoch>>,
           \A p \in Projector : projector'[p].pc = "sending" => projector'[p] = projector[p]
    PROVE  Streams'
BY DEF Streams, Own, EachOnce, FirstAttempts, LateFirsts, Firsts

\* Only the projector that holds the lock sends.
LEMMA Sender ==
    ASSUME OutboxInv, NEW p \in Projector, projector[p].pc \in {"attempting", "sending", "sent"},
           NEW q \in Projector, projector[q].pc \in {"attempting", "sending", "sent"}
    PROVE  p = q
BY DEF OutboxInv, Guarded

LEMMA CallFirst ==
    ASSUME OutboxInv, Streams, NEW p \in Projector, At(p, "sending")
    PROVE  /\ Call(p) \in Calls /\ Firsts(Call(p)) /\ Call(p).row.ledger = Call(p).namespace
           /\ Call(p).namespace = epoch /\ Call(p).row.event = projector[p].row
           /\ Call(p).retry = projector[p].retry
BY CallTyped DEF Streams, FirstAttempts, At, Call, Metadata, Namespace, Firsts

LEMMA AttemptFirst == ASSUME OutboxInv, Streams, NEW p \in Projector, Attempt(p) PROVE Streams'
<1>1. PICK e \in projector[p].rows : Takes(p, e) /\ attempted' = attempted \cup {e}
  BY DEF Attempt
<1>2. /\ projector[p] \in ProjectorStates /\ projector[p].pc = "attempting" /\ epoch \in Epoch
      /\ UNCHANGED <<redis, snapshot, late, epoch>>
  BY <1>1 DEF OutboxInv, TypeOK, Takes, At
<1>3. /\ projector'[p].row = e /\ (~projector'[p].retry => e \notin attempted)
      /\ \A q \in Projector \ {p} : projector'[q] = projector[q]
  <2>1. projector' = [projector EXCEPT ![p] =
            [@ EXCEPT !.pc = "sending", !.row = e, !.retry = (e \in attempted)]]
    BY <1>1 DEF Takes
  <2> QED
    BY <1>2, <2>1 DEF OutboxInv, TypeOK, ProjectorStates
<1>4. ASSUME e \notin attempted
      PROVE  /\ e \notin Events(redis[epoch].stream) \cup Events(snapshot[epoch].stream)
             /\ \A c \in late : c.namespace = epoch => c.row.event # e
  BY <1>2, <1>4 DEF OutboxInv, AllSound, Sound, Streams, Own, Events, InStream
<1>5. \A q \in Projector \ {p} : projector[q].pc # "sending"
  BY <1>2, Sender
<1>6. FirstAttempts'
  BY <1>2, <1>3, <1>4, <1>5 DEF FirstAttempts
<1> QED
  BY <1>2, <1>6 DEF Streams, Own, EachOnce, LateFirsts, Firsts

LEMMA SendFirstOnce == ASSUME OutboxInv, Streams, NEW p \in Projector, Send(p) PROVE Streams'
<1>1. At(p, "sending") /\ Run(Call(p)) /\ UNCHANGED <<snapshot, epoch, late>>
  BY DEF Send, ledger
<1>2. projector[p].pc = "sending" /\ \A q \in Projector \ {p} : projector[q].pc # "sending"
  BY <1>1, Sender DEF At
<1>3. projector'[p].pc # "sending" /\ \A q \in Projector \ {p} : projector'[q] = projector[q]
  BY StopsTyped DEF Send, OutboxInv, TypeOK, ProjectorStates
<1> QED
  BY <1>1, <1>2, <1>3, CallFirst, ScriptStep

LEMMA LoseReplyOnce == ASSUME OutboxInv, Streams, NEW p \in Projector, LoseReply(p) PROVE Streams'
<1>1. /\ At(p, "sending")
      /\ Run(Call(p)) \/ UNCHANGED redis
      /\ UNCHANGED <<snapshot, epoch>> /\ late' \subseteq late \cup {Call(p)}
  BY DEF LoseReply, ledger
<1>2. projector[p].pc = "sending" /\ \A q \in Projector \ {p} : projector[q].pc # "sending"
  BY <1>1, Sender DEF At
<1>3. projector'[p].pc # "sending" /\ \A q \in Projector \ {p} : projector'[q] = projector[q]
  BY StopsTyped DEF LoseReply, OutboxInv, TypeOK
<1> QED
  BY <1>1, <1>2, <1>3, CallFirst, ScriptStep

LEMMA RunLateOnce == ASSUME OutboxInv, Streams, NEW call \in late, RunLate(call) PROVE Streams'
<1>1. /\ call \in Calls /\ Firsts(call) /\ call.row.ledger = call.namespace
      /\ Run(call) /\ UNCHANGED <<snapshot, epoch, projector>> /\ late' \subseteq late \cup {call}
  BY DEF OutboxInv, TypeOK, Streams, LateFirsts, Own, RunLate, ledger
<1>2. \A p \in Projector : projector[p].pc = "sending" /\ ~projector[p].retry =>
          (call.namespace = epoch => call.row.event # projector[p].row)
  BY DEF Streams, FirstAttempts
<1> QED
  BY <1>1, <1>2, ScriptStep

LEMMA ExpireOnce ==
    ASSUME OutboxInv, Streams, NEW left \in SUBSET redis[Namespace(epoch)].receipts, Expire(left)
    PROVE  Streams'
<1>1. epoch \in Epoch /\ redis \in [Epoch -> Spaces] /\ Namespace(epoch) = epoch
  BY DEF OutboxInv, TypeOK, Namespace
<1>2. PICK stream \in {redis[epoch].stream, <<>>} :
         redis' = [redis EXCEPT ![epoch] = [stream |-> stream, receipts |-> left]]
  BY <1>1 DEF Expire
<1>3. UNCHANGED <<snapshot, epoch, late, projector>> /\ late = {}
  BY DEF Expire, ledger
<1>4. \A k \in Epoch : redis'[k].stream \in {redis[k].stream, <<>>}
  BY <1>1, <1>2
<1>5. Once(<<>>) /\ InStream(<<>>) = {} /\ Events(<<>>) = {}
  BY DEF Once, InStream, Events
<1>6. Own' /\ EachOnce'
  BY <1>3, <1>4, <1>5 DEF Streams, Own, EachOnce
<1>7. FirstAttempts'
  BY <1>1, <1>3, <1>4, <1>5 DEF Streams, FirstAttempts
<1> QED
  BY <1>3, <1>6, <1>7 DEF Streams, LateFirsts

LEMMA RestartOnce == ASSUME OutboxInv, Streams, Restart PROVE Streams'
<1>1. UNCHANGED <<epoch, projector>> /\ late' = {} /\ snapshot' = redis' /\ epoch \in Epoch
  BY DEF Restart, ledger, OutboxInv, TypeOK
<1>2. Once(<<>>) /\ InStream(<<>>) = {} /\ Events(<<>>) = {}
  BY DEF Once, InStream, Events
<1>3. \A k \in Epoch : redis'[k].stream \in {snapshot[k].stream, <<>>}
  BY DEF Restart, Empty
<1>4. Own' /\ EachOnce'
  BY <1>1, <1>2, <1>3 DEF Streams, Own, EachOnce
<1>5. FirstAttempts'
  BY <1>1, <1>2, <1>3 DEF Streams, FirstAttempts
<1> QED
  BY <1>1, <1>4, <1>5 DEF Streams, LateFirsts

LEMMA TakeSnapshotOnce == ASSUME OutboxInv, Streams, TakeSnapshot PROVE Streams'
BY DEF TakeSnapshot, ledger, Streams, Own, EachOnce, FirstAttempts, LateFirsts, Firsts,
       OutboxInv, TypeOK

LEMMA ReplaceOnce == ASSUME OutboxInv, Streams, Replace PROVE Streams'
<1>1. UNCHANGED <<redis, snapshot, late, projector>> /\ lock = Free
  BY DEF Replace
<1>2. \A p \in Projector : projector[p].pc # "sending"
  BY <1>1, Constants DEF OutboxInv, Guarded
<1> QED
  BY <1>1, <1>2 DEF Streams, Own, EachOnce, FirstAttempts, LateFirsts, Firsts

\* What a hot_events has fetched stays good until the ledger is another one.
LEMMA FetchedKept ==
    ASSUME OutboxInv, Fetched, UNCHANGED reader,
           (epoch' = epoch /\ recorded \subseteq recorded') \/ epoch' = epoch + 1
    PROVE  Fetched'
<1>1. epoch \in Nat /\ \A r \in Reader : reader[r].epoch \in Nat
  BY Constants DEF OutboxInv, TypeOK, Epoch, ReaderStates
<1> QED
  BY <1>1 DEF Fetched

LEMMA ReadFetched == ASSUME OutboxInv, Streams, Fetched, NEW r \in Reader, Read(r) PROVE Fetched'
<1>1. UNCHANGED <<epoch, recorded>> /\ epoch \in Epoch /\ reader \in [Reader -> ReaderStates]
  BY DEF Read, LookUp, Fetch, Check, ledger, OutboxInv, TypeOK
<1>2. reader[r] \in ReaderStates
  BY <1>1
<1>3. /\ \A q \in Reader \ {r} : reader'[q] = reader[q]
      /\ reader'[r].pc # "refused" /\ reader'[r].epoch <= epoch
      /\ reader'[r].pc = "checking" =>
             /\ Once(reader'[r].entries)
             /\ \A row \in InStream(reader'[r].entries) :
                    row.ledger = reader'[r].epoch /\ (row.ledger = epoch => row.event \in recorded)
  <2>1. CASE LookUp(r)
    <3>1. reader' = [reader EXCEPT ![r] = [@ EXCEPT !.pc = "looking", !.epoch = epoch]]
      BY <2>1 DEF LookUp
    <3>2. reader'[r].pc = "looking" /\ reader'[r].epoch = epoch /\ epoch <= epoch
      BY <1>1, <1>2, <3>1, Constants DEF ReaderStates, Epoch
    <3> QED
      BY <1>1, <3>1, <3>2
  <2>2. CASE Fetch(r)
    <3> DEFINE stream == redis[reader[r].epoch].stream
    <3>1. reader' = [reader EXCEPT ![r] = [@ EXCEPT !.pc = "checking", !.entries = stream]]
      BY <2>2 DEF Fetch, Namespace
    <3>2. /\ reader'[r].pc = "checking" /\ reader'[r].epoch = reader[r].epoch
          /\ reader'[r].entries = stream
      BY <1>1, <1>2, <3>1 DEF ReaderStates
    <3>3. reader[r].epoch \in Epoch /\ reader[r].epoch <= epoch
      BY <1>2 DEF Fetched, ReaderStates
    <3>4. Once(stream) /\ \A row \in InStream(stream) :
              row.ledger = reader[r].epoch /\ (row.ledger = epoch => row.event \in recorded)
      BY <3>3 DEF Streams, Own, EachOnce, OutboxInv, AllSound, Sound, TypeOK
    <3> HIDE DEF stream
    <3> QED
      BY <1>1, <3>1, <3>2, <3>3, <3>4
  <2>3. CASE Check(r)
    <3> DEFINE entries == reader[r].entries
    <3>1. /\ reader[r].pc = "checking"
          /\ reader' = [reader EXCEPT ![r] =
                 IF standing # "sound" \/ @.epoch # epoch \/ Matches(entries)
                 THEN Away ELSE [Away EXCEPT !.pc = "refused"]]
      BY <2>3 DEF Check
    <3>2. ASSUME reader[r].epoch = epoch PROVE Matches(entries)
      <4>1. Once(entries) /\ entries \in Seq(Rows)
        BY <1>2, <3>1 DEF Fetched, ReaderStates
      <4>2. ASSUME NEW i \in DOMAIN entries
            PROVE  /\ entries[i].event \in recorded /\ entries[i] = Metadata(entries[i].event)
                   /\ Positions(entries, entries[i].event) = {i}
        <5>1. entries[i] \in Rows /\ entries[i] \in InStream(entries)
          BY <4>1 DEF InStream
        <5>2. entries[i].ledger = epoch /\ entries[i].event \in recorded
          BY <3>1, <3>2, <5>1 DEF Fetched
        <5>3. entries[i] = Metadata(entries[i].event)
          BY <5>1, <5>2 DEF Rows, Metadata
        <5>4. Positions(entries, entries[i].event) = {i}
          BY <4>1 DEF Positions, Once
        <5> QED
          BY <5>2, <5>3, <5>4
      <4> QED
        BY <4>2 DEF Matches
    <3>3. reader'[r] = Away /\ \A q \in Reader \ {r} : reader'[q] = reader[q]
      BY <1>1, <3>1, <3>2
    <3>4. Away.pc = "away" /\ Away.epoch <= epoch
      BY <1>1, Constants DEF Away, Epoch
    <3> QED
      BY <3>3, <3>4
  <2> QED
    BY <2>1, <2>2, <2>3 DEF Read
<1> QED
  BY <1>1, <1>3 DEF Fetched

\* The steps that send nothing, and do not touch Redis.
LEMMA QuietSteps ==
    ASSUME OutboxInv, Streams, NEW p \in Projector,
           Reset(p) \/ Open(p) \/ Acknowledge(p) \/ Crash(p)
    PROVE  Streams'
<1>1. UNCHANGED <<redis, snapshot, late, epoch>>
  BY DEF Reset, Open, Acknowledge, Crash, ledger
<1>2. /\ \A q \in Projector \ {p} : projector'[q] = projector[q]
      /\ projector'[p].pc # "sending"
  <2>1. projector \in [Projector -> ProjectorStates] /\ projector[p] \in ProjectorStates
    BY DEF OutboxInv, TypeOK
  <2>2. CASE Stops(p)
    BY <2>1, <2>2, StopsTyped
  <2>3. CASE \E rows : projector' = [projector EXCEPT ![p] =
                           [@ EXCEPT !.pc = "attempting", !.rows = rows]]
    BY <2>1, <2>3 DEF ProjectorStates
  <2>4. CASE \/ projector' = [projector EXCEPT ![p] = [@ EXCEPT !.pc = "between", !.rebuild = TRUE]]
             \/ projector' = [projector EXCEPT ![p].pc = "between"]
    BY <2>1, <2>4 DEF ProjectorStates
  <2> QED
    BY <2>2, <2>3, <2>4 DEF Reset, Open, Acknowledge, Crash
<1> QED
  BY <1>1, <1>2, QuietStep

LEMMA InitReadable == Init => ReadInv
<1> SUFFICES ASSUME Init PROVE ReadInv
  OBVIOUS
<1>1. Once(<<>>) /\ InStream(<<>>) = {} /\ Events(<<>>) = {}
  BY DEF Once, InStream, Events
<1>2. /\ \A k \in Epoch : redis[k].stream = <<>> /\ snapshot[k].stream = <<>>
      /\ late = {} /\ \A p \in Projector : projector[p].pc = "off"
      /\ \A r \in Reader : reader[r].pc = "away" /\ reader[r].epoch = 1
      /\ epoch = 1
  BY DEF Init, Empty, Away
<1> QED
  BY <1>1, <1>2 DEF ReadInv, Streams, Own, EachOnce, FirstAttempts, LateFirsts, Fetched

LEMMA NextReadable == OutboxInv /\ ReadInv /\ [Next]_vars => ReadInv'
<1> SUFFICES ASSUME OutboxInv, Streams, Fetched, [Next]_vars PROVE ReadInv'
  BY DEF ReadInv
<1>1. CASE UNCHANGED vars
  <2>1. UNCHANGED <<redis, snapshot, late, epoch, recorded, projector, reader>>
    BY <1>1 DEF vars, ledger
  <2> QED
    BY <2>1, QuietStep, FetchedKept DEF ReadInv
<1>2. CASE Record
  <2>1. /\ UNCHANGED <<redis, snapshot, late, epoch, projector, reader>>
        /\ recorded \subseteq recorded'
    BY <1>2 DEF Record
  <2> QED
    BY <2>1, QuietStep, FetchedKept DEF ReadInv
<1>3. CASE Replace
  <2>1. UNCHANGED reader /\ epoch' = epoch + 1
    BY <1>3 DEF Replace
  <2> QED
    BY <1>3, <2>1, ReplaceOnce, FetchedKept DEF ReadInv
<1>4. ASSUME NEW p \in Projector, Reset(p) \/ Project(p) \/ LoseReply(p) \/ Crash(p) PROVE ReadInv'
  <2>1. UNCHANGED <<epoch, recorded, reader>>
    BY <1>4 DEF Reset, Project, Open, Attempt, Takes, Send, Acknowledge, LoseReply, Crash, ledger
  <2>2. Streams'
    BY <1>4, QuietSteps, AttemptFirst, SendFirstOnce, LoseReplyOnce DEF Project
  <2> QED
    BY <2>1, <2>2, FetchedKept DEF ReadInv
<1>5. ASSUME NEW call \in late, RunLate(call) PROVE ReadInv'
  <2>1. UNCHANGED <<epoch, recorded, reader>>
    BY <1>5 DEF RunLate, ledger
  <2> QED
    BY <1>5, <2>1, RunLateOnce, FetchedKept DEF ReadInv
<1>6. ASSUME NEW left \in SUBSET redis[Namespace(epoch)].receipts, Expire(left) PROVE ReadInv'
  <2>1. UNCHANGED <<epoch, recorded, reader>>
    BY <1>6 DEF Expire, ledger
  <2> QED
    BY <1>6, <2>1, ExpireOnce, FetchedKept DEF ReadInv
<1>7. CASE TakeSnapshot \/ Restart
  <2>1. UNCHANGED <<epoch, recorded, reader>>
    BY <1>7 DEF TakeSnapshot, Restart, ledger
  <2> QED
    BY <1>7, <2>1, TakeSnapshotOnce, RestartOnce, FetchedKept DEF ReadInv
<1>8. ASSUME NEW r \in Reader, Read(r) PROVE ReadInv'
  <2>1. UNCHANGED <<redis, snapshot, late, epoch, projector>>
    BY <1>8 DEF Read, LookUp, Fetch, Check, ledger
  <2> QED
    BY <1>8, <2>1, QuietStep, ReadFetched DEF ReadInv
<1>9. CASE GetStuck \/ Migrate
  BY <1>9, StandingOnly, QuietStep, FetchedKept DEF ReadInv
<1> QED
  BY <1>1, <1>2, <1>3, <1>4, <1>5, <1>6, <1>7, <1>8, <1>9 DEF Next

LEMMA ReadInvariant == Spec => [](OutboxInv /\ ReadInv)
BY InitOutbox, InitReadable, NextOutbox, NextReadable, PTL DEF Spec

\* hot_events never finds its own projection poisoned: whatever crashed, came
\* late, was lost or expired, the entries it fetched name no event twice, none
\* that the ledger does not hold, and none that differs from the ledger's, unless
\* the ledger was replaced meanwhile (which it reports as such).
THEOREM ReadsAreNeverPoisoned == Spec => []HotReadable
<1>1. ReadInv => HotReadable
  BY DEF ReadInv, Fetched, HotReadable
<1> QED
  BY <1>1, ReadInvariant, PTL

-----------------------------------------------------------------------------
(* When nothing is pending, the stream holds the newest events in order.    *)

\* Rows are delivered in their order, and a batch is what comes first of them...
Batches ==
    /\ \A d \in delivered, f \in Pending : d < f
    /\ \A p \in Projector : projector[p].pc \in {"attempting", "sending", "sent"} =>
           /\ projector[p].rows \subseteq Pending
           /\ \A e \in projector[p].rows, f \in Pending : f < e => f \in projector[p].rows
           /\ projector[p].pc # "attempting" =>
                  /\ projector[p].row \in projector[p].rows
                  /\ \A f \in Pending : projector[p].row <= f
\* ...so each entry of the stream is followed by the next event of the ledger, or,
\* once, by the first: a rebuild begins again after what an earlier pass has left.
Least(e) == \A f \in recorded : e <= f
Final(s) == s[Len(s)].event
Wraps(s, i, j) == \E k \in i + 1..j : Least(s[k].event)
Climbs(s, i, j) ==
    /\ s[i].event < s[j].event
    /\ \A f \in recorded : s[i].event < f /\ f < s[j].event => \E l \in i..j : s[l].event = f
InOrder(s) == \A i, j \in DOMAIN s : i < j => Wraps(s, i, j) \/ Climbs(s, i, j)
\* Nothing is missing before the first entry unless the stream is full...
FromLeast(s) == s = <<>> \/ Len(s) = MaxLen \/ Least(s[1].event)
\* ...and where it begins again, something is missing behind the last.
Beyond(s) == Wraps(s, 1, Len(s)) => \E f \in recorded : Final(s) < f /\ f < s[1].event
\* The delivered rows do not lead beyond the stream, and their last is there,
\* unless it has just been pushed out by the row that comes next.
Upto(s) ==
    /\ delivered # {} => s # <<>>
    /\ \A d \in delivered : d <= Final(s)
    /\ delivered = {} \/ \E m \in delivered :
           /\ \A d \in delivered : d <= m
           /\ m \in Events(s) \/ (Final(s) \in Pending /\ \A f \in Pending : Final(s) <= f)
Sequel(s) == InOrder(s) /\ FromLeast(s) /\ Beyond(s) /\ Upto(s)
SentIn(s) ==
    \A p \in Projector : projector[p].pc = "sent" =>
        s # <<>> /\ projector[p].row \in Events(s) /\ projector[p].row <= Final(s)
StreamInv == ~disturbed => Sequel(redis[epoch].stream) /\ SentIn(redis[epoch].stream)

LEMMA Numbers ==
    ASSUME OutboxInv
    PROVE  /\ recorded \subseteq Nat /\ IsFiniteSet(recorded)
           /\ delivered \subseteq recorded /\ attempted \subseteq recorded
           /\ Pending \subseteq recorded
           /\ \A f \in recorded : f \in delivered \/ f \in Pending
<1>1. last \in Nat /\ recorded \subseteq 1..last /\ attempted \subseteq recorded
      /\ delivered \subseteq attempted
  BY Constants DEF OutboxInv, TypeOK
<1>2. IsFiniteSet(1..last)
  BY <1>1, FS_Interval
<1>3. IsFiniteSet(recorded)
  BY <1>1, <1>2, FS_Subset
<1> QED
  BY <1>1, <1>3 DEF Pending

\* A stream of this ledger.
LEMMA StreamTyped ==
    ASSUME OutboxInv, Streams
    PROVE  LET s == redis[epoch].stream
           IN  s \in Seq(Rows) /\ Len(s) <= MaxLen /\ Once(s) /\ Events(s) \subseteq recorded
<1>1. epoch \in Epoch /\ redis[epoch] \in Spaces /\ Len(redis[epoch].stream) <= MaxLen
  BY DEF OutboxInv, TypeOK, Bounded
<1>2. \A row \in InStream(redis[epoch].stream) : row.event \in recorded
  BY <1>1, Numbers DEF Streams, Own, OutboxInv, AllSound, Sound
<1> QED
  BY <1>1, <1>2 DEF Streams, EachOnce, Spaces, Events, InStream

\* Two entries cannot both hold the first event.
LEMMA LeastOnce ==
    ASSUME OutboxInv, NEW s, Once(s), Events(s) \subseteq recorded,
           NEW i \in DOMAIN s, NEW j \in DOMAIN s, Least(s[i].event), Least(s[j].event)
    PROVE  i = j
<1>1. s[i].event \in recorded /\ s[j].event \in recorded
  BY DEF Events
<1>2. s[i].event <= s[j].event /\ s[j].event <= s[i].event
  BY <1>1 DEF Least
<1>3. s[i].event = s[j].event
  BY <1>1, <1>2, Numbers
<1> QED
  BY <1>3 DEF Once

\* The row that comes next is the successor of the last entry, or the first row.
LEMMA Follows ==
    ASSUME OutboxInv, Batches, NEW s \in Seq(Rows), s # <<>>, Once(s),
           Events(s) \subseteq recorded, InOrder(s), Upto(s),
           NEW e \in Pending, \A f \in Pending : e <= f, e \notin Events(s)
    PROVE  Least(e) \/ (Final(s) < e /\ \A f \in recorded : f <= Final(s) \/ e <= f)
<1> DEFINE n == Len(s)
<1>1. n \in Nat \ {0} /\ DOMAIN s = 1..n
  OBVIOUS
<1>2. /\ \A i \in 1..n : s[i].event \in recorded /\ s[i].event \in Nat /\ s[i].event # e
      /\ Final(s) = s[n].event /\ Final(s) \in recorded /\ Final(s) \in Nat /\ Final(s) # e
      /\ e \in recorded /\ e \in Nat
  BY <1>1, Numbers DEF Events, Final
<1>3. CASE delivered = {}
  BY <1>3, Numbers DEF Least
<1>4. ASSUME NEW m \in delivered, \A d \in delivered : d <= m,
             m \in Events(s) \/ (Final(s) \in Pending /\ \A f \in Pending : Final(s) <= f)
      PROVE  Final(s) < e /\ \A f \in recorded : f <= Final(s) \/ e <= f
  <2>1. m < e /\ m <= Final(s) /\ m \in Nat
    BY Numbers DEF Batches, Upto
  <2>2. CASE Final(s) \in delivered
    <3>1. Final(s) = m
      BY <1>2, <1>4, <2>1, <2>2
    <3> QED
      BY <1>4, <2>1, <3>1, Numbers
  <2>3. CASE Final(s) \in Pending
    <3>1. e < Final(s) /\ m \in Events(s)
      BY <1>2, <1>4, <2>3
    <3>2. PICK j \in 1..n : s[j].event = m
      BY <1>1, <3>1 DEF Events
    <3>3. j < n
      BY <1>1, <1>2, <2>1, <3>1, <3>2
    <3>4. CASE Climbs(s, j, n)
      <4>1. \E l \in j..n : s[l].event = e
        BY <1>2, <2>1, <3>1, <3>2, <3>4 DEF Climbs
      <4> QED
        BY <1>1, <1>2, <4>1
    <3>5. CASE Wraps(s, j, n)
      <4>1. PICK k \in j + 1..n : Least(s[k].event)
        BY <3>5 DEF Wraps
      <4>2. k \in 1..n /\ s[k].event < e /\ k < n
        BY <1>1, <1>2, <3>1, <4>1 DEF Least
      <4>3. CASE Wraps(s, k, n)
        <5>1. PICK h \in k + 1..n : Least(s[h].event)
          BY <4>3 DEF Wraps
        <5>2. h \in 1..n /\ h # k
          BY <1>1, <4>2
        <5> QED
          BY <1>1, <4>1, <4>2, <5>1, <5>2, LeastOnce
      <4>4. CASE Climbs(s, k, n)
        <5>1. \E l \in k..n : s[l].event = e
          BY <1>2, <3>1, <4>2, <4>4 DEF Climbs
        <5> QED
          BY <1>1, <1>2, <4>2, <5>1
      <4> QED
        BY <1>1, <4>2, <4>3, <4>4 DEF InOrder
    <3> QED
      BY <1>1, <3>3, <3>4, <3>5 DEF InOrder
  <2> QED
    BY <1>2, <2>2, <2>3, Numbers
<1> QED
  BY <1>3, <1>4 DEF Upto

\* A row that is found does not lie behind the last entry.
LEMMA FoundBefore ==
    ASSUME OutboxInv, NEW s \in Seq(Rows), Once(s), Events(s) \subseteq recorded,
           InOrder(s), Beyond(s), Upto(s),
           NEW e \in Pending, \A f \in Pending : e <= f, e \in Events(s)
    PROVE  s # <<>> /\ e <= Final(s)
<1> DEFINE n == Len(s)
<1>1. PICK j \in DOMAIN s : s[j].event = e
  BY DEF Events
<1>2. /\ n \in Nat \ {0} /\ DOMAIN s = 1..n /\ j \in 1..n /\ s # <<>>
      /\ \A i \in 1..n : s[i].event \in recorded /\ s[i].event \in Nat
      /\ Final(s) = s[n].event /\ e \in Nat
  BY <1>1, Numbers DEF Events, Final
<1>3. CASE j = n
  BY <1>1, <1>2, <1>3
<1>4. CASE Climbs(s, j, n)
  BY <1>1, <1>2, <1>4 DEF Climbs
<1>5. CASE Wraps(s, j, n)
  <2>1. PICK k \in j + 1..n : Least(s[k].event)
    BY <1>5 DEF Wraps
  <2>2. k \in 1 + 1..n /\ k \in 1..n /\ k > j
    BY <1>2
  <2>3. PICK f \in recorded : Final(s) < f /\ f < s[1].event
    BY <2>1, <2>2 DEF Beyond, Wraps
  <2>4. f \in Pending
    BY <1>2, <2>3, Numbers DEF Upto
  <2>5. e < s[1].event /\ 1 < j
    BY <1>1, <1>2, <2>3, <2>4, Numbers
  <2>6. CASE Wraps(s, 1, j)
    <3>1. PICK h \in 1 + 1..j : Least(s[h].event)
      BY <2>6 DEF Wraps
    <3>2. h \in 1..n /\ h # k
      BY <1>2, <2>2
    <3> QED
      BY <1>2, <2>1, <2>2, <3>1, <3>2, LeastOnce
  <2>7. CASE Climbs(s, 1, j)
    BY <1>1, <1>2, <2>5, <2>7 DEF Climbs
  <2> QED
    BY <1>2, <2>5, <2>6, <2>7 DEF InOrder
<1> QED
  BY <1>2, <1>3, <1>4, <1>5 DEF InOrder

\* The next row at the end, and the first entry gone if the stream was full.
LEMMA AppendKeeps ==
    ASSUME OutboxInv, Batches, NEW s \in Seq(Rows), Len(s) <= MaxLen, Once(s),
           Events(s) \subseteq recorded, Sequel(s),
           NEW row \in Rows, row.event \in Pending, \A f \in Pending : row.event <= f,
           row.event \notin Events(s)
    PROVE  LET t == Longer(s, row)
           IN  Sequel(t) /\ t # <<>> /\ row.event \in Events(t) /\ row.event <= Final(t)
<1> DEFINE e == row.event
           t == Longer(s, row)
           n == Len(s)
           nt == Len(t)
           off == IF n < MaxLen THEN 0 ELSE 1
<1>1. /\ n \in Nat /\ nt \in Nat \ {0} /\ DOMAIN s = 1..n /\ DOMAIN t = 1..nt /\ t # <<>>
      /\ off \in {0, 1} /\ n = nt - 1 + off /\ t[nt] = row
      /\ \A i \in 1..nt - 1 : i + off \in 1..n /\ t[i] = s[i + off]
      /\ MaxLen \in Nat \ {0} /\ (off = 0 => n < MaxLen) /\ (off = 1 => n = MaxLen)
  BY LongerShape, Constants
<1>2. Once(t) /\ Events(t) \subseteq recorded /\ e \in Events(t)
  BY LongerOnce, Numbers
<1> HIDE DEF t, n, nt, off
<1>3. /\ \A i \in 1..n : s[i].event \in recorded /\ s[i].event \in Nat /\ s[i].event # e
      /\ \A i \in 1..nt : t[i].event \in recorded /\ t[i].event \in Nat
      /\ e \in recorded /\ e \in Nat /\ Final(t) = e
      /\ (n = 0 => s = <<>>)
      /\ (n # 0 => s # <<>> /\ Final(s) = s[n].event /\ Final(s) \in Nat)
  <2>1. (n # 0 => s # <<>>) /\ (n = 0 => s = <<>>)
    BY DEF n
  <2>2. Final(s) = s[n].event /\ Final(t) = e
    BY <1>1 DEF Final, n, nt
  <2>3. \A i \in 1..n : s[i].event \in recorded /\ s[i].event # e
    BY <1>1 DEF Events
  <2>4. \A i \in 1..nt : t[i].event \in recorded
    BY <1>1, <1>2 DEF Events
  <2>5. n # 0 => s[n].event \in recorded
    BY <1>1, <2>3
  <2> QED
    BY <2>1, <2>2, <2>3, <2>4, <2>5, Numbers
<1>4. n # 0 => Least(e) \/ (Final(s) < e /\ \A f \in recorded : f <= Final(s) \/ e <= f)
  BY <1>3, Follows DEF Sequel
<1>5. ASSUME NEW i \in 1..nt, NEW j \in 1..nt, i < j PROVE Wraps(t, i, j) \/ Climbs(t, i, j)
  <2>1. i \in 1..nt - 1 /\ i + off \in 1..n /\ t[i] = s[i + off] /\ n # 0
    <3>1. i \in 1..nt - 1 /\ n # 0
      BY <1>1, <1>5
    <3> QED
      BY <1>1, <3>1
  <2>2. ASSUME NEW b \in 1..nt - 1, Wraps(s, i + off, b + off), b <= j PROVE Wraps(t, i, j)
    <3>1. PICK k \in i + off + 1..b + off : Least(s[k].event)
      BY <2>2 DEF Wraps
    <3>2. k - off \in i + 1..b /\ k - off \in 1..nt - 1 /\ (k - off) + off = k
      BY <1>1, <2>1, <2>2
    <3>3. t[k - off] = s[(k - off) + off]
      BY <1>1, <3>2
    <3>4. t[k - off] = s[k]
      BY <3>2, <3>3
    <3>5. k - off \in i + 1..j
      BY <1>1, <2>2, <3>2
    <3> QED
      BY <3>1, <3>4, <3>5 DEF Wraps
  <2>3. ASSUME NEW b \in 1..nt - 1, NEW l \in i + off..b + off
        PROVE  l - off \in i..b /\ t[l - off] = s[l]
    <3>1. l - off \in i..b /\ l - off \in 1..nt - 1 /\ (l - off) + off = l
      BY <1>1, <2>1, <2>3
    <3> QED
      BY <1>1, <3>1
  <2>4. CASE j < nt
    <3>1. j \in 1..nt - 1 /\ j + off \in 1..n /\ t[j] = s[j + off] /\ i + off < j + off
      BY <1>1, <1>5, <2>4
    <3>2. CASE Climbs(s, i + off, j + off)
      BY <2>1, <2>3, <3>1, <3>2 DEF Climbs
    <3>3. CASE Wraps(s, i + off, j + off)
      BY <2>2, <3>1, <3>3, <1>1
    <3> QED
      BY <1>1, <2>1, <3>1, <3>2, <3>3 DEF Sequel, InOrder
  <2>5. CASE j = nt
    <3>1. CASE Least(e)
      BY <1>1, <1>5, <2>5, <3>1 DEF Wraps
    <3>2. CASE Final(s) < e /\ \A f \in recorded : f <= Final(s) \/ e <= f
      <4>1. n - off = nt - 1 /\ nt - 1 \in 1..nt - 1 /\ nt - 1 <= j /\ nt - 1 + off = n
            /\ t[nt - 1].event = Final(s) /\ nt - 1 \in i..j /\ i..nt - 1 \subseteq i..j
        <5>1. n - off = nt - 1 /\ nt - 1 \in 1..nt - 1 /\ nt - 1 <= j /\ nt - 1 + off = n
              /\ nt - 1 \in i..j
          BY <1>1, <2>1, <2>5
        <5>2. i..nt - 1 \subseteq i..j
          BY <1>1, <2>1, <5>1
        <5>3. t[nt - 1] = s[n]
          BY <1>1, <5>1
        <5> QED
          BY <1>3, <2>1, <5>1, <5>2, <5>3
      <4>2. CASE i + off = n
        <5>1. t[i].event = Final(s) /\ t[j].event = e
          BY <1>1, <1>3, <2>1, <2>5, <4>2
        <5>2. \A f \in recorded : ~(Final(s) < f /\ f < e)
          BY <1>3, <2>1, <3>2, Numbers
        <5> QED
          BY <2>5, <3>2, <5>1, <5>2 DEF Climbs
      <4>3. CASE Climbs(s, i + off, n)
        <5>1. s[i + off].event < Final(s)
          BY <1>3, <2>1, <4>3 DEF Climbs
        <5>2. ASSUME NEW f \in recorded, t[i].event < f, f < e
              PROVE  \E l \in i..j : t[l].event = f
          <6>1. f = Final(s) \/ f < Final(s)
            <7>1. f \in Nat /\ e \in Nat /\ Final(s) \in Nat /\ f < e
                  /\ (f <= Final(s) \/ e <= f)
              BY <1>3, <2>1, <3>2, <4>1, <5>2, Numbers
            <7> QED
              BY <7>1
          <6>2. CASE f < Final(s)
            <7>1. PICK l \in i + off..n : s[l].event = f
              BY <1>3, <2>1, <4>3, <5>2, <6>2 DEF Climbs
            <7>2. l - off \in i..nt - 1 /\ t[l - off] = s[l]
              BY <2>3, <4>1
            <7> QED
              BY <4>1, <7>1, <7>2
          <6> QED
            BY <4>1, <6>1, <6>2
        <5>3. t[i].event < e
          <6>1. t[i].event \in Nat /\ Final(s) \in Nat /\ e \in Nat /\ t[i].event < Final(s)
            BY <1>3, <2>1, <4>1, <5>1
          <6> QED
            BY <3>2, <6>1
        <5> QED
          BY <1>1, <2>5, <5>2, <5>3 DEF Climbs
      <4>4. CASE Wraps(s, i + off, n)
        BY <2>2, <4>1, <4>4
      <4>5. n \in 1..n /\ (i + off = n \/ i + off < n)
        BY <1>1, <2>1
      <4> QED
        BY <1>1, <2>1, <4>2, <4>3, <4>4, <4>5 DEF Sequel, InOrder
    <3> QED
      BY <1>4, <2>1, <3>1, <3>2
  <2> QED
    BY <1>1, <1>5, <2>4, <2>5
<1>6. FromLeast(t)
  <2>1. CASE off = 1
    BY <1>1, <2>1 DEF FromLeast, nt
  <2>2. CASE off = 0 /\ n = 0
    <3>1. delivered = {} /\ nt = 1
      BY <1>1, <1>3, <2>2 DEF Sequel, Upto
    <3> QED
      BY <1>1, <3>1, Numbers DEF FromLeast, Least
  <2>3. CASE off = 0 /\ n # 0
    <3>1. t[1] = s[1] /\ Least(s[1].event)
      BY <1>1, <1>3, <2>3 DEF Sequel, FromLeast, n
    <3> QED
      BY <3>1 DEF FromLeast
  <2> QED
    BY <1>1, <2>1, <2>2, <2>3
<1>7. ASSUME NEW k \in 1 + 1..nt, Least(t[k].event)
      PROVE  \E f \in recorded : e < f /\ f < t[1].event
  <2>1. k \in 1..nt /\ 1 \in 1..nt - 1 /\ 1 # k /\ n # 0
        /\ 1 \in 1..n /\ n \in 1..n
    BY <1>1
  <2>2. ~Least(t[1].event)
    BY <1>1, <1>2, <1>7, <2>1, LeastOnce
  <2>3. off = 1 /\ n = nt /\ t[1] = s[2] /\ 2 \in 1..n
    <3>1. CASE off = 0
      <4>1. t[1] = s[1] /\ Least(s[1].event)
        BY <1>1, <1>3, <2>1, <3>1 DEF Sequel, FromLeast, n
      <4> QED
        BY <2>2, <4>1
    <3> QED
      BY <1>1, <2>1, <3>1
  <2>4. s[1].event < t[1].event
    <3>1. CASE Wraps(s, 1, 2)
      <4>1. \A h \in 1 + 1..2 : h = 2
        OBVIOUS
      <4> QED
        BY <2>2, <2>3, <3>1, <4>1 DEF Wraps
    <3> QED
      BY <1>1, <2>1, <2>3, <3>1 DEF Sequel, InOrder, Climbs
  <2>5. e < s[1].event
    <3>1. CASE Least(e)
      BY <1>3, <2>1, <3>1 DEF Least
    <3>2. CASE ~Least(e)
      <4>1. k # nt /\ k \in 1..nt - 1
        BY <1>1, <1>7, <2>1, <3>2
      <4>2. k + 1 \in 1 + 1..n /\ Least(s[k + 1].event)
        BY <1>1, <1>7, <2>3, <4>1
      <4>3. PICK f \in recorded : Final(s) < f /\ f < s[1].event
        BY <4>2 DEF Sequel, Beyond, Wraps, n
      <4> QED
        BY <1>3, <1>4, <2>1, <3>2, <4>3, Numbers
    <3> QED
      BY <3>1, <3>2
  <2> QED
    BY <1>3, <2>1, <2>4, <2>5
<1>8. InOrder(t) /\ Beyond(t)
  BY <1>1, <1>3, <1>5, <1>7 DEF InOrder, Beyond, Wraps, nt
<1>9. Upto(t)
  <2>1. \A d \in delivered : d <= e
    BY <1>3, Numbers DEF Batches
  <2> QED
    BY <1>1, <1>3, <2>1 DEF Sequel, Upto
<1> QED
  BY <1>1, <1>2, <1>3, <1>6, <1>8, <1>9 DEF Sequel, t

\* A batch has the oldest rows of the outbox.
LEMMA OldestFirst ==
    ASSUME OutboxInv, NEW n \in Nat, NEW e \in Oldest(n, Pending), NEW f \in Pending, f < e
    PROVE  f \in Oldest(n, Pending)
<1> DEFINE before(g) == {h \in Pending : h < g}
<1>1. Pending \subseteq Nat /\ IsFiniteSet(Pending) /\ e \in Pending
  BY Numbers, FS_Subset DEF Oldest
<1>2. before(f) \subseteq before(e) /\ before(e) \subseteq Pending
  <2>1. f \in Nat /\ e \in Nat /\ \A h \in Pending : h \in Nat
    BY <1>1
  <2>2. \A h \in Pending : h < f => h < e
    BY <2>1
  <2> QED
    BY <2>2
<1>3. IsFiniteSet(before(e))
  BY <1>1, <1>2, FS_Subset
<1>4. /\ Cardinality(before(f)) <= Cardinality(before(e))
      /\ Cardinality(before(f)) \in Nat /\ Cardinality(before(e)) \in Nat
  BY <1>2, <1>3, FS_Subset, FS_CardinalityType
<1> QED
  BY <1>4 DEF Oldest

\* The steps that deliver nothing and take no batch.
LEMMA BatchKept ==
    ASSUME Batches, UNCHANGED <<recorded, delivered>>,
           \A p \in Projector : projector'[p].pc \in {"attempting", "sending", "sent"} =>
               \/ projector'[p] = projector[p]
               \/ /\ projector[p].pc = "sending" /\ projector'[p].pc = "sent"
                  /\ projector'[p].rows = projector[p].rows /\ projector'[p].row = projector[p].row
    PROVE  Batches'
BY DEF Batches, Pending

\* Nobody is at work while the lock is free.
LEMMA Idle ==
    ASSUME OutboxInv, lock = Free, NEW p \in Projector
    PROVE  projector[p].pc \notin {"attempting", "sending", "sent"}
BY Constants DEF OutboxInv, Guarded

LEMMA RecordBatch == ASSUME OutboxInv, Batches, Record PROVE Batches'
<1>1. /\ recorded' = recorded \cup {last + 1} /\ UNCHANGED <<delivered, projector>> /\ lock = Free
      /\ last \in Nat /\ delivered \subseteq 1..last
  BY DEF Record, OutboxInv, TypeOK
<1>2. \A d \in delivered : d < last + 1
  BY <1>1
<1> QED
  BY <1>1, <1>2, Idle DEF Batches, Pending

LEMMA ReplaceBatch == ASSUME OutboxInv, Batches, Replace PROVE Batches'
<1>1. delivered' = {} /\ UNCHANGED projector /\ lock = Free
  BY DEF Replace
<1> QED
  BY <1>1, Idle DEF Batches

LEMMA ResetBatch == ASSUME OutboxInv, Batches, NEW p \in Projector, Reset(p) PROVE Batches'
<1>1. /\ delivered' = {} /\ lock = Free
      /\ projector' = [projector EXCEPT ![p] = [@ EXCEPT !.pc = "between", !.rebuild = TRUE]]
  BY DEF Reset
<1>2. /\ \A q \in Projector \ {p} : projector'[q] = projector[q]
      /\ projector'[p].pc = "between"
  BY <1>1 DEF OutboxInv, TypeOK, ProjectorStates
<1> QED
  BY <1>1, <1>2, Idle DEF Batches

LEMMA OpenBatch == ASSUME OutboxInv, Batches, NEW p \in Projector, Open(p) PROVE Batches'
<1>1. UNCHANGED <<recorded, delivered>> /\ projector \in [Projector -> ProjectorStates]
  BY DEF Open, ledger, OutboxInv, TypeOK
<1>2. CASE standing # "sound" \/ Pending = {}
  <2>1. /\ \A q \in Projector \ {p} : projector'[q] = projector[q]
        /\ projector'[p].pc = "off"
    BY <1>1, <1>2, StopsTyped DEF Open
  <2> QED
    BY <1>1, <2>1, BatchKept
<1>3. CASE ~(standing # "sound" \/ Pending = {})
  <2> DEFINE batch == Oldest(Limit, Pending)
  <2>1. /\ batch \subseteq Pending
        /\ \A e \in batch, f \in Pending : f < e => f \in batch
    BY OldestFirst, ProjectionAssumption DEF Oldest
  <2>2. projector' = [projector EXCEPT ![p] = [@ EXCEPT !.pc = "attempting", !.rows = batch]]
    BY <1>3 DEF Open
  <2> HIDE DEF batch
  <2>3. /\ \A q \in Projector \ {p} : projector'[q] = projector[q]
        /\ projector'[p].pc = "attempting" /\ projector'[p].rows = batch
    BY <1>1, <2>2 DEF ProjectorStates
  <2> QED
    BY <1>1, <2>1, <2>3 DEF Batches, Pending
<1> QED
  BY <1>2, <1>3

LEMMA AttemptBatch == ASSUME OutboxInv, Batches, NEW p \in Projector, Attempt(p) PROVE Batches'
<1>1. PICK e \in projector[p].rows : Takes(p, e)
  BY DEF Attempt
<1>2. /\ projector[p].pc = "attempting" /\ UNCHANGED <<recorded, delivered>>
      /\ \A f \in projector[p].rows : e <= f
      /\ projector' = [projector EXCEPT ![p] =
             [@ EXCEPT !.pc = "sending", !.row = e, !.retry = (e \in attempted)]]
  BY <1>1 DEF Takes, At, Comes
<1>3. /\ projector[p].rows \subseteq Pending
      /\ \A g \in projector[p].rows, f \in Pending : f < g => f \in projector[p].rows
  BY <1>2 DEF Batches
<1>4. \A f \in Pending : e <= f
  BY <1>1, <1>2, <1>3, Numbers
<1>5. /\ \A q \in Projector \ {p} : projector'[q] = projector[q]
      /\ projector'[p].row = e /\ projector'[p].rows = projector[p].rows
  BY <1>2 DEF OutboxInv, TypeOK, ProjectorStates
<1> QED
  BY <1>1, <1>2, <1>3, <1>4, <1>5 DEF Batches, Pending

LEMMA SendBatch == ASSUME OutboxInv, Batches, NEW p \in Projector, Send(p) PROVE Batches'
<1>1. /\ projector[p].pc = "sending" /\ UNCHANGED <<recorded, delivered>>
      /\ projector \in [Projector -> ProjectorStates]
  BY DEF Send, At, ledger, OutboxInv, TypeOK
<1>2. CASE Stops(p)
  BY <1>1, <1>2, StopsTyped, BatchKept
<1>3. CASE projector' = [projector EXCEPT ![p].pc = "sent"]
  BY <1>1, <1>3, BatchKept DEF ProjectorStates
<1> QED
  BY <1>2, <1>3 DEF Send

LEMMA AcknowledgeBatch ==
    ASSUME OutboxInv, Batches, NEW p \in Projector, Acknowledge(p) PROVE Batches'
<1> DEFINE row == projector[p].row
           rest == projector[p].rows \ {row}
<1>1. /\ projector[p].pc = "sent" /\ UNCHANGED recorded /\ delivered' = delivered \cup {row}
      /\ projector \in [Projector -> ProjectorStates]
  BY DEF Acknowledge, At, OutboxInv, TypeOK
<1>2. /\ projector[p].rows \subseteq Pending /\ row \in Pending
      /\ \A e \in projector[p].rows, f \in Pending : f < e => f \in projector[p].rows
      /\ \A f \in Pending : row <= f
  BY <1>1 DEF Batches
<1>3. Pending' = Pending \ {row}
  BY <1>1 DEF Pending
<1>4. \A d \in delivered', f \in Pending' : d < f
  BY <1>1, <1>2, <1>3, Numbers DEF Batches
<1>5. \A q \in Projector \ {p} : projector[q].pc \notin {"attempting", "sending", "sent"}
  BY <1>1, Sender
<1>6. /\ \A q \in Projector \ {p} : projector'[q] = projector[q]
      /\ \/ projector'[p].pc \in {"off", "between"}
         \/ projector'[p].pc = "attempting" /\ projector'[p].rows = rest
  <2>1. CASE Stops(p)
    BY <1>1, <2>1, StopsTyped
  <2>2. CASE projector' = [projector EXCEPT ![p] = [@ EXCEPT !.pc = "attempting", !.rows = rest]]
    BY <1>1, <2>2 DEF ProjectorStates
  <2>3. CASE projector' = [projector EXCEPT ![p].pc = "between"]
    BY <1>1, <2>3 DEF ProjectorStates
  <2> QED
    BY <2>1, <2>2, <2>3 DEF Acknowledge
<1>7. rest \subseteq Pending' /\ \A e \in rest, f \in Pending' : f < e => f \in rest
  BY <1>2, <1>3
<1> HIDE DEF row, rest
<1> QED
  BY <1>4, <1>5, <1>6, <1>7 DEF Batches

\* The steps after which nothing more is being sent, or acknowledged.
LEMMA EndSteps ==
    ASSUME OutboxInv, NEW p \in Projector, LoseReply(p) \/ Crash(p)
    PROVE  /\ projector'[p].pc = "off" /\ \A q \in Projector \ {p} : projector'[q] = projector[q]
           /\ UNCHANGED <<epoch, recorded, delivered, disturbed>>
BY StopsTyped DEF LoseReply, Crash, ledger, OutboxInv, TypeOK

LEMMA NextBatch == OutboxInv /\ Batches /\ [Next]_vars => Batches'
<1> SUFFICES ASSUME OutboxInv, Batches, [Next]_vars PROVE Batches'
  OBVIOUS
<1>1. ASSUME UNCHANGED <<recorded, delivered, projector>> PROVE Batches'
  BY <1>1, BatchKept
<1>2. ASSUME NEW p \in Projector, Reset(p) \/ Project(p) \/ LoseReply(p) \/ Crash(p)
      PROVE  Batches'
  <2>1. CASE LoseReply(p) \/ Crash(p)
    BY <2>1, EndSteps, BatchKept
  <2> QED
    BY <1>2, <2>1, ResetBatch, OpenBatch, AttemptBatch, SendBatch, AcknowledgeBatch DEF Project
<1>3. CASE Record \/ Replace
  BY <1>3, RecordBatch, ReplaceBatch
<1>4. ASSUME NEW call \in late, RunLate(call) PROVE Batches'
  BY <1>1, <1>4 DEF RunLate, ledger
<1>5. ASSUME NEW left, Expire(left) PROVE Batches'
  BY <1>1, <1>5 DEF Expire, ledger
<1>6. CASE TakeSnapshot \/ Restart
  BY <1>1, <1>6 DEF TakeSnapshot, Restart, ledger
<1>7. ASSUME NEW r \in Reader, Read(r) PROVE Batches'
  BY <1>1, <1>7 DEF Read, LookUp, Fetch, Check, ledger
<1>8. CASE UNCHANGED vars
  BY <1>1, <1>8 DEF vars, ledger
<1>9. CASE GetStuck \/ Migrate
  BY <1>1, <1>9, StandingOnly
<1> QED
  BY <1>2, <1>3, <1>4, <1>5, <1>6, <1>7, <1>8, <1>9 DEF Next

\* An empty stream, when nothing of the ledger is delivered.
LEMMA EmptySequel == delivered = {} => Sequel(<<>>)
<1>1. \A k \in 1 + 1..0 : FALSE
  OBVIOUS
<1> QED
  BY <1>1 DEF Sequel, InOrder, FromLeast, Beyond, Wraps, Upto

LEMMA SequelSame ==
    ASSUME NEW s, Sequel(s), UNCHANGED <<recorded, delivered>>
    PROVE  Sequel(s)'
BY DEF Sequel, InOrder, Wraps, Climbs, Least, FromLeast, Beyond, Upto, Pending

\* The steps that record and deliver nothing.
LEMMA StreamKept ==
    ASSUME StreamInv, UNCHANGED <<recorded, delivered, epoch>>,
           disturbed' \/ (disturbed' = disturbed /\ redis'[epoch].stream = redis[epoch].stream),
           \A p \in Projector : projector'[p].pc = "sent" => projector'[p] = projector[p]
    PROVE  StreamInv'
<1> SUFFICES ASSUME ~disturbed'
             PROVE  Sequel(redis[epoch].stream)' /\ SentIn(redis[epoch].stream)'
  BY DEF StreamInv
<1>1. PICK s : s = redis[epoch].stream
  OBVIOUS
<1>2. Sequel(s) /\ SentIn(s) /\ s = redis'[epoch'].stream
  BY <1>1 DEF StreamInv
<1>3. Sequel(s)'
  BY <1>2, SequelSame
<1>4. SentIn(s)'
  BY <1>2 DEF SentIn
<1> QED
  BY <1>2, <1>3, <1>4

\* The script for the row that comes next.
LEMMA ScriptSequel ==
    ASSUME OutboxInv, Streams, Batches, NEW p \in Projector, At(p, "sending"), Run(Call(p)),
           Sequel(redis[epoch].stream)
    PROVE  LET t == redis'[epoch].stream
           IN  /\ Sequel(t)
               /\ Acknowledged(Call(p)) =>
                      t # <<>> /\ projector[p].row \in Events(t) /\ projector[p].row <= Final(t)
<1> DEFINE space == redis[epoch]
           row == Call(p).row
           retry == Call(p).retry
           verdict == Verdict(space, row, retry)
           after == After(space, row, verdict)
           t == redis'[epoch].stream
<1>1. /\ space \in Spaces /\ row \in Rows /\ retry \in BOOLEAN /\ epoch \in Epoch
      /\ redis \in [Epoch -> Spaces]
      /\ ~retry /\ row.event \in Events(space.stream) => Told(space, row.event)
      /\ Call(p).namespace = epoch /\ row.event = projector[p].row
  BY CallFirst DEF Calls, OutboxInv, TypeOK, Firsts
<1>2. /\ redis' = [redis EXCEPT ![epoch] = after]
      /\ Acknowledged(Call(p)) => verdict # "refuse"
  BY <1>1 DEF Run, Acknowledged
<1>3. projector[p].row \in Pending /\ \A f \in Pending : projector[p].row <= f
  BY DEF Batches, At
<1>4. /\ space.stream \in Seq(Rows) /\ Len(space.stream) <= MaxLen
      /\ Once(space.stream) /\ Events(space.stream) \subseteq recorded
  BY StreamTyped
<1> HIDE DEF row, retry, space
<1>5. \/ /\ verdict = "append" /\ row.event \notin Events(space.stream)
         /\ after.stream = Longer(space.stream, row)
      \/ /\ verdict = "found" /\ row.event \in Events(space.stream)
         /\ after.stream = space.stream
      \/ verdict = "refuse" /\ after = space
  BY <1>1, VerdictIs
<1> HIDE DEF verdict, after
<1>6. t = after.stream
  BY <1>1, <1>2
<1>7. Sequel(space.stream)
  BY DEF space
<1>8. CASE verdict = "append"
  <2>1. t = Longer(space.stream, row) /\ row.event \notin Events(space.stream)
    BY <1>5, <1>6, <1>8
  <2> HIDE DEF t
  <2>2. LET u == Longer(space.stream, row)
        IN  Sequel(u) /\ u # <<>> /\ row.event \in Events(u) /\ row.event <= Final(u)
    BY <1>1, <1>3, <1>4, <1>7, <2>1, AppendKeeps
  <2>3. Sequel(t) /\ t # <<>> /\ row.event \in Events(t) /\ row.event <= Final(t)
    BY <2>1, <2>2
  <2> QED
    BY <1>1, <2>3 DEF t
<1>9. CASE verdict = "found"
  <2>1. t = space.stream /\ row.event \in Events(space.stream)
    BY <1>5, <1>6, <1>9
  <2> HIDE DEF t
  <2>2. space.stream # <<>> /\ row.event <= Final(space.stream)
    BY <1>1, <1>3, <1>4, <1>7, <2>1, FoundBefore DEF Sequel
  <2>3. Sequel(t) /\ t # <<>> /\ row.event \in Events(t) /\ row.event <= Final(t)
    BY <1>7, <2>1, <2>2
  <2> QED
    BY <1>1, <2>3 DEF t
<1>10. CASE verdict = "refuse"
  <2>1. t = space.stream /\ ~Acknowledged(Call(p))
    BY <1>2, <1>5, <1>6, <1>10
  <2> HIDE DEF t
  <2>2. Sequel(t)
    BY <1>7, <2>1
  <2> QED
    BY <2>1, <2>2 DEF t
<1> QED
  BY <1>5, <1>8, <1>9, <1>10

LEMMA SendStream ==
    ASSUME OutboxInv, Streams, Batches, StreamInv, NEW p \in Projector, Send(p)
    PROVE  StreamInv'
<1> SUFFICES ASSUME ~disturbed'
             PROVE  Sequel(redis[epoch].stream)' /\ SentIn(redis[epoch].stream)'
  BY DEF StreamInv
<1>1. /\ At(p, "sending") /\ Run(Call(p)) /\ UNCHANGED <<epoch, recorded, delivered>>
      /\ ~disturbed /\ projector \in [Projector -> ProjectorStates]
  BY DEF Send, ledger, OutboxInv, TypeOK
<1>2. PICK t : t = redis'[epoch].stream
  OBVIOUS
<1>3. /\ Sequel(t)
      /\ Acknowledged(Call(p)) =>
             t # <<>> /\ projector[p].row \in Events(t) /\ projector[p].row <= Final(t)
  BY <1>1, <1>2, ScriptSequel DEF StreamInv
<1>4. Sequel(t)' /\ t = redis'[epoch'].stream
  BY <1>1, <1>2, <1>3, SequelSame
<1>5. \A q \in Projector \ {p} : projector[q].pc # "sent" /\ projector'[q] = projector[q]
  <2>1. \A q \in Projector \ {p} : projector'[q] = projector[q]
    BY <1>1, StopsTyped DEF Send
  <2> QED
    BY <1>1, <2>1, Sender DEF At
<1>6. projector'[p].pc = "sent" =>
          t # <<>> /\ projector'[p].row \in Events(t) /\ projector'[p].row <= Final(t)
  <2>1. CASE Acknowledged(Call(p))
    <3>1. projector' = [projector EXCEPT ![p].pc = "sent"]
      BY <2>1 DEF Send
    <3>2. projector'[p].row = projector[p].row
      BY <1>1, <3>1 DEF ProjectorStates
    <3> QED
      BY <1>3, <2>1, <3>2
  <2>2. CASE ~Acknowledged(Call(p))
    BY <1>1, <2>2, StopsTyped DEF Send
  <2> QED
    BY <2>1, <2>2
<1>7. SentIn(t)'
  BY <1>5, <1>6 DEF SentIn, Final, Events
<1> QED
  BY <1>4, <1>7

LEMMA LoseReplyStream ==
    ASSUME OutboxInv, Streams, Batches, StreamInv, NEW p \in Projector, LoseReply(p)
    PROVE  StreamInv'
<1>1. /\ At(p, "sending") /\ UNCHANGED <<epoch, recorded, delivered, disturbed>>
      /\ projector'[p].pc = "off" /\ \A q \in Projector \ {p} : projector'[q] = projector[q]
  BY EndSteps DEF LoseReply
<1>2. CASE UNCHANGED redis
  BY <1>1, <1>2, StreamKept
<1>3. CASE Run(Call(p))
  <2> SUFFICES ASSUME ~disturbed'
               PROVE  Sequel(redis[epoch].stream)' /\ SentIn(redis[epoch].stream)'
    BY DEF StreamInv
  <2>1. PICK t : t = redis'[epoch].stream
    OBVIOUS
  <2>2. Sequel(t)
    BY <1>1, <1>3, <2>1, ScriptSequel DEF StreamInv
  <2>3. Sequel(t)' /\ t = redis'[epoch'].stream
    BY <1>1, <2>1, <2>2, SequelSame
  <2>4. \A q \in Projector : projector'[q].pc # "sent"
    BY <1>1, Sender DEF At
  <2>5. SentIn(t)'
    BY <2>4 DEF SentIn
  <2> QED
    BY <2>3, <2>5
<1> QED
  BY <1>2, <1>3 DEF LoseReply

LEMMA AcknowledgeStream ==
    ASSUME OutboxInv, Batches, StreamInv, NEW p \in Projector, Acknowledge(p)
    PROVE  StreamInv'
<1> SUFFICES ASSUME ~disturbed'
             PROVE  Sequel(redis[epoch].stream)' /\ SentIn(redis[epoch].stream)'
  BY DEF StreamInv
<1> DEFINE row == projector[p].row
<1>1. /\ projector[p].pc = "sent" /\ UNCHANGED <<epoch, recorded, redis>> /\ ~disturbed
      /\ delivered' = delivered \cup {row} /\ projector \in [Projector -> ProjectorStates]
  BY DEF Acknowledge, At, OutboxInv, TypeOK
<1>2. PICK s : s = redis[epoch].stream
  OBVIOUS
<1>3. Sequel(s) /\ SentIn(s) /\ s = redis'[epoch'].stream
  BY <1>1, <1>2 DEF StreamInv
<1>4. s # <<>> /\ row \in Events(s) /\ row <= Final(s) /\ row \in Pending
  BY <1>1, <1>3 DEF SentIn, Batches
<1>5. \A d \in delivered' : d <= row /\ d <= Final(s)
  BY <1>1, <1>3, <1>4, Numbers DEF Batches, Sequel, Upto
<1>6. InOrder(s)' /\ FromLeast(s)' /\ Beyond(s)'
  BY <1>1, <1>3 DEF Sequel, InOrder, Wraps, Climbs, Least, FromLeast, Beyond, Final
<1>7. Upto(s)'
  <2>1. row \in delivered'
    BY <1>1
  <2>2. \E m \in delivered' : (\A d \in delivered' : d <= m) /\ m \in Events(s)
    BY <1>4, <1>5, <2>1
  <2> QED
    BY <1>4, <1>5, <2>2 DEF Upto, Final, Events
<1>8. \A q \in Projector : projector'[q].pc # "sent"
  <2>1. \A q \in Projector \ {p} : projector[q].pc # "sent"
    BY <1>1, Sender
  <2> DEFINE rest == projector[p].rows \ {row}
  <2>2. CASE Stops(p)
    BY <1>1, <2>1, <2>2, StopsTyped
  <2>3. CASE projector' = [projector EXCEPT ![p] = [@ EXCEPT !.pc = "attempting", !.rows = rest]]
    BY <1>1, <2>1, <2>3 DEF ProjectorStates
  <2>4. CASE projector' = [projector EXCEPT ![p].pc = "between"]
    BY <1>1, <2>1, <2>4 DEF ProjectorStates
  <2> QED
    BY <2>2, <2>3, <2>4 DEF Acknowledge
<1>9. SentIn(s)'
  BY <1>8 DEF SentIn
<1> QED
  BY <1>3, <1>6, <1>7, <1>9 DEF Sequel

LEMMA ResetStream ==
    ASSUME OutboxInv, StreamInv, NEW p \in Projector, Reset(p)
    PROVE  StreamInv'
<1> SUFFICES ASSUME ~disturbed'
             PROVE  Sequel(redis[epoch].stream)' /\ SentIn(redis[epoch].stream)'
  BY DEF StreamInv
<1>1. /\ delivered' = {} /\ lock = Free /\ UNCHANGED <<epoch, recorded, redis>>
      /\ projector' = [projector EXCEPT ![p] = [@ EXCEPT !.pc = "between", !.rebuild = TRUE]]
      /\ ~disturbed \/ redis[epoch].stream = <<>>
  BY DEF Reset, Namespace
<1>2. \A q \in Projector : projector'[q].pc # "sent"
  BY <1>1, Idle DEF OutboxInv, TypeOK, ProjectorStates
<1>3. PICK s : s = redis[epoch].stream
  OBVIOUS
<1>4. s = redis'[epoch'].stream
  BY <1>1, <1>3
<1>5. SentIn(s)'
  BY <1>2 DEF SentIn
<1>6. Upto(s)'
  BY <1>1 DEF Upto
<1>7. CASE ~disturbed
  <2>1. InOrder(s)' /\ FromLeast(s)' /\ Beyond(s)'
    BY <1>1, <1>3, <1>7 DEF StreamInv, Sequel, InOrder, Wraps, Climbs, Least, FromLeast,
                            Beyond, Final
  <2> QED
    BY <1>4, <1>5, <1>6, <2>1 DEF Sequel
<1>8. CASE redis[epoch].stream = <<>>
  <2>1. (delivered = {} => Sequel(<<>>))'
    BY EmptySequel, PTL
  <2>2. Sequel(<<>>)' /\ s = <<>>
    BY <1>1, <1>3, <1>8, <2>1
  <2> QED
    BY <1>4, <1>5, <2>2
<1> QED
  BY <1>1, <1>7, <1>8

\* A new event is later than anything the stream can hold.
LEMMA RecordStream == ASSUME OutboxInv, Streams, StreamInv, Record PROVE StreamInv'
<1> SUFFICES ASSUME ~disturbed'
             PROVE  Sequel(redis[epoch].stream)' /\ SentIn(redis[epoch].stream)'
  BY DEF StreamInv
<1> DEFINE new == last + 1
<1>1. /\ recorded' = recorded \cup {new} /\ ~disturbed /\ lock = Free
      /\ UNCHANGED <<epoch, delivered, projector, redis>>
      /\ last \in Nat /\ recorded \subseteq 1..last /\ delivered \subseteq recorded
  BY Numbers DEF Record, OutboxInv, TypeOK
<1>2. PICK s : s = redis[epoch].stream
  OBVIOUS
<1>3. /\ Sequel(s) /\ s = redis'[epoch'].stream
      /\ s \in Seq(Rows) /\ Events(s) \subseteq recorded
  BY <1>1, <1>2, StreamTyped DEF StreamInv
<1>4. \A f \in recorded : f \in Nat /\ f < new /\ f <= new /\ ~(new <= f) /\ ~(new < f)
  BY <1>1
<1> HIDE DEF new
<1>5. DOMAIN s = 1..Len(s) /\ Len(s) \in Nat /\ \A i \in DOMAIN s : s[i].event \in recorded
  BY <1>3 DEF Events
<1>6. \A i \in DOMAIN s : Least(s[i].event) => Least(s[i].event)'
  BY <1>1, <1>4, <1>5 DEF Least
<1>7. \A i, j \in DOMAIN s :
          /\ Wraps(s, i, j) => Wraps(s, i, j)'
          /\ Climbs(s, i, j) => Climbs(s, i, j)'
  <2> SUFFICES ASSUME NEW i \in DOMAIN s, NEW j \in DOMAIN s
               PROVE  /\ Wraps(s, i, j) => Wraps(s, i, j)'
                      /\ Climbs(s, i, j) => Climbs(s, i, j)'
    OBVIOUS
  <2>1. \A k \in i + 1..j : k \in DOMAIN s
    BY <1>5
  <2>2. s[i].event \in recorded /\ s[j].event \in recorded
    BY <1>5
  <2> QED
    BY <1>1, <1>4, <1>6, <2>1, <2>2 DEF Wraps, Climbs
<1>8. InOrder(s)' /\ FromLeast(s)'
  <2>1. s # <<>> => 1 \in DOMAIN s
    BY <1>3
  <2> QED
    BY <1>3, <1>6, <1>7, <2>1 DEF Sequel, InOrder, FromLeast
<1>9. Beyond(s)'
  <2> SUFFICES ASSUME NEW k \in 1 + 1..Len(s), Least(s[k].event)'
               PROVE  \E f \in recorded' : Final(s) < f /\ f < s[1].event
    BY DEF Beyond, Wraps, Final
  <2>1. Least(s[k].event)
    BY <1>1 DEF Least
  <2> QED
    BY <1>1, <1>3, <2>1 DEF Sequel, Beyond, Wraps
<1>10. Upto(s)'
  <2>1. s # <<>> => Final(s) \in recorded
    BY <1>5 DEF Final
  <2>2. Pending' = Pending \cup {new}
    BY <1>1, <1>4 DEF Pending
  <2> QED
    BY <1>1, <1>3, <1>4, <2>1, <2>2 DEF Sequel, Upto, Final, Events
<1>11. SentIn(s)'
  BY <1>1, Idle DEF SentIn
<1> QED
  BY <1>3, <1>8, <1>9, <1>10, <1>11 DEF Sequel

\* The namespace of a new ledger is empty.
LEMMA ReplaceStream == ASSUME OutboxInv, Streams, Replace PROVE StreamInv'
<1>1. /\ epoch' = epoch + 1 /\ epoch + 1 \in Epoch /\ UNCHANGED <<redis, projector>>
      /\ delivered' = {} /\ lock = Free /\ epoch \in Nat
  BY Constants DEF Replace, OutboxInv, TypeOK, Epoch
<1>2. InStream(redis[epoch + 1].stream) = {}
  <2> SUFFICES ASSUME NEW row \in InStream(redis[epoch + 1].stream) PROVE FALSE
    OBVIOUS
  <2>1. row.ledger = epoch + 1 /\ row.ledger <= epoch
    BY <1>1 DEF Streams, Own, OutboxInv, AllSound, Sound
  <2> QED
    BY <1>1, <2>1
<1>3. redis[epoch + 1].stream \in Seq(Rows)
  BY <1>1 DEF OutboxInv, TypeOK, Spaces
<1>4. redis'[epoch'].stream = <<>>
  <2>1. ASSUME NEW t \in Seq(Rows), t # <<>> PROVE InStream(t) # {}
    <3>1. 1 \in DOMAIN t
      BY <2>1
    <3> QED
      BY <3>1 DEF InStream
  <2> QED
    BY <1>1, <1>2, <1>3, <2>1
<1>5. (delivered = {} => Sequel(<<>>))'
  BY EmptySequel, PTL
<1>6. SentIn(<<>>)'
  BY <1>1, Idle DEF SentIn
<1> QED
  BY <1>1, <1>4, <1>5, <1>6 DEF StreamInv

LEMMA OpenStream == ASSUME OutboxInv, StreamInv, NEW p \in Projector, Open(p) PROVE StreamInv'
<1>1. /\ UNCHANGED <<epoch, recorded, delivered, disturbed, redis>>
      /\ projector \in [Projector -> ProjectorStates]
  BY DEF Open, ledger, OutboxInv, TypeOK
<1> DEFINE batch == Oldest(Limit, Pending)
<1>2. CASE Stops(p)
  BY <1>1, <1>2, StopsTyped, StreamKept
<1>3. CASE projector' = [projector EXCEPT ![p] = [@ EXCEPT !.pc = "attempting", !.rows = batch]]
  <2> HIDE DEF batch
  <2>1. \A q \in Projector : projector'[q].pc = "sent" => projector'[q] = projector[q]
    BY <1>1, <1>3 DEF ProjectorStates
  <2> QED
    BY <1>1, <2>1, StreamKept
<1> QED
  BY <1>2, <1>3 DEF Open

LEMMA AttemptStream ==
    ASSUME OutboxInv, StreamInv, NEW p \in Projector, Attempt(p)
    PROVE  StreamInv'
<1>1. PICK e \in projector[p].rows : Takes(p, e)
  BY DEF Attempt
<1>2. /\ UNCHANGED <<epoch, recorded, delivered, disturbed, redis>>
      /\ projector' = [projector EXCEPT ![p] =
             [@ EXCEPT !.pc = "sending", !.row = e, !.retry = (e \in attempted)]]
  BY <1>1 DEF Takes, Attempt
<1>3. \A q \in Projector : projector'[q].pc = "sent" => projector'[q] = projector[q]
  BY <1>2 DEF OutboxInv, TypeOK, ProjectorStates
<1> QED
  BY <1>2, <1>3, StreamKept

LEMMA InitStream == Init => Batches /\ StreamInv
<1> SUFFICES ASSUME Init PROVE Batches /\ StreamInv
  OBVIOUS
<1>1. /\ epoch = 1 /\ delivered = {} /\ \A p \in Projector : projector[p].pc = "off"
      /\ redis[1].stream = <<>>
  BY Constants DEF Init, Empty, Epoch
<1>2. Sequel(<<>>)
  BY <1>1, EmptySequel
<1> QED
  BY <1>1, <1>2 DEF Batches, StreamInv, SentIn

LEMMA NextStream == OutboxInv /\ ReadInv /\ Batches /\ StreamInv /\ [Next]_vars => StreamInv'
<1> SUFFICES ASSUME OutboxInv, Streams, Batches, StreamInv, [Next]_vars PROVE StreamInv'
  BY DEF ReadInv
<1>1. ASSUME UNCHANGED <<epoch, recorded, delivered, projector>>,
             disturbed' \/ (disturbed' = disturbed /\ redis'[epoch].stream = redis[epoch].stream)
      PROVE  StreamInv'
  BY <1>1, StreamKept
<1>2. ASSUME NEW p \in Projector, Reset(p) \/ Project(p) \/ LoseReply(p) \/ Crash(p)
      PROVE  StreamInv'
  <2>1. CASE Crash(p)
    <3>1. UNCHANGED redis
      BY <2>1 DEF Crash
    <3> QED
      BY <2>1, <3>1, EndSteps, StreamKept
  <2> QED
    BY <1>2, <2>1, ResetStream, OpenStream, AttemptStream, SendStream, AcknowledgeStream,
       LoseReplyStream DEF Project
<1>3. CASE Record \/ Replace
  BY <1>3, RecordStream, ReplaceStream
<1>4. ASSUME NEW call \in late, RunLate(call) PROVE StreamInv'
  <2>1. UNCHANGED <<epoch, recorded, delivered, projector>>
    BY <1>4 DEF RunLate, ledger
  <2>2. disturbed' = (disturbed \/ redis' # redis) /\ disturbed \in BOOLEAN
    BY <1>4 DEF RunLate, OutboxInv, TypeOK
  <2> QED
    BY <1>1, <2>1, <2>2
<1>5. ASSUME NEW left, Expire(left) PROVE StreamInv'
  <2>1. UNCHANGED <<epoch, recorded, delivered, projector>>
    BY <1>5 DEF Expire, ledger
  <2>2. PICK stream : /\ redis' = [redis EXCEPT ![epoch] = [stream |-> stream, receipts |-> left]]
                      /\ disturbed' = (disturbed \/ stream # redis[epoch].stream)
    BY <1>5 DEF Expire, Namespace
  <2>3. redis'[epoch].stream = stream /\ disturbed \in BOOLEAN
    BY <2>2 DEF OutboxInv, TypeOK
  <2> QED
    BY <1>1, <2>1, <2>2, <2>3
<1>6. CASE TakeSnapshot \/ Restart
  <2>1. /\ UNCHANGED <<epoch, recorded, delivered, projector>>
        /\ disturbed' \/ (disturbed' = disturbed /\ redis' = redis)
    BY <1>6 DEF TakeSnapshot, Restart, ledger
  <2> QED
    BY <1>1, <2>1
<1>7. ASSUME NEW r \in Reader, Read(r) PROVE StreamInv'
  BY <1>1, <1>7 DEF Read, LookUp, Fetch, Check, ledger
<1>8. CASE UNCHANGED vars
  BY <1>1, <1>8 DEF vars, ledger
<1>9. CASE GetStuck \/ Migrate
  BY <1>1, <1>9, StandingOnly
<1> QED
  BY <1>2, <1>3, <1>4, <1>5, <1>6, <1>7, <1>8, <1>9 DEF Next

LEMMA StreamInvariant == Spec => [](OutboxInv /\ ReadInv /\ Batches /\ StreamInv)
BY InitOutbox, InitReadable, InitStream, NextOutbox, NextReadable, NextBatch, NextStream, PTL
   DEF Spec

\* How many entries there are behind an entry, and in all.
LEMMA EntriesCounted ==
    ASSUME NEW s \in Seq(Rows), Once(s), NEW i \in 1..Len(s) + 1
    PROVE  LET behind == {s[j].event : j \in i..Len(s)}
           IN  IsFiniteSet(behind) /\ Cardinality(behind) = Len(s) + 1 - i
<1> DEFINE n == Len(s)
           behind == {s[j].event : j \in i..n}
           f == [j \in i..n |-> s[j].event]
<1>1. n \in Nat /\ i \in Nat /\ i <= n + 1 /\ \A j \in i..n : j \in DOMAIN s
  OBVIOUS
<1>2. IsFiniteSet(i..n) /\ Cardinality(i..n) = n + 1 - i
  <2>1. i \in Int /\ n \in Int /\ (i > n => n + 1 - i = 0) /\ n - i + 1 = n + 1 - i
    BY <1>1
  <2> HIDE DEF n
  <2> QED
    BY <2>1, FS_Interval
<1>3. f \in Surjection(i..n, behind) /\ f \in Injection(i..n, behind)
  BY <1>1 DEF Once, Surjection, Injection, IsInjective
<1> HIDE DEF f, behind
<1>4. IsFiniteSet(behind) /\ Cardinality(behind) = Cardinality(i..n)
  BY <1>2, <1>3, FS_Surjection
<1> QED
  BY <1>2, <1>4 DEF behind

\* A stream that everything recorded has reached.
LEMMA SequelIsNewest ==
    ASSUME OutboxInv, NEW s \in Seq(Rows), Len(s) <= MaxLen, Once(s), Events(s) \subseteq recorded,
           Sequel(s), Pending = {}
    PROVE  /\ Events(s) = Newest(MaxLen, recorded)
           /\ \A i, j \in DOMAIN s : i < j => s[i].event < s[j].event
<1> DEFINE n == Len(s)
           above(e) == {f \in recorded : f > e}
<1>1. /\ n \in Nat /\ MaxLen \in Nat \ {0} /\ n <= MaxLen /\ DOMAIN s = 1..n
      /\ recorded = delivered /\ recorded \subseteq Nat /\ IsFiniteSet(recorded)
  BY Constants, Numbers DEF Pending
<1>2. CASE recorded = {}
  <2>1. Events(s) = {} /\ Newest(MaxLen, recorded) = {}
    BY <1>2 DEF Newest
  <2>2. DOMAIN s = {}
    BY <2>1 DEF Events
  <2> QED
    BY <2>1, <2>2
<1>3. CASE recorded # {}
  <2>1. /\ n # 0 /\ s # <<>> /\ 1 \in 1..n /\ n \in 1..n
        /\ \A f \in recorded : f <= s[n].event
    BY <1>1, <1>3 DEF Sequel, Upto, Final
  <2>2. \A i \in 1..n : s[i].event \in recorded /\ s[i].event \in Nat /\ s[i].event \in Events(s)
    BY <1>1 DEF Events
  <2>3. ~Wraps(s, 1, n)
    <3>1. \A f \in recorded : ~(s[n].event < f)
      BY <1>1, <2>1, <2>2
    <3> QED
      BY <3>1 DEF Sequel, Beyond, Final
  <2>4. \A i, j \in 1..n : i < j => Climbs(s, i, j)
    <3> SUFFICES ASSUME NEW i \in 1..n, NEW j \in 1..n, i < j PROVE Climbs(s, i, j)
      OBVIOUS
    <3>1. i + 1..j \subseteq 1 + 1..n
      BY <1>1
    <3>2. ~Wraps(s, i, j)
      BY <2>3, <3>1 DEF Wraps
    <3> QED
      BY <1>1, <3>2 DEF Sequel, InOrder
  <2>5. \A i, j \in 1..n : i < j => s[i].event < s[j].event
    BY <2>4 DEF Climbs
  <2>6. ASSUME NEW f \in recorded, s[1].event <= f
        PROVE  \E j \in 1..n : s[j].event = f
    <3>1. CASE s[1].event < f /\ f < s[n].event
      <4>1. 1 < n
        BY <1>1, <2>1, <2>2, <3>1
      <4> QED
        BY <2>1, <2>4, <3>1, <4>1 DEF Climbs
    <3>2. f \in Nat /\ s[1].event \in Nat /\ s[n].event \in Nat /\ f <= s[n].event
      BY <1>1, <2>1, <2>2
    <3> QED
      BY <2>1, <2>6, <3>1, <3>2
  <2>7. ASSUME NEW i \in 1..n PROVE s[i].event \in Newest(MaxLen, recorded)
    <3> DEFINE behind == {s[j].event : j \in i + 1..n}
    <3>1. above(s[i].event) \subseteq behind
      <4> SUFFICES ASSUME NEW f \in recorded, f > s[i].event PROVE f \in behind
        OBVIOUS
      <4>1. s[1].event <= s[i].event
        BY <1>1, <2>1, <2>2, <2>5
      <4>2. PICK j \in 1..n : s[j].event = f
        BY <1>1, <2>1, <2>2, <2>6, <4>1
      <4>3. j # i /\ ~(j < i)
        BY <2>2, <2>5, <4>2
      <4> QED
        BY <1>1, <4>2, <4>3
    <3>2. i + 1 \in 1..Len(s) + 1
      BY <1>1
    <3>3. IsFiniteSet(behind) /\ Cardinality(behind) = n + 1 - (i + 1)
      BY <3>2, EntriesCounted
    <3> HIDE DEF behind
    <3>4. /\ Cardinality(above(s[i].event)) <= Cardinality(behind)
          /\ Cardinality(above(s[i].event)) \in Nat
      BY <3>1, <3>3, FS_Subset, FS_CardinalityType
    <3>5. Cardinality(above(s[i].event)) < MaxLen
      BY <1>1, <3>3, <3>4
    <3> QED
      BY <2>2, <3>5 DEF Newest
  <2>8. ASSUME NEW e \in Newest(MaxLen, recorded) PROVE e \in Events(s)
    <3>1. e \in recorded /\ e \in Nat /\ Cardinality(above(e)) < MaxLen
      BY <1>1 DEF Newest
    <3>2. CASE s[1].event <= e
      BY <1>1, <2>6, <3>1, <3>2 DEF Events
    <3>3. CASE e < s[1].event
      <4>1. n = MaxLen
        <5>1. ~(s[1].event <= e)
          BY <2>1, <2>2, <3>1, <3>3
        <5>2. ~Least(s[1].event)
          BY <3>1, <5>1 DEF Least
        <5> QED
          BY <2>1, <5>2 DEF Sequel, FromLeast
      <4>2. Events(s) \subseteq above(e)
        <5> SUFFICES ASSUME NEW i \in 1..n PROVE s[i].event \in above(e)
          BY <1>1 DEF Events
        <5>1. i = 1 \/ s[1].event < s[i].event
          BY <1>1, <2>1, <2>5
        <5> QED
          BY <2>1, <2>2, <3>1, <3>3, <5>1
      <4>3. Events(s) = {s[j].event : j \in 1..n} /\ 1 \in 1..Len(s) + 1
        BY <1>1 DEF Events
      <4>4. Cardinality(Events(s)) = n + 1 - 1
        BY <4>3, EntriesCounted
      <4>5. IsFiniteSet(above(e)) /\ Cardinality(above(e)) \in Nat
        BY <1>1, FS_Subset, FS_CardinalityType
      <4>6. Cardinality(Events(s)) <= Cardinality(above(e))
        BY <4>2, <4>5, FS_Subset
      <4> QED
        BY <1>1, <3>1, <4>1, <4>4, <4>5, <4>6
    <3> QED
      BY <2>1, <2>2, <3>1, <3>2, <3>3
  <2> QED
    BY <1>1, <2>5, <2>7, <2>8 DEF Events
<1> QED
  BY <1>2, <1>3

\* Once every outbox row is delivered the stream holds the newest events, as many
\* as XADD MAXLEN leaves, in the order of their rows: after any crash, lost
\* reply, retry or rebuild, unless Redis lost entries, or got a script after its
\* client had gone, and nobody has rebuilt the stream from nothing since.
THEOREM DeliveredIsNewest == Spec => []StreamIsNewest
<1>1. OutboxInv /\ ReadInv /\ StreamInv => StreamIsNewest
  <2> SUFFICES ASSUME OutboxInv, Streams, StreamInv, ~disturbed, Pending = {}
               PROVE  LET stream == redis[Namespace(epoch)].stream
                      IN  /\ {row.event : row \in InStream(stream)} = Newest(MaxLen, recorded)
                          /\ \A i, j \in DOMAIN stream : i < j => stream[i].event < stream[j].event
    BY DEF ReadInv, StreamIsNewest
  <2> DEFINE s == redis[epoch].stream
  <2>1. /\ s \in Seq(Rows) /\ Len(s) <= MaxLen /\ Once(s) /\ Events(s) \subseteq recorded
        /\ Sequel(s)
    BY StreamTyped DEF StreamInv
  <2> HIDE DEF s
  <2>2. /\ Events(s) = Newest(MaxLen, recorded)
        /\ \A i, j \in DOMAIN s : i < j => s[i].event < s[j].event
    BY <2>1, SequelIsNewest
  <2>3. {row.event : row \in InStream(s)} = Events(s)
    BY DEF InStream, Events
  <2> QED
    BY <2>2, <2>3 DEF s, Namespace
<1> QED
  BY <1>1, StreamInvariant, PTL

=============================================================================

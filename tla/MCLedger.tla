------------------------------ MODULE MCLedger ------------------------------
(* Small instances of the ledger for TLC. *)
EXTENDS Ledger, TLC

CONSTANTS s1, s2, c1, c2, f1, f2, v1, v2, topic

Symmetry == Permutations({s1, s2}) \cup Permutations({c1, c2})

\* Evidence lists: one source, or a claim that cannot be verified locally.
Cites(s) == [sources |-> {s}, external |-> FALSE]
OnlyCited == {Cites(f1)}
OnlyClaimed == {[sources |-> {}, external |-> TRUE]}
TwoSources == {Cites(f1), Cites(f2)}

\* The pack of a closed session in which a durable decision, quoting source f1,
\* was superseded by another.  (`EvidenceRow' fields `verified' and `at' do not
\* travel; they are given as the exporting ledger had them.)
PackRow(seq, kind, subject, at, supersedes) ==
    [session |-> s1, seq |-> seq, kind |-> kind, subject |-> subject, observed |-> at,
     valid |-> at, supersedes |-> supersedes, contradicts |-> NoEvent,
     trust |-> "observed", retention |-> "durable", imported |-> FALSE]
Quote(s) == {[kind |-> "source", source |-> s, digest |-> v1, verified |-> TRUE, at |-> 1]}
SupersededDecision ==
    [sessions |-> (s1 :> [started |-> 1, ended |-> 2, imported |-> FALSE]),
     events |-> <<PackRow(1, "session_started", SessionSubject(s1), 1, NoEvent),
                  PackRow(2, "decision", topic, 1, NoEvent),
                  PackRow(3, "decision", topic, 2, 2),
                  PackRow(4, "session_closed", SessionSubject(s1), 2, NoEvent)>>,
     evidence |-> <<{}, Quote(f1), Quote(f2), {}>>,
     workflows |-> {}]
ImportedPacks == {SupersededDecision}

=============================================================================

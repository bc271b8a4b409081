---------------------------- MODULE AtomicImport ----------------------------
(***************************************************************************)
(* What activating a memory pack promises: whatever files are moved and    *)
(* whichever process dies on the way, there is one ledger, it grows by the *)
(* writes it acknowledged, and an import replaces all of it in one step.   *)
(***************************************************************************)
CONSTANTS
    Entry,      \* what a ledger can hold
    PackOf      \* the entries of each pack that can be imported

VARIABLES
    exists,     \* there is a ledger
    entries     \* what it holds

vars == <<exists, entries>>

Init == exists \in BOOLEAN /\ entries \in SUBSET Entry /\ (~exists => entries = {})

Create == ~exists /\ exists' = TRUE /\ entries' = {}
Write == exists /\ UNCHANGED exists /\ \E e \in Entry : entries' = entries \cup {e}
Replace == exists' = TRUE /\ \E p \in DOMAIN PackOf : entries' = PackOf[p]

Next == Create \/ Write \/ Replace

Spec == Init /\ [][Next]_vars

=============================================================================

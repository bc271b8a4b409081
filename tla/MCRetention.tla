------------------------------ MODULE MCRetention ------------------------------
(* Instances of Retention for TLC. *)
EXTENDS Retention, TLC

CONSTANTS old, fix, src, der, past, desk

\* `old' is corrected by `fix'; `der' is a fact derived from `old' and `src'.
Events == {old, fix, src, der}
InSession == (old :> past) @@ (fix :> desk) @@ (src :> past) @@ (der :> past)
InClass == (old :> "session") @@ (fix :> "session") @@ (src :> "durable") @@ (der :> "session")
Corrects == (old :> {}) @@ (fix :> {old}) @@ (src :> {}) @@ (der :> {})
TwoPolicies == <<[ttl |-> 1, grace |-> 1, lasts |-> 2], [ttl |-> 2, grace |-> 0, lasts |-> 1]>>

\* The same, where what is corrected is durable.
DurableEvents == {old, fix}
DurableClass == (old :> "durable") @@ (fix :> "session")
DurableSession == (old :> past) @@ (fix :> desk)
DurableCorrects == (old :> {}) @@ (fix :> {old})
Derived == {[fact |-> der, sources |-> {old, src}, strong |-> {src}]}

=============================================================================

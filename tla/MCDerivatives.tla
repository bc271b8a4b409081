--------------------------- MODULE MCDerivatives ---------------------------
(* Instances of Derivatives for TLC. *)
EXTENDS Derivatives, TLC

CONSTANTS e1, e2, i1, i2, graph, memory

TwoEvents == {e1, e2}
TwoStores == {graph, memory}
TwoCallers == {i1, i2}
\* SQLite, which two callers share; Semantica, which lives in one process: without a
\* coordinator, with one that does not know a mandatory store, with one that knows
\* an optional store too, and with one whose stores are all mandatory.
FiveAdapters ==
    {[backend |-> "sqlite", coordinated |-> FALSE,
      mandatory |-> {graph}, configured |-> {}, callers |-> TwoCallers],
     [backend |-> "semantica", coordinated |-> FALSE,
      mandatory |-> {graph}, configured |-> {}, callers |-> {i1}]}
    \cup [backend : {"semantica"}, coordinated : {TRUE}, mandatory : {{memory}},
          configured : {{graph}, TwoStores}, callers : {{i1}}]
    \cup [backend : {"semantica"}, coordinated : {TRUE}, mandatory : {TwoStores},
          configured : {TwoStores}, callers : {{i1}}]

\* Both want the first event forgotten.
OneEvent == [i \in TwoCallers |-> {e1}]

\* Two objects of the event, in the first version.
FirstOfEvent == {[o \in Objects |-> [event |-> e1, version |-> 1]]}
=============================================================================

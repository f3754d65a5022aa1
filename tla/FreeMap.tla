------------------------------ MODULE FreeMap -------------------------------
(***************************************************************************)
(* What rmalloc and rmfree of util/malloc.c do for the code that calls     *)
(* them, when a resource map is seen as the set of its free units.  RMap   *)
(* models the table itself, and shows that it does this.                   *)
(*                                                                         *)
(* A definition named Faulty... is not part of the model: it is what a     *)
(* likely bug would make of the definition after it.                       *)
(***************************************************************************)
EXTENDS Integers, FiniteSets

\* A run one unit short will do
FaultyWindows(free, n) == {a \in free : a .. a + n - 2 \subseteq free}

\* Where n units can be taken from
Windows(free, n) == {a \in free : a .. a + n - 1 \subseteq free}

\* rmalloc takes the first run that is long enough, from its start
Fits(free, n, a) == a \in Windows(free, n) /\ \A b \in Windows(free, n) : a <= b

\* The first units of the runs of free units: each run has an entry
Runs(free) == {u \in free : u - 1 \notin free}

\* rmfree loses the units when they need an entry and all are taken
Freed(free, units, entries) ==
    IF Cardinality(Runs(free \cup units)) > entries THEN free ELSE free \cup units
=============================================================================

----------------------------- MODULE MCIndexCache -----------------------------
(* IndexCache with two units.  The first finds its header in one place only; *)
(* the second looks in two places from one build directory, and in one of    *)
(* them from the other.                                                      *)
EXTENDS IndexCache, TLC

CONSTANTS da, db, h1, h2, v1, v2

TwoSearches == <<[d \in Dirs |-> <<h1>>],
                 [d \in Dirs |-> IF d = da THEN <<h2, h1>> ELSE <<h1>>]>>

SymVersions == Permutations({v1, v2})
=============================================================================

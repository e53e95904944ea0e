---------------------------- MODULE MCAnalysisRun ----------------------------
(***************************************************************************)
(* A TLC instance of AnalysisRun: two versions of one package, whose       *)
(* results share a file, and a package with a capital in its name.         *)
(***************************************************************************)
EXTENDS AnalysisRun, TLC
CONSTANTS r1, r2, r3, v1, v2, capital, web
SameName == (v1 :> "lodash.json") @@ (v2 :> "lodash.json") @@ (capital :> "Django.json")
InLowerCase == (v1 :> "lodash.json") @@ (v2 :> "lodash.json") @@ (capital :> "django.json")
Threads == [r \in Request |-> web]
Interchangeable == Permutations(Request) \cup Permutations({v1, v2})
=============================================================================

--------------------------- MODULE MCAnalysisQueue ---------------------------
(* Small instances of AnalysisQueue for TLC.                               *)
EXTENDS AnalysisQueue, TLC

CONSTANTS w1, w2, h1, h2, c1, c2, p1, p2, A, B, k

\* every purl names a package of its own
OwnPackage == [p \in Purl |-> IF p = p1 THEN A ELSE B]

\* Workers are interchangeable, threads are, and the two purls with their
\* packages: the group these exchanges generate (for OwnPackage only)
ExchangePurls == (p1 :> p2) @@ (p2 :> p1) @@ (A :> B) @@ (B :> A)
KeepPurls == [x \in {p1, p2, A, B} |-> x]
Symmetric == {f @@ g @@ e : f \in Permutations(Worker), g \in Permutations(Thread),
                            e \in {KeepPurls, ExchangePurls}}
==============================================================================

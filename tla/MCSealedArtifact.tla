--------------------------- MODULE MCSealedArtifact ---------------------------
(* SealedArtifact on small instances.                                      *)
EXTENDS SealedArtifact, TLC

Alike == Permutations(Program) \cup Permutations(Other)

\* Trees of up to nine leaves: the path of each leaf leads to the root, and trees
\* that differ in a leaf, or in how many they have, differ in their root.
Sample(n) == [i \in 1 .. n |-> Leaf(i - 1, "x")]

ASSUME PathsLeadToTheRoot ==
    \A n \in 1 .. 9 : \A i \in 0 .. n - 1 :
        Leads(Sample(n)[i + 1], AuditPath(Sample(n), i), Root(Sample(n)))

ASSUME RootsTellTreesApart ==
    /\ \A n, m \in 0 .. 9 : Root(Sample(n)) = Root(Sample(m)) => n = m
    /\ \A n \in 1 .. 9 : \A i \in 1 .. n :
        Root([Sample(n) EXCEPT ![i] = Leaf(i - 1, "y")]) # Root(Sample(n))
=============================================================================

----------------------------- MODULE MerkleTree -----------------------------
(***************************************************************************)
(* The hash tree of the transparency service (verify_portal/               *)
(* scitt_routes.py; epi_core/scitt.py has a copy for verifiers).  A hash   *)
(* is the term that was hashed, so two hashes are equal only if their      *)
(* preimages are.  A level of odd length pairs its last hash with itself.  *)
(***************************************************************************)
EXTENDS FiniteSets, Naturals, Sequences

Leaf(index, entry) == <<"leaf", index, entry>>

Node(left, right)  == <<"node", left, right>>

Empty == <<"empty">>

\* The level above, which halves the length.
Above(level) ==
    IF Len(level) <= 1 THEN level
    ELSE [i \in 1 .. (Len(level) + 1) \div 2 |->
            Node(level[2 * i - 1],
                 IF 2 * i <= Len(level) THEN level[2 * i] ELSE level[2 * i - 1])]

Levels(leaves) ==
    LET f[k \in 0 .. Len(leaves)] == IF k = 0 THEN leaves ELSE Above(f[k - 1])
    IN f

Root(leaves) ==
    IF leaves = <<>> THEN Empty ELSE Levels(leaves)[Len(leaves)][1]

Height(leaves) == Cardinality({k \in 0 .. Len(leaves) : Len(Levels(leaves)[k]) > 1})

\* The place of a leaf (counted from 0), and that of what is above it in each level.
Places(leaves, index) ==
    LET at[k \in 0 .. Len(leaves)] == IF k = 0 THEN index ELSE at[k - 1] \div 2
    IN at

\* The siblings on the way from the leaf to the root.
AuditPath(leaves, index) ==
    [k \in 1 .. Height(leaves) |->
        LET level == Levels(leaves)[k - 1]
            i     == Places(leaves, index)[k - 1]
        IN IF i % 2 = 1 THEN [hash |-> level[i], left |-> TRUE]
           ELSE [hash |-> IF i + 2 <= Len(level) THEN level[i + 2] ELSE level[i + 1],
                 left |-> FALSE]]

\* _verify_audit_path
Up(step, hash) ==
    IF step.left THEN Node(step.hash, hash) ELSE Node(hash, step.hash)

Hashes(leaf, path) ==
    LET h[k \in 0 .. Len(path)] == IF k = 0 THEN leaf ELSE Up(path[k], h[k - 1])
    IN h

Leads(leaf, path, root) == Hashes(leaf, path)[Len(path)] = root

=============================================================================

--------------------------- MODULE TransparencyLog ---------------------------
(***************************************************************************)
(* The transparency service (verify_portal/scitt_routes.py): it keeps the  *)
(* statements it was given in a table, and answers with a receipt that has *)
(* the place of the statement in a hash tree, the path from there to the   *)
(* root, and a signed head.  One process serves all requests, and a        *)
(* handler awaits nothing after it has read the body: it is one step.  The *)
(* insert and the head are one transaction; a crash before the commit      *)
(* leaves nothing, one after it loses the answer.                          *)
(***************************************************************************)
EXTENDS MerkleTree

CONSTANT Statement       \* what can be registered; it is its own hash

VARIABLES
    rows,                \* table entries, by tree_index
    heads                \* the heads signed so far

logVars == <<rows, heads>>

\* Anybody may have the head of the empty log.
LogInit == rows = <<>> /\ heads = {[size |-> 0, root |-> Empty]}

Leaves(table) == [i \in 1 .. Len(table) |-> Leaf(table[i].index, table[i].stmt)]

Known(stmt) == \E i \in 1 .. Len(rows) : rows[i].stmt = stmt

\* Mutant: the place in the receipt is counted from one.
Receipt_CountsFromOne(stmt) ==
    LET index  == Len(rows)
        leaves == Append(Leaves(rows), Leaf(index, stmt))
    IN [by |-> "remote", stmt |-> stmt, index |-> index + 1, size |-> Len(leaves),
        root |-> Root(leaves), path |-> AuditPath(leaves, index)]

\* The receipt for a statement that is about to be stored.
Receipt(stmt) ==
    LET index  == Len(rows)
        leaves == Append(Leaves(rows), Leaf(index, stmt))
    IN [by |-> "remote", stmt |-> stmt, index |-> index, size |-> Len(leaves),
        root |-> Root(leaves), path |-> AuditPath(leaves, index)]

SignedHead(receipt) == [size |-> receipt.size, root |-> receipt.root]

Store(stmt, table) ==
    /\ rows' = Append(table, [stmt |-> stmt, index |-> Len(rows), receipt |-> Receipt(stmt)])
    /\ heads' = heads \cup {SignedHead(Receipt(stmt))}

\* Mutant: INSERT OR REPLACE.
Register_Replace(stmt) == Store(stmt, SelectSeq(rows, LAMBDA row : row.stmt # stmt))

\* scitt_register.  entry_id, the statement's hash, is the primary key: the
\* insert fails if the statement is there already, and the answer is an error.
Register(stmt) == ~Known(stmt) /\ Store(stmt, rows)

Refuse(stmt) == Known(stmt) /\ UNCHANGED logVars

\* scitt_tree_head
TreeHead ==
    /\ heads' = heads \cup {[size |-> Len(rows), root |-> Root(Leaves(rows))]}
    /\ UNCHANGED rows

-----------------------------------------------------------------------------

\* The inclusion proof of a receipt holds (verify_scitt_receipt_with_proof).
Proves(receipt) == Leads(Leaf(receipt.index, receipt.stmt), receipt.path, receipt.root)

\* Who has a receipt can show that the statement is in the log: the path leads from
\* its place to the root, for whatever the number of entries was.
ReceiptsProve == \A i \in 1 .. Len(rows) : Proves(rows[i].receipt)

\* The log shows one history: the root in a receipt is the one of the log's
\* first `size` entries, the last of which is its statement, every signed head
\* is the root of a beginning of the log, and they stay so while it grows.
ReceiptsHold ==
    /\ \A i \in 1 .. Len(rows) :
        LET r == rows[i].receipt
        IN /\ r.size \in 1 .. Len(rows) /\ r.index = r.size - 1
           /\ rows[r.size].stmt = r.stmt
           /\ r.root = Root(Leaves(SubSeq(rows, 1, r.size)))
    /\ \A h \in heads :
        h.size \in 0 .. Len(rows) /\ h.root = Root(Leaves(SubSeq(rows, 1, h.size)))

=============================================================================

--------------------------- MODULE SealedArtifact ---------------------------
(***************************************************************************)
(* A sealed .epi file and the programs that change it afterwards: a human  *)
(* review is added (epi_core/review.py), the manifest is anchored in a     *)
(* transparency log (epi_recorder/auto_scitt.py; epi_cli/scitt.py), the    *)
(* viewer is refreshed and the file signed again (epi_core/container.py).  *)
(* Each reads the file more than once, builds a new one beside it and      *)
(* moves it into place, and takes no lock.  A program may die anywhere,    *)
(* and requests and answers may be late or lost.                           *)
(*                                                                         *)
(* A statement names the manifest without its signature and governance, so *)
(* it only changes with the body; its signature is deterministic.  The log *)
(* of the local service (epi_core/local_scitt.py) is left out: it is only  *)
(* told by the key that signs a receipt.                                   *)
(***************************************************************************)
EXTENDS TransparencyLog

CONSTANTS
    Program,       \* what runs on the file, each once; also names its review
    Command,       \* the commands that are run: a subset of Commands
    None,          \* no receipt, or no review
    Other,         \* statements that others register
    MaxRetries     \* attempts of an automatic anchoring

Commands == {"review", "anchor", "register", "local", "refresh"}

Body == 0 .. Cardinality(Program)

ASSUME ArtifactAssumption ==
    /\ Command \subseteq Commands
    /\ None \notin Program
    /\ Other \cup Body \subseteq Statement
    /\ MaxRetries \in Nat \ {0}

VARIABLES
    file,      \* the artifact
    kind,      \* which command a program is
    pc,        \* where it is
    seen,      \* the file as it was when the program read manifest and reviews
    copy,      \* the payload that it rewrites
    got,       \* the receipt that it will embed
    tries,     \* attempts to register
    net,       \* requests on their way
    replies,   \* answers on their way
    mixed,     \* history: programs that rewrote the file while another did
    lone       \* history: reviews of programs that did not

wires == <<tries, net, replies>>
history == <<mixed, lone>>
vars == <<logVars, file, kind, pc, seen, copy, got, wires, history>>

\* The manifest (its body, whether it has a governance section, the service named
\* there), the receipt, the reviews and the latest one.  A session writes the
\* section if it was given an identity (did_web).
Sealed(governed) ==
    [body |-> 0, governed |-> governed, scitt |-> "none", receipt |-> None,
     ledger |-> {}, latest |-> None]

NoFile == Sealed(FALSE)

Init ==
    /\ LogInit
    /\ \E governed \in BOOLEAN : file = Sealed(governed)
    /\ kind = [p \in Program |-> None] /\ pc = [p \in Program |-> "start"]
    /\ seen = [p \in Program |-> NoFile] /\ copy = [p \in Program |-> NoFile]
    /\ got = [p \in Program |-> None]
    /\ tries = [p \in Program |-> 0] /\ net = {} /\ replies = {}
    /\ mixed = {} /\ lone = {}

Go(p, place) == pc' = [pc EXCEPT ![p] = place]

\* A program that has ended leaves nothing but the new file, if it got that far.
End(p, place) ==
    /\ Go(p, place)
    /\ seen' = [seen EXCEPT ![p] = NoFile] /\ copy' = [copy EXCEPT ![p] = NoFile]
    /\ got' = [got EXCEPT ![p] = None]
    /\ replies' = {m \in replies : m.to # p}

\* Programs that have read what the new file's reviews will be made of.  One that
\* waits for the service has only read the manifest.
AtWork == {p \in Program :
    pc[p] = "rewrite" \/ (kind[p] = "review" /\ pc[p] = "loaded")}

StartsWork(p) ==
    mixed' = IF AtWork \ {p} = {} THEN mixed ELSE mixed \cup AtWork \cup {p}

-----------------------------------------------------------------------------

\* A command is run on the file.  It reads the manifest, and the reviews.
Load(p, command) ==
    /\ pc[p] = "start" /\ Go(p, "loaded")
    /\ kind' = [kind EXCEPT ![p] = command]
    /\ seen' = [seen EXCEPT ![p] = file]
    /\ IF command = "review" THEN StartsWork(p) ELSE UNCHANGED mixed
    /\ UNCHANGED <<logVars, file, copy, got, wires, lone>>

Attempts(p) ==
    CASE kind[p] = "anchor" -> MaxRetries [] kind[p] = "register" -> 1 [] OTHER -> 0

\* SCITTServiceClient.register: one attempt.
Send(p) ==
    /\ pc[p] = "loaded" /\ tries[p] < Attempts(p) /\ Go(p, "waiting")
    /\ tries' = [tries EXCEPT ![p] = @ + 1]
    /\ net' = net \cup {[from |-> p, try |-> tries[p] + 1, stmt |-> seen[p].body]}
    /\ UNCHANGED <<logVars, kind, file, seen, copy, got, replies, history>>

\* Mutant: a statement that is known gets another receipt, which is not stored.
Serve_Again(m) ==
    /\ m \in net /\ net' = net \ {m}
    /\ LET answers(receipt) ==
            IF pc[m.from] = "waiting" /\ tries[m.from] = m.try
            THEN {[to |-> m.from, receipt |-> receipt]} ELSE {}
       IN \/ Register(m.stmt) /\ replies' = replies \cup answers(Receipt(m.stmt))
          \/ Refuse(m.stmt) /\ replies' = replies \cup answers(Receipt(m.stmt))
    /\ UNCHANGED <<kind, file, pc, seen, copy, got, tries, history>>

\* The service handles a request, though the client may have given up on it.
Serve(m) ==
    /\ m \in net /\ net' = net \ {m}
    /\ LET answers(receipt) ==
            IF pc[m.from] = "waiting" /\ tries[m.from] = m.try
            THEN {[to |-> m.from, receipt |-> receipt]} ELSE {}
       IN \/ Register(m.stmt) /\ replies' = replies \cup answers(Receipt(m.stmt))
          \/ Refuse(m.stmt) /\ replies' = replies \cup answers(None)
    /\ UNCHANGED <<kind, file, pc, seen, copy, got, tries, history>>

\* The anchoring assigns into the manifest's governance, which may be None.
Governed(p) == seen[p].governed

Accept(p, m) ==
    /\ pc[p] = "waiting" /\ m.to = p /\ m.receipt # None
    /\ kind[p] = "anchor" => Governed(p)
    /\ Go(p, "registered")
    /\ got' = [got EXCEPT ![p] = m.receipt]
    /\ replies' = replies \ {m}
    /\ UNCHANGED <<logVars, kind, file, seen, copy, tries, net, history>>

\* An error, or no answer: the next attempt, with the same statement.
Retry(p) ==
    /\ pc[p] = "waiting" /\ tries[p] < Attempts(p) /\ Go(p, "loaded")
    /\ replies' = {m \in replies : m.to # p}
    /\ UNCHANGED <<logVars, kind, file, seen, copy, got, tries, net, history>>

\* The last attempt failed, or there is no governance section.
Fail(p) ==
    /\ pc[p] = "waiting" /\ End(p, "failed")
    /\ \/ tries[p] = Attempts(p)
       \/ /\ kind[p] = "anchor" /\ ~Governed(p)
          /\ \E m \in replies : m.to = p /\ m.receipt # None
    /\ UNCHANGED <<logVars, kind, file, tries, net, history>>

\* local_scitt.register_statement
LocalReceipt(stmt) == [by |-> "local", stmt |-> stmt]

\* _build_scitt_artifact: the command line registers the statement once more, with
\* the local service, and embeds the receipt it gets from there.
RegisterLocally(p) ==
    /\ \/ kind[p] = "register" /\ pc[p] = "registered"
       \/ kind[p] = "local" /\ pc[p] = "loaded"
    /\ Go(p, "receipted")
    /\ got' = [got EXCEPT ![p] = LocalReceipt(seen[p].body)]
    /\ UNCHANGED <<logVars, kind, file, seen, copy, wires, history>>

Embeds == {"anchor", "register", "local"}

\* Mutant: a program takes the payload that it saw when it started.
Copy_Seen(p) ==
    /\ kind[p] \in Embeds =>
        \A q \in Program \ {p} : kind[q] \in Embeds => pc[q] # "rewrite"
    /\ \/ kind[p] \in {"review", "refresh"} /\ pc[p] = "loaded"
       \/ kind[p] = "anchor" /\ pc[p] = "registered"
       \/ pc[p] = "receipted"
    /\ Go(p, "rewrite")
    /\ copy' = [copy EXCEPT ![p] = seen[p]]
    /\ StartsWork(p)
    /\ UNCHANGED <<logVars, kind, file, seen, got, wires, lone>>

\* The payload is copied, or read while the new one is written.  Not modelled: two
\* programs that embed at the same time, which would share a temporary file.
Copy(p) ==
    /\ kind[p] \in Embeds =>
        \A q \in Program \ {p} : kind[q] \in Embeds => pc[q] # "rewrite"
    /\ \/ kind[p] \in {"review", "refresh"} /\ pc[p] = "loaded"
       \/ kind[p] = "anchor" /\ pc[p] = "registered"
       \/ pc[p] = "receipted"
    /\ Go(p, "rewrite")
    /\ copy' = [copy EXCEPT ![p] = file]
    /\ StartsWork(p)
    /\ UNCHANGED <<logVars, kind, file, seen, got, wires, lone>>

-----------------------------------------------------------------------------
(* The new file is moved into place.                                       *)

Ids(records) == {r.id : r \in records}

Tails(records) == {r \in records : \A q \in records : q.prev # r.id}

\* Mutant: the record with the latest date, whether another follows it or not.
Latest_ByDate(records) == IF records = {} THEN {None} ELSE Ids(records)

\* _latest_v11_record: the record that no other follows or, if there are several,
\* the one with the latest date.  A review is dated when it is written, which may
\* be long before it is added.
Latest(records) ==
    IF records = {} THEN {None}
    ELSE IF Cardinality(Tails(records)) = 1 THEN Ids(Tails(records))
    ELSE Ids(records)

Replace(p, new) ==
    /\ pc[p] = "rewrite" /\ End(p, "done")
    /\ file' = new
    /\ UNCHANGED <<logVars, kind, tries, net, mixed>>

\* The payload with these records, and what it holds besides.
Reviewed(payload, records, last) ==
    [payload EXCEPT
        !.ledger = records \cup {r \in @ : r.id \notin Ids(records)},
        !.latest = last]

\* Mutant: only the new record is written.
AddReview_NewOnly(p) ==
    \E previous \in Latest(seen[p].ledger) :
        /\ kind[p] = "review"
        /\ Replace(p, Reviewed(
                [copy[p] EXCEPT !.ledger = {r \in @ : r.id \notin Ids(seen[p].ledger)}],
                {[id |-> p, prev |-> previous]}, p))
        /\ lone' = IF p \in mixed THEN lone ELSE lone \cup {p}

\* add_review_to_artifact: the records read at the start, and the new one.
AddReview(p) ==
    \E previous \in Latest(seen[p].ledger) :
        LET records == seen[p].ledger \cup {[id |-> p, prev |-> previous]}
        IN /\ kind[p] = "review"
           /\ \E last \in Latest(records) : Replace(p, Reviewed(copy[p], records, last))
           /\ lone' = IF p \in mixed THEN lone ELSE lone \cup {p}

\* The manifest is the one read at the start, signed again.
Embed(p) ==
    /\ kind[p] \in Embeds
    /\ Replace(p, [copy[p] EXCEPT
            !.body = seen[p].body, !.governed = TRUE,
            !.scitt = IF kind[p] = "local" THEN "local" ELSE "remote",
            !.receipt = got[p]])
    /\ UNCHANGED lone

\* refresh_viewer: the manifest read at the start, with the new viewer's hash.
Refresh(p) ==
    LET body == 1 + Cardinality({q \in Program : kind[q] = "refresh" /\ pc[q] = "done"})
    IN /\ kind[p] = "refresh"
       /\ Replace(p, [copy[p] EXCEPT
            !.body = body, !.governed = seen[p].governed, !.scitt = seen[p].scitt])
       /\ UNCHANGED lone

-----------------------------------------------------------------------------

Die(p) ==
    /\ pc[p] \notin {"start", "done", "failed", "dead"} /\ End(p, "dead")
    /\ UNCHANGED <<logVars, kind, file, tries, net, history>>

\* Somebody else registers a statement, or asks for the head.
Others ==
    /\ \/ \E stmt \in Other : Register(stmt)
       \/ TreeHead
    /\ UNCHANGED <<kind, file, pc, seen, copy, got, wires, history>>

Step(p) ==
    \/ \E command \in Command : Load(p, command)
    \/ Send(p) \/ Retry(p) \/ Fail(p) \/ RegisterLocally(p) \/ Copy(p)
    \/ AddReview(p) \/ Embed(p) \/ Refresh(p) \/ Die(p)
    \/ \E m \in replies : Accept(p, m)

Next == (\E p \in Program : Step(p)) \/ (\E m \in net : Serve(m)) \/ Others

Spec == Init /\ [][Next]_vars

-----------------------------------------------------------------------------

\* epi verify: the receipt is for the body, and is signed with the key of the
\* service that the manifest names.
Transparent ==
    /\ file.scitt # "none" /\ file.receipt # None
    /\ file.receipt.stmt = file.body /\ file.receipt.by = file.scitt

\* _verify_v11_chain, and the pointer to the latest review
ChainValid ==
    file.ledger # {} =>
        /\ Cardinality({r \in file.ledger : r.prev = None}) = 1
        /\ Ids(Tails(file.ledger)) = {file.latest}

\* A file that passes the transparency check of a service is in that service's
\* log, whatever was retried, lost, refreshed or overwritten before.
TransparentIsLogged ==
    Transparent /\ file.scitt = "remote" =>
        \E i \in 1 .. Len(rows) : rows[i].receipt = file.receipt

\* A review names the one it follows, and that one is in the file, even if
\* programs at work together have overwritten what others wrote.
ReviewsHaveAncestors ==
    \A r \in file.ledger : r.prev # None => r.prev \in Ids(file.ledger)

\* A review that was added while no other program was at work is never lost.
LoneReviewIsKept == lone \subseteq Ids(file.ledger)

\* If no two programs rewrite the file at the same time, the reviews form one
\* chain that ends in the latest, also if a program dies, or one that waits for
\* the service goes on with a manifest that others have replaced.
SerialChainIsValid == mixed = {} => ChainValid

=============================================================================

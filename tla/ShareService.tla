---------------------------- MODULE ShareService ----------------------------
(***************************************************************************)
(* Hosted share links of the gateway (epi_gateway/share.py).               *)
(*                                                                         *)
(* A link is a row of table shares and an object, a file below             *)
(* shared-objects, and no transaction spans the two.  An upload passes the *)
(* rate limiter, the client's quota and the inspection of the artifact,    *)
(* then the object is written and the row inserted.  A link that is opened *)
(* too late is refused; that marks every row that is due as deleted, and   *)
(* removes the object of this link.  A start of the gateway does the same  *)
(* and removes the objects of all the rows it marks.                       *)
(*                                                                         *)
(* The routes are coroutines that do not await inside the service, so one  *)
(* request runs at a time; a crash can come between two steps of it.       *)
(* Requests that change nothing (a link that is unknown or still valid, an *)
(* upload over the size limit) are left out.                               *)
(***************************************************************************)
EXTENDS Naturals, Sequences, FiniteSetsExt

CONSTANTS
    Share,       \* share ids, each drawn once (secrets.token_urlsafe)
    Client,      \* clients, by the address they upload from
    Size,        \* sizes of uploads up to max_upload_bytes
    Lifetime,    \* expires_days from 1 to max_expiry_days
    RateSpan,    \* length of the rate limiter's window: an hour
    RateLimit,   \* uploads a client may try in it
    QuotaSpan,   \* length of the quota's window: 30 days
    Quota,       \* bytes a client may store in it
    Horizon,     \* bound: the last time
    MaxBoots,    \* bound: starts of the gateway
    MaxFaults    \* bound: operations on object or row that fail

ASSUME ShareAssumption ==
    /\ Size \subseteq Nat /\ Lifetime \subseteq Nat \ {0}
    /\ {RateSpan, RateLimit, QuotaSpan, Quota} \subseteq Nat
    /\ {Horizon, MaxBoots, MaxFaults} \subseteq Nat

VARIABLES
    now,        \* the clock
    boot,       \* starts so far
    phase,      \* "down", "start" while expired links are pruned, "up"
    rows,       \* table shares: a row for each share id that has one
    objects,    \* objects[s]: the stored file, "none", "part" or "whole"
    hits,       \* hits[c]: the rate limiter's deque of c's uploads
    at,         \* place in the request or in the start that is running
    upload,     \* the record that create_share is about to insert
    todo,       \* shares whose objects are about to be deleted
    faults      \* failed operations so far

vars == <<now, boot, phase, rows, objects, hits, at, upload, todo, faults>>

Row == [client : Client, size : Size, created : Nat, expires : Nat,
        deleted : BOOLEAN]

NoUpload == [share |-> "none"]

Live(s) == s \in DOMAIN rows /\ ~rows[s].deleted

\* list_expired: the rows that are due.
Due == {s \in DOMAIN rows : Live(s) /\ rows[s].expires <= now}

\* Mutant: the quota forgets links that are gone.
Counted_LiveOnly(c) == {s \in DOMAIN rows : rows[s].client = c /\ Live(s)}

\* quota_bytes_since: every row of the last 30 days counts, deleted or not.
Counted(c) ==
    {s \in DOMAIN rows : rows[s].client = c /\ rows[s].created + QuotaSpan >= now}

Used(c) == MapThenSumSet(LAMBDA s : rows[s].size, Counted(c))

Init ==
    /\ now = 0 /\ boot = 0 /\ phase = "down"
    /\ rows = [s \in {} |-> s]
    /\ objects = [s \in Share |-> "none"]
    /\ hits = [c \in Client |-> <<>>]
    /\ at = "idle" /\ upload = NoUpload /\ todo = {} /\ faults = 0

Fails == faults < MaxFaults /\ faults' = faults + 1

Works == UNCHANGED faults

Idle == phase = "up" /\ at = "idle"

Done == at' = "idle" /\ upload' = NoUpload /\ todo' = {}

-----------------------------------------------------------------------------
(* An upload: create_share.                                                *)

\* is_allowed: the hits that still count.
Recent(c) == SelectSeq(hits[c], LAMBDA t : t + RateSpan > now)

\* A hit is counted although the upload may be refused later.
Admit(c) ==
    /\ Len(Recent(c)) < RateLimit
    /\ hits' = [hits EXCEPT ![c] = Append(Recent(c), now)]

\* The quota and the lifetime are checked before the artifact is inspected.
BeginUpload(c, n, d) ==
    /\ Idle /\ Admit(c)
    /\ Used(c) + n <= Quota
    /\ at' = "inspect"
    /\ upload' = [share |-> "none", client |-> c, size |-> n, days |-> d]
    /\ UNCHANGED <<now, boot, phase, rows, objects, todo, faults>>

\* Over the quota, or a lifetime that is not allowed.
RefuseUpload(c) ==
    /\ Idle /\ Admit(c)
    /\ UNCHANGED <<now, boot, phase, rows, objects, at, upload, todo, faults>>

\* The inspection accepts the artifact: a new id, created_at and expires_at.
Accept(s) ==
    /\ at = "inspect"
    /\ s \notin DOMAIN rows /\ objects[s] = "none"
    /\ upload' = [share |-> s,
                  row |-> [client |-> upload.client, size |-> upload.size,
                           created |-> now, expires |-> now + upload.days,
                           deleted |-> FALSE]]
    /\ at' = "put"
    /\ UNCHANGED <<now, boot, phase, rows, objects, hits, todo, faults>>

\* ArtifactInspectionError.
Reject ==
    /\ at = "inspect" /\ Done
    /\ UNCHANGED <<now, boot, phase, rows, objects, hits, faults>>

\* write_bytes opens the file before it writes ...
OpenObject ==
    /\ at = "put" /\ at' = "write"
    /\ objects' = [objects EXCEPT ![upload.share] = "part"]
    /\ UNCHANGED <<now, boot, phase, rows, hits, upload, todo, faults>>

\* ... and may fail half-way, which leaves what it wrote.
WriteObject ==
    /\ at = "write"
    /\ \/ /\ Works /\ at' = "insert"
          /\ objects' = [objects EXCEPT ![upload.share] = "whole"]
          /\ UNCHANGED <<upload, todo>>
       \/ Fails /\ Done /\ UNCHANGED objects
    /\ UNCHANGED <<now, boot, phase, rows, hits>>

Inserted == [s \in DOMAIN rows \cup {upload.share} |->
                IF s = upload.share THEN upload.row ELSE rows[s]]

\* The row makes the link valid; the answer to the client follows.
InsertRow ==
    /\ at = "insert" /\ Done
    /\ \/ Works /\ rows' = Inserted
       \/ Fails /\ UNCHANGED rows
    /\ UNCHANGED <<now, boot, phase, objects, hits>>

-----------------------------------------------------------------------------
(* Links that have expired.                                                *)

\* mark_expired
Marked == [s \in DOMAIN rows |-> IF s \in Due
                                 THEN [rows[s] EXCEPT !.deleted = TRUE]
                                 ELSE rows[s]]

\* Mutant: the object of a late link goes, and its row stays.
ExpireLink_Unmarked(s) ==
    /\ Idle /\ s \in DOMAIN rows
    /\ rows[s].deleted \/ rows[s].expires <= now
    /\ todo' = {s} /\ at' = "delete"
    /\ UNCHANGED <<now, boot, phase, rows, objects, hits, upload, faults>>

\* A link is opened too late (_resolve_record): every row that is due is marked.
ExpireLink(s) ==
    /\ Idle /\ s \in DOMAIN rows
    /\ rows[s].deleted \/ rows[s].expires <= now
    /\ rows' = Marked
    /\ todo' = {s} /\ at' = "delete"
    /\ UNCHANGED <<now, boot, phase, objects, hits, upload, faults>>

\* _expire_record deletes the object of this link and swallows a failure.
DeleteObject ==
    /\ at = "delete" /\ Done
    /\ \/ /\ Works
          /\ objects' = [s \in Share |-> IF s \in todo THEN "none" ELSE objects[s]]
       \/ Fails /\ UNCHANGED objects
    /\ UNCHANGED <<now, boot, phase, rows, hits>>

-----------------------------------------------------------------------------
(* The life of the gateway.                                                *)

\* The limiter's windows are in memory.
Boot ==
    /\ phase = "down" /\ boot < MaxBoots
    /\ boot' = boot + 1 /\ phase' = "start"
    /\ hits' = [c \in Client |-> <<>>]
    /\ UNCHANGED <<now, rows, objects, at, upload, todo, faults>>

\* prune_expired marks the rows that are due ...
BeginPrune ==
    /\ phase = "start" /\ at = "idle"
    /\ rows' = Marked /\ todo' = Due /\ at' = "prune"
    /\ UNCHANGED <<now, boot, phase, objects, hits, upload, faults>>

\* ... and deletes their objects in the order they expired, whatever fails.
PruneObject(s) ==
    /\ at = "prune" /\ s \in todo
    /\ \A t \in todo : rows[s].expires <= rows[t].expires
    /\ \/ Works /\ objects' = [objects EXCEPT ![s] = "none"]
       \/ Fails /\ UNCHANGED objects
    /\ todo' = todo \ {s}
    /\ UNCHANGED <<now, boot, phase, rows, hits, at, upload>>

EndPrune ==
    /\ at = "prune" /\ todo = {}
    /\ Done /\ phase' = "up"
    /\ UNCHANGED <<now, boot, rows, objects, hits, faults>>

\* The process goes down, in order or not.
Crash ==
    /\ phase # "down" /\ boot < MaxBoots
    /\ phase' = "down" /\ Done
    /\ UNCHANGED <<now, boot, rows, objects, hits, faults>>

Tick ==
    /\ now < Horizon /\ now' = now + 1
    /\ UNCHANGED <<boot, phase, rows, objects, hits, at, upload, todo, faults>>

Next ==
    \/ \E c \in Client, n \in Size, d \in Lifetime : BeginUpload(c, n, d)
    \/ \E c \in Client : RefuseUpload(c)
    \/ \E s \in Share : Accept(s) \/ ExpireLink(s) \/ PruneObject(s)
    \/ Reject \/ OpenObject \/ WriteObject \/ InsertRow \/ DeleteObject
    \/ Boot \/ BeginPrune \/ EndPrune \/ Crash \/ Tick

Spec == Init /\ [][Next]_vars

-----------------------------------------------------------------------------

TypeOK ==
    /\ now \in Nat /\ boot \in Nat /\ faults \in Nat
    /\ phase \in {"down", "start", "up"}
    /\ DOMAIN rows \subseteq Share /\ rows \in [DOMAIN rows -> Row]
    /\ objects \in [Share -> {"none", "part", "whole"}]
    /\ hits \in [Client -> Seq(Nat)]
    /\ at \in {"idle", "inspect", "put", "write", "insert", "delete", "prune"}
    /\ at = "inspect" => /\ upload.client \in Client /\ upload.size \in Size
                         /\ upload.days \in Lifetime
    /\ at \in {"put", "write", "insert"} => upload.share \in Share /\ upload.row \in Row
    /\ todo \subseteq DOMAIN rows

\* A link works until it is marked as deleted: whatever fails and wherever the
\* gateway crashes, a row that is not deleted has its whole object (put_bytes
\* before insert, mark_expired before delete).
LinkServesCase == \A s \in Share : Live(s) => objects[s] = "whole"

\* What a client has stored within any 30 days stays within its quota, however
\* often its links expire, its uploads fail or the gateway restarts.
QuotaHolds ==
    \A c \in Client, t \in 0 .. now :
        LET window == {s \in DOMAIN rows : /\ rows[s].client = c
                                         /\ rows[s].created \in t .. t + QuotaSpan}
        IN MapThenSumSet(LAMBDA s : rows[s].size, window) <= Quota

=============================================================================

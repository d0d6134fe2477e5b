------------------------------ MODULE Catalog ------------------------------
(***************************************************************************)
(* What the public sees of a template: the index, the documents and the    *)
(* pictures, served by routes/templates.py from template_submissions and   *)
(* template_authors and kept in HTTP caches for the max-age they are sent  *)
(* with.                                                                   *)
(*                                                                         *)
(* The index and a document first read rows and then, in a transaction of  *)
(* its own, their authors; the install counts of the index are left out.   *)
(* An answer is received later than it was read, and its age counts from   *)
(* then.  Every install has one template, and a status set by set_status;  *)
(* rejected and revoked are "closed".  Times are ticks.                    *)
(***************************************************************************)
EXTENDS AuthorIdentity

CONSTANTS
    CatalogAge,  \* max-age of the index and of documents
    PictureAge,  \* max-age of a picture
    MaxTime      \* bound

ASSUME AgesKnown == CatalogAge \in Nat /\ PictureAge \in Nat /\ MaxTime \in Nat

VARIABLES
    clock,
    status,    \* of the template, once it is submitted
    closedAt,  \* history: when it was rejected or revoked last
    fetch,     \* requests for a resource: what was read, and when
    copy       \* the answers the caches have, with the authors they name

catalogVars == <<clock, status, closedAt, fetch, copy>>

-----------------------------------------------------------------------------

Index == <<"index", None>>
Resource == {Index} \cup {"document", "picture"} \X Install
Statuses == {"pending", "approved", "closed"}

Fetch(reading, read, entries) == [reading |-> reading, read |-> read, entries |-> entries]
NoFetch == Fetch(FALSE, 0, {})

\* received and read are times; authors: <<install, name>>
Copy(received, read, entries, authors) ==
    [received |-> received, read |-> read, entries |-> entries, authors |-> authors]

CatalogInit ==
    /\ clock = 0
    /\ status = [i \in Install |-> "pending"]
    /\ closedAt = [i \in Install |-> 0]
    /\ fetch = [r \in Resource |-> NoFetch]
    /\ copy = [r \in Resource |-> Copy(0, 0, {}, {})]

Submitted == {i \in Install : \E c \in credited : c[1] = i}

\* set_status, from the review channel or the command line.
Decide(i, new) ==
    /\ i \in Submitted
    /\ status[i] # new
    /\ status' = [status EXCEPT ![i] = new]
    /\ closedAt' = IF new = "closed" THEN [closedAt EXCEPT ![i] = clock] ELSE closedAt
    /\ UNCHANGED <<clock, fetch, copy>>

Lifetime(r) == IF r[1] = "picture" THEN PictureAge ELSE CatalogAge
Fresh(r) == clock - copy[r].received <= Lifetime(r)

Read(r, entries) ==
    /\ ~fetch[r].reading
    /\ fetch' = [fetch EXCEPT ![r] = Fetch(TRUE, clock, entries)]
    /\ UNCHANGED <<clock, status, closedAt, copy>>

\* Mutation: the filter on the status is missing.
ListSubmitted == Submitted

\* list_approved
Listed == {i \in Submitted : status[i] = "approved"}

ReadIndex == Read(Index, Listed)

\* template_doc
ReadDocument(i) == i \in Listed /\ Read(<<"document", i>>, {i})

\* A picture is for reviewers, too.
Pictured == {i \in Submitted : status[i] \in {"pending", "approved"}}

ReadPicture(i) == i \in Pictured /\ Read(<<"picture", i>>, {i})

\* authors_by_install for the rows that were read.
Authors(r) == {<<i, DisplayName(i)>> : i \in fetch[r].entries}

\* The answer, at the one who keeps it.
Receive(r, authors) ==
    /\ fetch[r].reading
    /\ copy' = [copy EXCEPT ![r] = Copy(clock, fetch[r].read, fetch[r].entries, authors)]
    /\ fetch' = [fetch EXCEPT ![r] = NoFetch]
    /\ UNCHANGED <<clock, status, closedAt>>

ReceiveNamed(r) == r[1] # "picture" /\ Receive(r, Authors(r))

ReceivePicture(r) == r[1] = "picture" /\ Receive(r, {})

Tick ==
    /\ clock < MaxTime
    /\ clock' = clock + 1
    /\ UNCHANGED <<status, closedAt, fetch, copy>>

Browse ==
    \/ \E i \in Install, new \in {"approved", "closed"} : Decide(i, new)
    \/ ReadIndex
    \/ \E i \in Install : ReadDocument(i) \/ ReadPicture(i)
    \/ \E r \in Resource : ReceiveNamed(r) \/ ReceivePicture(r)
    \/ Tick

CatalogNext ==
    \/ IdentityNext /\ UNCHANGED catalogVars
    \/ Browse /\ UNCHANGED identityVars

CatalogSpec ==
    IdentityInit /\ CatalogInit /\ [][CatalogNext]_<<identityVars, catalogVars>>

-----------------------------------------------------------------------------
(* Properties.                                                             *)

\* The index and the documents name every template's author, by the name its
\* submission was answered with or one the maintainer gave: the author's row is
\* there before the template's, and both are before it is listed
\* (templates.py:291-293, :468).
EntriesCredited ==
    \A r \in Resource : r[1] # "picture" =>
        \A i \in copy[r].entries :
            \E a \in copy[r].authors : a[1] = i /\ (a[2] \in Custom \/ a \in credited)

\* A template that was taken down is seen in no cache for longer than the
\* max-age of what shows it and the time the answer took (templates.py:315,
\* :329, :475).
TakedownShows ==
    \A r \in Resource : Fresh(r) =>
        \A i \in copy[r].entries :
            status[i] = "closed" =>
                clock - closedAt[i] <= Lifetime(r) + (copy[r].received - copy[r].read)

\* What was read at a time was public then.
ReadSoundly(read, entries) ==
    /\ read \in 0..clock
    /\ entries \subseteq Submitted
    /\ \A i \in entries : status[i] = "closed" => closedAt[i] >= read

CatalogTypes ==
    /\ clock \in Nat
    /\ status \in [Install -> Statuses]
    /\ closedAt \in [Install -> Nat]
    /\ fetch \in [Resource -> [reading : BOOLEAN, read : Nat, entries : SUBSET Install]]
    /\ copy \in [Resource -> [received : Nat, read : Nat, entries : SUBSET Install,
                              authors : SUBSET (Install \X (Nat \cup Custom))]]

\* The inductive invariant of what is read and kept.
CatalogInv ==
    /\ CatalogTypes
    /\ \A i \in Install : closedAt[i] <= clock
    /\ \A r \in Resource :
          /\ ReadSoundly(fetch[r].read, fetch[r].entries)
          /\ ReadSoundly(copy[r].read, copy[r].entries)
          /\ copy[r].read <= copy[r].received
    /\ EntriesCredited
=============================================================================

--------------------------- MODULE AuthorIdentity ---------------------------
(***************************************************************************)
(* The name an install publishes under: pseudonym.py, template_authors in  *)
(* templates_store.py, and their callers: submit_template and              *)
(* template_author in routes/templates.py, `sponsor` in moderate.py.       *)
(*                                                                         *)
(* The secret, unless it is configured, is a file the first request makes: *)
(* it is read, opened (which truncates it) and written, and threads        *)
(* interleave in between.  Random secrets are numbered as they are drawn;  *)
(* an empty file is a missing one.  derive is injective here: a pseudonym  *)
(* is the number of its secret.                                            *)
(***************************************************************************)
EXTENDS Integers

CONSTANTS
    Install,
    Thread,      \* threads that serve requests
    None,        \* no row, no install
    Custom,      \* names a maintainer may give
    MaxSecrets,  \* bound: random secrets drawn
    MaxLosses    \* bound: times the data directory is lost

ASSUME NoneIsNothing == None \notin Install \cup Nat
ASSUME CustomIsNoPseudonym == Custom \cap (Nat \cup {None}) = {}
ASSUME IdentityBounds == MaxSecrets \in Nat /\ MaxLosses \in Nat

VARIABLES
    configured,  \* TESSERAE_AUTHOR_SECRET is set; its number is 0
    secretFile,  \* data_dir/author_secret: a secret, 0 for empty or missing
    drawn,       \* random secrets so far
    request,     \* the threads, with their locals
    pseudonym,   \* template_authors: per install its pseudonym
    perks,       \* and <<sponsor, custom_name>>, None for NULL
    losses,
    shown,       \* history: <<install, name>> of previews
    credited,    \* history: <<install, pseudonym>> of the author rows accepted
                 \* submissions were answered from
    raced        \* history: two threads made the file together, or it was lost

identityVars ==
    <<configured, secretFile, drawn, request, pseudonym, perks, losses, shown, credited, raced>>
rowVars == <<pseudonym, perks>>
secretVars == <<secretFile, drawn, raced>>
answerVars == <<shown, credited>>

-----------------------------------------------------------------------------

Making == {"open", "write"}
Deriving == {"ensure", "insert"}
IdentityPhases == {"idle", "preview", "secret", "submission"} \cup Making \cup Deriving

\* name: the pseudonym, or the secret to derive it from, as far as it is known
Locals(pc, install, publish, name) ==
    [pc |-> pc, install |-> install, publish |-> publish, name |-> name]
Quiet == Locals("idle", None, FALSE, 0)

At(t, pc) == request[t].pc = pc
Author(t) == request[t].install
Continue(t, pc, name) ==
    request' = [request EXCEPT ![t] = Locals(pc, Author(t), request[t].publish, name)]
EndRequest(t) == request' = [request EXCEPT ![t] = Quiet]

IdentityInit ==
    /\ configured \in BOOLEAN
    /\ secretFile = 0 /\ drawn = 0 /\ losses = 0
    /\ request = [t \in Thread |-> Quiet]
    /\ pseudonym = [i \in Install |-> None]
    /\ perks = [i \in Install |-> <<FALSE, None>>]
    /\ shown = {} /\ credited = {}
    /\ raced = FALSE

\* A submission that passed its quotas, or a preview, which looks for the
\* install's row before it derives.
Begin(t, i, publish) ==
    /\ At(t, "idle")
    /\ request' = [request EXCEPT ![t] =
                      Locals(IF publish THEN "secret" ELSE "preview", i, publish, 0)]
    /\ UNCHANGED <<configured, losses, rowVars, secretVars, answerVars>>

\* Mutation: a sponsor without a name of their own has none.
DisplayNameOfSponsor(i) == IF perks[i][1] THEN perks[i][2] ELSE pseudonym[i]

\* author_display: a sponsor's own name if there is one.
DisplayName(i) == IF perks[i][1] /\ perks[i][2] # None THEN perks[i][2] ELSE pseudonym[i]

Preview(t, name) == shown' = shown \cup {<<Author(t), name>>} /\ EndRequest(t)

PreviewStored(t) ==
    /\ At(t, "preview")
    /\ pseudonym[Author(t)] # None
    /\ Preview(t, DisplayName(Author(t)))
    /\ UNCHANGED <<configured, losses, rowVars, secretVars, credited>>

PreviewUnknown(t) ==
    /\ At(t, "preview")
    /\ pseudonym[Author(t)] = None
    /\ Continue(t, "secret", 0)
    /\ UNCHANGED <<configured, losses, rowVars, secretVars, answerVars>>

-----------------------------------------------------------------------------
(* load_or_create_secret.                                                  *)

\* With a secret, the pseudonym is derived and stored or answered.
Derive(t, secret) ==
    \/ request[t].publish /\ Continue(t, "ensure", secret) /\ UNCHANGED shown
    \/ ~request[t].publish /\ Preview(t, secret)

\* The configured secret, or what the file holds.
ReadSecret(t) ==
    /\ At(t, "secret")
    /\ configured \/ secretFile # 0
    /\ Derive(t, IF configured THEN 0 ELSE secretFile)
    /\ UNCHANGED <<configured, losses, rowVars, secretVars, credited>>

\* Mutation: a file that is there is not taken for an answer.
DrawSecretAlways(t) ==
    /\ At(t, "secret")
    /\ ~configured
    /\ drawn < MaxSecrets
    /\ drawn' = drawn + 1
    /\ Continue(t, "open", drawn + 1)
    /\ raced' = (raced \/ \E u \in Thread : request[u].pc \in Making)
    /\ UNCHANGED <<configured, losses, rowVars, secretFile, answerVars>>

DrawSecret(t) ==
    /\ At(t, "secret")
    /\ ~configured /\ secretFile = 0
    /\ drawn < MaxSecrets
    /\ drawn' = drawn + 1
    /\ Continue(t, "open", drawn + 1)
    /\ raced' = (raced \/ \E u \in Thread : request[u].pc \in Making)
    /\ UNCHANGED <<configured, losses, rowVars, secretFile, answerVars>>

OpenFile(t) ==
    /\ At(t, "open")
    /\ secretFile' = 0
    /\ Continue(t, "write", request[t].name)
    /\ UNCHANGED <<configured, losses, rowVars, drawn, raced, answerVars>>

\* Mutation: the secret is used and not kept.
WriteNothing(t) ==
    /\ At(t, "write")
    /\ Derive(t, request[t].name)
    /\ UNCHANGED <<configured, losses, rowVars, drawn, raced, secretFile, credited>>

WriteFile(t) ==
    /\ At(t, "write")
    /\ secretFile' = request[t].name
    /\ Derive(t, request[t].name)
    /\ UNCHANGED <<configured, losses, rowVars, drawn, raced, credited>>

-----------------------------------------------------------------------------
(* ensure_author and the submission.                                       *)

FindAuthor(t) ==
    /\ At(t, "ensure")
    /\ \/ pseudonym[Author(t)] # None /\ Continue(t, "submission", pseudonym[Author(t)])
       \/ pseudonym[Author(t)] = None /\ Continue(t, "insert", request[t].name)
    /\ UNCHANGED <<configured, losses, rowVars, secretVars, answerVars>>

\* Mutation: a conflict is ignored and the derived row answered.
InsertAuthorOrIgnore(t) ==
    /\ At(t, "insert")
    /\ pseudonym' = [pseudonym EXCEPT ![Author(t)] = IF @ = None THEN request[t].name ELSE @]
    /\ Continue(t, "submission", request[t].name)
    /\ UNCHANGED <<configured, losses, perks, secretVars, answerVars>>

\* The key is the install: a second insert of it fails the request.
InsertAuthor(t) ==
    /\ At(t, "insert")
    /\ pseudonym[Author(t)] = None
    /\ pseudonym' = [pseudonym EXCEPT ![Author(t)] = request[t].name]
    /\ Continue(t, "submission", request[t].name)
    /\ UNCHANGED <<configured, losses, perks, secretVars, answerVars>>

\* create_submission, and the answer, author_display of the row ensure_author
\* returned.  The history has that row's pseudonym, which the answer shows unless
\* the row is a sponsor's with a name of their own.
Submit(t) ==
    /\ At(t, "submission")
    /\ credited' = credited \cup {<<Author(t), request[t].name>>}
    /\ EndRequest(t)
    /\ UNCHANGED <<configured, losses, rowVars, secretVars, shown>>

\* The disk or the database fails the request, or the container stops.
FailRequest(t) ==
    /\ ~At(t, "idle")
    /\ EndRequest(t)
    /\ UNCHANGED <<configured, losses, rowVars, secretVars, answerVars>>

\* `sponsor`: nothing happens to an install that has no row yet.
SetSponsor(i, sponsor, custom) ==
    /\ pseudonym[i] # None
    /\ perks' = [perks EXCEPT ![i] = <<sponsor, custom>>]
    /\ UNCHANGED <<configured, losses, request, pseudonym, secretVars, answerVars>>

\* The data directory is lost with the container; the database is not.
LoseData ==
    /\ losses < MaxLosses
    /\ losses' = losses + 1
    /\ secretFile' = 0
    /\ request' = [t \in Thread |-> Quiet]
    /\ raced' = (raced \/ ~configured)
    /\ UNCHANGED <<configured, drawn, rowVars, answerVars>>

Handle(t) ==
    \/ \E i \in Install, publish \in BOOLEAN : Begin(t, i, publish)
    \/ PreviewStored(t)
    \/ PreviewUnknown(t)
    \/ ReadSecret(t)
    \/ DrawSecret(t)
    \/ OpenFile(t)
    \/ WriteFile(t)
    \/ FindAuthor(t)
    \/ InsertAuthor(t)
    \/ Submit(t)
    \/ FailRequest(t)

IdentityNext ==
    \/ \E t \in Thread : Handle(t)
    \/ \E i \in Install, sponsor \in BOOLEAN, custom \in Custom \cup {None} :
          SetSponsor(i, sponsor, custom)
    \/ LoseData

IdentitySpec == IdentityInit /\ [][IdentityNext]_identityVars

-----------------------------------------------------------------------------
(* Properties.                                                             *)

\* Every accepted submission was answered from a row with the pseudonym the
\* table has for its author: however first contacts race, an install is never
\* told two (ensure_author, templates_store.py:147).
CreditedAsStored == \A c \in credited : pseudonym[c[1]] = c[2]

\* "The author identity an install publishes under" (routes/templates.py:335):
\* what a preview showed is what is stored on the first submission, unless two
\* requests made the secret together or it was lost.  A sponsor is shown the
\* name the maintainer gave.
PreviewKept ==
    ~raced => \A p \in shown : p[2] \in Custom \/ pseudonym[p[1]] \in {None, p[2]}

Settled == secretFile # 0 /\ \A t \in Thread : request[t].pc \notin Making

\* "a random one is generated once" (pseudonym.py:11): when the requests that
\* make the secret are over it stays, unless the data directory is lost.
SecretSettles ==
    [][Settled /\ losses' = losses => Settled' /\ secretFile' = secretFile]_identityVars

IdentityTypes ==
    /\ configured \in BOOLEAN /\ raced \in BOOLEAN
    /\ secretFile \in Nat /\ drawn \in Nat /\ losses \in Nat
    /\ request \in [Thread -> [pc : IdentityPhases, install : Install \cup {None},
                               publish : BOOLEAN, name : Nat]]
    /\ pseudonym \in [Install -> Nat \cup {None}]
    /\ perks \in [Install -> BOOLEAN \X (Custom \cup {None})]
    /\ shown \subseteq Install \X (Nat \cup Custom)
    /\ credited \subseteq Install \X Nat

\* What a thread that is past ensure_author holds is what the table has.
RequestsOK ==
    \A t \in Thread :
        /\ ~At(t, "idle") => Author(t) \in Install
        /\ At(t, "submission") => pseudonym[Author(t)] = request[t].name
        /\ request[t].pc \in Making => request[t].name # 0 /\ ~configured

\* The pseudonyms a secret has given out are those of the one there is.
Given(name) == name # None => (configured \/ secretFile # 0) /\
                              name = (IF configured THEN 0 ELSE secretFile)

OneSecret ==
    /\ \A t, u \in Thread : request[t].pc \in Making /\ request[u].pc \in Making => t = u
    /\ \A t \in Thread : request[t].pc \in Making => secretFile = 0
    /\ \A t \in Thread : request[t].pc \in Deriving => Given(request[t].name)
    /\ \A i \in Install : Given(pseudonym[i])
    /\ \A p \in shown : p[2] \in Custom \/ Given(p[2])

\* The inductive invariant of the name an install has.
IdentityInv ==
    /\ IdentityTypes
    /\ RequestsOK
    /\ \A i \in Install : perks[i] # <<FALSE, None>> => pseudonym[i] # None
    /\ CreditedAsStored
    /\ ~raced => OneSecret
=============================================================================

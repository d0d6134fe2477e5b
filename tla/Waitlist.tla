------------------------------ MODULE Waitlist ------------------------------
(***************************************************************************)
(* The Cloud waitlist: waitlist.py, its endpoints in routes/cloud.py and   *)
(* the maintainer's scripts/invite_waitlist.py.                            *)
(*                                                                         *)
(* Every command and every request is one transaction, so what matters is  *)
(* what visitors do between the maintainer's commands: the addresses are   *)
(* printed, mailed by hand and marked later, by name or all that wait.     *)
(* Columns other than the address and whether invited_at is set are left   *)
(* out.                                                                    *)
(***************************************************************************)
CONSTANTS
    Email,       \* addresses as stored
    Typed,       \* what people type
    NoEmail,     \* normalise_email answers None
    Normalised   \* normalise_email

ASSUME NoEmailIsNone == NoEmail \notin Email
ASSUME NormalisedKnown == Normalised \in [Typed -> Email \cup {NoEmail}]

VARIABLES
    listed,    \* addresses in cloud_waitlist
    invited,   \* those of them whose invited_at is set
    round,     \* the maintainer has printed a list and not marked it yet
    printed,   \* that list
    sent,      \* those on it who have been mailed
    mailed,    \* history: who was ever mailed
    released,  \* history: who left or was unmarked, and was not mailed as listed since
    late       \* history: who signed up while a round was under way

waitlistVars == <<listed, invited, round, printed, sent, mailed, released, late>>

-----------------------------------------------------------------------------

Waiting == listed \ invited

WaitlistInit ==
    /\ listed = {} /\ invited = {}
    /\ round = FALSE /\ printed = {} /\ sent = {}
    /\ mailed = {} /\ released = {} /\ late = {}

\* ON CONFLICT DO NOTHING: an address that is listed keeps its row.
Join(t) ==
    /\ Normalised[t] \in Email \ listed
    /\ listed' = listed \cup {Normalised[t]}
    /\ late' = IF round THEN late \cup {Normalised[t]} ELSE late
    /\ UNCHANGED <<invited, round, printed, sent, mailed, released>>

Leave(t) ==
    /\ Normalised[t] \in listed
    /\ listed' = listed \ {Normalised[t]}
    /\ invited' = invited \ {Normalised[t]}
    /\ released' = released \cup {Normalised[t]}
    /\ late' = late \ {Normalised[t]}
    /\ UNCHANGED <<round, printed, sent, mailed>>

\* Mutation: invited or not, everybody is printed.
PrintEveryone ==
    /\ ~round
    /\ round' = TRUE
    /\ printed' = listed
    /\ sent' = {}
    /\ UNCHANGED <<listed, invited, mailed, released, late>>

\* `emails`: who waits now.
PrintEmails ==
    /\ ~round
    /\ round' = TRUE
    /\ printed' = Waiting
    /\ sent' = {}
    /\ UNCHANGED <<listed, invited, mailed, released, late>>

\* A mail is sent by hand from the printed list, whoever has left it since.
SendMail(e) ==
    /\ round
    /\ e \in printed \ sent
    /\ sent' = sent \cup {e}
    /\ mailed' = mailed \cup {e}
    /\ released' = released \ ({e} \cap listed)
    /\ UNCHANGED <<listed, invited, round, printed, late>>

EndRound == round' = FALSE /\ printed' = {} /\ sent' = {}

\* Mutation: no addresses are all addresses.
MarkInvitedEmptyIsAll(emails) ==
    /\ invited' = invited \cup (IF emails = {} THEN Waiting ELSE emails \cap Waiting)
    /\ UNCHANGED <<listed, mailed, released, late>>

\* mark_invited: the rows of these addresses that wait.
MarkInvited(emails) ==
    /\ invited' = invited \cup (emails \cap Waiting)
    /\ UNCHANGED <<listed, mailed, released, late>>

\* `mark` with the addresses that were mailed; without any it does nothing.
Mark ==
    /\ round
    /\ MarkInvited(sent)
    /\ EndRound

\* `mark --all-pending`, after everybody on the list was mailed.
MarkAllPending ==
    /\ round
    /\ sent = printed
    /\ MarkInvited(Email)
    /\ EndRound

\* `unmark`, between rounds.
Unmark(t) ==
    /\ ~round
    /\ Normalised[t] \in invited
    /\ invited' = invited \ {Normalised[t]}
    /\ released' = released \cup {Normalised[t]}
    /\ UNCHANGED <<listed, round, printed, sent, mailed, late>>

WaitlistNext ==
    \/ \E t \in Typed : Join(t) \/ Leave(t) \/ Unmark(t)
    \/ PrintEmails
    \/ \E e \in Email : SendMail(e)
    \/ Mark
    \/ MarkAllPending

WaitlistSpec == WaitlistInit /\ [][WaitlistNext]_waitlistVars

-----------------------------------------------------------------------------
(* Properties.                                                             *)

\* "records the send, so the next round skips people already asked"
\* (invite_waitlist.py:5): nobody is mailed a second time, unless they left
\* or were unmarked in between.
AskedOnce == [][\A e \in sent' \ sent : e \in mailed => e \in released]_waitlistVars

\* Who is recorded as invited and was never mailed signed up between the
\* printing and the marking of a list (invite_waitlist.py:42).
UnaskedAreLate == invited \ mailed \subseteq late

\* Addresses are of their types; who was mailed and still waits is to be
\* marked in this round or has been released, and so has who is printed again
\* or has left.
WaitlistInv ==
    /\ listed \subseteq Email
    /\ invited \subseteq listed
    /\ round \in BOOLEAN
    /\ sent \subseteq printed
    /\ printed \subseteq Email
    /\ sent \subseteq mailed
    /\ Waiting \cap mailed \subseteq sent \cup released
    /\ (printed \ sent) \cap mailed \subseteq released
    /\ (mailed \cup printed) \ listed \subseteq released
    /\ round => Waiting \subseteq printed \cup late
    /\ ~round => printed = {}
    /\ UnaskedAreLate
=============================================================================

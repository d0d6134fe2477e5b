----------------------------- MODULE Moderation -----------------------------
(***************************************************************************)
(* What the marketplace promises about moderation, whatever its threads,   *)
(* its review channel and its repair job are doing: a template enters      *)
(* waiting; only a decision taken by somebody entitled to it moves it, and *)
(* it never waits again; a complaint about a template that has been        *)
(* submitted is filed once, settled by a decision, and never reopened.     *)
(***************************************************************************)
CONSTANTS Submission, Report, Decider, Nobody, NoSubmission

VARIABLES
    stage,       \* per template: none, waiting, up (in the catalog) or down
    decidedBy,   \* per template: who took the last decision
    complaint,   \* per report: none, open or settled
    about        \* per report: the template it is about

absvars == <<stage, decidedBy, complaint, about>>

Init == /\ stage = [s \in Submission |-> "none"]
        /\ decidedBy = [s \in Submission |-> Nobody]
        /\ complaint = [r \in Report |-> "none"]
        /\ about = [r \in Report |-> NoSubmission]

Enter(s) == /\ stage[s] = "none"
            /\ stage' = [stage EXCEPT ![s] = "waiting"]
            /\ UNCHANGED <<decidedBy, complaint, about>>

Decide(s, by) == /\ stage[s] # "none"
                 /\ \E d \in {"up", "down"} : stage' = [stage EXCEPT ![s] = d]
                 /\ decidedBy' = [decidedBy EXCEPT ![s] = by]
                 /\ UNCHANGED <<complaint, about>>

File(r, s) == /\ complaint[r] = "none"
              /\ stage[s] # "none"
              /\ complaint' = [complaint EXCEPT ![r] = "open"]
              /\ about' = [about EXCEPT ![r] = s]
              /\ UNCHANGED <<stage, decidedBy>>

Settle(R) == /\ \A r \in R : complaint[r] = "open"
             /\ complaint' = [r \in Report |-> IF r \in R THEN "settled"
                                                          ELSE complaint[r]]
             /\ UNCHANGED <<stage, decidedBy, about>>

Next == \/ \E s \in Submission : Enter(s)
        \/ \E s \in Submission, by \in Decider : Decide(s, by)
        \/ \E r \in Report, s \in Submission : File(r, s)
        \/ \E R \in SUBSET Report : Settle(R)

Spec == Init /\ [][Next]_absvars
=============================================================================

---------------------------- MODULE JobLifecycle ----------------------------
(***************************************************************************)
(* What the durable queue promises its clients, with no table, worker,     *)
(* claim or retry in sight: an accepted job is closed exactly once, with a *)
(* verdict that never changes; a review flag is raised only by the closing *)
(* and cleared only by a human; and the API calls a job finished only when *)
(* it is.  WorkerPool implements this while claims are not overtaken.      *)
(***************************************************************************)
CONSTANT Jobs

VARIABLES
  verdict,    \* "none" until accepted, "open", then "complete" or "failed"
  review,     \* the jobs waiting for a human
  told        \* the jobs the API reports as finished

vars == <<verdict, review, told>>

Verdicts == {"complete", "failed"}
Closed   == {j \in Jobs : verdict[j] \in Verdicts}

Init == /\ verdict = [j \in Jobs |-> "none"]
        /\ review = {}
        /\ told = {}

Accept(j) == /\ verdict[j] = "none"
             /\ verdict' = [verdict EXCEPT ![j] = "open"]
             /\ UNCHANGED <<review, told>>

\* Only a completed job asks for a review.
Close(j, v) == /\ verdict[j] = "open"
               /\ verdict' = [verdict EXCEPT ![j] = v]
               /\ \/ review' = review
                  \/ v = "complete" /\ review' = review \cup {j}
               /\ UNCHANGED told

Acknowledge(j) == /\ j \in review
                  /\ review' = review \ {j}
                  /\ UNCHANGED <<verdict, told>>

Tell(j) == /\ j \in Closed
           /\ told' = told \cup {j}
           /\ UNCHANGED <<verdict, review>>

\* A restart: the API reports what it could reload, or nothing.
Reload == /\ told' \in SUBSET Closed
          /\ UNCHANGED <<verdict, review>>

Next == \/ Reload
        \/ \E j \in Jobs : \/ Accept(j)
                           \/ \E v \in Verdicts : Close(j, v)
                           \/ Acknowledge(j)
                           \/ Tell(j)

\* Every accepted job is closed in the end.
Progress == \A j \in Jobs : WF_vars(\E v \in Verdicts : Close(j, v))

Spec     == Init /\ [][Next]_vars
FairSpec == Spec /\ Progress
=============================================================================

------------------------------ MODULE PeriodicJobs -----------------------------
(***************************************************************************)
(* What main.go promises of the registered jobs, without its loop, flags   *)
(* and slots: a job runs when it is due or asked for, never twice at once, *)
(* and who asks for it gets a run that begins after the request, until the *)
(* service shuts down or a run of that job hangs.                          *)
(***************************************************************************)

CONSTANT Job

VARIABLES wanted,    \* jobs that were asked for and have not begun since
          running,   \* jobs that run
          given_up   \* jobs of which nothing is promised any more

vars == <<wanted, running, given_up>>

Init == wanted = {} /\ running = {} /\ given_up = {}

Ask(j) == wanted' = wanted \cup {j} /\ UNCHANGED <<running, given_up>>

Begin(j) == /\ j \notin running
            /\ running' = running \cup {j}
            /\ wanted' = wanted \ {j}
            /\ UNCHANGED given_up

End(j) == j \in running /\ running' = running \ {j} /\ UNCHANGED <<wanted, given_up>>

GiveUp == given_up' \in SUBSET Job /\ given_up \subseteq given_up' /\ UNCHANGED <<wanted, running>>

Next == GiveUp \/ \E j \in Job : Ask(j) \/ Begin(j) \/ End(j)

Fairness == \A j \in Job : /\ WF_vars(j \notin given_up /\ End(j))
                           /\ WF_vars(j \notin given_up /\ j \in wanted /\ Begin(j))

Spec == Init /\ [][Next]_vars /\ Fairness
================================================================================

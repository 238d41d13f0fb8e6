------------------------------ MODULE ItemLedger ------------------------------
(***************************************************************************)
(* What a crawl task promises, without scheduler, workers or retries: each *)
(* of its items gets one verdict, crawled or given up, and keeps it; the   *)
(* task is closed only over items that all have their verdict.  A task may *)
(* be aborted at any time, and a worker may still finish an item then.     *)
(***************************************************************************)
CONSTANT Item

VARIABLES verdict, state

vars == <<verdict, state>>

Init ==
    /\ verdict = [i \in Item |-> "open"]
    /\ state = "open"

Settle(i, v) ==
    /\ verdict[i] = "open"
    /\ verdict' = [verdict EXCEPT ![i] = v]
    /\ UNCHANGED state

Close ==
    /\ state = "open"
    /\ \A i \in Item : verdict[i] # "open"
    /\ state' = "closed"
    /\ UNCHANGED verdict

Abort ==
    /\ state = "open"
    /\ state' = "aborted"
    /\ UNCHANGED verdict

Next ==
    \/ \E i \in Item, v \in {"crawled", "given_up"} : Settle(i, v)
    \/ Close
    \/ Abort

Spec == Init /\ [][Next]_vars

=============================================================================

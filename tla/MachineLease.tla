----------------------------- MODULE MachineLease -----------------------------
(***************************************************************************)
(* What the machine pool promises of the elastic addresses, without        *)
(* machines that must be provisioned, documents or failures: an address is *)
(* free, held by the scheduler, which works on one at a time, serving one  *)
(* machine, or lost.  It serves a machine only when it was held for it, it *)
(* is free again only when the scheduler gives it back, and a lost address *)
(* is never handed out again.  A free one is lost, too, when it is leased  *)
(* and nobody learns of it.                                                *)
(***************************************************************************)
CONSTANTS Eip, Machine

VARIABLES
    free,     \* the addresses that can be had
    held,     \* the address the scheduler works on
    serving   \* the machines in service, by address

vars == <<free, held, serving>>

Init ==
    /\ free = Eip
    /\ held = {}
    /\ serving = [e \in Eip |-> {}]

Lease(e) ==
    /\ held = {}
    /\ e \in free
    /\ serving[e] = {}
    /\ free' = free \ {e}
    /\ held' = {e}
    /\ UNCHANGED serving

Commission(e, m) ==
    /\ held = {e}
    /\ \A f \in Eip : m \notin serving[f]
    /\ serving[e] = {}
    /\ serving' = [serving EXCEPT ![e] = {m}]
    /\ held' = {}
    /\ UNCHANGED free

Retire(e, m) ==
    /\ held = {}
    /\ serving[e] = {m}
    /\ serving' = [serving EXCEPT ![e] = {}]
    /\ held' = {e}
    /\ UNCHANGED free

GiveBack(e) ==
    /\ held = {e}
    /\ free' = free \cup {e}
    /\ held' = {}
    /\ UNCHANGED serving

\* The scheduler forgets what it held.
Lose ==
    /\ held # {}
    /\ held' = {}
    /\ UNCHANGED <<free, serving>>

\* A lease nobody is told of.
Mislay(e) ==
    /\ held = {}
    /\ e \in free
    /\ free' = free \ {e}
    /\ UNCHANGED <<held, serving>>

\* Nobody knows any more which machine an address serves.
Disown ==
    /\ serving' = [e \in Eip |-> {}]
    /\ held' \in SUBSET held
    /\ UNCHANGED free

Next ==
    \/ \E e \in Eip : Lease(e) \/ GiveBack(e) \/ Mislay(e)
    \/ \E e \in Eip, m \in Machine : Commission(e, m) \/ Retire(e, m)
    \/ Lose
    \/ Disown

Spec == Init /\ [][Next]_vars

=============================================================================

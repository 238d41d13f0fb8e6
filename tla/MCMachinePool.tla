---------------------------- MODULE MCMachinePool ----------------------------
EXTENDS MachinePool, TLC

CONSTANTS m1, m2, m3, e1, e2, t1

OneHttpTask == t1 :> "http"

Symmetric == Permutations(Machine) \cup Permutations(Eip)

\* num_machines_http is 0 by default, and still a task gets its one machine.
TwoBrowsers == [browser |-> 2, http |-> 0]

OneBrowser == [browser |-> 1, http |-> 0]

AnyConfig == [keep : BOOLEAN, force : BOOLEAN]

Frugal == {[keep |-> FALSE, force |-> FALSE]}

\* Of the failures so far the properties ask only which of these happened, and
\* whether any other than those of provisioning did.
Distinguished ==
    <<poolVars, task, live, force, pc, agenda, allocVars, taskVars, faults,
      happened \cap {"reset", "pause", "create"},
      happened \ (Provisioning \cup {"create", "pause", "resume"}) # {}>>

=============================================================================

----------------------------- MODULE MachinePool -----------------------------
(***************************************************************************)
(* The docker machines of the crawl workers: the scheduler leases one of   *)
(* the elastic addresses of the configuration, provisions an EC2 machine,  *)
(* gives it the address and lets it join the swarm; it removes machines    *)
(* that no task needs (swarm_worker_allocator.ts, daemon.ts, config.ts,    *)
(* machine.model.ts).                                                      *)
(*                                                                         *)
(* The scheduler is sequential, but every call it makes can fail, it can   *)
(* crash between two of them, and the API and the workers move meanwhile.  *)
(* Machines, documents and leases are three records of the same thing that *)
(* no transaction keeps together.  Which tasks a cycle visits depends on   *)
(* the priorities of all open tasks, those without machines included.      *)
(***************************************************************************)
EXTENDS Integers, FiniteSets, Sequences

CONSTANTS
    Machine,      \* EC2 instances that can be created in one behaviour
    Eip,          \* config.elastic_ips
    Task,         \* the tasks with whitelisted_proxies, which use machines
    TypeOf,       \* their worker types
    NumMachines,  \* config.num_machines_browser and num_machines_http
    Configs,      \* keep_machines_online and force_remove_machines, reloaded
    Environment,  \* the failures and API calls that may happen
    MaxFaults,    \* bound: their number in one behaviour
    None

Type == {"browser", "http"}

\* create .. offline: a step of provisioning fails; stop, remove: a machine
\* cannot be stopped or removed; save: a document is not saved; crash: the
\* scheduler restarts; reject: a call fails where nothing catches it; pause,
\* resume, reset, drop: the API's requests.
AllFaults == {"create", "associate", "certs", "offline", "stop", "remove",
              "save", "crash", "reject", "pause", "resume", "reset", "drop"}

ASSUME MachinePoolAssumption ==
    /\ IsFiniteSet(Machine)
    /\ TypeOf \in [Task -> Type]
    /\ NumMachines \in [Type -> Nat]
    /\ Configs \subseteq [keep : BOOLEAN, force : BOOLEAN]
    /\ Environment \subseteq AllFaults
    /\ MaxFaults \in Nat
    /\ None \notin Machine \cup Eip \cup Task \cup Type

VARIABLES
    used,      \* which addresses of the configuration are marked as used
    doc,       \* the machine documents
    vm,        \* the EC2 instances
    addr,      \* which instance an address leads to
    task,      \* status of the task documents; busy: num_workers_running > 0
    live,      \* tasks with workers that neither reported nor are overdue
    force,     \* force_remove_machines, as this cycle read it
    pc,        \* where the scheduler stands
    agenda,    \* what the cycle does before it turns to the tasks
    type,      \* allocate, shouldWeKillMachines: the type they work on
    left,      \* allocate: machines still to be started
    lease,     \* allocate: the address of the current machine
    cur,       \* the machine that is started or cleaned up
    back,      \* where the scheduler goes after allocate or cleanup
    rest,      \* cleanupAll: machines still to be cleaned up
    quiet,     \* shouldWeKillMachines: no pending task has workers
    todo,      \* tasks the cycle has still to visit
    started,   \* those that getTasks found started
    current,   \* the task that launches workers
    faults, happened

allocVars == <<type, left, lease, cur, back, rest, quiet>>
taskVars == <<todo, started, current>>
poolVars == <<used, doc, vm, addr>>
faultVars == <<faults, happened>>
vars == <<poolVars, task, live, force, pc, agenda, allocVars, taskVars,
          faultVars>>

MachineDoc == [status : {"none", "initial", "running", "terminated"},
               type : Type \cup {None}, eip : Eip \cup {None}]

NoDoc == [status |-> "none", type |-> None, eip |-> None]

TaskStatus == {"started", "paused", "completed", "failed"}

Job == [op : {"allocate", "check"}, type : Type]
       \cup [op : {"force"}, type : {None}]

PC == {"idle", "next", "lease", "provision", "record", "associate", "certs",
       "online", "save", "free", "stop", "remove", "mark", "release",
       "pending", "count", "select", "clean", "tasks", "launch", "hung"}

\* getMachines: the running machines of a type, None for all of them
Running(ty) ==
    {m \in Machine : doc[m].status = "running" /\ (ty = None \/ doc[m].type = ty)}

Fault(kind) ==
    /\ kind \in Environment
    /\ faults < MaxFaults
    /\ faults' = faults + 1
    /\ happened' = happened \cup {kind}

\* What the scheduler forgets between two cycles, and when it crashes.
Forget ==
    /\ agenda' = <<>>
    /\ type' = None
    /\ left' = 0
    /\ lease' = None
    /\ cur' = None
    /\ back' = "next"
    /\ rest' = {}
    /\ quiet' = FALSE
    /\ todo' = {}
    /\ started' = {}
    /\ current' = None

Init ==
    /\ used = [e \in Eip |-> FALSE]
    /\ doc = [m \in Machine |-> NoDoc]
    /\ vm = [m \in Machine |-> "none"]
    /\ addr = [e \in Eip |-> None]
    /\ task = [t \in Task |-> [status |-> "started", busy |-> FALSE]]
    /\ live = {}
    /\ force = FALSE
    /\ pc = "idle"
    /\ agenda = <<>>
    /\ type = None
    /\ left = 0
    /\ lease = None
    /\ cur = None
    /\ back = "next"
    /\ rest = {}
    /\ quiet = FALSE
    /\ todo = {}
    /\ started = {}
    /\ current = None
    /\ faults = 0
    /\ happened = {}

-----------------------------------------------------------------------------
(* The cycle.                                                               *)

Agenda(c) ==
    (IF c.keep /\ ~c.force
     THEN <<[op |-> "allocate", type |-> "browser"],
            [op |-> "allocate", type |-> "http"]>> ELSE <<>>)
    \o (IF c.keep THEN <<>>
        ELSE <<[op |-> "check", type |-> "http"],
               [op |-> "check", type |-> "browser"]>>)
    \o (IF c.force THEN <<[op |-> "force", type |-> None]>> ELSE <<>>)

StartCycle ==
    /\ pc = "idle"
    /\ \E c \in Configs : agenda' = Agenda(c) /\ force' = c.force
    /\ pc' = "next"
    /\ UNCHANGED <<poolVars, task, live, allocVars, taskVars, faultVars>>

\* Mutant of ToAllocate: no early return when enough machines run.
Missing(ty, n) == n - Cardinality(Running(ty))

\* Mutant of ToAllocate: the machines that run are not counted.
AllOfThem(ty, n) == n

ToAllocate(ty, n) ==
    LET missing == n - Cardinality(Running(ty))
    IN  IF missing > 0 THEN missing ELSE 0

\* allocate(ty, n), called from where the scheduler returns to.
Allocate(ty, n, return) ==
    /\ type' = ty
    /\ left' = ToAllocate(ty, n)
    /\ back' = return
    /\ pc' = IF left' = 0 THEN return ELSE "lease"
    /\ UNCHANGED <<lease, cur, rest, quiet>>

NextJob(op) ==
    /\ pc = "next"
    /\ agenda # <<>>
    /\ Head(agenda).op = op
    /\ agenda' = Tail(agenda)

KeepOnline ==
    /\ NextJob("allocate")
    /\ Allocate(Head(agenda).type, NumMachines[Head(agenda).type], "next")
    /\ UNCHANGED <<poolVars, task, live, force, taskVars, faultVars>>

-----------------------------------------------------------------------------
(* allocate: each step may throw, and what was done so far is undone.       *)

\* Mutant of MarkUsed: the flag is not set.
LeaveUnmarked(u, e) == u

MarkUsed(u, e) == [u EXCEPT ![e] = TRUE]

\* Mutant of MarkFree: the address is not given back.
LeaveMarked(u, e) == u

MarkFree(u, e) == [u EXCEPT ![e] = FALSE]

\* getElasticIp; without a free address allocate returns.
GetElasticIp ==
    /\ pc = "lease"
    /\ \/ /\ \A e \in Eip : used[e]
          /\ pc' = back
          /\ UNCHANGED <<used, lease>>
       \/ \E e \in Eip :
             /\ ~used[e]
             /\ used' = MarkUsed(used, e)
             /\ lease' = e
             /\ pc' = "provision"
    /\ cur' = None
    /\ UNCHANGED <<doc, vm, addr, task, live, force, agenda, type, left, back,
                   rest, quiet, taskVars, faultVars>>

\* docker-machine create, which may fail after it created the instance, and
\* fails when the account has no instance left.
Provision ==
    /\ pc = "provision"
    /\ \/ \E m \in Machine :
             /\ vm[m] = "none"
             /\ vm' = [vm EXCEPT ![m] = "up"]
             /\ \/ pc' = "record" /\ cur' = m /\ UNCHANGED faultVars
                \/ pc' = "free" /\ cur' = None /\ Fault("create")
       \/ /\ pc' = "free"
          /\ cur' = None
          /\ UNCHANGED vm
          /\ \/ Fault("create")
             \/ (\A m \in Machine : vm[m] # "none") /\ UNCHANGED faultVars
    /\ UNCHANGED <<used, doc, addr, task, live, force, agenda, type, left,
                   lease, back, rest, quiet, taskVars>>

\* docker-machine inspect and the machine document; allocate knows the machine
\* only once it has the document.
RecordMachine ==
    /\ pc = "record"
    /\ \/ /\ doc' = [doc EXCEPT ![cur] =
                        [status |-> "initial", type |-> None, eip |-> lease]]
          /\ pc' = "associate"
          /\ UNCHANGED <<cur, faultVars>>
       \/ /\ Fault("create")
          /\ cur' = None
          /\ pc' = "free"
          /\ UNCHANGED doc
    /\ UNCHANGED <<used, vm, addr, task, live, force, agenda, type, left,
                   lease, back, rest, quiet, taskVars>>

\* Mutant of Associated: the address keeps leading where it did.
NotAssociated(a, e, m) == a

Associated(a, e, m) == [a EXCEPT ![e] = m]

\* associateElasticIp answers false (clean up and stop) or throws (catch).
AssociateElasticIp ==
    /\ pc = "associate"
    /\ \/ /\ addr' = Associated(addr, lease, cur)
          /\ pc' = "certs"
          /\ UNCHANGED faultVars
       \/ /\ Fault("associate")
          /\ addr' \in {addr, [addr EXCEPT ![lease] = cur]}
          /\ pc' \in {"stop", "free"}
    /\ UNCHANGED <<used, doc, vm, task, live, force, agenda, allocVars,
                   taskVars>>

RegenerateCerts ==
    /\ pc = "certs"
    /\ \/ pc' = "online" /\ UNCHANGED faultVars
       \/ pc' = "free" /\ Fault("certs")
    /\ UNCHANGED <<poolVars, task, live, force, agenda, allocVars, taskVars>>

\* Mutant of AfterOffline: the machine is left as it is.
JustReturn == back

AfterOffline == "stop"

\* makeMachineJoinSwarm swallows its errors; then the service never answers.
WaitUntilServiceOnline ==
    /\ pc = "online"
    /\ \/ pc' = "save" /\ UNCHANGED faultVars
       \/ pc' = AfterOffline /\ Fault("offline")
    /\ UNCHANGED <<poolVars, task, live, force, agenda, allocVars, taskVars>>

\* save() of a document that was dropped rejects.
Saves(m) == doc[m].status # "none"

SaveFails(m) == IF Saves(m) THEN Fault("save") ELSE UNCHANGED faultVars

SaveRunning ==
    /\ pc = "save"
    /\ \/ /\ Saves(cur)
          /\ doc' = [doc EXCEPT ![cur].status = "running", ![cur].type = type]
          /\ left' = left - 1
          /\ pc' = IF left' = 0 THEN back ELSE "lease"
          /\ UNCHANGED faultVars
       \/ /\ SaveFails(cur)
          /\ pc' = "free"
          /\ UNCHANGED <<doc, left>>
    /\ UNCHANGED <<used, vm, addr, task, live, force, agenda, type, lease,
                   cur, back, rest, quiet, taskVars>>

\* The catch clause frees the address first, then cleans up the machine it
\* knows of.
FreeElasticIp ==
    /\ pc = "free"
    /\ used' = MarkFree(used, lease)
    /\ pc' = IF cur = None THEN back ELSE "stop"
    /\ UNCHANGED <<doc, vm, addr, task, live, force, agenda, allocVars,
                   taskVars, faultVars>>

-----------------------------------------------------------------------------
(* cleanup: each step may fail, and then nothing more is done.              *)

\* docker-machine stop, docker-machine kill, aws terminate: one of the three
\* works or none.
StopMachine ==
    /\ pc = "stop"
    /\ \/ /\ vm' = [vm EXCEPT ![cur] = IF @ = "up" THEN "stopped" ELSE @]
          /\ pc' = "remove"
          /\ UNCHANGED faultVars
       \/ /\ Fault("stop")
          /\ pc' = back
          /\ UNCHANGED vm
    /\ UNCHANGED <<used, doc, addr, task, live, force, agenda, allocVars,
                   taskVars>>

\* An address leads nowhere when its instance is gone.
RemoveMachine ==
    /\ pc = "remove"
    /\ \/ /\ vm' = [vm EXCEPT ![cur] = "gone"]
          /\ addr' = [e \in Eip |-> IF addr[e] = cur THEN None ELSE addr[e]]
          /\ pc' = "mark"
          /\ UNCHANGED faultVars
       \/ /\ Fault("remove")
          /\ pc' = back
          /\ UNCHANGED <<vm, addr>>
    /\ UNCHANGED <<used, doc, task, live, force, agenda, allocVars, taskVars>>

SaveTerminated ==
    /\ pc = "mark"
    /\ \/ /\ Saves(cur)
          /\ doc' = [doc EXCEPT ![cur].status = "terminated"]
          /\ pc' = "release"
          /\ UNCHANGED faultVars
       \/ /\ SaveFails(cur)
          /\ pc' = back
          /\ UNCHANGED doc
    /\ UNCHANGED <<used, vm, addr, task, live, force, agenda, allocVars,
                   taskVars>>

ReleaseElasticIp ==
    /\ pc = "release"
    /\ \/ used' = MarkFree(used, doc[cur].eip) /\ UNCHANGED faultVars
       \/ Fault("save") /\ UNCHANGED used
    /\ pc' = back
    /\ UNCHANGED <<doc, vm, addr, task, live, force, agenda, allocVars,
                   taskVars>>

-----------------------------------------------------------------------------
(* shouldWeKillMachines.                                                    *)

OfType(ty, S) == {t \in Task : TypeOf[t] = ty /\ task[t].status \in S}

CheckType ==
    /\ NextJob("check")
    /\ type' = Head(agenda).type
    /\ pc' = "pending"
    /\ UNCHANGED <<poolVars, task, live, force, left, lease, cur, back, rest,
                   quiet, taskVars, faultVars>>

\* Mutant of PendingStatus: the workers of completed tasks are not looked at.
PausedOnly == {"paused"}

PendingStatus == {"completed", "paused"}

FindPending ==
    /\ pc = "pending"
    /\ quiet' = \A t \in OfType(type, PendingStatus) : ~task[t].busy
    /\ pc' = "count"
    /\ UNCHANGED <<poolVars, task, live, force, agenda, type, left, lease, cur,
                   back, rest, taskVars, faultVars>>

CountStarted ==
    /\ pc = "count"
    /\ pc' = IF quiet /\ OfType(type, {"started"}) = {} THEN "select" ELSE "next"
    /\ UNCHANGED <<poolVars, task, live, force, agenda, allocVars, taskVars,
                   faultVars>>

PauseStarted ==
    [t \in Task |-> IF task[t].status = "started"
                    THEN [task[t] EXCEPT !.status = "paused"] ELSE task[t]]

ForceRemove ==
    /\ NextJob("force")
    /\ task' = PauseStarted
    /\ type' = None
    /\ pc' = "select"
    /\ UNCHANGED <<poolVars, live, force, left, lease, cur, back, rest, quiet,
                   taskVars, faultVars>>

\* cleanupAll
SelectMachines ==
    /\ pc = "select"
    /\ rest' = Running(type)
    /\ back' = "clean"
    /\ pc' = "clean"
    /\ UNCHANGED <<poolVars, task, live, force, agenda, type, left, lease, cur,
                   quiet, taskVars, faultVars>>

CleanNext ==
    /\ pc = "clean"
    /\ \/ /\ rest = {}
          /\ pc' = "next"
          /\ UNCHANGED <<cur, rest>>
       \/ \E m \in rest :
             /\ cur' = m
             /\ rest' = rest \ {m}
             /\ pc' = "stop"
    /\ UNCHANGED <<poolVars, task, live, force, agenda, type, left, lease,
                   back, quiet, taskVars, faultVars>>

-----------------------------------------------------------------------------
(* The tasks, as far as machines are concerned.                             *)

\* Under the policy 'absolute' (the default) getTasks drops the tasks below the
\* highest priority of all open tasks, whether these use machines or not.  Any of
\* the tasks may be above or below it, and an update may change that.
GetTasks ==
    /\ pc = "next"
    /\ agenda = <<>>
    /\ todo' \in SUBSET {t \in Task : task[t].status \in {"started", "paused"}}
    /\ started' = {t \in todo' : task[t].status = "started"}
    /\ pc' = "tasks"
    /\ UNCHANGED <<poolVars, task, live, force, agenda, allocVars, current,
                   faultVars>>

\* taskFinished comes before processWorkerMeta: the counter stays as it is.
CloseTask(t) ==
    /\ pc = "tasks"
    /\ t \in todo
    /\ task' = [task EXCEPT ![t].status = "completed"]
    /\ todo' = todo \ {t}
    /\ UNCHANGED <<poolVars, live, force, pc, agenda, allocVars, started,
                   current, faultVars>>

StillBusy(t) == task[t].busy /\ t \in live

\* processWorkerMeta and taskIsUnhealthy; nothing is launched.
ServeTask(t) ==
    /\ pc = "tasks"
    /\ t \in todo
    /\ \E st \in {task[t].status, "failed"} :
          task' = [task EXCEPT ![t] = [status |-> st, busy |-> StillBusy(t)]]
    /\ todo' = todo \ {t}
    /\ UNCHANGED <<poolVars, live, force, pc, agenda, allocVars, started,
                   current, faultVars>>

\* makeProgress starts machines for a task that needs workers.
NumForTask(ty) == IF NumMachines[ty] = 0 THEN 1 ELSE NumMachines[ty]

MakeProgress(t) ==
    /\ pc = "tasks"
    /\ t \in todo \cap started
    /\ ~force
    /\ task' = [task EXCEPT ![t].busy = StillBusy(t)]
    /\ todo' = todo \ {t}
    /\ current' = t
    /\ Allocate(TypeOf[t], NumForTask(TypeOf[t]), "launch")
    /\ UNCHANGED <<poolVars, live, force, agenda, started, faultVars>>

\* runDocker: a worker starts when some endpoint leads to a machine that is up.
Reachable(ty) ==
    \E m \in Running(ty) : \E n \in Machine :
        addr[doc[m].eip] = n /\ vm[n] = "up"

RunDocker ==
    /\ pc = "launch"
    /\ \/ /\ Reachable(TypeOf[current])
          /\ live' = live \cup {current}
          /\ task' = [task EXCEPT ![current].busy = TRUE]
       \/ UNCHANGED <<live, task>>
    /\ current' = None
    /\ pc' = "tasks"
    /\ UNCHANGED <<poolVars, force, agenda, allocVars, todo, started, faultVars>>

EndCycle ==
    /\ pc = "tasks"
    /\ todo = {}
    /\ pc' = "idle"
    /\ Forget
    /\ UNCHANGED <<poolVars, task, live, force, faultVars>>

-----------------------------------------------------------------------------
(* Everybody else.                                                          *)

Crash ==
    /\ pc # "idle"
    /\ Fault("crash")
    /\ pc' = "idle"
    /\ Forget
    /\ UNCHANGED <<poolVars, task, live, force>>

\* The calls that nothing in the daemon catches: those of the cycle itself,
\* getMachines, getElasticIp, which precedes the try of allocate, and
\* freeElasticIp, which its catch clause calls.
Unguarded == {"next", "lease", "free", "pending", "count", "select", "tasks",
              "launch"}

\* What a rejected update leaves: nothing of it, or all of it.
Rejected(u) ==
    CASE pc = "lease" -> {u} \cup {MarkUsed(u, e) : e \in {f \in Eip : ~u[f]}}
      [] pc = "free"  -> {u, MarkFree(u, lease)}
      [] OTHER        -> {u}

\* Such a call rejects into the endless loop, which ends; the process stays.  An
\* update may have been made although its answer is an error.
Reject ==
    /\ pc \in Unguarded
    /\ Fault("reject")
    /\ used' \in Rejected(used)
    /\ pc' = "hung"
    /\ Forget
    /\ UNCHANGED <<doc, vm, addr, task, live, force>>

\* Nothing in the repository notices; somebody restarts the scheduler.
Restart ==
    /\ pc = "hung"
    /\ pc' = "idle"
    /\ UNCHANGED <<poolVars, task, live, force, agenda, allocVars, taskVars,
                   faultVars>>

PauseTasks ==
    /\ Fault("pause")
    /\ task' = PauseStarted
    /\ UNCHANGED <<poolVars, live, force, pc, agenda, allocVars, taskVars>>

ResumeTasks ==
    /\ Fault("resume")
    /\ task' = [t \in Task |-> IF task[t].status = "paused"
                               THEN [task[t] EXCEPT !.status = "started"]
                               ELSE task[t]]
    /\ UNCHANGED <<poolVars, live, force, pc, agenda, allocVars, taskVars>>

\* createConfig writes the default configuration: no address is in use.
CreateConfig ==
    /\ Fault("reset")
    /\ used' = [e \in Eip |-> FALSE]
    /\ UNCHANGED <<doc, vm, addr, task, live, force, pc, agenda, allocVars, taskVars>>

\* deleteAllMachines drops the collection.  The copies that allocate and cleanup
\* hold keep their address.
DeleteAllMachines ==
    /\ Fault("drop")
    /\ doc' = [m \in Machine |-> [doc[m] EXCEPT !.status = "none"]]
    /\ UNCHANGED <<used, vm, addr, task, live, force, pc, agenda, allocVars, taskVars>>

\* The workers of a task have reported, or are overdue.
WorkersEnd(t) ==
    /\ t \in live
    /\ live' = live \ {t}
    /\ UNCHANGED <<poolVars, task, force, pc, agenda, allocVars, taskVars,
                   faultVars>>

Scheduler ==
    \/ StartCycle
    \/ KeepOnline
    \/ GetElasticIp
    \/ Provision
    \/ RecordMachine
    \/ AssociateElasticIp
    \/ RegenerateCerts
    \/ WaitUntilServiceOnline
    \/ SaveRunning
    \/ FreeElasticIp
    \/ StopMachine
    \/ RemoveMachine
    \/ SaveTerminated
    \/ ReleaseElasticIp
    \/ CheckType
    \/ FindPending
    \/ CountStarted
    \/ ForceRemove
    \/ SelectMachines
    \/ CleanNext
    \/ GetTasks
    \/ \E t \in Task : CloseTask(t) \/ ServeTask(t) \/ MakeProgress(t)
    \/ RunDocker
    \/ EndCycle

Next ==
    \/ Scheduler
    \/ Crash
    \/ Reject
    \/ Restart
    \/ PauseTasks
    \/ ResumeTasks
    \/ CreateConfig
    \/ DeleteAllMachines
    \/ \E t \in Task : WorkersEnd(t)

Spec == Init /\ [][Next]_vars

\* The daemon loops until a call rejects, and workers report or become overdue.
FairSpec ==
    /\ Spec
    /\ WF_vars(Scheduler)
    /\ \A t \in Task : WF_vars(WorkersEnd(t))

-----------------------------------------------------------------------------
(* Properties.                                                              *)

\* Every variable has its type.
TypeOK ==
    /\ used \in [Eip -> BOOLEAN]
    /\ doc \in [Machine -> MachineDoc]
    /\ vm \in [Machine -> {"none", "up", "stopped", "gone"}]
    /\ addr \in [Eip -> Machine \cup {None}]
    /\ task \in [Task -> [status : TaskStatus, busy : BOOLEAN]]
    /\ live \in SUBSET Task
    /\ force \in BOOLEAN
    /\ pc \in PC
    /\ agenda \in Seq(Job)
    /\ type \in Type \cup {None}
    /\ left \in Nat
    /\ lease \in Eip \cup {None}
    /\ cur \in Machine \cup {None}
    /\ back \in {"next", "launch", "clean"}
    /\ rest \in SUBSET Machine
    /\ quiet \in BOOLEAN
    /\ todo \in SUBSET Task
    /\ started \in SUBSET Task
    /\ current \in Task \cup {None}
    /\ faults \in Nat
    /\ happened \in SUBSET AllFaults

\* The address of a running machine is marked as used, and no other running
\* machine has it: whatever fails in between, getElasticIp never hands out the
\* address of a machine that is in service, unless the configuration was reset.
LeaseExclusive ==
    "reset" \notin happened =>
        \A m \in Running(None) :
            /\ doc[m].eip \in Eip
            /\ used[doc[m].eip]
            /\ \A n \in Running(None) \ {m} : doc[n].eip # doc[m].eip

\* The endpoint of a running machine that is up leads to that machine, so a
\* worker is never sent to a machine of another type.
EndpointsAreOwn ==
    "reset" \notin happened =>
        \A m \in Running(None) : vm[m] = "up" => addr[doc[m].eip] = m

\* There are never more running machines of a type than configured (or the one
\* that a task may always have), over all cycles and both callers of allocate.
NotOverAllocated ==
    \A ty \in Type : Cardinality(Running(ty)) <= NumForTask(ty)

Provisioning == {"associate", "certs", "offline"}

\* Between two cycles exactly the addresses of the running machines are in use,
\* as long as only provisioning fails: every exit of allocate gives its address
\* back, and none gives back another one.
LeasesReturned ==
    pc = "idle" /\ happened \subseteq Provisioning \cup {"create", "pause", "resume"}
        => {e \in Eip : used[e]} = {doc[m].eip : m \in Running(None)}

\* Between two cycles exactly the running machines exist, as long as nothing
\* fails but the later steps of provisioning.
MachinesReturned ==
    pc = "idle" /\ happened \subseteq Provisioning \cup {"pause", "resume"}
        => {m \in Machine : vm[m] \in {"up", "stopped"}} = Running(None)

\* A machine is stopped for lack of work only when no worker of its type is
\* left, unless the task failed or the API paused it meanwhile.
StopsIdleMachinesOnly ==
    [][pc = "stop" /\ back = "clean" /\ type # None /\ pc' = "remove"
         /\ "pause" \notin happened
         => \A t \in live : TypeOf[t] = type => task[t].status = "failed"]_vars

\* The scheduler works on an address: it leases it for a machine, or still has
\* the document of the machine it takes it from.
WorksOn(e) ==
    \/ pc \in {"provision", "record", "associate", "certs", "online", "save", "free"}
       /\ lease = e
    \/ (pc = "release" \/ (pc \in {"stop", "remove", "mark"} /\ Saves(cur)))
       /\ doc[cur].eip = e

Serving(e) == {m \in Machine : doc[m].eip = e /\ doc[m].status = "running"}

Leases == INSTANCE MachineLease
          WITH free <- {e \in Eip : ~used[e]},
               held <- {e \in Eip : used[e] /\ WorksOn(e) /\ Serving(e) = {}},
               serving <- [e \in Eip |-> Serving(e)]

\* Documents, flags and the scheduler's locals together keep the leases of
\* MachineLease, until the configuration is reset.
LeaseSpec ==
    /\ Leases!Init
    /\ [][ "reset" \notin happened' => UNCHANGED Leases!vars \/ Leases!Next
         ]_<<used, doc, pc, lease, cur>>

AllTasks(S) == \A t \in Task : task[t].status \in S

NoneRunning == Running(None) = {}

\* When no task is left that needs machines, they are removed.
DoneFreesMachines == <>[]AllTasks({"completed", "failed"}) => <>[]NoneRunning

=============================================================================

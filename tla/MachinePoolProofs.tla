-------------------------- MODULE MachinePoolProofs --------------------------
(***************************************************************************)
(* Proofs about MachinePool, for every value of its constants and whatever *)
(* fails.                                                                  *)
(***************************************************************************)
EXTENDS MachinePool, FiniteSetTheorems, TLAPS

-----------------------------------------------------------------------------
(* Types.                                                                   *)

\* allocate holds a lease, and from Owning on a machine with a document.
Owning == {"associate", "certs", "online", "save"}

Holding == {"provision", "record"} \cup Owning

Cleaning == {"stop", "remove", "mark", "release"}

\* What the scheduler's locals hold where it uses them.
LocalsInv ==
    /\ pc \in Holding \cup {"lease"} => type \in Type /\ left > 0
    /\ pc \in Holding \cup {"free"} => lease \in Eip
    /\ pc \in Owning \cup Cleaning \cup {"record"} => cur \in Machine
    /\ pc = "launch" => current \in Task
    /\ pc \in Holding \cup Cleaning \cup {"lease", "free"} /\ back = "launch"
          => current \in Task
    /\ pc = "clean" => back = "clean"

TypeInv == TypeOK /\ LocalsInv

LEMMA RunningFinite ==
    ASSUME NEW ty
    PROVE  IsFiniteSet(Running(ty)) /\ Cardinality(Running(ty)) \in Nat
<1>1. Running(ty) \subseteq Machine
  BY DEF Running
<1> QED BY <1>1, FS_Subset, FS_CardinalityType, MachinePoolAssumption
        DEF MachinePoolAssumption

LEMMA ToAllocateType ==
    ASSUME NEW ty, NEW n \in Nat
    PROVE  ToAllocate(ty, n) \in Nat
BY RunningFinite DEF ToAllocate

LEMMA AgendaType ==
    ASSUME NEW c \in [keep : BOOLEAN, force : BOOLEAN]
    PROVE  Agenda(c) \in Seq(Job)
<1>1. /\ <<[op |-> "allocate", type |-> "browser"],
           [op |-> "allocate", type |-> "http"]>> \in Seq(Job)
      /\ <<[op |-> "check", type |-> "http"],
           [op |-> "check", type |-> "browser"]>> \in Seq(Job)
      /\ <<[op |-> "force", type |-> None]>> \in Seq(Job)
      /\ <<>> \in Seq(Job)
  BY DEF Job, Type
<1> DEFINE A == IF c.keep /\ ~c.force
                THEN <<[op |-> "allocate", type |-> "browser"],
                       [op |-> "allocate", type |-> "http"]>> ELSE <<>>
           B == IF c.keep THEN <<>>
                ELSE <<[op |-> "check", type |-> "http"],
                       [op |-> "check", type |-> "browser"]>>
           C == IF c.force THEN <<[op |-> "force", type |-> None]>> ELSE <<>>
<1>2. A \in Seq(Job) /\ B \in Seq(Job) /\ C \in Seq(Job)
  BY <1>1
<1>3. Agenda(c) = A \o B \o C
  BY DEF Agenda
<1> HIDE DEF A, B, C
<1> QED BY <1>2, <1>3

\* The head of the agenda is a job, and its tail an agenda.
LEMMA AgendaStep ==
    ASSUME NEW s \in Seq(Job), s # <<>>
    PROVE  Tail(s) \in Seq(Job) /\ Head(s) \in Job
OBVIOUS

LEMMA TypeInit == Init => TypeInv
<1> SUFFICES ASSUME Init PROVE TypeInv
  OBVIOUS
<1>1. agenda \in Seq(Job)
  BY DEF Init
<1>2. doc \in [Machine -> MachineDoc] /\ task \in [Task -> [status : TaskStatus, busy : BOOLEAN]]
  BY DEF Init, MachineDoc, NoDoc, TaskStatus
<1>3. force \in BOOLEAN
  BY MachinePoolAssumption DEF Init, MachinePoolAssumption
<1>4. LocalsInv
  BY DEF Init, LocalsInv, Holding, Owning, Cleaning
<1> QED BY <1>1, <1>2, <1>3, <1>4 DEF Init, TypeInv, TypeOK, PC

LEMMA FaultType ==
    ASSUME faults \in Nat, happened \in SUBSET AllFaults, NEW kind, Fault(kind)
    PROVE  faults' \in Nat /\ happened' \in SUBSET AllFaults
BY MachinePoolAssumption DEF Fault, MachinePoolAssumption

LEMMA SaveFailsType ==
    ASSUME faults \in Nat, happened \in SUBSET AllFaults, NEW m, SaveFails(m)
    PROVE  faults' \in Nat /\ happened' \in SUBSET AllFaults
BY FaultType DEF SaveFails, faultVars

\* A dropped document is gone for every query, and its copies keep the address.
LEMMA Dropped ==
    ASSUME TypeOK, DeleteAllMachines
    PROVE  /\ doc' \in [Machine -> MachineDoc]
           /\ \A m \in Machine : doc'[m].status = "none" /\ doc'[m].eip = doc[m].eip
<1> DEFINE gone(d) == [d EXCEPT !.status = "none"]
<1>1. ASSUME NEW d \in MachineDoc
      PROVE  gone(d) \in MachineDoc /\ gone(d).status = "none" /\ gone(d).eip = d.eip
  BY DEF MachineDoc
<1>2. doc' = [m \in Machine |-> gone(doc[m])]
  BY DEF DeleteAllMachines
<1>3. doc \in [Machine -> MachineDoc]
  BY DEF TypeOK
<1> HIDE DEF gone
<1> QED BY <1>1, <1>2, <1>3

\* What the steps that write a document write.
LEMMA Recorded ==
    ASSUME TypeInv, RecordMachine
    PROVE  /\ cur \in Machine
           /\ \/ /\ pc' = "associate" /\ cur' = cur
                 /\ doc'[cur].status = "initial" /\ doc'[cur].eip = lease
                 /\ \A m \in Machine \ {cur} : doc'[m] = doc[m]
              \/ pc' = "free" /\ cur' = None /\ doc' = doc
<1>1. cur \in Machine /\ doc \in [Machine -> MachineDoc]
  BY DEF RecordMachine, TypeInv, TypeOK, LocalsInv
<1> QED BY <1>1 DEF RecordMachine

LEMMA SavedRunning ==
    ASSUME TypeInv, SaveRunning
    PROVE  /\ cur \in Machine /\ cur' = cur /\ doc' \in [Machine -> MachineDoc]
           /\ \/ /\ doc[cur].status # "none"
                 /\ pc' = (IF left' = 0 THEN back ELSE "lease") /\ left' = left - 1
                 /\ doc'[cur].status = "running" /\ doc'[cur].type = type
                 /\ doc'[cur].eip = doc[cur].eip
                 /\ \A m \in Machine \ {cur} : doc'[m] = doc[m]
              \/ pc' = "free" /\ doc' = doc
<1>1. cur \in Machine /\ doc \in [Machine -> MachineDoc] /\ type \in Type
  BY DEF SaveRunning, TypeInv, TypeOK, LocalsInv, Owning, Holding
<1> DEFINE new == [doc EXCEPT ![cur].status = "running", ![cur].type = type]
<1>2. /\ new \in [Machine -> MachineDoc]
      /\ new[cur].status = "running" /\ new[cur].type = type
      /\ new[cur].eip = doc[cur].eip
      /\ \A m \in Machine \ {cur} : new[m] = doc[m]
  BY <1>1 DEF MachineDoc
<1>3. \/ doc' = new /\ doc[cur].status # "none" /\ left' = left - 1
         /\ pc' = (IF left' = 0 THEN back ELSE "lease")
      \/ pc' = "free" /\ doc' = doc
  BY DEF SaveRunning, Saves
<1>4. cur' = cur
  BY DEF SaveRunning
<1> HIDE DEF new
<1> QED BY <1>1, <1>2, <1>3, <1>4

LEMMA SavedTerminated ==
    ASSUME TypeInv, SaveTerminated
    PROVE  /\ cur \in Machine /\ cur' = cur /\ doc' \in [Machine -> MachineDoc]
           /\ \/ /\ doc[cur].status # "none"
                 /\ pc' = "release"
                 /\ doc'[cur].status = "terminated" /\ doc'[cur].eip = doc[cur].eip
                 /\ \A m \in Machine \ {cur} : doc'[m] = doc[m]
              \/ pc' = back /\ doc' = doc
<1>1. cur \in Machine /\ doc \in [Machine -> MachineDoc]
  BY DEF SaveTerminated, TypeInv, TypeOK, LocalsInv, Cleaning
<1> DEFINE new == [doc EXCEPT ![cur].status = "terminated"]
<1>2. /\ new \in [Machine -> MachineDoc]
      /\ new[cur].status = "terminated" /\ new[cur].eip = doc[cur].eip
      /\ \A m \in Machine \ {cur} : new[m] = doc[m]
  BY <1>1 DEF MachineDoc
<1>3. \/ doc' = new /\ doc[cur].status # "none" /\ pc' = "release"
      \/ pc' = back /\ doc' = doc
  BY DEF SaveTerminated, Saves
<1>4. cur' = cur
  BY DEF SaveTerminated, allocVars
<1> HIDE DEF new
<1> QED BY <1>1, <1>2, <1>3, <1>4

\* What a rejected call leaves of the addresses: what there was, one more that is
\* marked, or the lease given back.
LEMMA Rejection ==
    ASSUME TypeInv, Reject
    PROVE  /\ used' \in [Eip -> BOOLEAN]
           /\ \/ used' = used
              \/ /\ pc = "lease"
                 /\ \E e \in Eip : ~used[e] /\ used' = MarkUsed(used, e)
              \/ pc = "free" /\ lease \in Eip /\ used' = MarkFree(used, lease)
           /\ pc' = "hung" /\ doc' = doc /\ rest' = {} /\ vm' = vm /\ addr' = addr
<1>1. lease \in Eip \/ pc # "free"
  BY DEF TypeInv, LocalsInv
<1>2. \/ used' = used
      \/ pc = "lease" /\ \E e \in Eip : ~used[e] /\ used' = MarkUsed(used, e)
      \/ pc = "free" /\ used' = MarkFree(used, lease)
  BY DEF Reject, Rejected
<1>3. \A e \in Eip : /\ MarkUsed(used, e) \in [Eip -> BOOLEAN]
                      /\ MarkFree(used, e) \in [Eip -> BOOLEAN]
  BY DEF MarkUsed, MarkFree, TypeInv, TypeOK
<1>4. used' \in [Eip -> BOOLEAN]
  BY <1>1, <1>2, <1>3 DEF TypeInv, TypeOK
<1>5. pc' = "hung" /\ doc' = doc /\ rest' = {} /\ vm' = vm /\ addr' = addr
  BY DEF Reject, Forget
<1> QED BY <1>1, <1>2, <1>4, <1>5

LEMMA TypeNext == TypeInv /\ [Next]_vars => TypeInv'
<1> SUFFICES ASSUME TypeInv, [Next]_vars PROVE TypeInv'
  OBVIOUS
<1> USE DEF TypeInv, TypeOK, LocalsInv
<1> USE DEF poolVars, allocVars, taskVars, faultVars
<1> USE DEF PC, Holding, Owning, Cleaning
<1>1. CASE StartCycle
  BY <1>1, AgendaType, MachinePoolAssumption DEF StartCycle, MachinePoolAssumption
<1>2. CASE KeepOnline
  <2>1. Head(agenda) \in Job /\ agenda' \in Seq(Job)
    BY <1>2, AgendaStep DEF KeepOnline, NextJob
  <2>2. Head(agenda).type \in Type
    BY <1>2, <2>1 DEF KeepOnline, NextJob, Job
  <2>3. NumMachines[Head(agenda).type] \in Nat
    BY <2>2, MachinePoolAssumption DEF MachinePoolAssumption
  <2>4. left' \in Nat /\ type' \in Type
    BY <1>2, <2>2, <2>3, ToAllocateType DEF KeepOnline, Allocate
  <2> QED BY <1>2, <2>1, <2>4 DEF KeepOnline, Allocate
<1>3. CASE GetElasticIp
  BY <1>3 DEF GetElasticIp, MarkUsed
<1>4. CASE Provision
  BY <1>4, FaultType DEF Provision
<1>5. CASE RecordMachine
  <2>1. doc' \in [Machine -> MachineDoc] /\ faults' \in Nat /\ happened' \in SUBSET AllFaults
    BY <1>5, FaultType DEF RecordMachine, MachineDoc
  <2>2. /\ pc = "record" /\ pc' \in {"associate", "free"}
        /\ pc' = "free" => cur' = None
        /\ pc' = "associate" => cur' = cur
    BY <1>5 DEF RecordMachine
  <2> QED BY <1>5, <2>1, <2>2 DEF RecordMachine
<1>6. CASE AssociateElasticIp
  BY <1>6, FaultType DEF AssociateElasticIp, Associated
<1>7. CASE RegenerateCerts
  BY <1>7, FaultType DEF RegenerateCerts
<1>8. CASE WaitUntilServiceOnline
  BY <1>8, FaultType DEF WaitUntilServiceOnline, AfterOffline
<1>9. CASE SaveRunning
  <2>1. faults' \in Nat /\ happened' \in SUBSET AllFaults
    BY <1>9, SaveFailsType DEF SaveRunning
  <2>2. left' \in Nat /\ (pc' = "lease" => left' > 0)
    BY <1>9 DEF SaveRunning
  <2>3. doc' \in [Machine -> MachineDoc] /\ cur \in Machine /\ cur' = cur
    BY <1>9, SavedRunning
  <2>4. pc = "save" /\ pc' \in {back, "lease", "free"} /\ (left' = 0 \/ pc' # back)
    BY <1>9 DEF SaveRunning
  <2>5. UNCHANGED <<used, vm, addr, task, live, force, agenda, type, lease,
                    back, rest, quiet, taskVars>>
    BY <1>9 DEF SaveRunning
  <2> QED BY <2>1, <2>2, <2>3, <2>4, <2>5
<1>10. CASE FreeElasticIp
  BY <1>10 DEF FreeElasticIp, MarkFree
<1>11. CASE StopMachine
  BY <1>11, FaultType DEF StopMachine
<1>12. CASE RemoveMachine
  BY <1>12, FaultType DEF RemoveMachine
<1>13. CASE SaveTerminated
  <2>1. faults' \in Nat /\ happened' \in SUBSET AllFaults
    BY <1>13, SaveFailsType DEF SaveTerminated
  <2> QED BY <1>13, <2>1, SavedTerminated DEF SaveTerminated
<1>14. CASE ReleaseElasticIp
  <2>1. faults' \in Nat /\ happened' \in SUBSET AllFaults
    BY <1>14, FaultType DEF ReleaseElasticIp
  <2>2. used' \in [Eip -> BOOLEAN]
    BY <1>14 DEF ReleaseElasticIp, MarkFree
  <2> QED BY <1>14, <2>1, <2>2 DEF ReleaseElasticIp
<1>15. CASE CheckType
  BY <1>15, AgendaStep DEF CheckType, NextJob, Job
<1>16. CASE FindPending
  BY <1>16 DEF FindPending
<1>17. CASE CountStarted
  BY <1>17 DEF CountStarted
<1>18. CASE ForceRemove
  BY <1>18, AgendaStep DEF ForceRemove, NextJob, PauseStarted, TaskStatus
<1>19. CASE SelectMachines
  BY <1>19 DEF SelectMachines, Running
<1>20. CASE CleanNext
  BY <1>20 DEF CleanNext
<1>21. CASE GetTasks
  BY <1>21 DEF GetTasks
<1>22. ASSUME NEW t \in Task, CloseTask(t) PROVE TypeInv'
  BY <1>22 DEF CloseTask, TaskStatus
<1>23. ASSUME NEW t \in Task, ServeTask(t) PROVE TypeInv'
  <2>1. StillBusy(t) \in BOOLEAN
    BY DEF StillBusy
  <2> HIDE DEF TypeInv
  <2>2. task' \in [Task -> [status : TaskStatus, busy : BOOLEAN]]
    BY <1>23, <2>1 DEF ServeTask, TaskStatus, TypeInv
  <2> QED BY <1>23, <2>2 DEF ServeTask, TypeInv
<1>24. ASSUME NEW t \in Task, MakeProgress(t) PROVE TypeInv'
  <2>1. TypeOf[t] \in Type /\ NumForTask(TypeOf[t]) \in Nat
    BY MachinePoolAssumption DEF NumForTask, MachinePoolAssumption
  <2>2. left' \in Nat /\ type' \in Type
    BY <1>24, <2>1, ToAllocateType DEF MakeProgress, Allocate
  <2>3. StillBusy(t) \in BOOLEAN
    BY DEF StillBusy
  <2>4. task' \in [Task -> [status : TaskStatus, busy : BOOLEAN]]
    BY <1>24, <2>3 DEF MakeProgress, TaskStatus
  <2> QED BY <1>24, <2>2, <2>4 DEF MakeProgress, Allocate
<1>25. CASE RunDocker
  <2>1. task' \in [Task -> [status : TaskStatus, busy : BOOLEAN]]
    <3>1. current \in Task
      BY <1>25 DEF RunDocker
    <3>2. [task EXCEPT ![current].busy = TRUE]
             \in [Task -> [status : TaskStatus, busy : BOOLEAN]]
      BY <3>1 DEF TaskStatus
    <3> QED BY <1>25, <3>2 DEF RunDocker
  <2> QED BY <1>25, <2>1 DEF RunDocker
<1>26. CASE EndCycle
  <2>1. agenda' \in Seq(Job)
    BY <1>26 DEF EndCycle, Forget
  <2> QED BY <1>26, <2>1 DEF EndCycle, Forget
<1>27. CASE Crash
  <2>1. agenda' \in Seq(Job)
    BY <1>27 DEF Crash, Forget
  <2>2. faults' \in Nat /\ happened' \in SUBSET AllFaults
    BY <1>27, FaultType DEF Crash
  <2> QED BY <1>27, <2>1, <2>2 DEF Crash, Forget
<1>34. CASE Reject
  <2>1. agenda' \in Seq(Job)
    BY <1>34 DEF Reject, Forget
  <2>2. faults' \in Nat /\ happened' \in SUBSET AllFaults
    BY <1>34, FaultType DEF Reject
  <2>3. used' \in [Eip -> BOOLEAN]
    BY <1>34, Rejection
  <2> QED BY <1>34, <2>1, <2>2, <2>3 DEF Reject, Forget
<1>35. CASE Restart
  BY <1>35 DEF Restart
<1>28. CASE PauseTasks
  <2>1. faults' \in Nat /\ happened' \in SUBSET AllFaults
    BY <1>28, FaultType DEF PauseTasks
  <2>2. task' \in [Task -> [status : TaskStatus, busy : BOOLEAN]]
    BY <1>28 DEF PauseTasks, PauseStarted, TaskStatus
  <2> QED BY <1>28, <2>1, <2>2 DEF PauseTasks
<1>29. CASE ResumeTasks
  <2>1. faults' \in Nat /\ happened' \in SUBSET AllFaults
    BY <1>29, FaultType DEF ResumeTasks
  <2>2. task' \in [Task -> [status : TaskStatus, busy : BOOLEAN]]
    BY <1>29 DEF ResumeTasks, TaskStatus
  <2> QED BY <1>29, <2>1, <2>2 DEF ResumeTasks
<1>30. CASE CreateConfig
  BY <1>30, FaultType DEF CreateConfig
<1>31. CASE DeleteAllMachines
  BY <1>31, FaultType, Dropped DEF DeleteAllMachines
<1>32. ASSUME NEW t \in Task, WorkersEnd(t) PROVE TypeInv'
  BY <1>32 DEF WorkersEnd
<1>33. CASE UNCHANGED vars
  BY <1>33 DEF vars
<1> QED BY <1>1, <1>2, <1>3, <1>4, <1>5, <1>6, <1>7, <1>8, <1>9, <1>10, <1>11, <1>12,
        <1>13, <1>14, <1>15, <1>16, <1>17, <1>18, <1>19, <1>20, <1>21, <1>22, <1>23, <1>24,
        <1>25, <1>26, <1>27, <1>28, <1>29, <1>30, <1>31, <1>32, <1>33, <1>34,
        <1>35 DEF Next, Scheduler

\* Every variable has its type, whatever fails and for any number of machines,
\* addresses and tasks.
THEOREM PoolTypeCorrect == Spec => []TypeOK
<1>1. TypeInv => TypeOK
  BY DEF TypeInv
<1> QED BY <1>1, TypeInit, TypeNext, PTL DEF Spec

-----------------------------------------------------------------------------
(* Leases.                                                                  *)

InService(m) == doc[m].status = "running"

\* No machine in service other than m has the address e.
OthersAvoid(e, m) == \A n \in Machine \ {m} : InService(n) => doc[n].eip # e

\* What the documents say of the machine that allocate or cleanup works on, also
\* when somebody drops them: it is not in service before it is saved, and once it is
\* marked as terminated; cleanupAll takes each machine once.
DocInv ==
    /\ \A m \in Machine : InService(m) => doc[m].eip \in Eip
    /\ \A m \in Machine : vm[m] = "none" => doc[m].status = "none"
    /\ pc = "record" => vm[cur] # "none" /\ ~InService(cur)
    /\ pc \in Owning \/ (pc = "free" /\ cur # None)
          => doc[cur].status \in {"initial", "none"} /\ doc[cur].eip = lease
    /\ pc \in Cleaning => cur \notin rest /\ doc[cur].eip \in Eip
    /\ pc = "release" => ~InService(cur)
    /\ \A m \in rest : doc[m].eip \in Eip
    /\ rest # {} => pc = "clean" \/ (pc \in Cleaning /\ back = "clean")

\* LeaseExclusive, and why it stays true: from getElasticIp to the end of
\* allocate nobody in service has the lease, and before the lease or the address
\* of a machine under removal is given back, nobody else in service has it.
LeaseInv ==
    /\ \A m \in Machine : InService(m) => used[doc[m].eip] /\ OthersAvoid(doc[m].eip, m)
    /\ pc \in Holding => used[lease]
    /\ pc \in Holding \cup {"free"} => OthersAvoid(lease, None)
    /\ pc \in Cleaning => OthersAvoid(doc[cur].eip, cur)
    /\ \A m \in rest : OthersAvoid(doc[m].eip, m)

\* The configuration was never reset.
Kept == "reset" \notin happened

LEMMA DocInit == Init => DocInv
BY DEF Init, DocInv, InService, NoDoc, Owning, Cleaning

LEMMA DocNext == TypeInv /\ DocInv /\ [Next]_vars => DocInv'
<1> SUFFICES ASSUME TypeInv, DocInv, [Next]_vars PROVE DocInv'
  OBVIOUS
<1> USE MachinePoolAssumption DEF MachinePoolAssumption
<1> USE DEF TypeInv, TypeOK, LocalsInv, DocInv, InService
<1> USE DEF poolVars, allocVars, taskVars, faultVars
<1> USE DEF Holding, Owning, Cleaning
<1>1. CASE StartCycle
  BY <1>1 DEF StartCycle
<1>2. CASE KeepOnline
  BY <1>2 DEF KeepOnline, NextJob, Allocate
<1>3. CASE GetElasticIp
  BY <1>3 DEF GetElasticIp, MarkUsed
<1>4. CASE Provision
  BY <1>4 DEF Provision
<1>5. CASE RecordMachine
  <2>1. vm' = vm /\ rest' = {} /\ rest = {} /\ lease' = lease /\ lease \in Eip
        /\ vm[cur] # "none" /\ ~InService(cur)
    BY <1>5 DEF RecordMachine
  <2>2. CASE doc' = doc
    BY <1>5, <2>1, <2>2 DEF RecordMachine
  <2>3. CASE doc' # doc
    <3>1. /\ pc' = "associate" /\ cur' = cur
          /\ doc'[cur].status = "initial" /\ doc'[cur].eip = lease
          /\ \A m \in Machine \ {cur} : doc'[m] = doc[m]
      BY <1>5, <2>3, Recorded
    <3>2. ASSUME NEW m \in Machine
          PROVE  /\ InService(m)' => doc'[m].eip \in Eip
                 /\ vm'[m] = "none" => doc'[m].status = "none"
      <4>1. CASE m = cur
        BY <2>1, <3>1, <4>1
      <4>2. CASE m # cur
        BY <2>1, <3>1, <4>2
      <4> QED BY <4>1, <4>2
    <3> QED BY <2>1, <3>1, <3>2
  <2> QED BY <2>2, <2>3
<1>6. CASE AssociateElasticIp
  BY <1>6 DEF AssociateElasticIp, Associated
<1>7. CASE RegenerateCerts
  BY <1>7 DEF RegenerateCerts
<1>8. CASE WaitUntilServiceOnline
  BY <1>8 DEF WaitUntilServiceOnline, AfterOffline
<1>9. CASE SaveRunning
  <2>1. vm' = vm /\ rest' = {} /\ rest = {} /\ lease' = lease /\ lease \in Eip
        /\ doc[cur].eip = lease /\ back' = back
    BY <1>9 DEF SaveRunning
  <2>2. CASE doc' = doc
    BY <1>9, <2>1, <2>2 DEF SaveRunning
  <2>3. CASE doc' # doc
    <3>1. /\ cur \in Machine /\ cur' = cur
          /\ doc[cur].status # "none"
          /\ pc' \in {"lease", "next", "launch", "clean"}
          /\ doc'[cur].status = "running" /\ doc'[cur].eip = doc[cur].eip
          /\ \A m \in Machine \ {cur} : doc'[m] = doc[m]
      BY <1>9, <2>3, SavedRunning
    <3>2. ASSUME NEW m \in Machine
          PROVE  /\ InService(m)' => doc'[m].eip \in Eip
                 /\ vm'[m] = "none" => doc'[m].status = "none"
      <4>1. CASE m = cur
        BY <2>1, <3>1, <4>1
      <4>2. CASE m # cur
        BY <2>1, <3>1, <4>2
      <4> QED BY <4>1, <4>2
    <3>3. doc'[cur].eip = lease'
      BY <2>1, <3>1
    <3> QED BY <2>1, <3>1, <3>2, <3>3
  <2> QED BY <2>2, <2>3
<1>10. CASE FreeElasticIp
  BY <1>10 DEF FreeElasticIp, MarkFree
<1>11. CASE StopMachine
  BY <1>11 DEF StopMachine
<1>12. CASE RemoveMachine
  BY <1>12 DEF RemoveMachine
<1>13. CASE SaveTerminated
  <2>1. vm' = vm /\ rest' = rest /\ back' = back /\ cur \notin rest
        /\ doc[cur].eip \in Eip /\ (rest # {} => back = "clean")
    BY <1>13 DEF SaveTerminated
  <2>2. CASE doc' = doc
    BY <1>13, <2>1, <2>2, SavedTerminated DEF SaveTerminated
  <2>3. CASE doc' # doc
    <3>1. /\ cur \in Machine /\ cur' = cur
          /\ doc[cur].status # "none" /\ pc' = "release"
          /\ doc'[cur].status = "terminated" /\ doc'[cur].eip = doc[cur].eip
          /\ \A m \in Machine \ {cur} : doc'[m] = doc[m]
      BY <1>13, <2>3, SavedTerminated
    <3>2. \A m \in rest : doc'[m].eip \in Eip
      BY <3>1, <2>1
    <3>3. ASSUME NEW m \in Machine
          PROVE  /\ InService(m)' => doc'[m].eip \in Eip
                 /\ vm'[m] = "none" => doc'[m].status = "none"
      <4>1. CASE m = cur
        BY <2>1, <3>1, <4>1
      <4>2. CASE m # cur
        BY <2>1, <3>1, <4>2
      <4> QED BY <4>1, <4>2
    <3>4. ~InService(cur)'
      BY <3>1
    <3> QED BY <2>1, <3>1, <3>2, <3>3, <3>4
  <2> QED BY <2>2, <2>3
<1>14. CASE ReleaseElasticIp
  BY <1>14 DEF ReleaseElasticIp, MarkFree
<1>15. CASE CheckType
  BY <1>15 DEF CheckType, NextJob
<1>16. CASE FindPending
  BY <1>16 DEF FindPending
<1>17. CASE CountStarted
  BY <1>17 DEF CountStarted
<1>18. CASE ForceRemove
  BY <1>18 DEF ForceRemove, NextJob
<1>19. CASE SelectMachines
  BY <1>19 DEF SelectMachines, Running
<1>20. CASE CleanNext
  BY <1>20 DEF CleanNext
<1>21. CASE GetTasks
  BY <1>21 DEF GetTasks
<1>22. ASSUME NEW t \in Task, CloseTask(t) PROVE DocInv'
  BY <1>22 DEF CloseTask
<1>23. ASSUME NEW t \in Task, ServeTask(t) PROVE DocInv'
  BY <1>23 DEF ServeTask
<1>24. ASSUME NEW t \in Task, MakeProgress(t) PROVE DocInv'
  BY <1>24 DEF MakeProgress, Allocate
<1>25. CASE RunDocker
  BY <1>25 DEF RunDocker
<1>26. CASE EndCycle
  BY <1>26 DEF EndCycle, Forget
<1>27. CASE Crash
  BY <1>27 DEF Crash, Forget
<1>34. CASE Reject
  BY <1>34 DEF Reject, Forget
<1>35. CASE Restart
  BY <1>35 DEF Restart
<1>28. CASE PauseTasks
  BY <1>28 DEF PauseTasks
<1>29. CASE ResumeTasks
  BY <1>29 DEF ResumeTasks
<1>30. CASE CreateConfig
  BY <1>30 DEF CreateConfig
<1>31. CASE DeleteAllMachines
  <2>1. \A m \in Machine : doc'[m].status = "none" /\ doc'[m].eip = doc[m].eip
    BY <1>31, Dropped
  <2>2. UNCHANGED <<vm, pc, cur, lease, rest, back>>
    BY <1>31 DEF DeleteAllMachines
  <2> QED BY <2>1, <2>2
<1>32. ASSUME NEW t \in Task, WorkersEnd(t) PROVE DocInv'
  BY <1>32 DEF WorkersEnd
<1>33. CASE UNCHANGED vars
  BY <1>33 DEF vars
<1> QED BY <1>1, <1>2, <1>3, <1>4, <1>5, <1>6, <1>7, <1>8, <1>9, <1>10, <1>11, <1>12,
        <1>13, <1>14, <1>15, <1>16, <1>17, <1>18, <1>19, <1>20, <1>21, <1>22, <1>23,
        <1>24, <1>25, <1>26, <1>27, <1>28, <1>29, <1>30, <1>31, <1>32, <1>33, <1>34,
        <1>35
        DEF Next, Scheduler

\* What went wrong once stays on record.
LEMMA HappenedGrows == [Next]_vars => happened \subseteq happened'
<1> SUFFICES ASSUME [Next]_vars PROVE happened \subseteq happened'
  OBVIOUS
<1> USE DEF Fault, poolVars, taskVars, faultVars
<1>1. CASE StartCycle
  BY <1>1 DEF StartCycle
<1>2. CASE KeepOnline
  BY <1>2 DEF KeepOnline, NextJob, Allocate
<1>3. CASE GetElasticIp
  BY <1>3 DEF GetElasticIp, MarkUsed
<1>4. CASE Provision
  BY <1>4 DEF Provision
<1>5. CASE RecordMachine
  BY <1>5, Recorded DEF RecordMachine
<1>6. CASE AssociateElasticIp
  BY <1>6 DEF AssociateElasticIp, Associated
<1>7. CASE RegenerateCerts
  BY <1>7 DEF RegenerateCerts
<1>8. CASE WaitUntilServiceOnline
  BY <1>8 DEF WaitUntilServiceOnline, AfterOffline
<1>9. CASE SaveRunning
  BY <1>9 DEF SaveRunning, Saves, SaveFails
<1>10. CASE FreeElasticIp
  BY <1>10 DEF FreeElasticIp, MarkFree
<1>11. CASE StopMachine
  BY <1>11 DEF StopMachine
<1>12. CASE RemoveMachine
  BY <1>12 DEF RemoveMachine
<1>13. CASE SaveTerminated
  BY <1>13 DEF SaveTerminated, Saves, SaveFails
<1>14. CASE ReleaseElasticIp
  BY <1>14 DEF ReleaseElasticIp, MarkFree
<1>15. CASE CheckType
  BY <1>15 DEF CheckType, NextJob
<1>16. CASE FindPending
  BY <1>16 DEF FindPending
<1>17. CASE CountStarted
  BY <1>17 DEF CountStarted
<1>18. CASE ForceRemove
  BY <1>18 DEF ForceRemove, NextJob
<1>19. CASE SelectMachines
  BY <1>19 DEF SelectMachines, Running
<1>20. CASE CleanNext
  BY <1>20 DEF CleanNext
<1>21. CASE GetTasks
  BY <1>21 DEF GetTasks
<1>22. ASSUME NEW t \in Task, CloseTask(t) PROVE happened \subseteq happened'
  BY <1>22 DEF CloseTask
<1>23. ASSUME NEW t \in Task, ServeTask(t) PROVE happened \subseteq happened'
  BY <1>23 DEF ServeTask
<1>24. ASSUME NEW t \in Task, MakeProgress(t) PROVE happened \subseteq happened'
  BY <1>24 DEF MakeProgress, Allocate
<1>25. CASE RunDocker
  BY <1>25 DEF RunDocker
<1>26. CASE EndCycle
  BY <1>26 DEF EndCycle, Forget
<1>27. CASE Crash
  BY <1>27 DEF Crash, Forget
<1>34. CASE Reject
  BY <1>34 DEF Reject, Forget
<1>35. CASE Restart
  BY <1>35 DEF Restart
<1>28. CASE PauseTasks
  BY <1>28 DEF PauseTasks
<1>29. CASE ResumeTasks
  BY <1>29 DEF ResumeTasks
<1>30. CASE CreateConfig
  BY <1>30 DEF CreateConfig
<1>31. CASE DeleteAllMachines
  BY <1>31, Dropped DEF DeleteAllMachines
<1>32. ASSUME NEW t \in Task, WorkersEnd(t) PROVE happened \subseteq happened'
  BY <1>32 DEF WorkersEnd
<1>33. CASE UNCHANGED vars
  BY <1>33 DEF vars
<1> QED BY <1>1, <1>2, <1>3, <1>4, <1>5, <1>6, <1>7, <1>8, <1>9, <1>10, <1>11, <1>12,
        <1>13, <1>14, <1>15, <1>16, <1>17, <1>18, <1>19, <1>20, <1>21, <1>22, <1>23,
        <1>24, <1>25, <1>26, <1>27, <1>28, <1>29, <1>30, <1>31, <1>32, <1>33, <1>34,
        <1>35
        DEF Next, Scheduler

\* Only a reset of the configuration ends the time before the first one.
LEMMA KeptBefore == [Next]_vars /\ Kept' => Kept
BY HappenedGrows DEF Kept

LEMMA LeaseInit == Init => LeaseInv
BY DEF Init, LeaseInv, InService, OthersAvoid, NoDoc, Holding, Owning, Cleaning

LEMMA LeaseNext ==
    TypeInv /\ DocInv /\ LeaseInv /\ [Next]_vars /\ Kept' => LeaseInv'
<1> SUFFICES ASSUME TypeInv, DocInv, LeaseInv, [Next]_vars, Kept' PROVE LeaseInv'
  OBVIOUS
<1> USE MachinePoolAssumption DEF MachinePoolAssumption
<1> USE DEF TypeInv, TypeOK, LocalsInv, DocInv, LeaseInv, InService, OthersAvoid
<1> USE DEF poolVars, allocVars, taskVars, faultVars
<1> USE DEF Holding, Owning, Cleaning
<1>1. CASE StartCycle
  BY <1>1 DEF StartCycle
<1>2. CASE KeepOnline
  BY <1>2 DEF KeepOnline, NextJob, Allocate
<1>3. CASE GetElasticIp
  <2>1. CASE pc' = back
    BY <1>3, <2>1 DEF GetElasticIp
  <2>2. ASSUME NEW e \in Eip, ~used[e], used' = MarkUsed(used, e), lease' = e,
               pc' = "provision"
        PROVE  LeaseInv'
    <3>1. OthersAvoid(e, None)
      BY <2>2
    <3>2. doc' = doc /\ rest' = {} /\ rest = {}
      BY <1>3 DEF GetElasticIp
    <3>3. used'[e] /\ \A x \in Eip : used[x] => used'[x]
      BY <2>2 DEF MarkUsed
    <3> QED BY <2>2, <3>1, <3>2, <3>3
  <2> QED BY <1>3, <2>1, <2>2 DEF GetElasticIp
<1>4. CASE Provision
  BY <1>4 DEF Provision
<1>5. CASE RecordMachine
  <2>1. used' = used /\ rest' = {} /\ lease' = lease /\ used[lease]
        /\ OthersAvoid(lease, None)
    BY <1>5 DEF RecordMachine
  <2>2. CASE doc' = doc
    BY <1>5, <2>1, <2>2 DEF RecordMachine
  <2>3. CASE doc' # doc
    <3>1. /\ pc' = "associate"
          /\ doc'[cur].status = "initial"
          /\ \A m \in Machine \ {cur} : doc'[m] = doc[m]
      BY <1>5, <2>3, Recorded
    <3>2. ASSUME NEW m \in Machine, InService(m)'
          PROVE  InService(m) /\ doc'[m].eip = doc[m].eip
      BY <3>1, <3>2
    <3>4. ASSUME NEW m \in Machine, InService(m)'
          PROVE  (used[doc[m].eip] /\ OthersAvoid(doc[m].eip, m))'
      <4>1. InService(m) /\ doc'[m].eip = doc[m].eip
        BY <3>2, <3>4
      <4>2. used[doc[m].eip] /\ OthersAvoid(doc[m].eip, m)
        BY <4>1
      <4>3. OthersAvoid(doc[m].eip, m)'
        BY <3>2, <4>1, <4>2
      <4> QED BY <2>1, <4>1, <4>2, <4>3
    <3>5. OthersAvoid(lease, None)'
      <4>1. ASSUME NEW m \in Machine \ {None}, InService(m)'
            PROVE  doc'[m].eip # lease'
        BY <2>1, <3>2, <4>1
      <4> QED BY <4>1
    <3> QED BY <2>1, <3>1, <3>4, <3>5
  <2> QED BY <2>2, <2>3
<1>6. CASE AssociateElasticIp
  BY <1>6 DEF AssociateElasticIp, Associated
<1>7. CASE RegenerateCerts
  BY <1>7 DEF RegenerateCerts
<1>8. CASE WaitUntilServiceOnline
  BY <1>8 DEF WaitUntilServiceOnline, AfterOffline
<1>9. CASE SaveRunning
  <2>1. used' = used /\ rest' = {} /\ lease' = lease /\ used[lease]
        /\ doc[cur].eip = lease /\ OthersAvoid(lease, None)
    BY <1>9 DEF SaveRunning
  <2>2. CASE doc' = doc
    BY <1>9, <2>1, <2>2 DEF SaveRunning
  <2>3. CASE doc' # doc
    <3>1. /\ cur \in Machine
          /\ pc' \in {"lease", "next", "launch", "clean"}
          /\ doc'[cur].status = "running" /\ doc'[cur].eip = lease
          /\ \A m \in Machine \ {cur} : doc'[m] = doc[m]
      BY <1>9, <2>1, <2>3, SavedRunning
    <3>2. ASSUME NEW m \in Machine, InService(m)'
          PROVE  (used[doc[m].eip] /\ OthersAvoid(doc[m].eip, m))'
      <4>1. CASE m = cur
        BY <2>1, <3>1, <4>1
      <4>2. CASE m # cur
        <5>1. InService(m) /\ doc'[m].eip = doc[m].eip /\ doc[m].eip # lease
          BY <2>1, <3>1, <3>2, <4>2
        <5> QED BY <2>1, <3>1, <5>1
      <4> QED BY <4>1, <4>2
    <3> QED BY <2>1, <3>1, <3>2
  <2> QED BY <2>2, <2>3
<1>10. CASE FreeElasticIp
  BY <1>10 DEF FreeElasticIp, MarkFree
<1>11. CASE StopMachine
  BY <1>11 DEF StopMachine
<1>12. CASE RemoveMachine
  BY <1>12 DEF RemoveMachine
<1>13. CASE SaveTerminated
  <2>1. used' = used /\ rest' = rest /\ cur \notin rest /\ rest \in SUBSET Machine
        /\ OthersAvoid(doc[cur].eip, cur)
    BY <1>13 DEF SaveTerminated
  <2>2. CASE doc' = doc
    BY <1>13, <2>1, <2>2 DEF SaveTerminated
  <2>3. CASE doc' # doc
    <3>1. /\ cur \in Machine /\ cur' = cur /\ pc' = "release"
          /\ doc'[cur].status = "terminated" /\ doc'[cur].eip = doc[cur].eip
          /\ \A m \in Machine \ {cur} : doc'[m] = doc[m]
      BY <1>13, <2>3, SavedTerminated
    <3>2. ASSUME NEW m \in Machine, InService(m)'
          PROVE  InService(m) /\ doc'[m].eip = doc[m].eip
      BY <3>1, <3>2
    <3>3. \A m \in rest : doc'[m].eip = doc[m].eip
      BY <2>1, <3>1
    <3>5. ASSUME NEW m \in Machine, InService(m)'
          PROVE  (used[doc[m].eip] /\ OthersAvoid(doc[m].eip, m))'
      <4>1. InService(m) /\ doc'[m].eip = doc[m].eip
        BY <3>2, <3>5
      <4>2. used[doc[m].eip] /\ OthersAvoid(doc[m].eip, m)
        BY <4>1
      <4>3. OthersAvoid(doc[m].eip, m)'
        BY <3>2, <4>1, <4>2
      <4> QED BY <2>1, <4>1, <4>2, <4>3
    <3>6. OthersAvoid(doc[cur].eip, cur)'
      BY <2>1, <3>1, <3>2
    <3>7. ASSUME NEW m \in rest' PROVE OthersAvoid(doc[m].eip, m)'
      <4>1. m \in rest /\ doc'[m].eip = doc[m].eip /\ OthersAvoid(doc[m].eip, m)
        BY <2>1, <3>3, <3>7
      <4> QED BY <3>2, <4>1
    <3> QED BY <3>1, <3>5, <3>6, <3>7
  <2> QED BY <2>2, <2>3
<1>14. CASE ReleaseElasticIp
  <2>1. /\ doc' = doc /\ rest' = rest /\ rest \in SUBSET Machine
        /\ ~InService(cur) /\ OthersAvoid(doc[cur].eip, cur)
        /\ pc' \in {"next", "launch", "clean"}
    BY <1>14 DEF ReleaseElasticIp
  <2>2. ASSUME NEW m \in Machine, InService(m) PROVE doc[m].eip # doc[cur].eip
    BY <2>1, <2>2
  <2>3. \A m \in Machine : InService(m) => used'[doc[m].eip]
    BY <1>14, <2>2 DEF ReleaseElasticIp, MarkFree
  <2> QED BY <2>1, <2>3
<1>15. CASE CheckType
  BY <1>15 DEF CheckType, NextJob
<1>16. CASE FindPending
  BY <1>16 DEF FindPending
<1>17. CASE CountStarted
  BY <1>17 DEF CountStarted
<1>18. CASE ForceRemove
  BY <1>18 DEF ForceRemove, NextJob
<1>19. CASE SelectMachines
  BY <1>19 DEF SelectMachines, Running
<1>20. CASE CleanNext
  BY <1>20 DEF CleanNext
<1>21. CASE GetTasks
  BY <1>21 DEF GetTasks
<1>22. ASSUME NEW t \in Task, CloseTask(t) PROVE LeaseInv'
  BY <1>22 DEF CloseTask
<1>23. ASSUME NEW t \in Task, ServeTask(t) PROVE LeaseInv'
  BY <1>23 DEF ServeTask
<1>24. ASSUME NEW t \in Task, MakeProgress(t) PROVE LeaseInv'
  BY <1>24 DEF MakeProgress, Allocate
<1>25. CASE RunDocker
  BY <1>25 DEF RunDocker
<1>26. CASE EndCycle
  BY <1>26 DEF EndCycle, Forget
<1>27. CASE Crash
  BY <1>27 DEF Crash, Forget
<1>34. CASE Reject
  <2>1. doc' = doc /\ rest' = {} /\ pc' = "hung"
    BY <1>34, Rejection
  <2>2. ASSUME NEW m \in Machine, InService(m)
        PROVE  used'[doc[m].eip]
    <3>1. used[doc[m].eip] /\ doc[m].eip \in Eip
      BY <2>2
    <3>2. pc = "free" => doc[m].eip # lease
      BY <2>2
    <3> QED BY <1>34, <3>1, <3>2, Rejection DEF MarkUsed, MarkFree
  <2> QED BY <2>1, <2>2
<1>35. CASE Restart
  BY <1>35 DEF Restart
<1>28. CASE PauseTasks
  BY <1>28 DEF PauseTasks
<1>29. CASE ResumeTasks
  BY <1>29 DEF ResumeTasks
<1>30. CASE CreateConfig
  BY <1>30 DEF CreateConfig, Fault, Kept
<1>31. CASE DeleteAllMachines
  BY <1>31, Dropped DEF DeleteAllMachines
<1>32. ASSUME NEW t \in Task, WorkersEnd(t) PROVE LeaseInv'
  BY <1>32 DEF WorkersEnd
<1>33. CASE UNCHANGED vars
  BY <1>33 DEF vars
<1> QED BY <1>1, <1>2, <1>3, <1>4, <1>5, <1>6, <1>7, <1>8, <1>9, <1>10, <1>11, <1>12,
        <1>13, <1>14, <1>15, <1>16, <1>17, <1>18, <1>19, <1>20, <1>21, <1>22, <1>23,
        <1>24, <1>25, <1>26, <1>27, <1>28, <1>29, <1>30, <1>31, <1>32, <1>33, <1>34,
        <1>35
        DEF Next, Scheduler

\* Two machines in service never share an address, and their addresses are
\* marked as used, whatever fails and wherever the scheduler crashes, until somebody
\* resets the configuration.
THEOREM LeasesAreExclusive == Spec => []LeaseExclusive
<1>1. DocInv /\ (Kept => LeaseInv) => LeaseExclusive
  BY DEF DocInv, LeaseInv, Kept, LeaseExclusive, Running, InService, OthersAvoid
<1>2. TypeInv /\ DocInv /\ (Kept => LeaseInv) /\ [Next]_vars => (Kept => LeaseInv)'
  BY KeptBefore, LeaseNext
<1> QED BY <1>1, <1>2, TypeInit, TypeNext, DocInit, DocNext, LeaseInit, PTL DEF Spec

-----------------------------------------------------------------------------
(* Endpoints.                                                               *)

\* EndpointsAreOwn, and why it stays true: from associateElasticIp on the lease
\* leads to the machine that is about to go into service.
EndpointInv ==
    /\ \A m \in Machine : InService(m) /\ vm[m] = "up" => addr[doc[m].eip] = m
    /\ pc \in {"certs", "online", "save"} => addr[lease] = cur

LEMMA EndpointInit == Init => EndpointInv
BY DEF Init, EndpointInv, InService, NoDoc

LEMMA EndpointNext ==
    TypeInv /\ DocInv /\ LeaseInv /\ EndpointInv /\ [Next]_vars => EndpointInv'
<1> SUFFICES ASSUME TypeInv, DocInv, LeaseInv, EndpointInv, [Next]_vars
             PROVE  EndpointInv'
  OBVIOUS
<1> USE MachinePoolAssumption DEF MachinePoolAssumption
<1> USE DEF TypeInv, TypeOK, LocalsInv, DocInv, LeaseInv, EndpointInv, InService, OthersAvoid
<1> USE DEF poolVars, allocVars, taskVars, faultVars
<1> USE DEF Holding, Owning, Cleaning
<1>1. CASE StartCycle
  BY <1>1 DEF StartCycle
<1>2. CASE KeepOnline
  BY <1>2 DEF KeepOnline, NextJob, Allocate
<1>3. CASE GetElasticIp
  BY <1>3 DEF GetElasticIp, MarkUsed
<1>4. CASE Provision
  BY <1>4 DEF Provision
<1>5. CASE RecordMachine
  BY <1>5, Recorded DEF RecordMachine
<1>6. CASE AssociateElasticIp
  BY <1>6 DEF AssociateElasticIp, Associated
<1>7. CASE RegenerateCerts
  BY <1>7 DEF RegenerateCerts
<1>8. CASE WaitUntilServiceOnline
  BY <1>8 DEF WaitUntilServiceOnline, AfterOffline
<1>9. CASE SaveRunning
  <2>1. addr' = addr /\ vm' = vm /\ addr[lease] = cur /\ doc[cur].eip = lease
    BY <1>9 DEF SaveRunning
  <2>2. CASE doc' = doc
    BY <1>9, <2>1, <2>2 DEF SaveRunning
  <2>3. CASE doc' # doc
    <3>1. /\ pc' \notin {"certs", "online", "save"}
          /\ doc'[cur].eip = lease
          /\ \A m \in Machine \ {cur} : doc'[m] = doc[m]
      BY <1>9, <2>1, <2>3, SavedRunning
    <3>2. ASSUME NEW m \in Machine, InService(m)', vm'[m] = "up"
          PROVE  addr'[doc'[m].eip] = m
      <4>1. CASE m = cur
        BY <2>1, <3>1, <4>1
      <4>2. CASE m # cur
        BY <2>1, <3>1, <3>2, <4>2
      <4> QED BY <4>1, <4>2
    <3> QED BY <3>1, <3>2
  <2> QED BY <2>2, <2>3
<1>10. CASE FreeElasticIp
  BY <1>10 DEF FreeElasticIp, MarkFree
<1>11. CASE StopMachine
  BY <1>11 DEF StopMachine
<1>12. CASE RemoveMachine
  <2>1. doc' = doc /\ pc' \notin {"certs", "online", "save"}
    BY <1>12 DEF RemoveMachine
  <2>2. ASSUME NEW m \in Machine, InService(m)', vm'[m] = "up"
        PROVE  addr'[doc'[m].eip] = m
    <3>1. InService(m) /\ vm[m] = "up" /\ doc[m].eip \in Eip
      BY <1>12, <2>1, <2>2 DEF RemoveMachine, InService
    <3>2. addr[doc[m].eip] = m /\ (addr' # addr => m # cur)
      BY <1>12, <2>2, <3>1 DEF RemoveMachine
    <3> QED BY <1>12, <2>1, <3>1, <3>2 DEF RemoveMachine
  <2> QED BY <2>1, <2>2
<1>13. CASE SaveTerminated
  <2>1. addr' = addr /\ vm' = vm /\ pc' \notin {"certs", "online", "save"}
    BY <1>13 DEF SaveTerminated
  <2>2. ASSUME NEW m \in Machine, InService(m)'
        PROVE  InService(m) /\ doc'[m].eip = doc[m].eip
    BY <1>13, <2>2, SavedTerminated DEF SaveTerminated, InService
  <2> QED BY <2>1, <2>2
<1>14. CASE ReleaseElasticIp
  BY <1>14 DEF ReleaseElasticIp, MarkFree
<1>15. CASE CheckType
  BY <1>15 DEF CheckType, NextJob
<1>16. CASE FindPending
  BY <1>16 DEF FindPending
<1>17. CASE CountStarted
  BY <1>17 DEF CountStarted
<1>18. CASE ForceRemove
  BY <1>18 DEF ForceRemove, NextJob
<1>19. CASE SelectMachines
  BY <1>19 DEF SelectMachines, Running
<1>20. CASE CleanNext
  BY <1>20 DEF CleanNext
<1>21. CASE GetTasks
  BY <1>21 DEF GetTasks
<1>22. ASSUME NEW t \in Task, CloseTask(t) PROVE EndpointInv'
  BY <1>22 DEF CloseTask
<1>23. ASSUME NEW t \in Task, ServeTask(t) PROVE EndpointInv'
  BY <1>23 DEF ServeTask
<1>24. ASSUME NEW t \in Task, MakeProgress(t) PROVE EndpointInv'
  BY <1>24 DEF MakeProgress, Allocate
<1>25. CASE RunDocker
  BY <1>25 DEF RunDocker
<1>26. CASE EndCycle
  BY <1>26 DEF EndCycle, Forget
<1>27. CASE Crash
  BY <1>27 DEF Crash, Forget
<1>34. CASE Reject
  BY <1>34 DEF Reject, Forget
<1>35. CASE Restart
  BY <1>35 DEF Restart
<1>28. CASE PauseTasks
  BY <1>28 DEF PauseTasks
<1>29. CASE ResumeTasks
  BY <1>29 DEF ResumeTasks
<1>30. CASE CreateConfig
  BY <1>30, FaultType DEF CreateConfig
<1>31. CASE DeleteAllMachines
  BY <1>31, FaultType, Dropped DEF DeleteAllMachines
<1>32. ASSUME NEW t \in Task, WorkersEnd(t) PROVE EndpointInv'
  BY <1>32 DEF WorkersEnd
<1>33. CASE UNCHANGED vars
  BY <1>33 DEF vars
<1> QED BY <1>1, <1>2, <1>3, <1>4, <1>5, <1>6, <1>7, <1>8, <1>9, <1>10, <1>11, <1>12,
        <1>13, <1>14, <1>15, <1>16, <1>17, <1>18, <1>19, <1>20, <1>21, <1>22, <1>23, <1>24,
        <1>25, <1>26, <1>27, <1>28, <1>29, <1>30, <1>31, <1>32, <1>33, <1>34,
        <1>35 DEF Next, Scheduler

\* The endpoint of a machine in service leads to that machine.
THEOREM EndpointsLeadHome == Spec => []EndpointsAreOwn
<1> DEFINE Good == Kept => LeaseInv /\ EndpointInv
<1>1. Good => EndpointsAreOwn
  BY DEF EndpointInv, EndpointsAreOwn, Running, InService, Kept
<1>2. TypeInv /\ DocInv /\ Good /\ [Next]_vars => Good'
  BY KeptBefore, LeaseNext, EndpointNext
<1>3. Init => Good
  BY LeaseInit, EndpointInit
<1> HIDE DEF Good
<1> QED BY <1>1, <1>2, <1>3, TypeInit, TypeNext, DocInit, DocNext, PTL DEF Spec

-----------------------------------------------------------------------------
(* Capacity.                                                                *)

\* NotOverAllocated, and why it stays true: the machines allocate has still to
\* start are within the limit too, although the other steps of the cycle and the
\* clean-up come in between.
CapacityInv ==
    /\ \A ty \in Type : Cardinality(Running(ty)) <= NumForTask(ty)
    /\ pc \in Holding \cup {"lease"}
          => Cardinality(Running(type)) + left <= NumForTask(type)

LEMMA NumForTaskType ==
    ASSUME NEW ty \in Type
    PROVE  /\ NumMachines[ty] \in Nat
           /\ NumForTask(ty) \in Nat
           /\ NumMachines[ty] <= NumForTask(ty)
BY MachinePoolAssumption DEF NumForTask, MachinePoolAssumption

\* Allocate never plans for more than it is asked for.
LEMMA ToAllocateBound ==
    ASSUME NEW ty \in Type, NEW n \in Nat, ToAllocate(ty, n) # 0
    PROVE  Cardinality(Running(ty)) + ToAllocate(ty, n) = n
BY RunningFinite DEF ToAllocate

\* A step that puts no machine into service and does not enter allocate keeps
\* within the limits.
LEMMA FewerRunning ==
    ASSUME TypeInv, CapacityInv,
           \A ty \in Type : Running(ty)' \subseteq Running(ty),
           \/ pc' \notin Holding \cup {"lease"}
           \/ pc \in Holding \cup {"lease"} /\ type' = type /\ left' = left
    PROVE  CapacityInv'
<1>1. ASSUME NEW ty \in Type
      PROVE  /\ Cardinality(Running(ty)') \in Nat
             /\ Cardinality(Running(ty)') <= Cardinality(Running(ty))
  BY <1>1, RunningFinite, FS_Subset, FS_CardinalityType
<1>2. \A ty \in Type : NumForTask(ty)' = NumForTask(ty)
  BY DEF NumForTask
<1>3. \A ty \in Type : Cardinality(Running(ty)) \in Nat /\ NumForTask(ty) \in Nat
  BY RunningFinite, NumForTaskType
<1>4. \A ty \in Type : Cardinality(Running(ty))' <= NumForTask(ty)'
  BY <1>1, <1>2, <1>3 DEF CapacityInv
<1>5. ASSUME pc' \in Holding \cup {"lease"}
      PROVE  (Cardinality(Running(type)) + left <= NumForTask(type))'
  <2>1. type \in Type /\ type' = type /\ left' = left /\ left \in Nat
    BY <1>5 DEF TypeInv, TypeOK, LocalsInv
  <2>2. Cardinality(Running(type)) + left <= NumForTask(type)
    BY <1>5 DEF CapacityInv
  <2> QED BY <2>1, <2>2, <1>1, <1>2, <1>3
<1> QED BY <1>4, <1>5 DEF CapacityInv

\* allocate enters its loop within the limit of the machines asked for.
LEMMA AllocateWithinLimit ==
    ASSUME TypeInv, CapacityInv, doc' = doc,
           NEW ty \in Type, NEW n \in Nat, n <= NumForTask(ty),
           NEW return \in {"next", "launch"}, Allocate(ty, n, return)
    PROVE  CapacityInv'
<1>1. \A x : Running(x)' = Running(x)
  BY DEF Running
<1>2. \A x \in Type : Cardinality(Running(x))' <= NumForTask(x)'
  BY <1>1 DEF CapacityInv, NumForTask
<1>3. CASE ToAllocate(ty, n) = 0
  BY <1>2, <1>3 DEF Allocate, CapacityInv, Holding, Owning
<1>4. CASE ToAllocate(ty, n) # 0
  <2>1. Cardinality(Running(ty)) + ToAllocate(ty, n) = n
    BY <1>4, ToAllocateBound
  <2>2. type' = ty /\ left' = ToAllocate(ty, n)
    BY DEF Allocate
  <2>3. (Cardinality(Running(type)) + left <= NumForTask(type))'
    BY <1>1, <2>1, <2>2 DEF NumForTask
  <2> QED BY <1>2, <2>3 DEF CapacityInv
<1> QED BY <1>3, <1>4

LEMMA CapacityInit == Init => CapacityInv
<1> SUFFICES ASSUME Init PROVE CapacityInv
  OBVIOUS
<1>1. \A ty \in Type : Running(ty) = {}
  BY DEF Init, Running, NoDoc
<1>2. \A ty \in Type : Cardinality(Running(ty)) <= NumForTask(ty)
  BY <1>1, FS_EmptySet, NumForTaskType
<1> QED BY <1>2 DEF Init, CapacityInv, Holding, Owning

LEMMA CapacityNext ==
    TypeInv /\ DocInv /\ CapacityInv /\ [Next]_vars => CapacityInv'
<1> SUFFICES ASSUME TypeInv, DocInv, CapacityInv, [Next]_vars PROVE CapacityInv'
  OBVIOUS
<1>0. ASSUME doc' = doc PROVE \A ty \in Type : Running(ty)' \subseteq Running(ty)
  BY <1>0 DEF Running
<1> USE DEF poolVars, allocVars, taskVars, faultVars
<1> USE DEF Holding, Owning
<1>1. CASE StartCycle
  BY <1>1, <1>0, FewerRunning DEF StartCycle, TypeInv, TypeOK
<1>2. CASE KeepOnline
  <2>1. Head(agenda) \in Job
    BY <1>2, AgendaStep DEF KeepOnline, NextJob, TypeInv, TypeOK
  <2>2. Head(agenda).type \in Type
    BY <1>2, <2>1 DEF KeepOnline, NextJob, Job
  <2> QED BY <1>2, <2>2, NumForTaskType, AllocateWithinLimit DEF KeepOnline
<1>3. CASE GetElasticIp
  BY <1>3, <1>0, FewerRunning DEF GetElasticIp, MarkUsed, TypeInv, TypeOK
<1>4. CASE Provision
  BY <1>4, <1>0, FewerRunning DEF Provision, TypeInv, TypeOK
<1>5. CASE RecordMachine
  <2>1. \A ty \in Type : Running(ty)' \subseteq Running(ty)
    BY <1>5, Recorded DEF Running
  <2> QED BY <1>5, <2>1, FewerRunning DEF RecordMachine
<1>6. CASE AssociateElasticIp
  BY <1>6, <1>0, FewerRunning DEF AssociateElasticIp, Associated, TypeInv, TypeOK
<1>7. CASE RegenerateCerts
  BY <1>7, <1>0, FewerRunning DEF RegenerateCerts, TypeInv, TypeOK
<1>8. CASE WaitUntilServiceOnline
  BY <1>8, <1>0, FewerRunning DEF WaitUntilServiceOnline, AfterOffline, TypeInv, TypeOK
<1>9. CASE SaveRunning
  <2>1. CASE doc' # doc
    <3>1. /\ cur \in Machine /\ type \in Type /\ type' = type
          /\ left \in Nat /\ left > 0
          /\ doc[cur].status = "initial"
          /\ Cardinality(Running(type)) + left <= NumForTask(type)
      BY <1>9, <2>1, SavedRunning DEF SaveRunning, TypeInv, TypeOK, LocalsInv, DocInv, CapacityInv
    <3>2. /\ doc'[cur].status = "running" /\ doc'[cur].type = type
          /\ left' = left - 1
      BY <1>9, <2>1, SavedRunning
    <3>3. \A m \in Machine \ {cur} : doc'[m] = doc[m]
      BY <1>9, <2>1, SavedRunning
    <3>4. Running(type)' = Running(type) \cup {cur} /\ cur \notin Running(type)
      BY <3>1, <3>2, <3>3 DEF Running
    <3>5. \A ty \in Type \ {type} : Running(ty)' = Running(ty)
      BY <3>1, <3>2, <3>3, MachinePoolAssumption DEF Running, MachinePoolAssumption
    <3>6. Cardinality(Running(type))' = Cardinality(Running(type)) + 1
      BY <3>1, <3>4, RunningFinite, FS_AddElement
    <3>7. \A ty \in Type : NumForTask(ty)' = NumForTask(ty)
      BY DEF NumForTask
    <3>8. (Cardinality(Running(type)) + left <= NumForTask(type))'
      BY <3>1, <3>2, <3>6, <3>7, RunningFinite, NumForTaskType
    <3>9. \A ty \in Type : Cardinality(Running(ty))' <= NumForTask(ty)'
      BY <2>1, <3>1, <3>5, <3>6, <3>7, RunningFinite, NumForTaskType DEF CapacityInv
    <3> QED BY <3>8, <3>9 DEF CapacityInv
  <2>2. CASE doc' = doc
    <3>1. pc' \notin Holding \cup {"lease"} \/ (type' = type /\ left' = left)
      <4>1. doc[cur].status # "running"
        BY <1>9 DEF SaveRunning, DocInv
      <4> QED BY <1>9, <2>2, <4>1, SavedRunning DEF SaveRunning
    <3> QED BY <1>9, <2>2, <3>1, <1>0, FewerRunning DEF SaveRunning
  <2> QED BY <2>1, <2>2
<1>10. CASE FreeElasticIp
  BY <1>10, <1>0, FewerRunning DEF FreeElasticIp, MarkFree, TypeInv, TypeOK
<1>11. CASE StopMachine
  BY <1>11, <1>0, FewerRunning DEF StopMachine, TypeInv, TypeOK
<1>12. CASE RemoveMachine
  BY <1>12, <1>0, FewerRunning DEF RemoveMachine, TypeInv, TypeOK
<1>13. CASE SaveTerminated
  <2>1. \A ty \in Type : Running(ty)' \subseteq Running(ty)
    BY <1>13, SavedTerminated DEF Running
  <2>2. pc' \notin Holding \cup {"lease"}
    BY <1>13 DEF SaveTerminated, TypeInv, TypeOK
  <2> QED BY <2>1, <2>2, FewerRunning
<1>14. CASE ReleaseElasticIp
  BY <1>14, <1>0, FewerRunning DEF ReleaseElasticIp, MarkFree, TypeInv, TypeOK
<1>15. CASE CheckType
  BY <1>15, <1>0, FewerRunning DEF CheckType, NextJob, TypeInv, TypeOK
<1>16. CASE FindPending
  BY <1>16, <1>0, FewerRunning DEF FindPending, TypeInv, TypeOK
<1>17. CASE CountStarted
  BY <1>17, <1>0, FewerRunning DEF CountStarted, TypeInv, TypeOK
<1>18. CASE ForceRemove
  BY <1>18, <1>0, FewerRunning DEF ForceRemove, NextJob, TypeInv, TypeOK
<1>19. CASE SelectMachines
  BY <1>19, <1>0, FewerRunning DEF SelectMachines, Running, TypeInv, TypeOK
<1>20. CASE CleanNext
  BY <1>20, <1>0, FewerRunning DEF CleanNext, TypeInv, TypeOK
<1>21. CASE GetTasks
  BY <1>21, <1>0, FewerRunning DEF GetTasks, TypeInv, TypeOK
<1>22. ASSUME NEW t \in Task, CloseTask(t) PROVE CapacityInv'
  BY <1>22, <1>0, FewerRunning DEF CloseTask, TypeInv, TypeOK
<1>23. ASSUME NEW t \in Task, ServeTask(t) PROVE CapacityInv'
  BY <1>23, <1>0, FewerRunning DEF ServeTask, TypeInv, TypeOK
<1>24. ASSUME NEW t \in Task, MakeProgress(t) PROVE CapacityInv'
  <2>1. TypeOf[t] \in Type
    BY MachinePoolAssumption DEF MachinePoolAssumption
  <2>2. doc' = doc /\ Allocate(TypeOf[t], NumForTask(TypeOf[t]), "launch")
    BY <1>24 DEF MakeProgress
  <2> QED BY <2>1, <2>2, NumForTaskType, AllocateWithinLimit
<1>25. CASE RunDocker
  BY <1>25, <1>0, FewerRunning DEF RunDocker, TypeInv, TypeOK
<1>26. CASE EndCycle
  BY <1>26, <1>0, FewerRunning DEF EndCycle, Forget, TypeInv, TypeOK
<1>27. CASE Crash
  BY <1>27, <1>0, FewerRunning DEF Crash, Forget, TypeInv, TypeOK
<1>34. CASE Reject
  BY <1>34, <1>0, FewerRunning DEF Reject, Forget, TypeInv, TypeOK
<1>35. CASE Restart
  BY <1>35, <1>0, FewerRunning DEF Restart, TypeInv, TypeOK
<1>28. CASE PauseTasks
  BY <1>28, <1>0, FewerRunning DEF PauseTasks, TypeInv, TypeOK
<1>29. CASE ResumeTasks
  BY <1>29, <1>0, FewerRunning DEF ResumeTasks, TypeInv, TypeOK
<1>30. CASE CreateConfig
  BY <1>30, FaultType, <1>0, FewerRunning DEF CreateConfig, TypeInv, TypeOK
<1>31. CASE DeleteAllMachines
  <2>1. \A ty \in Type : Running(ty)' \subseteq Running(ty)
    BY <1>31, Dropped DEF Running, TypeInv
  <2> QED BY <1>31, <2>1, FewerRunning DEF DeleteAllMachines
<1>32. ASSUME NEW t \in Task, WorkersEnd(t) PROVE CapacityInv'
  BY <1>32, <1>0, FewerRunning DEF WorkersEnd, TypeInv, TypeOK
<1>33. CASE UNCHANGED vars
  BY <1>33, <1>0, FewerRunning DEF vars
<1> QED BY <1>1, <1>2, <1>3, <1>4, <1>5, <1>6, <1>7, <1>8, <1>9, <1>10, <1>11, <1>12,
        <1>13, <1>14, <1>15, <1>16, <1>17, <1>18, <1>19, <1>20, <1>21, <1>22, <1>23, <1>24,
        <1>25, <1>26, <1>27, <1>28, <1>29, <1>30, <1>31, <1>32, <1>33, <1>34,
        <1>35 DEF Next, Scheduler

\* There are never more machines of a type in service than configured, whatever
\* fails and however often allocate is called.
THEOREM NeverOverAllocated == Spec => []NotOverAllocated
<1>1. CapacityInv => NotOverAllocated
  BY DEF CapacityInv, NotOverAllocated
<1> QED BY <1>1, TypeInit, TypeNext, DocInit, DocNext, CapacityInit,
           CapacityNext, PTL DEF Spec

=============================================================================

------------------------- MODULE MachineReturnProofs -------------------------
(***************************************************************************)
(* Proofs about MachinePool: what provisioning took is given back when     *)
(* nothing but provisioning fails, and machines that work are not stopped. *)
(***************************************************************************)
EXTENDS MachinePoolProofs

-----------------------------------------------------------------------------
(* The documents of the machines under way.                                 *)

\* Unless somebody drops the documents, allocate and cleanup can save the one
\* they work on.
Documented ==
    /\ pc \in Owning \cup (Cleaning \ {"release"}) \/ (pc = "free" /\ cur # None)
          => doc[cur].status # "none"
    /\ \A m \in rest : doc[m].status # "none"

LEMMA DocumentedInit == Init => Documented
BY DEF Init, Documented, Owning, Cleaning

LEMMA DocumentedNext ==
    /\ TypeInv /\ DocInv /\ Documented /\ [Next]_vars
    /\ "drop" \notin happened'
    => Documented'
<1> SUFFICES ASSUME TypeInv, DocInv, Documented, [Next]_vars, "drop" \notin happened'
             PROVE  Documented'
  OBVIOUS
<1> USE DEF Documented
<1> USE MachinePoolAssumption DEF MachinePoolAssumption
<1> USE DEF TypeInv, TypeOK, LocalsInv, DocInv, InService
<1> USE DEF poolVars, allocVars, taskVars, faultVars
<1> USE DEF Holding, Owning, Cleaning
<1>1. CASE StartCycle
  BY <1>1 DEF StartCycle
<1>2. CASE KeepOnline
  BY <1>2 DEF KeepOnline, NextJob, Allocate
<1>3. CASE GetElasticIp
  BY <1>3 DEF GetElasticIp, MarkUsed
<1>4. CASE Provision
  BY <1>4 DEF Provision
<1>5. CASE RecordMachine
  <2>1. rest = {} /\ rest' = {}
    BY <1>5 DEF RecordMachine
  <2> QED BY <1>5, <2>1, Recorded DEF RecordMachine
<1>6. CASE AssociateElasticIp
  BY <1>6 DEF AssociateElasticIp, Associated
<1>7. CASE RegenerateCerts
  BY <1>7 DEF RegenerateCerts
<1>8. CASE WaitUntilServiceOnline
  BY <1>8 DEF WaitUntilServiceOnline, AfterOffline
<1>9. CASE SaveRunning
  <2>1. rest = {} /\ rest' = {} /\ doc[cur].status # "none"
    BY <1>9 DEF SaveRunning
  <2>2. CASE doc' = doc
    BY <1>9, <2>1, <2>2 DEF SaveRunning
  <2>3. CASE doc' # doc
    <3>1. pc' \in {"lease", "next", "launch", "clean"}
      BY <1>9, <2>3, SavedRunning
    <3> QED BY <2>1, <3>1
  <2> QED BY <2>2, <2>3
<1>10. CASE FreeElasticIp
  BY <1>10 DEF FreeElasticIp, MarkFree
<1>11. CASE StopMachine
  BY <1>11 DEF StopMachine
<1>12. CASE RemoveMachine
  BY <1>12 DEF RemoveMachine
<1>13. CASE SaveTerminated
  <2>1. pc' \in {"release", "next", "launch", "clean"} /\ rest' = rest
    BY <1>13 DEF SaveTerminated
  <2>2. \A m \in rest : m \in Machine \ {cur}
    BY <1>13 DEF SaveTerminated
  <2>3. \A m \in Machine \ {cur} : doc'[m] = doc[m]
    BY <1>13, SavedTerminated
  <2> QED BY <2>1, <2>2, <2>3
<1>14. CASE ReleaseElasticIp
  BY <1>14 DEF ReleaseElasticIp, MarkFree
<1>15. CASE CheckType
  BY <1>15 DEF CheckType, NextJob
<1>16. CASE FindPending
  BY <1>16 DEF FindPending
<1>17. CASE CountStarted
  BY <1>17 DEF CountStarted
<1>18. CASE ForceRemove
  BY <1>18 DEF ForceRemove, NextJob
<1>19. CASE SelectMachines
  BY <1>19 DEF SelectMachines, Running
<1>20. CASE CleanNext
  BY <1>20 DEF CleanNext
<1>21. CASE GetTasks
  BY <1>21 DEF GetTasks
<1>22. ASSUME NEW t \in Task, CloseTask(t) PROVE Documented'
  BY <1>22 DEF CloseTask
<1>23. ASSUME NEW t \in Task, ServeTask(t) PROVE Documented'
  BY <1>23 DEF ServeTask
<1>24. ASSUME NEW t \in Task, MakeProgress(t) PROVE Documented'
  BY <1>24 DEF MakeProgress, Allocate
<1>25. CASE RunDocker
  BY <1>25 DEF RunDocker
<1>26. CASE EndCycle
  BY <1>26 DEF EndCycle, Forget
<1>27. CASE Crash
  BY <1>27 DEF Crash, Forget
<1>34. CASE Reject
  BY <1>34 DEF Reject, Forget
<1>35. CASE Restart
  BY <1>35 DEF Restart
<1>28. CASE PauseTasks
  BY <1>28 DEF PauseTasks
<1>29. CASE ResumeTasks
  BY <1>29 DEF ResumeTasks
<1>30. CASE CreateConfig
  BY <1>30 DEF CreateConfig
<1>31. CASE DeleteAllMachines
  BY <1>31 DEF DeleteAllMachines, Fault
<1>32. ASSUME NEW t \in Task, WorkersEnd(t) PROVE Documented'
  BY <1>32 DEF WorkersEnd
<1>33. CASE UNCHANGED vars
  BY <1>33 DEF vars
<1> QED BY <1>1, <1>2, <1>3, <1>4, <1>5, <1>6, <1>7, <1>8, <1>9, <1>10, <1>11, <1>12,
        <1>13, <1>14, <1>15, <1>16, <1>17, <1>18, <1>19, <1>20, <1>21, <1>22, <1>23, <1>24,
        <1>25, <1>26, <1>27, <1>28, <1>29, <1>30, <1>31, <1>32, <1>33, <1>34,
        <1>35 DEF Next, Scheduler

-----------------------------------------------------------------------------
(* Addresses.                                                               *)

OnlyStarting == happened \subseteq Provisioning \cup {"create", "pause", "resume"}

\* e is the address of a machine in service.
Home(e) == \E m \in Machine : InService(m) /\ doc[m].eip = e

\* allocate or cleanup is about to give e to a machine, or back.
UnderWay(e) ==
    \/ pc \in Holding \cup {"free"} /\ e = lease
    \/ pc \in Cleaning /\ e = doc[cur].eip

\* LeasesReturned within the cycle: an address that is marked as used belongs to
\* somebody at every step.
ReturnInv == \A e \in Eip : used[e] => Home(e) \/ UnderWay(e)

LEMMA ReturnInit == Init => ReturnInv
BY DEF Init, ReturnInv

LEMMA ReturnNext ==
    /\ TypeInv /\ DocInv /\ Documented /\ ReturnInv /\ [Next]_vars
    /\ OnlyStarting'
    => ReturnInv'
<1> SUFFICES ASSUME TypeInv, DocInv, Documented, ReturnInv, [Next]_vars, OnlyStarting'
             PROVE  ReturnInv'
  OBVIOUS
<1> USE DEF Documented, ReturnInv, Home, UnderWay, OnlyStarting, Provisioning
<1> USE MachinePoolAssumption DEF MachinePoolAssumption
<1> USE DEF TypeInv, TypeOK, LocalsInv, DocInv, InService
<1> USE DEF poolVars, allocVars, taskVars, faultVars
<1> USE DEF Holding, Owning, Cleaning
<1>1. CASE StartCycle
  BY <1>1 DEF StartCycle
<1>2. CASE KeepOnline
  BY <1>2 DEF KeepOnline, NextJob, Allocate
<1>3. CASE GetElasticIp
  <2>1. CASE used' = used
    BY <1>3, <2>1 DEF GetElasticIp, MarkUsed
  <2>2. CASE used' # used
    <3>1. /\ used' = [used EXCEPT ![lease'] = TRUE]
          /\ pc' = "provision" /\ lease' \in Eip /\ doc' = doc /\ pc = "lease"
      BY <1>3, <2>2 DEF GetElasticIp, MarkUsed
    <3> QED BY <3>1
  <2> QED BY <2>1, <2>2
<1>4. CASE Provision
  BY <1>4 DEF Provision, Fault
<1>5. CASE RecordMachine
  <2>1. /\ pc' \in {"associate", "free"} /\ used' = used /\ lease' = lease
        /\ pc = "record" /\ ~InService(cur)
    BY <1>5 DEF RecordMachine
  <2>2. \A m \in Machine : InService(m) => InService(m)' /\ doc'[m].eip = doc[m].eip
    BY <1>5, <2>1, Recorded
  <2>3. \A e \in Eip : Home(e) => Home(e)'
    BY <2>2
  <2>4. \A e \in Eip : UnderWay(e) => UnderWay(e)'
    BY <2>1
  <2> QED BY <2>1, <2>3, <2>4
<1>6. CASE AssociateElasticIp
  BY <1>6 DEF AssociateElasticIp, Associated
<1>7. CASE RegenerateCerts
  BY <1>7 DEF RegenerateCerts
<1>8. CASE WaitUntilServiceOnline
  BY <1>8 DEF WaitUntilServiceOnline, AfterOffline
<1>9. CASE SaveRunning
  <2>1. /\ used' = used /\ lease' = lease /\ pc = "save"
        /\ doc[cur].eip = lease /\ doc[cur].status # "none" /\ ~InService(cur)
    BY <1>9 DEF SaveRunning
  <2>2. CASE pc' = "free" /\ doc' = doc
    BY <2>1, <2>2
  <2>3. CASE ~(pc' = "free" /\ doc' = doc)
    <3>1. /\ cur \in Machine
          /\ doc'[cur].status = "running" /\ doc'[cur].eip = lease
          /\ \A m \in Machine \ {cur} : doc'[m] = doc[m]
      BY <1>9, <2>1, <2>3, SavedRunning
    <3>2. ASSUME NEW m \in Machine, InService(m)
          PROVE  InService(m)' /\ doc'[m].eip = doc[m].eip
      <4>1. m # cur
        BY <2>1, <3>2
      <4> QED BY <3>1, <3>2, <4>1
    <3>3. \A e \in Eip : Home(e) => Home(e)'
      BY <3>2
    <3>4. \E m \in Machine : InService(m)' /\ doc'[m].eip = lease
      BY <3>1
    <3>5. \A e \in Eip : used'[e] => Home(e) \/ e = lease
      BY <2>1
    <3>6. \A e \in Eip : e = lease => Home(e)'
      BY <2>1, <3>4
    <3> QED BY <3>3, <3>5, <3>6
  <2> QED BY <2>2, <2>3
<1>10. CASE FreeElasticIp
  BY <1>10 DEF FreeElasticIp, MarkFree
<1>11. CASE StopMachine
  BY <1>11 DEF StopMachine, Fault
<1>12. CASE RemoveMachine
  BY <1>12 DEF RemoveMachine, Fault
<1>13. CASE SaveTerminated
  <2>1. /\ used' = used /\ pc = "mark" /\ cur' = cur /\ cur \in Machine
    BY <1>13 DEF SaveTerminated
  <2>2. doc[cur].status # "none"
    BY <2>1
  <2>3. /\ pc' = "release" /\ doc'[cur].eip = doc[cur].eip
        /\ \A m \in Machine \ {cur} : doc'[m] = doc[m]
    <3>1. ~(pc' = back /\ doc' = doc /\ SaveFails(cur))
      BY <2>2 DEF SaveFails, Saves, Fault
    <3> QED BY <1>13, <2>1, <3>1, SavedTerminated DEF SaveTerminated
  <2>4. \A e \in Eip : Home(e) => Home(e)' \/ e = doc'[cur'].eip
    BY <2>1, <2>3
  <2> QED BY <2>1, <2>3, <2>4
<1>14. CASE ReleaseElasticIp
  BY <1>14 DEF ReleaseElasticIp, MarkFree, Fault
<1>15. CASE CheckType
  BY <1>15 DEF CheckType, NextJob
<1>16. CASE FindPending
  BY <1>16 DEF FindPending
<1>17. CASE CountStarted
  BY <1>17 DEF CountStarted
<1>18. CASE ForceRemove
  BY <1>18 DEF ForceRemove, NextJob
<1>19. CASE SelectMachines
  BY <1>19 DEF SelectMachines, Running
<1>20. CASE CleanNext
  BY <1>20 DEF CleanNext
<1>21. CASE GetTasks
  BY <1>21 DEF GetTasks
<1>22. ASSUME NEW t \in Task, CloseTask(t) PROVE ReturnInv'
  BY <1>22 DEF CloseTask
<1>23. ASSUME NEW t \in Task, ServeTask(t) PROVE ReturnInv'
  BY <1>23 DEF ServeTask
<1>24. ASSUME NEW t \in Task, MakeProgress(t) PROVE ReturnInv'
  BY <1>24 DEF MakeProgress, Allocate
<1>25. CASE RunDocker
  BY <1>25 DEF RunDocker
<1>26. CASE EndCycle
  BY <1>26 DEF EndCycle, Forget
<1>27. CASE Crash
  BY <1>27 DEF Crash, Forget, Fault
<1>34. CASE Reject
  BY <1>34 DEF Reject, Fault
<1>35. CASE Restart
  BY <1>35 DEF Restart
<1>28. CASE PauseTasks
  BY <1>28 DEF PauseTasks
<1>29. CASE ResumeTasks
  BY <1>29 DEF ResumeTasks
<1>30. CASE CreateConfig
  BY <1>30 DEF CreateConfig, Fault
<1>31. CASE DeleteAllMachines
  BY <1>31 DEF DeleteAllMachines, Fault
<1>32. ASSUME NEW t \in Task, WorkersEnd(t) PROVE ReturnInv'
  BY <1>32 DEF WorkersEnd
<1>33. CASE UNCHANGED vars
  BY <1>33 DEF vars
<1> QED BY <1>1, <1>2, <1>3, <1>4, <1>5, <1>6, <1>7, <1>8, <1>9, <1>10, <1>11, <1>12,
        <1>13, <1>14, <1>15, <1>16, <1>17, <1>18, <1>19, <1>20, <1>21, <1>22, <1>23, <1>24,
        <1>25, <1>26, <1>27, <1>28, <1>29, <1>30, <1>31, <1>32, <1>33, <1>34,
        <1>35 DEF Next, Scheduler

\* Between two cycles exactly the addresses of the machines in service are in
\* use, as long as only provisioning fails.
THEOREM LeasesAreReturned == Spec => []LeasesReturned
<1> DEFINE Good == OnlyStarting => LeaseInv /\ Documented /\ ReturnInv
<1>1. TypeInv /\ DocInv /\ Good => LeasesReturned
  <2> SUFFICES ASSUME TypeInv, DocInv, Good, pc = "idle", OnlyStarting
               PROVE  {e \in Eip : used[e]} = {doc[m].eip : m \in Running(None)}
    BY DEF LeasesReturned, OnlyStarting
  <2>1. \A m \in Running(None) : doc[m].eip \in Eip /\ used[doc[m].eip]
    BY DEF Running, DocInv, LeaseInv, InService
  <2>2. \A e \in Eip : used[e] => \E m \in Running(None) : doc[m].eip = e
    BY DEF ReturnInv, Home, UnderWay, Running, InService, Holding, Owning, Cleaning
  <2> QED BY <2>1, <2>2
<1>2. TypeInv /\ DocInv /\ Good /\ [Next]_vars => Good'
  <2> SUFFICES ASSUME TypeInv, DocInv, Good, [Next]_vars, OnlyStarting'
               PROVE  LeaseInv' /\ Documented' /\ ReturnInv'
    OBVIOUS
  <2>1. OnlyStarting /\ Kept' /\ "drop" \notin happened'
    BY HappenedGrows DEF OnlyStarting, Kept, Provisioning
  <2> QED BY <2>1, LeaseNext, DocumentedNext, ReturnNext
<1>3. Init => Good
  BY LeaseInit, DocumentedInit, ReturnInit
<1> HIDE DEF Good
<1> QED BY <1>1, <1>2, <1>3, TypeInit, TypeNext, DocInit, DocNext, PTL DEF Spec

-----------------------------------------------------------------------------
(* Instances.                                                               *)

OnlyLaterSteps == happened \subseteq Provisioning \cup {"pause", "resume"}

\* allocate or cleanup works on m.
InHand(m) == m = cur /\ pc \in Owning \cup Cleaning \cup {"record", "free"}

\* MachinesReturned within the cycle: the instances that exist are those in
\* service and the one in hand.
ExistInv ==
    /\ \A m \in Machine : ~InHand(m) => (vm[m] \in {"up", "stopped"} <=> InService(m))
    /\ pc \in Owning \cup {"record"} => vm[cur] = "up"
    /\ pc \in {"mark", "release"} => vm[cur] = "gone"

LEMMA ExistInit == Init => ExistInv
BY DEF Init, ExistInv, InService, NoDoc, Owning

LEMMA ExistNext ==
    /\ TypeInv /\ DocInv /\ Documented /\ ExistInv /\ [Next]_vars
    /\ OnlyLaterSteps'
    => ExistInv'
<1> SUFFICES ASSUME TypeInv, DocInv, Documented, ExistInv, [Next]_vars, OnlyLaterSteps'
             PROVE  ExistInv'
  OBVIOUS
<1> USE DEF Documented, ExistInv, InHand, OnlyLaterSteps, Provisioning
<1> USE MachinePoolAssumption DEF MachinePoolAssumption
<1> USE DEF TypeInv, TypeOK, LocalsInv, DocInv, InService
<1> USE DEF poolVars, allocVars, taskVars, faultVars
<1> USE DEF Holding, Owning, Cleaning
<1>1. CASE StartCycle
  BY <1>1 DEF StartCycle
<1>2. CASE KeepOnline
  BY <1>2 DEF KeepOnline, NextJob, Allocate
<1>3. CASE GetElasticIp
  BY <1>3 DEF GetElasticIp, MarkUsed
<1>4. CASE Provision
  BY <1>4 DEF Provision, Fault
<1>5. CASE RecordMachine
  <2>1. /\ pc = "record" /\ vm' = vm /\ cur' = cur /\ pc' = "associate"
    BY <1>5 DEF RecordMachine, Fault
  <2>2. \A m \in Machine \ {cur} : doc'[m] = doc[m]
    BY <1>5, Recorded
  <2> QED BY <2>1, <2>2
<1>6. CASE AssociateElasticIp
  BY <1>6 DEF AssociateElasticIp, Associated
<1>7. CASE RegenerateCerts
  BY <1>7 DEF RegenerateCerts
<1>8. CASE WaitUntilServiceOnline
  BY <1>8 DEF WaitUntilServiceOnline, AfterOffline
<1>9. CASE SaveRunning
  <2>1. /\ pc = "save" /\ vm' = vm /\ cur' = cur /\ doc[cur].status # "none"
    BY <1>9 DEF SaveRunning
  <2>2. CASE pc' = "free" /\ doc' = doc
    BY <2>1, <2>2
  <2>3. CASE ~(pc' = "free" /\ doc' = doc)
    <3>1. /\ cur \in Machine
          /\ pc' \in {"lease", "next", "launch", "clean"}
          /\ doc'[cur].status = "running"
          /\ \A m \in Machine \ {cur} : doc'[m] = doc[m]
      BY <1>9, <2>1, <2>3, SavedRunning
    <3>2. ASSUME NEW m \in Machine
          PROVE  vm'[m] \in {"up", "stopped"} <=> InService(m)'
      <4>1. CASE m = cur
        BY <2>1, <3>1, <4>1
      <4>2. CASE m # cur
        BY <2>1, <3>1, <4>2
      <4> QED BY <4>1, <4>2
    <3> QED BY <3>1, <3>2
  <2> QED BY <2>2, <2>3
<1>10. CASE FreeElasticIp
  BY <1>10 DEF FreeElasticIp, MarkFree
<1>11. CASE StopMachine
  BY <1>11 DEF StopMachine, Fault
<1>12. CASE RemoveMachine
  BY <1>12 DEF RemoveMachine, Fault
<1>13. CASE SaveTerminated
  <2>1. /\ vm' = vm /\ pc = "mark" /\ cur' = cur /\ cur \in Machine
        /\ doc[cur].status # "none"
    BY <1>13 DEF SaveTerminated
  <2>2. ~(pc' = back /\ doc' = doc /\ SaveFails(cur))
    BY <2>1 DEF SaveFails, Saves, Fault
  <2>3. pc' = "release" /\ \A m \in Machine \ {cur} : doc'[m] = doc[m]
    BY <1>13, <2>1, <2>2, SavedTerminated DEF SaveTerminated
  <2> QED BY <2>1, <2>3
<1>14. CASE ReleaseElasticIp
  BY <1>14 DEF ReleaseElasticIp, MarkFree, Fault
<1>15. CASE CheckType
  BY <1>15 DEF CheckType, NextJob
<1>16. CASE FindPending
  BY <1>16 DEF FindPending
<1>17. CASE CountStarted
  BY <1>17 DEF CountStarted
<1>18. CASE ForceRemove
  BY <1>18 DEF ForceRemove, NextJob
<1>19. CASE SelectMachines
  BY <1>19 DEF SelectMachines, Running
<1>20. CASE CleanNext
  BY <1>20 DEF CleanNext
<1>21. CASE GetTasks
  BY <1>21 DEF GetTasks
<1>22. ASSUME NEW t \in Task, CloseTask(t) PROVE ExistInv'
  BY <1>22 DEF CloseTask
<1>23. ASSUME NEW t \in Task, ServeTask(t) PROVE ExistInv'
  BY <1>23 DEF ServeTask
<1>24. ASSUME NEW t \in Task, MakeProgress(t) PROVE ExistInv'
  BY <1>24 DEF MakeProgress, Allocate
<1>25. CASE RunDocker
  BY <1>25 DEF RunDocker
<1>26. CASE EndCycle
  BY <1>26 DEF EndCycle, Forget
<1>27. CASE Crash
  BY <1>27 DEF Crash, Forget, Fault
<1>34. CASE Reject
  BY <1>34 DEF Reject, Fault
<1>35. CASE Restart
  BY <1>35 DEF Restart
<1>28. CASE PauseTasks
  BY <1>28 DEF PauseTasks
<1>29. CASE ResumeTasks
  BY <1>29 DEF ResumeTasks
<1>30. CASE CreateConfig
  BY <1>30 DEF CreateConfig, Fault
<1>31. CASE DeleteAllMachines
  BY <1>31 DEF DeleteAllMachines, Fault
<1>32. ASSUME NEW t \in Task, WorkersEnd(t) PROVE ExistInv'
  BY <1>32 DEF WorkersEnd
<1>33. CASE UNCHANGED vars
  BY <1>33 DEF vars
<1> QED BY <1>1, <1>2, <1>3, <1>4, <1>5, <1>6, <1>7, <1>8, <1>9, <1>10, <1>11, <1>12,
        <1>13, <1>14, <1>15, <1>16, <1>17, <1>18, <1>19, <1>20, <1>21, <1>22, <1>23, <1>24,
        <1>25, <1>26, <1>27, <1>28, <1>29, <1>30, <1>31, <1>32, <1>33, <1>34,
        <1>35 DEF Next, Scheduler

\* Between two cycles exactly the machines in service exist, as long as nothing
\* fails but the later steps of provisioning.
THEOREM MachinesAreReturned == Spec => []MachinesReturned
<1> DEFINE Good == OnlyLaterSteps => Documented /\ ExistInv
<1>1. TypeInv /\ Good => MachinesReturned
  <2> SUFFICES ASSUME Good, pc = "idle", OnlyLaterSteps
               PROVE  {m \in Machine : vm[m] \in {"up", "stopped"}} = Running(None)
    BY DEF MachinesReturned, OnlyLaterSteps
  <2>1. \A m \in Machine : vm[m] \in {"up", "stopped"} <=> InService(m)
    BY DEF ExistInv, InHand, Owning, Cleaning
  <2> QED BY <2>1 DEF Running, InService
<1>2. TypeInv /\ DocInv /\ Good /\ [Next]_vars => Good'
  <2> SUFFICES ASSUME TypeInv, DocInv, Good, [Next]_vars, OnlyLaterSteps'
               PROVE  Documented' /\ ExistInv'
    OBVIOUS
  <2>1. OnlyLaterSteps /\ "drop" \notin happened'
    BY HappenedGrows DEF OnlyLaterSteps, Provisioning
  <2> QED BY <2>1, DocumentedNext, ExistNext
<1>3. Init => Good
  BY DocumentedInit, ExistInit
<1> HIDE DEF Good
<1> QED BY <1>1, <1>2, <1>3, TypeInit, TypeNext, DocInit, DocNext, PTL DEF Spec

-----------------------------------------------------------------------------
(* Work.                                                                    *)

LiveAre(S) == \A t \in live : TypeOf[t] = type => task[t].status \in S

\* Why shouldWeKillMachines may believe the two answers it gets: a task with
\* workers is counted as busy, so whoever works is not pending when it looks for
\* pending tasks, and not started when it counts those; nobody starts to work
\* between that and the end of the clean-up.
IdleInv ==
    /\ \A t \in live : task[t].busy
    /\ pc \in Holding \cup {"lease", "free"} => back # "clean"
    /\ "pause" \notin happened /\ type # None =>
          /\ pc = "count" /\ quiet => LiveAre({"started", "failed"})
          /\ pc \in {"select", "clean"} \/ (pc \in Cleaning /\ back = "clean")
                => LiveAre({"failed"})

LEMMA IdleInit == Init => IdleInv
BY DEF Init, IdleInv, Holding, Owning, Cleaning

LEMMA IdleNext == TypeInv /\ IdleInv /\ [Next]_vars => IdleInv'
<1> SUFFICES ASSUME TypeInv, IdleInv, [Next]_vars PROVE IdleInv'
  OBVIOUS
<1>0. happened \subseteq happened'
  BY HappenedGrows
<1> USE DEF IdleInv, LiveAre
<1> USE MachinePoolAssumption DEF MachinePoolAssumption
<1> USE DEF TypeInv, TypeOK, LocalsInv
<1> USE DEF poolVars, allocVars, taskVars, faultVars
<1> USE DEF Holding, Owning, Cleaning
<1>1. CASE StartCycle
  BY <1>1, <1>0 DEF StartCycle
<1>2. CASE KeepOnline
  BY <1>2, <1>0 DEF KeepOnline, NextJob, Allocate
<1>3. CASE GetElasticIp
  BY <1>3, <1>0 DEF GetElasticIp, MarkUsed
<1>4. CASE Provision
  BY <1>4, <1>0 DEF Provision, Fault
<1>5. CASE RecordMachine
  BY <1>5, <1>0 DEF RecordMachine, Fault
<1>6. CASE AssociateElasticIp
  BY <1>6, <1>0 DEF AssociateElasticIp, Associated, Fault
<1>7. CASE RegenerateCerts
  BY <1>7, <1>0 DEF RegenerateCerts, Fault
<1>8. CASE WaitUntilServiceOnline
  BY <1>8, <1>0 DEF WaitUntilServiceOnline, AfterOffline
<1>9. CASE SaveRunning
  BY <1>9, <1>0 DEF SaveRunning
<1>10. CASE FreeElasticIp
  BY <1>10, <1>0 DEF FreeElasticIp, MarkFree
<1>11. CASE StopMachine
  BY <1>11, <1>0 DEF StopMachine
<1>12. CASE RemoveMachine
  BY <1>12, <1>0 DEF RemoveMachine
<1>13. CASE SaveTerminated
  BY <1>13, <1>0 DEF SaveTerminated
<1>14. CASE ReleaseElasticIp
  BY <1>14, <1>0 DEF ReleaseElasticIp, MarkFree
<1>15. CASE CheckType
  BY <1>15, <1>0 DEF CheckType, NextJob
<1>16. CASE FindPending
  BY <1>16, <1>0 DEF FindPending, OfType, PendingStatus, TaskStatus
<1>17. CASE CountStarted
  BY <1>17, <1>0 DEF CountStarted, OfType
<1>18. CASE ForceRemove
  BY <1>18, <1>0 DEF ForceRemove, NextJob, PauseStarted
<1>19. CASE SelectMachines
  BY <1>19, <1>0 DEF SelectMachines, Running
<1>20. CASE CleanNext
  BY <1>20, <1>0 DEF CleanNext
<1>21. CASE GetTasks
  BY <1>21, <1>0 DEF GetTasks
<1>22. ASSUME NEW t \in Task, CloseTask(t) PROVE IdleInv'
  BY <1>22, <1>0 DEF CloseTask
<1>23. ASSUME NEW t \in Task, ServeTask(t) PROVE IdleInv'
  BY <1>23, <1>0 DEF ServeTask, StillBusy
<1>24. ASSUME NEW t \in Task, MakeProgress(t) PROVE IdleInv'
  BY <1>24, <1>0 DEF MakeProgress, Allocate, StillBusy
<1>25. CASE RunDocker
  BY <1>25, <1>0 DEF RunDocker
<1>26. CASE EndCycle
  BY <1>26, <1>0 DEF EndCycle, Forget
<1>27. CASE Crash
  BY <1>27, <1>0 DEF Crash, Forget
<1>34. CASE Reject
  BY <1>34, <1>0 DEF Reject, Forget
<1>35. CASE Restart
  BY <1>35, <1>0 DEF Restart
<1>28. CASE PauseTasks
  BY <1>28, <1>0 DEF PauseTasks, Fault, PauseStarted
<1>29. CASE ResumeTasks
  BY <1>29, <1>0 DEF ResumeTasks, Fault
<1>30. CASE CreateConfig
  BY <1>30, <1>0 DEF CreateConfig
<1>31. CASE DeleteAllMachines
  BY <1>31, <1>0 DEF DeleteAllMachines
<1>32. ASSUME NEW t \in Task, WorkersEnd(t) PROVE IdleInv'
  BY <1>32, <1>0 DEF WorkersEnd
<1>33. CASE UNCHANGED vars
  BY <1>33 DEF vars
<1> QED BY <1>1, <1>2, <1>3, <1>4, <1>5, <1>6, <1>7, <1>8, <1>9, <1>10, <1>11, <1>12,
        <1>13, <1>14, <1>15, <1>16, <1>17, <1>18, <1>19, <1>20, <1>21, <1>22, <1>23, <1>24,
        <1>25, <1>26, <1>27, <1>28, <1>29, <1>30, <1>31, <1>32, <1>33, <1>34,
        <1>35 DEF Next, Scheduler

\* A machine is stopped for lack of work only when no worker of its type is left
\* but those of failed tasks, unless the API paused a task.
THEOREM IdleMachinesOnly == Spec => StopsIdleMachinesOnly
<1>1. TypeInv /\ IdleInv /\ [Next]_vars
        => [pc = "stop" /\ back = "clean" /\ type # None /\ pc' = "remove"
              /\ "pause" \notin happened
            => \A t \in live : TypeOf[t] = type => task[t].status = "failed"]_vars
  BY DEF IdleInv, LiveAre, Cleaning
<1> QED BY <1>1, TypeInit, TypeNext, IdleInit, IdleNext, PTL
        DEF Spec, StopsIdleMachinesOnly

-----------------------------------------------------------------------------
(* Leases.                                                                  *)

Working == Holding \cup Cleaning \cup {"free"}

\* The machines that cleanupAll has still to visit were in service when it found
\* them, and still are unless somebody drops the documents.
RestInv == \A m \in rest : doc[m].status \in {"running", "none"}

LEMMA RestInit == Init => RestInv
BY DEF Init, RestInv

LEMMA RestNext == TypeInv /\ DocInv /\ RestInv /\ [Next]_vars => RestInv'
<1> SUFFICES ASSUME TypeInv, DocInv, RestInv, [Next]_vars PROVE RestInv'
  OBVIOUS
<1> USE DEF RestInv
<1> USE DEF TypeInv, TypeOK, LocalsInv, DocInv, InService
<1> USE DEF poolVars, allocVars, taskVars, faultVars
<1> USE DEF Holding, Owning, Cleaning
<1>1. CASE StartCycle
  BY <1>1 DEF StartCycle
<1>2. CASE KeepOnline
  BY <1>2 DEF KeepOnline, NextJob, Allocate
<1>3. CASE GetElasticIp
  BY <1>3 DEF GetElasticIp
<1>4. CASE Provision
  BY <1>4 DEF Provision
<1>5. CASE RecordMachine
  BY <1>5 DEF RecordMachine
<1>6. CASE AssociateElasticIp
  BY <1>6 DEF AssociateElasticIp
<1>7. CASE RegenerateCerts
  BY <1>7 DEF RegenerateCerts
<1>8. CASE WaitUntilServiceOnline
  BY <1>8 DEF WaitUntilServiceOnline
<1>9. CASE SaveRunning
  BY <1>9 DEF SaveRunning
<1>10. CASE FreeElasticIp
  BY <1>10 DEF FreeElasticIp
<1>11. CASE StopMachine
  BY <1>11 DEF StopMachine
<1>12. CASE RemoveMachine
  BY <1>12 DEF RemoveMachine
<1>13. CASE SaveTerminated
  <2>1. rest' = rest /\ cur \notin rest /\ rest \in SUBSET Machine
    BY <1>13 DEF SaveTerminated
  <2>2. \A m \in Machine \ {cur} : doc'[m] = doc[m]
    BY <1>13, SavedTerminated
  <2> QED BY <2>1, <2>2
<1>14. CASE ReleaseElasticIp
  BY <1>14 DEF ReleaseElasticIp
<1>15. CASE CheckType
  BY <1>15 DEF CheckType, NextJob
<1>16. CASE FindPending
  BY <1>16 DEF FindPending
<1>17. CASE CountStarted
  BY <1>17 DEF CountStarted
<1>18. CASE ForceRemove
  BY <1>18 DEF ForceRemove, NextJob
<1>19. CASE SelectMachines
  BY <1>19 DEF SelectMachines, Running
<1>20. CASE CleanNext
  BY <1>20 DEF CleanNext
<1>21. CASE GetTasks
  BY <1>21 DEF GetTasks
<1>22. ASSUME NEW t \in Task, CloseTask(t) PROVE RestInv'
  BY <1>22 DEF CloseTask
<1>23. ASSUME NEW t \in Task, ServeTask(t) PROVE RestInv'
  BY <1>23 DEF ServeTask
<1>24. ASSUME NEW t \in Task, MakeProgress(t) PROVE RestInv'
  BY <1>24 DEF MakeProgress, Allocate
<1>25. CASE RunDocker
  BY <1>25 DEF RunDocker
<1>26. CASE EndCycle
  BY <1>26 DEF EndCycle, Forget
<1>27. CASE Crash
  BY <1>27 DEF Crash, Forget
<1>34. CASE Reject
  BY <1>34 DEF Reject, Forget
<1>35. CASE Restart
  BY <1>35 DEF Restart
<1>28. CASE PauseTasks
  BY <1>28 DEF PauseTasks
<1>29. CASE ResumeTasks
  BY <1>29 DEF ResumeTasks
<1>30. CASE CreateConfig
  BY <1>30 DEF CreateConfig
<1>31. CASE DeleteAllMachines
  BY <1>31, Dropped DEF DeleteAllMachines
<1>32. ASSUME NEW t \in Task, WorkersEnd(t) PROVE RestInv'
  BY <1>32 DEF WorkersEnd
<1>33. CASE UNCHANGED vars
  BY <1>33 DEF vars
<1> QED BY <1>1, <1>2, <1>3, <1>4, <1>5, <1>6, <1>7, <1>8, <1>9, <1>10, <1>11, <1>12,
        <1>13, <1>14, <1>15, <1>16, <1>17, <1>18, <1>19, <1>20, <1>21, <1>22, <1>23, <1>24,
        <1>25, <1>26, <1>27, <1>28, <1>29, <1>30, <1>31, <1>32, <1>33, <1>34,
        <1>35 DEF Next, Scheduler

\* The state of MachineLease.
Free == {e \in Eip : ~used[e]}

Held == {e \in Eip : used[e] /\ WorksOn(e) /\ Serving(e) = {}}

Served == [e \in Eip |-> Serving(e)]

\* The scheduler works on one address at a time, and on none between jobs.
LEMMA OneAtATime ==
    /\ \A e, f \in Eip : WorksOn(e) /\ WorksOn(f) => e = f
    /\ pc \notin Working => \A e \in Eip : ~WorksOn(e)
BY DEF WorksOn, Working, Holding, Owning, Cleaning

\* While it works it holds at most one address.
LEMMA HeldOne ==
    ASSUME NEW e \in Eip, e \in Held
    PROVE  Held = {e}
BY OneAtATime DEF Held

LEMMA HeldNone ==
    ASSUME pc \notin Working
    PROVE  Held = {}
BY OneAtATime DEF Held

\* No machine is served by an address that is free, and an address serves one
\* machine.
LEMMA ServedOne ==
    ASSUME TypeInv, DocInv, LeaseInv
    PROVE  /\ \A e \in Eip : ~used[e] => Serving(e) = {}
           /\ \A m \in Machine, e \in Eip : m \in Serving(e) => Serving(e) = {m}
           /\ \A m \in Machine, e, f \in Eip :
                 m \in Serving(e) /\ m \in Serving(f) => e = f
BY DEF Serving, TypeInv, DocInv, LeaseInv, InService, OthersAvoid

\* Whatever the scheduler lets go without touching flags and documents is lost.
LEMMA Forgotten ==
    ASSUME Free' = Free, Served' = Served, Held' \subseteq Held
    PROVE  UNCHANGED Leases!vars \/ Leases!Next
<1>1. CASE Held' = Held
  BY <1>1 DEF Leases!vars, Free, Held, Served
<1>2. CASE Held' # Held
  <2>1. PICK e \in Eip : e \in Held
    BY <1>2 DEF Held
  <2>2. Held = {e}
    BY <2>1, HeldOne
  <2>3. Held # {} /\ Held' = {}
    BY <1>2, <2>2
  <2>4. Leases!Lose
    BY <2>3 DEF Leases!Lose, Free, Held, Served
  <2> QED BY <2>4 DEF Leases!Next
<1> QED BY <1>1, <1>2

\* The same for a step that leaves flags and documents alone.
LEMMA Untouched ==
    ASSUME UNCHANGED <<used, doc>>,
           \A e \in Eip : WorksOn(e)' /\ Serving(e) = {} => WorksOn(e)
    PROVE  UNCHANGED Leases!vars \/ Leases!Next
<1>1. \A e \in Eip : Serving(e)' = Serving(e)
  BY DEF Serving
<1>2. Free' = Free /\ Served' = Served
  BY <1>1 DEF Free, Served
<1>3. Held' \subseteq Held
  BY <1>1 DEF Held
<1> QED BY <1>2, <1>3, Forgotten

\* And for one after which the scheduler works on nothing.
LEMMA Released ==
    ASSUME UNCHANGED <<used, doc>>, pc' \notin Working
    PROVE  UNCHANGED Leases!vars \/ Leases!Next
<1>1. \A e \in Eip : ~WorksOn(e)'
  BY DEF WorksOn, Working, Holding, Owning, Cleaning
<1> QED BY <1>1, Untouched

\* Every step of the pool is a step of MachineLease or changes nothing there.
LEMMA LeaseStep ==
    /\ TypeInv /\ DocInv /\ RestInv /\ LeaseInv /\ [Next]_vars /\ Kept'
    => UNCHANGED Leases!vars \/ Leases!Next
<1> SUFFICES ASSUME TypeInv, DocInv, RestInv, LeaseInv, [Next]_vars, Kept'
             PROVE  UNCHANGED Leases!vars \/ Leases!Next
  OBVIOUS
<1> USE DEF TypeInv, TypeOK, LocalsInv, DocInv, InService
<1> USE DEF poolVars, allocVars, taskVars, faultVars
<1> USE DEF Holding, Owning, Cleaning
<1>1. CASE StartCycle
  BY <1>1, Released DEF StartCycle, Working
<1>2. CASE KeepOnline
  BY <1>2, Released DEF KeepOnline, NextJob, Allocate, Working
<1>3. CASE GetElasticIp
  <2>1. doc' = doc /\ pc = "lease"
    BY <1>3 DEF GetElasticIp
  <2>2. CASE pc' = back /\ used' = used
    BY <2>1, <2>2, Released DEF Working
  <2>3. CASE ~(pc' = back /\ used' = used)
    <3>1. PICK e \in Eip : ~used[e] /\ used' = MarkUsed(used, e) /\ lease' = e
                           /\ pc' = "provision"
      BY <1>3, <2>3 DEF GetElasticIp
    <3>2. used'[e] /\ \A f \in Eip \ {e} : used'[f] = used[f]
      BY <3>1 DEF MarkUsed
    <3>3. \A f \in Eip : Serving(f)' = Serving(f)
      BY <2>1 DEF Serving
    <3>4. Serving(e) = {}
      BY <3>1, ServedOne
    <3>5. \A f \in Eip : WorksOn(f)' <=> f = e
      BY <3>1 DEF WorksOn
    <3>6. Free' = Free \ {e} /\ Served' = Served
      BY <3>2, <3>3 DEF Free, Served
    <3>7. Held' = {e}
      BY <3>2, <3>3, <3>4, <3>5 DEF Held
    <3>8. Held = {}
      BY <2>1, HeldNone DEF Working
    <3>9. e \in Free /\ Served[e] = {}
      BY <3>1, <3>4 DEF Free, Served
    <3>10. Leases!Lease(e)
      BY <3>6, <3>7, <3>8, <3>9 DEF Leases!Lease, Free, Held, Served
    <3> QED BY <3>10 DEF Leases!Next
  <2> QED BY <2>2, <2>3
<1>4. CASE Provision
  <2>1. \A e \in Eip : WorksOn(e)' => WorksOn(e)
    BY <1>4 DEF Provision, WorksOn
  <2> QED BY <1>4, <2>1, Untouched DEF Provision
<1>5. CASE RecordMachine
  <2>1. /\ used' = used /\ lease' = lease /\ pc = "record" /\ ~InService(cur)
        /\ cur \in Machine /\ pc' \in {"associate", "free"}
    BY <1>5 DEF RecordMachine
  <2>2. \A m \in Machine \ {cur} : doc'[m] = doc[m]
    BY <1>5, Recorded
  <2>3. doc'[cur].status # "running"
    BY <1>5, <2>1, Recorded
  <2>4. \A m \in Machine, e \in Eip :
           doc'[m].eip = e /\ doc'[m].status = "running"
              <=> doc[m].eip = e /\ doc[m].status = "running"
    BY <2>1, <2>2, <2>3
  <2>5. \A e \in Eip : Serving(e)' = Serving(e)
    BY <2>4 DEF Serving
  <2>6. \A e \in Eip : WorksOn(e)' <=> WorksOn(e)
    BY <2>1 DEF WorksOn
  <2>7. Free' = Free /\ Served' = Served /\ Held' = Held
    BY <2>1, <2>5, <2>6 DEF Free, Held, Served
  <2> QED BY <2>7, Forgotten
<1>6. CASE AssociateElasticIp
  <2>1. \A e \in Eip : WorksOn(e)' => WorksOn(e)
    BY <1>6 DEF AssociateElasticIp, WorksOn, Saves
  <2> QED BY <1>6, <2>1, Untouched DEF AssociateElasticIp
<1>7. CASE RegenerateCerts
  <2>1. \A e \in Eip : WorksOn(e)' => WorksOn(e)
    BY <1>7 DEF RegenerateCerts, WorksOn
  <2> QED BY <1>7, <2>1, Untouched DEF RegenerateCerts
<1>8. CASE WaitUntilServiceOnline
  <2>1. \A e \in Eip : WorksOn(e)' => WorksOn(e)
    BY <1>8 DEF WaitUntilServiceOnline, AfterOffline, WorksOn, Saves
  <2> QED BY <1>8, <2>1, Untouched DEF WaitUntilServiceOnline
<1>9. CASE SaveRunning
  <2>1. /\ used' = used /\ lease' = lease /\ pc = "save" /\ lease \in Eip
        /\ doc[cur].eip = lease /\ ~InService(cur) /\ used[lease]
        /\ OthersAvoid(lease, None)
    BY <1>9 DEF SaveRunning, LeaseInv
  <2>2. CASE pc' = "free" /\ doc' = doc
    <3>1. \A e \in Eip : WorksOn(e)' => WorksOn(e)
      BY <2>1, <2>2 DEF WorksOn
    <3> QED BY <2>1, <2>2, <3>1, Untouched
  <2>3. CASE ~(pc' = "free" /\ doc' = doc)
    <3>1. /\ cur \in Machine /\ pc' \in {"lease", "next", "launch", "clean"}
          /\ doc'[cur].status = "running" /\ doc'[cur].eip = lease
          /\ \A m \in Machine \ {cur} : doc'[m] = doc[m]
      BY <1>9, <2>1, <2>3, SavedRunning
    <3>2. Serving(lease) = {}
      BY <2>1, MachinePoolAssumption DEF Serving, OthersAvoid, MachinePoolAssumption
    <3>3. \A e \in Eip \ {lease} : Serving(e)' = Serving(e)
      BY <2>1, <3>1 DEF Serving
    <3>4. \A e \in Eip : cur \notin Serving(e)
      BY <2>1 DEF Serving
    <3>5. Serving(lease)' = {cur}
      <4>1. ASSUME NEW m \in Machine \ {cur}
            PROVE  ~(doc'[m].eip = lease /\ doc'[m].status = "running")
        BY <3>1, <3>2, <4>1 DEF Serving
      <4> QED BY <2>1, <3>1, <4>1 DEF Serving
    <3>6. \A e \in Eip : WorksOn(e) <=> e = lease
      BY <2>1 DEF WorksOn
    <3>7. \A e \in Eip : ~WorksOn(e)'
      BY <3>1 DEF WorksOn
    <3>8. Free' = Free
      BY <2>1 DEF Free
    <3>9. Held = {lease} /\ Held' = {}
      BY <2>1, <3>2, <3>6, <3>7 DEF Held
    <3>10. Served' = [Served EXCEPT ![lease] = {cur}]
      BY <2>1, <3>3, <3>5 DEF Served
    <3>11. Served[lease] = {} /\ \A e \in Eip : cur \notin Served[e]
      BY <2>1, <3>2, <3>4 DEF Served
    <3>12. PICK e \in Eip, m \in Machine : e = lease /\ m = cur
      BY <2>1, <3>1
    <3>13. Leases!Commission(e, m)
      BY <3>8, <3>9, <3>10, <3>11, <3>12 DEF Leases!Commission, Free, Held, Served
    <3> QED BY <3>13 DEF Leases!Next
  <2> QED BY <2>2, <2>3
<1>10. CASE FreeElasticIp
  <2>1. /\ used' = MarkFree(used, lease) /\ doc' = doc /\ pc = "free" /\ lease' = lease
        /\ cur' = cur /\ lease \in Eip
        /\ pc' = IF cur = None THEN back ELSE "stop"
    BY <1>10 DEF FreeElasticIp
  <2>2. \A e \in Eip : Serving(e)' = Serving(e)
    BY <2>1 DEF Serving
  <2>3. ~used'[lease] /\ \A e \in Eip \ {lease} : used'[e] = used[e]
    BY <2>1 DEF MarkFree
  <2>4. \A e \in Eip : WorksOn(e) <=> e = lease
    BY <2>1 DEF WorksOn
  <2>5. \A e \in Eip : WorksOn(e)' => e = lease
    BY <2>1 DEF WorksOn, Saves
  <2>6. Served' = Served /\ Free' = Free \cup {lease}
    BY <2>1, <2>2, <2>3 DEF Served, Free
  <2>7. Held' = {}
    BY <2>3, <2>5 DEF Held
  <2>8. CASE used[lease]
    <3>1. Serving(lease) = {}
      BY <2>1, MachinePoolAssumption DEF Serving, LeaseInv, OthersAvoid, MachinePoolAssumption
    <3>2. Held = {lease}
      BY <2>1, <2>4, <2>8, <3>1 DEF Held
    <3>3. PICK e \in Eip : e = lease
      BY <2>1
    <3>4. Leases!GiveBack(e)
      BY <2>6, <2>7, <3>2, <3>3 DEF Leases!GiveBack, Free, Held, Served
    <3> QED BY <3>4 DEF Leases!Next
  <2>9. CASE ~used[lease]
    <3>1. Free' = Free
      BY <2>1, <2>6, <2>9 DEF Free
    <3> QED BY <2>6, <2>7, <3>1, Forgotten
  <2> QED BY <2>8, <2>9
<1>11. CASE StopMachine
  <2>1. \A e \in Eip : WorksOn(e)' => WorksOn(e)
    BY <1>11 DEF StopMachine, WorksOn, Saves
  <2> QED BY <1>11, <2>1, Untouched DEF StopMachine
<1>12. CASE RemoveMachine
  <2>1. \A e \in Eip : WorksOn(e)' => WorksOn(e)
    BY <1>12 DEF RemoveMachine, WorksOn, Saves
  <2> QED BY <1>12, <2>1, Untouched DEF RemoveMachine
<1>13. CASE SaveTerminated
  <2>1. /\ used' = used /\ pc = "mark" /\ cur' = cur /\ cur \in Machine
        /\ doc[cur].eip \in Eip /\ OthersAvoid(doc[cur].eip, cur)
    BY <1>13 DEF SaveTerminated, LeaseInv
  <2>2. CASE pc' = back /\ doc' = doc
    BY <2>1, <2>2, Released DEF Working
  <2>3. CASE ~(pc' = back /\ doc' = doc)
    <3>1. /\ pc' = "release" /\ doc[cur].status # "none"
          /\ doc'[cur].status = "terminated" /\ doc'[cur].eip = doc[cur].eip
          /\ \A m \in Machine \ {cur} : doc'[m] = doc[m]
      BY <1>13, <2>1, <2>3, SavedTerminated
    <3>2. PICK own \in Eip, m \in Machine : own = doc[cur].eip /\ m = cur
      BY <2>1
    <3>3. \A e \in Eip : WorksOn(e) <=> e = own
      BY <2>1, <3>1, <3>2 DEF WorksOn, Saves
    <3>4. \A e \in Eip : WorksOn(e)' <=> e = own
      BY <2>1, <3>1, <3>2 DEF WorksOn, Saves
    <3>5. \A e \in Eip \ {own} : Serving(e)' = Serving(e)
      BY <2>1, <3>1, <3>2 DEF Serving
    <3>6. Serving(own)' = {} /\ Serving(own) = IF InService(cur) THEN {m} ELSE {}
      BY <2>1, <3>1, <3>2 DEF Serving, OthersAvoid
    <3>7. Free' = Free
      BY <2>1 DEF Free
    <3>8. CASE InService(cur)
      <4>1. used[own]
        BY <2>1, <3>8, <3>2 DEF LeaseInv
      <4>2. Serving(own)' = {} /\ Serving(own) = {m}
        BY <3>6, <3>8
      <4>3. Served' = [Served EXCEPT ![own] = {}] /\ Served[own] = {m}
        BY <3>5, <4>2 DEF Served
      <4>4. Held = {} /\ Held' = {own}
        <5>1. \A e \in Eip : WorksOn(e) => Serving(e) # {}
          BY <3>3, <4>2
        <5>2. Held = {}
          BY <5>1 DEF Held
        <5>3. used'[own] /\ WorksOn(own)' /\ Serving(own)' = {}
          BY <2>1, <3>4, <4>1, <4>2
        <5>4. Held' = {own}
          BY <3>4, <5>3 DEF Held
        <5> QED BY <5>2, <5>4
      <4>5. Leases!Retire(own, m)
        BY <3>7, <4>3, <4>4 DEF Leases!Retire, Free, Held, Served
      <4> QED BY <4>5 DEF Leases!Next
    <3>9. CASE ~InService(cur)
      <4>1. \A e \in Eip : Serving(e)' = Serving(e)
        <5>1. Serving(own)' = Serving(own)
          BY <3>6, <3>9
        <5> QED BY <3>5, <5>1
      <4>2. Served' = Served /\ Held' = Held
        BY <2>1, <3>3, <3>4, <4>1 DEF Served, Held
      <4> QED BY <3>7, <4>2, Forgotten
    <3> QED BY <3>8, <3>9
  <2> QED BY <2>2, <2>3
<1>14. CASE ReleaseElasticIp
  <2>1. /\ doc' = doc /\ pc = "release" /\ pc' \notin Working /\ doc[cur].eip \in Eip
        /\ ~InService(cur) /\ OthersAvoid(doc[cur].eip, cur)
    BY <1>14 DEF ReleaseElasticIp, LeaseInv, Working
  <2>2. CASE used' = used
    BY <2>1, <2>2, Released
  <2>3. CASE used' # used
    <3>1. PICK own \in Eip : own = doc[cur].eip
      BY <2>1
    <3>2. used' = [used EXCEPT ![own] = FALSE] /\ used \in [Eip -> BOOLEAN]
      BY <1>14, <2>3, <3>1 DEF ReleaseElasticIp, MarkFree
    <3>3. ~used'[own] /\ (\A e \in Eip \ {own} : used'[e] = used[e])
      BY <3>2
    <3>4. used[own]
      <4>1. CASE ~used[own]
        <5>1. used' = used
          BY <3>2, <4>1, Zenon
        <5> QED BY <2>3, <5>1
      <4> QED BY <4>1
    <3>5. \A e \in Eip : (WorksOn(e) <=> e = own) /\ ~WorksOn(e)'
      BY <2>1, <3>1 DEF WorksOn, Working
    <3>6. \A e \in Eip : Serving(e)' = Serving(e)
      BY <2>1 DEF Serving
    <3>7. Serving(own) = {}
      BY <2>1, <3>1 DEF Serving, OthersAvoid
    <3>8. Served' = Served /\ Free' = Free \cup {own}
      BY <3>3, <3>6 DEF Served, Free
    <3>9. Held = {own} /\ Held' = {}
      BY <3>3, <3>4, <3>5, <3>7 DEF Held
    <3>10. Leases!GiveBack(own)
      BY <3>8, <3>9 DEF Leases!GiveBack, Free, Held, Served
    <3> QED BY <3>10 DEF Leases!Next
  <2> QED BY <2>2, <2>3
<1>15. CASE CheckType
  BY <1>15, Released DEF CheckType, NextJob, Working
<1>16. CASE FindPending
  BY <1>16, Released DEF FindPending, Working
<1>17. CASE CountStarted
  BY <1>17, Released DEF CountStarted, Working
<1>18. CASE ForceRemove
  BY <1>18, Released DEF ForceRemove, NextJob, Working
<1>19. CASE SelectMachines
  BY <1>19, Released DEF SelectMachines, Working
<1>20. CASE CleanNext
  <2>1. used' = used /\ doc' = doc /\ pc = "clean"
    BY <1>20 DEF CleanNext
  <2>2. CASE pc' = "next"
    BY <2>1, <2>2, Released DEF Working
  <2>3. CASE pc' # "next"
    <3>1. pc' = "stop" /\ cur' \in rest
      BY <1>20, <2>3 DEF CleanNext
    <3>2. ASSUME NEW e \in Eip, WorksOn(e)', Serving(e) = {}
          PROVE  FALSE
      <4>1. cur' \in Machine /\ doc[cur'].status = "running" /\ doc[cur'].eip = e
        BY <2>1, <3>1, <3>2 DEF WorksOn, Saves, RestInv
      <4> QED BY <3>2, <4>1 DEF Serving
    <3> QED BY <2>1, <3>2, Untouched
  <2> QED BY <2>2, <2>3
<1>21. CASE GetTasks
  BY <1>21, Released DEF GetTasks, Working
<1>22. ASSUME NEW t \in Task, CloseTask(t) PROVE UNCHANGED Leases!vars \/ Leases!Next
  BY <1>22, Released DEF CloseTask, Working
<1>23. ASSUME NEW t \in Task, ServeTask(t) PROVE UNCHANGED Leases!vars \/ Leases!Next
  BY <1>23, Released DEF ServeTask, Working
<1>24. ASSUME NEW t \in Task, MakeProgress(t) PROVE UNCHANGED Leases!vars \/ Leases!Next
  BY <1>24, Released DEF MakeProgress, Allocate, Working
<1>25. CASE RunDocker
  BY <1>25, Released DEF RunDocker, Working
<1>26. CASE EndCycle
  BY <1>26, Released DEF EndCycle, Forget, Working
<1>27. CASE Crash
  BY <1>27, Released DEF Crash, Forget, Working
<1>34. CASE Reject
  <2>1. doc' = doc /\ pc' = "hung"
    BY <1>34, Rejection
  <2>2. \A e \in Eip : Serving(e)' = Serving(e)
    BY <2>1 DEF Serving
  <2>3. Served' = Served
    BY <2>2 DEF Served
  <2>4. Held' = {}
    BY <2>1 DEF Held, WorksOn
  <2>5. CASE used' = used
    BY <2>1, <2>5, Released DEF Working
  <2>6. CASE used' # used /\ pc = "lease"
    <3>1. PICK e \in Eip : ~used[e] /\ used' = MarkUsed(used, e)
      BY <1>34, <2>6, Rejection
    <3>2. Free' = Free \ {e} /\ e \in Free
      BY <3>1 DEF MarkUsed, Free
    <3>3. Held = {}
      BY <2>6, HeldNone DEF Working
    <3>4. Leases!Mislay(e)
      BY <2>3, <2>4, <3>2, <3>3 DEF Leases!Mislay, Free, Held, Served
    <3> QED BY <3>4 DEF Leases!Next
  <2>7. CASE used' # used /\ pc = "free"
    <3>1. PICK own \in Eip : own = lease /\ used' = MarkFree(used, own)
      BY <1>34, <2>7, Rejection
    <3>2. used[own]
      <4>1. CASE ~used[own]
        <5>1. used' = used
          BY <3>1, <4>1 DEF MarkFree
        <5> QED BY <2>7, <5>1
      <4> QED BY <4>1
    <3>3. Serving(own) = {}
      BY <2>7, <3>1, MachinePoolAssumption
         DEF LeaseInv, Serving, OthersAvoid, MachinePoolAssumption
    <3>4. Held = {own}
      BY <2>7, <3>1, <3>2, <3>3, HeldOne DEF Held, WorksOn
    <3>5. Free' = Free \cup {own}
      BY <3>1 DEF MarkFree, Free
    <3>6. Leases!GiveBack(own)
      BY <2>3, <2>4, <3>4, <3>5 DEF Leases!GiveBack, Free, Held, Served
    <3> QED BY <3>6 DEF Leases!Next
  <2> QED BY <1>34, <2>5, <2>6, <2>7, Rejection
<1>35. CASE Restart
  BY <1>35, Released DEF Restart, Working
<1>28. CASE PauseTasks
  BY <1>28, Untouched DEF PauseTasks, WorksOn, Saves
<1>29. CASE ResumeTasks
  BY <1>29, Untouched DEF ResumeTasks, WorksOn, Saves
<1>30. CASE CreateConfig
  BY <1>30 DEF CreateConfig, Fault, Kept
<1>31. CASE DeleteAllMachines
  <2>1. UNCHANGED <<used, pc, lease, cur>>
    BY <1>31 DEF DeleteAllMachines
  <2>2. \A m \in Machine : doc'[m].status = "none" /\ doc'[m].eip = doc[m].eip
    BY <1>31, Dropped
  <2>3. \A e \in Eip : Serving(e)' = {}
    BY <2>2 DEF Serving
  <2>4. \A e \in Eip : WorksOn(e)' => WorksOn(e)
    BY <2>1, <2>2 DEF WorksOn, Saves
  <2>5. Free' = Free /\ Served' = [e \in Eip |-> {}]
    BY <2>1, <2>3 DEF Free, Served
  <2>6. ASSUME NEW e \in Held' PROVE e \in Held
    <3>1. e \in Eip /\ used[e] /\ WorksOn(e)' /\ WorksOn(e)
      BY <2>1, <2>4, <2>6 DEF Held
    <3>2. Serving(e) = {}
      <4>1. CASE pc \in Holding \cup {"free"}
        BY <3>1, <4>1, MachinePoolAssumption
           DEF WorksOn, LeaseInv, Serving, OthersAvoid, MachinePoolAssumption
      <4>2. CASE pc = "release"
        BY <3>1, <4>2 DEF WorksOn, LeaseInv, Serving, OthersAvoid
      <4>3. pc \in Holding \cup {"free", "release"}
        BY <2>1, <2>2, <3>1 DEF WorksOn, Saves
      <4> QED BY <4>1, <4>2, <4>3
    <3> QED BY <3>1, <3>2 DEF Held
  <2>7. Leases!Disown
    BY <2>5, <2>6 DEF Leases!Disown, Free, Held, Served
  <2> QED BY <2>7 DEF Leases!Next
<1>32. ASSUME NEW t \in Task, WorkersEnd(t) PROVE UNCHANGED Leases!vars \/ Leases!Next
  BY <1>32, Untouched DEF WorkersEnd, WorksOn, Saves
<1>33. CASE UNCHANGED vars
  BY <1>33, Untouched DEF vars, WorksOn, Saves
<1> QED BY <1>1, <1>2, <1>3, <1>4, <1>5, <1>6, <1>7, <1>8, <1>9, <1>10, <1>11, <1>12,
        <1>13, <1>14, <1>15, <1>16, <1>17, <1>18, <1>19, <1>20, <1>21, <1>22, <1>23, <1>24,
        <1>25, <1>26, <1>27, <1>28, <1>29, <1>30, <1>31, <1>32, <1>33, <1>34,
        <1>35 DEF Next, Scheduler

\* Flags, documents and the scheduler's locals implement the leases of
\* MachineLease, whatever fails and wherever the scheduler crashes, until somebody
\* resets the configuration.
THEOREM ImplementsLeases == Spec => LeaseSpec
<1>1. Init => Leases!Init
  <2> SUFFICES ASSUME Init PROVE Leases!Init
    OBVIOUS
  <2>1. \A e \in Eip : Serving(e) = {} /\ ~used[e]
    BY DEF Init, Serving, NoDoc
  <2> QED BY <2>1 DEF Leases!Init
<1>2. TypeInv /\ DocInv /\ RestInv /\ (Kept => LeaseInv) /\ [Next]_vars
        => ["reset" \notin happened' => UNCHANGED Leases!vars \/ Leases!Next
           ]_<<used, doc, pc, lease, cur>>
  BY LeaseStep, KeptBefore DEF Kept
<1>3. TypeInv /\ DocInv /\ (Kept => LeaseInv) /\ [Next]_vars => (Kept => LeaseInv)'
  BY KeptBefore, LeaseNext
<1> QED BY <1>1, <1>2, <1>3, TypeInit, TypeNext, DocInit, DocNext, RestInit, RestNext,
        LeaseInit, PTL DEF Spec, LeaseSpec

=============================================================================

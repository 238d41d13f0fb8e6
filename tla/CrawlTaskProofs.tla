---------------------------- MODULE CrawlTaskProofs ----------------------------
(***************************************************************************)
(* Proofs about CrawlTask, for every value of its constants.               *)
(***************************************************************************)
EXTENDS CrawlTask, LaunchPlanProofs, FiniteSetTheorems, TLAPS

-----------------------------------------------------------------------------
(* Types.                                                                   *)

\* The launch loop runs inside its bounds.  TypeOK is not inductive without it:
\* the bounds make batch.left and created stay in their types.
LaunchBounds ==
    /\ pc = "launch" => batch.left > 0 /\ created + batch.left <= MaxLaunch
    /\ pc = "invoke" => /\ batch.left > 0
                        /\ created + batch.left <= MaxLaunch + 1
                        /\ created \in Launch

TypeInv == TypeOK /\ LaunchBounds

LEMMA StatusSetFinite ==
    ASSUME NEW q, NEW st
    PROVE  /\ IsFiniteSet(WithStatus(q, st))
           /\ Cardinality(WithStatus(q, st)) \in Nat
           /\ IsFiniteSet(DefinitelyFailed(q, RetryFailedItems))
           /\ Cardinality(DefinitelyFailed(q, RetryFailedItems)) \in Nat
<1>1. /\ WithStatus(q, st) \subseteq Item
      /\ DefinitelyFailed(q, RetryFailedItems) \subseteq Item
  BY DEF WithStatus, DefinitelyFailed
<1> QED BY <1>1, FS_Subset, FS_CardinalityType, ItemQueueAssumption
        DEF ItemQueueAssumption

LEMMA NumItemsNat == IsFiniteSet(InitialItem) /\ NumItems \in Nat
BY FS_Subset, FS_CardinalityType, ItemQueueAssumption, CrawlTaskAssumption
   DEF ItemQueueAssumption, CrawlTaskAssumption, NumItems

\* Every update of the queue leaves a queue.
LEMMA SetStatusType ==
    ASSUME NEW q \in [Item -> QueueDoc], NEW T, NEW st \in QueueItemStatus
    PROVE  SetStatus(q, T, st) \in [Item -> QueueDoc]
BY DEF SetStatus, QueueDoc

LEMMA InsertType ==
    ASSUME NEW q \in [Item -> QueueDoc], NEW S
    PROVE  InsertItems(q, S) \in [Item -> QueueDoc]
BY DEF InsertItems, FreshDoc, QueueDoc, QueueItemStatus

LEMMA UpdateType ==
    ASSUME NEW q \in [Item -> QueueDoc]
    PROVE  /\ ResetQueueItems(q) \in [Item -> QueueDoc]
           /\ EnqueueFailedItems(q, RetryFailedItems) \in [Item -> QueueDoc]
           /\ \A i \in Item : TakeItem(q, i) \in [Item -> QueueDoc]
           /\ \A i \in Item : \A doc \in QueueDoc :
                 OverwriteItem(q, i, doc) \in [Item -> QueueDoc]
BY SetStatusType
   DEF ResetQueueItems, EnqueueFailedItems, TakeItem, OverwriteItem,
       QueueItemStatus

\* What a worker leaves of an item is a document.
LEMMA ResultType ==
    ASSUME NEW doc \in QueueDoc, NEW o \in AllOutcomes
    PROVE  Result(doc, o) \in QueueDoc
<1>1. doc.retries \in Nat /\ doc.retries + 1 \in Nat
  BY DEF QueueDoc
<1>2. CASE o = "completed"
  BY <1>1, <1>2 DEF Result, QueueDoc, QueueItemStatus
<1>3. CASE o = "failed"
  BY <1>1, <1>3 DEF Result, QueueDoc, QueueItemStatus
<1>4. CASE o = "blocked"
  BY <1>1, <1>4 DEF Result, Blocked, QueueDoc, QueueItemStatus
<1>5. CASE o = "abandoned"
  BY <1>1, <1>5 DEF Result, QueueDoc, QueueItemStatus
<1>6. CASE o = "unstored"
  BY <1>1, <1>6 DEF Result, Unstored, QueueDoc, QueueItemStatus
<1>7. CASE o = "untouched"
  BY <1>7 DEF Result
<1> QED BY <1>2, <1>3, <1>4, <1>5, <1>6, <1>7 DEF AllOutcomes

LEMMA CounterType ==
    ASSUME NEW doc \in TaskDoc
    PROVE  /\ OneWorkerLess(doc) \in TaskDoc
           /\ OneWorkerLost(doc) \in TaskDoc
           /\ NextWorkerId(doc) \in TaskDoc
<1> USE DEF TaskDoc
<1>1. OneWorkerLess(doc) \in TaskDoc
  <2>1. (IF doc.running > 0 THEN doc.running - 1 ELSE 0) \in Nat
    OBVIOUS
  <2> QED BY <2>1 DEF OneWorkerLess
<1>2. OneWorkerLost(doc) \in TaskDoc
  BY <1>1 DEF OneWorkerLost
<1>3. NextWorkerId(doc) \in TaskDoc
  BY DEF NextWorkerId
<1> QED BY <1>1, <1>2, <1>3

\* What maxWorkersConcurrentlyRunning answers keeps the rate of the task.
LEMMA WorkersMeasured ==
    ASSUME NEW m \in Measurement
    PROVE  LET most == MaxWorkersConcurrentlyRunning(MaxItemsPerSecond, m, WorkerClass)
           IN most \in Nat /\ InRate(most)
<1> DEFINE s == WorkerSpeed(m, WorkerClass)
           most == MaxWorkersConcurrentlyRunning(MaxItemsPerSecond, m, WorkerClass)
<1>1. /\ m \in Measured /\ WorkerClass \in WorkerType /\ MaxItemsPerSecond \in Nat
  BY CrawlTaskAssumption DEF CrawlTaskAssumption
<1>2. s \in FractionOfSpeed
  BY <1>1, SpeedsArePositive
<1>3. most = WorkersFor(MaxItemsPerSecond, s)
  BY DEF MaxWorkersConcurrentlyRunning
<1> HIDE DEF most
<1>4. most \in Nat /\ KeepsRate(most, MaxItemsPerSecond, s)
  BY <1>1, <1>2, <1>3, WorkersForRate
<1>5. InRate(most)
  BY <1>4 DEF InRate, KeepsRate
<1> QED BY <1>4, <1>5 DEF most

LEMMA ToLaunchType ==
    ASSUME TypeOK, NEW m \in Measurement
    PROVE  /\ ToLaunch(m) \in Nat
           /\ ToLaunch(m) > 0 =>
                 mem.running + ToLaunch(m)
                    <= MaxWorkersConcurrentlyRunning(MaxItemsPerSecond, m, WorkerClass)
<1> DEFINE most == MaxWorkersConcurrentlyRunning(MaxItemsPerSecond, m, WorkerClass)
<1>1. most \in Nat /\ mem.running \in Nat /\ MaxWorkersPerCycle \in Nat
  BY WorkersMeasured, CrawlTaskAssumption DEF CrawlTaskAssumption, TypeOK, TaskDoc
<1>2. \/ ToLaunch(m) = 0
      \/ ToLaunch(m) = NumWorkersToLaunch(most, mem.running, MaxWorkersPerCycle,
                                          IF qs.initial THEN 1 ELSE 0)
  BY DEF ToLaunch
<1> HIDE DEF most
<1>3. ASSUME NEW first \in {0, 1}
      PROVE  LET n == NumWorkersToLaunch(most, mem.running, MaxWorkersPerCycle, first)
             IN n \in Nat /\ (n > 0 => mem.running + n <= most)
  BY <1>1 DEF NumWorkersToLaunch
<1>4. (IF qs.initial THEN 1 ELSE 0) \in {0, 1}
  OBVIOUS
<1> QED BY <1>1, <1>2, <1>3, <1>4 DEF most

LEMMA InitType == Init => TypeInv
<1> SUFFICES ASSUME Init PROVE TypeInv
  OBVIOUS
<1>1. queue \in [Item -> QueueDoc]
  BY InsertType DEF Init, AbsentDoc, QueueDoc, QueueItemStatus
<1>2. task \in TaskDoc /\ mem \in TaskDoc
  BY DEF Init, TaskDoc, CrawlStatus
<1>3. copy \in [Launch -> [Item -> QueueDoc]]
  BY DEF Init, AbsentDoc, QueueDoc, QueueItemStatus
<1>4. meta \in [Launch -> MetaDoc]
  BY DEF Init, NoMeta, MetaDoc
<1>5. created \in 0 .. MaxLaunch
  BY CrawlTaskAssumption DEF Init, CrawlTaskAssumption
<1> QED BY <1>1, <1>2, <1>3, <1>4, <1>5
        DEF Init, TypeInv, TypeOK, LaunchBounds, PC, NoStats, NoBatch, Phase

LEMMA SchedulerType == TypeInv /\ Scheduler => TypeInv'
<1> SUFFICES ASSUME TypeInv, Scheduler PROVE TypeInv'
  OBVIOUS
<1> USE DEF TypeInv, LaunchBounds
<1>a. /\ NumItemsWorker \in Nat /\ MaxLaunch \in Nat
      /\ MaxWorkersPerCycle \in Nat
  BY CrawlTaskAssumption DEF CrawlTaskAssumption
<1>1. ASSUME GetTasks PROVE TypeInv'
  BY <1>1 DEF GetTasks, TypeOK, PC, workerVars
<1>2. ASSUME NEW here, NEW st \in {"initial", "running", "failed"},
             NEW next \in PC \ {"launch", "invoke"}, Count(here, st, next)
      PROVE  TypeInv'
  <2>1. qs' \in [{"initial", "running", "failed"} -> BOOLEAN]
    BY <1>2 DEF Count, TypeOK
  <2> QED BY <1>2, <2>1 DEF Count, TypeOK, workerVars
<1>3. CASE CountInitial \/ CountRunning \/ CountFailed \/ RefreshStatistics
  BY <1>2, <1>3 DEF CountInitial, CountRunning, CountFailed, RefreshStatistics,
                    PC
<1>4. CASE CountDefinitelyFailed
  BY <1>4, StatusSetFinite
     DEF CountDefinitelyFailed, NumDefinitelyFailed, TypeOK, PC, workerVars
<1>5. CASE CountCompleted
  BY <1>5 DEF CountCompleted, TypeOK, PC, workerVars
<1>6. CASE CloseTask
  BY <1>6 DEF CloseTask, EndCycle, TypeOK, TaskDoc, CrawlStatus, PC, NoStats,
              NoBatch, workerVars
<1>7. CASE FindFinished
  BY <1>7 DEF FindFinished, MetaWith, TypeOK, PC, workerVars
<1>8. ASSUME NEW l \in Launch, CompleteMeta(l) PROVE TypeInv'
  BY <1>8, CounterType
     DEF CompleteMeta, TypeOK, MetaDoc, workerVars
<1>9. CASE SaveFinished
  BY <1>9 DEF SaveFinished, SaveCounters, TypeOK, TaskDoc, PC, workerVars
<1>10. ASSUME NEW S \in SUBSET Launch, FindLost(S) PROVE TypeInv'
  BY <1>10 DEF FindLost, TypeOK, PC, workerVars
<1>11. ASSUME NEW l \in Launch, MarkLost(l) PROVE TypeInv'
  BY <1>11, CounterType DEF MarkLost, TypeOK, MetaDoc, workerVars
<1>12. CASE SaveLost
  BY <1>12 DEF SaveLost, SaveCounters, TypeOK, TaskDoc, PC, workerVars
<1>13. ASSUME NEW quiet \in BOOLEAN, HealQueue(quiet) PROVE TypeInv'
  BY <1>13, UpdateType DEF HealQueue, TypeOK, PC, workerVars
<1>14. CASE EnqueueFailed
  BY <1>14, UpdateType DEF EnqueueFailed, TypeOK, PC, workerVars
<1>15. CASE FailTask
  BY <1>15 DEF FailTask, EndCycle, TypeOK, TaskDoc, CrawlStatus, PC, NoStats,
               NoBatch, workerVars
<1>16. CASE LaunchNone
  BY <1>16 DEF LaunchNone, EndCycle, TypeOK, PC, NoStats, NoBatch, workerVars
<1>17. ASSUME NEW m \in Measurement, PlanLaunch(m) PROVE TypeInv'
  <2>1. ToLaunch(m) \in Nat
    BY ToLaunchType
  <2>2. PICK n \in Nat : /\ n > 0 /\ created + n <= MaxLaunch
                         /\ batch' = [NoBatch EXCEPT !.left = n]
    <3> DEFINE n == IF ToLaunch(m) <= MaxLaunch - created THEN ToLaunch(m)
                    ELSE MaxLaunch - created
    <3>1. created \in Nat /\ created < MaxLaunch /\ ToLaunch(m) > 0
      BY <1>17, <1>a DEF PlanLaunch, TypeOK
    <3>2. n \in Nat /\ n > 0 /\ created + n <= MaxLaunch
      BY <3>1, <2>1, <1>a
    <3>3. batch' = [NoBatch EXCEPT !.left = n]
      BY <1>17 DEF PlanLaunch
    <3> HIDE DEF n
    <3> QED BY <3>2, <3>3
  <2>3. /\ batch' \in [left : Nat, acked : Nat, remove : SUBSET Launch]
        /\ batch'.left > 0 /\ created + batch'.left <= MaxLaunch
    BY <2>2 DEF NoBatch
  <2> QED BY <1>17, <2>3 DEF PlanLaunch, TypeOK, PC, workerVars
<1>18. CASE CreateMeta
  <2>1. created' \in Launch
    BY <1>18, <1>a DEF CreateMeta, TypeOK, Launch
  <2>2. meta' \in [Launch -> MetaDoc] /\ wid' \in [Launch -> Nat]
    BY <1>18, <2>1 DEF CreateMeta, TypeOK, MetaDoc, TaskDoc
  <2>3. LaunchBounds'
    BY <1>18, <1>a, <2>1 DEF CreateMeta, TypeOK
  <2>4. created' \in 0 .. MaxLaunch /\ pc' \in PC
    BY <1>18, <1>a, <2>1 DEF CreateMeta, Launch, PC
  <2> QED BY <1>18, <2>2, <2>3, <2>4 DEF CreateMeta, TypeOK, workerVars
<1>19. CASE Invoke
  <2>1. created \in Launch /\ batch.left \in Nat \ {0}
    BY <1>19 DEF Invoke, TypeOK
  <2>2. /\ batch' \in [left : Nat, acked : Nat, remove : SUBSET Launch]
        /\ batch'.left <= batch.left - 1
    BY <1>19, <2>1 DEF Invoke, TypeOK
  <2>3. phase' \in [Launch -> Phase] /\ faults' \in Nat
    BY <1>19 DEF Invoke, Fault, TypeOK, Phase
  <2>4. LaunchBounds'
    <3>1. batch'.left \in Nat /\ created' = created /\ created \in Nat
      BY <1>19, <2>2 DEF Invoke, TypeOK
    <3>2. pc' = "launch" => batch'.left # 0
      BY <1>19 DEF Invoke
    <3> QED BY <1>19, <1>a, <2>1, <2>2, <3>1, <3>2 DEF Invoke
  <2>5. mem' \in TaskDoc /\ pc' \in PC
    BY <1>19, CounterType DEF Invoke, TypeOK, PC
  <2> QED BY <1>19, <2>2, <2>3, <2>4, <2>5 DEF Invoke, TypeOK
<1>20. CASE RemoveWorkerMeta
  BY <1>20 DEF RemoveWorkerMeta, TypeOK, MetaDoc, NoMeta, PC, workerVars
<1>21. CASE SaveLaunched
  <2>1. task' \in TaskDoc
    <3>1. mem \in TaskDoc /\ task.status \in CrawlStatus /\ batch.acked \in Nat
      BY DEF TypeOK, TaskDoc
    <3>2. mem.running + batch.acked \in Nat /\ mem.started + batch.acked \in Nat
      BY <3>1 DEF TaskDoc
    <3>3. task' = [mem EXCEPT !.status = task.status,
                              !.running = mem.running + batch.acked,
                              !.started = mem.started + batch.acked]
      BY <1>21 DEF SaveLaunched
    <3> QED BY <3>1, <3>2, <3>3 DEF TaskDoc
  <2> QED BY <1>21, <2>1 DEF SaveLaunched, EndCycle, TypeOK, PC, NoStats,
                             NoBatch, workerVars
<1> QED BY <1>1, <1>3, <1>4, <1>5, <1>6, <1>7, <1>8, <1>9, <1>10, <1>11,
           <1>12, <1>13, <1>14, <1>15, <1>16, <1>17, <1>18, <1>19, <1>20,
           <1>21
        DEF Scheduler

LEMMA WorkersType ==
    ASSUME TypeInv, NEW l \in Launch, Worker(l)
    PROVE  TypeInv'
<1> USE DEF TypeInv, LaunchBounds
<1>1. ASSUME NEW i \in Item, ClaimItem(l, i) PROVE TypeInv'
  <2>1. queue' \in [Item -> QueueDoc]
    BY <1>1, UpdateType DEF ClaimItem, TypeOK
  <2>2. claims' \in [Launch -> Nat] /\ tries' \in [Item -> Nat]
    BY <1>1 DEF ClaimItem, Tried, TypeOK
  <2> QED BY <1>1, <2>1, <2>2 DEF ClaimItem, TypeOK, schedVars
<1>2. CASE StopClaiming(l)
  BY <1>2 DEF StopClaiming, Fault, Goto, TypeOK, Phase, schedVars
<1>3. CASE Crawl(l)
  <2>1. PICK outcome \in [held[l] -> Outcome] :
           copy' = [copy EXCEPT ![l] =
                       [i \in Item |-> IF i \in held[l]
                                       THEN Result(copy[l][i], outcome[i])
                                       ELSE copy[l][i]]]
    BY <1>3 DEF Crawl
  <2>2. \A i \in held[l] : outcome[i] \in AllOutcomes
    BY CrawlTaskAssumption DEF CrawlTaskAssumption
  <2>3. \A i \in Item : copy[l][i] \in QueueDoc
    BY DEF TypeOK
  <2>4. copy' \in [Launch -> [Item -> QueueDoc]]
    <3>1. \A i \in held[l] : Result(copy[l][i], outcome[i]) \in QueueDoc
      BY <2>2, <2>3, ResultType DEF TypeOK
    <3> QED BY <2>1, <2>3, <3>1 DEF TypeOK
  <2>5. faults' \in Nat
    BY <1>3 DEF Crawl, TypeOK
  <2> QED BY <1>3, <2>4, <2>5 DEF Crawl, Goto, TypeOK, Phase, schedVars
<1>4. ASSUME NEW i \in Item, WriteItem(l, i) PROVE TypeInv'
  <2>1. queue' \in [Item -> QueueDoc]
    <3>1. copy[l][i] \in QueueDoc
      BY DEF TypeOK
    <3> QED BY <1>4, <3>1, UpdateType DEF WriteItem, TypeOK
  <2>2. AbsentDoc \in QueueDoc
    BY DEF AbsentDoc, QueueDoc, QueueItemStatus
  <2> QED BY <1>4, <2>1, <2>2 DEF WriteItem, Goto, TypeOK, Phase, schedVars
<1>5. CASE Report(l)
  <2>1. meta' \in [Launch -> MetaDoc]
    <3>1. meta \in [Launch -> MetaDoc]
      BY DEF TypeOK
    <3>2. \A d \in MetaDoc : [d EXCEPT !.ended = TRUE] \in MetaDoc
      BY DEF MetaDoc
    <3>3. \/ meta' = meta
          \/ meta' = [k \in Launch |->
                         IF k \in MetaOf(l) /\ \A j \in MetaOf(l) : k <= j
                         THEN [meta[k] EXCEPT !.ended = TRUE] ELSE meta[k]]
      BY <1>5 DEF Report
    <3> QED BY <3>1, <3>2, <3>3
  <2>2. phase' \in [Launch -> Phase] /\ faults' \in Nat
    BY <1>5 DEF Report, Fault, Goto, TypeOK, Phase
  <2> QED BY <1>5, <2>1, <2>2 DEF Report, TypeOK, schedVars
<1> QED BY <1>1, <1>2, <1>3, <1>4, <1>5 DEF Worker

LEMMA DisturbanceType == TypeInv /\ Disturbance => TypeInv'
<1> SUFFICES ASSUME TypeInv, Disturbance PROVE TypeInv'
  OBVIOUS
<1> USE DEF TypeInv, LaunchBounds
<1>0. AbsentDoc \in QueueDoc
  BY DEF AbsentDoc, QueueDoc, QueueItemStatus
<1>1. CASE Crash
  BY <1>1 DEF Crash, Fault, EndCycle, TypeOK, PC, NoStats, NoBatch, workerVars
<1>2. ASSUME NEW l \in Launch, NEW i \in Item, EnqueueItem(l, i)
      PROVE  TypeInv'
  BY <1>2, InsertType DEF EnqueueItem, TypeOK, schedVars, workerVars
<1>3. ASSUME NEW l \in Launch, NEW i \in Item, ClaimLost(l, i)
      PROVE  TypeInv'
  <2>1. queue' \in [Item -> QueueDoc]
    BY <1>3, UpdateType DEF ClaimLost, TypeOK
  <2>2. claims' \in [Launch -> Nat] /\ tries' \in [Item -> Nat]
    BY <1>3 DEF ClaimLost, Tried, TypeOK
  <2> QED BY <1>3, <2>1, <2>2 DEF ClaimLost, Fault, Goto, TypeOK, Phase, schedVars
<1>4. ASSUME NEW l \in Launch, WriteFails(l) \/ Die(l) PROVE TypeInv'
  <2>1. /\ held' \in [Launch -> SUBSET Item] /\ claims' \in [Launch -> Nat]
        /\ copy' \in [Launch -> [Item -> QueueDoc]]
    <3>1. /\ Drop(l) /\ held \in [Launch -> SUBSET Item] /\ claims \in [Launch -> Nat]
          /\ copy \in [Launch -> [Item -> QueueDoc]]
      BY <1>4 DEF WriteFails, Die, TypeOK
    <3>2. [i \in Item |-> AbsentDoc] \in [Item -> QueueDoc]
      BY <1>0
    <3> QED BY <3>1, <3>2 DEF Drop
  <2>2. phase' \in [Launch -> Phase] /\ faults' \in Nat
    <3>1. Goto(l, "reporting") \/ Goto(l, "gone")
      BY <1>4 DEF WriteFails, Die
    <3>2. faults' = faults + 1 /\ faults \in Nat /\ phase \in [Launch -> Phase]
      BY <1>4 DEF WriteFails, Die, Fault, TypeOK
    <3> QED BY <3>1, <3>2 DEF Goto, Phase
  <2> QED BY <1>4, <2>1, <2>2 DEF WriteFails, Die, TypeOK, schedVars
<1> QED BY <1>1, <1>2, <1>3, <1>4 DEF Disturbance

LEMMA TypeStep == TypeInv /\ [Next]_vars => TypeInv'
<1>1. TypeInv /\ Next => TypeInv'
  BY SchedulerType, WorkersType, DisturbanceType DEF Next
<1>2. TypeInv /\ UNCHANGED vars => TypeInv'
  BY DEF vars, schedVars, workerVars, TypeInv, TypeOK, LaunchBounds
<1> QED BY <1>1, <1>2

\* Every variable keeps its type, and no launch loop leaves its bounds.
THEOREM TypeCorrect == Spec => []TypeOK
<1>1. TypeInv => TypeOK
  BY DEF TypeInv
<1> QED BY <1>1, TypeStep, InitType, PTL DEF Spec

-----------------------------------------------------------------------------
(* The date of an item and its status, under every fault.  What is overwritten *)
(* without looking must agree in itself: the workers' copies do, too.       *)

Agrees(doc) == doc.crawled <=> doc.status = "completed"

AllAgree(q) == \A i \in Item : Agrees(q[i])

\* A worker exists only from its invocation on, and holds items only while it
\* claims, crawls and writes.
LaunchInv ==
    /\ pc = "invoke" => phase[created] = "none"
    /\ \A l \in Launch : l > created => phase[l] = "none"
    /\ \A l \in Launch :
          phase[l] \notin {"claiming", "crawling", "writing"} => held[l] = {}

DateInv ==
    /\ AllAgree(queue)
    /\ \A l \in Launch : AllAgree(copy[l])
    /\ \A l \in Launch : phase[l] \in {"claiming", "crawling"} =>
          \A i \in held[l] : copy[l][i].status = "running"

\* No status but running and completed is entered by SetStatus, from no status
\* with a date.
LEMMA SetStatusAgrees ==
    ASSUME NEW q \in [Item -> QueueDoc], AllAgree(q), NEW S,
           \A i \in S \cap Item : q[i].status # "completed",
           NEW st \in QueueItemStatus \ {"completed"}
    PROVE  AllAgree(SetStatus(q, S, st))
<1> SUFFICES ASSUME NEW i \in Item PROVE Agrees(SetStatus(q, S, st)[i])
  BY DEF AllAgree
<1>1. q[i] \in QueueDoc /\ Agrees(q[i])
  BY DEF AllAgree
<1>2. CASE i \in S
  <2>1. SetStatus(q, S, st)[i] = [q[i] EXCEPT !.status = st]
    BY <1>2 DEF SetStatus
  <2>2. q[i].status # "completed"
    BY <1>2
  <2> QED BY <1>1, <2>1, <2>2 DEF Agrees, QueueDoc
<1>3. CASE i \notin S
  BY <1>1, <1>3 DEF SetStatus
<1> QED BY <1>2, <1>3

LEMMA InsertAgrees ==
    ASSUME NEW q, AllAgree(q), NEW S
    PROVE  AllAgree(InsertItems(q, S))
BY DEF AllAgree, Agrees, InsertItems, FreshDoc

LEMMA ResultAgrees ==
    ASSUME NEW doc \in QueueDoc, Agrees(doc), NEW o \in AllOutcomes,
           doc.status # "completed"
    PROVE  Agrees(Result(doc, o))
<1>1. CASE o = "completed"
  BY <1>1 DEF Result, Agrees
<1>2. CASE o = "failed"
  BY <1>2 DEF Result, Agrees, QueueDoc
<1>3. CASE o = "blocked"
  BY <1>3 DEF Result, Blocked, Agrees, QueueDoc
<1>4. CASE o = "abandoned"
  BY <1>4 DEF Result, Agrees, QueueDoc
<1>5. CASE o = "unstored"
  BY <1>5 DEF Result, Unstored, Agrees
<1>6. CASE o = "untouched"
  BY <1>6 DEF Result
<1> QED BY <1>1, <1>2, <1>3, <1>4, <1>5, <1>6 DEF AllOutcomes

\* Four steps of the scheduler reach beyond its own state, the task and the metas.
LEMMA SchedulerFrame ==
    ASSUME Scheduler
    PROVE  \/ /\ UNCHANGED <<queue, phase, held, copy, created, wid, faults, tries>>
              /\ pc' # "invoke"
           \/ CreateMeta
           \/ Invoke
           \/ \E quiet \in BOOLEAN : HealQueue(quiet)
           \/ EnqueueFailed
BY DEF Scheduler, GetTasks, CountInitial, CountRunning, CountFailed,
       RefreshStatistics, Count, CountDefinitelyFailed, CountCompleted,
       CloseTask, FindFinished, CompleteMeta, SaveFinished, FindLost, MarkLost,
       SaveLost, FailTask, LaunchNone, PlanLaunch, RemoveWorkerMeta,
       SaveLaunched, EndCycle, workerVars

\* What an invocation does besides its bookkeeping.
LEMMA InvokeFrame ==
    ASSUME Invoke
    PROVE  /\ \E p \in {"claiming", "gone"} : phase' = [phase EXCEPT ![created] = p]
           /\ UNCHANGED <<queue, task, created, wid, meta, held, copy>>
           /\ pc = "invoke" /\ pc' \in {"launch", "remove_meta"}
<1>1. PICK started \in BOOLEAN :
         phase' = [phase EXCEPT ![created] =
                      IF started THEN "claiming" ELSE "gone"]
  BY DEF Invoke
<1>2. \E p \in {"claiming", "gone"} : phase' = [phase EXCEPT ![created] = p]
  BY <1>1
<1> QED BY <1>2 DEF Invoke

\* A step of a worker, and the end of one, touches nobody else's claims.
LEMMA WorkerFrame ==
    ASSUME TypeInv, LaunchInv, NEW l \in Launch,
           \/ Worker(l)
           \/ \E i \in Item : ClaimLost(l, i)
           \/ WriteFails(l)
           \/ Die(l)
    PROVE  /\ Alive(l)
           /\ UNCHANGED <<schedVars, task, created, wid>>
           /\ \A k \in Launch \ {l} :
                 phase'[k] = phase[k] /\ held'[k] = held[k] /\ copy'[k] = copy[k]
           /\ phase'[l] \in Phase \ {"none"}
           /\ phase'[l] \notin {"claiming", "crawling", "writing"} => held'[l] = {}
<1> USE DEF Alive, Goto, schedVars, Phase
<1>a. /\ phase \in [Launch -> Phase] /\ held \in [Launch -> SUBSET Item]
      /\ copy \in [Launch -> [Item -> QueueDoc]]
      /\ phase[l] \notin {"claiming", "crawling", "writing"} => held[l] = {}
  BY DEF TypeInv, TypeOK, LaunchInv
<1>1. CASE \E i \in Item : ClaimItem(l, i)
  BY <1>a, <1>1 DEF ClaimItem
<1>2. CASE \E i \in Item : ClaimLost(l, i)
  BY <1>a, <1>2 DEF ClaimLost
<1>3. CASE StopClaiming(l)
  BY <1>a, <1>3 DEF StopClaiming
<1>4. CASE Crawl(l)
  BY <1>a, <1>4 DEF Crawl
<1>5. CASE \E i \in Item : WriteItem(l, i)
  BY <1>a, <1>5 DEF WriteItem
<1>6. CASE Report(l)
  BY <1>a, <1>6 DEF Report
<1>7. CASE WriteFails(l) \/ Die(l)
  BY <1>a, <1>7 DEF WriteFails, Die, Drop
<1> QED BY <1>1, <1>2, <1>3, <1>4, <1>5, <1>6, <1>7 DEF Worker

LEMMA LaunchStep == TypeInv /\ LaunchInv /\ [Next]_vars => LaunchInv'
<1> SUFFICES ASSUME TypeInv, LaunchInv, [Next]_vars PROVE LaunchInv'
  OBVIOUS
<1> USE DEF LaunchInv
<1>a. created \in Int /\ phase \in [Launch -> Phase]
      /\ held \in [Launch -> SUBSET Item] /\ Launch \subseteq Int
  BY CrawlTaskAssumption DEF CrawlTaskAssumption, TypeInv, TypeOK, Launch
<1>1. CASE Scheduler
  <2>1. CASE /\ UNCHANGED <<queue, phase, held, copy, created, wid, faults, tries>>
             /\ pc' # "invoke"
    BY <2>1
  <2>2. CASE CreateMeta
    <3>1. created' \in Launch /\ created' > created
      BY <2>2, CrawlTaskAssumption
         DEF CreateMeta, CrawlTaskAssumption, TypeInv, TypeOK, LaunchBounds, Launch
    <3> QED BY <2>2, <3>1, <1>a DEF CreateMeta, workerVars
  <2>3. CASE Invoke
    <3>1. created \in Launch /\ held[created] = {}
      BY <2>3 DEF Invoke, TypeInv, LaunchBounds
    <3> QED BY <2>3, <3>1, <1>a, InvokeFrame
  <2>4. CASE (\E quiet \in BOOLEAN : HealQueue(quiet)) \/ EnqueueFailed
    BY <2>4 DEF HealQueue, EnqueueFailed, workerVars
  <2> QED BY <1>1, <2>1, <2>2, <2>3, <2>4, SchedulerFrame
<1>2. ASSUME NEW l \in Launch,
             \/ Worker(l)
             \/ \E i \in Item : ClaimLost(l, i)
             \/ WriteFails(l)
             \/ Die(l)
      PROVE  LaunchInv'
  <2>1. phase[l] # "none" /\ created' = created /\ pc' = pc
    BY <1>2, WorkerFrame DEF Alive, schedVars
  <2>2. l <= created /\ (pc = "invoke" => l # created)
    BY <1>a, <2>1
  <2>3. pc' = "invoke" => created \in Launch \ {l}
    BY <2>1, <2>2 DEF TypeInv, LaunchBounds
  <2> QED BY <1>2, <1>a, <2>1, <2>2, <2>3, WorkerFrame
<1>3. CASE Disturbance
  <2>1. CASE Crash
    BY <2>1 DEF Crash, EndCycle, workerVars
  <2>2. CASE \E l \in Launch, i \in Item : EnqueueItem(l, i)
    BY <2>2 DEF EnqueueItem, schedVars, workerVars
  <2> QED BY <1>2, <1>3, <2>1, <2>2 DEF Disturbance
<1>4. CASE UNCHANGED vars
  BY <1>4 DEF vars, schedVars, workerVars
<1> QED BY <1>1, <1>2, <1>3, <1>4 DEF Next

LEMMA DateStep ==
    TypeInv /\ LaunchInv /\ DateInv /\ [Next]_vars => DateInv'
<1> SUFFICES ASSUME TypeInv, LaunchInv, DateInv, [Next]_vars PROVE DateInv'
  OBVIOUS
<1>a. /\ created \in Int /\ queue \in [Item -> QueueDoc]
      /\ phase \in [Launch -> Phase] /\ held \in [Launch -> SUBSET Item]
      /\ copy \in [Launch -> [Item -> QueueDoc]]
  BY CrawlTaskAssumption DEF CrawlTaskAssumption, TypeInv, TypeOK
<1>b. Agrees(AbsentDoc) /\ AllAgree([i \in Item |-> AbsentDoc])
  BY DEF AllAgree, Agrees, AbsentDoc
<1>c. {"initial", "running"} \subseteq QueueItemStatus \ {"completed"}
  BY DEF QueueItemStatus
<1>1. CASE UNCHANGED <<queue, phase, held, copy>>
  BY <1>1 DEF DateInv, AllAgree
<1>2. CASE Scheduler
  <2>1. CASE CreateMeta
    BY <1>1, <2>1 DEF CreateMeta, workerVars
  <2>2. CASE Invoke
    <3>1. created \in Launch /\ held[created] = {}
      BY <2>2 DEF Invoke, TypeInv, LaunchBounds, LaunchInv
    <3> QED BY <2>2, <3>1, <1>a, InvokeFrame DEF DateInv, AllAgree
  <2>3. CASE \E quiet \in BOOLEAN : HealQueue(quiet)
    <3>1. AllAgree(ResetQueueItems(queue))
      BY <1>a, <1>c, SetStatusAgrees DEF ResetQueueItems, WithStatus, DateInv
    <3> QED BY <2>3, <3>1 DEF HealQueue, DateInv, workerVars
  <2>4. CASE EnqueueFailed
    <3>1. AllAgree(EnqueueFailedItems(queue, RetryFailedItems))
      BY <1>a, <1>c, SetStatusAgrees
         DEF EnqueueFailedItems, Retriable, WithStatus, DateInv
    <3> QED BY <2>4, <3>1 DEF EnqueueFailed, DateInv, workerVars
  <2> QED BY <1>1, <1>2, <2>1, <2>2, <2>3, <2>4, SchedulerFrame
<1>3. ASSUME NEW l \in Launch, NEW i \in Item, i \in Claimable(queue)
      PROVE  AllAgree(TakeItem(queue, i)) /\ TakeItem(queue, i)[i].status = "running"
             /\ Agrees(TakeItem(queue, i)[i])
  <2>1. AllAgree(TakeItem(queue, i))
    BY <1>3, <1>a, <1>c, SetStatusAgrees DEF TakeItem, Claimable, WithStatus, DateInv
  <2> QED BY <2>1, <1>a DEF AllAgree, TakeItem, SetStatus, QueueDoc
<1>4. ASSUME NEW l \in Launch, NEW i \in Item, ClaimItem(l, i) PROVE DateInv'
  <2>1. /\ AllAgree(queue') /\ queue'[i].status = "running" /\ Agrees(queue'[i])
        /\ held' = [held EXCEPT ![l] = held[l] \cup {i}]
        /\ copy' = [copy EXCEPT ![l][i] = queue'[i]] /\ phase' = phase
        /\ phase[l] = "claiming"
    BY <1>3, <1>4 DEF ClaimItem
  <2> QED BY <2>1, <1>a DEF DateInv, AllAgree
<1>5. ASSUME NEW l \in Launch, NEW i \in Item, ClaimLost(l, i) PROVE DateInv'
  BY <1>3, <1>5, <1>a DEF ClaimLost, Goto, DateInv, AllAgree
<1>6. ASSUME NEW l \in Launch, StopClaiming(l) PROVE DateInv'
  BY <1>6, <1>a DEF StopClaiming, Goto, DateInv, AllAgree
<1>7. ASSUME NEW l \in Launch, Crawl(l) PROVE DateInv'
  <2>1. PICK outcome \in [held[l] -> Outcome] :
           copy' = [copy EXCEPT ![l] =
                       [i \in Item |-> IF i \in held[l]
                                       THEN Result(copy[l][i], outcome[i])
                                       ELSE copy[l][i]]]
    BY <1>7 DEF Crawl
  <2>2. \A i \in held[l] : Agrees(Result(copy[l][i], outcome[i]))
    <3> SUFFICES ASSUME NEW i \in held[l]
                 PROVE  Agrees(Result(copy[l][i], outcome[i]))
      OBVIOUS
    <3>1. outcome[i] \in AllOutcomes
      BY CrawlTaskAssumption DEF CrawlTaskAssumption
    <3>2. copy[l][i] \in QueueDoc /\ Agrees(copy[l][i]) /\ copy[l][i].status = "running"
      BY <1>7, <1>a DEF DateInv, AllAgree, Crawl
    <3> QED BY <3>1, <3>2, ResultAgrees
  <2>3. AllAgree(copy'[l])
    BY <2>1, <2>2, <1>a DEF DateInv, AllAgree
  <2> QED BY <1>7, <2>1, <2>3, <1>a DEF Crawl, Goto, DateInv
<1>8. ASSUME NEW l \in Launch, NEW i \in Item, WriteItem(l, i) PROVE DateInv'
  <2>1. AllAgree(queue')
    BY <1>8, <1>a DEF WriteItem, OverwriteItem, DateInv, AllAgree
  <2>2. phase'[l] \notin {"claiming", "crawling"}
    BY <1>8, <1>a DEF WriteItem, Goto
  <2> QED BY <1>8, <2>1, <2>2, <1>a, <1>b DEF WriteItem, Goto, DateInv, AllAgree
<1>9. ASSUME NEW l \in Launch, Report(l) PROVE DateInv'
  BY <1>9, <1>a DEF Report, Goto, DateInv, AllAgree
<1>10. ASSUME NEW l \in Launch, WriteFails(l) \/ Die(l) PROVE DateInv'
  BY <1>10, <1>a, <1>b DEF WriteFails, Die, Drop, Goto, DateInv
<1>11. CASE Crash
  BY <1>1, <1>11 DEF Crash, workerVars
<1>12. ASSUME NEW l \in Launch, NEW i \in Item, EnqueueItem(l, i) PROVE DateInv'
  BY <1>12, InsertAgrees DEF EnqueueItem, DateInv, workerVars
<1>13. CASE UNCHANGED vars
  BY <1>1, <1>13 DEF vars, workerVars
<1> QED BY <1>2, <1>4, <1>5, <1>6, <1>7, <1>8, <1>9, <1>10, <1>11, <1>12, <1>13
        DEF Next, Worker, Disturbance

LEMMA DateInit == Init => LaunchInv /\ DateInv
<1>1. Init => LaunchInv
  BY DEF Init, LaunchInv
<1>2. Agrees(AbsentDoc) /\ Agrees(FreshDoc)
  BY DEF Agrees, AbsentDoc, FreshDoc
<1>3. Init => DateInv
  BY <1>2 DEF Init, DateInv, AllAgree, InsertItems
<1> QED BY <1>1, <1>3

\* Whatever fails, an item's date and status agree: the overwriting writes of
\* workers that lost their claim leave no item that nobody can claim.
THEOREM DatesAgree == Spec => []CrawledIffCompleted
<1>1. DateInv => CrawledIffCompleted
  BY DEF DateInv, AllAgree, Agrees, CrawledIffCompleted
<1> QED BY <1>1, DateInit, InitType, TypeStep, LaunchStep, DateStep, PTL DEF Spec

\* Failures are only ever added.
LEMMA FaultsGrow ==
    ASSUME TypeInv, [Next]_vars
    PROVE  faults' >= faults
<1>a. faults \in Nat
  BY DEF TypeInv, TypeOK
<1>1. CASE UNCHANGED faults
  BY <1>a, <1>1
<1>2. CASE \E kind : Fault(kind)
  BY <1>a, <1>2 DEF Fault
<1>3. CASE Scheduler
  <2>1. CASE CreateMeta \/ EnqueueFailed \/ \E quiet \in BOOLEAN : HealQueue(quiet)
    BY <1>1, <2>1 DEF CreateMeta, EnqueueFailed, HealQueue
  <2>2. CASE Invoke
    BY <1>1, <1>2, <2>2 DEF Invoke
  <2> QED BY <1>1, <1>3, <2>1, <2>2, SchedulerFrame
<1>4. ASSUME NEW l \in Launch, Worker(l) PROVE faults' >= faults
  <2>1. CASE \E i \in Item : ClaimItem(l, i) \/ WriteItem(l, i)
    BY <1>1, <2>1 DEF ClaimItem, WriteItem
  <2>2. CASE StopClaiming(l) \/ Report(l)
    BY <1>1, <1>2, <2>2 DEF StopClaiming, Report
  <2>3. CASE Crawl(l)
    BY <1>a, <2>3 DEF Crawl
  <2> QED BY <1>4, <2>1, <2>2, <2>3 DEF Worker
<1>5. CASE Disturbance
  BY <1>1, <1>2, <1>5 DEF Disturbance, Crash, EnqueueItem, ClaimLost, WriteFails, Die
<1>6. CASE UNCHANGED vars
  BY <1>1, <1>6 DEF vars
<1> QED BY <1>3, <1>4, <1>5, <1>6 DEF Next

-----------------------------------------------------------------------------
(* The ids, the metas, the counter and the claims.  What is said about the  *)
(* database alone needs only that the scheduler does not restart; what is   *)
(* said about the workers needs that no answer of an invocation is lost     *)
(* and, where it is about claims, that no worker outlives its threshold.    *)

NoCrash == "crash" \notin Environment

NoLostAnswer == "unacked" \notin Environment

NoLateWorker == "late" \notin Environment

Orderly == NoCrash /\ NoLostAnswer /\ NoLateWorker

Launching == {"launch", "invoke", "remove_meta", "save"}

Started == MetaWith("started")

\* Ids are below the counter they were taken from, and therefore unique.
IdInv ==
    /\ \A l \in 1 .. created :
          \/ wid[l] < mem.worker_id
          \/ pc = "invoke" /\ l = created /\ wid[l] = mem.worker_id
    /\ \A l, k \in 1 .. created : wid[l] = wid[k] => l = k
    /\ pc \notin Launching => task.worker_id = mem.worker_id

\* The metas about to be removed, and those a loop of the scheduler has still to
\* visit, are started.
BookInv ==
    /\ \A l \in Launch : l > created => meta[l] = NoMeta
    /\ pc = "invoke" =>
          created \in Started /\ ~meta[created].ended /\ created \notin batch.remove
    /\ pc # "save" => batch.remove \subseteq Started
    /\ pc \notin Launching => batch.remove = {}
    /\ pc = "updating" => \A l \in found : l \in Started /\ meta[l].ended
    /\ pc = "losing" => found \subseteq Started

\* A living worker's meta is started, unreported and not about to be removed, and
\* whoever is about to be marked as lost is gone.
AliveInv ==
    /\ \A l \in Launch : Alive(l) =>
          l \in Started /\ ~meta[l].ended /\ l \notin batch.remove
    /\ pc = "losing" => \A l \in found : ~Alive(l)

\* num_workers_running counts the started metas, give or take what the launch
\* loop has not added yet; the database follows at every save.
CounterInv ==
    /\ pc \notin Launching => mem.running = Cardinality(Started)
    /\ pc \in {"launch", "remove_meta"} =>
          mem.running + batch.acked + Cardinality(batch.remove) = Cardinality(Started)
    /\ pc = "invoke" =>
          mem.running + batch.acked + Cardinality(batch.remove) + 1
             = Cardinality(Started)
    /\ pc = "save" => mem.running + batch.acked = Cardinality(Started)
    /\ pc \notin {"updating", "losing"} => task.running = mem.running

ClaimInv == ExclusiveClaim

\* How many metas there are when the launch loop is through.
Planned == mem.running + batch.acked + Cardinality(batch.remove) + batch.left

\* The started metas keep the rate, and so they do when the batch is launched.
RateInv ==
    /\ InRate(Cardinality(Started))
    /\ pc \in {"launch", "invoke"} => InRate(Planned)

\* Without new items: what has been counted as definitely failed stays so, and
\* the scheduler stands at close only over settled items.
SettleInv ==
    /\ \A i \in Item : queue[i].status = "absent" <=> i \notin InitialItem
    /\ \A l \in Launch : \A i \in held[l] : copy[l][i].status # "absent"
    /\ pc = "count_completed" =>
          settled <= Cardinality(DefinitelyFailed(queue, RetryFailedItems))
    /\ pc = "close" => InitialItem \subseteq Settled(queue, RetryFailedItems)

LEMMA StartedFinite ==
    IsFiniteSet(Started) /\ Cardinality(Started) \in Nat /\ Started \subseteq Launch
<1>1. IsFiniteSet(Launch)
  <2>1. 1 \in Int /\ MaxLaunch \in Int
    BY CrawlTaskAssumption DEF CrawlTaskAssumption
  <2> QED BY <2>1, FS_Interval DEF Launch
<1>2. Started \subseteq Launch
  BY DEF Started, MetaWith
<1> QED BY <1>1, <1>2, FS_Subset, FS_CardinalityType

\* Without restarts there is no crash, and without late workers a worker is overdue
\* only when it is gone.
LEMMA OrderlyFaults ==
    /\ NoCrash => ~Crash
    /\ NoLateWorker => \A l \in Launch : Overdue(l) => ~Alive(l)
BY DEF NoCrash, NoLateWorker, Crash, Fault, Overdue

\* Whatever the answer of an invocation is, it is acknowledged or its meta will be
\* removed.
LEMMA InvokeBatch ==
    ASSUME Invoke
    PROVE  /\ \/ /\ batch'.acked = batch.acked + 1
                 /\ batch'.remove = batch.remove
              \/ /\ batch'.acked = batch.acked + 0
                 /\ batch'.remove = batch.remove \cup {created}
           /\ mem' = NextWorkerId(mem)
<1>1. PICK acked \in BOOLEAN :
         \E left \in {batch.left - 1} \cup
                     (IF Backend = "docker" /\ ~acked THEN {0} ELSE {}) :
            batch' = [left   |-> left,
                      acked  |-> batch.acked + (IF acked THEN 1 ELSE 0),
                      remove |-> batch.remove \cup
                                    (IF acked THEN {} ELSE {created})]
  BY DEF Invoke
<1>2. /\ batch'.acked = batch.acked + (IF acked THEN 1 ELSE 0)
      /\ batch'.remove = batch.remove \cup (IF acked THEN {} ELSE {created})
  BY <1>1
<1>3. CASE acked
  BY <1>2, <1>3 DEF Invoke
<1>4. CASE ~acked
  BY <1>2, <1>4 DEF Invoke
<1> QED BY <1>3, <1>4

\* When no answer is lost, exactly the acknowledged invocations started a worker.
LEMMA OrderlyInvoke ==
    ASSUME NoLostAnswer, Invoke
    PROVE  \/ /\ phase' = [phase EXCEPT ![created] = "claiming"]
              /\ batch'.remove = batch.remove
           \/ /\ phase' = [phase EXCEPT ![created] = "gone"]
              /\ batch'.remove = batch.remove \cup {created}
<1>1. PICK acked \in BOOLEAN, started \in BOOLEAN :
         /\ acked => started
         /\ IF acked THEN UNCHANGED faults
            ELSE Fault(IF started THEN "unacked" ELSE "refused")
         /\ phase' = [phase EXCEPT ![created] =
                          IF started THEN "claiming" ELSE "gone"]
         /\ \E left \in {batch.left - 1} \cup
                        (IF Backend = "docker" /\ ~acked THEN {0} ELSE {}) :
               batch' = [left   |-> left,
                         acked  |-> batch.acked + (IF acked THEN 1 ELSE 0),
                         remove |-> batch.remove \cup
                                       (IF acked THEN {} ELSE {created})]
  BY DEF Invoke
<1>2. batch'.remove = batch.remove \cup (IF acked THEN {} ELSE {created})
  BY <1>1
<1>3. started => acked
  BY <1>1 DEF Fault, NoLostAnswer
<1>4. CASE acked
  BY <1>1, <1>2, <1>4
<1>5. CASE ~acked
  BY <1>1, <1>2, <1>3, <1>5
<1> QED BY <1>4, <1>5

\* Two launches never share an id.
LEMMA IdStep ==
    ASSUME TypeInv, LaunchInv, IdInv, NoCrash, [Next]_vars
    PROVE  IdInv'
<1> USE DEF IdInv, Launching
<1>a. /\ mem.worker_id \in Nat /\ created \in Nat /\ wid \in [Launch -> Nat]
      /\ 1 .. created \subseteq Launch
  BY CrawlTaskAssumption DEF CrawlTaskAssumption, TypeInv, TypeOK, TaskDoc, Launch
<1>b. /\ OneWorkerLess(mem).worker_id = mem.worker_id
      /\ OneWorkerLost(mem).worker_id = mem.worker_id
      /\ NextWorkerId(mem).worker_id = mem.worker_id + 1
  BY DEF OneWorkerLess, OneWorkerLost, NextWorkerId, TypeInv, TypeOK, TaskDoc
<1>1. ASSUME UNCHANGED <<created, wid>>, mem'.worker_id = mem.worker_id,
             pc # "invoke", pc' # "invoke",
             pc' \notin Launching => task'.worker_id = mem.worker_id
      PROVE  IdInv'
  BY <1>1
<1>2. CASE Scheduler
  <2>1. CASE CreateMeta
    <3>1. created' = created + 1 /\ created' \in Launch
      BY <2>1, <1>a, CrawlTaskAssumption
         DEF CreateMeta, CrawlTaskAssumption, TypeInv, TypeOK, LaunchBounds, Launch
    <3>2. wid' = [wid EXCEPT ![created'] = mem.worker_id]
          /\ mem' = mem /\ pc' = "invoke" /\ pc = "launch"
      BY <2>1 DEF CreateMeta
    <3>3. \A l \in 1 .. created : wid'[l] = wid[l] /\ wid'[l] < mem.worker_id
      BY <1>a, <3>1, <3>2
    <3>4. \A l \in 1 .. created' : l = created' \/ l \in 1 .. created
      BY <1>a, <3>1
    <3>5. wid'[created'] = mem.worker_id
      BY <1>a, <3>1, <3>2
    <3> QED BY <1>a, <3>1, <3>2, <3>3, <3>4, <3>5
  <2>2. CASE Invoke
    BY <2>2, <1>a, <1>b, InvokeBatch, InvokeFrame
  <2>3. CASE GetTasks
    BY <1>1, <2>3 DEF GetTasks
  <2>4. CASE CountInitial \/ CountRunning \/ CountFailed \/ RefreshStatistics
    BY <1>1, <2>4 DEF CountInitial, CountRunning, CountFailed, RefreshStatistics, Count
  <2>5. CASE CountDefinitelyFailed \/ CountCompleted
    BY <1>1, <2>5 DEF CountDefinitelyFailed, CountCompleted
  <2>6. CASE CloseTask \/ FailTask \/ LaunchNone
    BY <1>1, <2>6
       DEF CloseTask, FailTask, LaunchNone, EndCycle, TypeInv, TypeOK, TaskDoc
  <2>7. CASE FindFinished \/ (\E l \in Launch : CompleteMeta(l))
    BY <1>1, <1>b, <2>7 DEF FindFinished, CompleteMeta
  <2>8. CASE SaveFinished \/ SaveLost
    BY <1>1, <2>8
       DEF SaveFinished, SaveLost, SaveCounters, TypeInv, TypeOK, TaskDoc
  <2>9. CASE (\E S \in SUBSET Launch : FindLost(S)) \/ \E l \in Launch : MarkLost(l)
    BY <1>1, <1>b, <2>9 DEF FindLost, MarkLost
  <2>10. CASE EnqueueFailed \/ \E quiet \in BOOLEAN : HealQueue(quiet)
    BY <1>1, <2>10 DEF EnqueueFailed, HealQueue
  <2>11. CASE \E m \in Measurement : PlanLaunch(m)
    BY <1>1, <2>11 DEF PlanLaunch
  <2>12. CASE RemoveWorkerMeta
    BY <1>1, <2>12 DEF RemoveWorkerMeta
  <2>13. CASE SaveLaunched
    <3>1. task'.worker_id = mem.worker_id
      BY <2>13 DEF SaveLaunched, TypeInv, TypeOK, TaskDoc
    <3> QED BY <1>1, <2>13, <3>1 DEF SaveLaunched, EndCycle
  <2> QED BY <1>2, <2>1, <2>2, <2>3, <2>4, <2>5, <2>6, <2>7, <2>8, <2>9,
             <2>10, <2>11, <2>12, <2>13 DEF Scheduler
<1>3. CASE UNCHANGED <<pc, mem, task, created, wid>>
  BY <1>3
<1>4. CASE \E l \in Launch : Worker(l)
  BY <1>3, <1>4, WorkerFrame DEF schedVars
<1>5. CASE Disturbance
  BY <1>3, <1>5, WorkerFrame, OrderlyFaults DEF Disturbance, EnqueueItem, schedVars
<1>6. CASE UNCHANGED vars
  BY <1>3, <1>6 DEF vars, schedVars
<1> QED BY <1>2, <1>4, <1>5, <1>6 DEF Next

\* A worker reports in its own meta or, when that is gone, in none.
LEMMA OwnMeta ==
    ASSUME TypeInv, LaunchInv, IdInv, NEW l \in Launch, Alive(l)
    PROVE  l \in 1 .. created /\ MetaOf(l) \subseteq {l}
<1>1. phase[l] # "none"
  BY DEF Alive
<1>2. l \in 1 .. created /\ 1 .. created \subseteq Launch
  BY <1>1, CrawlTaskAssumption
     DEF LaunchInv, TypeInv, TypeOK, CrawlTaskAssumption, Launch
<1> QED BY <1>2 DEF MetaOf, IdInv

LEMMA ReportStep ==
    ASSUME TypeInv, LaunchInv, IdInv, NEW l \in Launch, Report(l)
    PROVE  /\ \A k \in Launch : meta'[k].status = meta[k].status
           /\ \A k \in Launch \ {l} : meta'[k] = meta[k]
           /\ meta[l].ended => meta'[l].ended
           /\ ~ Alive(l)'
<1>1. Alive(l) /\ phase \in [Launch -> Phase]
  BY DEF Report, Alive, TypeInv, TypeOK
<1>2. l \in 1 .. created /\ MetaOf(l) \subseteq {l}
  BY <1>1, OwnMeta
<1>3. ~ Alive(l)'
  BY <1>1 DEF Report, Goto, Alive
<1>4. CASE UNCHANGED meta
  BY <1>3, <1>4
<1>5. CASE meta' = [k \in Launch |->
                      IF k \in MetaOf(l) /\ \A j \in MetaOf(l) : k <= j
                      THEN [meta[k] EXCEPT !.ended = TRUE] ELSE meta[k]]
  <2>1. /\ \A k \in Launch \ {l} : meta'[k] = meta[k]
        /\ meta'[l] = meta[l] \/ meta'[l] = [meta[l] EXCEPT !.ended = TRUE]
    BY <1>2, <1>5
  <2>2. meta[l] \in MetaDoc
    BY DEF TypeInv, TypeOK
  <2> QED BY <1>3, <2>1, <2>2 DEF MetaDoc
<1> QED BY <1>4, <1>5 DEF Report

\* The ids of a task's launches differ, so the metas removed are those meant.
LEMMA OwnMetasRemoved ==
    ASSUME IdInv, batch.remove \subseteq 1 .. created
    PROVE  RemovedMeta = batch.remove
<1>1. CASE Backend = "lambda"
  BY <1>1 DEF RemovedMeta
<1>2. CASE Backend # "lambda"
  <2>1. \A l, k \in 1 .. created : wid[l] = wid[k] => l = k
    BY DEF IdInv
  <2>2. RemovedMeta = {l \in 1 .. created : \E k \in batch.remove : wid[l] = wid[k]}
    BY <1>2 DEF RemovedMeta
  <2>3. batch.remove \subseteq RemovedMeta
    BY <2>2
  <2>4. RemovedMeta \subseteq batch.remove
    BY <2>1, <2>2
  <2> QED BY <2>3, <2>4
<1> QED BY <1>1, <1>2

\* The scheduler's loops visit and remove no meta but started ones.
LEMMA BookStep ==
    ASSUME TypeInv, LaunchInv, IdInv, BookInv, NoCrash, [Next]_vars
    PROVE  BookInv'
<1> USE DEF BookInv, Started, MetaWith, Launching
<1>a. /\ created \in Nat /\ phase \in [Launch -> Phase]
      /\ meta \in [Launch -> MetaDoc] /\ 1 .. created \subseteq Launch
      /\ Launch \subseteq Nat /\ found \subseteq Launch
  BY CrawlTaskAssumption DEF CrawlTaskAssumption, TypeInv, TypeOK, Launch
<1>1. ASSUME UNCHANGED <<meta, created>>, pc' \notin {"updating", "losing", "invoke"},
             pc' # "save" \/ batch' = batch,
             pc # "save",
             batch'.remove = batch.remove \/ batch'.remove = {},
             pc' \notin Launching => batch'.remove = {}
      PROVE  BookInv'
  BY <1>1
<1>2. CASE Scheduler
  <2>1. CASE GetTasks
    BY <1>1, <2>1 DEF GetTasks, workerVars
  <2>2. CASE CountInitial \/ CountRunning \/ CountFailed \/ RefreshStatistics
    BY <1>1, <2>2 DEF CountInitial, CountRunning, CountFailed, RefreshStatistics,
                      Count, workerVars
  <2>3. CASE CountDefinitelyFailed \/ CountCompleted
    BY <1>1, <2>3 DEF CountDefinitelyFailed, CountCompleted, workerVars
  <2>4. CASE CloseTask \/ FailTask \/ LaunchNone
    BY <1>1, <2>4 DEF CloseTask, FailTask, LaunchNone, EndCycle, NoBatch, workerVars
  <2>5. CASE FindFinished
    BY <2>5 DEF FindFinished
  <2>6. ASSUME NEW l \in Launch, CompleteMeta(l) PROVE BookInv'
    <3>1. l \in Started
      BY <2>6 DEF CompleteMeta
    <3>2. l <= created
      BY <1>a, <3>1 DEF NoMeta
    <3>3. \A k \in Launch \ {l} : meta'[k] = meta[k]
      BY <2>6, <1>a DEF CompleteMeta
    <3>4. UNCHANGED <<created, batch, pc>> /\ found' = found \ {l} /\ pc = "updating"
      BY <2>6 DEF CompleteMeta
    <3> QED BY <1>a, <3>1, <3>2, <3>3, <3>4
  <2>7. CASE SaveFinished
    BY <1>1, <2>7 DEF SaveFinished, workerVars
  <2>8. ASSUME NEW S \in SUBSET Launch, FindLost(S) PROVE BookInv'
    BY <2>8 DEF FindLost
  <2>9. ASSUME NEW l \in Launch, MarkLost(l) PROVE BookInv'
    <3>1. l \in Started
      BY <2>9 DEF MarkLost
    <3>2. l <= created
      BY <1>a, <3>1 DEF NoMeta
    <3>3. \A k \in Launch \ {l} : meta'[k] = meta[k]
      BY <2>9, <1>a DEF MarkLost
    <3>4. UNCHANGED <<created, batch, pc>> /\ found' = found \ {l} /\ pc = "losing"
      BY <2>9 DEF MarkLost
    <3> QED BY <1>a, <3>1, <3>2, <3>3, <3>4
  <2>10. CASE SaveLost
    BY <1>1, <2>10 DEF SaveLost, workerVars
  <2>11. CASE EnqueueFailed \/ \E quiet \in BOOLEAN : HealQueue(quiet)
    BY <1>1, <2>11 DEF EnqueueFailed, HealQueue, workerVars
  <2>12. CASE \E m \in Measurement : PlanLaunch(m)
    <3>1. batch'.remove = {}
      BY <2>12 DEF PlanLaunch, NoBatch
    <3> QED BY <1>1, <2>12, <3>1 DEF PlanLaunch, workerVars
  <2>13. CASE CreateMeta
    <3>1. created' = created + 1 /\ created' \in Launch
      BY <2>13, <1>a, CrawlTaskAssumption
         DEF CreateMeta, CrawlTaskAssumption, TypeInv, TypeOK, LaunchBounds, Launch
    <3>2. /\ meta' = [meta EXCEPT ![created'] = [status |-> "started", ended |-> FALSE]]
          /\ UNCHANGED <<batch, found>> /\ pc' = "invoke" /\ pc = "launch"
      BY <2>13 DEF CreateMeta
    <3>3. meta[created'].status = "none"
      BY <1>a, <3>1 DEF NoMeta
    <3>4. /\ \A k \in Launch \ {created'} : meta'[k] = meta[k]
          /\ meta'[created'].status = "started" /\ ~meta'[created'].ended
      BY <1>a, <3>1, <3>2
    <3>5. created' \notin batch.remove
      BY <3>2, <3>3
    <3>6. ASSUME NEW k \in Launch, k > created' PROVE k # created' /\ k > created
      <4>1. k \in Nat /\ created \in Nat /\ created' = created + 1
        BY <1>a, <3>1
      <4> QED BY <3>6, <4>1
    <3>7. \A k \in Launch : k > created' => meta'[k] = NoMeta
      BY <3>4, <3>6
    <3>8. batch'.remove \subseteq Started'
      BY <1>a, <3>2, <3>4
    <3> QED BY <3>1, <3>2, <3>4, <3>5, <3>7, <3>8
  <2>14. CASE Invoke
    <3>1. created \in Launch /\ pc = "invoke" /\ pc' \in {"launch", "remove_meta"}
          /\ UNCHANGED <<meta, created>>
      BY <2>14, InvokeFrame DEF TypeInv, LaunchBounds
    <3>2. batch'.remove \in {batch.remove, batch.remove \cup {created}}
      BY <2>14, InvokeBatch
    <3> QED BY <1>a, <3>1, <3>2
  <2>15. CASE RemoveWorkerMeta
    <3>1. batch.remove \subseteq 1 .. created
      BY <2>15, <1>a DEF RemoveWorkerMeta, NoMeta, Launch
    <3>2. RemovedMeta = batch.remove
      BY <3>1, OwnMetasRemoved
    <3> QED BY <2>15, <3>2, <1>a DEF RemoveWorkerMeta
  <2>16. CASE SaveLaunched
    BY <2>16 DEF SaveLaunched, EndCycle, NoBatch
  <2> QED BY <1>2, <2>1, <2>2, <2>3, <2>4, <2>5, <2>6, <2>7, <2>8, <2>9,
             <2>10, <2>11, <2>12, <2>13, <2>14, <2>15, <2>16 DEF Scheduler
<1>3. ASSUME UNCHANGED <<meta, created, pc, batch, found>> PROVE BookInv'
  BY <1>3
<1>4. ASSUME NEW l \in Launch, Report(l) PROVE BookInv'
  <2>1. UNCHANGED <<created, pc, batch, found>> /\ Alive(l)
    BY <1>4 DEF Report, schedVars, Alive
  <2>2. l <= created /\ (pc = "invoke" => l # created)
    BY <1>a, <2>1 DEF LaunchInv, Alive
  <2>3. /\ \A k \in Launch \ {l} : meta'[k] = meta[k]
        /\ Started' = Started /\ (meta[l].ended => meta'[l].ended)
    BY <1>4, ReportStep
  <2>4. \A k \in Launch : k > created' => meta'[k] = NoMeta
    BY <1>a, <2>1, <2>2, <2>3
  <2>5. pc = "invoke" => created \in Launch \ {l}
    BY <2>2 DEF TypeInv, LaunchBounds
  <2>6. \A k \in found : meta[k].ended => meta'[k].ended
    BY <1>a, <2>3
  <2> QED BY <2>1, <2>3, <2>4, <2>5, <2>6
<1>5. ASSUME NEW l \in Launch,
             \/ Worker(l) /\ ~Report(l)
             \/ \E i \in Item : ClaimLost(l, i)
             \/ WriteFails(l)
             \/ Die(l)
      PROVE  BookInv'
  <2>1. UNCHANGED meta
    BY <1>5 DEF Worker, ClaimItem, StopClaiming, Crawl, WriteItem, ClaimLost,
                WriteFails, Die
  <2>2. UNCHANGED <<created, pc, batch, found>>
    BY <1>5, WorkerFrame DEF schedVars
  <2> QED BY <1>3, <2>1, <2>2
<1>6. CASE \E l \in Launch : Worker(l)
  BY <1>4, <1>5, <1>6
<1>7. CASE Disturbance
  <2>1. CASE \E l \in Launch, i \in Item : EnqueueItem(l, i)
    BY <1>3, <2>1 DEF EnqueueItem, schedVars
  <2> QED BY <1>5, <1>7, <2>1, OrderlyFaults DEF Disturbance
<1>8. CASE UNCHANGED vars
  BY <1>3, <1>8 DEF vars, schedVars
<1> QED BY <1>2, <1>6, <1>7, <1>8 DEF Next

\* No living worker's meta is taken away.
LEMMA AliveStep ==
    ASSUME TypeInv, LaunchInv, IdInv, BookInv, AliveInv, Orderly, [Next]_vars
    PROVE  AliveInv'
<1> USE DEF AliveInv, Started, MetaWith, Launching, Orderly
<1>a. /\ created \in Nat /\ phase \in [Launch -> Phase]
      /\ meta \in [Launch -> MetaDoc] /\ 1 .. created \subseteq Launch
      /\ Launch \subseteq Nat /\ found \subseteq Launch
  BY CrawlTaskAssumption DEF CrawlTaskAssumption, TypeInv, TypeOK, Launch
<1>1. ASSUME UNCHANGED <<meta, phase>>, pc' # "losing",
             batch'.remove \subseteq batch.remove
      PROVE  AliveInv'
  BY <1>1 DEF Alive
<1>2. ASSUME NEW l \in Launch, ~Alive(l), UNCHANGED <<phase, batch, pc>>,
             found' = found \ {l},
             \A k \in Launch \ {l} : meta'[k] = meta[k]
      PROVE  AliveInv'
  BY <1>2 DEF Alive
<1>3. CASE Scheduler
  <2>1. CASE \/ GetTasks \/ CountInitial \/ CountRunning \/ CountFailed
             \/ RefreshStatistics \/ CountDefinitelyFailed \/ CountCompleted
    BY <1>1, <2>1 DEF GetTasks, CountInitial, CountRunning, CountFailed,
                      RefreshStatistics, Count, CountDefinitelyFailed, CountCompleted,
                      workerVars
  <2>2. CASE CloseTask \/ FailTask \/ LaunchNone \/ SaveLaunched
    BY <1>1, <2>2 DEF CloseTask, FailTask, LaunchNone, SaveLaunched, EndCycle,
                      NoBatch, workerVars
  <2>3. CASE FindFinished \/ SaveFinished \/ SaveLost
    BY <1>1, <2>3 DEF FindFinished, SaveFinished, SaveLost, workerVars
  <2>4. ASSUME NEW l \in Launch, CompleteMeta(l) \/ MarkLost(l) PROVE AliveInv'
    <3>1. ~Alive(l)
      BY <2>4 DEF CompleteMeta, MarkLost, BookInv
    <3> QED BY <1>a, <1>2, <2>4, <3>1 DEF CompleteMeta, MarkLost, workerVars
  <2>5. ASSUME NEW S \in SUBSET Launch, FindLost(S) PROVE AliveInv'
    BY <2>5, OrderlyFaults DEF FindLost, workerVars, Alive
  <2>6. CASE EnqueueFailed \/ \E quiet \in BOOLEAN : HealQueue(quiet)
    BY <1>1, <2>6 DEF EnqueueFailed, HealQueue, workerVars
  <2>7. CASE \E m \in Measurement : PlanLaunch(m)
    <3>1. batch'.remove = {}
      BY <2>7 DEF PlanLaunch, NoBatch
    <3> QED BY <1>1, <2>7, <3>1 DEF PlanLaunch, workerVars
  <2>8. CASE CreateMeta
    <3>1. created' = created + 1 /\ created' \in Launch
      BY <2>8, <1>a, CrawlTaskAssumption
         DEF CreateMeta, CrawlTaskAssumption, TypeInv, TypeOK, LaunchBounds, Launch
    <3>2. /\ UNCHANGED <<phase, batch>> /\ pc' = "invoke" /\ phase[created'] = "none"
          /\ \A k \in Launch \ {created'} : meta'[k] = meta[k]
      BY <2>8, <1>a, <3>1 DEF CreateMeta, workerVars, LaunchInv
    <3> QED BY <3>1, <3>2 DEF Alive
  <2>9. CASE Invoke
    <3>1. /\ created \in Launch /\ pc = "invoke" /\ pc' \in {"launch", "remove_meta"}
          /\ UNCHANGED <<meta, created>>
      BY <2>9, InvokeFrame DEF TypeInv, LaunchBounds
    <3>2. CASE /\ phase' = [phase EXCEPT ![created] = "claiming"]
               /\ batch'.remove = batch.remove
      BY <1>a, <3>1, <3>2 DEF Alive, BookInv
    <3>3. CASE /\ phase' = [phase EXCEPT ![created] = "gone"]
               /\ batch'.remove = batch.remove \cup {created}
      BY <1>a, <3>1, <3>3 DEF Alive
    <3> QED BY <2>9, <3>2, <3>3, OrderlyInvoke
  <2>10. CASE RemoveWorkerMeta
    <3>1. batch.remove \subseteq 1 .. created
      BY <2>10, <1>a DEF RemoveWorkerMeta, BookInv, NoMeta, Launch
    <3>2. RemovedMeta = batch.remove
      BY <3>1, OwnMetasRemoved
    <3> QED BY <2>10, <3>2, <1>a DEF RemoveWorkerMeta, workerVars, Alive
  <2> QED BY <1>3, <2>1, <2>2, <2>3, <2>4, <2>5, <2>6, <2>7, <2>8, <2>9, <2>10
          DEF Scheduler
<1>4. ASSUME UNCHANGED <<pc, batch, found>>, NEW l \in Launch, Alive(l)' => Alive(l),
             UNCHANGED meta \/ (~ Alive(l)' /\ \A k \in Launch \ {l} : meta'[k] = meta[k]),
             \A k \in Launch \ {l} : phase'[k] = phase[k]
      PROVE  AliveInv'
  <2>1. \A k \in Launch : Alive(k)' => Alive(k) /\ meta'[k] = meta[k]
    BY <1>4 DEF Alive
  <2> QED BY <1>a, <1>4, <2>1
<1>5. ASSUME NEW l \in Launch,
             \/ Worker(l)
             \/ \E i \in Item : ClaimLost(l, i)
             \/ WriteFails(l)
             \/ Die(l)
      PROVE  AliveInv'
  <2>1. /\ UNCHANGED <<pc, batch, found>> /\ Alive(l)
        /\ \A k \in Launch \ {l} : phase'[k] = phase[k]
    BY <1>5, WorkerFrame DEF schedVars
  <2>2. CASE Report(l)
    BY <1>4, <2>1, <2>2, ReportStep
  <2>3. CASE ~Report(l)
    <3>1. UNCHANGED meta
      BY <1>5, <2>3 DEF Worker, ClaimItem, StopClaiming, Crawl, WriteItem, ClaimLost,
                        WriteFails, Die
    <3> QED BY <1>4, <2>1, <3>1
  <2> QED BY <2>2, <2>3
<1>6. CASE Disturbance
  <2>1. CASE \E l \in Launch, i \in Item : EnqueueItem(l, i)
    BY <2>1 DEF EnqueueItem, schedVars, workerVars, Alive
  <2> QED BY <1>5, <1>6, <2>1, OrderlyFaults DEF Disturbance
<1>7. CASE UNCHANGED vars
  BY <1>7 DEF vars, schedVars, workerVars, Alive
<1> QED BY <1>3, <1>5, <1>6, <1>7 DEF Next

\* A started meta that takes another status leaves the counted ones.
LEMMA StartedLess ==
    ASSUME TypeInv, NEW l \in Started, NEW st, st # "started",
           meta' = [meta EXCEPT ![l].status = st]
    PROVE  /\ Cardinality(Started') = Cardinality(Started) - 1
           /\ Cardinality(Started) > 0
<1>1. meta \in [Launch -> MetaDoc] /\ l \in Launch
  BY DEF TypeInv, TypeOK, Started, MetaWith
<1>2. Started' = Started \ {l}
  BY <1>1 DEF Started, MetaWith, MetaDoc
<1>3. Cardinality(Started \ {l}) = Cardinality(Started) - 1 /\ Cardinality(Started) \in Nat
  BY StartedFinite, FS_RemoveElement
<1>4. IsFiniteSet(Started \ {l})
  BY StartedFinite, FS_RemoveElement
<1>5. Cardinality(Started \ {l}) \in Nat
  BY <1>4, FS_CardinalityType
<1> QED BY <1>2, <1>3, <1>5

LEMMA CounterStep ==
    ASSUME TypeInv, LaunchInv, IdInv, BookInv, CounterInv, NoCrash, [Next]_vars
    PROVE  CounterInv'
<1> USE DEF CounterInv, Launching
<1>a. /\ mem \in TaskDoc /\ task \in TaskDoc /\ meta \in [Launch -> MetaDoc]
      /\ batch \in [left : Nat, acked : Nat, remove : SUBSET Launch]
      /\ mem.running \in Nat /\ task.running \in Nat /\ batch.acked \in Nat
  BY DEF TypeInv, TypeOK, TaskDoc
<1>b. Cardinality(Started) \in Nat /\ IsFiniteSet(Started)
  BY StartedFinite
<1>c. pc # "save" => IsFiniteSet(batch.remove) /\ Cardinality(batch.remove) \in Nat
  BY <1>b, FS_Subset, FS_CardinalityType DEF BookInv
<1>1. ASSUME UNCHANGED meta, mem'.running = mem.running,
             pc \notin Launching, pc' \notin Launching,
             pc' \notin {"updating", "losing"} => task'.running = mem.running
      PROVE  CounterInv'
  BY <1>1 DEF Started, MetaWith
<1>2. CASE Scheduler
  <2>1. CASE GetTasks
    BY <1>1, <2>1 DEF GetTasks
  <2>2. CASE CountInitial \/ CountRunning \/ CountFailed \/ RefreshStatistics
    BY <1>1, <2>2 DEF CountInitial, CountRunning, CountFailed, RefreshStatistics, Count
  <2>3. CASE CountDefinitelyFailed \/ CountCompleted
    BY <1>1, <2>3 DEF CountDefinitelyFailed, CountCompleted
  <2>4. CASE CloseTask \/ FailTask \/ LaunchNone
    <3>1. mem'.running = task.running /\ task'.running = task.running
      BY <1>a, <2>4 DEF CloseTask, FailTask, LaunchNone, EndCycle, TaskDoc
    <3> QED BY <1>1, <2>4, <3>1 DEF CloseTask, FailTask, LaunchNone, EndCycle
  <2>5. CASE FindFinished \/ \E S \in SUBSET Launch : FindLost(S)
    BY <1>1, <2>5 DEF FindFinished, FindLost
  <2>6. ASSUME NEW l \in Launch, CompleteMeta(l) \/ MarkLost(l) PROVE CounterInv'
    <3>1. /\ l \in Started /\ UNCHANGED <<task, pc>> /\ pc \in {"updating", "losing"}
          /\ \E st \in {"completed", "lost"} : meta' = [meta EXCEPT ![l].status = st]
      BY <2>6 DEF CompleteMeta, MarkLost, BookInv
    <3>2. Cardinality(Started') = Cardinality(Started) - 1 /\ Cardinality(Started) > 0
      BY <3>1, StartedLess
    <3>3. mem.running > 0 => mem'.running = mem.running - 1
      BY <1>a, <2>6 DEF CompleteMeta, MarkLost, OneWorkerLess, OneWorkerLost, TaskDoc
    <3> QED BY <1>a, <1>b, <3>1, <3>2, <3>3
  <2>7. CASE SaveFinished \/ SaveLost
    <3>1. task'.running = mem.running
      BY <1>a, <2>7 DEF SaveFinished, SaveLost, SaveCounters, TaskDoc
    <3> QED BY <1>1, <2>7, <3>1 DEF SaveFinished, SaveLost
  <2>8. CASE EnqueueFailed \/ \E quiet \in BOOLEAN : HealQueue(quiet)
    BY <1>1, <2>8 DEF EnqueueFailed, HealQueue
  <2>9. CASE \E m \in Measurement : PlanLaunch(m)
    <3>1. /\ batch'.acked = 0 /\ batch'.remove = {} /\ pc = "health" /\ pc' = "launch"
          /\ UNCHANGED <<mem, task, meta>>
      BY <2>9 DEF PlanLaunch, NoBatch
    <3>2. Cardinality(batch'.remove) = 0
      BY <3>1, FS_EmptySet
    <3> QED BY <1>a, <3>1, <3>2 DEF Started, MetaWith
  <2>10. CASE CreateMeta
    <3>1. created' \in Launch /\ created' > created
      BY <2>10, CrawlTaskAssumption
         DEF CreateMeta, CrawlTaskAssumption, TypeInv, TypeOK, LaunchBounds, Launch
    <3>2. Started' = Started \cup {created'} /\ created' \notin Started
      BY <1>a, <2>10, <3>1 DEF CreateMeta, BookInv, NoMeta, Started, MetaWith
    <3>3. Cardinality(Started') = Cardinality(Started) + 1
      BY <1>b, <3>2, FS_AddElement
    <3>4. UNCHANGED <<mem, task, batch>> /\ pc = "launch" /\ pc' = "invoke"
      BY <2>10 DEF CreateMeta
    <3> QED BY <1>a, <1>b, <1>c, <3>3, <3>4
  <2>11. CASE Invoke
    <3>1. /\ UNCHANGED <<task, meta>> /\ pc = "invoke" /\ pc' \in {"launch", "remove_meta"}
          /\ mem'.running = mem.running
      BY <1>a, <2>11, InvokeFrame, InvokeBatch DEF NextWorkerId, TaskDoc
    <3>2. Cardinality(batch.remove \cup {created}) = Cardinality(batch.remove) + 1
      BY <1>c, <3>1, FS_AddElement DEF BookInv
    <3>3. /\ batch'.acked + Cardinality(batch'.remove)
                = batch.acked + Cardinality(batch.remove) + 1
          /\ batch'.acked \in Nat /\ Cardinality(batch'.remove) \in Nat
      <4>1. CASE batch'.acked = batch.acked + 1 /\ batch'.remove = batch.remove
        BY <1>a, <1>c, <3>1, <4>1
      <4>2. CASE /\ batch'.acked = batch.acked + 0
                 /\ batch'.remove = batch.remove \cup {created}
        BY <1>a, <1>c, <3>1, <3>2, <4>2
      <4> QED BY <2>11, <4>1, <4>2, InvokeBatch
    <3>4. Started' = Started
      BY <3>1 DEF Started, MetaWith
    <3>5. mem.running + (batch'.acked + Cardinality(batch'.remove)) = Cardinality(Started)
      BY <1>a, <1>b, <1>c, <3>1, <3>3
    <3> QED BY <1>a, <1>b, <3>1, <3>3, <3>4, <3>5
  <2>12. CASE RemoveWorkerMeta
    <3>1. batch.remove \subseteq Started /\ batch.remove \subseteq 1 .. created
      BY <2>12, CrawlTaskAssumption
         DEF RemoveWorkerMeta, BookInv, NoMeta, Started, MetaWith, Launch,
             TypeInv, TypeOK, CrawlTaskAssumption
    <3>2. RemovedMeta = batch.remove
      BY <3>1, OwnMetasRemoved
    <3>3. Started' = Started \ batch.remove
      BY <1>a, <2>12, <3>2 DEF RemoveWorkerMeta, NoMeta, Started, MetaWith
    <3>4. Started \cap batch.remove = batch.remove
      BY <3>1
    <3>5. Cardinality(Started \ batch.remove)
             = Cardinality(Started) - Cardinality(Started \cap batch.remove)
      BY <1>b, FS_Difference
    <3>6. Cardinality(Started') = Cardinality(Started) - Cardinality(batch.remove)
      BY <3>3, <3>4, <3>5
    <3>7. UNCHANGED <<mem, task, batch>> /\ pc = "remove_meta" /\ pc' = "save"
      BY <2>12 DEF RemoveWorkerMeta
    <3> QED BY <1>a, <1>b, <1>c, <3>6, <3>7
  <2>13. CASE SaveLaunched
    <3>1. task'.running = mem.running + batch.acked
      BY <1>a, <2>13 DEF SaveLaunched, TaskDoc
    <3>2. mem' = task' /\ pc = "save" /\ pc' = "idle" /\ Started' = Started
      BY <2>13 DEF SaveLaunched, EndCycle, Started, MetaWith
    <3> QED BY <3>1, <3>2
  <2> QED BY <1>2, <2>1, <2>2, <2>3, <2>4, <2>5, <2>6, <2>7, <2>8, <2>9,
             <2>10, <2>11, <2>12, <2>13 DEF Scheduler
<1>3. ASSUME UNCHANGED <<pc, mem, task, batch>>, Started' = Started PROVE CounterInv'
  BY <1>3
<1>4. ASSUME NEW l \in Launch,
             \/ Worker(l)
             \/ \E i \in Item : ClaimLost(l, i)
             \/ WriteFails(l)
             \/ Die(l)
      PROVE  CounterInv'
  <2>1. Report(l) => Started' = Started
    BY ReportStep DEF Started, MetaWith
  <2>2. Started' = Started
    BY <1>4, <2>1
       DEF Worker, ClaimItem, StopClaiming, Crawl, WriteItem, ClaimLost, WriteFails,
           Die, Started, MetaWith
  <2> QED BY <1>3, <1>4, <2>2, WorkerFrame DEF schedVars
<1>5. CASE Disturbance
  BY <1>3, <1>4, <1>5, OrderlyFaults
     DEF Disturbance, EnqueueItem, schedVars, Started, MetaWith
<1>6. CASE UNCHANGED vars
  BY <1>3, <1>6 DEF vars, schedVars, Started, MetaWith
<1> QED BY <1>2, <1>4, <1>5, <1>6 DEF Next

\* Fewer workers stay within the rate, too.
LEMMA FewerInRate ==
    ASSUME NEW n \in Nat, InRate(n), NEW k \in Nat, k <= n
    PROVE  InRate(k)
<1>1. CASE n <= 1
  BY <1>1 DEF InRate
<1>2. CASE n > 1
  <2>1. PICK m \in Measurement :
           n * WorkerSpeed(m, WorkerClass).num
              <= MaxItemsPerSecond * WorkerSpeed(m, WorkerClass).den
    BY <1>2 DEF InRate
  <2> DEFINE x == WorkerSpeed(m, WorkerClass).num
             y == MaxItemsPerSecond * WorkerSpeed(m, WorkerClass).den
  <2>2. x \in Nat /\ y \in Nat
    BY SpeedsArePositive, Product, CrawlTaskAssumption
       DEF CrawlTaskAssumption, FractionOfSpeed
  <2>3. n * x <= y
    BY <2>1
  <2> HIDE DEF x, y
  <2>4. k * x <= n * x
    BY <2>2
  <2>5. k * x <= y
    BY <2>2, <2>3, <2>4
  <2> QED BY <2>5 DEF InRate, x, y
<1> QED BY <1>1, <1>2

LEMMA RateInit == ASSUME Init PROVE RateInv
<1>1. Started = {} /\ Cardinality(Started) = 0
  BY FS_EmptySet DEF Init, Started, MetaWith, NoMeta
<1> QED BY <1>1 DEF Init, RateInv, InRate

LEMMA RateStep ==
    ASSUME TypeInv, LaunchInv, IdInv, BookInv, CounterInv, RateInv, NoCrash, [Next]_vars,
           TypeInv', CounterInv'
    PROVE  RateInv'
<1>a. /\ mem \in TaskDoc /\ meta \in [Launch -> MetaDoc]
      /\ batch \in [left : Nat, acked : Nat, remove : SUBSET Launch]
      /\ mem.running \in Nat /\ batch.acked \in Nat /\ batch.left \in Nat
      /\ batch'.left \in Nat /\ batch'.acked \in Nat /\ mem'.running \in Nat
  BY DEF TypeInv, TypeOK, TaskDoc
<1>b. Cardinality(Started) \in Nat /\ IsFiniteSet(Started)
  BY StartedFinite
<1>c. pc \in {"launch", "invoke"} =>
         IsFiniteSet(batch.remove) /\ Cardinality(batch.remove) \in Nat
  BY <1>b, FS_Subset, FS_CardinalityType DEF BookInv
<1>1. ASSUME Started' \subseteq Started, pc' \notin {"launch", "invoke"} PROVE RateInv'
  <2>1. Cardinality(Started') \in Nat /\ Cardinality(Started') <= Cardinality(Started)
    BY <1>b, <1>1, FS_Subset, FS_CardinalityType
  <2> QED BY <1>b, <1>1, <2>1, FewerInRate DEF RateInv, InRate
<1>2. ASSUME Started' = Started, UNCHANGED <<pc, mem, batch>> PROVE RateInv'
  BY <1>2 DEF RateInv, InRate, Planned
<1>3. ASSUME NEW m \in Measurement, PlanLaunch(m) PROVE RateInv'
  <2> DEFINE most == MaxWorkersConcurrentlyRunning(MaxItemsPerSecond, m, WorkerClass)
  <2>1. /\ ToLaunch(m) \in Nat /\ ToLaunch(m) > 0 /\ mem.running + ToLaunch(m) <= most
        /\ most \in Nat /\ InRate(most)
    BY <1>3, ToLaunchType, WorkersMeasured DEF TypeInv, PlanLaunch
  <2> HIDE DEF most
  <2>2. /\ batch'.acked = 0 /\ batch'.remove = {} /\ mem' = mem /\ Started' = Started
        /\ batch'.left <= ToLaunch(m)
    <3>1. created \in Nat /\ MaxLaunch \in Nat
      BY CrawlTaskAssumption DEF CrawlTaskAssumption, TypeInv, TypeOK
    <3> QED BY <1>3, <2>1, <3>1 DEF PlanLaunch, NoBatch, Started, MetaWith
  <2>3. Cardinality(batch'.remove) = 0
    BY <2>2, FS_EmptySet
  <2>4. Planned' = mem.running + batch'.left
    BY <1>a, <2>2, <2>3 DEF Planned
  <2>5. InRate(mem.running + batch'.left)
    BY <1>a, <2>1, <2>2, FewerInRate
  <2> QED BY <2>2, <2>4, <2>5 DEF RateInv, InRate
<1>4. CASE CreateMeta
  <2>1. /\ UNCHANGED <<mem, batch>> /\ pc = "launch" /\ pc' = "invoke" /\ batch.left > 0
    BY <1>4 DEF CreateMeta
  <2>2. Planned' = Planned /\ Planned \in Nat /\ InRate(Planned)
    BY <1>a, <1>c, <2>1 DEF Planned, RateInv
  <2>3. mem.running + batch.acked + Cardinality(batch.remove) + 1 = Cardinality(Started')
    BY <2>1 DEF CounterInv
  <2>4. Cardinality(Started') \in Nat /\ Cardinality(Started') <= Planned
    BY <1>a, <1>c, <2>1, <2>3 DEF Planned
  <2> QED BY <2>1, <2>2, <2>4, FewerInRate DEF RateInv, InRate
<1>5. CASE Invoke
  <2>1. /\ UNCHANGED meta /\ pc = "invoke" /\ pc' \in {"launch", "remove_meta"}
        /\ mem'.running = mem.running /\ batch.left > 0
    BY <1>a, <1>5, InvokeFrame, InvokeBatch
       DEF NextWorkerId, TaskDoc, TypeInv, LaunchBounds
  <2>2. batch'.left <= batch.left - 1
    BY <1>a, <1>5, <2>1 DEF Invoke
  <2>3. Started' = Started
    BY <2>1 DEF Started, MetaWith
  <2>4. CASE pc' = "launch"
    <3>1. /\ mem.running + batch.acked + Cardinality(batch.remove) + 1
                = Cardinality(Started)
          /\ mem.running + batch'.acked + Cardinality(batch'.remove)
                = Cardinality(Started)
      BY <2>1, <2>3, <2>4 DEF CounterInv
    <3>2. Planned' = Cardinality(Started) + batch'.left
      BY <2>1, <3>1 DEF Planned
    <3>3. Planned = Cardinality(Started) - 1 + batch.left
      BY <1>a, <1>b, <1>c, <2>1, <3>1 DEF Planned
    <3>4. Planned' \in Nat /\ Planned \in Nat /\ Planned' <= Planned
      BY <1>a, <1>b, <2>1, <2>2, <3>2, <3>3
    <3>5. InRate(Planned')
      BY <2>1, <3>4, FewerInRate DEF RateInv
    <3> QED BY <2>3, <3>5 DEF RateInv, InRate
  <2> QED BY <1>1, <2>1, <2>3, <2>4
<1>6. CASE Scheduler
  <2>1. CASE GetTasks
    BY <1>1, <2>1 DEF GetTasks, Started, MetaWith
  <2>2. CASE CountInitial \/ CountRunning \/ CountFailed \/ RefreshStatistics
    BY <1>1, <2>2 DEF CountInitial, CountRunning, CountFailed, RefreshStatistics, Count,
                      Started, MetaWith
  <2>3. CASE CountDefinitelyFailed \/ CountCompleted
    BY <1>1, <2>3 DEF CountDefinitelyFailed, CountCompleted, Started, MetaWith
  <2>4. CASE CloseTask \/ FailTask \/ LaunchNone
    BY <1>1, <2>4 DEF CloseTask, FailTask, LaunchNone, EndCycle, Started, MetaWith
  <2>5. CASE FindFinished \/ \E S \in SUBSET Launch : FindLost(S)
    BY <1>1, <2>5 DEF FindFinished, FindLost, Started, MetaWith
  <2>6. ASSUME NEW l \in Launch, CompleteMeta(l) \/ MarkLost(l) PROVE RateInv'
    <3>1. /\ pc' \in {"updating", "losing"}
          /\ \E st \in {"completed", "lost"} : meta' = [meta EXCEPT ![l].status = st]
      BY <2>6 DEF CompleteMeta, MarkLost
    <3>2. Started' \subseteq Started
      BY <1>a, <3>1 DEF Started, MetaWith
    <3> QED BY <1>1, <3>1, <3>2
  <2>7. CASE SaveFinished \/ SaveLost
    BY <1>1, <2>7 DEF SaveFinished, SaveLost, Started, MetaWith
  <2>8. CASE EnqueueFailed \/ \E quiet \in BOOLEAN : HealQueue(quiet)
    BY <1>1, <2>8 DEF EnqueueFailed, HealQueue, Started, MetaWith
  <2>9. CASE RemoveWorkerMeta
    <3>1. Started' \subseteq Started
      BY <1>a, <2>9 DEF RemoveWorkerMeta, NoMeta, Started, MetaWith
    <3> QED BY <1>1, <2>9, <3>1 DEF RemoveWorkerMeta
  <2>10. CASE SaveLaunched
    BY <1>1, <2>10 DEF SaveLaunched, EndCycle, Started, MetaWith
  <2> QED BY <1>3, <1>4, <1>5, <1>6, <2>1, <2>2, <2>3, <2>4, <2>5, <2>6, <2>7, <2>8,
             <2>9, <2>10 DEF Scheduler
<1>7. ASSUME NEW l \in Launch,
             \/ Worker(l)
             \/ \E i \in Item : ClaimLost(l, i)
             \/ WriteFails(l)
             \/ Die(l)
      PROVE  RateInv'
  <2>1. Report(l) => Started' = Started
    BY ReportStep DEF Started, MetaWith
  <2>2. Started' = Started
    BY <1>7, <2>1
       DEF Worker, ClaimItem, StopClaiming, Crawl, WriteItem, ClaimLost, WriteFails,
           Die, Started, MetaWith
  <2> QED BY <1>2, <1>7, <2>2, WorkerFrame DEF schedVars
<1>8. CASE Disturbance
  BY <1>2, <1>7, <1>8, OrderlyFaults
     DEF Disturbance, EnqueueItem, schedVars, Started, MetaWith
<1>9. CASE UNCHANGED vars
  BY <1>2, <1>9 DEF vars, schedVars, Started, MetaWith
<1> QED BY <1>6, <1>7, <1>8, <1>9 DEF Next

\* When the scheduler heals, no worker has anything left to write.
LEMMA HealFindsNoClaim ==
    ASSUME TypeInv, LaunchInv, AliveInv, CounterInv, pc = "heal", mem.running = 0
    PROVE  \A l \in Launch : held[l] = {}
<1>1. Cardinality(Started) = 0
  BY DEF CounterInv, Launching
<1>2. Started = {}
  BY <1>1, StartedFinite, FS_EmptySet
<1>3. \A l \in Launch : ~Alive(l)
  BY <1>2 DEF AliveInv
<1> QED BY <1>3 DEF Alive, LaunchInv

LEMMA ClaimStep ==
    ASSUME TypeInv, LaunchInv, AliveInv, CounterInv, ClaimInv, [Next]_vars
    PROVE  ClaimInv'
<1> USE DEF ClaimInv, ExclusiveClaim
<1>a. /\ queue \in [Item -> QueueDoc] /\ held \in [Launch -> SUBSET Item]
  BY DEF TypeInv, TypeOK
<1>b. ASSUME NEW S, NEW st
      PROVE  /\ \A i \in Item : SetStatus(queue, S, st)[i].status =
                                  IF i \in S THEN st ELSE queue[i].status
             /\ \A i \in Item \ S : InsertItems(queue, S)[i] = queue[i]
  BY <1>a DEF SetStatus, InsertItems, QueueDoc
<1>1. CASE UNCHANGED <<queue, held>>
  BY <1>1
<1>2. CASE Scheduler
  <2>1. CASE CreateMeta \/ Invoke
    BY <1>1, <2>1, InvokeFrame DEF CreateMeta, workerVars
  <2>2. ASSUME NEW quiet \in BOOLEAN, HealQueue(quiet) PROVE ClaimInv'
    <3>1. CASE queue' = queue
      BY <1>1, <2>2, <3>1 DEF HealQueue, workerVars
    <3>2. CASE queue' # queue
      <4>1. \A l \in Launch : held[l] = {}
        BY <2>2, <3>2, HealFindsNoClaim DEF HealQueue, MayHeal
      <4> QED BY <2>2, <4>1 DEF HealQueue, workerVars
    <3> QED BY <3>1, <3>2
  <2>3. CASE EnqueueFailed
    <3>1. \A i \in Item : queue[i].status = "running" => queue'[i].status = "running"
      BY <1>b, <2>3 DEF EnqueueFailed, EnqueueFailedItems, Retriable, WithStatus
    <3> QED BY <1>a, <2>3, <3>1 DEF EnqueueFailed, workerVars
  <2> QED BY <1>1, <1>2, <2>1, <2>2, <2>3, SchedulerFrame
<1>3. ASSUME NEW l \in Launch, NEW i \in Item, ClaimItem(l, i) PROVE ClaimInv'
  <2>1. queue[i].status = "initial"
    BY <1>3 DEF ClaimItem, Claimable, WithStatus
  <2>2. \A k \in Launch : i \notin held[k]
    BY <2>1
  <2>3. \A j \in Item : queue'[j].status = IF j = i THEN "running" ELSE queue[j].status
    BY <1>3, <1>b DEF ClaimItem, TakeItem
  <2>4. held' = [held EXCEPT ![l] = held[l] \cup {i}]
    BY <1>3 DEF ClaimItem
  <2> QED BY <1>a, <2>2, <2>3, <2>4
<1>4. ASSUME NEW l \in Launch, NEW i \in Item, ClaimLost(l, i) PROVE ClaimInv'
  <2>1. \A j \in Item : queue'[j].status = IF j = i THEN "running" ELSE queue[j].status
    BY <1>4, <1>b DEF ClaimLost, TakeItem
  <2> QED BY <1>a, <1>4, <2>1 DEF ClaimLost
<1>5. ASSUME NEW l \in Launch, NEW i \in Item, WriteItem(l, i) PROVE ClaimInv'
  <2>1. \A j \in Item \ {i} : queue'[j] = queue[j]
    BY <1>a, <1>5 DEF WriteItem, OverwriteItem
  <2>2. i \in held[l] /\ held' = [held EXCEPT ![l] = held[l] \ {i}]
    BY <1>5 DEF WriteItem
  <2> QED BY <1>a, <2>1, <2>2
<1>6. ASSUME NEW l \in Launch, NEW i \in Item, EnqueueItem(l, i) PROVE ClaimInv'
  <2>1. queue[i].status = "absent" /\ \A j \in Item \ {i} : queue'[j] = queue[j]
    BY <1>6, <1>b DEF EnqueueItem
  <2> QED BY <1>a, <1>6, <2>1 DEF EnqueueItem, workerVars
<1>7. ASSUME NEW l \in Launch, WriteFails(l) \/ Die(l) PROVE ClaimInv'
  BY <1>a, <1>7 DEF WriteFails, Die, Drop
<1>8. CASE \E l \in Launch : StopClaiming(l) \/ Crawl(l) \/ Report(l)
  BY <1>1, <1>8 DEF StopClaiming, Crawl, Report
<1>9. CASE Crash \/ UNCHANGED vars
  BY <1>1, <1>9 DEF Crash, vars, workerVars
<1> QED BY <1>2, <1>3, <1>4, <1>5, <1>6, <1>7, <1>8, <1>9
        DEF Next, Worker, Disturbance

\* What holds as long as the scheduler does not restart.
BookAll == TypeInv /\ LaunchInv /\ IdInv /\ BookInv /\ CounterInv /\ RateInv

\* What else holds when no answer is lost and no worker is late.
OrderAll == BookAll /\ AliveInv /\ ClaimInv

LEMMA OrderInit == Init => OrderAll
<1> SUFFICES ASSUME Init
             PROVE  LaunchInv /\ IdInv /\ BookInv /\ CounterInv /\ AliveInv /\ ClaimInv
  BY InitType, RateInit DEF OrderAll, BookAll
<1>1. Started = {} /\ Cardinality(Started) = 0
  BY FS_EmptySet DEF Init, Started, MetaWith, NoMeta
<1>2. \A l \in Launch : l > created /\ ~Alive(l)
  BY CrawlTaskAssumption DEF Init, Alive, Launch, CrawlTaskAssumption
<1>3. 1 .. created = {}
  BY DEF Init
<1> QED BY <1>1, <1>2, <1>3
        DEF Init, LaunchInv, IdInv, BookInv, AliveInv, CounterInv, ClaimInv,
            ExclusiveClaim, Launching, NoBatch

LEMMA BookKeeps == NoCrash /\ BookAll /\ [Next]_vars => BookAll'
BY TypeStep, LaunchStep, IdStep, BookStep, CounterStep, RateStep DEF BookAll

LEMMA BookCorrect == ASSUME NoCrash PROVE Spec => []BookAll
BY OrderInit, BookKeeps, PTL DEF Spec, OrderAll

LEMMA OrderStep == Orderly /\ OrderAll /\ [Next]_vars => OrderAll'
BY BookKeeps, AliveStep, ClaimStep DEF OrderAll, BookAll, Orderly

LEMMA OrderCorrect == ASSUME Orderly PROVE Spec => []OrderAll
BY OrderInit, OrderStep, PTL DEF Spec

\* A claimed item belongs to one worker until it is written back, whatever
\* workers die, invocations are refused, database calls fail and items join.
THEOREM ClaimsAreExclusive == ASSUME Orderly PROVE Spec => []ExclusiveClaim
<1>1. OrderAll => ExclusiveClaim
  BY DEF OrderAll, ClaimInv
<1> QED BY <1>1, OrderCorrect, PTL

\* The synchronization counter is exact between two cycles, even when answers are
\* lost and workers report after they were given up: only a restart makes it drift.
THEOREM CounterIsExact == ASSUME NoCrash PROVE Spec => []CounterMatchesMeta
<1>1. BookAll => CounterMatchesMeta
  BY DEF BookAll, CounterInv, CounterMatchesMeta, Launching, Started
<1> QED BY <1>1, BookCorrect, PTL

\* No two launches share a worker id, unless the scheduler restarts.
THEOREM IdsAreUnique == ASSUME NoCrash PROVE Spec => []WorkerIdsUnique
<1>1. BookAll => WorkerIdsUnique
  BY DEF BookAll, IdInv, WorkerIdsUnique
<1> QED BY <1>1, BookCorrect, PTL

\* As many workers as the metas in state started show keep the rate of the task,
\* whatever becomes of answers and workers.
MetasKeepRate == InRate(Cardinality(Started))

THEOREM StartedInRate == ASSUME NoCrash PROVE Spec => []MetasKeepRate
<1>1. BookAll => MetasKeepRate
  BY DEF BookAll, RateInv, MetasKeepRate
<1> QED BY <1>1, BookCorrect, PTL

\* The workers of a task never crawl faster together than it allows.
THEOREM RateIsKept == ASSUME Orderly PROVE Spec => []RateKept
<1>1. OrderAll => RateKept
  <2> SUFFICES ASSUME OrderAll PROVE RateKept
    OBVIOUS
  <2> DEFINE Running == {l \in Launch : Alive(l)}
  <2>1. Running \subseteq Started /\ IsFiniteSet(Started) /\ Cardinality(Started) \in Nat
    BY StartedFinite DEF OrderAll, AliveInv
  <2>2. Cardinality(Running) \in Nat /\ Cardinality(Running) <= Cardinality(Started)
    BY <2>1, FS_Subset, FS_CardinalityType
  <2>3. InRate(Cardinality(Running))
    BY <2>1, <2>2, FewerInRate DEF OrderAll, BookAll, RateInv
  <2> QED BY <2>3 DEF RateKept
<1> QED BY <1>1, OrderCorrect, PTL

\* Metas that stay until their items are looked after: those of the batch whose
\* invocation failed are removed.
Unsure == batch.remove \cup (IF pc = "invoke" THEN {created} ELSE {})

Reasons == (Started \ Unsure) \cup MetaWith("completed")

\* A running item has a reason to be looked after, and so has a living worker, the
\* one who was given up too early included.
RepairInv ==
    /\ WithStatus(queue, "running") # {} => mem.lost > 0 \/ Reasons # {}
    /\ \A l \in Launch : Alive(l) => mem.lost > 0 \/ l \in Reasons
    /\ pc # "losing" => task.lost = mem.lost

LEMMA RepairStep ==
    ASSUME TypeInv, LaunchInv, IdInv, BookInv, RepairInv, NoCrash, NoLostAnswer,
           [Next]_vars
    PROVE  RepairInv'
<1> USE DEF RepairInv
<1>a. /\ mem \in TaskDoc /\ task \in TaskDoc /\ meta \in [Launch -> MetaDoc]
      /\ mem.lost \in Nat /\ task.lost \in Nat
      /\ queue \in [Item -> QueueDoc] /\ created \in Nat
  BY CrawlTaskAssumption DEF TypeInv, TypeOK, TaskDoc, CrawlTaskAssumption
<1>1. ASSUME \A i \in Item : queue'[i].status = "running" => queue[i].status = "running",
             \A l \in Launch : Alive(l)' => Alive(l) \/ l \in Reasons',
             Reasons \subseteq Reasons', mem'.lost = mem.lost,
             pc' # "losing" => task'.lost = mem.lost
      PROVE  RepairInv'
  <2>1. WithStatus(queue', "running") \subseteq WithStatus(queue, "running")
    BY <1>1 DEF WithStatus
  <2> QED BY <1>1, <2>1
<1>2. ASSUME UNCHANGED <<queue, meta, batch, phase>>, pc # "invoke", pc' # "invoke",
             mem'.lost = mem.lost, pc' # "losing" => task'.lost = mem.lost
      PROVE  RepairInv'
  <2>1. Reasons' = Reasons
    BY <1>2 DEF Reasons, Unsure, Started, MetaWith
  <2>2. \A l \in Launch : Alive(l)' => Alive(l)
    BY <1>2 DEF Alive
  <2> QED BY <1>1, <1>2, <2>1, <2>2
<1>3. CASE Scheduler
  <2>1. CASE GetTasks
    BY <1>2, <2>1 DEF GetTasks, workerVars
  <2>2. CASE CountInitial \/ CountRunning \/ CountFailed \/ RefreshStatistics
    BY <1>2, <2>2 DEF CountInitial, CountRunning, CountFailed, RefreshStatistics, Count,
                      workerVars
  <2>3. CASE CountDefinitelyFailed \/ CountCompleted
    BY <1>2, <2>3 DEF CountDefinitelyFailed, CountCompleted, workerVars
  <2>4. CASE CloseTask \/ FailTask \/ LaunchNone
    <3>1. /\ mem'.lost = task.lost /\ task'.lost = task.lost /\ batch'.remove = {}
          /\ pc' = "idle" /\ pc \notin {"losing", "invoke"}
          /\ UNCHANGED <<queue, meta, phase>>
      BY <1>a, <2>4 DEF CloseTask, FailTask, LaunchNone, EndCycle, NoBatch, TaskDoc,
                        workerVars
    <3>2. Reasons \subseteq Reasons'
      BY <3>1 DEF Reasons, Unsure, Started, MetaWith
    <3> QED BY <1>1, <3>1, <3>2 DEF Alive
  <2>5. CASE FindFinished \/ \E S \in SUBSET Launch : FindLost(S)
    BY <1>2, <2>5 DEF FindFinished, FindLost, workerVars
  <2>6. ASSUME NEW l \in Launch, CompleteMeta(l) PROVE RepairInv'
    <3>1. l \in MetaWith("completed")'
      BY <1>a, <2>6 DEF CompleteMeta, MetaWith, MetaDoc
    <3>2. /\ pc = "updating" /\ UNCHANGED <<pc, batch, created, phase>>
          /\ task'.lost = mem.lost /\ mem'.lost = mem.lost
          /\ \A k \in Launch \ {l} : meta'[k] = meta[k]
      BY <1>a, <2>6 DEF CompleteMeta, OneWorkerLess, TaskDoc, workerVars
    <3>3. Reasons \subseteq Reasons'
      BY <3>1, <3>2 DEF Reasons, Unsure, Started, MetaWith
    <3> QED BY <3>1, <3>2, <3>3 DEF Reasons, Alive
  <2>7. ASSUME NEW l \in Launch, MarkLost(l) PROVE RepairInv'
    <3>1. mem'.lost = mem.lost + 1 /\ pc' = "losing"
      BY <1>a, <2>7 DEF MarkLost, OneWorkerLost, OneWorkerLess, TaskDoc
    <3> QED BY <1>a, <3>1
  <2>8. CASE SaveFinished \/ SaveLost
    <3>1. task'.lost = mem.lost
      BY <1>a, <2>8 DEF SaveFinished, SaveLost, SaveCounters, TaskDoc
    <3> QED BY <1>2, <2>8, <3>1 DEF SaveFinished, SaveLost, workerVars
  <2>9. CASE EnqueueFailed \/ \E quiet \in BOOLEAN : HealQueue(quiet)
    <3>1. /\ UNCHANGED <<task, meta, batch, mem, phase>>
          /\ pc \notin {"losing", "invoke"} /\ pc' \notin {"losing", "invoke"}
      BY <2>9 DEF EnqueueFailed, HealQueue, workerVars
    <3>2. \A i \in Item : queue'[i].status = "running" => queue[i].status = "running"
      BY <1>a, <2>9
         DEF EnqueueFailed, HealQueue, ResetQueueItems, EnqueueFailedItems, SetStatus,
             WithStatus, QueueDoc
    <3>3. Reasons' = Reasons
      BY <3>1 DEF Reasons, Unsure, Started, MetaWith
    <3> QED BY <1>1, <3>1, <3>2, <3>3 DEF Alive
  <2>10. CASE \E m \in Measurement : PlanLaunch(m)
    <3>1. /\ UNCHANGED <<queue, task, meta, mem, phase>> /\ batch'.remove = {}
          /\ pc = "health" /\ pc' = "launch"
      BY <2>10 DEF PlanLaunch, NoBatch, workerVars
    <3>2. Reasons \subseteq Reasons'
      BY <3>1 DEF Reasons, Unsure, Started, MetaWith
    <3> QED BY <1>1, <3>1, <3>2 DEF Alive
  <2>11. CASE CreateMeta
    <3>1. /\ created' = created + 1 /\ pc = "launch" /\ pc' = "invoke"
          /\ UNCHANGED <<queue, task, mem, batch, phase>>
          /\ meta' = [meta EXCEPT ![created'] = [status |-> "started", ended |-> FALSE]]
      BY <2>11 DEF CreateMeta, workerVars
    <3>2. created' \notin Reasons
      BY <1>a, <3>1 DEF BookInv, NoMeta, Reasons, Started, MetaWith
    <3>3. \A l \in Launch : l # created' => meta'[l] = meta[l]
      BY <1>a, <3>1
    <3>4. Reasons \subseteq Reasons'
      BY <3>1, <3>2, <3>3 DEF Reasons, Unsure, Started, MetaWith
    <3> QED BY <1>1, <3>1, <3>4 DEF Alive
  <2>12. CASE Invoke
    <3>1. /\ UNCHANGED <<queue, task, created, meta>> /\ pc = "invoke"
          /\ pc' \in {"launch", "remove_meta"}
          /\ mem'.lost = mem.lost /\ batch'.remove \subseteq batch.remove \cup {created}
      BY <1>a, <2>12, InvokeFrame, InvokeBatch, OrderlyInvoke DEF NextWorkerId, TaskDoc
    <3>2. Reasons \subseteq Reasons'
      BY <3>1 DEF Reasons, Unsure, Started, MetaWith
    <3>3. CASE /\ phase' = [phase EXCEPT ![created] = "claiming"]
               /\ batch'.remove = batch.remove
      <4>1. created \in Reasons'
        BY <3>1, <3>3 DEF BookInv, Reasons, Unsure, Started, MetaWith
      <4>2. \A l \in Launch : Alive(l)' => Alive(l) \/ l \in Reasons'
        BY <3>3, <4>1 DEF Alive, TypeInv, TypeOK
      <4> QED BY <1>1, <3>1, <3>2, <4>2
    <3>4. CASE phase' = [phase EXCEPT ![created] = "gone"]
      <4>1. \A l \in Launch : Alive(l)' => Alive(l)
        BY <3>4 DEF Alive, TypeInv, TypeOK
      <4> QED BY <1>1, <3>1, <3>2, <4>1
    <3> QED BY <2>12, <3>3, <3>4, OrderlyInvoke
  <2>13. CASE RemoveWorkerMeta
    <3>1. batch.remove \subseteq Started /\ batch.remove \subseteq 1 .. created
      BY <2>13, <1>a, CrawlTaskAssumption
         DEF RemoveWorkerMeta, BookInv, NoMeta, Started, MetaWith, Launch,
             TypeInv, TypeOK, CrawlTaskAssumption
    <3>2. RemovedMeta = batch.remove
      BY <3>1, OwnMetasRemoved
    <3>3. /\ UNCHANGED <<queue, task, mem, batch, phase>>
          /\ pc = "remove_meta" /\ pc' = "save"
          /\ \A l \in Launch \ batch.remove : meta'[l] = meta[l]
      BY <1>a, <2>13, <3>2 DEF RemoveWorkerMeta, workerVars
    <3>4. \A l \in Reasons : l \in Launch \ batch.remove
      BY <3>1, <3>3 DEF Reasons, Unsure, Started, MetaWith
    <3>5. Reasons \subseteq Reasons'
      BY <3>3, <3>4 DEF Reasons, Unsure, Started, MetaWith
    <3> QED BY <1>1, <3>3, <3>5 DEF Alive
  <2>14. CASE SaveLaunched
    <3>1. /\ task'.lost = mem.lost /\ mem'.lost = mem.lost /\ pc = "save" /\ pc' = "idle"
          /\ UNCHANGED <<queue, meta, phase>> /\ batch'.remove = {}
      BY <1>a, <2>14 DEF SaveLaunched, EndCycle, NoBatch, TaskDoc, workerVars
    <3>2. Reasons \subseteq Reasons'
      BY <3>1 DEF Reasons, Unsure, Started, MetaWith
    <3> QED BY <1>1, <3>1, <3>2 DEF Alive
  <2> QED BY <1>3, <2>1, <2>2, <2>3, <2>4, <2>5, <2>6, <2>7, <2>8, <2>9, <2>10, <2>11,
             <2>12, <2>13, <2>14 DEF Scheduler
<1>4. ASSUME NEW l \in Launch, Alive(l), UNCHANGED <<task, schedVars, created>>,
             \A k \in Launch : meta'[k].status = meta[k].status,
             \A k \in Launch \ {l} : phase'[k] = phase[k]
      PROVE  RepairInv'
  <2>1. Reasons' = Reasons
    BY <1>4 DEF Reasons, Unsure, Started, MetaWith, schedVars
  <2>2. mem.lost > 0 \/ l \in Reasons
    BY <1>4
  <2>3. \A k \in Launch : Alive(k)' => Alive(k)
    BY <1>4 DEF Alive
  <2> QED BY <1>4, <2>1, <2>2, <2>3 DEF schedVars
<1>5. ASSUME NEW l \in Launch,
             \/ Worker(l)
             \/ \E i \in Item : ClaimLost(l, i)
             \/ WriteFails(l)
             \/ Die(l)
      PROVE  RepairInv'
  <2>1. Report(l) => \A k \in Launch : meta'[k].status = meta[k].status
    BY <1>a, ReportStep DEF MetaDoc
  <2>2. \A k \in Launch : meta'[k].status = meta[k].status
    BY <1>5, <2>1
       DEF Worker, ClaimItem, StopClaiming, Crawl, WriteItem, ClaimLost, WriteFails, Die
  <2> QED BY <1>4, <1>5, <2>2, WorkerFrame
<1>6. ASSUME NEW l \in Launch, NEW i \in Item, EnqueueItem(l, i) PROVE RepairInv'
  BY <1>4, <1>6 DEF EnqueueItem, Alive, workerVars
<1>7. CASE Disturbance
  BY <1>5, <1>6, <1>7, OrderlyFaults DEF Disturbance
<1>8. CASE UNCHANGED vars
  BY <1>8 DEF vars, schedVars, workerVars, Reasons, Unsure, Started, MetaWith, Alive
<1> QED BY <1>3, <1>5, <1>7, <1>8 DEF Next

\* An item whose worker died or outlived its threshold, or whose claim or write-back
\* was lost, can be healed.
THEOREM OrphansCanHeal ==
    ASSUME NoCrash, NoLostAnswer
    PROVE  Spec => []OrphanCanHeal
<1>1. Init => RepairInv
  BY DEF Init, RepairInv, WithStatus, InsertItems, AbsentDoc, FreshDoc, Alive
<1>2. BookAll /\ RepairInv /\ [Next]_vars => RepairInv'
  BY RepairStep DEF BookAll
<1>3. RepairInv => OrphanCanHeal
  <2> SUFFICES ASSUME RepairInv, NEW i \in WithStatus(queue, "running")
               PROVE  mem.lost > 0 \/ MetaWith("started") \cup MetaWith("completed") # {}
    BY DEF OrphanCanHeal
  <2> QED BY DEF RepairInv, Reasons, Started
<1> QED BY <1>1, <1>2, <1>3, BookCorrect, PTL DEF Spec

\* A heal takes no item away from a worker that can still write it.
THEOREM HealIsSafe == ASSUME Orderly PROVE Spec => HealTouchesNoClaim
<1>1. OrderAll /\ [Next]_vars =>
        [pc = "heal" /\ pc' # pc /\ queue' # queue
           => \A l \in Launch : held[l] = {}]_vars
  <2> SUFFICES ASSUME OrderAll, Next, pc = "heal", pc' # pc, queue' # queue
               PROVE  \A l \in Launch : held[l] = {}
    OBVIOUS
  <2>1. PICK quiet \in BOOLEAN : HealQueue(quiet)
    <3>1. Scheduler
      BY WorkerFrame, OrderlyFaults
         DEF OrderAll, BookAll, Orderly, Next, Disturbance, EnqueueItem, schedVars
    <3> QED BY <3>1, SchedulerFrame, InvokeFrame DEF CreateMeta, EnqueueFailed
  <2>2. mem.running = 0
    BY <2>1 DEF HealQueue, MayHeal
  <2> QED BY <2>2, HealFindsNoClaim DEF OrderAll, BookAll
<1> QED BY <1>1, OrderCorrect, PTL DEF Spec, HealTouchesNoClaim

-----------------------------------------------------------------------------
(* How often an item is tried, as long as a claim belongs to one worker.    *)

TryLimit == IF RetryFailedItems = 0 THEN 1 ELSE RetryFailedItems

\* A document that nobody has still to write back, of an item that was tried n times:
\* what was tried and not counted was a failure, and while the item is to be tried
\* again it has a try left.
Fits(doc, n, f) ==
    /\ doc.status # "completed" => n <= doc.retries + f
    /\ doc.status \in {"absent", "initial", "running"} => n + 1 <= TryLimit + f
    /\ doc.status = "absent" => n = 0

\* TriesBounded is not inductive without what the queue and the copies say of the
\* tries: a claimed item has one that is not counted yet.
TryInv ==
    /\ TriesBounded
    /\ \A i \in Item : (\A l \in Launch : i \notin held[l])
                          => Fits(queue[i], tries[i], faults)
    /\ \A l \in Launch : \A i \in held[l] :
          /\ tries[i] <= queue[i].retries + 1 + faults
          /\ phase[l] \in {"claiming", "crawling"} =>
                tries[i] <= copy[l][i].retries + 1 + faults
          /\ phase[l] = "writing" => Fits(copy[l][i], tries[i], faults)

LEMMA TryLimitType == TryLimit \in Nat \ {0} /\ RetryFailedItems <= TryLimit
BY CrawlTaskAssumption DEF CrawlTaskAssumption, TryLimit

LEMMA FitsMore ==
    ASSUME NEW doc \in QueueDoc, NEW n \in Nat, NEW f \in Nat, NEW g \in Nat, f <= g,
           Fits(doc, n, f)
    PROVE  Fits(doc, n, g)
<1>1. doc.retries \in Nat
  BY DEF QueueDoc
<1> QED BY <1>1, TryLimitType DEF Fits

\* A claimed item does not disappear.
LEMMA NonAbsentResult ==
    ASSUME NEW doc \in QueueDoc, doc.status # "absent", NEW o \in AllOutcomes
    PROVE  Result(doc, o).status # "absent"
<1>1. CASE o = "completed"
  BY <1>1 DEF Result
<1>2. CASE o = "failed"
  BY <1>2 DEF Result, QueueDoc
<1>3. CASE o = "blocked"
  BY <1>3 DEF Result, Blocked, QueueDoc
<1>4. CASE o = "abandoned"
  BY <1>4 DEF Result, QueueDoc
<1>5. CASE o = "unstored"
  BY <1>5 DEF Result, Unstored
<1>6. CASE o = "untouched"
  BY <1>6 DEF Result
<1> QED BY <1>1, <1>2, <1>3, <1>4, <1>5, <1>6 DEF AllOutcomes

\* What a worker leaves of its try is counted, or it was a failure.
LEMMA ResultFits ==
    ASSUME NEW doc \in QueueDoc, doc.status = "running", NEW n \in Nat,
           NEW f \in Nat, NEW g \in Nat, f <= g, NEW o \in AllOutcomes,
           o \notin {"completed", "failed"} => f + 1 <= g,
           n <= doc.retries + 1 + f, n <= TryLimit + f
    PROVE  Fits(Result(doc, o), n, g)
<1>a. doc.retries \in Nat
  BY DEF QueueDoc
<1>1. CASE o = "completed"
  BY <1>1 DEF Result, Fits
<1>2. CASE o = "failed"
  <2>1. Result(doc, o).status = "failed" /\ Result(doc, o).retries = doc.retries + 1
    BY <1>2 DEF Result, QueueDoc
  <2> QED BY <1>a, <2>1 DEF Fits
<1>3. CASE o \notin {"completed", "failed"}
  <2>1. Result(doc, o).retries \in {doc.retries, doc.retries + 1}
    <3>1. CASE o \in {"blocked", "abandoned"}
      BY <3>1 DEF Result, Blocked, QueueDoc
    <3>2. CASE o \in {"unstored", "untouched"}
      BY <3>2 DEF Result, Unstored
    <3> QED BY <1>3, <3>1, <3>2 DEF AllOutcomes
  <2>2. n <= doc.retries + g /\ n + 1 <= TryLimit + g
    BY <1>a, <1>3, TryLimitType
  <2>3. Result(doc, o).status # "absent"
    BY NonAbsentResult
  <2> QED BY <1>a, <2>1, <2>2, <2>3, TryLimitType DEF Fits
<1> QED BY <1>1, <1>2, <1>3

LEMMA TryStep ==
    ASSUME OrderAll, DateInv, TryInv, TypeInv', ClaimInv', [Next]_vars
    PROVE  TryInv'
<1>a. /\ queue \in [Item -> QueueDoc] /\ queue' \in [Item -> QueueDoc]
      /\ copy \in [Launch -> [Item -> QueueDoc]] /\ phase \in [Launch -> Phase]
      /\ held \in [Launch -> SUBSET Item] /\ tries \in [Item -> Nat]
      /\ faults \in Nat /\ faults' \in Nat
      /\ \A i \in Item : queue[i].retries \in Nat /\ queue'[i].retries \in Nat
      /\ \A l \in Launch, i \in Item : copy[l][i].retries \in Nat
  BY DEF OrderAll, BookAll, TypeInv, TypeOK, QueueDoc
<1>b. faults <= faults' /\ TypeInv /\ LaunchInv /\ ClaimInv
  BY <1>a, FaultsGrow DEF OrderAll, BookAll
<1>c. \A i \in Item : tries[i] <= TryLimit + faults
  BY DEF TryInv, TriesBounded, TryLimit
\* What a step leaves alone stays in order when failures are added.
<1>d. ASSUME UNCHANGED tries PROVE TriesBounded'
  <2>1. \A i \in Item : tries'[i] <= TryLimit + faults'
    BY <1>a, <1>b, <1>c, <1>d, TryLimitType
  <2> QED BY <2>1 DEF TriesBounded, TryLimit
<1>e. ASSUME NEW i \in Item, \A l \in Launch : i \notin held[l]
      PROVE  Fits(queue[i], tries[i], faults')
  BY <1>a, <1>b, <1>e, FitsMore DEF TryInv
<1>f. ASSUME NEW l \in Launch, NEW i \in held[l]
      PROVE  /\ tries[i] <= queue[i].retries + 1 + faults'
             /\ phase[l] \in {"claiming", "crawling"} =>
                   tries[i] <= copy[l][i].retries + 1 + faults'
             /\ phase[l] = "writing" => Fits(copy[l][i], tries[i], faults')
  <2>1. i \in Item /\ copy[l][i] \in QueueDoc
    BY <1>a
  <2> QED BY <1>a, <1>b, <2>1, FitsMore DEF TryInv
<1>1. ASSUME UNCHANGED <<queue, phase, held, copy, tries>> PROVE TryInv'
  BY <1>1, <1>d, <1>e, <1>f DEF TryInv
\* The scheduler puts an item back only where it has a try left.
<1>2. ASSUME UNCHANGED <<phase, held, copy, tries, faults>>,
             \A l \in Launch : \A i \in held[l] : queue'[i].retries = queue[i].retries,
             NEW S, \A i \in Item \ S : queue'[i] = queue[i],
             \A i \in S \cap Item :
                (\A l \in Launch : i \notin held[l]) => Fits(queue'[i], tries[i], faults)
      PROVE  TryInv'
  <2>1. ASSUME NEW i \in Item, \A l \in Launch : i \notin held'[l]
        PROVE  Fits(queue'[i], tries'[i], faults')
    BY <1>2, <2>1 DEF TryInv
  <2>2. ASSUME NEW l \in Launch, NEW i \in held'[l]
        PROVE  /\ tries'[i] <= queue'[i].retries + 1 + faults'
               /\ phase'[l] \in {"claiming", "crawling"} =>
                     tries'[i] <= copy'[l][i].retries + 1 + faults'
               /\ phase'[l] = "writing" => Fits(copy'[l][i], tries'[i], faults')
    BY <1>2 DEF TryInv
  <2> QED BY <1>2, <1>d, <2>1, <2>2 DEF TryInv
<1>3. CASE Scheduler
  <2>1. CASE CreateMeta
    BY <1>1, <2>1 DEF CreateMeta, workerVars
  <2>2. CASE Invoke
    <3>1. PICK p \in {"claiming", "gone"} : phase' = [phase EXCEPT ![created] = p]
      BY <2>2, InvokeFrame
    <3>2. created \in Launch /\ held[created] = {}
      BY <2>2, <1>b DEF Invoke, TypeInv, LaunchBounds, LaunchInv
    <3>3. UNCHANGED <<queue, held, copy, tries>>
      BY <2>2 DEF Invoke
    <3> QED BY <1>a, <1>d, <1>e, <1>f, <3>1, <3>2, <3>3 DEF TryInv
  <2>3. ASSUME NEW quiet \in BOOLEAN, HealQueue(quiet) PROVE TryInv'
    <3>1. CASE queue' = queue
      BY <1>1, <2>3, <3>1 DEF HealQueue, workerVars
    <3>2. CASE queue' # queue
      <4>1. \A l \in Launch : held[l] = {}
        BY <2>3, <3>2, HealFindsNoClaim DEF HealQueue, MayHeal, OrderAll, BookAll
      <4>2. /\ \A i \in WithStatus(queue, "running") :
                  /\ queue[i].status = "running" /\ queue'[i].status = "initial"
                  /\ queue'[i].retries = queue[i].retries
            /\ \A i \in Item \ WithStatus(queue, "running") : queue'[i] = queue[i]
        BY <1>a, <2>3, <3>2 DEF HealQueue, ResetQueueItems, SetStatus, WithStatus, QueueDoc
      <4>3. \A i \in WithStatus(queue, "running") : Fits(queue'[i], tries[i], faults)
        BY <4>1, <4>2 DEF TryInv, Fits, WithStatus
      <4> QED BY <1>2, <2>3, <4>1, <4>2, <4>3 DEF HealQueue, workerVars
    <3> QED BY <3>1, <3>2
  <2>4. CASE EnqueueFailed
    <3>1. CASE queue' = queue
      BY <1>1, <2>4, <3>1 DEF EnqueueFailed, workerVars
    <3>2. CASE queue' # queue
      <4> DEFINE S == Retriable(queue, RetryFailedItems)
      <4>1. /\ \A i \in S : /\ i \in Item /\ queue[i].status = "failed"
                            /\ ~ (queue[i].retries >= RetryFailedItems)
                            /\ queue'[i].status = "initial"
                            /\ queue'[i].retries = queue[i].retries
            /\ \A i \in Item \ S : queue'[i] = queue[i]
        BY <1>a, <2>4, <3>2
           DEF EnqueueFailed, EnqueueFailedItems, Retriable, DefinitelyFailed, SetStatus,
               WithStatus, QueueDoc
      <4>2. \A l \in Launch : \A i \in held[l] : i \in Item \ S
        BY <1>a, <1>b, <4>1 DEF ClaimInv, ExclusiveClaim
      <4>3. ASSUME NEW i \in S PROVE Fits(queue'[i], tries[i], faults)
        <5>1. i \in Item /\ queue'[i].retries = queue[i].retries /\ queue[i].retries \in Nat
          BY <1>a, <4>1
        <5>2. tries[i] <= queue[i].retries + faults
          BY <4>1, <4>2 DEF TryInv, Fits
        <5>3. queue[i].retries + 1 <= RetryFailedItems /\ RetryFailedItems \in Nat
          BY <4>1, <5>1, CrawlTaskAssumption DEF CrawlTaskAssumption
        <5>4. tries[i] + 1 <= TryLimit + faults
          BY <1>a, <5>1, <5>2, <5>3, TryLimitType
        <5> QED BY <4>1, <5>1, <5>2, <5>4 DEF Fits
      <4> QED BY <1>2, <2>4, <4>1, <4>2, <4>3 DEF EnqueueFailed, workerVars
    <3> QED BY <3>1, <3>2
  <2> QED BY <1>1, <1>3, <2>1, <2>2, <2>3, <2>4, SchedulerFrame
\* A claim is a try of an item that had one left.
<1>4. ASSUME NEW l \in Launch, NEW i \in Item, i \in Claimable(queue),
             queue' = TakeItem(queue, i), Tried(i)
      PROVE  /\ TriesBounded'
             /\ \A k \in Launch : i \notin held[k]
             /\ tries'[i] = tries[i] + 1 /\ tries[i] <= queue[i].retries + faults
             /\ tries[i] + 1 <= TryLimit + faults
             /\ queue'[i].status = "running" /\ queue'[i].retries = queue[i].retries
             /\ \A j \in Item \ {i} : tries'[j] = tries[j] /\ queue'[j] = queue[j]
  <2>1. queue[i].status = "initial" /\ \A k \in Launch : i \notin held[k]
    BY <1>4, <1>b DEF Claimable, WithStatus, ClaimInv, ExclusiveClaim
  <2>2. tries[i] <= queue[i].retries + faults /\ tries[i] + 1 <= TryLimit + faults
    BY <2>1 DEF TryInv, Fits
  <2>3. tries'[i] = tries[i] + 1 /\ \A j \in Item \ {i} : tries'[j] = tries[j]
    BY <1>4, <1>a DEF Tried
  <2>4. /\ queue'[i].status = "running" /\ queue'[i].retries = queue[i].retries
        /\ \A j \in Item \ {i} : queue'[j] = queue[j]
    BY <1>4, <1>a DEF TakeItem, SetStatus, QueueDoc
  <2>5. \A j \in Item : tries'[j] <= TryLimit + faults'
    <3> SUFFICES ASSUME NEW j \in Item PROVE tries'[j] <= TryLimit + faults'
      OBVIOUS
    <3>1. /\ tries'[j] \in {tries[j], tries[j] + 1} /\ tries[j] \in Nat
          /\ tries'[j] <= TryLimit + faults
      BY <1>a, <1>c, <2>2, <2>3
    <3> QED BY <1>a, <1>b, <3>1, TryLimitType
  <2> QED BY <2>1, <2>2, <2>3, <2>4, <2>5 DEF TriesBounded, TryLimit
<1>5. ASSUME NEW l \in Launch, NEW i \in Item, ClaimItem(l, i) PROVE TryInv'
  <2>1. /\ TriesBounded' /\ \A k \in Launch : i \notin held[k]
        /\ tries'[i] = tries[i] + 1 /\ tries[i] <= queue[i].retries + faults
        /\ queue'[i].retries = queue[i].retries
        /\ \A j \in Item \ {i} : tries'[j] = tries[j] /\ queue'[j] = queue[j]
    BY <1>4, <1>5 DEF ClaimItem
  <2>2. /\ held' = [held EXCEPT ![l] = held[l] \cup {i}] /\ phase[l] = "claiming"
        /\ copy' = [copy EXCEPT ![l][i] = queue'[i]] /\ UNCHANGED <<phase, faults>>
    BY <1>5 DEF ClaimItem
  <2>3. ASSUME NEW j \in Item, \A k \in Launch : j \notin held'[k]
        PROVE  Fits(queue'[j], tries'[j], faults')
    <3>1. j # i /\ \A k \in Launch : j \notin held[k]
      BY <1>a, <2>2, <2>3
    <3> QED BY <1>e, <2>1, <3>1
  <2>4. ASSUME NEW k \in Launch, NEW j \in held'[k]
        PROVE  /\ tries'[j] <= queue'[j].retries + 1 + faults'
               /\ phase'[k] \in {"claiming", "crawling"} =>
                     tries'[j] <= copy'[k][j].retries + 1 + faults'
               /\ phase'[k] = "writing" => Fits(copy'[k][j], tries'[j], faults')
    <3>1. CASE j = i
      <4>1. k = l /\ copy'[k][j] = queue'[i] /\ phase'[k] = "claiming"
        BY <1>a, <2>1, <2>2, <3>1
      <4>2. tries'[i] <= queue'[i].retries + 1 + faults'
        BY <1>a, <2>1, <2>2
      <4> QED BY <3>1, <4>1, <4>2
    <3>2. CASE j # i
      <4>1. j \in held[k] /\ copy'[k][j] = copy[k][j]
        BY <1>a, <2>2, <3>2
      <4> QED BY <1>a, <1>f, <2>1, <2>2, <3>2, <4>1
    <3> QED BY <3>1, <3>2
  <2> QED BY <2>1, <2>3, <2>4 DEF TryInv
<1>6. ASSUME NEW l \in Launch, NEW i \in Item, ClaimLost(l, i) PROVE TryInv'
  <2>1. /\ TriesBounded' /\ \A k \in Launch : i \notin held[k]
        /\ tries'[i] = tries[i] + 1 /\ tries[i] <= queue[i].retries + faults
        /\ tries[i] + 1 <= TryLimit + faults
        /\ queue'[i].status = "running" /\ queue'[i].retries = queue[i].retries
        /\ \A j \in Item \ {i} : tries'[j] = tries[j] /\ queue'[j] = queue[j]
    BY <1>4, <1>6 DEF ClaimLost
  <2>2. /\ UNCHANGED <<held, copy>> /\ faults' = faults + 1 /\ phase[l] = "claiming"
        /\ \A k \in Launch : phase'[k] = phase[k] \/ k = l
        /\ phase'[l] \in {"reporting", "crawling"}
    BY <1>6, <1>a DEF ClaimLost, Goto, Fault
  <2>3. Fits(queue'[i], tries'[i], faults')
    BY <1>a, <2>1, <2>2, TryLimitType DEF Fits
  <2> QED BY <1>a, <1>e, <1>f, <2>1, <2>2, <2>3 DEF TryInv
<1>7. ASSUME NEW l \in Launch, StopClaiming(l) PROVE TryInv'
  <2>1. /\ UNCHANGED <<queue, held, copy, tries>> /\ phase[l] = "claiming"
        /\ \A k \in Launch : phase'[k] = phase[k] \/ k = l
        /\ phase'[l] \in {"reporting", "crawling"}
    BY <1>7, <1>a DEF StopClaiming, Goto
  <2> QED BY <1>d, <1>e, <1>f, <2>1 DEF TryInv
<1>8. ASSUME NEW l \in Launch, Crawl(l) PROVE TryInv'
  <2>1. PICK outcome \in [held[l] -> Outcome] :
           /\ copy' = [copy EXCEPT ![l] =
                          [i \in Item |-> IF i \in held[l]
                                          THEN Result(copy[l][i], outcome[i])
                                          ELSE copy[l][i]]]
           /\ IF Usual(outcome, held[l]) THEN UNCHANGED faults
              ELSE faults < MaxFaults /\ faults' = faults + 1
    BY <1>8 DEF Crawl
  <2>2. /\ UNCHANGED <<queue, held, tries>> /\ phase[l] = "crawling"
        /\ phase' = [phase EXCEPT ![l] = "writing"]
    BY <1>8 DEF Crawl, Goto
  <2>3. ASSUME NEW i \in held[l]
        PROVE  Fits(Result(copy[l][i], outcome[i]), tries[i], faults')
    <3>1. outcome[i] \in AllOutcomes
      BY CrawlTaskAssumption DEF CrawlTaskAssumption
    <3>2. copy[l][i] \in QueueDoc /\ copy[l][i].status = "running" /\ i \in Item
      BY <1>a, <2>2 DEF DateInv
    <3>3. outcome[i] \notin {"completed", "failed"} => faults + 1 <= faults'
      BY <1>a, <2>1 DEF Usual
    <3>4. tries[i] <= copy[l][i].retries + 1 + faults /\ tries[i] <= TryLimit + faults
      BY <1>c, <2>2, <3>2 DEF TryInv
    <3> QED BY <1>a, <1>b, <3>1, <3>2, <3>3, <3>4, ResultFits
  <2>4. \A i \in held[l] : copy'[l][i] = Result(copy[l][i], outcome[i])
    BY <1>a, <2>1
  <2>5. \A k \in Launch \ {l} : copy'[k] = copy[k] /\ phase'[k] = phase[k]
    BY <1>a, <2>1, <2>2
  <2> QED BY <1>a, <1>d, <1>e, <1>f, <2>2, <2>3, <2>4, <2>5 DEF TryInv
<1>9. ASSUME NEW l \in Launch, NEW i \in Item, WriteItem(l, i) PROVE TryInv'
  <2>1. /\ UNCHANGED tries /\ i \in held[l] /\ phase[l] = "writing"
        /\ queue' = [queue EXCEPT ![i] = copy[l][i]]
        /\ held' = [held EXCEPT ![l] = held[l] \ {i}]
        /\ copy' = [copy EXCEPT ![l][i] = AbsentDoc]
        /\ \A k \in Launch : phase'[k] = phase[k] \/ k = l
        /\ phase'[l] \in {"reporting", "writing"}
    BY <1>9, <1>a DEF WriteItem, OverwriteItem, Goto
  <2>2. \A k \in Launch \ {l} : i \notin held[k]
    BY <1>b, <2>1 DEF ClaimInv, ExclusiveClaim
  <2>3. ASSUME NEW j \in Item, \A k \in Launch : j \notin held'[k]
        PROVE  Fits(queue'[j], tries'[j], faults')
    <3>1. CASE j = i
      BY <1>a, <1>f, <2>1, <3>1
    <3>2. CASE j # i
      <4>1. \A k \in Launch : j \notin held[k]
        BY <1>a, <2>1, <2>3, <3>2
      <4> QED BY <1>a, <1>e, <2>1, <3>2, <4>1
    <3> QED BY <3>1, <3>2
  <2>4. ASSUME NEW k \in Launch, NEW j \in held'[k]
        PROVE  /\ tries'[j] <= queue'[j].retries + 1 + faults'
               /\ phase'[k] \in {"claiming", "crawling"} =>
                     tries'[j] <= copy'[k][j].retries + 1 + faults'
               /\ phase'[k] = "writing" => Fits(copy'[k][j], tries'[j], faults')
    <3>1. j \in held[k] /\ j # i /\ j \in Item
      BY <1>a, <2>1, <2>2
    <3>2. copy'[k][j] = copy[k][j] /\ queue'[j] = queue[j]
      BY <1>a, <2>1, <3>1
    <3> QED BY <1>f, <2>1, <3>1, <3>2
  <2> QED BY <1>d, <2>1, <2>3, <2>4 DEF TryInv
<1>10. ASSUME NEW l \in Launch, Report(l) PROVE TryInv'
  <2>1. /\ UNCHANGED <<queue, held, copy, tries>>
        /\ \A k \in Launch : phase'[k] = phase[k] \/ k = l
        /\ phase'[l] = "gone"
    BY <1>10, <1>a DEF Report, Goto
  <2> QED BY <1>d, <1>e, <1>f, <2>1 DEF TryInv
\* Without its worker an item has a failure for the try that is not counted.
<1>11. ASSUME NEW l \in Launch, WriteFails(l) \/ Die(l) PROVE TryInv'
  <2>1. /\ UNCHANGED <<queue, tries>> /\ faults' = faults + 1
        /\ held' = [held EXCEPT ![l] = {}]
        /\ \A k \in Launch \ {l} : phase'[k] = phase[k] /\ copy'[k] = copy[k]
    BY <1>11, <1>a DEF WriteFails, Die, Drop, Goto, Fault
  <2>2. ASSUME NEW j \in held[l] PROVE Fits(queue[j], tries[j], faults')
    <3>1. j \in Item /\ queue[j].retries \in Nat /\ tries[j] \in Nat
      BY <1>a
    <3>2. tries[j] <= queue[j].retries + 1 + faults /\ tries[j] <= TryLimit + faults
      BY <1>c, <3>1 DEF TryInv
    <3>3. queue[j].status = "running"
      BY <1>b DEF ClaimInv, ExclusiveClaim
    <3> QED BY <1>a, <2>1, <3>1, <3>2, <3>3, TryLimitType DEF Fits
  <2>3. ASSUME NEW j \in Item, \A k \in Launch : j \notin held'[k]
        PROVE  Fits(queue'[j], tries'[j], faults')
    <3>1. CASE j \in held[l]
      BY <2>1, <2>2, <3>1
    <3>2. CASE j \notin held[l]
      <4>1. \A k \in Launch : j \notin held[k]
        BY <1>a, <2>1, <2>3, <3>2
      <4> QED BY <1>e, <2>1, <4>1
    <3> QED BY <3>1, <3>2
  <2>4. \A k \in Launch : \A j \in held'[k] : k # l /\ j \in held[k]
    BY <1>a, <2>1
  <2> QED BY <1>d, <1>f, <2>1, <2>3, <2>4 DEF TryInv
<1>12. ASSUME NEW l \in Launch, NEW i \in Item, EnqueueItem(l, i) PROVE TryInv'
  <2>1. /\ queue[i].status = "absent" /\ queue' = InsertItems(queue, {i})
        /\ UNCHANGED <<phase, held, copy, tries, faults>>
    BY <1>12 DEF EnqueueItem, workerVars
  <2>2. /\ \A j \in Item \ {i} : queue'[j] = queue[j]
        /\ queue'[i] = FreshDoc
    BY <1>a, <2>1 DEF InsertItems
  <2>3. \A k \in Launch : i \notin held[k]
    BY <1>b, <2>1 DEF ClaimInv, ExclusiveClaim
  <2>4. Fits(queue'[i], tries[i], faults)
    <3>1. Fits(queue[i], tries[i], faults)
      BY <2>3 DEF TryInv
    <3>2. tries[i] = 0
      BY <2>1, <3>1 DEF Fits
    <3>3. queue'[i].status = "initial" /\ queue'[i].retries = 0
      BY <2>2 DEF FreshDoc
    <3> QED BY <1>a, <3>2, <3>3, TryLimitType DEF Fits
  <2>5. \A k \in Launch : \A j \in held[k] : queue'[j].retries = queue[j].retries
    BY <1>a, <2>2, <2>3
  <2>6. \A j \in {i} \cap Item :
           (\A k \in Launch : j \notin held[k]) => Fits(queue'[j], tries[j], faults)
    BY <2>4
  <2> QED BY <1>2, <2>1, <2>2, <2>5, <2>6
<1>13. CASE Crash \/ UNCHANGED vars
  BY <1>1, <1>13 DEF Crash, vars, workerVars
<1> QED BY <1>3, <1>5, <1>6, <1>7, <1>8, <1>9, <1>10, <1>11, <1>12, <1>13
        DEF Next, Worker, Disturbance

\* However claims, writes and workers fail, an item is handed to workers no more
\* often than the task allows, and once more for each failure.
THEOREM TriesAreBounded == ASSUME Orderly PROVE Spec => []TriesBounded
<1>1. Init => TryInv
  <2> SUFFICES ASSUME Init PROVE TryInv
    OBVIOUS
  <2>1. \A i \in Item : Fits(queue[i], 0, 0)
    BY TryLimitType DEF Init, InsertItems, FreshDoc, AbsentDoc, Fits
  <2> QED BY <2>1, TryLimitType DEF Init, TryInv, TriesBounded, TryLimit
<1>2. OrderAll /\ DateInv /\ TryInv /\ [Next]_vars => TryInv'
  BY OrderStep, TryStep DEF OrderAll, BookAll
<1>3. OrderAll /\ DateInv /\ [Next]_vars => DateInv'
  BY DateStep DEF OrderAll, BookAll
<1>4. TryInv => TriesBounded
  BY DEF TryInv
<1> QED BY <1>1, <1>2, <1>3, <1>4, DateInit, OrderCorrect, PTL DEF Spec

-----------------------------------------------------------------------------
(* Closing, and the ledger: no item joins the queue any more.               *)

NoNewItems == "enqueue" \notin Environment

\* One step changes only items that are not settled; it settles at most one,
\* when a worker writes it back.
LEMMA QueueStep ==
    ASSUME TypeInv, LaunchInv, ClaimInv, SettleInv, NoNewItems, [Next]_vars
    PROVE  \/ \A j \in Item :
                 \/ queue'[j] = queue[j]
                 \/ /\ queue[j].status \in {"initial", "running", "failed"}
                    /\ j \notin DefinitelyFailed(queue, RetryFailedItems)
                    /\ queue'[j].status \in {"initial", "running"}
           \/ \E l \in Launch, i \in Item :
                 /\ WriteItem(l, i)
                 /\ queue[i].status = "running" /\ i \in InitialItem
                 /\ queue'[i].status # "absent"
                 /\ \A j \in Item \ {i} : queue'[j] = queue[j]
<1>a. queue \in [Item -> QueueDoc]
  BY DEF TypeInv, TypeOK
<1>b. ASSUME NEW S, NEW st
      PROVE  \A i \in Item :
                /\ i \notin S => SetStatus(queue, S, st)[i] = queue[i]
                /\ i \in S => SetStatus(queue, S, st)[i].status = st
  BY <1>a DEF SetStatus, QueueDoc
<1>1. CASE UNCHANGED queue
  BY <1>1
<1>2. CASE Scheduler
  <2>1. CASE CreateMeta \/ Invoke
    BY <1>1, <2>1, InvokeFrame DEF CreateMeta
  <2>2. CASE \E quiet \in BOOLEAN : HealQueue(quiet)
    BY <1>b, <2>2
       DEF HealQueue, ResetQueueItems, WithStatus, DefinitelyFailed
  <2>3. CASE EnqueueFailed
    BY <1>b, <2>3
       DEF EnqueueFailed, EnqueueFailedItems, Retriable, WithStatus
  <2> QED BY <1>1, <1>2, <2>1, <2>2, <2>3, SchedulerFrame
<1>3. ASSUME NEW l \in Launch, NEW i \in Item, ClaimItem(l, i) \/ ClaimLost(l, i)
      PROVE  \A j \in Item :
                \/ queue'[j] = queue[j]
                \/ /\ queue[j].status \in {"initial", "running", "failed"}
                   /\ j \notin DefinitelyFailed(queue, RetryFailedItems)
                   /\ queue'[j].status \in {"initial", "running"}
  BY <1>b, <1>3
     DEF ClaimItem, ClaimLost, TakeItem, Claimable, WithStatus, DefinitelyFailed
<1>4. ASSUME NEW l \in Launch, NEW i \in Item, WriteItem(l, i)
      PROVE  /\ queue[i].status = "running" /\ i \in InitialItem
             /\ queue'[i].status # "absent"
             /\ \A j \in Item \ {i} : queue'[j] = queue[j]
  BY <1>a, <1>4 DEF WriteItem, OverwriteItem, ClaimInv, ExclusiveClaim, SettleInv
<1>5. CASE \E l \in Launch : \/ StopClaiming(l) \/ Crawl(l) \/ Report(l)
                            \/ WriteFails(l) \/ Die(l)
  BY <1>1, <1>5 DEF StopClaiming, Crawl, Report, WriteFails, Die
<1>6. CASE Crash \/ UNCHANGED vars
  BY <1>1, <1>6 DEF Crash, vars
<1>7. ~ \E l \in Launch, i \in Item : EnqueueItem(l, i)
  BY DEF EnqueueItem, NoNewItems
<1> QED BY <1>2, <1>3, <1>4, <1>5, <1>6, <1>7 DEF Next, Worker, Disturbance

\* A verdict is final.
LEMMA SettledGrows ==
    ASSUME TypeInv, LaunchInv, ClaimInv, SettleInv, NoNewItems, [Next]_vars
    PROVE  /\ DefinitelyFailed(queue, RetryFailedItems)
                 \subseteq DefinitelyFailed(queue', RetryFailedItems)
           /\ WithStatus(queue, "completed") \subseteq WithStatus(queue', "completed")
BY QueueStep DEF DefinitelyFailed, WithStatus

\* Enough settled items are all items.
LEMMA EnoughIsAll ==
    ASSUME TypeInv, SettleInv, pc = "count_completed",
           settled + Cardinality(WithStatus(queue, "completed")) >= NumItems
    PROVE  InitialItem \subseteq Settled(queue, RetryFailedItems)
<1> DEFINE F == DefinitelyFailed(queue, RetryFailedItems)
           C == WithStatus(queue, "completed")
<1>1. F \cup C \subseteq InitialItem /\ F \cap C = {}
  BY DEF SettleInv, DefinitelyFailed, WithStatus
<1>2. /\ IsFiniteSet(F) /\ IsFiniteSet(C)
      /\ Cardinality(F) \in Nat /\ Cardinality(C) \in Nat
  BY StatusSetFinite
<1>3. Cardinality(F \cup C) = Cardinality(F) + Cardinality(C)
  <2>1. Cardinality(F \cup C) = Cardinality(F) + Cardinality(C) - Cardinality(F \cap C)
    BY <1>2, FS_Union
  <2>2. Cardinality(F \cap C) = 0
    BY <1>1, FS_EmptySet
  <2> QED BY <1>2, <2>1, <2>2
<1>4. settled <= Cardinality(F) /\ settled \in Nat
  BY DEF SettleInv, TypeInv, TypeOK
<1>5. IsFiniteSet(InitialItem) /\ NumItems \in Nat
  BY NumItemsNat
<1>6. Cardinality(F \cup C) >= NumItems
  BY <1>2, <1>3, <1>4, <1>5
<1>7. Cardinality(F \cup C) <= NumItems /\ (Cardinality(InitialItem) = Cardinality(F \cup C)
                                           => InitialItem = F \cup C)
  BY <1>1, <1>5, FS_Subset DEF NumItems
<1>8. InitialItem = F \cup C
  <2>1. Cardinality(F \cup C) \in Nat
    BY <1>2, <1>3
  <2> QED BY <1>5, <1>6, <1>7, <2>1 DEF NumItems
<1> QED BY <1>8 DEF Settled

\* How the scheduler comes to the second count and to the decision to close.
LEMMA EnterCount ==
    ASSUME TypeInv, LaunchInv, [Next]_vars
    PROVE  /\ pc' = "count_completed" =>
                CountDefinitelyFailed \/ (pc = "count_completed" /\ settled' = settled)
           /\ pc' = "close" => CountCompleted \/ pc = "close"
<1>1. CASE UNCHANGED <<pc, settled>>
  BY <1>1
<1>2. CASE Scheduler
  <2>1. CASE CountInitial \/ CountRunning \/ CountFailed \/ RefreshStatistics
    BY <2>1 DEF CountInitial, CountRunning, CountFailed, RefreshStatistics, Count
  <2>2. CASE GetTasks \/ CountDefinitelyFailed \/ CountCompleted
    BY <2>2 DEF GetTasks, CountDefinitelyFailed, CountCompleted
  <2>3. CASE CloseTask \/ FailTask \/ LaunchNone \/ SaveLaunched
    BY <2>3 DEF CloseTask, FailTask, LaunchNone, SaveLaunched, EndCycle
  <2>4. CASE \/ FindFinished \/ SaveFinished \/ SaveLost
             \/ \E l \in Launch : CompleteMeta(l) \/ MarkLost(l)
             \/ \E S \in SUBSET Launch : FindLost(S)
    BY <2>4 DEF FindFinished, SaveFinished, SaveLost, CompleteMeta, MarkLost, FindLost
  <2>5. CASE EnqueueFailed \/ \E quiet \in BOOLEAN : HealQueue(quiet)
    BY <2>5 DEF EnqueueFailed, HealQueue
  <2>6. CASE \/ CreateMeta \/ Invoke \/ RemoveWorkerMeta
             \/ \E m \in Measurement : PlanLaunch(m)
    BY <2>6, InvokeFrame DEF CreateMeta, RemoveWorkerMeta, PlanLaunch
  <2> QED BY <1>2, <2>1, <2>2, <2>3, <2>4, <2>5, <2>6 DEF Scheduler
<1>3. CASE \E l \in Launch : Worker(l)
  BY <1>1, <1>3, WorkerFrame DEF schedVars
<1>4. CASE Disturbance
  BY <1>1, <1>4, WorkerFrame
     DEF Disturbance, EnqueueItem, Crash, EndCycle, schedVars
<1>5. CASE UNCHANGED vars
  BY <1>1, <1>5 DEF vars, schedVars
<1> QED BY <1>2, <1>3, <1>4, <1>5 DEF Next

LEMMA SettleStep ==
    ASSUME TypeInv, LaunchInv, ClaimInv, SettleInv, NoNewItems, [Next]_vars, TypeInv'
    PROVE  SettleInv'
<1>a. /\ queue \in [Item -> QueueDoc] /\ held \in [Launch -> SUBSET Item]
      /\ copy \in [Launch -> [Item -> QueueDoc]]
  BY DEF TypeInv, TypeOK
<1>1. \A i \in Item : queue'[i].status = "absent" <=> i \notin InitialItem
  BY QueueStep DEF SettleInv
<1>2. \A l \in Launch : \A i \in held'[l] : copy'[l][i].status # "absent"
  <2>1. CASE UNCHANGED <<held, copy>>
    BY <2>1 DEF SettleInv
  <2>2. CASE Scheduler
    BY <2>1, <2>2, SchedulerFrame, InvokeFrame
       DEF CreateMeta, HealQueue, EnqueueFailed, workerVars
  <2>3. ASSUME NEW l \in Launch, NEW i \in Item, ClaimItem(l, i)
        PROVE  \A k \in Launch : \A j \in held'[k] : copy'[k][j].status # "absent"
    <3>1. queue'[i].status = "running"
      BY <1>a, <2>3 DEF ClaimItem, TakeItem, SetStatus, QueueDoc
    <3> QED BY <1>a, <2>3, <3>1 DEF ClaimItem, SettleInv
  <2>4. ASSUME NEW l \in Launch, Crawl(l)
        PROVE  \A k \in Launch : \A j \in held'[k] : copy'[k][j].status # "absent"
    <3>1. PICK outcome \in [held[l] -> Outcome] :
             copy' = [copy EXCEPT ![l] =
                         [i \in Item |-> IF i \in held[l]
                                         THEN Result(copy[l][i], outcome[i])
                                         ELSE copy[l][i]]]
      BY <2>4 DEF Crawl
    <3>2. ASSUME NEW j \in held[l]
          PROVE  Result(copy[l][j], outcome[j]).status # "absent"
      BY <1>a, NonAbsentResult, CrawlTaskAssumption DEF CrawlTaskAssumption, SettleInv
    <3>3. held' = held /\ \A k \in Launch \ {l} : copy'[k] = copy[k]
      BY <1>a, <2>4, <3>1 DEF Crawl
    <3>4. \A j \in held[l] : copy'[l][j] = Result(copy[l][j], outcome[j])
      BY <1>a, <3>1
    <3> QED BY <3>2, <3>3, <3>4 DEF SettleInv
  <2>5. ASSUME NEW l \in Launch, NEW i \in Item, WriteItem(l, i)
        PROVE  \A k \in Launch : \A j \in held'[k] : copy'[k][j].status # "absent"
    BY <1>a, <2>5 DEF WriteItem, SettleInv
  <2>6. ASSUME NEW l \in Launch, WriteFails(l) \/ Die(l)
        PROVE  \A k \in Launch : \A j \in held'[k] : copy'[k][j].status # "absent"
    BY <1>a, <2>6 DEF WriteFails, Die, Drop, SettleInv
  <2>7. CASE \E l \in Launch : \/ StopClaiming(l) \/ Report(l)
                              \/ \E i \in Item : ClaimLost(l, i) \/ EnqueueItem(l, i)
    BY <2>1, <2>7 DEF StopClaiming, Report, ClaimLost, EnqueueItem, workerVars
  <2>8. CASE Crash \/ UNCHANGED vars
    BY <2>1, <2>8 DEF Crash, vars, workerVars
  <2> QED BY <2>2, <2>3, <2>4, <2>5, <2>6, <2>7, <2>8 DEF Next, Worker, Disturbance
<1>3. ASSUME pc' = "count_completed"
      PROVE  settled' <= Cardinality(DefinitelyFailed(queue', RetryFailedItems))
  <2>1. CASE CountDefinitelyFailed
    BY <2>1, StatusSetFinite DEF CountDefinitelyFailed, NumDefinitelyFailed
  <2>2. CASE pc = "count_completed" /\ settled' = settled
    <3>1. /\ settled \in Nat
          /\ settled <= Cardinality(DefinitelyFailed(queue, RetryFailedItems))
      BY <2>2 DEF SettleInv, TypeInv, TypeOK
    <3>2. /\ Cardinality(DefinitelyFailed(queue, RetryFailedItems)) \in Nat
          /\ IsFiniteSet(DefinitelyFailed(queue', RetryFailedItems))
          /\ Cardinality(DefinitelyFailed(queue', RetryFailedItems)) \in Nat
      BY StatusSetFinite
    <3>3. Cardinality(DefinitelyFailed(queue, RetryFailedItems))
             <= Cardinality(DefinitelyFailed(queue', RetryFailedItems))
      BY <3>2, SettledGrows, FS_Subset
    <3> QED BY <2>2, <3>1, <3>2, <3>3
  <2> QED BY <1>3, <2>1, <2>2, EnterCount
<1>4. ASSUME pc' = "close"
      PROVE  InitialItem \subseteq Settled(queue', RetryFailedItems)
  <2>1. CASE CountCompleted
    BY <1>4, <2>1, EnoughIsAll DEF CountCompleted
  <2>2. CASE pc = "close"
    BY <2>2, SettledGrows DEF SettleInv, Settled
  <2> QED BY <1>4, <2>1, <2>2, EnterCount
<1> QED BY <1>1, <1>2, <1>3, <1>4 DEF SettleInv

\* The verdict of the scheduler is final, and it works only on open tasks.
OpenInv == pc # "idle" => task.status \in {"started", "paused"}

\* Who decides the task: only the two verdicts of the scheduler.
LEMMA StatusStep ==
    ASSUME TypeInv, LaunchInv, [Next]_vars
    PROVE  /\ \/ UNCHANGED task.status /\ (pc' # "idle" /\ pc = "idle" => GetTasks)
              \/ CloseTask /\ task'.status = "completed"
              \/ FailTask /\ task'.status = "failed"
<1>a. task \in TaskDoc /\ mem \in TaskDoc
  BY DEF TypeInv, TypeOK
<1>1. CASE UNCHANGED <<task, pc>>
  BY <1>1
<1>2. CASE Scheduler
  <2>1. CASE \/ CountInitial \/ CountRunning \/ CountFailed \/ RefreshStatistics
             \/ GetTasks \/ CountDefinitelyFailed \/ CountCompleted
    BY <2>1 DEF CountInitial, CountRunning, CountFailed, RefreshStatistics, Count,
                GetTasks, CountDefinitelyFailed, CountCompleted
  <2>2. CASE CloseTask \/ FailTask \/ LaunchNone \/ SaveLaunched
    BY <1>a, <2>2 DEF CloseTask, FailTask, LaunchNone, SaveLaunched, EndCycle, TaskDoc
  <2>3. CASE SaveFinished \/ SaveLost
    BY <1>a, <2>3 DEF SaveFinished, SaveLost, SaveCounters, TaskDoc
  <2>4. CASE \/ FindFinished
             \/ \E l \in Launch : CompleteMeta(l) \/ MarkLost(l)
             \/ \E S \in SUBSET Launch : FindLost(S)
    BY <2>4 DEF FindFinished, CompleteMeta, MarkLost, FindLost
  <2>5. CASE EnqueueFailed \/ \E quiet \in BOOLEAN : HealQueue(quiet)
    BY <2>5 DEF EnqueueFailed, HealQueue
  <2>6. CASE \/ CreateMeta \/ Invoke \/ RemoveWorkerMeta
             \/ \E m \in Measurement : PlanLaunch(m)
    BY <2>6, InvokeFrame DEF CreateMeta, RemoveWorkerMeta, PlanLaunch
  <2> QED BY <1>2, <2>1, <2>2, <2>3, <2>4, <2>5, <2>6 DEF Scheduler
<1>3. CASE \E l \in Launch : Worker(l)
  BY <1>1, <1>3, WorkerFrame DEF schedVars
<1>4. CASE Disturbance
  BY <1>1, <1>4, WorkerFrame DEF Disturbance, EnqueueItem, Crash, EndCycle, schedVars
<1>5. CASE UNCHANGED vars
  BY <1>1, <1>5 DEF vars, schedVars
<1> QED BY <1>2, <1>3, <1>4, <1>5 DEF Next

SettleAll == OrderAll /\ SettleInv /\ OpenInv

LEMMA SettleCorrect ==
    ASSUME Orderly, NoNewItems
    PROVE  Spec => []SettleAll
<1>1. Init => SettleInv /\ OpenInv
  BY DEF Init, SettleInv, OpenInv, InsertItems, FreshDoc, AbsentDoc
<1>2. SettleAll /\ [Next]_vars => SettleAll'
  <2> SUFFICES ASSUME SettleAll, [Next]_vars PROVE SettleAll'
    OBVIOUS
  <2>1. OrderAll'
    BY OrderStep DEF SettleAll
  <2>2. SettleInv'
    BY <2>1, SettleStep DEF SettleAll, OrderAll, BookAll
  <2>3. OpenInv'
    BY StatusStep DEF SettleAll, OrderAll, BookAll, OpenInv, GetTasks, CloseTask, FailTask,
                      EndCycle
  <2> QED BY <2>1, <2>2, <2>3 DEF SettleAll
<1> QED BY <1>1, <1>2, OrderInit, PTL DEF Spec, SettleAll

\* A task is closed only over settled items, although the two counts the decision
\* rests on are taken at two different moments.
THEOREM ClosedIsSettled ==
    ASSUME Orderly, NoNewItems
    PROVE  Spec => ClosedMeansSettled
<1>1. SettleAll /\ [Next]_vars =>
        [Closes => \A i \in Item : queue[i].status # "absent"
                                      => i \in Settled(queue, RetryFailedItems)]_vars
  <2> SUFFICES ASSUME SettleAll, Next,
                      task.status # "completed", task'.status = "completed"
               PROVE  \A i \in Item : queue[i].status # "absent"
                                          => i \in Settled(queue, RetryFailedItems)
    BY DEF Closes
  <2>1. pc = "close"
    BY StatusStep DEF SettleAll, OrderAll, BookAll, CloseTask
  <2> QED BY <2>1 DEF SettleAll, SettleInv
<1> QED BY <1>1, SettleCorrect, PTL DEF Spec, ClosedMeansSettled

\* And it stays closed over them: the workers that still write after the end change
\* no verdict, so the results of a completed task are final.
ClosedStaysSettled ==
    task.status = "completed" => InitialItem \subseteq Settled(queue, RetryFailedItems)

THEOREM ResultsAreFinal ==
    ASSUME Orderly, NoNewItems
    PROVE  Spec => []ClosedStaysSettled
<1>1. Init => ClosedStaysSettled
  BY DEF Init, ClosedStaysSettled
<1>2. SettleAll /\ ClosedStaysSettled /\ [Next]_vars => ClosedStaysSettled'
  <2> SUFFICES ASSUME SettleAll, ClosedStaysSettled, [Next]_vars
               PROVE  ClosedStaysSettled'
    OBVIOUS
  <2>a. TypeInv /\ LaunchInv /\ ClaimInv /\ SettleInv
    BY DEF SettleAll, OrderAll, BookAll
  <2>1. Settled(queue, RetryFailedItems) \subseteq Settled(queue', RetryFailedItems)
    BY <2>a, SettledGrows DEF Settled
  <2>2. CASE UNCHANGED task.status
    BY <2>1, <2>2 DEF ClosedStaysSettled
  <2>3. CASE CloseTask
    BY <2>a, <2>1, <2>3 DEF CloseTask, SettleInv, ClosedStaysSettled
  <2>4. CASE FailTask /\ task'.status = "failed"
    BY <2>4 DEF ClosedStaysSettled
  <2> QED BY <2>a, <2>2, <2>3, <2>4, StatusStep
<1> QED BY <1>1, <1>2, SettleCorrect, PTL DEF Spec

\* A verdict depends on the document of its item alone.
LEMMA VerdictOf ==
    ASSUME NEW q, NEW i \in Item
    PROVE  Verdict(q, i) =
              IF q[i].status = "completed" THEN "crawled"
              ELSE IF q[i].status = "failed" /\ q[i].retries >= RetryFailedItems
                   THEN "given_up" ELSE "open"
BY DEF Verdict, WithStatus, DefinitelyFailed

\* A step gives no verdict, or a worker gives one to an item it held.
LEMMA VerdictStep ==
    ASSUME TypeInv, LaunchInv, ClaimInv, SettleInv, NoNewItems, [Next]_vars
    PROVE  \/ Verdicts' = Verdicts
           \/ \E l \in Launch, j \in Item : WriteItem(l, j) /\
                 \E i \in InitialItem, v \in {"crawled", "given_up"} :
                    /\ Verdicts[i] = "open"
                    /\ Verdicts' = [Verdicts EXCEPT ![i] = v]
<1>a. InitialItem \subseteq Item
  BY CrawlTaskAssumption DEF CrawlTaskAssumption
<1>1. CASE \A j \in Item :
              \/ queue'[j] = queue[j]
              \/ /\ queue[j].status \in {"initial", "running", "failed"}
                 /\ j \notin DefinitelyFailed(queue, RetryFailedItems)
                 /\ queue'[j].status \in {"initial", "running"}
  <2>1. ASSUME NEW i \in InitialItem
        PROVE  Verdict(queue', i) = Verdict(queue, i)
    <3>1. i \in Item
      BY <1>a
    <3> QED BY <1>1, <3>1, VerdictOf DEF DefinitelyFailed, WithStatus
  <2> QED BY <2>1 DEF Verdicts
<1>2. ASSUME NEW l \in Launch, NEW i \in Item, WriteItem(l, i),
             queue[i].status = "running", i \in InitialItem,
             \A j \in Item \ {i} : queue'[j] = queue[j]
      PROVE  \/ Verdicts' = Verdicts
             \/ /\ Verdicts[i] = "open"
                /\ \E v \in {"crawled", "given_up"} :
                      Verdicts' = [Verdicts EXCEPT ![i] = v]
  <2>1. \A j \in InitialItem \ {i} : Verdict(queue', j) = Verdict(queue, j)
    BY <1>a, <1>2, VerdictOf
  <2>2. Verdict(queue, i) = "open"
    BY <1>2, VerdictOf
  <2>3. Verdict(queue', i) \in {"crawled", "given_up", "open"}
    BY <1>2, VerdictOf
  <2>4. CASE Verdict(queue', i) = "open"
    BY <2>1, <2>2, <2>4 DEF Verdicts
  <2>5. CASE Verdict(queue', i) \in {"crawled", "given_up"}
    <3>1. Verdicts' = [Verdicts EXCEPT ![i] = Verdict(queue', i)]
      BY <2>1 DEF Verdicts
    <3>2. Verdicts[i] = "open"
      BY <1>2, <2>2 DEF Verdicts
    <3> QED BY <2>5, <3>1, <3>2
  <2> QED BY <2>3, <2>4, <2>5
<1> QED BY <1>1, <1>2, QueueStep

\* The cycles, claims, retries and heals implement the ledger of verdicts.
THEOREM ImplementsLedger ==
    ASSUME Orderly, NoNewItems
    PROVE  Spec => LedgerSpec
<1>a. InitialItem \subseteq Item
  BY CrawlTaskAssumption DEF CrawlTaskAssumption
<1>1. Init => Ledger!Init
  <2> SUFFICES ASSUME Init PROVE Ledger!Init
    OBVIOUS
  <2>1. LedgerState = "open"
    BY DEF Init, LedgerState
  <2>2. ASSUME NEW i \in InitialItem PROVE Verdict(queue, i) = "open"
    BY <1>a, VerdictOf DEF Init, InsertItems, FreshDoc
  <2> QED BY <2>1, <2>2 DEF Ledger!Init, Verdicts
<1>2. SettleAll /\ [Next]_vars => [Ledger!Next]_(Ledger!vars)
  <2> SUFFICES ASSUME SettleAll, [Next]_vars PROVE [Ledger!Next]_(Ledger!vars)
    OBVIOUS
  <2>a. TypeInv /\ LaunchInv /\ ClaimInv /\ SettleInv
    BY DEF SettleAll, OrderAll, BookAll
  <2>1. CASE UNCHANGED task.status /\ Verdicts' = Verdicts
    BY <2>1 DEF LedgerState, Ledger!vars
  <2>2. CASE CloseTask /\ task'.status = "completed"
    <3>1. pc = "close" /\ Verdicts' = Verdicts
      BY <2>2 DEF CloseTask, Verdicts
    <3>2. LedgerState = "open" /\ LedgerState' = "closed"
      BY <2>2, <3>1 DEF LedgerState, SettleAll, OpenInv
    <3>3. \A i \in InitialItem : Verdicts[i] # "open"
      BY <1>a, <2>a, <3>1, VerdictOf
         DEF SettleInv, Settled, WithStatus, DefinitelyFailed, Verdicts
    <3> QED BY <3>1, <3>2, <3>3 DEF Ledger!Next, Ledger!Close
  <2>3. CASE FailTask /\ task'.status = "failed"
    <3>1. pc = "health" /\ Verdicts' = Verdicts
      BY <2>3 DEF FailTask, Verdicts
    <3>2. LedgerState = "open" /\ LedgerState' = "aborted"
      BY <2>3, <3>1 DEF LedgerState, SettleAll, OpenInv
    <3> QED BY <3>1, <3>2 DEF Ledger!Next, Ledger!Abort
  <2>4. ASSUME NEW l \in Launch, NEW j \in Item, WriteItem(l, j),
               NEW i \in InitialItem, NEW v \in {"crawled", "given_up"},
               Verdicts[i] = "open", Verdicts' = [Verdicts EXCEPT ![i] = v]
        PROVE  Ledger!Next
    <3>1. LedgerState' = LedgerState
      BY <2>4 DEF WriteItem, LedgerState
    <3> QED BY <2>4, <3>1 DEF Ledger!Next, Ledger!Settle
  <2>5. CASE \E l \in Launch, j \in Item : WriteItem(l, j)
    BY <2>a, <2>1, <2>4, <2>5, VerdictStep DEF WriteItem, NoNewItems
  <2>6. CASE Verdicts' = Verdicts
    BY <2>a, <2>1, <2>2, <2>3, <2>6, StatusStep
  <2> QED BY <2>a, <2>5, <2>6, VerdictStep
<1> QED BY <1>1, <1>2, SettleCorrect, PTL DEF Spec, LedgerSpec, Ledger!Spec

=============================================================================

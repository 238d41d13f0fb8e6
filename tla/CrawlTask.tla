------------------------------ MODULE CrawlTask ------------------------------
(***************************************************************************)
(* One crawl task from the first claim to its end: the scheduler's cycle   *)
(* (daemon.ts, runner.ts, workermeta.model.ts), the item queue, the worker *)
(* meta documents, and the crawl workers (index.ts, handler.ts,            *)
(* crawl_queue.ts), which share nothing but the two database collections.  *)
(*                                                                         *)
(* Every await of the scheduler and of a worker that touches the database  *)
(* or the network is a step of its own; between two of them anybody else   *)
(* may move.  Wall-clock time is abstracted: a worker may be found overdue *)
(* at any moment at which its threshold can have passed.                   *)
(***************************************************************************)
EXTENDS ItemQueue, LaunchPlan

CONSTANTS
    InitialItem,       \* the items inserted when the task was created
    RetryFailedItems,  \* task.retry_failed_items, which no API request changes here
    NumItemsWorker,    \* getNumItems(): how many items one worker claims
    MaxItemsPerSecond, \* task.max_items_per_second, in thousandths
    WorkerClass,       \* task.worker_type
    Measurement,       \* what avg_items_per_second_worker may hold in a cycle
    MaxWorkersPerCycle,\* task.max_workers, 0 when it is not set
    MaxLostWorkers,    \* task.max_lost_workers
    LostRatioNum,      \* config.max_lost_workers_ratio, as a fraction
    LostRatioDen,
    Longliving,        \* task.longliving
    Backend,           \* "lambda" or "docker"
    Outcome,           \* what may become of an item in a worker, see Result
    Environment,       \* the failures the environment may produce
    MaxLaunch,         \* bound: worker launches in one behaviour
    MaxFaults          \* bound: failures in one behaviour

\* die: a worker disappears; refused: an invocation fails; unacked: it succeeds
\* but its answer is lost; db: a worker's database call fails; crash: the
\* scheduler restarts; late: a worker outlives the lost threshold; enqueue: a
\* worker adds items to its own queue.
AllFaults == {"die", "refused", "unacked", "db", "crash", "late", "enqueue"}

ASSUME CrawlTaskAssumption ==
    /\ InitialItem \subseteq Item
    /\ RetryFailedItems \in Nat
    /\ NumItemsWorker \in Nat \ {0}
    /\ MaxItemsPerSecond \in Nat
    /\ WorkerClass \in WorkerType
    /\ Measurement \subseteq Measured
    /\ MaxWorkersPerCycle \in Nat
    /\ MaxLostWorkers \in Nat
    /\ LostRatioNum \in Nat
    /\ LostRatioDen \in Nat \ {0}
    /\ Longliving \in BOOLEAN
    /\ Backend \in {"lambda", "docker"}
    /\ Outcome \subseteq AllOutcomes
    /\ Environment \subseteq AllFaults
    /\ MaxLaunch \in Nat
    /\ MaxFaults \in Nat

Launch == 1 .. MaxLaunch

\* task.num_items is set when the items are inserted, and never again.
NumItems == Cardinality(InitialItem)

VARIABLES
    queue,     \* the item queue collection
    task,      \* the task document in the database
    mem,       \* the scheduler's copy of it, read by getTasks
    pc,        \* where the scheduler's cycle stands
    qs,        \* this.qstats: which of the counts were positive
    settled,   \* taskFinished: the first of its two counts
    found,     \* the worker meta documents a loop of the scheduler still visits
    batch,     \* the launch loop: workers left, acknowledged, metas to remove
    created,   \* number of worker meta documents ever created
    wid,       \* worker_id of each launch
    meta,      \* the worker meta collection
    phase,     \* where each worker stands
    claims,    \* how many claims a claiming worker has made
    held,      \* the claimed items a worker has still to write back
    copy,      \* the worker's copies of them
    tries,     \* history: how often each item was handed to a worker
    faults     \* failures so far

schedVars == <<mem, pc, qs, settled, found, batch>>
workerVars == <<phase, claims, held, copy, tries>>
vars == <<queue, task, schedVars, created, wid, meta, workerVars, faults>>

CrawlStatus == {"started", "paused", "completed", "failed"}

TaskDoc == [status : CrawlStatus, running : Nat, started : Nat, lost : Nat,
            worker_id : Nat]

MetaDoc == [status : {"none", "started", "completed", "lost"},
            ended : BOOLEAN]

NoMeta == [status |-> "none", ended |-> FALSE]

Phase == {"none", "claiming", "crawling", "writing", "reporting", "gone"}

PC == {"idle", "count_initial", "count_running", "count_failed",
       "count_settled", "count_completed", "close", "update_state", "updating",
       "detect_lost", "losing", "heal", "enqueue_failed", "refresh", "health",
       "launch", "invoke", "remove_meta", "save"}

NoStats == [st \in {"initial", "running", "failed"} |-> FALSE]
NoBatch == [left |-> 0, acked |-> 0, remove |-> {}]

MetaWith(st) == {l \in Launch : meta[l].status = st}

\* A worker process exists.
Alive(l) == phase[l] \in {"claiming", "crawling", "writing", "reporting"}

\* One of the MaxFaults failures happens.
Fault(kind) ==
    /\ kind \in Environment
    /\ faults < MaxFaults
    /\ faults' = faults + 1

-----------------------------------------------------------------------------
Init ==
    /\ queue = InsertItems([i \in Item |-> AbsentDoc], InitialItem)
    /\ task = [status |-> "started", running |-> 0, started |-> 0, lost |-> 0,
               worker_id |-> 0]
    /\ mem = task
    /\ pc = "idle"
    /\ qs = NoStats
    /\ settled = 0
    /\ found = {}
    /\ batch = NoBatch
    /\ created = 0
    /\ wid = [l \in Launch |-> 0]
    /\ meta = [l \in Launch |-> NoMeta]
    /\ phase = [l \in Launch |-> "none"]
    /\ claims = [l \in Launch |-> 0]
    /\ held = [l \in Launch |-> {}]
    /\ copy = [l \in Launch |-> [i \in Item |-> AbsentDoc]]
    /\ tries = [i \in Item |-> 0]
    /\ faults = 0

-----------------------------------------------------------------------------
(* The scheduler: statistics and the decision that the task is finished.   *)

\* The scheduler's locals of one task are dropped; the next cycle reads anew.
EndCycle ==
    /\ pc' = "idle"
    /\ mem' = task'
    /\ qs' = NoStats
    /\ settled' = 0
    /\ found' = {}
    /\ batch' = NoBatch

\* task.save() writes only what changed: the counters, never the status.
SaveCounters == task' = [mem EXCEPT !.status = task.status]

\* getTasks: started and paused tasks.  Under the policy absolute a cycle passes
\* over this one while an open task has a higher priority: then nothing happens
\* here, and no fairness says that it ever does.
GetTasks ==
    /\ pc = "idle"
    /\ task.status \in {"started", "paused"}
    /\ mem' = task
    /\ pc' = "count_initial"
    /\ UNCHANGED <<queue, task, qs, settled, found, batch, created, wid, meta,
                   workerVars, faults>>

\* getQueueStatistics runs one count after the other.  The count of completed
\* items is only logged.
Count(here, st, next) ==
    /\ pc = here
    /\ qs' = [qs EXCEPT ![st] = WithStatus(queue, st) # {}]
    /\ pc' = next
    /\ UNCHANGED <<queue, task, mem, settled, found, batch, created, wid, meta,
                   workerVars, faults>>

CountInitial == Count("count_initial", "initial", "count_running")

CountRunning == Count("count_running", "running", "count_failed")

\* After the last count, taskFinished returns early for a long living task and
\* for one with initial items.
CountFailed ==
    Count("count_failed", "failed",
          IF Longliving \/ qs.initial THEN "update_state" ELSE "count_settled")

\* Mutant of NumDefinitelyFailed: the items to be retried are counted, too.
NumFailed == Cardinality(WithStatus(queue, "failed"))

NumDefinitelyFailed == Cardinality(DefinitelyFailed(queue, RetryFailedItems))

CountDefinitelyFailed ==
    /\ pc = "count_settled"
    /\ settled' = NumDefinitelyFailed
    /\ pc' = "count_completed"
    /\ UNCHANGED <<queue, task, mem, qs, found, batch, created, wid, meta,
                   workerVars, faults>>

CountCompleted ==
    /\ pc = "count_completed"
    /\ pc' = IF settled + Cardinality(WithStatus(queue, "completed")) >= NumItems
             THEN "close" ELSE "update_state"
    /\ settled' = 0
    /\ UNCHANGED <<queue, task, mem, qs, found, batch, created, wid, meta,
                   workerVars, faults>>

CloseTask ==
    /\ pc = "close"
    /\ task' = [task EXCEPT !.status = "completed"]
    /\ EndCycle
    /\ UNCHANGED <<queue, created, wid, meta, workerVars, faults>>

-----------------------------------------------------------------------------
(* The scheduler: processWorkerMeta.                                        *)

\* Mutant of OneWorkerLess: the counter is not decremented.
OneWorkerKept(doc) == doc

\* Mutant of OneWorkerLess: a worker that reported counts as lost, too.
OneWorkerOff(doc) ==
    [doc EXCEPT !.running = IF @ > 0 THEN @ - 1 ELSE 0, !.lost = @ + 1]

OneWorkerLess(doc) ==
    [doc EXCEPT !.running = IF @ > 0 THEN @ - 1 ELSE 0]

\* Mutant of OneWorkerLost: the loss is not counted.
OneWorkerVanished(doc) == OneWorkerLess(doc)

OneWorkerLost(doc) == [OneWorkerLess(doc) EXCEPT !.lost = @ + 1]

\* updateState: the metas of workers that reported since the last cycle.
FindFinished ==
    /\ pc = "update_state"
    /\ found' = {l \in MetaWith("started") : meta[l].ended}
    /\ pc' = "updating"
    /\ UNCHANGED <<queue, task, mem, qs, settled, batch, created, wid, meta,
                   workerVars, faults>>

CompleteMeta(l) ==
    /\ pc = "updating"
    /\ l \in found
    /\ meta' = [meta EXCEPT ![l].status = "completed"]
    /\ mem' = OneWorkerLess(mem)
    /\ found' = found \ {l}
    /\ UNCHANGED <<queue, task, pc, qs, settled, batch, created, wid,
                   workerVars, faults>>

SaveFinished ==
    /\ pc = "updating"
    /\ found = {}
    /\ SaveCounters
    /\ pc' = "detect_lost"
    /\ UNCHANGED <<queue, mem, qs, settled, found, batch, created, wid, meta,
                   workerVars, faults>>

\* A started worker whose threshold can have passed.  A lambda worker is killed
\* long before, so it is overdue only when it is gone.
Overdue(l) == "late" \in Environment \/ ~Alive(l)

\* detectLostWorkers: S are the unreported workers past the threshold.
FindLost(S) ==
    /\ pc = "detect_lost"
    /\ S \subseteq {l \in MetaWith("started") : ~meta[l].ended /\ Overdue(l)}
    /\ found' = S
    /\ pc' = "losing"
    /\ UNCHANGED <<queue, task, mem, qs, settled, batch, created, wid, meta,
                   workerVars, faults>>

MarkLost(l) ==
    /\ pc = "losing"
    /\ l \in found
    /\ meta' = [meta EXCEPT ![l].status = "lost"]
    /\ mem' = OneWorkerLost(mem)
    /\ found' = found \ {l}
    /\ UNCHANGED <<queue, task, pc, qs, settled, batch, created, wid,
                   workerVars, faults>>

SaveLost ==
    /\ pc = "losing"
    /\ found = {}
    /\ SaveCounters
    /\ pc' = "heal"
    /\ UNCHANGED <<queue, mem, qs, settled, found, batch, created, wid, meta,
                   workerVars, faults>>

\* Mutant of MayHeal: the workers that still run are not looked at.
MayHealAnytime(quiet) == qs.running /\ (mem.lost > 0 \/ quiet)

MayHeal(quiet) == qs.running /\ mem.running = 0 /\ (mem.lost > 0 \/ quiet)

\* healQueue: quiet says that the last completed worker ended 6 minutes ago.
HealQueue(quiet) ==
    /\ pc = "heal"
    /\ quiet => MetaWith("completed") # {}
    /\ queue' = IF MayHeal(quiet) THEN ResetQueueItems(queue) ELSE queue
    /\ pc' = "enqueue_failed"
    /\ UNCHANGED <<task, mem, qs, settled, found, batch, created, wid, meta,
                   workerVars, faults>>

EnqueueFailed ==
    /\ pc = "enqueue_failed"
    /\ IF qs.failed /\ ~qs.running
       THEN /\ queue' = EnqueueFailedItems(queue, RetryFailedItems)
            /\ pc' = "refresh"
       ELSE /\ pc' = "health"
            /\ UNCHANGED queue
    /\ UNCHANGED <<task, mem, qs, settled, found, batch, created, wid, meta,
                   workerVars, faults>>

\* The statistics are taken again; from here on only initial is read.
RefreshStatistics == Count("refresh", "initial", "health")

-----------------------------------------------------------------------------
(* The scheduler: health check and launches.                                *)

\* lost / started >= max_lost_workers_ratio; 0 / 0 compares as false.
TooManyLost ==
    /\ mem.lost >= MaxLostWorkers
    /\ mem.lost > 0 \/ mem.started > 0
    /\ mem.lost * LostRatioDen >= mem.started * LostRatioNum

Unhealthy == mem.running > 200 \/ TooManyLost

FailTask ==
    /\ pc = "health"
    /\ Unhealthy
    /\ task' = [task EXCEPT !.status = "failed"]
    /\ EndCycle
    /\ UNCHANGED <<queue, created, wid, meta, workerVars, faults>>

\* m is what was measured so far.
ToLaunch(m) ==
    IF mem.status # "started" THEN 0
    ELSE NumWorkersToLaunch(
             MaxWorkersConcurrentlyRunning(MaxItemsPerSecond, m, WorkerClass),
             mem.running, MaxWorkersPerCycle, IF qs.initial THEN 1 ELSE 0)

\* Nothing to start: the task is paused, has no initial item or enough workers.
LaunchNone ==
    /\ pc = "health"
    /\ ~Unhealthy
    /\ \/ \E m \in Measurement : ToLaunch(m) = 0
       \/ created = MaxLaunch
    /\ task' = task
    /\ EndCycle
    /\ UNCHANGED <<queue, created, wid, meta, workerVars, faults>>

PlanLaunch(m) ==
    /\ pc = "health"
    /\ ~Unhealthy
    /\ ToLaunch(m) > 0
    /\ created < MaxLaunch
    /\ batch' = [NoBatch EXCEPT !.left =
                     IF ToLaunch(m) <= MaxLaunch - created THEN ToLaunch(m)
                     ELSE MaxLaunch - created]
    /\ pc' = "launch"
    /\ UNCHANGED <<queue, task, mem, qs, settled, found, created, wid, meta,
                   workerVars, faults>>

\* The meta document is created before the worker is invoked.
CreateMeta ==
    /\ pc = "launch"
    /\ batch.left > 0
    /\ created' = created + 1
    /\ meta' = [meta EXCEPT ![created'] = [status |-> "started", ended |-> FALSE]]
    /\ wid' = [wid EXCEPT ![created'] = mem.worker_id]
    /\ pc' = "invoke"
    /\ UNCHANGED <<queue, task, mem, qs, settled, found, batch, workerVars,
                   faults>>

\* Mutant of NextWorkerId: every launch takes the same id.
SameWorkerId(doc) == doc

NextWorkerId(doc) == [doc EXCEPT !.worker_id = @ + 1]

\* The answer of an invocation: acknowledged, failed, or lost although the
\* worker runs.  A failing docker endpoint is dropped, and without endpoints
\* the loop ends.
Invoke ==
    /\ pc = "invoke"
    /\ \E acked, started \in BOOLEAN :
          /\ acked => started
          /\ IF acked THEN UNCHANGED faults
             ELSE Fault(IF started THEN "unacked" ELSE "refused")
          /\ phase' = [phase EXCEPT ![created] =
                           IF started THEN "claiming" ELSE "gone"]
          /\ \E left \in {batch.left - 1} \cup
                         (IF Backend = "docker" /\ ~acked THEN {0} ELSE {}) :
                batch' = [left   |-> left,
                          acked  |-> batch.acked + (IF acked THEN 1 ELSE 0),
                          remove |-> batch.remove \cup
                                        (IF acked THEN {} ELSE {created})]
    /\ mem' = NextWorkerId(mem)
    /\ pc' = IF batch'.left = 0 THEN "remove_meta" ELSE "launch"
    /\ UNCHANGED <<queue, task, qs, settled, found, created, wid, meta, claims,
                   held, copy, tries>>

\* The lambda runner deletes documents, the docker runner deletes worker ids.
RemovedMeta ==
    IF Backend = "lambda" THEN batch.remove
    ELSE {l \in 1 .. created : \E k \in batch.remove : wid[l] = wid[k]}

RemoveWorkerMeta ==
    /\ pc = "remove_meta"
    /\ meta' = [l \in Launch |-> IF l \in RemovedMeta THEN NoMeta ELSE meta[l]]
    /\ pc' = "save"
    /\ UNCHANGED <<queue, task, mem, qs, settled, found, batch, created, wid,
                   workerVars, faults>>

SaveLaunched ==
    /\ pc = "save"
    /\ task' = [mem EXCEPT !.status = task.status,
                           !.running = @ + batch.acked,
                           !.started = @ + batch.acked]
    /\ EndCycle
    /\ UNCHANGED <<queue, created, wid, meta, workerVars, faults>>

\* The scheduler dies between two steps and is started again.
Crash ==
    /\ pc # "idle"
    /\ Fault("crash")
    /\ task' = task
    /\ EndCycle
    /\ UNCHANGED <<queue, created, wid, meta, workerVars>>

-----------------------------------------------------------------------------
(* The crawl workers.                                                       *)

Goto(l, p) == phase' = [phase EXCEPT ![l] = p]

Drop(l) ==
    /\ claims' = [claims EXCEPT ![l] = 0]
    /\ held' = [held EXCEPT ![l] = {}]
    /\ copy' = [copy EXCEPT ![l] = [i \in Item |-> AbsentDoc]]

Tried(i) == tries' = [tries EXCEPT ![i] = @ + 1]

\* getItemsToCrawlSafe claims one item per database call; an item that was healed
\* meanwhile can be claimed again.
ClaimItem(l, i) ==
    /\ phase[l] = "claiming"
    /\ claims[l] < NumItemsWorker
    /\ i \in Claimable(queue)
    /\ queue' = TakeItem(queue, i)
    /\ claims' = [claims EXCEPT ![l] = @ + 1]
    /\ held' = [held EXCEPT ![l] = @ \cup {i}]
    /\ copy' = [copy EXCEPT ![l][i] = queue'[i]]
    /\ Tried(i)
    /\ UNCHANGED <<task, schedVars, created, wid, meta, phase, faults>>

\* It stops when it has enough, when the queue has nothing to claim, or when a
\* call fails; without an item the worker goes straight to its meta.
StopClaiming(l) ==
    /\ phase[l] = "claiming"
    /\ \/ /\ claims[l] = NumItemsWorker \/ Claimable(queue) = {}
          /\ UNCHANGED faults
       \/ Fault("db")
    /\ claims' = [claims EXCEPT ![l] = 0]
    /\ Goto(l, IF held[l] = {} THEN "reporting" ELSE "crawling")
    /\ UNCHANGED <<queue, task, schedVars, created, wid, meta, held, copy, tries>>

\* The claim is applied but its answer is lost: nobody knows that it was made.
ClaimLost(l, i) ==
    /\ phase[l] = "claiming"
    /\ claims[l] < NumItemsWorker
    /\ i \in Claimable(queue)
    /\ Fault("db")
    /\ queue' = TakeItem(queue, i)
    /\ Tried(i)
    /\ claims' = [claims EXCEPT ![l] = 0]
    /\ Goto(l, IF held[l] = {} THEN "reporting" ELSE "crawling")
    /\ UNCHANGED <<task, schedVars, created, wid, meta, held, copy>>

Usual(outcome, S) == \A i \in S : outcome[i] \in {"completed", "failed"}

\* The worker crawls and stores its items.  Items are either abandoned by the
\* loop or left untouched by an exception that ended it, never both.
Crawl(l) ==
    /\ phase[l] = "crawling"
    /\ \E outcome \in [held[l] -> Outcome] :
          /\ ~ ({"abandoned", "untouched"} \subseteq {outcome[i] : i \in held[l]})
          /\ copy' = [copy EXCEPT ![l] =
                          [i \in Item |-> IF i \in held[l]
                                          THEN Result(copy[l][i], outcome[i])
                                          ELSE copy[l][i]]]
          /\ IF Usual(outcome, held[l]) THEN UNCHANGED faults
             ELSE faults < MaxFaults /\ faults' = faults + 1
    /\ Goto(l, "writing")
    /\ UNCHANGED <<queue, task, schedVars, created, wid, meta, claims, held, tries>>

\* EnqueueHandler.insertItems, called by the crawl function: the new items
\* join the worker's own queue; task.num_items does not change.
EnqueueItem(l, i) ==
    /\ "enqueue" \in Environment
    /\ phase[l] = "crawling"
    /\ queue[i].status = "absent"
    /\ queue' = InsertItems(queue, {i})
    /\ UNCHANGED <<task, schedVars, created, wid, meta, workerVars, faults>>

\* updateQueueNew: one updateOne of the bulk; the bulk is not atomic.
WriteItem(l, i) ==
    /\ phase[l] = "writing"
    /\ i \in held[l]
    /\ queue' = OverwriteItem(queue, i, copy[l][i])
    /\ held' = [held EXCEPT ![l] = @ \ {i}]
    /\ copy' = [copy EXCEPT ![l][i] = AbsentDoc]
    /\ Goto(l, IF held'[l] = {} THEN "reporting" ELSE "writing")
    /\ UNCHANGED <<task, schedVars, created, wid, meta, claims, tries, faults>>

\* The bulk fails here: the error is swallowed, the worker goes on.
WriteFails(l) ==
    /\ phase[l] = "writing"
    /\ Fault("db")
    /\ Drop(l)
    /\ Goto(l, "reporting")
    /\ UNCHANGED <<queue, task, schedVars, created, wid, meta, tries>>

\* updateWorkerMetaNew updates the first document with the worker's id.
MetaOf(l) == {k \in 1 .. created : wid[k] = wid[l] /\ meta[k].status # "none"}

Report(l) ==
    /\ phase[l] = "reporting"
    /\ \/ /\ meta' = [k \in Launch |->
                         IF k \in MetaOf(l) /\ \A j \in MetaOf(l) : k <= j
                         THEN [meta[k] EXCEPT !.ended = TRUE] ELSE meta[k]]
          /\ UNCHANGED faults
       \/ Fault("db") /\ UNCHANGED meta
    /\ Goto(l, "gone")
    /\ UNCHANGED <<queue, task, schedVars, created, wid, claims, held, copy, tries>>

\* The process disappears: out of memory, timeout, reclaimed spot instance, or
\* an error before the first claim.
Die(l) ==
    /\ Alive(l)
    /\ Fault("die")
    /\ Drop(l)
    /\ Goto(l, "gone")
    /\ UNCHANGED <<queue, task, schedVars, created, wid, meta, tries>>

-----------------------------------------------------------------------------
Scheduler ==
    \/ GetTasks
    \/ CountInitial
    \/ CountRunning
    \/ CountFailed
    \/ CountDefinitelyFailed
    \/ CountCompleted
    \/ CloseTask
    \/ FindFinished
    \/ \E l \in Launch : CompleteMeta(l)
    \/ SaveFinished
    \/ \E S \in SUBSET Launch : FindLost(S)
    \/ \E l \in Launch : MarkLost(l)
    \/ SaveLost
    \/ \E quiet \in BOOLEAN : HealQueue(quiet)
    \/ EnqueueFailed
    \/ RefreshStatistics
    \/ FailTask
    \/ LaunchNone
    \/ \E m \in Measurement : PlanLaunch(m)
    \/ CreateMeta
    \/ Invoke
    \/ RemoveWorkerMeta
    \/ SaveLaunched

Worker(l) ==
    \/ \E i \in Item : ClaimItem(l, i)
    \/ StopClaiming(l)
    \/ Crawl(l)
    \/ \E i \in Item : WriteItem(l, i)
    \/ Report(l)

Disturbance ==
    \/ Crash
    \/ \E l \in Launch, i \in Item : EnqueueItem(l, i) \/ ClaimLost(l, i)
    \/ \E l \in Launch : WriteFails(l) \/ Die(l)

Next ==
    \/ Scheduler
    \/ \E l \in Launch : Worker(l)
    \/ Disturbance

Spec == Init /\ [][Next]_vars

\* A cycle that picked the task goes on to its end, workers run until they end,
\* and time passes: of the cycles that pick the task, some later one finds a silent
\* worker overdue and sees the six minutes after the last report.  Whether
\* cycles pick the task is up to the other tasks.
Fairness ==
    /\ WF_vars(pc # "idle" /\ Scheduler)
    /\ \A l \in Launch : WF_vars(Worker(l))
    /\ \A l \in Launch : SF_vars(\E S \in SUBSET Launch : l \in S /\ FindLost(S))
    /\ SF_vars(HealQueue(TRUE))

FairSpec == Spec /\ Fairness

-----------------------------------------------------------------------------
(* Properties.                                                              *)

\* Every variable has its type.
TypeOK ==
    /\ queue \in [Item -> QueueDoc]
    /\ task \in TaskDoc
    /\ mem \in TaskDoc
    /\ pc \in PC
    /\ qs \in [{"initial", "running", "failed"} -> BOOLEAN]
    /\ settled \in Nat
    /\ found \in SUBSET Launch
    /\ batch \in [left : Nat, acked : Nat, remove : SUBSET Launch]
    /\ created \in 0 .. MaxLaunch
    /\ wid \in [Launch -> Nat]
    /\ meta \in [Launch -> MetaDoc]
    /\ phase \in [Launch -> Phase]
    /\ claims \in [Launch -> Nat]
    /\ held \in [Launch -> SUBSET Item]
    /\ copy \in [Launch -> [Item -> QueueDoc]]
    /\ tries \in [Item -> Nat]
    /\ faults \in Nat

\* An item a worker has still to write back is held by that worker alone, and
\* the queue shows it as running: findOneAndUpdate hands it out once, and
\* neither healing nor re-enqueueing gives it to a second worker meanwhile.
ExclusiveClaim ==
    \A l \in Launch : \A i \in held[l] :
        /\ queue[i].status = "running"
        /\ \A k \in Launch \ {l} : i \notin held[k]

\* Between two cycles the synchronization counter num_workers_running is the
\* number of workers whose meta is still in state started, so neither
\* capacity is lost for good nor is a running worker overlooked.
CounterMatchesMeta ==
    pc = "idle" => task.running = Cardinality(MetaWith("started"))

\* A heal never takes an item away from a worker that can still write it.
HealTouchesNoClaim ==
    [][pc = "heal" /\ pc' # pc /\ queue' # queue
         => \A l \in Launch : held[l] = {}]_vars

\* A running item that no worker holds any more is never beyond repair: the
\* scheduler has a lost worker, a completed meta, or a meta that will become
\* one of the two, and so healQueue will reset the item.
OrphanCanHeal ==
    \A i \in WithStatus(queue, "running") :
        (\A l \in Launch : i \notin held[l]) =>
            \/ mem.lost > 0
            \/ MetaWith("started") \cup MetaWith("completed") # {}

\* The date of an item and its status never disagree, whoever overwrites it:
\* getItemsToCrawlSafe wants crawled to be null, so an initial item with a date
\* would be waited for forever, and getRecentCompleted wants completed items to
\* have one.
CrawledIffCompleted ==
    \A i \in Item : queue[i].crawled <=> queue[i].status = "completed"

\* How often an item is tried has its limit: it is handed to workers as often as
\* retry_failed_items says, or once if that is 0, and beyond that only once more for
\* each failure that happened: a worker that died, a call or a write that failed, an
\* attempt that was blocked or not stored.
TriesBounded ==
    \A i \in Item :
        tries[i] <= (IF RetryFailedItems = 0 THEN 1 ELSE RetryFailedItems) + faults

Closes == task.status # "completed" /\ task'.status = "completed"

\* The daemon closes a task only when every item in the queue was crawled or failed
\* for good.  Failed for good is what queue.model.ts:119 counts and line 262 leaves
\* alone, retries at the limit or above: the two queries agree.  The comment of
\* taskFinished says otherwise, see LimitIsTemporary.
ClosedMeansSettled ==
    [][Closes => \A i \in Item : queue[i].status # "absent"
                                   => i \in Settled(queue, RetryFailedItems)]_vars

\* What daemon.ts:91 says: failed items with retries <= retry_failed_items count as
\* temporarily failed, so a task that has one is not finished.
LimitIsTemporary ==
    [][Closes => \A i \in WithStatus(queue, "failed") :
                     queue[i].retries > RetryFailedItems]_vars

\* The workers that are gone and never reported, and that were counted as lost.
Vanished == {l \in MetaWith("lost") : ~Alive(l) /\ ~meta[l].ended}

\* A task is aborted only when at least max_lost_workers of its workers vanished,
\* and that many of all it launched: the two counters, each read and saved with a
\* stale copy, are those of the documents at that moment.
AbortNeedsLosses ==
    [][task.status # "failed" /\ task'.status = "failed" =>
           \/ Cardinality(MetaWith("started")) > 200
           \/ /\ Cardinality(Vanished) >= MaxLostWorkers
              /\ Cardinality(Vanished) * LostRatioDen
                     >= Cardinality(Launch \ MetaWith("none")) * LostRatioNum]_vars

\* What the task promises of its items, seen in the queue: see ItemLedger.
Verdict(q, i) ==
    CASE i \in WithStatus(q, "completed")               -> "crawled"
      [] i \in DefinitelyFailed(q, RetryFailedItems) -> "given_up"
      [] OTHER                                          -> "open"

Verdicts == [i \in InitialItem |-> Verdict(queue, i)]

LedgerState ==
    CASE task.status = "completed" -> "closed"
      [] task.status = "failed"    -> "aborted"
      [] OTHER                     -> "open"

Ledger == INSTANCE ItemLedger
          WITH Item <- InitialItem, verdict <- Verdicts, state <- LedgerState

\* The cycles, claims, retries and heals implement the ledger: an item that was
\* crawled or given up is never opened again, and the task closes over its items
\* only when each has its verdict.
LedgerSpec == Ledger!Spec

\* A task that cycles pick again and again ends: no lost worker, failed invocation,
\* failed database call or aborted crawl leaves items or capacity behind that keep it
\* open forever.
Termination ==
    []<><<GetTasks>>_vars => <>(task.status \in {"completed", "failed"})

\* n workers stay within max_items_per_second at a speed that was measured, except
\* that one may always run.
InRate(n) ==
    \/ n <= 1
    \/ \E m \in Measurement :
          n * WorkerSpeed(m, WorkerClass).num
              <= MaxItemsPerSecond * WorkerSpeed(m, WorkerClass).den

\* The workers that run crawl no faster together than the task allows, although the
\* counter the launch relies on is updated at other moments than workers start and
\* end.
RateKept == InRate(Cardinality({l \in Launch : Alive(l)}))

\* No two launches have the same worker id.
WorkerIdsUnique ==
    \A l, k \in 1 .. created : wid[l] = wid[k] => l = k

=============================================================================

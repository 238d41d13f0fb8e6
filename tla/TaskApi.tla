------------------------------- MODULE TaskApi -------------------------------
(***************************************************************************)
(* The REST API (crawltask.service.ts, queue.service.ts) and the scheduler *)
(* on the same documents.  A request handler is a sequence of awaits, so   *)
(* creating, deleting and healing a task take several steps, and the       *)
(* daemon's cycle, itself working on copies of the task documents, runs in *)
(* between.  CrawlTask has the cycle of one task in detail; here it is     *)
(* reduced to the steps that meet a request: reading the tasks, opening    *)
(* the queue, the counts, the saves and the launch.                        *)
(*                                                                         *)
(* Nobody catches a rejected database call of the daemon, nor the save of  *)
(* a document that somebody else has deleted: its loop ends while the      *)
(* process stays.  A queue without a name ends the process, which is       *)
(* restarted a few times (docker-compose.yml).                             *)
(*                                                                         *)
(* A crawl may enqueue items, into the queue of its own task or of another *)
(* one (enqueue.ts), without looking at what became of the task.           *)
(***************************************************************************)
EXTENDS ItemQueue, Integers

CONSTANTS
    Task,         \* the tasks that may ever be created
    Payload,      \* what the requests to create a task carry
    MaxLaunch,    \* bound: worker launches in one behaviour
    Requests,     \* the kinds of requests clients make
    Updates,      \* the updates they ask for
    Environment,  \* whose database calls may fail; whether crawls enqueue items
    RetryFailedItems,  \* retry_failed_items of a new task
    MaxRequests,  \* bound: requests in one behaviour
    MaxRestarts,  \* max_attempts of the scheduler's restart policy
    MaxFaults     \* bound: failed database calls

AllRequests == {"create", "delete", "drop", "enqueue", "heal", "pause", "resume",
                "update"}

Launches == 1 .. MaxLaunch

VARIABLES
    task,      \* the task documents
    queue,     \* the queue collection of each task
    creation,  \* the request that creates each task
    deletion,  \* where the deletion of each task stands
    healing,   \* what a heal request is about to reset
    chosen,    \* the items an enqueue request is about to reset
    requests,  \* requests made so far
    faults,    \* failures so far
    daemon,    \* running, hung or stopped
    restarts,  \* how often the scheduler was restarted
    todo,      \* the tasks the cycle has still to serve
    mem,       \* the scheduler's copies of the task documents
    cur,       \* the task it serves
    pc,        \* where it stands with that task
    counted,   \* the counts it took
    worker,    \* the workers
    orphaned,  \* history: tasks removed without the queue they have or get
    reopened,  \* history: tasks whose items were reset by a request, until a cycle
               \* finds none of them with a worker
    altered    \* history: tasks with items, a number of items or a queue that are
               \* not those of their creation

reqVars == <<creation, deletion, healing, chosen, requests>>
apiVars == <<reqVars, faults>>
schedVars == <<daemon, restarts, todo, mem, cur, pc, counted>>
history == <<orphaned, reopened, altered>>
vars == <<task, queue, apiVars, schedVars, worker, history>>

CrawlStatus == {"started", "paused", "completed", "failed"}

\* The fields of a task document that decide something here; queue says
\* whether the names of its two collections are set.
TaskDoc == [status : CrawlStatus \cup {"absent"}, queue : BOOLEAN, num_items : Nat,
            running : Nat, retry : Nat, longliving : BOOLEAN]

Fields == {"status", "queue", "num_items", "running", "retry", "longliving"}

NoTask == [status |-> "absent", queue |-> FALSE, num_items |-> 0, running |-> 0,
           retry |-> 0, longliving |-> FALSE]

ASSUME TaskApiAssumption ==
    /\ Payload \subseteq [kind : {"none", "array", "file"}, items : SUBSET Item,
                          blanks : Nat, unfinished : BOOLEAN]
    /\ \A p \in Payload : p.kind = "none" => p.items = {} /\ p.blanks = 0
    /\ MaxLaunch \in Nat
    /\ Requests \subseteq AllRequests
    /\ Updates \subseteq [keys : SUBSET Fields, doc : TaskDoc]
    /\ \A u \in Updates : u.doc.status # "absent"
    /\ Environment \subseteq {"api", "scheduler", "enqueue"}
    /\ RetryFailedItems \in Nat
    /\ MaxRequests \in Nat
    /\ MaxRestarts \in Nat
    /\ MaxFaults \in Nat

Creation == [phase : {"none", "insert", "save", "done"},
             kind : {"none", "array", "file"}, left : SUBSET Item, lines : Nat,
             blanks : BOOLEAN]

NoCreation == [phase |-> "none", kind |-> "none", left |-> {}, lines |-> 0,
               blanks |-> FALSE]

\* into: the task whose queue the crawl has looked up to enqueue items.
WorkerDoc == [task : Task, item : SUBSET Item, doc : QueueDoc, into : SUBSET Task,
              phase : {"none", "claiming", "crawling", "ended"}, meta : BOOLEAN]

NoCounts == [initial |-> FALSE, settled |-> 0]

NoQueue == [i \in Item |-> AbsentDoc]

Exists(t) == task[t].status # "absent"

Stored(q) == {i \in Item : q[i].status # "absent"}

\* One of the MaxFaults failed calls.
Fault(who) ==
    /\ who \in Environment
    /\ faults < MaxFaults
    /\ faults' = faults + 1

\* One of the MaxRequests requests.
Request(kind) ==
    /\ kind \in Requests
    /\ requests < MaxRequests
    /\ requests' = requests + 1

Init ==
    /\ task = [t \in Task |-> NoTask]
    /\ queue = [t \in Task |-> NoQueue]
    /\ creation = [t \in Task |-> NoCreation]
    /\ deletion = [t \in Task |-> "none"]
    /\ healing = [t \in Task |-> "none"]
    /\ chosen = [t \in Task |-> {}]
    /\ requests = 0
    /\ faults = 0
    /\ daemon = "running"
    /\ restarts = 0
    /\ todo = {}
    /\ mem = [t \in Task |-> NoTask]
    /\ cur \in Task
    /\ pc = "idle"
    /\ counted = NoCounts
    /\ worker = [w \in Launches |-> [task |-> cur, item |-> {}, doc |-> AbsentDoc,
                                     into |-> {}, phase |-> "none", meta |-> FALSE]]
    /\ orphaned = {}
    /\ reopened = {}
    /\ altered = {}

-----------------------------------------------------------------------------
(* Creating a task. *)

\* items.length of an array; a file is counted while it is read.
Announced(p) == IF p.kind = "array" THEN Cardinality(p.items) + p.blanks ELSE 0

NewDoc(p, st, named) ==
    [status |-> st, queue |-> named, num_items |-> Announced(p), running |-> 0,
     retry |-> RetryFailedItems, longliving |-> FALSE]

\* Mutant of FirstDoc: the queue is named before it has its items.
NamedAtOnce(p, st) == NewDoc(p, st, TRUE)

\* The document is stored before anything else of the task exists.
FirstDoc(p, st) == NewDoc(p, st, FALSE)

\* The items that are read.  Of a file that does not end in a newline, chunkRead
\* takes the last line for the beginning of another one and loses it.
Readable(p) ==
    IF p.kind = "file" /\ p.unfinished
    THEN {S \in SUBSET p.items : Cardinality(p.items \ S) = 1} ELSE {p.items}

\* A request that passes the checks; one that does not changes nothing.
CreateTask(t, p, st) ==
    /\ creation[t].phase = "none"
    /\ Request("create")
    /\ task' = [task EXCEPT ![t] = FirstDoc(p, st)]
    /\ \E S \in Readable(p) :
           creation' = [creation EXCEPT ![t] =
               [phase |-> IF S = {} THEN "save" ELSE "insert", kind |-> p.kind,
                left |-> S, lines |-> p.blanks, blanks |-> p.blanks > 0]]
    /\ UNCHANGED <<queue, deletion, healing, chosen, faults, schedVars, worker, history>>

\* insertMany stores one more item; blank lines are counted but not stored.
InsertItem(t, i) ==
    /\ creation[t].phase = "insert"
    /\ i \in creation[t].left
    /\ queue' = [queue EXCEPT ![t] = InsertItems(@, {i})]
    /\ creation' = [creation EXCEPT
           ![t].left = @ \ {i}, ![t].lines = @ + 1,
           ![t].phase = IF creation[t].left = {i} THEN "save" ELSE "insert"]
    /\ UNCHANGED <<task, deletion, healing, chosen, requests, faults, schedVars, worker,
                   history>>

\* chunkRead breaks off and keeps what it has; for an array the request fails
\* and leaves its document behind.
InsertFails(t) ==
    /\ creation[t].phase = "insert"
    /\ Fault("api")
    /\ creation' = [creation EXCEPT
           ![t].phase = IF creation[t].kind = "file" THEN "save" ELSE "done"]
    /\ UNCHANGED <<task, queue, deletion, healing, chosen, requests, schedVars, worker,
                   history>>

NumItems(t) ==
    IF creation[t].kind = "file" THEN creation[t].lines ELSE task[t].num_items

\* The last save names the collections; it fails when the task is gone.
SaveNewTask(t) ==
    /\ creation[t].phase = "save"
    /\ \/ /\ task' = IF ~Exists(t) THEN task
                     ELSE [task EXCEPT ![t].queue = creation[t].kind # "none",
                                       ![t].num_items = NumItems(t)]
          /\ UNCHANGED faults
       \/ Fault("api") /\ UNCHANGED task
    /\ creation' = [creation EXCEPT ![t].phase = "done"]
    /\ UNCHANGED <<queue, deletion, healing, chosen, requests, schedVars, worker, history>>

-----------------------------------------------------------------------------
(* Deleting a task. *)

\* The document read at the start decides whether there is a queue to drop.
DeleteTask(t) ==
    /\ Exists(t)
    /\ deletion[t] = "none"
    /\ Request("delete")
    /\ deletion' = [deletion EXCEPT ![t] = IF task[t].queue THEN "queue" ELSE "doc"]
    /\ orphaned' = IF task[t].queue /\ creation[t].phase = "done" THEN orphaned
                   ELSE orphaned \cup {t}
    /\ UNCHANGED <<task, queue, creation, healing, chosen, faults, schedVars, worker,
                   reopened, altered>>

\* Mutant of AfterDropFailed: the deletion goes on.
CarryOn == "meta"

AfterDropFailed == "none"

\* To drop a collection that does not exist is a failure as well.
DropQueue(t) ==
    /\ deletion[t] = "queue"
    /\ \/ /\ queue' = [queue EXCEPT ![t] = NoQueue]
          /\ deletion' = [deletion EXCEPT ![t] = "meta"]
          /\ UNCHANGED faults
       \/ /\ Fault("api") \/ (Stored(queue[t]) = {} /\ UNCHANGED faults)
          /\ deletion' = [deletion EXCEPT ![t] = AfterDropFailed]
          /\ UNCHANGED queue
    /\ UNCHANGED <<task, creation, healing, chosen, requests, schedVars, worker, history>>

\* A failure is only logged.
DropWorkerMeta(t) ==
    /\ deletion[t] = "meta"
    /\ deletion' = [deletion EXCEPT ![t] = "doc"]
    /\ \/ /\ worker' = [w \in Launches |->
                 IF worker[w].task = t THEN [worker[w] EXCEPT !.meta = FALSE]
                 ELSE worker[w]]
          /\ UNCHANGED faults
       \/ Fault("api") /\ UNCHANGED worker
    /\ UNCHANGED <<task, queue, creation, healing, chosen, requests, schedVars, history>>

DeleteDoc(t) ==
    /\ deletion[t] = "doc"
    /\ \/ task' = [task EXCEPT ![t] = NoTask] /\ UNCHANGED faults
       \/ Fault("api") /\ UNCHANGED task
    /\ deletion' = [deletion EXCEPT ![t] = "none"]
    /\ UNCHANGED <<queue, creation, healing, chosen, requests, schedVars, worker,
                   history>>

\* deleteAll drops the collection of tasks and nothing else.
DeleteAll ==
    /\ Request("drop")
    /\ \E t \in Task : Exists(t)
    /\ task' = [t \in Task |-> NoTask]
    /\ orphaned' = orphaned \cup {t \in Task : Exists(t)}
    /\ UNCHANGED <<queue, creation, deletion, healing, chosen, faults, schedVars, worker,
                   reopened, altered>>

-----------------------------------------------------------------------------
(* Requests about existing tasks. *)

SetAll(from, to) ==
    task' = [t \in Task |-> IF task[t].status = from
                            THEN [task[t] EXCEPT !.status = to] ELSE task[t]]

PauseTasks ==
    /\ Request("pause")
    /\ SetAll("started", "paused")
    /\ UNCHANGED <<queue, creation, deletion, healing, chosen, faults, schedVars, worker,
                   history>>

ResumeTasks ==
    /\ Request("resume")
    /\ SetAll("paused", "started")
    /\ UNCHANGED <<queue, creation, deletion, healing, chosen, faults, schedVars, worker,
                   history>>

Updated(doc, u) ==
    LET Field(f) == IF f \in u.keys THEN u.doc[f] ELSE doc[f]
    IN [status |-> Field("status"), queue |-> Field("queue"),
        num_items |-> Field("num_items"), running |-> Field("running"),
        retry |-> Field("retry"), longliving |-> Field("longliving")]

\* The fields a client may not change this way are dropped from the update.
UpdateCrawlTask(t, u) ==
    /\ Exists(t)
    /\ u.keys \subseteq Fields \ {"queue", "num_items"}
    /\ Request("update")
    /\ task' = [task EXCEPT ![t] = Updated(@, u)]
    /\ UNCHANGED <<queue, creation, deletion, healing, chosen, faults, schedVars, worker,
                   history>>

\* updateTasks: S are the tasks that match the query, and any field may change.
UpdateTasks(S, u) ==
    /\ S # {}
    /\ \A t \in S : Exists(t)
    /\ Request("update")
    /\ task' = [t \in Task |-> IF t \in S THEN Updated(task[t], u) ELSE task[t]]
    /\ altered' = IF u.keys \cap {"queue", "num_items"} # {} THEN altered \cup S
                  ELSE altered
    /\ UNCHANGED <<queue, creation, deletion, healing, chosen, faults, schedVars, worker,
                   orphaned, reopened>>

\* The status is looked at, then the items are reset; running workers are not.
HealQueue(t, what) ==
    /\ task[t].status \in {"paused", "completed"}
    /\ task[t].queue
    /\ healing[t] = "none"
    /\ Request("heal")
    /\ healing' = [healing EXCEPT ![t] = what]
    /\ UNCHANGED <<task, queue, creation, deletion, chosen, faults, schedVars, worker,
                   history>>

ResetItems(t) ==
    /\ healing[t] # "none"
    /\ queue' = [queue EXCEPT ![t] = IF healing[t] = "running"
                                     THEN ResetRunningItems(@)
                                     ELSE EnqueueAllFailedItems(@)]
    /\ healing' = [healing EXCEPT ![t] = "none"]
    /\ reopened' = reopened \cup {t}
    /\ UNCHANGED <<task, creation, deletion, chosen, requests, faults, schedVars,
                   worker, orphaned, altered>>

\* The stored results are downloaded, a function of the client picks some, and
\* their items are reset, whatever became of the task meanwhile.
Enqueue(t, S) ==
    /\ task[t].queue
    /\ chosen[t] = {}
    /\ S # {}
    /\ Request("enqueue")
    /\ chosen' = [chosen EXCEPT ![t] = S]
    /\ UNCHANGED <<task, queue, creation, deletion, healing, faults, schedVars, worker,
                   history>>

\* A failed bulk write is only logged.
UpdateItems(t) ==
    /\ chosen[t] # {}
    /\ \/ /\ queue' = [queue EXCEPT ![t] = InsertItems(@, chosen[t] \cap Stored(@))]
          /\ reopened' = reopened \cup {t}
          /\ UNCHANGED faults
       \/ Fault("api") /\ UNCHANGED <<queue, reopened>>
    /\ chosen' = [chosen EXCEPT ![t] = {}]
    /\ UNCHANGED <<task, creation, deletion, healing, requests, schedVars, worker,
                   orphaned, altered>>

\* Reading the queue of a task that has none ends the API's process, and with
\* it every request under way.
ApiExit ==
    /\ \E t \in Task : Exists(t) /\ ~task[t].queue
    /\ Request("heal")
    /\ creation' = [t \in Task |->
           IF creation[t].phase = "none" THEN creation[t]
           ELSE [creation[t] EXCEPT !.phase = "done"]]
    /\ deletion' = [t \in Task |-> "none"]
    /\ healing' = [t \in Task |-> "none"]
    /\ chosen' = [t \in Task |-> {}]
    /\ UNCHANGED <<task, queue, faults, schedVars, worker, history>>

-----------------------------------------------------------------------------
(* The scheduler. *)

At(here) == daemon = "running" /\ pc = here

\* The next task of the cycle, or the next cycle.
NextTask ==
    /\ pc' = "next"
    /\ todo' = todo \ {cur}
    /\ counted' = NoCounts

\* Any call of the cycle rejects, and the loop is over.
DaemonFails ==
    /\ daemon = "running"
    /\ Fault("scheduler")
    /\ daemon' = "hung"
    /\ pc' = "idle"
    /\ todo' = {}
    /\ mem' = [t \in Task |-> NoTask]
    /\ counted' = NoCounts
    /\ UNCHANGED <<task, queue, reqVars, restarts, cur, worker, history>>

\* Under the default policy the open tasks below the highest priority are left
\* out.  Priorities are not modelled: any of the open tasks may be left out.
GetTasks ==
    /\ At("idle")
    /\ LET open == {t \in Task : task[t].status \in {"started", "paused"}}
       IN open # {} /\ todo' \in SUBSET open
    /\ mem' = task
    /\ pc' = "next"
    /\ UNCHANGED <<task, queue, apiVars, daemon, restarts, cur, counted, worker,
                   history>>

EndCycle ==
    /\ At("next")
    /\ todo = {}
    /\ pc' = "idle"
    /\ mem' = [t \in Task |-> NoTask]
    /\ UNCHANGED <<task, queue, apiVars, daemon, restarts, todo, cur, counted,
                   worker, history>>

\* The workers that hold an item of the task.
Crawling(t) == {w \in Launches : worker[w].task = t /\ worker[w].item # {}}

\* new QueueHandler: without a name the process exits with code 1.
OpenQueue(t) ==
    /\ At("next")
    /\ t \in todo
    /\ IF mem[t].queue
       THEN /\ cur' = t
            /\ pc' = "count_initial"
            /\ reopened' = IF Crawling(t) = {} THEN reopened \ {t} ELSE reopened
            /\ UNCHANGED <<daemon, restarts, todo, mem>>
       ELSE /\ pc' = "idle"
            /\ todo' = {}
            /\ mem' = [u \in Task |-> NoTask]
            /\ IF restarts < MaxRestarts
               THEN restarts' = restarts + 1 /\ UNCHANGED daemon
               ELSE daemon' = "stopped" /\ UNCHANGED restarts
            /\ UNCHANGED <<cur, reopened>>
    /\ UNCHANGED <<task, queue, apiVars, counted, worker, orphaned, altered>>

Count(here, counts, next) ==
    /\ At(here)
    /\ counted' = counts
    /\ pc' = next
    /\ UNCHANGED <<task, queue, apiVars, daemon, restarts, todo, mem, cur, worker,
                   history>>

CountInitial ==
    LET some == WithStatus(queue[cur], "initial") # {}
    IN Count("count_initial", [counted EXCEPT !.initial = some],
             IF some \/ mem[cur].longliving THEN "serve" ELSE "count_failed")

CountFailed ==
    Count("count_failed",
          [counted EXCEPT
               !.settled = Cardinality(DefinitelyFailed(queue[cur], mem[cur].retry))],
          "count_completed")

CountCompleted ==
    LET settled == counted.settled + Cardinality(WithStatus(queue[cur], "completed"))
    IN Count("count_completed", [counted EXCEPT !.settled = 0],
             IF settled >= mem[cur].num_items THEN "close" ELSE "serve")

\* Mutant of SaveModified: the whole copy is written back.
SaveWhole(t, doc) == doc

\* task.save() writes the fields the scheduler changed.
SaveModified(t, doc) ==
    [task[t] EXCEPT !.running = IF doc.running # mem[t].running THEN doc.running ELSE @,
                    !.status = IF doc.status # mem[t].status THEN doc.status ELSE @]

\* A save that fails, or of a document that is gone, ends the daemon's loop.
Save(t, doc) ==
    \/ /\ Exists(t)
       /\ task' = [task EXCEPT ![t] = SaveModified(t, doc)]
       /\ UNCHANGED <<daemon, faults>>
    \/ /\ Fault("scheduler") \/ (~Exists(t) /\ UNCHANGED faults)
       /\ daemon' = "hung"
       /\ UNCHANGED task

CloseTask ==
    /\ At("close")
    /\ Save(cur, [mem[cur] EXCEPT !.status = "completed"])
    /\ NextTask
    /\ UNCHANGED <<queue, reqVars, restarts, mem, cur, worker, history>>

\* The workers of a task that reported and are not counted out yet.
Reported(t) == {w \in Launches : worker[w].task = t /\ worker[w].phase = "ended"
                                                    /\ worker[w].meta}

\* Mutant of CountedOut: the counter may pass zero.
CountedOutAll(running, n) == running - n

CountedOut(running, n) == IF running > n THEN running - n ELSE 0

\* processWorkerMeta: metas, counters, and failed items that are tried again.
ProcessWorkerMeta ==
    LET n == Cardinality(Reported(cur))
        doc == [mem[cur] EXCEPT !.running = CountedOut(@, n)]
        q == queue[cur]
    IN /\ At("serve")
       /\ worker' = [w \in Launches |-> IF w \in Reported(cur)
                                        THEN [worker[w] EXCEPT !.meta = FALSE]
                                        ELSE worker[w]]
       /\ mem' = [mem EXCEPT ![cur] = doc]
       /\ Save(cur, doc)
       /\ queue' = IF daemon' = "running" /\ WithStatus(q, "running") = {}
                   THEN [queue EXCEPT ![cur] = EnqueueFailedItems(q, mem[cur].retry)]
                   ELSE queue
       /\ pc' = "launch"
       /\ UNCHANGED <<reqVars, restarts, todo, cur, counted, history>>

Free == {w \in Launches : worker[w].phase = "none"}

\* Mutant of MayLaunch: one worker fewer than the rate allows.
OneWorkerFewer ==
    mem[cur].status = "started" /\ counted.initial /\ mem[cur].running + 1 <= 0

MayLaunch == mem[cur].status = "started" /\ counted.initial /\ mem[cur].running = 0

\* A worker starts; the save after the launch may find the task gone.
Launch(w) ==
    /\ At("launch")
    /\ MayLaunch
    /\ w \in Free
    /\ \A v \in Free : w <= v
    /\ worker' = [worker EXCEPT ![w] = [@ EXCEPT !.task = cur, !.phase = "claiming",
                                                 !.meta = TRUE]]
    /\ Save(cur, [mem[cur] EXCEPT !.running = @ + 1])
    /\ NextTask
    /\ UNCHANGED <<queue, reqVars, restarts, mem, cur, history>>

LaunchNone ==
    /\ At("launch")
    /\ ~MayLaunch \/ Free = {}
    /\ NextTask
    /\ UNCHANGED <<task, queue, apiVars, daemon, restarts, mem, cur, worker, history>>

-----------------------------------------------------------------------------
(* Workers, reduced to one item each. *)

ClaimItem(w, i) ==
    LET t == worker[w].task
    IN /\ worker[w].phase = "claiming"
       /\ i \in Claimable(queue[t])
       /\ queue' = [queue EXCEPT ![t] = TakeItem(@, i)]
       /\ worker' = [worker EXCEPT ![w].item = {i}, ![w].doc = queue'[t][i],
                                   ![w].phase = "crawling"]
       /\ UNCHANGED <<task, apiVars, schedVars, history>>

NothingToClaim(w) ==
    /\ worker[w].phase = "claiming"
    /\ Claimable(queue[worker[w].task]) = {}
    /\ worker' = [worker EXCEPT ![w].phase = "ended"]
    /\ UNCHANGED <<task, queue, apiVars, schedVars, history>>

\* getQueueName: the crawl looks up the queue of a task.
GetQueueName(w, u) ==
    /\ "enqueue" \in Environment
    /\ worker[w].phase = "crawling"
    /\ worker[w].into = {}
    /\ task[u].queue
    /\ worker' = [worker EXCEPT ![w].into = {u}]
    /\ UNCHANGED <<task, queue, apiVars, schedVars, history>>

\* The documents that ever had an identifier.
Known(u) ==
    Stored(queue[u]) \cup creation[u].left \cup chosen[u]
        \cup UNION {worker[w].item : w \in {v \in Launches : worker[v].task = u}}

\* insertItems: the queue of the worker's own task needs no look-up, and nobody
\* looks whether the collection, or the task, is still there.
EnqueueItem(w, u, i) ==
    /\ "enqueue" \in Environment
    /\ worker[w].phase = "crawling"
    /\ u = worker[w].task \/ u \in worker[w].into
    /\ i \notin Known(u)
    /\ queue' = [queue EXCEPT ![u] = InsertItems(@, {i})]
    /\ worker' = [worker EXCEPT ![w].into = {}]
    /\ altered' = altered \cup {u}
    /\ orphaned' = IF Exists(u) /\ deletion[u] \notin {"meta", "doc"} THEN orphaned
                   ELSE orphaned \cup {u}
    /\ UNCHANGED <<task, apiVars, schedVars, reopened>>

\* Written back without looking; an item that was dropped stays dropped.
WriteItem(w, st) ==
    LET t == worker[w].task
        doc == [status |-> st, crawled |-> st = "completed",
                retries |-> worker[w].doc.retries + 1]
    IN /\ worker[w].phase = "crawling"
       /\ queue' = [queue EXCEPT ![t] = [i \in Item |->
                       IF i \in worker[w].item \cap Stored(@) THEN doc ELSE @[i]]]
       /\ worker' = [worker EXCEPT ![w] = [@ EXCEPT !.item = {}, !.doc = AbsentDoc,
                                                    !.into = {}, !.phase = "ended"]]
       /\ UNCHANGED <<task, apiVars, schedVars, history>>

-----------------------------------------------------------------------------
Creating(t) ==
    \/ \E i \in Item : InsertItem(t, i)
    \/ SaveNewTask(t)

Deleting(t) == DropQueue(t) \/ DropWorkerMeta(t) \/ DeleteDoc(t)

Resetting(t) == ResetItems(t) \/ UpdateItems(t)

Client ==
    \/ \E t \in Task, p \in Payload, st \in {"started", "paused"} : CreateTask(t, p, st)
    \/ \E t \in Task : DeleteTask(t)
    \/ DeleteAll
    \/ PauseTasks
    \/ ResumeTasks
    \/ \E t \in Task, u \in Updates : UpdateCrawlTask(t, u)
    \/ \E S \in SUBSET Task, u \in Updates : UpdateTasks(S, u)
    \/ \E t \in Task, what \in {"running", "failed"} : HealQueue(t, what)
    \/ \E t \in Task : \E S \in SUBSET WithStatus(queue[t], "completed") : Enqueue(t, S)
    \/ ApiExit

Scheduler ==
    \/ GetTasks
    \/ EndCycle
    \/ \E t \in Task : OpenQueue(t)
    \/ CountInitial
    \/ CountFailed
    \/ CountCompleted
    \/ CloseTask
    \/ ProcessWorkerMeta
    \/ \E w \in Launches : Launch(w)
    \/ LaunchNone

Worker(w) ==
    \/ \E i \in Item : ClaimItem(w, i)
    \/ NothingToClaim(w)
    \/ \E st \in {"completed", "failed"} : WriteItem(w, st)

Enqueuing(w) ==
    \E u \in Task : GetQueueName(w, u) \/ \E i \in Item : EnqueueItem(w, u, i)

Next ==
    \/ Client
    \/ \E t \in Task : Creating(t) \/ InsertFails(t) \/ Deleting(t) \/ Resetting(t)
    \/ Scheduler
    \/ DaemonFails
    \/ \E w \in Launches : Worker(w) \/ Enqueuing(w)

Spec == Init /\ [][Next]_vars

\* Requests that were accepted go on, the daemon loops, and workers finish.
Fairness ==
    /\ \A t \in Task : WF_vars(Creating(t)) /\ WF_vars(Deleting(t)) /\ WF_vars(Resetting(t))
    /\ WF_vars(Scheduler)
    /\ \A w \in Launches : WF_vars(Worker(w))

FairSpec == Spec /\ Fairness

-----------------------------------------------------------------------------
(* Properties. *)

\* Every variable has its type.
TypeOK ==
    /\ task \in [Task -> TaskDoc]
    /\ queue \in [Task -> [Item -> QueueDoc]]
    /\ creation \in [Task -> Creation]
    /\ deletion \in [Task -> {"none", "queue", "meta", "doc"}]
    /\ healing \in [Task -> {"none", "running", "failed"}]
    /\ chosen \in [Task -> SUBSET Item]
    /\ requests \in Nat
    /\ faults \in Nat
    /\ daemon \in {"running", "hung", "stopped"}
    /\ restarts \in Nat
    /\ todo \in SUBSET Task
    /\ mem \in [Task -> TaskDoc]
    /\ cur \in Task
    /\ pc \in {"idle", "next", "count_initial", "count_failed", "count_completed",
               "close", "serve", "launch"}
    /\ counted \in [initial : BOOLEAN, settled : Nat]
    /\ worker \in [Launches -> WorkerDoc]
    /\ orphaned \in SUBSET Task
    /\ reopened \in SUBSET Task
    /\ altered \in SUBSET Task

\* The scheduler closes a task only when its creation is over and every item in
\* its queue is settled, by the retry limit it read, although the task can be seen
\* long before it has its items.  The exceptions the code has: items that a request
\* put back since they were counted, or under the hands of a worker that is still
\* to write them; and tasks into whose queue a crawl enqueued items, which
\* num_items does not count, or whose num_items or queue an update changed.
ClosedMeansSettled ==
    [][\A t \in Task :
           pc = "close" /\ pc' # pc /\ cur = t /\ Exists(t) /\ t \notin altered
               => /\ creation[t].phase = "done"
                  /\ \/ t \in reopened
                     \/ Stored(queue[t]) \subseteq Settled(queue[t], mem[t].retry)]_vars

\* A paused task starts again only by a request: no save of a copy that the
\* scheduler, or the handler that creates the task, read earlier undoes a pause.
PauseHolds ==
    [][\A t \in Task : task[t].status = "paused" /\ task'[t].status = "started"
           => requests' > requests]_vars

\* A deleted task leaves no items behind, whichever database call of the deletion
\* fails.  Only a task that was deleted while it was created, when its queue had no
\* name or with all others at once can, or one into whose queue a crawl enqueued
\* items after the queue was dropped, which creates it again.
NoOrphanItems ==
    \A t \in Task : ~Exists(t) /\ Stored(queue[t]) # {} => t \in orphaned

\* A task that was created with all its items, that the daemon takes up again and
\* again and that no later request touches is completed.  Whether it is taken up
\* is a matter of priorities: the daemon leaves out the tasks below the highest
\* one.  A task with blank lines never is completed: they count as items; nor is
\* a task that lives long, or one whose deletion stopped when its queue was gone.
Served ==
    \A t \in Task :
        []<>(t \in todo) =>
            ((creation[t].phase = "done" /\ task[t].queue /\ ~creation[t].blanks)
                ~> (\/ task[t].status \in {"completed", "failed", "paused", "absent"}
                    \/ task[t].longliving
                    \/ daemon # "running"
                    \/ Free = {} /\ ~(Stored(queue[t]) \subseteq Settled(queue[t], task[t].retry))
                    \/ Stored(queue[t]) = {}
                    \/ t \in altered))

\* The daemon runs in an endless loop.
DaemonRuns == daemon = "running"

=============================================================================

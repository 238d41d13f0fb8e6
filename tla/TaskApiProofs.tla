---------------------------- MODULE TaskApiProofs ----------------------------
(***************************************************************************)
(* Theorems about TaskApi: what a deletion leaves behind, which tasks the  *)
(* scheduler closes, and who ends a pause, for any number of tasks, items, *)
(* workers and requests.                                                   *)
(***************************************************************************)
EXTENDS TaskApi, FiniteSetTheorems, TLAPS

-----------------------------------------------------------------------------
(* Queues. *)

LEMMA StoredType ==
    ASSUME NEW q \in [Item -> QueueDoc]
    PROVE  /\ Stored(q) \subseteq Item
           /\ IsFiniteSet(Stored(q))
           /\ Cardinality(Stored(q)) \in Nat
<1>1. Stored(q) \in SUBSET Item
  BY DEF Stored
<1>2. IsFiniteSet(Item)
  BY ItemQueueAssumption DEF ItemQueueAssumption
<1>3. IsFiniteSet(Stored(q))
  BY <1>1, <1>2, FS_Subset
<1> QED BY <1>1, <1>3, FS_CardinalityType

LEMMA FreshDocs ==
    /\ FreshDoc \in QueueDoc /\ FreshDoc.status = "initial"
    /\ AbsentDoc \in QueueDoc /\ AbsentDoc.status = "absent"
BY DEF FreshDoc, AbsentDoc, QueueDoc, QueueItemStatus

LEMMA InsertedItems ==
    ASSUME NEW q \in [Item -> QueueDoc], NEW S \in SUBSET Item
    PROVE  /\ InsertItems(q, S) \in [Item -> QueueDoc]
           /\ Stored(InsertItems(q, S)) = Stored(q) \cup S
BY FreshDocs DEF InsertItems, Stored

LEMMA StatusSet ==
    ASSUME NEW q \in [Item -> QueueDoc], NEW S \in SUBSET Stored(q),
           NEW st \in QueueItemStatus, st # "absent"
    PROVE  /\ SetStatus(q, S, st) \in [Item -> QueueDoc]
           /\ Stored(SetStatus(q, S, st)) = Stored(q)
<1>1. S \subseteq Item
  BY DEF Stored
<1>2. SetStatus(q, S, st) \in [Item -> QueueDoc]
  BY DEF SetStatus, QueueDoc
<1>3. \A i \in Item : SetStatus(q, S, st)[i].status = IF i \in S THEN st ELSE q[i].status
  BY DEF SetStatus, QueueDoc
<1> QED BY <1>1, <1>2, <1>3 DEF Stored

LEMMA StoredStatus ==
    ASSUME NEW q \in [Item -> QueueDoc], NEW st, st # "absent"
    PROVE  WithStatus(q, st) \in SUBSET Stored(q)
BY DEF WithStatus, Stored

\* What the requests and the scheduler reset was stored and stays stored.
LEMMA ResetsKeepStored ==
    ASSUME NEW q \in [Item -> QueueDoc], NEW limit \in Nat
    PROVE  /\ ResetRunningItems(q) \in [Item -> QueueDoc]
           /\ Stored(ResetRunningItems(q)) = Stored(q)
           /\ EnqueueAllFailedItems(q) \in [Item -> QueueDoc]
           /\ Stored(EnqueueAllFailedItems(q)) = Stored(q)
           /\ EnqueueFailedItems(q, limit) \in [Item -> QueueDoc]
           /\ Stored(EnqueueFailedItems(q, limit)) = Stored(q)
<1>1. /\ WithStatus(q, "running") \in SUBSET Stored(q)
      /\ WithStatus(q, "failed") \in SUBSET Stored(q)
  BY StoredStatus
<1>2. Stored(q) \subseteq Item
  BY StoredType
<1>3. /\ ResetRunningItems(q) \in [Item -> QueueDoc]
      /\ Stored(ResetRunningItems(q)) = Stored(q)
  BY <1>1, <1>2, InsertedItems DEF ResetRunningItems
<1>4. /\ EnqueueAllFailedItems(q) \in [Item -> QueueDoc]
      /\ Stored(EnqueueAllFailedItems(q)) = Stored(q)
  BY <1>1, <1>2, InsertedItems DEF EnqueueAllFailedItems
<1>5. /\ EnqueueFailedItems(q, limit) \in [Item -> QueueDoc]
      /\ Stored(EnqueueFailedItems(q, limit)) = Stored(q)
  <2>1. Retriable(q, limit) \in SUBSET Stored(q)
    BY <1>1 DEF Retriable
  <2> QED BY <2>1, StatusSet DEF EnqueueFailedItems, QueueItemStatus
<1> QED BY <1>3, <1>4, <1>5

LEMMA TakenItem ==
    ASSUME NEW q \in [Item -> QueueDoc], NEW i \in Claimable(q)
    PROVE  /\ TakeItem(q, i) \in [Item -> QueueDoc]
           /\ Stored(TakeItem(q, i)) = Stored(q)
           /\ i \in Item /\ q[i].status = "initial"
           /\ \A j \in Item : TakeItem(q, i)[j].status =
                                  IF j = i THEN "running" ELSE q[j].status
<1>1. {i} \in SUBSET Stored(q) /\ i \in Item /\ q[i].status = "initial"
  BY DEF Claimable, WithStatus, Stored
<1>2. /\ TakeItem(q, i) \in [Item -> QueueDoc]
      /\ Stored(TakeItem(q, i)) = Stored(q)
  BY <1>1, StatusSet DEF TakeItem, QueueItemStatus
<1>3. \A j \in Item : TakeItem(q, i)[j].status = IF j = i THEN "running" ELSE q[j].status
  BY DEF TakeItem, SetStatus, QueueDoc
<1> QED BY <1>1, <1>2, <1>3

LEMMA EmptyQueue ==
    NoQueue \in [Item -> QueueDoc] /\ Stored(NoQueue) = {}
BY FreshDocs DEF NoQueue, Stored

-----------------------------------------------------------------------------
(* Types. *)

LEMMA NoTaskType ==
    /\ NoTask \in TaskDoc /\ NoTask.status = "absent" /\ ~NoTask.queue
    /\ NoCreation \in Creation
    /\ NoCounts \in [initial : BOOLEAN, settled : Nat]
BY DEF NoTask, TaskDoc, NoCreation, Creation, NoCounts

LEMMA PayloadType ==
    ASSUME NEW p \in Payload
    PROVE  /\ p.items \in SUBSET Item /\ IsFiniteSet(p.items)
           /\ p.kind \in {"none", "array", "file"} /\ p.blanks \in Nat
           /\ Announced(p) \in Nat
           /\ p.kind = "array" => Announced(p) >= Cardinality(p.items)
           /\ p.kind = "none" => p.items = {}
           /\ Readable(p) \subseteq SUBSET p.items
           /\ p.kind # "file" => Readable(p) = {p.items}
<1>1. /\ p.items \in SUBSET Item /\ p.kind \in {"none", "array", "file"}
      /\ p.blanks \in Nat
      /\ p.kind = "none" => p.items = {}
  BY TaskApiAssumption DEF TaskApiAssumption
<1>2. IsFiniteSet(p.items)
  BY <1>1, ItemQueueAssumption, FS_Subset DEF ItemQueueAssumption
<1>3. Cardinality(p.items) \in Nat
  BY <1>2, FS_CardinalityType
<1>4. /\ Announced(p) \in Nat
      /\ p.kind = "array" => Announced(p) >= Cardinality(p.items)
  <2>1. CASE p.kind = "array"
    <3>1. Announced(p) = Cardinality(p.items) + p.blanks
      BY <2>1 DEF Announced
    <3>2. p.blanks \in Nat
      BY <1>1
    <3> QED BY <1>3, <3>1, <3>2
  <2>2. CASE p.kind # "array"
    BY <2>2 DEF Announced
  <2> QED BY <2>1, <2>2
<1>5. /\ Readable(p) \subseteq SUBSET p.items
      /\ p.kind # "file" => Readable(p) = {p.items}
  BY DEF Readable
<1> QED BY <1>1, <1>2, <1>4, <1>5

LEMMA StatusType ==
    ASSUME TypeOK, NEW t \in Task, NEW d \in TaskDoc,
           NEW st \in CrawlStatus, NEW n \in Nat
    PROVE  /\ [d EXCEPT !.status = st] \in TaskDoc
           /\ [d EXCEPT !.running = n] \in TaskDoc
           /\ SaveModified(t, d) \in TaskDoc
<1>1. [d EXCEPT !.status = st] \in TaskDoc /\ [d EXCEPT !.running = n] \in TaskDoc
  BY DEF TaskDoc
<1>2. task[t] \in TaskDoc /\ d.running \in Nat /\ d.status \in CrawlStatus \cup {"absent"}
  BY DEF TypeOK, TaskDoc
<1> DEFINE r == IF d.running # mem[t].running THEN d.running ELSE task[t].running
           s == IF d.status # mem[t].status THEN d.status ELSE task[t].status
<1>3. r \in Nat /\ s \in CrawlStatus \cup {"absent"}
  BY <1>2 DEF TaskDoc
<1>4. SaveModified(t, d) = [[task[t] EXCEPT !.running = r] EXCEPT !.status = s]
  BY <1>2 DEF SaveModified, TaskDoc
<1>5. SaveModified(t, d) \in TaskDoc
  <2> HIDE DEF r, s
  <2> QED BY <1>2, <1>3, <1>4 DEF TaskDoc
<1> QED BY <1>1, <1>5

LEMMA SaveType ==
    ASSUME TypeOK, NEW t \in Task, NEW d \in TaskDoc, Save(t, d)
    PROVE  /\ task' \in [Task -> TaskDoc] /\ daemon' \in {"running", "hung", "stopped"}
           /\ faults' \in Nat
<1>1. SaveModified(t, d) \in TaskDoc
  BY StatusType DEF CrawlStatus
<1>2. /\ task \in [Task -> TaskDoc] /\ daemon \in {"running", "hung", "stopped"}
      /\ faults \in Nat
  BY DEF TypeOK
<1> QED BY <1>1, <1>2 DEF Save, Fault

\* The steps of the API.
LEMMA CreatingType ==
    ASSUME TypeOK, NEW t \in Task,
           \/ \E p \in Payload, st \in {"started", "paused"} : CreateTask(t, p, st)
           \/ Creating(t)
           \/ InsertFails(t)
    PROVE  TypeOK'
<1>0. /\ task \in [Task -> TaskDoc] /\ queue \in [Task -> [Item -> QueueDoc]]
      /\ creation \in [Task -> Creation] /\ faults \in Nat /\ requests \in Nat
      /\ task[t] \in TaskDoc /\ queue[t] \in [Item -> QueueDoc]
      /\ creation[t] \in Creation
  BY DEF TypeOK
<1>1. ASSUME NEW p \in Payload, NEW st \in {"started", "paused"}, CreateTask(t, p, st)
      PROVE  TypeOK'
  <2>1. FirstDoc(p, st) \in TaskDoc
    BY PayloadType, TaskApiAssumption
       DEF FirstDoc, NewDoc, TaskDoc, CrawlStatus, TaskApiAssumption
  <2>2. ASSUME NEW S \in Readable(p)
        PROVE  [phase |-> IF S = {} THEN "save" ELSE "insert", kind |-> p.kind,
                left |-> S, lines |-> p.blanks, blanks |-> p.blanks > 0] \in Creation
    BY PayloadType DEF Creation
  <2>3. task' \in [Task -> TaskDoc]
    BY <1>0, <1>1, <2>1 DEF CreateTask
  <2>4. creation' \in [Task -> Creation]
    BY <1>0, <1>1, <2>2 DEF CreateTask
  <2>5. requests' \in Nat
    BY <1>0, <1>1 DEF CreateTask, Request
  <2> QED BY <1>1, <2>3, <2>4, <2>5 DEF CreateTask, TypeOK, schedVars, history
<1>2. ASSUME NEW i \in Item, InsertItem(t, i)
      PROVE  TypeOK'
  <2>1. queue' \in [Task -> [Item -> QueueDoc]]
    BY <1>0, <1>2, InsertedItems DEF InsertItem
  <2> DEFINE c == creation[t]
             ph == IF c.left = {i} THEN "save" ELSE "insert"
             new == [phase |-> ph, kind |-> c.kind, left |-> c.left \ {i},
                     lines |-> c.lines + 1, blanks |-> c.blanks]
  <2>2. new \in Creation
    BY <1>0 DEF Creation
  <2>3. creation' = [creation EXCEPT ![t] = new]
    BY <1>0, <1>2 DEF InsertItem, Creation
  <2>4. creation' \in [Task -> Creation]
    <3> HIDE DEF new
    <3> QED BY <1>0, <2>2, <2>3
  <2> QED BY <1>2, <2>1, <2>4 DEF InsertItem, TypeOK, schedVars, history
<1>3. ASSUME InsertFails(t)
      PROVE  TypeOK'
  <2>1. creation' \in [Task -> Creation]
    BY <1>0, <1>3 DEF InsertFails, Creation
  <2>2. faults' \in Nat
    BY <1>0, <1>3 DEF InsertFails, Fault
  <2> QED BY <1>3, <2>1, <2>2 DEF InsertFails, TypeOK, schedVars, history
<1>4. ASSUME SaveNewTask(t)
      PROVE  TypeOK'
  <2>1. creation' \in [Task -> Creation]
    BY <1>0, <1>4 DEF SaveNewTask, Creation
  <2>2. faults' \in Nat
    BY <1>0, <1>4 DEF SaveNewTask, Fault
  <2>3. task' \in [Task -> TaskDoc]
    <3> DEFINE b == creation[t].kind # "none"
               new == [[task[t] EXCEPT !.queue = b] EXCEPT !.num_items = NumItems(t)]
    <3>1. NumItems(t) \in Nat
      BY <1>0 DEF NumItems, Creation, TaskDoc
    <3>2. new \in TaskDoc
      BY <1>0, <3>1 DEF TaskDoc
    <3>3. task' = task \/ task' = [task EXCEPT ![t] = new]
      BY <1>0, <1>4 DEF SaveNewTask, TaskDoc
    <3> HIDE DEF new
    <3> QED BY <1>0, <3>2, <3>3
  <2> QED BY <1>4, <2>1, <2>2, <2>3 DEF SaveNewTask, TypeOK, schedVars, history
<1> QED BY <1>1, <1>2, <1>3, <1>4 DEF Creating

LEMMA DeletingType ==
    ASSUME TypeOK, NEW t \in Task, DeleteTask(t) \/ Deleting(t) \/ DeleteAll
    PROVE  TypeOK'
<1>0. /\ task \in [Task -> TaskDoc] /\ queue \in [Task -> [Item -> QueueDoc]]
      /\ deletion \in [Task -> {"none", "queue", "meta", "doc"}]
      /\ worker \in [Launches -> WorkerDoc]
      /\ orphaned \in SUBSET Task /\ faults \in Nat /\ requests \in Nat
  BY DEF TypeOK
<1>1. ASSUME DeleteTask(t)
      PROVE  TypeOK'
  <2>1. deletion' \in [Task -> {"none", "queue", "meta", "doc"}]
    BY <1>0, <1>1 DEF DeleteTask
  <2>2. orphaned' \in SUBSET Task
    BY <1>0, <1>1 DEF DeleteTask
  <2>3. requests' \in Nat
    BY <1>0, <1>1 DEF DeleteTask, Request
  <2> QED BY <1>1, <2>1, <2>2, <2>3 DEF DeleteTask, TypeOK, schedVars
<1>2. ASSUME DropQueue(t)
      PROVE  TypeOK'
  <2>1. /\ deletion' \in [Task -> {"none", "queue", "meta", "doc"}]
        /\ faults' \in Nat
    <3>1. deletion' = [deletion EXCEPT ![t] = "meta"]
          \/ deletion' = [deletion EXCEPT ![t] = "none"]
      BY <1>2 DEF DropQueue, AfterDropFailed
    <3>2. faults' = faults \/ faults' = faults + 1
      BY <1>2 DEF DropQueue, Fault
    <3> QED BY <1>0, <3>1, <3>2
  <2>2. queue' \in [Task -> [Item -> QueueDoc]]
    BY <1>0, <1>2, EmptyQueue DEF DropQueue
  <2> QED BY <1>2, <2>1, <2>2 DEF DropQueue, TypeOK, schedVars, history
<1>3. ASSUME DropWorkerMeta(t)
      PROVE  TypeOK'
  <2>1. /\ deletion' \in [Task -> {"none", "queue", "meta", "doc"}]
        /\ faults' \in Nat
    BY <1>0, <1>3 DEF DropWorkerMeta, Fault
  <2>2. \A w \in Launches : [worker[w] EXCEPT !.meta = FALSE] \in WorkerDoc
    BY <1>0 DEF WorkerDoc
  <2>3. worker' \in [Launches -> WorkerDoc]
    BY <1>0, <1>3, <2>2 DEF DropWorkerMeta
  <2> QED BY <1>3, <2>1, <2>3 DEF DropWorkerMeta, TypeOK, schedVars, history
<1>4. ASSUME DeleteDoc(t)
      PROVE  TypeOK'
  <2>1. /\ deletion' \in [Task -> {"none", "queue", "meta", "doc"}]
        /\ task' \in [Task -> TaskDoc] /\ faults' \in Nat
    BY <1>0, <1>4, NoTaskType DEF DeleteDoc, Fault
  <2> QED BY <1>4, <2>1 DEF DeleteDoc, TypeOK, schedVars, history
<1>5. ASSUME DeleteAll
      PROVE  TypeOK'
  <2>1. /\ task' \in [Task -> TaskDoc]
        /\ orphaned' \in SUBSET Task
        /\ requests' \in Nat
    BY <1>0, <1>5, NoTaskType DEF DeleteAll, Request
  <2> QED BY <1>5, <2>1 DEF DeleteAll, TypeOK, schedVars
<1> QED BY <1>1, <1>2, <1>3, <1>4, <1>5 DEF Deleting

\* Requests that change fields of task documents.
Setting ==
    \/ PauseTasks
    \/ ResumeTasks
    \/ \E t \in Task, u \in Updates : UpdateCrawlTask(t, u)
    \/ \E S \in SUBSET Task, u \in Updates : UpdateTasks(S, u)

LEMMA UpdatedDoc ==
    ASSUME NEW d \in TaskDoc, NEW u \in Updates
    PROVE  /\ Updated(d, u) \in TaskDoc
           /\ d.status # "absent" => Updated(d, u).status # "absent"
           /\ "queue" \notin u.keys => Updated(d, u).queue = d.queue
           /\ "num_items" \notin u.keys => Updated(d, u).num_items = d.num_items
<1>1. u.doc \in TaskDoc /\ u.doc.status # "absent"
  BY TaskApiAssumption DEF TaskApiAssumption
<1> QED BY <1>1 DEF Updated, TaskDoc

\* What such a request makes of one document.
LEMMA SetTask ==
    ASSUME TypeOK, Setting, NEW v \in Task
    PROVE  \/ task'[v] = task[v]
           \/ task'[v] = [task[v] EXCEPT !.status = "paused"] /\ Exists(v)
           \/ task'[v] = [task[v] EXCEPT !.status = "started"] /\ Exists(v)
           \/ \E u \in Updates : /\ task'[v] = Updated(task[v], u) /\ Exists(v)
                                  /\ \/ v \in altered'
                                     \/ u.keys \cap {"queue", "num_items"} = {}
<1>0. task \in [Task -> TaskDoc]
  BY DEF TypeOK
<1>1. ASSUME PauseTasks \/ ResumeTasks
      PROVE  \/ task'[v] = task[v]
             \/ task'[v] = [task[v] EXCEPT !.status = "paused"] /\ Exists(v)
             \/ task'[v] = [task[v] EXCEPT !.status = "started"] /\ Exists(v)
  BY <1>0, <1>1 DEF PauseTasks, ResumeTasks, SetAll, Exists
<1>2. ASSUME NEW t \in Task, NEW u \in Updates, UpdateCrawlTask(t, u)
      PROVE  \/ task'[v] = task[v]
             \/ /\ task'[v] = Updated(task[v], u) /\ Exists(v)
                /\ u.keys \cap {"queue", "num_items"} = {}
  BY <1>0, <1>2 DEF UpdateCrawlTask
<1>3. ASSUME NEW S \in SUBSET Task, NEW u \in Updates, UpdateTasks(S, u)
      PROVE  \/ task'[v] = task[v]
             \/ /\ task'[v] = Updated(task[v], u) /\ Exists(v)
                /\ v \in altered' \/ u.keys \cap {"queue", "num_items"} = {}
  <2>1. CASE v \in S
    BY <1>0, <1>3, <2>1 DEF UpdateTasks
  <2>2. CASE v \notin S
    BY <1>0, <1>3, <2>2 DEF UpdateTasks
  <2> QED BY <2>1, <2>2
<1> QED BY <1>1, <1>2, <1>3 DEF Setting

LEMMA SettingTasks ==
    ASSUME TypeOK, Setting, NEW v \in Task
    PROVE  /\ task'[v] \in TaskDoc
           /\ \/ v \in altered'
              \/ /\ task'[v].queue = task[v].queue
                 /\ task'[v].num_items = task[v].num_items
           /\ Exists(v)' <=> Exists(v)
<1>0. task[v] \in TaskDoc
  BY DEF TypeOK
<1>1. ASSUME NEW st \in {"paused", "started"},
             task'[v] = [task[v] EXCEPT !.status = st], Exists(v)
      PROVE  /\ task'[v] \in TaskDoc
             /\ task'[v].queue = task[v].queue
             /\ task'[v].num_items = task[v].num_items
             /\ task'[v].status # "absent"
  BY <1>0, <1>1 DEF TaskDoc, CrawlStatus
<1>2. ASSUME NEW u \in Updates, task'[v] = Updated(task[v], u), Exists(v),
             v \in altered' \/ u.keys \cap {"queue", "num_items"} = {}
      PROVE  /\ task'[v] \in TaskDoc
             /\ \/ v \in altered'
                \/ /\ task'[v].queue = task[v].queue
                   /\ task'[v].num_items = task[v].num_items
             /\ task'[v].status # "absent"
  BY <1>0, <1>2, UpdatedDoc DEF Exists
<1> QED BY <1>0, <1>1, <1>2, SetTask DEF Exists

\* Such a request changes nothing else, and no task comes or goes by it.
LEMMA SettingStep ==
    ASSUME TypeOK, Setting
    PROVE  /\ task' \in [Task -> TaskDoc]
           /\ requests' = requests + 1
           /\ UNCHANGED <<queue, creation, deletion, healing, chosen, faults, schedVars,
                          worker, orphaned, reopened>>
           /\ altered \subseteq altered' /\ altered' \in SUBSET Task
<1>0. task \in [Task -> TaskDoc] /\ altered \in SUBSET Task
  BY DEF TypeOK
<1>1. DOMAIN task' = Task /\ task' = [t \in Task |-> task'[t]]
  BY <1>0 DEF Setting, PauseTasks, ResumeTasks, SetAll, UpdateCrawlTask, UpdateTasks
<1>2. task' \in [Task -> TaskDoc]
  BY <1>1, SettingTasks
<1> QED BY <1>0, <1>2 DEF Setting, PauseTasks, ResumeTasks, UpdateCrawlTask, UpdateTasks,
                          Request, history

\* Requests about the items of a task.
Healing ==
    \/ \E t \in Task, what \in {"running", "failed"} : HealQueue(t, what)
    \/ \E t \in Task : \E S \in SUBSET WithStatus(queue[t], "completed") : Enqueue(t, S)
    \/ \E t \in Task : Resetting(t)
    \/ ApiExit

LEMMA HealingType ==
    ASSUME TypeOK, Healing
    PROVE  TypeOK'
<1>0. /\ queue \in [Task -> [Item -> QueueDoc]] /\ creation \in [Task -> Creation]
      /\ healing \in [Task -> {"none", "running", "failed"}]
      /\ chosen \in [Task -> SUBSET Item]
      /\ reopened \in SUBSET Task /\ faults \in Nat /\ requests \in Nat
  BY DEF TypeOK
<1>1. ASSUME NEW t \in Task, NEW what \in {"running", "failed"}, HealQueue(t, what)
      PROVE  TypeOK'
  <2>1. healing' \in [Task -> {"none", "running", "failed"}] /\ requests' \in Nat
    BY <1>0, <1>1 DEF HealQueue, Request
  <2> QED BY <1>1, <2>1 DEF HealQueue, TypeOK, schedVars, history
<1>2. ASSUME NEW t \in Task, NEW S \in SUBSET WithStatus(queue[t], "completed"),
             Enqueue(t, S)
      PROVE  TypeOK'
  <2>1. chosen' \in [Task -> SUBSET Item] /\ requests' \in Nat
    BY <1>0, <1>2 DEF Enqueue, Request, WithStatus
  <2> QED BY <1>2, <2>1 DEF Enqueue, TypeOK, schedVars, history
<1>3. ASSUME NEW t \in Task, ResetItems(t)
      PROVE  TypeOK'
  <2>1. queue' \in [Task -> [Item -> QueueDoc]]
    <3>1. queue[t] \in [Item -> QueueDoc] /\ 0 \in Nat
      BY <1>0
    <3> QED BY <1>0, <1>3, <3>1, ResetsKeepStored DEF ResetItems
  <2>2. healing' \in [Task -> {"none", "running", "failed"}] /\ reopened' \in SUBSET Task
    BY <1>0, <1>3 DEF ResetItems
  <2> QED BY <1>3, <2>1, <2>2 DEF ResetItems, TypeOK, schedVars
<1>4. ASSUME NEW t \in Task, UpdateItems(t)
      PROVE  TypeOK'
  <2>1. chosen[t] \cap Stored(queue[t]) \in SUBSET Item
    BY <1>0
  <2>2. InsertItems(queue[t], chosen[t] \cap Stored(queue[t])) \in [Item -> QueueDoc]
    BY <1>0, <2>1, InsertedItems
  <2>3. queue' \in [Task -> [Item -> QueueDoc]]
    BY <1>0, <1>4, <2>2 DEF UpdateItems
  <2>4. /\ chosen' \in [Task -> SUBSET Item] /\ reopened' \in SUBSET Task
        /\ faults' \in Nat
    BY <1>0, <1>4 DEF UpdateItems, Fault
  <2> QED BY <1>4, <2>3, <2>4 DEF UpdateItems, TypeOK, schedVars
<1>5. ASSUME ApiExit
      PROVE  TypeOK'
  <2>1. \A t \in Task : [creation[t] EXCEPT !.phase = "done"] \in Creation
    BY <1>0 DEF Creation
  <2>2. creation' \in [Task -> Creation]
    BY <1>0, <1>5, <2>1 DEF ApiExit
  <2>3. /\ healing' \in [Task -> {"none", "running", "failed"}]
        /\ chosen' \in [Task -> SUBSET Item] /\ requests' \in Nat
        /\ deletion' \in [Task -> {"none", "queue", "meta", "doc"}]
    BY <1>0, <1>5 DEF ApiExit, Request
  <2> QED BY <1>5, <2>2, <2>3 DEF ApiExit, TypeOK, schedVars, history
<1> QED BY <1>1, <1>2, <1>3, <1>4, <1>5 DEF Healing, Resetting

\* The number of settled items of either kind.
LEMMA CountType ==
    ASSUME NEW q \in [Item -> QueueDoc], NEW limit
    PROVE  /\ IsFiniteSet(DefinitelyFailed(q, limit))
           /\ Cardinality(DefinitelyFailed(q, limit)) \in Nat
           /\ IsFiniteSet(WithStatus(q, "completed"))
           /\ Cardinality(WithStatus(q, "completed")) \in Nat
<1>1. IsFiniteSet(Item)
  BY ItemQueueAssumption DEF ItemQueueAssumption
<1>2. /\ DefinitelyFailed(q, limit) \in SUBSET Item
      /\ WithStatus(q, "completed") \in SUBSET Item
  BY DEF DefinitelyFailed, WithStatus
<1> QED BY <1>1, <1>2, FS_Subset, FS_CardinalityType

LEMMA ReportedType ==
    ASSUME NEW t \in Task PROVE Cardinality(Reported(t)) \in Nat
<1>1. IsFiniteSet(Launches)
  BY TaskApiAssumption, FS_Interval DEF TaskApiAssumption, Launches
<1>2. Reported(t) \in SUBSET Launches
  BY DEF Reported
<1> QED BY <1>1, <1>2, FS_Subset, FS_CardinalityType

\* The steps of the scheduler before the launch.
LEMMA CycleType ==
    ASSUME TypeOK,
           \/ DaemonFails
           \/ GetTasks
           \/ EndCycle
           \/ \E t \in Task : OpenQueue(t)
           \/ CountInitial
           \/ CountFailed
           \/ CountCompleted
           \/ CloseTask
    PROVE  TypeOK'
<1>0. /\ task \in [Task -> TaskDoc] /\ mem \in [Task -> TaskDoc]
      /\ queue \in [Task -> [Item -> QueueDoc]] /\ cur \in Task
      /\ queue[cur] \in [Item -> QueueDoc] /\ mem[cur] \in TaskDoc
      /\ restarts \in Nat /\ counted \in [initial : BOOLEAN, settled : Nat]
      /\ reopened \in SUBSET Task /\ todo \in SUBSET Task
  BY DEF TypeOK
<1>8. ASSUME DaemonFails PROVE TypeOK'
  <2>1. faults' \in Nat
    BY <1>8 DEF DaemonFails, Fault, TypeOK
  <2>2. mem' \in [Task -> TaskDoc] /\ todo' \in SUBSET Task /\ counted' = NoCounts
    BY <1>8, NoTaskType DEF DaemonFails
  <2> QED BY <1>8, <2>1, <2>2, NoTaskType DEF DaemonFails, TypeOK, reqVars, history
<1>1. ASSUME GetTasks PROVE TypeOK'
  BY <1>0, <1>1 DEF GetTasks, TypeOK, apiVars, reqVars, history
<1>2. ASSUME EndCycle PROVE TypeOK'
  BY <1>0, <1>2, NoTaskType DEF EndCycle, TypeOK, apiVars, reqVars, history
<1>3. ASSUME NEW t \in Task, OpenQueue(t) PROVE TypeOK'
  <2>1. /\ mem' \in [Task -> TaskDoc] /\ cur' \in Task /\ todo' \in SUBSET Task
        /\ pc' \in {"count_initial", "idle"}
    BY <1>0, <1>3, NoTaskType DEF OpenQueue
  <2>2. restarts' \in Nat /\ daemon' \in {"running", "hung", "stopped"}
    BY <1>0, <1>3 DEF OpenQueue, TypeOK
  <2>3. reopened' \in SUBSET Task
    BY <1>0, <1>3 DEF OpenQueue
  <2> QED BY <1>3, <2>1, <2>2, <2>3 DEF OpenQueue, TypeOK, apiVars, reqVars
<1>4. ASSUME CountInitial PROVE TypeOK'
  <2> DEFINE some == WithStatus(queue[cur], "initial") # {}
  <2>1. [counted EXCEPT !.initial = some] \in [initial : BOOLEAN, settled : Nat]
    BY <1>0
  <2> QED BY <1>4, <2>1 DEF CountInitial, Count, TypeOK, apiVars, reqVars, history
<1>5. ASSUME CountFailed PROVE TypeOK'
  <2>1. [counted EXCEPT
             !.settled = Cardinality(DefinitelyFailed(queue[cur], mem[cur].retry))]
            \in [initial : BOOLEAN, settled : Nat]
    BY <1>0, CountType
  <2> QED BY <1>5, <2>1 DEF CountFailed, Count, TypeOK, apiVars, reqVars, history
<1>6. ASSUME CountCompleted PROVE TypeOK'
  <2>1. [counted EXCEPT !.settled = 0] \in [initial : BOOLEAN, settled : Nat]
    BY <1>0
  <2> QED BY <1>6, <2>1 DEF CountCompleted, Count, TypeOK, apiVars, reqVars, history
<1>7. ASSUME CloseTask PROVE TypeOK'
  <2>1. [mem[cur] EXCEPT !.status = "completed"] \in TaskDoc
    BY <1>0 DEF TaskDoc, CrawlStatus
  <2>2. Save(cur, [mem[cur] EXCEPT !.status = "completed"])
    BY <1>7 DEF CloseTask
  <2>3. /\ task' \in [Task -> TaskDoc] /\ daemon' \in {"running", "hung", "stopped"}
        /\ faults' \in Nat
    BY <1>0, <2>1, <2>2, SaveType
  <2>4. pc' = "next" /\ todo' \in SUBSET Task /\ counted' = NoCounts
    BY <1>0, <1>7 DEF CloseTask, NextTask
  <2> QED BY <1>7, <2>3, <2>4, NoTaskType DEF CloseTask, TypeOK, reqVars, history
<1> QED BY <1>1, <1>2, <1>3, <1>4, <1>5, <1>6, <1>7, <1>8

\* The scheduler's copy after the metas are processed.
LEMMA CountedOutDoc ==
    ASSUME TypeOK, ProcessWorkerMeta
    PROVE  \E n \in Nat :
               LET doc == [mem[cur] EXCEPT !.running = CountedOut(mem[cur].running, n)]
               IN /\ doc \in TaskDoc
                  /\ doc.queue = mem[cur].queue /\ doc.num_items = mem[cur].num_items
                  /\ doc.status = mem[cur].status /\ doc.retry = mem[cur].retry
                  /\ mem' = [mem EXCEPT ![cur] = doc]
                  /\ Save(cur, doc)
<1>0. mem[cur] \in TaskDoc /\ cur \in Task
  BY DEF TypeOK
<1> DEFINE n == Cardinality(Reported(cur))
           m == CountedOut(mem[cur].running, n)
           doc == [mem[cur] EXCEPT !.running = m]
<1>1. n \in Nat
  BY <1>0, ReportedType
<1>2. m \in Nat
  <2> HIDE DEF n
  <2> QED BY <1>0, <1>1 DEF CountedOut, TaskDoc
<1>3. /\ doc \in TaskDoc /\ doc.status = mem[cur].status
      /\ doc.queue = mem[cur].queue /\ doc.num_items = mem[cur].num_items
      /\ doc.retry = mem[cur].retry
  <2> HIDE DEF m
  <2> QED BY <1>0, <1>2 DEF TaskDoc
<1>4. mem' = [mem EXCEPT ![cur] = doc] /\ Save(cur, doc)
  BY DEF ProcessWorkerMeta
<1> HIDE DEF n
<1> QED BY <1>1, <1>3, <1>4

LEMMA ServingType ==
    ASSUME TypeOK,
           \/ ProcessWorkerMeta
           \/ \E w \in Launches : Launch(w)
           \/ LaunchNone
    PROVE  TypeOK'
<1>0. /\ task \in [Task -> TaskDoc] /\ mem \in [Task -> TaskDoc]
      /\ queue \in [Task -> [Item -> QueueDoc]] /\ cur \in Task
      /\ queue[cur] \in [Item -> QueueDoc] /\ mem[cur] \in TaskDoc
      /\ worker \in [Launches -> WorkerDoc] /\ todo \in SUBSET Task
  BY DEF TypeOK
<1>1. ASSUME ProcessWorkerMeta PROVE TypeOK'
  <2>1. PICK doc \in TaskDoc : mem' = [mem EXCEPT ![cur] = doc] /\ Save(cur, doc)
    BY <1>1, CountedOutDoc
  <2>2. /\ task' \in [Task -> TaskDoc] /\ daemon' \in {"running", "hung", "stopped"}
        /\ mem' \in [Task -> TaskDoc] /\ faults' \in Nat
    BY <1>0, <2>1, SaveType
  <2>3. queue' \in [Task -> [Item -> QueueDoc]]
    <3> DEFINE q == EnqueueFailedItems(queue[cur], mem[cur].retry)
    <3>1. q \in [Item -> QueueDoc]
      <4>1. mem[cur].retry \in Nat
        BY <1>0 DEF TaskDoc
      <4> QED BY <1>0, <4>1, ResetsKeepStored
    <3>2. queue' = queue \/ queue' = [queue EXCEPT ![cur] = q]
      BY <1>1 DEF ProcessWorkerMeta
    <3> HIDE DEF q
    <3> QED BY <1>0, <3>1, <3>2
  <2>4. worker' \in [Launches -> WorkerDoc]
    <3>1. \A w \in Launches : [worker[w] EXCEPT !.meta = FALSE] \in WorkerDoc
      BY <1>0 DEF WorkerDoc
    <3> QED BY <1>0, <1>1, <3>1 DEF ProcessWorkerMeta
  <2> QED BY <1>1, <2>2, <2>3, <2>4 DEF ProcessWorkerMeta, TypeOK, reqVars, history
<1>2. ASSUME NEW w \in Launches, Launch(w) PROVE TypeOK'
  <2> DEFINE n == mem[cur].running + 1
             doc == [mem[cur] EXCEPT !.running = n]
  <2>0. n \in Nat
    BY <1>0 DEF TaskDoc
  <2>1. doc \in TaskDoc
    <3> HIDE DEF n
    <3> QED BY <1>0, <2>0 DEF TaskDoc
  <2>2. Save(cur, doc)
    BY <1>2 DEF Launch
  <2>3. /\ task' \in [Task -> TaskDoc] /\ daemon' \in {"running", "hung", "stopped"}
        /\ faults' \in Nat
    <3> HIDE DEF doc
    <3> QED BY <1>0, <2>1, <2>2, SaveType
  <2>4. [worker[w] EXCEPT !.task = cur, !.phase = "claiming", !.meta = TRUE] \in WorkerDoc
    BY <1>0 DEF WorkerDoc
  <2>5. worker' \in [Launches -> WorkerDoc]
    BY <1>0, <1>2, <2>4 DEF Launch
  <2>6. pc' = "next" /\ todo' \in SUBSET Task /\ counted' = NoCounts
    BY <1>0, <1>2 DEF Launch, NextTask
  <2> QED BY <1>2, <2>3, <2>5, <2>6, NoTaskType DEF Launch, TypeOK, reqVars, history
<1>3. ASSUME LaunchNone PROVE TypeOK'
  <2>1. pc' = "next" /\ todo' \in SUBSET Task /\ counted' = NoCounts
    BY <1>0, <1>3 DEF LaunchNone, NextTask
  <2> QED BY <1>3, <2>1, NoTaskType DEF LaunchNone, TypeOK, apiVars, reqVars, history
<1> QED BY <1>1, <1>2, <1>3

\* A worker writes what it has of an item that is still there.
LEMMA WrittenItem ==
    ASSUME TypeOK, NEW w \in Launches, NEW st \in {"completed", "failed"},
           WriteItem(w, st)
    PROVE  LET t == worker[w].task
           IN /\ t \in Task
              /\ queue' \in [Task -> [Item -> QueueDoc]]
              /\ \A u \in Task : Stored(queue'[u]) = Stored(queue[u])
              /\ \A u \in Task \ {t} : queue'[u] = queue[u]
              /\ \A i \in Item : i \notin worker[w].item \cap Stored(queue[t])
                                    => queue'[t][i] = queue[t][i]
              /\ \A i \in Item : i \in worker[w].item \cap Stored(queue[t])
                                    => queue'[t][i].status \in {"completed", "failed"}
<1> DEFINE t == worker[w].task
           doc == [status |-> st, crawled |-> st = "completed",
                   retries |-> worker[w].doc.retries + 1]
           q == [i \in Item |-> IF i \in worker[w].item \cap Stored(queue[t])
                                THEN doc ELSE queue[t][i]]
<1>0. t \in Task /\ queue \in [Task -> [Item -> QueueDoc]]
      /\ queue[t] \in [Item -> QueueDoc] /\ worker[w].doc \in QueueDoc
  BY DEF TypeOK, WorkerDoc
<1>1. doc \in QueueDoc /\ doc.status \in {"completed", "failed"}
  BY <1>0 DEF QueueDoc, QueueItemStatus
<1>2. queue' = [queue EXCEPT ![t] = q]
  BY <1>0 DEF WriteItem
<1> HIDE DEF t, doc
<1>3. q \in [Item -> QueueDoc]
  BY <1>0, <1>1
<1>4. Stored(q) = Stored(queue[t])
  BY <1>0, <1>1 DEF Stored
<1>5. queue'[t] = q /\ \A u \in Task \ {t} : queue'[u] = queue[u]
  BY <1>0, <1>2
<1>6. \A u \in Task : Stored(queue'[u]) = Stored(queue[u])
  BY <1>4, <1>5
<1>7. queue' \in [Task -> [Item -> QueueDoc]]
  BY <1>0, <1>2, <1>3
<1> QED BY <1>0, <1>1, <1>5, <1>6, <1>7 DEF t

LEMMA WorkerType ==
    ASSUME TypeOK, NEW w \in Launches, Worker(w)
    PROVE  TypeOK'
<1>0. /\ worker \in [Launches -> WorkerDoc] /\ worker[w] \in WorkerDoc
      /\ worker[w].task \in Task /\ queue \in [Task -> [Item -> QueueDoc]]
      /\ queue[worker[w].task] \in [Item -> QueueDoc]
  BY DEF TypeOK, WorkerDoc
<1>1. ASSUME NEW i \in Item, ClaimItem(w, i) PROVE TypeOK'
  <2> DEFINE t == worker[w].task
             r1 == [worker[w] EXCEPT !.item = {i}]
             r2 == [r1 EXCEPT !.doc = queue'[t][i]]
  <2>1. i \in Claimable(queue[t]) /\ queue' = [queue EXCEPT ![t] = TakeItem(queue[t], i)]
    BY <1>1 DEF ClaimItem
  <2>2. TakeItem(queue[t], i) \in [Item -> QueueDoc]
    BY <1>0, <2>1, TakenItem
  <2>3. queue' \in [Task -> [Item -> QueueDoc]] /\ queue'[t][i] \in QueueDoc
    BY <1>0, <2>1, <2>2
  <2>4. r1 \in WorkerDoc
    BY <1>0 DEF WorkerDoc
  <2>5. r2 \in WorkerDoc
    <3> HIDE DEF r1, t
    <3> QED BY <2>3, <2>4 DEF WorkerDoc
  <2>6. [r2 EXCEPT !.phase = "crawling"] \in WorkerDoc
    <3> HIDE DEF r2
    <3> QED BY <2>5 DEF WorkerDoc
  <2>7. worker' = [worker EXCEPT ![w] = [r2 EXCEPT !.phase = "crawling"]]
    BY <1>0, <1>1 DEF ClaimItem, WorkerDoc
  <2>8. worker' \in [Launches -> WorkerDoc]
    <3> HIDE DEF r2
    <3> QED BY <1>0, <2>6, <2>7
  <2> QED BY <1>1, <2>3, <2>8 DEF ClaimItem, TypeOK, apiVars, reqVars, schedVars, history
<1>2. ASSUME NothingToClaim(w) PROVE TypeOK'
  <2>1. worker' \in [Launches -> WorkerDoc]
    BY <1>0, <1>2 DEF NothingToClaim, WorkerDoc
  <2> QED BY <1>2, <2>1 DEF NothingToClaim, TypeOK, apiVars, reqVars, schedVars, history
<1>3. ASSUME NEW st \in {"completed", "failed"}, WriteItem(w, st) PROVE TypeOK'
  <2>1. queue' \in [Task -> [Item -> QueueDoc]]
    BY <1>3, WrittenItem
  <2>2. [worker[w] EXCEPT !.item = {}, !.doc = AbsentDoc, !.into = {}, !.phase = "ended"]
            \in WorkerDoc
    BY <1>0, FreshDocs DEF WorkerDoc
  <2>3. worker' \in [Launches -> WorkerDoc]
    BY <1>0, <1>3, <2>2 DEF WriteItem
  <2> QED BY <1>3, <2>1, <2>3 DEF WriteItem, TypeOK, apiVars, reqVars, schedVars, history
<1> QED BY <1>1, <1>2, <1>3 DEF Worker

LEMMA EnqueuingType ==
    ASSUME TypeOK, NEW w \in Launches, Enqueuing(w)
    PROVE  TypeOK'
<1>0. /\ worker \in [Launches -> WorkerDoc] /\ worker[w] \in WorkerDoc
      /\ queue \in [Task -> [Item -> QueueDoc]]
      /\ orphaned \in SUBSET Task /\ altered \in SUBSET Task
  BY DEF TypeOK
<1>1. ASSUME NEW u \in Task, GetQueueName(w, u) PROVE TypeOK'
  <2>1. [worker[w] EXCEPT !.into = {u}] \in WorkerDoc
    BY <1>0 DEF WorkerDoc
  <2>2. worker' \in [Launches -> WorkerDoc]
    BY <1>0, <1>1, <2>1 DEF GetQueueName
  <2> QED BY <1>1, <2>2 DEF GetQueueName, TypeOK, apiVars, reqVars, schedVars, history
<1>2. ASSUME NEW u \in Task, NEW i \in Item, EnqueueItem(w, u, i) PROVE TypeOK'
  <2>1. [worker[w] EXCEPT !.into = {}] \in WorkerDoc
    BY <1>0 DEF WorkerDoc
  <2>2. worker' \in [Launches -> WorkerDoc]
    BY <1>0, <1>2, <2>1 DEF EnqueueItem
  <2>3. queue' \in [Task -> [Item -> QueueDoc]]
    BY <1>0, <1>2, InsertedItems DEF EnqueueItem
  <2>4. orphaned' \in SUBSET Task /\ altered' \in SUBSET Task
    BY <1>0, <1>2 DEF EnqueueItem
  <2> QED BY <1>2, <2>2, <2>3, <2>4 DEF EnqueueItem, TypeOK, apiVars, reqVars, schedVars
<1> QED BY <1>1, <1>2 DEF Enqueuing

LEMMA TypeInit == Init => TypeOK
<1> SUFFICES ASSUME Init PROVE TypeOK
  OBVIOUS
<1>1. queue \in [Task -> [Item -> QueueDoc]]
  BY EmptyQueue DEF Init
<1>2. [task |-> cur, item |-> {}, doc |-> AbsentDoc, into |-> {}, phase |-> "none",
       meta |-> FALSE] \in WorkerDoc
  BY FreshDocs DEF Init, WorkerDoc
<1>3. worker \in [Launches -> WorkerDoc]
  BY <1>2 DEF Init
<1> QED BY <1>1, <1>3, NoTaskType DEF Init, TypeOK

\* The steps, grouped as the lemmas above take them.
LEMMA Steps ==
    ASSUME Next
    PROVE  \/ \E t \in Task :
                 \/ \E p \in Payload, st \in {"started", "paused"} : CreateTask(t, p, st)
                 \/ Creating(t)
                 \/ InsertFails(t)
           \/ \E t \in Task : DeleteTask(t) \/ Deleting(t) \/ DeleteAll
           \/ Setting
           \/ Healing
           \/ \/ DaemonFails
              \/ GetTasks
              \/ EndCycle
              \/ \E t \in Task : OpenQueue(t)
              \/ CountInitial
              \/ CountFailed
              \/ CountCompleted
              \/ CloseTask
           \/ \/ ProcessWorkerMeta
              \/ \E w \in Launches : Launch(w)
              \/ LaunchNone
           \/ \E w \in Launches : Worker(w) \/ Enqueuing(w)
<1>1. ASSUME Client
      PROVE  \/ \E t \in Task : \E p \in Payload, st \in {"started", "paused"} :
                     CreateTask(t, p, st)
             \/ \E t \in Task : DeleteTask(t) \/ DeleteAll
             \/ Setting
             \/ Healing
  <2>1. ASSUME DeleteAll PROVE \E t \in Task : DeleteTask(t) \/ DeleteAll
    BY <2>1 DEF DeleteAll
  <2> QED BY <1>1, <2>1 DEF Client, Setting, Healing
<1> QED BY <1>1 DEF Next, Scheduler, Healing

LEMMA TypeNext == TypeOK /\ [Next]_vars => TypeOK'
<1> SUFFICES ASSUME TypeOK, [Next]_vars PROVE TypeOK'
  OBVIOUS
<1>1. CASE Next
  <2>1. ASSUME Setting PROVE TypeOK'
    BY <2>1, SettingStep DEF TypeOK, schedVars
  <2> QED BY <1>1, <2>1, Steps, CreatingType, DeletingType, HealingType, CycleType,
             ServingType, WorkerType, EnqueuingType
<1>2. CASE UNCHANGED vars
  BY <1>2 DEF vars, apiVars, reqVars, schedVars, history, TypeOK
<1> QED BY <1>1, <1>2

\* Whatever clients ask for in whatever order, every variable keeps its type.
THEOREM TypeCorrect == Spec => []TypeOK
<1> QED BY TypeInit, TypeNext, PTL DEF Spec

-----------------------------------------------------------------------------
(* Pauses. *)

\* What the scheduler saves changes neither the queue nor the number of items,
\* and a status only when the scheduler gave its copy another one.
LEMMA SavedTask ==
    ASSUME TypeOK, NEW t \in Task, NEW d \in TaskDoc, Save(t, d),
           d.status = mem[t].status \/ d.status # "absent"
    PROVE  \A u \in Task :
               /\ task'[u].queue = task[u].queue
               /\ task'[u].num_items = task[u].num_items
               /\ Exists(u)' <=> Exists(u)
               /\ \/ task'[u].status = task[u].status
                  \/ u = t /\ d.status # mem[t].status /\ task'[u].status = d.status
<1>0. task \in [Task -> TaskDoc] /\ task[t] \in TaskDoc
  BY DEF TypeOK
<1>1. CASE Exists(t) /\ task' = [task EXCEPT ![t] = SaveModified(t, d)]
  <2> DEFINE new == SaveModified(t, d)
  <2>1. /\ new.queue = task[t].queue /\ new.num_items = task[t].num_items
        /\ new.status = IF d.status # mem[t].status THEN d.status ELSE task[t].status
    BY <1>0 DEF SaveModified, TaskDoc
  <2>2. task' = [task EXCEPT ![t] = new]
    BY <1>1
  <2> HIDE DEF new
  <2>3. \A u \in Task : task'[u] = IF u = t THEN new ELSE task[u]
    BY <1>0, <2>2
  <2> QED BY <1>1, <2>1, <2>3 DEF Exists
<1>2. CASE task' = task
  BY <1>2 DEF Exists
<1> QED BY <1>1, <1>2 DEF Save

\* The three saves of a cycle.
LEMMA SchedulerSaves ==
    ASSUME TypeOK, CloseTask \/ ProcessWorkerMeta \/ \E w \in Launches : Launch(w)
    PROVE  \A u \in Task :
               /\ task'[u].queue = task[u].queue
               /\ task'[u].num_items = task[u].num_items
               /\ Exists(u)' <=> Exists(u)
               /\ task'[u].status \in {task[u].status, "completed"}
<1>0. mem[cur] \in TaskDoc /\ cur \in Task
  BY DEF TypeOK
<1>1. CASE CloseTask
  <2> DEFINE doc == [mem[cur] EXCEPT !.status = "completed"]
  <2>1. doc \in TaskDoc /\ doc.status = "completed"
    BY <1>0 DEF TaskDoc, CrawlStatus
  <2>2. Save(cur, doc)
    BY <1>1 DEF CloseTask
  <2> HIDE DEF doc
  <2> QED BY <1>0, <2>1, <2>2, SavedTask
<1>2. CASE ProcessWorkerMeta
  <2>1. PICK doc \in TaskDoc : doc.status = mem[cur].status /\ Save(cur, doc)
    BY <1>2, CountedOutDoc
  <2> QED BY <1>0, <2>1, SavedTask
<1>3. ASSUME NEW w \in Launches, Launch(w)
      PROVE  \A u \in Task :
               /\ task'[u].queue = task[u].queue
               /\ task'[u].num_items = task[u].num_items
               /\ Exists(u)' <=> Exists(u)
               /\ task'[u].status \in {task[u].status, "completed"}
  <2> DEFINE n == mem[cur].running + 1
             doc == [mem[cur] EXCEPT !.running = n]
  <2>0. n \in Nat
    BY <1>0 DEF TaskDoc
  <2>1. doc \in TaskDoc /\ doc.status = mem[cur].status
    <3> HIDE DEF n
    <3> QED BY <1>0, <2>0 DEF TaskDoc
  <2>2. Save(cur, doc)
    BY <1>3 DEF Launch
  <2> HIDE DEF doc
  <2> QED BY <1>0, <2>1, <2>2, SavedTask
<1> QED BY <1>1, <1>2, <1>3

LEMMA PauseStep == TypeOK /\ [Next]_vars =>
    \A t \in Task : task[t].status = "paused" /\ task'[t].status = "started"
                       => requests' > requests
<1> SUFFICES ASSUME TypeOK, [Next]_vars, NEW t \in Task,
                    task[t].status = "paused", task'[t].status = "started"
             PROVE  requests' > requests
  OBVIOUS
<1>0. requests \in Nat /\ task \in [Task -> TaskDoc] /\ task[t] \in TaskDoc
  BY DEF TypeOK
<1>a. requests' = requests + 1 => requests' > requests
  BY <1>0
<1>b. task'[t].status # task[t].status
  OBVIOUS
<1>1. ASSUME NEW u \in Task,
             \/ \E p \in Payload, st \in {"started", "paused"} : CreateTask(u, p, st)
             \/ Creating(u)
             \/ InsertFails(u)
      PROVE  requests' > requests
  <2>1. ASSUME NEW p \in Payload, NEW st \in {"started", "paused"}, CreateTask(u, p, st)
        PROVE  requests' > requests
    BY <1>a, <2>1 DEF CreateTask, Request
  <2>2. ASSUME SaveNewTask(u) PROVE task'[t].status = task[t].status
    BY <1>0, <2>2 DEF SaveNewTask, TaskDoc
  <2>3. ASSUME NEW i \in Item, InsertItem(u, i) PROVE task' = task
    BY <2>3 DEF InsertItem
  <2>4. ASSUME InsertFails(u) PROVE task' = task
    BY <2>4 DEF InsertFails
  <2> QED BY <1>1, <1>b, <2>1, <2>2, <2>3, <2>4 DEF Creating
<1>2. ASSUME NEW u \in Task, DeleteTask(u) \/ Deleting(u) \/ DeleteAll
      PROVE  task'[t].status \in {task[t].status, "absent"}
  BY <1>0, <1>2, NoTaskType
     DEF DeleteTask, Deleting, DropQueue, DropWorkerMeta, DeleteDoc, DeleteAll
<1>3. CASE Setting
  BY <1>3, <1>a, SettingStep
<1>4. ASSUME Healing PROVE task' = task
  BY <1>4 DEF Healing, HealQueue, Enqueue, Resetting, ResetItems, UpdateItems, ApiExit
<1>5. ASSUME \/ CloseTask
             \/ ProcessWorkerMeta
             \/ \E w \in Launches : Launch(w)
      PROVE  task'[t].status \in {task[t].status, "completed"}
  BY <1>5, SchedulerSaves
<1>6. ASSUME \/ GetTasks
             \/ EndCycle
             \/ \E u \in Task : OpenQueue(u)
             \/ CountInitial
             \/ CountFailed
             \/ CountCompleted
             \/ LaunchNone
             \/ DaemonFails
      PROVE  task' = task
  BY <1>6 DEF DaemonFails, GetTasks, EndCycle, OpenQueue, CountInitial, CountFailed, CountCompleted,
              Count, LaunchNone
<1>7. ASSUME NEW w \in Launches, Worker(w) \/ Enqueuing(w) PROVE task' = task
  BY <1>7 DEF Worker, ClaimItem, NothingToClaim, WriteItem, Enqueuing, GetQueueName,
              EnqueueItem
<1>8. CASE Next
  BY <1>1, <1>2, <1>3, <1>4, <1>5, <1>6, <1>7, <1>8, <1>b, Steps
<1>9. CASE UNCHANGED vars
  BY <1>9, <1>b DEF vars
<1> QED BY <1>8, <1>9

\* Only a request ends a pause, however the scheduler's saves and those of the
\* other requests fall.
THEOREM PausesHold == Spec => PauseHolds
<1>1. TypeOK /\ [Next]_vars =>
          [\A t \in Task : task[t].status = "paused" /\ task'[t].status = "started"
               => requests' > requests]_vars
  BY PauseStep
<1> QED BY <1>1, TypeCorrect, PTL DEF Spec, PauseHolds

-----------------------------------------------------------------------------
(* What becomes of the queue of a task that is deleted. *)

\* Unless the task was altered, its queue has a name only when it is complete and
\* there are no items before it; items without a task belong to an orphan, and a
\* deletion that follows a named queue empties it.
OrphanInv(t) ==
    /\ creation[t].phase = "none"
           => ~Exists(t) /\ (t \in altered \/ Stored(queue[t]) = {})
    /\ task[t].queue => t \in altered \/ creation[t].phase = "done"
    /\ deletion[t] \in {"queue", "meta"} => t \in orphaned \/ creation[t].phase = "done"
    /\ deletion[t] = "meta" => t \in orphaned \/ Stored(queue[t]) = {}
    /\ deletion[t] = "doc"
           => \/ t \in orphaned
              \/ creation[t].phase = "done" /\ Stored(queue[t]) = {}
    /\ ~Exists(t) /\ creation[t].phase \in {"insert", "save"} => t \in orphaned
    /\ ~Exists(t) /\ Stored(queue[t]) # {} => t \in orphaned


\* A step that leaves the life of a task, and which items it has, as they are.
Steady(t) ==
    /\ \/ t \in altered'
       \/ /\ task'[t].queue = task[t].queue
          /\ task'[t].num_items = task[t].num_items
    /\ Exists(t)' <=> Exists(t)
    /\ creation'[t] = creation[t]
    /\ deletion'[t] = deletion[t]
    /\ Stored(queue'[t]) = Stored(queue[t])
    /\ t \in orphaned' <=> t \in orphaned

\* A task that was altered once is so for ever.
LEMMA AlteredGrows ==
    ASSUME TypeOK, [Next]_vars
    PROVE  altered \subseteq altered'
<1>1. ASSUME Setting PROVE altered \subseteq altered'
  BY <1>1, SettingStep
<1>2. ASSUME \/ \E t \in Task :
                   \/ \E p \in Payload, st \in {"started", "paused"} : CreateTask(t, p, st)
                   \/ Creating(t)
                   \/ InsertFails(t)
             \/ \E t \in Task : DeleteTask(t) \/ Deleting(t) \/ DeleteAll
             \/ Healing
      PROVE  altered' = altered
  BY <1>2 DEF CreateTask, Creating, InsertItem, SaveNewTask, InsertFails, DeleteTask,
              Deleting, DropQueue, DropWorkerMeta, DeleteDoc, DeleteAll, Healing,
              HealQueue, Enqueue, Resetting, ResetItems, UpdateItems, ApiExit, history
<1>3. ASSUME \/ DaemonFails \/ GetTasks \/ EndCycle \/ \E t \in Task : OpenQueue(t)
             \/ CountInitial \/ CountFailed \/ CountCompleted \/ CloseTask
             \/ ProcessWorkerMeta \/ \E w \in Launches : Launch(w)
             \/ LaunchNone
      PROVE  altered' = altered
  BY <1>3 DEF DaemonFails, GetTasks, EndCycle, OpenQueue, CountInitial, CountFailed,
              CountCompleted, Count, CloseTask, ProcessWorkerMeta, Launch, LaunchNone,
              history
<1>4. ASSUME NEW w \in Launches, Worker(w) \/ Enqueuing(w)
      PROVE  altered \subseteq altered'
  BY <1>4 DEF Worker, ClaimItem, NothingToClaim, WriteItem, Enqueuing, GetQueueName,
              EnqueueItem, history
<1>5. CASE Next
  BY <1>1, <1>2, <1>3, <1>4, <1>5, Steps
<1>6. CASE UNCHANGED vars
  BY <1>6 DEF vars, history
<1> QED BY <1>5, <1>6

\* Stuttering on what the invariants look at.
LEMMA SameIsSteady ==
    ASSUME NEW t \in Task, task'[t] = task[t], creation'[t] = creation[t],
           deletion'[t] = deletion[t], queue'[t] = queue[t], orphaned' = orphaned
    PROVE  Steady(t)
BY DEF Steady, Exists

\* Every other step is one of these, about this very task.
LEMMA LifeSteps ==
    ASSUME TypeOK, [Next]_vars, NEW t \in Task
    PROVE  \/ \E p \in Payload, st \in {"started", "paused"} : CreateTask(t, p, st)
           \/ \E i \in Item : InsertItem(t, i)
           \/ InsertFails(t)
           \/ SaveNewTask(t)
           \/ DeleteTask(t)
           \/ DropQueue(t)
           \/ DropWorkerMeta(t)
           \/ DeleteDoc(t)
           \/ DeleteAll
           \/ ApiExit
           \/ \E w \in Launches, i \in Item : EnqueueItem(w, t, i)
           \/ Steady(t)
<1>0. /\ task \in [Task -> TaskDoc] /\ queue \in [Task -> [Item -> QueueDoc]]
      /\ creation \in [Task -> Creation]
      /\ deletion \in [Task -> {"none", "queue", "meta", "doc"}]
      /\ orphaned \in SUBSET Task
  BY DEF TypeOK
<1>1. ASSUME NEW u \in Task \ {t},
             \/ \E p \in Payload, st \in {"started", "paused"} : CreateTask(u, p, st)
             \/ Creating(u)
             \/ InsertFails(u)
      PROVE  Steady(t)
  BY <1>0, <1>1, SameIsSteady
     DEF CreateTask, Creating, InsertItem, SaveNewTask, InsertFails, history
<1>2. ASSUME NEW u \in Task \ {t}, Deleting(u)
      PROVE  Steady(t)
  BY <1>0, <1>2, SameIsSteady DEF Deleting, DropQueue, DropWorkerMeta, DeleteDoc, history
<1>3. ASSUME NEW u \in Task \ {t}, DeleteTask(u)
      PROVE  Steady(t)
  <2>1. UNCHANGED <<task, creation, queue>> /\ deletion'[t] = deletion[t]
    BY <1>0, <1>3 DEF DeleteTask
  <2>2. t \in orphaned' <=> t \in orphaned
    BY <1>3 DEF DeleteTask
  <2> QED BY <2>1, <2>2 DEF Steady, Exists
<1>4. ASSUME Setting
      PROVE  Steady(t)
  <2>1. /\ \/ t \in altered'
           \/ /\ task'[t].queue = task[t].queue
              /\ task'[t].num_items = task[t].num_items
        /\ Exists(t)' <=> Exists(t)
    BY <1>4, SettingTasks
  <2>2. UNCHANGED <<queue, creation, deletion, orphaned>>
    BY <1>4, SettingStep
  <2> QED BY <2>1, <2>2 DEF Steady
<1>5. ASSUME Healing
      PROVE  ApiExit \/ Steady(t)
  <2>1. ASSUME NEW u \in Task, ResetItems(u)
        PROVE  Steady(t)
    <3>1. queue[u] \in [Item -> QueueDoc]
      BY <1>0
    <3>2. queue' = [queue EXCEPT ![u] = ResetRunningItems(queue[u])]
          \/ queue' = [queue EXCEPT ![u] = EnqueueAllFailedItems(queue[u])]
      BY <2>1 DEF ResetItems
    <3>3. Stored(queue'[t]) = Stored(queue[t])
      <4>1. 0 \in Nat
        OBVIOUS
      <4> QED BY <1>0, <3>1, <3>2, <4>1, ResetsKeepStored
    <3> QED BY <2>1, <3>3 DEF ResetItems, Steady, Exists
  <2>2. ASSUME NEW u \in Task, UpdateItems(u)
        PROVE  Steady(t)
    <3> DEFINE S == chosen[u] \cap Stored(queue[u])
    <3>1. queue[u] \in [Item -> QueueDoc] /\ S \in SUBSET Item
      BY <1>0 DEF TypeOK
    <3>2. Stored(InsertItems(queue[u], S)) = Stored(queue[u])
      BY <3>1, InsertedItems
    <3>3. queue' = queue \/ queue' = [queue EXCEPT ![u] = InsertItems(queue[u], S)]
      BY <2>2 DEF UpdateItems
    <3> HIDE DEF S
    <3>4. Stored(queue'[t]) = Stored(queue[t])
      BY <1>0, <3>2, <3>3
    <3> QED BY <2>2, <3>4 DEF UpdateItems, Steady, Exists
  <2>3. ASSUME NEW u \in Task,
               \/ \E what \in {"running", "failed"} : HealQueue(u, what)
               \/ \E S \in SUBSET WithStatus(queue[u], "completed") : Enqueue(u, S)
        PROVE  Steady(t)
    BY <2>3, SameIsSteady DEF HealQueue, Enqueue, history
  <2> QED BY <1>5, <2>1, <2>2, <2>3 DEF Healing, Resetting
<1>6. ASSUME \/ GetTasks
             \/ EndCycle
             \/ \E u \in Task : OpenQueue(u)
             \/ CountInitial
             \/ CountFailed
             \/ CountCompleted
             \/ LaunchNone
             \/ DaemonFails
      PROVE  Steady(t)
  BY <1>6, SameIsSteady
     DEF GetTasks, EndCycle, OpenQueue, CountInitial, CountFailed, CountCompleted, Count,
         LaunchNone, DaemonFails, apiVars, reqVars, history
<1>7. ASSUME CloseTask \/ ProcessWorkerMeta \/ \E w \in Launches : Launch(w)
      PROVE  Steady(t)
  <2>1. /\ task'[t].queue = task[t].queue /\ task'[t].num_items = task[t].num_items
        /\ Exists(t)' <=> Exists(t)
    BY <1>7, SchedulerSaves
  <2>2. UNCHANGED <<creation, deletion, orphaned>>
    BY <1>7 DEF CloseTask, ProcessWorkerMeta, Launch, reqVars, history
  <2>3. Stored(queue'[t]) = Stored(queue[t])
    <3> DEFINE q == EnqueueFailedItems(queue[cur], mem[cur].retry)
    <3>1. cur \in Task /\ queue[cur] \in [Item -> QueueDoc] /\ mem[cur].retry \in Nat
      BY <1>0 DEF TypeOK, TaskDoc
    <3>2. queue' = queue \/ queue' = [queue EXCEPT ![cur] = q]
      BY <1>7 DEF CloseTask, ProcessWorkerMeta, Launch
    <3>3. Stored(q) = Stored(queue[cur])
      BY <3>1, ResetsKeepStored
    <3> HIDE DEF q
    <3> QED BY <1>0, <3>1, <3>2, <3>3
  <2> QED BY <2>1, <2>2, <2>3 DEF Steady
<1>8. ASSUME NEW w \in Launches, Worker(w)
      PROVE  Steady(t)
  <2>1. UNCHANGED <<task, creation, deletion, orphaned>>
    BY <1>8 DEF Worker, ClaimItem, NothingToClaim, WriteItem, apiVars, reqVars, history
  <2>2. Stored(queue'[t]) = Stored(queue[t])
    <3>1. ASSUME NEW i \in Item, ClaimItem(w, i)
          PROVE  Stored(queue'[t]) = Stored(queue[t])
      <4> DEFINE u == worker[w].task
      <4>1. u \in Task /\ queue[u] \in [Item -> QueueDoc]
        BY <1>0 DEF TypeOK, WorkerDoc
      <4>2. i \in Claimable(queue[u]) /\ queue' = [queue EXCEPT ![u] = TakeItem(queue[u], i)]
        BY <3>1 DEF ClaimItem
      <4> HIDE DEF u
      <4> QED BY <1>0, <4>1, <4>2, TakenItem
    <3>2. ASSUME NothingToClaim(w) PROVE queue' = queue
      BY <3>2 DEF NothingToClaim
    <3>3. ASSUME NEW st \in {"completed", "failed"}, WriteItem(w, st)
          PROVE  Stored(queue'[t]) = Stored(queue[t])
      BY <3>3, WrittenItem
    <3> QED BY <1>8, <3>1, <3>2, <3>3 DEF Worker
  <2> QED BY <2>1, <2>2 DEF Steady, Exists
<1>12. ASSUME NEW w \in Launches, Enqueuing(w)
       PROVE  Steady(t) \/ \E i \in Item : EnqueueItem(w, t, i)
  <2>1. ASSUME NEW u \in Task, GetQueueName(w, u)
        PROVE  Steady(t)
    BY <2>1, SameIsSteady DEF GetQueueName, apiVars, reqVars, history
  <2>2. ASSUME NEW u \in Task \ {t}, NEW i \in Item, EnqueueItem(w, u, i)
        PROVE  Steady(t)
    <3>1. UNCHANGED <<task, creation, deletion>> /\ queue'[t] = queue[t]
      BY <1>0, <2>2 DEF EnqueueItem, apiVars, reqVars
    <3>2. t \in orphaned' <=> t \in orphaned
      BY <2>2 DEF EnqueueItem
    <3> QED BY <3>1, <3>2 DEF Steady, Exists
  <2> QED BY <1>12, <2>1, <2>2 DEF Enqueuing
<1>9. CASE UNCHANGED vars
  BY <1>9, SameIsSteady DEF vars, apiVars, reqVars, history
<1>10. ASSUME Next
       PROVE  \/ \E u \in Task :
                    \/ \E p \in Payload, st \in {"started", "paused"} :
                           CreateTask(u, p, st)
                    \/ Creating(u)
                    \/ InsertFails(u)
              \/ \E u \in Task : DeleteTask(u) \/ Deleting(u)
              \/ DeleteAll
              \/ ApiExit
              \/ \E w \in Launches, i \in Item : EnqueueItem(w, t, i)
              \/ Steady(t)
  BY <1>4, <1>5, <1>6, <1>7, <1>8, <1>10, <1>12, Steps
<1>11. ASSUME Next
       PROVE  \/ \E p \in Payload, st \in {"started", "paused"} : CreateTask(t, p, st)
              \/ Creating(t)
              \/ InsertFails(t)
              \/ DeleteTask(t) \/ Deleting(t)
              \/ DeleteAll
              \/ ApiExit
              \/ \E w \in Launches, i \in Item : EnqueueItem(w, t, i)
              \/ Steady(t)
  BY <1>1, <1>2, <1>3, <1>10, <1>11
<1> QED BY <1>9, <1>11 DEF Creating, Deleting

LEMMA OrphanInit == ASSUME Init, NEW t \in Task PROVE OrphanInv(t)
BY EmptyQueue, NoTaskType DEF Init, OrphanInv, Exists, NoCreation

LEMMA OrphanNext ==
    ASSUME TypeOK, [Next]_vars, NEW t \in Task, OrphanInv(t)
    PROVE  OrphanInv(t)'
<1>0. /\ task \in [Task -> TaskDoc] /\ queue \in [Task -> [Item -> QueueDoc]]
      /\ creation \in [Task -> Creation] /\ creation[t] \in Creation
      /\ deletion \in [Task -> {"none", "queue", "meta", "doc"}]
      /\ orphaned \in SUBSET Task /\ task[t] \in TaskDoc
      /\ queue[t] \in [Item -> QueueDoc] /\ altered \subseteq altered'
  BY AlteredGrows DEF TypeOK
<1>1. ASSUME NEW p \in Payload, NEW st \in {"started", "paused"}, CreateTask(t, p, st)
      PROVE  OrphanInv(t)'
  <2>1. /\ creation'[t].phase \in {"insert", "save"} /\ ~task'[t].queue
        /\ task'[t].status = st
    BY <1>0, <1>1 DEF CreateTask, FirstDoc, NewDoc
  <2>2. creation[t].phase = "none"
    BY <1>1 DEF CreateTask
  <2>3. UNCHANGED <<queue, deletion, orphaned>>
    BY <1>1 DEF CreateTask, history
  <2> QED BY <1>0, <2>1, <2>2, <2>3 DEF OrphanInv, Exists
<1>2. ASSUME NEW i \in Item, InsertItem(t, i)
      PROVE  OrphanInv(t)'
  <2>1. creation[t].phase = "insert" /\ creation'[t].phase \in {"insert", "save"}
    BY <1>0, <1>2 DEF InsertItem, Creation
  <2>2. UNCHANGED <<task, deletion, orphaned>>
    BY <1>2 DEF InsertItem, history
  <2> QED BY <1>0, <2>1, <2>2 DEF OrphanInv, Exists
<1>3. ASSUME InsertFails(t)
      PROVE  OrphanInv(t)'
  <2>1. creation[t].phase = "insert" /\ creation'[t].phase \in {"save", "done"}
    BY <1>0, <1>3 DEF InsertFails, Creation
  <2>2. UNCHANGED <<task, queue, deletion, orphaned>>
    BY <1>3 DEF InsertFails, history
  <2> QED BY <1>0, <2>1, <2>2 DEF OrphanInv, Exists
<1>4. ASSUME SaveNewTask(t)
      PROVE  OrphanInv(t)'
  <2>1. creation[t].phase = "save" /\ creation'[t].phase = "done"
    BY <1>0, <1>4 DEF SaveNewTask, Creation
  <2>2. UNCHANGED <<queue, deletion, orphaned>>
    BY <1>4 DEF SaveNewTask, history
  <2>3. Exists(t)' <=> Exists(t)
    BY <1>0, <1>4 DEF SaveNewTask, Exists, TaskDoc
  <2> QED BY <1>0, <2>1, <2>2, <2>3 DEF OrphanInv
<1>5. ASSUME DeleteTask(t)
      PROVE  OrphanInv(t)'
  <2>1. /\ UNCHANGED <<task, creation, queue>>
        /\ deletion'[t] = IF task[t].queue THEN "queue" ELSE "doc"
        /\ Exists(t)
    BY <1>0, <1>5 DEF DeleteTask
  <2>2. orphaned' = IF task[t].queue /\ creation[t].phase = "done" THEN orphaned
                    ELSE orphaned \cup {t}
    BY <1>5 DEF DeleteTask
  <2> QED BY <1>0, <2>1, <2>2 DEF OrphanInv, Exists
<1>6. ASSUME DropQueue(t)
      PROVE  OrphanInv(t)'
  <2>1. UNCHANGED <<task, creation, orphaned>> /\ deletion[t] = "queue"
    BY <1>6 DEF DropQueue, history
  <2>2. \/ deletion'[t] = "none" /\ queue' = queue
        \/ deletion'[t] = "meta" /\ Stored(queue'[t]) = {}
    BY <1>0, <1>6, EmptyQueue DEF DropQueue, AfterDropFailed
  <2> QED BY <1>0, <2>1, <2>2 DEF OrphanInv, Exists
<1>7. ASSUME DropWorkerMeta(t) \/ DeleteDoc(t)
      PROVE  OrphanInv(t)'
  <2>1. UNCHANGED <<creation, queue, orphaned>>
    BY <1>7 DEF DropWorkerMeta, DeleteDoc, history
  <2>2. \/ deletion[t] = "meta" /\ deletion'[t] = "doc" /\ task' = task
        \/ /\ deletion[t] = "doc" /\ deletion'[t] = "none"
           /\ task'[t] = NoTask \/ task' = task
    BY <1>0, <1>7 DEF DropWorkerMeta, DeleteDoc
  <2> QED BY <1>0, <2>1, <2>2, NoTaskType DEF OrphanInv, Exists
<1>8. ASSUME DeleteAll
      PROVE  OrphanInv(t)'
  <2>1. /\ UNCHANGED <<creation, queue, deletion>> /\ task'[t] = NoTask
        /\ orphaned' = orphaned \cup {u \in Task : Exists(u)}
    BY <1>8 DEF DeleteAll
  <2> QED BY <1>0, <2>1, NoTaskType DEF OrphanInv, Exists
<1>9. ASSUME ApiExit
      PROVE  OrphanInv(t)'
  <2>1. /\ UNCHANGED <<task, queue, orphaned>> /\ deletion'[t] = "none"
        /\ creation'[t].phase = IF creation[t].phase = "none" THEN "none" ELSE "done"
    BY <1>0, <1>9 DEF ApiExit, history, Creation
  <2> QED BY <1>0, <2>1 DEF OrphanInv, Exists
<1>10. ASSUME Steady(t)
       PROVE  OrphanInv(t)'
  BY <1>0, <1>10 DEF Steady, OrphanInv
<1>11. ASSUME NEW w \in Launches, NEW i \in Item, EnqueueItem(w, t, i)
       PROVE  OrphanInv(t)'
  <2>1. UNCHANGED <<task, creation, deletion>> /\ t \in altered'
    BY <1>0, <1>11 DEF EnqueueItem, apiVars, reqVars
  <2>2. /\ orphaned \subseteq orphaned'
        /\ ~Exists(t) \/ deletion[t] \in {"meta", "doc"} => t \in orphaned'
    BY <1>11 DEF EnqueueItem
  <2> QED BY <2>1, <2>2 DEF OrphanInv, Exists
<1> QED BY <1>1, <1>2, <1>3, <1>4, <1>5, <1>6, <1>7, <1>8, <1>9, <1>10, <1>11, LifeSteps

Orphans == TypeOK /\ \A t \in Task : OrphanInv(t)

LEMMA OrphansHold == Spec => []Orphans
<1>1. Init => Orphans
  BY TypeInit, OrphanInit DEF Orphans
<1>2. Orphans /\ [Next]_vars => Orphans'
  BY TypeNext, OrphanNext DEF Orphans
<1> QED BY <1>1, <1>2, PTL DEF Spec

\* Whatever requests fall together and whichever of their database calls fail, a
\* task that is gone leaves items behind only when it was deleted while it was
\* created, when its queue had no name or with all the others, or when a crawl
\* enqueued items after the queue was dropped.
THEOREM NoOrphans == Spec => []NoOrphanItems
<1>1. Orphans => NoOrphanItems
  BY DEF Orphans, OrphanInv, NoOrphanItems
<1> QED BY <1>1, OrphansHold, PTL

-----------------------------------------------------------------------------
(* Which tasks the scheduler closes. *)

\* The number of items that a request announced, or counted so far, is not below
\* the number of those it has stored.
NumItemsInv(t) == t \notin altered =>
    /\ creation[t].left \cap Stored(queue[t]) = {}
    /\ creation[t].phase \in {"insert", "save"} /\ creation[t].kind = "file"
           => Cardinality(Stored(queue[t])) <= creation[t].lines
    /\ creation[t].phase \in {"insert", "save"} /\ creation[t].kind = "array" /\ Exists(t)
           => Cardinality(Stored(queue[t]) \cup creation[t].left) <= task[t].num_items
    /\ creation[t].phase \in {"insert", "save"} /\ creation[t].kind = "none"
           => creation[t].left = {} /\ creation[t].phase = "save"
    /\ task[t].queue => Cardinality(Stored(queue[t])) <= task[t].num_items


LEMMA NumItemsInit == ASSUME Init, NEW t \in Task PROVE NumItemsInv(t)
BY EmptyQueue, NoTaskType DEF Init, NumItemsInv, NoCreation

LEMMA NumItemsNext ==
    ASSUME TypeOK, [Next]_vars, NEW t \in Task, OrphanInv(t), NumItemsInv(t)
    PROVE  NumItemsInv(t)'
<1> SUFFICES ASSUME t \notin altered' PROVE NumItemsInv(t)'
  BY DEF NumItemsInv
<1>a. t \notin altered
  BY AlteredGrows
<1>0. /\ task \in [Task -> TaskDoc] /\ queue \in [Task -> [Item -> QueueDoc]]
      /\ creation \in [Task -> Creation] /\ creation[t] \in Creation
      /\ task[t] \in TaskDoc /\ queue[t] \in [Item -> QueueDoc]
      /\ IsFiniteSet(Stored(queue[t])) /\ Cardinality(Stored(queue[t])) \in Nat
      /\ Stored(queue[t]) \subseteq Item
  BY StoredType DEF TypeOK
<1>1. ASSUME NEW p \in Payload, NEW st \in {"started", "paused"}, CreateTask(t, p, st)
      PROVE  NumItemsInv(t)'
  <2>1. PICK S \in Readable(p) :
            creation' = [creation EXCEPT ![t] =
                [phase |-> IF S = {} THEN "save" ELSE "insert", kind |-> p.kind,
                 left |-> S, lines |-> p.blanks, blanks |-> p.blanks > 0]]
    BY <1>1 DEF CreateTask
  <2>4. /\ creation'[t].phase = IF S = {} THEN "save" ELSE "insert"
        /\ creation'[t].kind = p.kind /\ creation'[t].left = S
        /\ creation'[t].lines = p.blanks
        /\ ~task'[t].queue /\ task'[t].num_items = Announced(p)
        /\ p.kind # "file" => S = p.items
    BY <1>0, <1>1, <2>1, PayloadType DEF CreateTask, FirstDoc, NewDoc
  <2>2. queue' = queue /\ Stored(queue[t]) = {}
    BY <1>a, <1>1 DEF CreateTask, OrphanInv
  <2>3. /\ p.blanks \in Nat
        /\ p.kind = "array" => Cardinality(p.items) <= Announced(p)
        /\ p.kind = "none" => p.items = {}
    <3>1. Cardinality(p.items) \in Nat /\ Announced(p) \in Nat
      BY PayloadType, FS_CardinalityType
    <3> QED BY <3>1, PayloadType
  <2> QED BY <2>2, <2>3, <2>4, FS_EmptySet DEF NumItemsInv
<1>2. ASSUME NEW i \in Item, InsertItem(t, i)
      PROVE  NumItemsInv(t)'
  <2> DEFINE S == Stored(queue[t])
             c == creation[t]
  <2>1. /\ creation'[t].phase \in {"insert", "save"} /\ creation'[t].kind = c.kind
        /\ creation'[t].left = c.left \ {i} /\ creation'[t].lines = c.lines + 1
    BY <1>0, <1>2 DEF InsertItem, Creation
  <2>2. c.phase = "insert" /\ i \in c.left /\ task' = task
    BY <1>2 DEF InsertItem
  <2>3. queue' = [queue EXCEPT ![t] = InsertItems(queue[t], {i})]
    BY <1>2 DEF InsertItem
  <2>4. Stored(queue'[t]) = S \cup {i}
    BY <1>0, <2>3, InsertedItems
  <2>5. Cardinality(S \cup {i}) <= Cardinality(S) + 1
    <3>1. Cardinality(S \cup {i}) = Cardinality(S)
          \/ Cardinality(S \cup {i}) = Cardinality(S) + 1
      BY <1>0, FS_AddElement
    <3>2. Cardinality(S) \in Nat
      BY <1>0
    <3> QED BY <3>1, <3>2
  <2>6. Cardinality(S \cup {i}) \in Nat
    BY <1>0, FS_AddElement, FS_CardinalityType
  <2>7. creation'[t].left \cap Stored(queue'[t]) = {}
    BY <1>a, <2>1, <2>4 DEF NumItemsInv
  <2>8. c.kind = "file" => Cardinality(Stored(queue'[t])) <= creation'[t].lines
    <3>1. c.lines \in Nat
      BY <1>0 DEF Creation
    <3>2. c.kind = "file" => Cardinality(S) <= c.lines
      BY <1>a, <2>2 DEF NumItemsInv
    <3> HIDE DEF S, c
    <3> QED BY <1>0, <2>1, <2>4, <2>5, <2>6, <3>1, <3>2 DEF S
  <2>9. Stored(queue'[t]) \cup creation'[t].left = S \cup c.left
    BY <2>1, <2>2, <2>4
  <2>10. ~task'[t].queue
    BY <1>0, <1>a, <2>2 DEF OrphanInv, TaskDoc
  <2> QED BY <1>a, <2>1, <2>2, <2>7, <2>8, <2>9, <2>10 DEF NumItemsInv, Exists
<1>3. ASSUME InsertFails(t)
      PROVE  NumItemsInv(t)'
  <2>1. /\ creation[t].phase = "insert" /\ UNCHANGED <<task, queue>>
        /\ creation'[t].phase = IF creation[t].kind = "file" THEN "save" ELSE "done"
        /\ creation'[t].kind = creation[t].kind /\ creation'[t].left = creation[t].left
        /\ creation'[t].lines = creation[t].lines
    BY <1>0, <1>3 DEF InsertFails, Creation
  <2> QED BY <1>a, <2>1 DEF NumItemsInv, Exists
<1>4. ASSUME SaveNewTask(t)
      PROVE  NumItemsInv(t)'
  <2> DEFINE c == creation[t]
  <2>1. /\ c.phase = "save" /\ queue' = queue
        /\ creation'[t].phase = "done" /\ creation'[t].left = c.left
    BY <1>0, <1>4 DEF SaveNewTask, Creation
  <2>2. \/ task' = task
        \/ /\ Exists(t) /\ task'[t].queue = (c.kind # "none")
           /\ task'[t].num_items = NumItems(t)
    BY <1>0, <1>4 DEF SaveNewTask, TaskDoc
  <2>3. c.kind = "array" /\ Exists(t) => Cardinality(Stored(queue[t])) <= task[t].num_items
    <3> DEFINE U == Stored(queue[t]) \cup c.left
    <3>1. IsFiniteSet(U)
      <4>1. c.left \in SUBSET Item
        BY <1>0 DEF Creation
      <4> QED BY <1>0, <4>1, FS_Subset, FS_Union, ItemQueueAssumption DEF ItemQueueAssumption
    <3>2. Stored(queue[t]) \in SUBSET U
      OBVIOUS
    <3>3. /\ Cardinality(U) \in Nat
          /\ Cardinality(Stored(queue[t])) <= Cardinality(U)
      BY <3>1, <3>2, FS_Subset, FS_CardinalityType
    <3>4. c.kind = "array" /\ Exists(t) => Cardinality(U) <= task[t].num_items
      BY <1>a, <2>1 DEF NumItemsInv
    <3>5. task[t].num_items \in Nat
      BY <1>0 DEF TaskDoc
    <3> HIDE DEF U, c
    <3> QED BY <1>0, <3>3, <3>4, <3>5
  <2>4. c.kind \in {"none", "array", "file"}
    BY <1>0 DEF Creation
  <2> QED BY <1>0, <1>a, <2>1, <2>2, <2>3, <2>4 DEF NumItemsInv, NumItems, TaskDoc
<1>5. ASSUME DropQueue(t)
      PROVE  NumItemsInv(t)'
  <2>1. UNCHANGED <<task, creation>> /\ deletion[t] = "queue"
    BY <1>5 DEF DropQueue, history
  <2>2. queue' = queue \/ Stored(queue'[t]) = {}
    BY <1>0, <1>5, EmptyQueue DEF DropQueue
  <2>3. task[t].num_items \in Nat /\ creation[t].lines \in Nat
    BY <1>0 DEF TaskDoc, Creation
  <2>4. Stored(queue'[t]) \subseteq Stored(queue[t])
    BY <2>2
  <2>5. Cardinality(Stored(queue'[t]) \cup creation[t].left)
            <= Cardinality(Stored(queue[t]) \cup creation[t].left)
    <3>1. IsFiniteSet(Stored(queue[t]) \cup creation[t].left)
      <4>1. creation[t].left \in SUBSET Item
        BY <1>0 DEF Creation
      <4> QED BY <1>0, <4>1, FS_Subset, FS_Union, ItemQueueAssumption DEF ItemQueueAssumption
    <3> QED BY <2>4, <3>1, FS_Subset
  <2>6. creation[t].phase \in {"insert", "save"} /\ creation[t].kind = "array" /\ Exists(t)
           => Cardinality(Stored(queue'[t]) \cup creation[t].left) <= task[t].num_items
    <3>1. /\ Cardinality(Stored(queue'[t]) \cup creation[t].left) \in Nat
          /\ Cardinality(Stored(queue[t]) \cup creation[t].left) \in Nat
      <4>1. creation[t].left \in SUBSET Item /\ Stored(queue'[t]) \in SUBSET Item
        BY <1>0, <2>4 DEF Creation
      <4> QED BY <1>0, <4>1, FS_Subset, FS_Union, FS_CardinalityType, ItemQueueAssumption
              DEF ItemQueueAssumption
    <3>2. creation[t].phase \in {"insert", "save"} /\ creation[t].kind = "array" /\ Exists(t)
             => Cardinality(Stored(queue[t]) \cup creation[t].left) <= task[t].num_items
      BY <1>a DEF NumItemsInv
    <3> QED BY <2>3, <2>5, <3>1, <3>2
  <2> QED BY <1>a, <2>1, <2>2, <2>3, <2>6, FS_EmptySet DEF NumItemsInv, Exists
<1>6. ASSUME DeleteTask(t) \/ DropWorkerMeta(t)
      PROVE  NumItemsInv(t)'
  <2>1. UNCHANGED <<task, creation, queue>>
    BY <1>6 DEF DeleteTask, DropWorkerMeta
  <2> QED BY <1>a, <2>1 DEF NumItemsInv, Exists
<1>7. ASSUME DeleteDoc(t) \/ DeleteAll
      PROVE  NumItemsInv(t)'
  <2>1. UNCHANGED <<creation, queue>> /\ (task'[t] = NoTask \/ task' = task)
    BY <1>0, <1>7 DEF DeleteDoc, DeleteAll
  <2> QED BY <1>a, <2>1, NoTaskType DEF NumItemsInv, Exists
<1>8. ASSUME ApiExit
      PROVE  NumItemsInv(t)'
  <2>1. /\ UNCHANGED <<task, queue>>
        /\ creation'[t].phase \in {"none", "done"}
        /\ creation'[t].left = creation[t].left
    BY <1>0, <1>8 DEF ApiExit, Creation
  <2> QED BY <1>a, <2>1 DEF NumItemsInv, Exists
<1>9. ASSUME Steady(t)
      PROVE  NumItemsInv(t)'
  BY <1>9, <1>a DEF Steady, NumItemsInv
<1>10. ASSUME NEW w \in Launches, NEW i \in Item, EnqueueItem(w, t, i)
       PROVE  FALSE
  BY <1>10 DEF EnqueueItem
<1> QED BY <1>1, <1>2, <1>3, <1>4, <1>5, <1>6, <1>7, <1>8, <1>9, <1>10, LifeSteps

\* A creation that is over stays over, and the task gets no more items unless a
\* crawl enqueues them.
LEMMA DoneIsFinal ==
    ASSUME TypeOK, [Next]_vars, NEW t \in Task, creation[t].phase = "done"
    PROVE  /\ creation'[t].phase = "done"
           /\ t \notin altered'
                  => /\ Stored(queue'[t]) = Stored(queue[t]) \/ Stored(queue'[t]) = {}
                     /\ Cardinality(Stored(queue'[t])) <= Cardinality(Stored(queue[t]))
<1>0. /\ queue \in [Task -> [Item -> QueueDoc]] /\ creation \in [Task -> Creation]
      /\ Cardinality(Stored(queue[t])) \in Nat
  BY StoredType DEF TypeOK
<1>1. ASSUME DropQueue(t)
      PROVE  creation' = creation /\ (queue' = queue \/ Stored(queue'[t]) = {})
  BY <1>0, <1>1, EmptyQueue DEF DropQueue
<1>2. ASSUME DeleteTask(t) \/ DropWorkerMeta(t) \/ DeleteDoc(t) \/ DeleteAll
      PROVE  UNCHANGED <<creation, queue>>
  BY <1>2 DEF DeleteTask, DropWorkerMeta, DeleteDoc, DeleteAll
<1>3. ASSUME ApiExit
      PROVE  creation'[t].phase = "done" /\ queue' = queue
  BY <1>0, <1>3 DEF ApiExit, Creation
<1>4. ASSUME \/ \E p \in Payload, st \in {"started", "paused"} : CreateTask(t, p, st)
             \/ \E i \in Item : InsertItem(t, i)
             \/ InsertFails(t)
             \/ SaveNewTask(t)
      PROVE  FALSE
  BY <1>4 DEF CreateTask, InsertItem, InsertFails, SaveNewTask
<1>8. ASSUME NEW w \in Launches, NEW i \in Item, EnqueueItem(w, t, i)
      PROVE  creation' = creation /\ t \in altered'
  BY <1>8 DEF EnqueueItem, apiVars, reqVars
<1>5. /\ creation'[t].phase = "done"
      /\ \/ t \in altered'
         \/ Stored(queue'[t]) = Stored(queue[t]) \/ Stored(queue'[t]) = {}
  BY <1>1, <1>2, <1>3, <1>4, <1>8, LifeSteps DEF Steady
<1>6. CASE Stored(queue'[t]) = Stored(queue[t])
  BY <1>0, <1>5, <1>6
<1>7. CASE Stored(queue'[t]) = {}
  BY <1>0, <1>5, <1>7, FS_EmptySet
<1> QED BY <1>5, <1>6, <1>7

\* The copies the scheduler works on.
CopiesInv ==
    /\ \A t \in Task \ altered : mem[t].queue
           => /\ creation[t].phase = "done"
              /\ Cardinality(Stored(queue[t])) <= mem[t].num_items
    /\ pc \notin {"idle", "next"} => mem[cur].queue


LEMMA CopiesInit == ASSUME Init PROVE CopiesInv
BY NoTaskType DEF Init, CopiesInv

LEMMA CopiesNext ==
    ASSUME TypeOK, [Next]_vars, CopiesInv,
           \A t \in Task : OrphanInv(t) /\ NumItemsInv(t)
    PROVE  CopiesInv'
<1>0. /\ mem \in [Task -> TaskDoc] /\ queue \in [Task -> [Item -> QueueDoc]]
      /\ cur \in Task /\ \A t \in Task : Cardinality(Stored(queue[t])) \in Nat
      /\ task \in [Task -> TaskDoc]
  BY StoredType DEF TypeOK
\* Copies that were made earlier, and the tasks that are copied now.
<1>c. altered \subseteq altered'
  BY AlteredGrows
<1>a. ASSUME NEW t \in Task \ altered', NEW d \in TaskDoc, d.queue, creation[t].phase = "done",
             Cardinality(Stored(queue[t])) <= d.num_items
      PROVE  /\ creation'[t].phase = "done"
             /\ Cardinality(Stored(queue'[t])) <= d.num_items
  <2>1. /\ creation'[t].phase = "done"
        /\ Cardinality(Stored(queue'[t])) <= Cardinality(Stored(queue[t]))
    BY <1>a, DoneIsFinal
  <2>2. Cardinality(Stored(queue'[t])) \in Nat
    <3>1. TypeOK'
      BY TypeNext
    <3>2. queue'[t] \in [Item -> QueueDoc]
      BY <3>1 DEF TypeOK
    <3> QED BY <3>2, StoredType
  <2>3. d.num_items \in Nat
    BY DEF TaskDoc
  <2> QED BY <1>0, <1>a, <2>1, <2>2, <2>3
<1>b. ASSUME \A t \in Task : \/ mem'[t] = mem[t]
                             \/ mem'[t] = task[t]
                             \/ ~mem'[t].queue
                             \/ /\ mem'[t].queue = mem[t].queue
                                /\ mem'[t].num_items = mem[t].num_items
      PROVE  \A t \in Task \ altered' : mem'[t].queue
                 => /\ creation'[t].phase = "done"
                    /\ Cardinality(Stored(queue'[t])) <= mem'[t].num_items
  <2> SUFFICES ASSUME NEW t \in Task \ altered', mem'[t].queue
               PROVE  /\ creation'[t].phase = "done"
                      /\ Cardinality(Stored(queue'[t])) <= mem'[t].num_items
    OBVIOUS
  <2>1. mem[t] \in TaskDoc /\ task[t] \in TaskDoc
    BY <1>0
  <2>2. CASE mem'[t] = task[t]
    BY <1>a, <1>c, <2>1, <2>2 DEF OrphanInv, NumItemsInv
  <2>3. CASE mem'[t].queue = mem[t].queue /\ mem'[t].num_items = mem[t].num_items
    BY <1>a, <1>c, <2>1, <2>3 DEF CopiesInv
  <2> QED BY <1>b, <2>2, <2>3
<1>1. ASSUME mem' = mem, pc' \notin {"idle", "next"} => pc \notin {"idle", "next"}, cur' = cur
      PROVE  CopiesInv'
  BY <1>b, <1>1 DEF CopiesInv
<1>2. ASSUME GetTasks \/ EndCycle \/ DaemonFails PROVE CopiesInv'
  <2>1. (mem' = task \/ mem' = [t \in Task |-> NoTask]) /\ pc' \in {"idle", "next"}
    BY <1>2 DEF GetTasks, EndCycle, DaemonFails
  <2> QED BY <1>b, <2>1, NoTaskType DEF CopiesInv
<1>3. ASSUME NEW t \in Task, OpenQueue(t) PROVE CopiesInv'
  <2>1. \/ mem' = mem /\ cur' = t /\ mem[t].queue
        \/ mem' = [u \in Task |-> NoTask] /\ pc' = "idle"
    BY <1>3 DEF OpenQueue
  <2> QED BY <1>b, <2>1, NoTaskType DEF CopiesInv
<1>4. ASSUME ProcessWorkerMeta PROVE CopiesInv'
  <2>1. PICK doc \in TaskDoc : /\ mem' = [mem EXCEPT ![cur] = doc]
                               /\ doc.queue = mem[cur].queue
                               /\ doc.num_items = mem[cur].num_items
    BY <1>4, CountedOutDoc
  <2>2. cur' = cur /\ mem[cur].queue
    BY <1>4 DEF ProcessWorkerMeta, At, CopiesInv
  <2>3. \A t \in Task : /\ mem'[t].queue = mem[t].queue
                        /\ mem'[t].num_items = mem[t].num_items
    BY <1>0, <2>1
  <2> QED BY <1>b, <1>0, <2>2, <2>3 DEF CopiesInv
<1>5. ASSUME NEW t \in Task,
             \/ \E p \in Payload, st \in {"started", "paused"} : CreateTask(t, p, st)
             \/ Creating(t)
             \/ InsertFails(t)
             \/ DeleteTask(t) \/ Deleting(t) \/ DeleteAll
      PROVE  UNCHANGED <<mem, pc, cur>>
  BY <1>5 DEF CreateTask, Creating, InsertItem, SaveNewTask, InsertFails, DeleteTask,
              Deleting, DropQueue, DropWorkerMeta, DeleteDoc, DeleteAll, schedVars
<1>6. ASSUME Setting PROVE UNCHANGED <<mem, pc, cur>>
  BY <1>6, SettingStep DEF schedVars
<1>7. ASSUME Healing PROVE UNCHANGED <<mem, pc, cur>>
  BY <1>7 DEF Healing, HealQueue, Enqueue, Resetting, ResetItems, UpdateItems, ApiExit,
              schedVars
<1>8. ASSUME NEW w \in Launches, Worker(w) \/ Enqueuing(w)
      PROVE  UNCHANGED <<mem, pc, cur>>
  BY <1>8 DEF Worker, ClaimItem, NothingToClaim, WriteItem, Enqueuing, GetQueueName,
              EnqueueItem, schedVars
<1>9. ASSUME \/ CountInitial \/ CountFailed \/ CountCompleted \/ CloseTask
             \/ \E w \in Launches : Launch(w)
             \/ LaunchNone
      PROVE  mem' = mem /\ cur' = cur /\ pc \notin {"idle", "next"}
  BY <1>9 DEF CountInitial, CountFailed, CountCompleted, Count, CloseTask, Launch,
              LaunchNone, At
<1>10. CASE Next
  BY <1>1, <1>2, <1>3, <1>4, <1>5, <1>6, <1>7, <1>8, <1>9, <1>10, Steps
<1>11. CASE UNCHANGED vars
  BY <1>1, <1>11 DEF vars, schedVars
<1> QED BY <1>10, <1>11

\* A worker works on one item, for a task that is complete; unless a request reset
\* the items of the task, or the task was altered, that item is marked as running, or gone, and
\* nobody else has it.
WorkersInv ==
    \A w \in Launches :
        /\ worker[w].phase \in {"claiming", "crawling"}
               => worker[w].task \in altered \/ creation[worker[w].task].phase = "done"
        /\ worker[w].item # {} => worker[w].phase = "crawling"
        /\ worker[w].task \notin reopened \cup altered
               => \A i \in worker[w].item :
                      /\ queue[worker[w].task][i].status \in {"running", "absent"}
                      /\ \A v \in Launches \ {w} :
                             worker[v].task = worker[w].task => i \notin worker[v].item


LEMMA WorkersInit == ASSUME Init PROVE WorkersInv
BY DEF Init, WorkersInv

\* The statuses of the items somebody may hold.
KeepsHeld(t) ==
    \A i \in Item : queue[t][i].status \in {"running", "absent"}
                        => queue'[t][i].status \in {"running", "absent"}

\* Steps that leave the workers alone.
LEMMA WorkersKept ==
    ASSUME TypeOK, [Next]_vars, WorkersInv,
           \A w \in Launches : /\ worker'[w].task = worker[w].task
                               /\ worker'[w].item = worker[w].item
                               /\ worker'[w].phase = worker[w].phase,
           \A t \in Task \ (reopened' \cup altered') :
               (t \notin reopened /\ KeepsHeld(t)) \/ Crawling(t) = {}
    PROVE  WorkersInv'
<1> SUFFICES ASSUME NEW w \in Launches
             PROVE  /\ worker[w].phase \in {"claiming", "crawling"}
                           => \/ worker[w].task \in altered'
                              \/ creation'[worker[w].task].phase = "done"
                    /\ worker[w].item # {} => worker[w].phase = "crawling"
                    /\ worker[w].task \notin reopened' \cup altered'
                           => \A i \in worker[w].item :
                                  /\ queue'[worker[w].task][i].status
                                         \in {"running", "absent"}
                                  /\ \A v \in Launches \ {w} :
                                         worker[v].task = worker[w].task
                                             => i \notin worker[v].item
  BY DEF WorkersInv
<1> DEFINE t == worker[w].task
<1>1. t \in Task /\ worker[w].item \subseteq Item
  BY DEF TypeOK, WorkerDoc
<1>0. altered \subseteq altered'
  BY AlteredGrows
<1>2. worker[w].phase \in {"claiming", "crawling"}
          => t \in altered' \/ creation'[t].phase = "done"
  BY <1>0, <1>1, DoneIsFinal DEF WorkersInv
<1>3. worker[w].item # {} => worker[w].phase = "crawling"
  BY DEF WorkersInv
<1>4. ASSUME t \notin reopened' \cup altered', NEW i \in worker[w].item
      PROVE  /\ queue'[t][i].status \in {"running", "absent"}
             /\ \A v \in Launches \ {w} : worker[v].task = t => i \notin worker[v].item
  <2>1. w \in Crawling(t)
    BY <1>4 DEF Crawling
  <2>2. t \notin reopened /\ KeepsHeld(t)
    BY <1>1, <1>4, <2>1
  <2>3. /\ queue[t][i].status \in {"running", "absent"}
        /\ \A v \in Launches \ {w} : worker[v].task = t => i \notin worker[v].item
    BY <1>0, <1>4, <2>2 DEF WorkersInv
  <2> QED BY <1>1, <1>4, <2>2, <2>3 DEF KeepsHeld
<1> QED BY <1>2, <1>3, <1>4

LEMMA SameQueue ==
    ASSUME TypeOK, [Next]_vars, WorkersInv,
           \A w \in Launches : /\ worker'[w].task = worker[w].task
                               /\ worker'[w].item = worker[w].item
                               /\ worker'[w].phase = worker[w].phase,
           queue' = queue, reopened \subseteq reopened'
    PROVE  WorkersInv'
<1>1. \A t \in Task \ (reopened' \cup altered') : t \notin reopened /\ KeepsHeld(t)
  BY DEF KeepsHeld
<1> QED BY <1>1, WorkersKept

\* Nobody works for a task that is still being created.
LEMMA NobodyCrawls ==
    ASSUME WorkersInv, NEW t \in Task \ altered, creation[t].phase # "done"
    PROVE  Crawling(t) = {}
BY DEF WorkersInv, Crawling

LEMMA WorkersApi ==
    ASSUME TypeOK, [Next]_vars, WorkersInv, NEW t \in Task,
           \/ \E p \in Payload, st \in {"started", "paused"} : CreateTask(t, p, st)
           \/ Creating(t)
           \/ InsertFails(t)
           \/ DeleteTask(t) \/ Deleting(t) \/ DeleteAll
           \/ Healing
    PROVE  WorkersInv'
<1>0. /\ queue \in [Task -> [Item -> QueueDoc]] /\ worker \in [Launches -> WorkerDoc]
      /\ reopened \in SUBSET Task
  BY DEF TypeOK
<1>1. ASSUME NEW i \in Item, InsertItem(t, i) PROVE WorkersInv'
  <2>1. /\ worker' = worker /\ reopened' = reopened /\ creation[t].phase = "insert"
        /\ \A u \in Task \ {t} : queue'[u] = queue[u]
        /\ altered' = altered
    BY <1>0, <1>1 DEF InsertItem, history
  <2>2. \A u \in Task \ {t} : KeepsHeld(u)
    BY <2>1 DEF KeepsHeld
  <2> QED BY <2>1, <2>2, NobodyCrawls, WorkersKept
<1>2. ASSUME DropQueue(t) PROVE WorkersInv'
  <2>1. worker' = worker /\ reopened' = reopened
    BY <1>2 DEF DropQueue, history
  <2>2. queue' = queue \/ queue' = [queue EXCEPT ![t] = NoQueue]
    BY <1>2 DEF DropQueue
  <2>3. \A u \in Task : KeepsHeld(u)
    BY <1>0, <2>2, FreshDocs DEF KeepsHeld, NoQueue
  <2> QED BY <2>1, <2>3, WorkersKept
<1>3. ASSUME DropWorkerMeta(t) PROVE WorkersInv'
  <2>1. \A w \in Launches : /\ worker'[w].task = worker[w].task
                            /\ worker'[w].item = worker[w].item
                            /\ worker'[w].phase = worker[w].phase
    BY <1>0, <1>3 DEF DropWorkerMeta, WorkerDoc
  <2>2. queue' = queue /\ reopened' = reopened
    BY <1>3 DEF DropWorkerMeta, history
  <2> QED BY <2>1, <2>2, SameQueue
<1>4. ASSUME NEW u \in Task, ResetItems(u) \/ UpdateItems(u) PROVE WorkersInv'
  <2>1. worker' = worker /\ \A v \in Task \ {u} : queue'[v] = queue[v]
    BY <1>0, <1>4 DEF ResetItems, UpdateItems
  <2>2. reopened' = reopened \cup {u} \/ (queue' = queue /\ reopened' = reopened)
    BY <1>4 DEF ResetItems, UpdateItems
  <2>3. \A v \in Task \ (reopened' \cup altered') : v \notin reopened /\ KeepsHeld(v)
    BY <2>1, <2>2 DEF KeepsHeld
  <2> QED BY <2>1, <2>3, WorkersKept
<1>5. ASSUME \/ \E p \in Payload, st \in {"started", "paused"} : CreateTask(t, p, st)
             \/ SaveNewTask(t) \/ InsertFails(t)
             \/ DeleteTask(t) \/ DeleteDoc(t) \/ DeleteAll
      PROVE  UNCHANGED <<worker, queue, reopened>>
  BY <1>5 DEF CreateTask, SaveNewTask, InsertFails, DeleteTask, DeleteDoc, DeleteAll,
              history
<1>6. ASSUME \/ \E u \in Task, what \in {"running", "failed"} : HealQueue(u, what)
             \/ \E u \in Task : \E S \in SUBSET WithStatus(queue[u], "completed") :
                    Enqueue(u, S)
             \/ ApiExit
      PROVE  UNCHANGED <<worker, queue, reopened>>
  BY <1>6 DEF HealQueue, Enqueue, ApiExit, history
<1> QED BY <1>1, <1>2, <1>3, <1>4, <1>5, <1>6, SameQueue
           DEF Creating, Deleting, Healing, Resetting

LEMMA WorkersScheduler ==
    ASSUME TypeOK, [Next]_vars, WorkersInv, CopiesInv, Scheduler
    PROVE  WorkersInv'
<1>0. /\ queue \in [Task -> [Item -> QueueDoc]] /\ worker \in [Launches -> WorkerDoc]
      /\ reopened \in SUBSET Task /\ cur \in Task
      /\ queue[cur] \in [Item -> QueueDoc]
  BY DEF TypeOK
<1>1. ASSUME NEW t \in Task, OpenQueue(t) PROVE WorkersInv'
  <2>1. UNCHANGED <<worker, queue>>
    BY <1>1 DEF OpenQueue
  <2>2. reopened' = reopened \/ (reopened' = reopened \ {t} /\ Crawling(t) = {})
    BY <1>1 DEF OpenQueue
  <2>3. \A u \in Task \ (reopened' \cup altered') :
            (u \notin reopened /\ KeepsHeld(u)) \/ Crawling(u) = {}
    BY <2>1, <2>2 DEF KeepsHeld
  <2> QED BY <2>1, <2>3, WorkersKept
<1>2. ASSUME ProcessWorkerMeta PROVE WorkersInv'
  <2>1. \A w \in Launches : /\ worker'[w].task = worker[w].task
                            /\ worker'[w].item = worker[w].item
                            /\ worker'[w].phase = worker[w].phase
    BY <1>0, <1>2 DEF ProcessWorkerMeta, WorkerDoc
  <2>2. reopened' = reopened
    BY <1>2 DEF ProcessWorkerMeta, history
  <2> DEFINE q == EnqueueFailedItems(queue[cur], mem[cur].retry)
  <2>3. queue' = queue \/ queue' = [queue EXCEPT ![cur] = q]
    BY <1>2 DEF ProcessWorkerMeta
  <2>4. \A i \in Item : queue[cur][i].status \in {"running", "absent"}
                            => q[i] = queue[cur][i]
    BY <1>0 DEF EnqueueFailedItems, SetStatus, Retriable, WithStatus
  <2>5. \A u \in Task : KeepsHeld(u)
    <3> HIDE DEF q
    <3> QED BY <1>0, <2>3, <2>4 DEF KeepsHeld
  <2> QED BY <2>1, <2>2, <2>5, WorkersKept
<1>3. ASSUME NEW w \in Launches, Launch(w) PROVE WorkersInv'
  <2>1. UNCHANGED <<queue, reopened, altered, creation>> /\ worker[w].phase = "none"
    BY <1>3 DEF Launch, Free, history, reqVars
  <2>2. worker' = [worker EXCEPT ![w] = [worker[w] EXCEPT !.task = cur,
                                             !.phase = "claiming", !.meta = TRUE]]
    BY <1>3 DEF Launch
  <2>3. worker[w] \in WorkerDoc /\ worker[w].item = {}
    BY <1>0, <2>1 DEF WorkersInv
  <2>4. worker'[w].item = {} /\ worker'[w].task = cur /\ worker'[w].phase = "claiming"
    BY <1>0, <2>2, <2>3 DEF WorkerDoc
  <2>5. \A v \in Launches \ {w} : worker'[v] = worker[v]
    BY <1>0, <2>2
  <2>6. cur \in altered \/ creation[cur].phase = "done"
    BY <1>0, <1>3 DEF Launch, At, CopiesInv
  <2>7. ASSUME NEW v \in Launches
        PROVE  /\ worker'[v].phase \in {"claiming", "crawling"}
                      => \/ worker'[v].task \in altered
                         \/ creation[worker'[v].task].phase = "done"
               /\ worker'[v].item # {} => worker'[v].phase = "crawling"
    BY <2>4, <2>5, <2>6 DEF WorkersInv
  <2>8. ASSUME NEW v \in Launches, worker'[v].task \notin reopened \cup altered,
             NEW i \in worker'[v].item
        PROVE  /\ queue[worker'[v].task][i].status \in {"running", "absent"}
               /\ \A x \in Launches \ {v} : worker'[x].task = worker'[v].task
                                                => i \notin worker'[x].item
    <3>1. v # w
      BY <2>4, <2>8
    <3>2. /\ queue[worker[v].task][i].status \in {"running", "absent"}
          /\ \A x \in Launches \ {v} : worker[x].task = worker[v].task
                                           => i \notin worker[x].item
      BY <2>5, <2>8, <3>1 DEF WorkersInv
    <3> QED BY <2>4, <2>5, <3>1, <3>2
  <2> QED BY <2>1, <2>7, <2>8 DEF WorkersInv
<1>4. ASSUME \/ GetTasks \/ EndCycle \/ CountInitial \/ CountFailed \/ CountCompleted
             \/ CloseTask \/ LaunchNone
      PROVE  UNCHANGED <<worker, queue, reopened>>
  BY <1>4 DEF GetTasks, EndCycle, CountInitial, CountFailed, CountCompleted, Count,
              CloseTask, LaunchNone, history
<1> QED BY <1>1, <1>2, <1>3, <1>4, SameQueue DEF Scheduler

LEMMA WorkersWorker ==
    ASSUME TypeOK, WorkersInv, NEW w \in Launches, Worker(w)
    PROVE  WorkersInv'
<1> DEFINE t == worker[w].task
<1>0. /\ queue \in [Task -> [Item -> QueueDoc]] /\ worker \in [Launches -> WorkerDoc]
      /\ t \in Task /\ queue[t] \in [Item -> QueueDoc] /\ worker[w] \in WorkerDoc
      /\ \A v \in Launches : worker[v].task \in Task /\ worker[v].item \subseteq Item
  BY DEF TypeOK, WorkerDoc
<1>a. UNCHANGED <<creation, reopened, altered>>
  BY DEF Worker, ClaimItem, NothingToClaim, WriteItem, apiVars, reqVars, history
<1>1. ASSUME NEW j \in Item, ClaimItem(w, j) PROVE WorkersInv'
  <2>1. /\ worker[w].phase = "claiming" /\ j \in Claimable(queue[t])
        /\ queue' = [queue EXCEPT ![t] = TakeItem(queue[t], j)]
    BY <1>1 DEF ClaimItem
  <2>2. /\ worker'[w].task = t /\ worker'[w].item = {j} /\ worker'[w].phase = "crawling"
        /\ \A v \in Launches \ {w} : worker'[v] = worker[v]
    BY <1>0, <1>1 DEF ClaimItem, WorkerDoc
  <2>3. /\ queue[t][j].status = "initial"
        /\ \A i \in Item : queue'[t][i].status = IF i = j THEN "running"
                                                 ELSE queue[t][i].status
        /\ \A u \in Task \ {t} : queue'[u] = queue[u]
    BY <1>0, <2>1, TakenItem
  <2>4. ASSUME NEW v \in Launches
        PROVE  /\ worker'[v].phase \in {"claiming", "crawling"}
                      => \/ worker'[v].task \in altered
                         \/ creation[worker'[v].task].phase = "done"
               /\ worker'[v].item # {} => worker'[v].phase = "crawling"
    BY <2>1, <2>2 DEF WorkersInv
  <2>5. ASSUME NEW v \in Launches, worker'[v].task \notin reopened \cup altered,
             NEW i \in worker'[v].item
        PROVE  /\ queue'[worker'[v].task][i].status \in {"running", "absent"}
               /\ \A x \in Launches \ {v} : worker'[x].task = worker'[v].task
                                                => i \notin worker'[x].item
    <3>1. CASE v = w
      <4>1. i = j
        BY <2>2, <2>5, <3>1
      <4>2. ASSUME NEW x \in Launches \ {w}, worker'[x].task = t, j \in worker'[x].item
            PROVE  FALSE
        BY <2>2, <2>3, <2>5, <3>1, <4>2 DEF WorkersInv
      <4> QED BY <2>2, <2>3, <3>1, <4>1, <4>2
    <3>2. CASE v # w
      <4>1. /\ worker'[v] = worker[v] /\ i \in Item /\ worker[v].task \in Task
            /\ queue[worker[v].task][i].status \in {"running", "absent"}
            /\ \A x \in Launches \ {v} : worker[x].task = worker[v].task
                                             => i \notin worker[x].item
        BY <1>0, <2>2, <2>5, <3>2 DEF WorkersInv
      <4>2. queue'[worker[v].task][i].status \in {"running", "absent"}
        BY <2>3, <4>1
      <4>3. worker[v].task = t => i # j
        BY <2>3, <4>1
      <4> QED BY <2>2, <3>2, <4>1, <4>2, <4>3
    <3> QED BY <3>1, <3>2
  <2> QED BY <1>a, <2>4, <2>5 DEF WorkersInv
<1>2. ASSUME NothingToClaim(w) PROVE WorkersInv'
  <2>1. /\ worker[w].phase = "claiming" /\ queue' = queue
        /\ worker'[w].phase = "ended" /\ worker'[w].item = worker[w].item
        /\ worker'[w].task = t
        /\ \A v \in Launches \ {w} : worker'[v] = worker[v]
    BY <1>0, <1>2 DEF NothingToClaim, WorkerDoc
  <2>2. \A v \in Launches : /\ worker'[v].item = worker[v].item
                            /\ worker'[v].task = worker[v].task
    BY <2>1
  <2>3. worker[w].item = {}
    BY <2>1 DEF WorkersInv
  <2> QED BY <1>a, <2>1, <2>2, <2>3 DEF WorkersInv
<1>3. ASSUME NEW st \in {"completed", "failed"}, WriteItem(w, st) PROVE WorkersInv'
  <2>1. /\ worker'[w].item = {} /\ worker'[w].phase = "ended" /\ worker'[w].task = t
        /\ \A v \in Launches \ {w} : worker'[v] = worker[v]
    BY <1>0, <1>3 DEF WriteItem, WorkerDoc
  <2>2. /\ \A u \in Task \ {t} : queue'[u] = queue[u]
        /\ \A i \in Item : i \notin worker[w].item => queue'[t][i] = queue[t][i]
    BY <1>3, WrittenItem
  <2>4. ASSUME NEW v \in Launches
        PROVE  /\ worker'[v].phase \in {"claiming", "crawling"}
                      => \/ worker'[v].task \in altered
                         \/ creation[worker'[v].task].phase = "done"
               /\ worker'[v].item # {} => worker'[v].phase = "crawling"
    BY <2>1 DEF WorkersInv
  <2>5. ASSUME NEW v \in Launches, worker'[v].task \notin reopened \cup altered,
             NEW i \in worker'[v].item
        PROVE  /\ queue'[worker'[v].task][i].status \in {"running", "absent"}
               /\ \A x \in Launches \ {v} : worker'[x].task = worker'[v].task
                                                => i \notin worker'[x].item
    <3>1. v # w
      BY <2>1, <2>5
    <3>2. /\ worker'[v] = worker[v] /\ i \in Item /\ worker[v].task \in Task
          /\ queue[worker[v].task][i].status \in {"running", "absent"}
          /\ \A x \in Launches \ {v} : worker[x].task = worker[v].task
                                           => i \notin worker[x].item
      BY <1>0, <2>1, <2>5, <3>1 DEF WorkersInv
    <3>3. queue'[worker[v].task][i] = queue[worker[v].task][i]
      BY <2>2, <3>1, <3>2
    <3> QED BY <2>1, <3>1, <3>2, <3>3
  <2> QED BY <1>a, <2>4, <2>5 DEF WorkersInv
<1> QED BY <1>1, <1>2, <1>3 DEF Worker

LEMMA WorkersEnqueue ==
    ASSUME TypeOK, [Next]_vars, WorkersInv, NEW w \in Launches, Enqueuing(w)
    PROVE  WorkersInv'
<1>0. worker \in [Launches -> WorkerDoc] /\ queue \in [Task -> [Item -> QueueDoc]]
  BY DEF TypeOK
<1>1. ASSUME NEW S, worker' = [worker EXCEPT ![w].into = S]
      PROVE  \A v \in Launches : /\ worker'[v].task = worker[v].task
                                 /\ worker'[v].item = worker[v].item
                                 /\ worker'[v].phase = worker[v].phase
  BY <1>0, <1>1 DEF WorkerDoc
<1>2. ASSUME NEW u \in Task, GetQueueName(w, u)
      PROVE  WorkersInv'
  <2>1. worker' = [worker EXCEPT ![w].into = {u}] /\ UNCHANGED <<queue, reopened>>
    BY <1>2 DEF GetQueueName, history
  <2> QED BY <1>1, <2>1, SameQueue
<1>3. ASSUME NEW u \in Task, NEW i \in Item, EnqueueItem(w, u, i)
      PROVE  WorkersInv'
  <2>1. /\ worker' = [worker EXCEPT ![w].into = {}] /\ reopened' = reopened
        /\ u \in altered' /\ \A v \in Task \ {u} : queue'[v] = queue[v]
    BY <1>0, <1>3 DEF EnqueueItem
  <2>2. \A v \in Task \ (reopened' \cup altered') : v \notin reopened /\ KeepsHeld(v)
    BY <2>1 DEF KeepsHeld
  <2> QED BY <1>1, <2>1, <2>2, WorkersKept
<1> QED BY <1>2, <1>3 DEF Enqueuing

LEMMA WorkersNext ==
    ASSUME TypeOK, [Next]_vars, WorkersInv, CopiesInv
    PROVE  WorkersInv'
<1>1. ASSUME Setting PROVE UNCHANGED <<worker, queue, reopened>>
  BY <1>1, SettingStep
<1>2. CASE UNCHANGED vars
  BY <1>2, SameQueue DEF vars, history
<1>3. ASSUME NEW t \in Task, Healing PROVE WorkersInv'
  BY <1>3, WorkersApi
<1>4. ASSUME Healing PROVE \E t \in Task : TRUE
  BY DEF TypeOK
<1>6. ASSUME DaemonFails PROVE UNCHANGED <<worker, queue, reopened>>
  BY <1>6 DEF DaemonFails, history
<1>5. CASE Next
  BY <1>1, <1>3, <1>4, <1>5, <1>6, SameQueue, WorkersApi, WorkersScheduler,
     WorkersWorker, WorkersEnqueue, Steps DEF Scheduler
<1> QED BY <1>2, <1>5

\* What the counts are worth while the task is closed.
CountsInv == cur \notin reopened \cup altered =>
    /\ pc = "count_completed"
           => \/ Stored(queue[cur]) = {}
              \/ counted.settled
                     <= Cardinality(DefinitelyFailed(queue[cur], mem[cur].retry))
    /\ pc = "close"
           => Stored(queue[cur]) \subseteq Settled(queue[cur], mem[cur].retry)

LEMMA CountsInit == ASSUME Init PROVE CountsInv
BY DEF Init, CountsInv

\* Unless a request resets the items of a task, or its queue is dropped, what is
\* settled stays as it is: a worker only writes an item that is marked as running.
LEMMA SettledStay ==
    ASSUME TypeOK, [Next]_vars, WorkersInv, OrphanInv(cur), creation[cur].phase = "done",
           cur \notin reopened' \cup altered'
    PROVE  \/ Stored(queue'[cur]) = {}
           \/ \A i \in Settled(queue[cur], mem[cur].retry) :
                  queue'[cur][i] = queue[cur][i]
<1> DEFINE q == queue[cur]
           lim == mem[cur].retry
           Stay == \A i \in Settled(q, lim) : queue'[cur][i] = q[i]
<1>0. /\ queue \in [Task -> [Item -> QueueDoc]] /\ cur \in Task
      /\ q \in [Item -> QueueDoc] /\ worker \in [Launches -> WorkerDoc]
  BY DEF TypeOK
<1>a. \A i \in Settled(q, lim) : i \in Item /\ q[i].status \in {"completed", "failed"}
  BY DEF Settled, DefinitelyFailed, WithStatus
<1>1. ASSUME NEW t \in Task, \E i \in Item : InsertItem(t, i)
      PROVE  Stay
  <2>1. PICK i : InsertItem(t, i)
    BY <1>1
  <2>2. t # cur
    BY <2>1 DEF InsertItem
  <2>3. queue'[cur] = q
    BY <1>0, <2>1, <2>2 DEF InsertItem
  <2> QED BY <2>3
<1>2. ASSUME NEW t \in Task, DropQueue(t)
      PROVE  Stored(queue'[cur]) = {} \/ Stay
  BY <1>0, <1>2, EmptyQueue DEF DropQueue
<1>3. ASSUME NEW t \in Task, ResetItems(t) \/ UpdateItems(t)
      PROVE  Stay
  <2>1. t # cur \/ queue' = queue
    BY <1>0, <1>3 DEF ResetItems, UpdateItems
  <2> QED BY <1>0, <1>3, <2>1 DEF ResetItems, UpdateItems
<1>4. ASSUME ProcessWorkerMeta
      PROVE  Stay
  <2>1. queue' = queue \/ queue' = [queue EXCEPT ![cur] = EnqueueFailedItems(q, lim)]
    BY <1>4 DEF ProcessWorkerMeta
  <2>2. \A i \in Settled(q, lim) : EnqueueFailedItems(q, lim)[i] = q[i]
    BY <1>0, <1>a DEF EnqueueFailedItems, SetStatus, Retriable, Settled, WithStatus
  <2> QED BY <1>0, <2>1, <2>2
<1>5. ASSUME NEW w \in Launches, Worker(w)
      PROVE  Stay
  <2> DEFINE t == worker[w].task
  <2>0. t \in Task /\ queue[t] \in [Item -> QueueDoc]
    BY <1>0 DEF WorkerDoc
  <2>1. ASSUME NEW i \in Item, ClaimItem(w, i)
        PROVE  Stay
    <3>1. /\ i \in Claimable(queue[t])
          /\ queue' = [queue EXCEPT ![t] = TakeItem(queue[t], i)]
      BY <2>1 DEF ClaimItem
    <3>2. queue[t][i].status = "initial"
      BY <3>1 DEF Claimable, WithStatus
    <3>3. \A j \in Item : j # i => TakeItem(queue[t], i)[j] = queue[t][j]
      BY <2>0 DEF TakeItem, SetStatus
    <3>4. CASE t = cur
      <4>1. \A j \in Settled(q, lim) : j # i
        BY <1>a, <3>2, <3>4
      <4> QED BY <1>0, <1>a, <3>1, <3>3, <3>4, <4>1
    <3>5. CASE t # cur
      BY <1>0, <2>0, <3>1, <3>5
    <3> QED BY <3>4, <3>5
  <2>2. ASSUME NEW st \in {"completed", "failed"}, WriteItem(w, st)
        PROVE  Stay
    <3>1. /\ \A u \in Task \ {t} : queue'[u] = queue[u]
          /\ \A i \in Item : i \notin worker[w].item => queue'[t][i] = queue[t][i]
      BY <2>2, WrittenItem
    <3>2. reopened' = reopened /\ altered' = altered
      BY <2>2 DEF WriteItem, history
    <3>3. CASE t = cur
      <4>1. \A i \in worker[w].item : q[i].status \in {"running", "absent"}
        BY <3>2, <3>3 DEF WorkersInv
      <4>2. \A i \in Settled(q, lim) : i \in Item /\ i \notin worker[w].item
        BY <1>a, <4>1
      <4> QED BY <3>1, <3>3, <4>2
    <3>4. CASE t # cur
      BY <1>0, <3>1, <3>4
    <3> QED BY <3>3, <3>4
  <2>3. ASSUME NothingToClaim(w) PROVE queue' = queue
    BY <2>3 DEF NothingToClaim
  <2> QED BY <1>5, <2>1, <2>2, <2>3 DEF Worker
<1>6. ASSUME \/ \E t \in Task :
                   \/ \E p \in Payload, st \in {"started", "paused"} : CreateTask(t, p, st)
                   \/ SaveNewTask(t) \/ InsertFails(t)
                   \/ DeleteTask(t) \/ DropWorkerMeta(t) \/ DeleteDoc(t) \/ DeleteAll
             \/ \E t \in Task, what \in {"running", "failed"} : HealQueue(t, what)
             \/ \E t \in Task : \E S \in SUBSET WithStatus(queue[t], "completed") :
                    Enqueue(t, S)
             \/ ApiExit
      PROVE  queue' = queue
  BY <1>6 DEF CreateTask, SaveNewTask, InsertFails, DeleteTask, DropWorkerMeta, DeleteDoc,
              DeleteAll, HealQueue, Enqueue, ApiExit
<1>7. ASSUME \/ GetTasks \/ EndCycle \/ \E t \in Task : OpenQueue(t)
             \/ CountInitial \/ CountFailed \/ CountCompleted \/ CloseTask
             \/ \E w \in Launches : Launch(w)
             \/ LaunchNone
             \/ DaemonFails
      PROVE  queue' = queue
  BY <1>7 DEF DaemonFails, GetTasks, EndCycle, OpenQueue, CountInitial, CountFailed, CountCompleted,
              Count, CloseTask, Launch, LaunchNone
<1>11. ASSUME NEW w \in Launches, Enqueuing(w)
       PROVE  Stay
  <2>1. queue'[cur] = q
    BY <1>0, <1>11 DEF Enqueuing, GetQueueName, EnqueueItem
  <2> QED BY <2>1
<1>8. ASSUME Setting PROVE queue' = queue
  BY <1>8, SettingStep
<1>9. CASE UNCHANGED vars
  BY <1>9 DEF vars
<1>10. CASE Next
  BY <1>1, <1>2, <1>3, <1>4, <1>5, <1>6, <1>7, <1>8, <1>10, <1>11, Steps
     DEF Creating, Deleting, Healing, Resetting
<1> QED BY <1>9, <1>10

\* So the counts that are taken one after the other are not above what they count,
\* and a task they call finished is.
LEMMA AllSettled ==
    ASSUME NEW q \in [Item -> QueueDoc], NEW n \in Nat, NEW m \in Nat, NEW lim,
           n <= Cardinality(DefinitelyFailed(q, lim)),
           n + Cardinality(WithStatus(q, "completed")) >= m,
           Cardinality(Stored(q)) <= m
    PROVE  Stored(q) \subseteq Settled(q, lim)
<1> DEFINE D == DefinitelyFailed(q, lim)
           C == WithStatus(q, "completed")
           S == Stored(q)
<1>1. /\ IsFiniteSet(D) /\ Cardinality(D) \in Nat
      /\ IsFiniteSet(C) /\ Cardinality(C) \in Nat
      /\ IsFiniteSet(S) /\ Cardinality(S) \in Nat
  BY CountType, StoredType
<1>2. D \cap C = {} /\ D \cup C \in SUBSET S /\ Settled(q, lim) = C \cup D
  BY DEF DefinitelyFailed, WithStatus, Stored, Settled
<1>3. Cardinality(D \cup C) = Cardinality(D) + Cardinality(C)
  <2>1. Cardinality(D \cup C) = Cardinality(D) + Cardinality(C) - Cardinality(D \cap C)
    BY <1>1, FS_Union
  <2>2. Cardinality(D \cap C) = 0
    BY <1>2, FS_EmptySet
  <2> HIDE DEF D, C
  <2> QED BY <1>1, <2>1, <2>2
<1>4. /\ Cardinality(D \cup C) <= Cardinality(S)
      /\ Cardinality(S) = Cardinality(D \cup C) => S = D \cup C
  BY <1>1, <1>2, FS_Subset
<1>5. Cardinality(S) = Cardinality(D \cup C)
  <2>1. /\ n <= Cardinality(D) /\ n + Cardinality(C) >= m /\ Cardinality(S) <= m
    OBVIOUS
  <2> HIDE DEF D, C, S
  <2> QED BY <1>1, <1>3, <1>4, <2>1
<1> QED BY <1>2, <1>4, <1>5

LEMMA CountsNext ==
    ASSUME TypeOK, [Next]_vars, CountsInv, WorkersInv, CopiesInv,
           \A t \in Task : OrphanInv(t)
    PROVE  CountsInv'
<1> DEFINE q == queue[cur]
           lim == mem[cur].retry
<1>0. /\ cur \in Task /\ q \in [Item -> QueueDoc] /\ mem[cur] \in TaskDoc
      /\ counted \in [initial : BOOLEAN, settled : Nat] /\ TypeOK'
  BY TypeNext DEF TypeOK
\* A step that leaves the scheduler where it is.
<1>1. ASSUME UNCHANGED <<pc, cur, counted, mem>>, pc \in {"count_completed", "close"},
             cur \notin reopened' \cup altered'
      PROVE  CountsInv'
  <2>0. cur \notin altered
    BY <1>1, AlteredGrows
  <2>1. creation[cur].phase = "done"
    BY <1>0, <1>1, <2>0 DEF CopiesInv
  <2>2. /\ Stored(queue'[cur]) = Stored(q) \/ Stored(queue'[cur]) = {}
    BY <1>0, <1>1, <2>1, DoneIsFinal
  <2>3. Stored(queue'[cur]) = {} \/ \A i \in Settled(q, lim) : queue'[cur][i] = q[i]
    BY <1>0, <1>1, <2>1, SettledStay
  <2>4. ASSUME Stored(queue'[cur]) # {}
        PROVE  CountsInv'
    <3>1. \A i \in Settled(q, lim) : i \in Item /\ queue'[cur][i] = q[i]
      BY <2>3, <2>4 DEF Settled, DefinitelyFailed, WithStatus
    <3>2. /\ DefinitelyFailed(q, lim) \in SUBSET DefinitelyFailed(queue'[cur], lim)
          /\ Settled(q, lim) \subseteq Settled(queue'[cur], lim)
      BY <3>1 DEF Settled, DefinitelyFailed, WithStatus
    <3>3. queue'[cur] \in [Item -> QueueDoc]
      BY <1>0, <1>1 DEF TypeOK
    <3>4. Cardinality(DefinitelyFailed(q, lim)) <= Cardinality(DefinitelyFailed(queue'[cur], lim))
      BY <3>2, <3>3, CountType, FS_Subset
    <3>5. /\ Cardinality(DefinitelyFailed(q, lim)) \in Nat
          /\ Cardinality(DefinitelyFailed(queue'[cur], lim)) \in Nat
          /\ counted.settled \in Nat
      BY <1>0, <3>3, CountType
    <3>6. cur \notin reopened
      <4>1. ASSUME NEW t \in Task, OpenQueue(t) PROVE FALSE
        BY <1>1, <4>1 DEF OpenQueue, At
      <4>2. CASE Next
        <5>1. reopened \subseteq reopened'
          <6>1. ASSUME Setting PROVE reopened' = reopened
            BY <6>1, SettingStep
          <6> QED BY <4>1, <4>2, <6>1, Steps
             DEF CreateTask, Creating, InsertItem, SaveNewTask, InsertFails,
                 DeleteTask, Deleting, DropQueue, DropWorkerMeta, DeleteDoc, DeleteAll,
                 Healing, HealQueue, Enqueue, Resetting, ResetItems, UpdateItems,
                 ApiExit, GetTasks, EndCycle, CountInitial, CountFailed,
                 CountCompleted, Count, CloseTask, ProcessWorkerMeta, Launch, LaunchNone,
                 DaemonFails, Worker, ClaimItem, NothingToClaim, WriteItem, Enqueuing,
                 GetQueueName, EnqueueItem, history
        <5> QED BY <1>1, <5>1
      <4>3. CASE UNCHANGED vars
        BY <1>1, <4>3 DEF vars, history
      <4> QED BY <4>2, <4>3
    <3>7. CASE pc = "count_completed"
      <4>1. counted.settled <= Cardinality(DefinitelyFailed(q, lim))
        BY <2>0, <2>2, <2>4, <3>6, <3>7 DEF CountsInv
      <4>2. counted.settled <= Cardinality(DefinitelyFailed(queue'[cur], lim))
        BY <3>4, <3>5, <4>1
      <4> QED BY <1>1, <3>7, <4>2 DEF CountsInv
    <3>8. CASE pc = "close"
      <4>1. Stored(q) \subseteq Settled(q, lim)
        BY <2>0, <3>6, <3>8 DEF CountsInv
      <4> QED BY <1>1, <2>2, <3>2, <3>8, <4>1 DEF CountsInv
    <3> QED BY <1>1, <3>7, <3>8
  <2>5. ASSUME Stored(queue'[cur]) = {}
        PROVE  CountsInv'
    BY <1>1, <2>5 DEF CountsInv
  <2> QED BY <2>4, <2>5
<1>2. ASSUME UNCHANGED <<pc, cur, counted, mem>>
      PROVE  CountsInv'
  <2>1. CASE pc \notin {"count_completed", "close"}
    BY <1>2, <2>1 DEF CountsInv
  <2>2. CASE cur \in reopened' \cup altered'
    BY <1>2, <2>2 DEF CountsInv
  <2> QED BY <1>1, <1>2, <2>1, <2>2
<1>3. ASSUME pc' \notin {"count_completed", "close"}
      PROVE  CountsInv'
  BY <1>3 DEF CountsInv
<1>4. ASSUME CountFailed
      PROVE  CountsInv'
  <2>1. pc' = "count_completed" /\ UNCHANGED <<queue, cur, mem>>
    BY <1>4 DEF CountFailed, Count
  <2>2. counted'.settled = Cardinality(DefinitelyFailed(q, lim))
    BY <1>0, <1>4 DEF CountFailed, Count
  <2>3. Cardinality(DefinitelyFailed(q, lim)) \in Nat
    BY <1>0, CountType
  <2> QED BY <2>1, <2>2, <2>3 DEF CountsInv
<1>5. ASSUME CountCompleted, pc' = "close"
      PROVE  CountsInv'
  <2>1. pc = "count_completed" /\ UNCHANGED <<queue, cur, mem, reopened, altered>>
    BY <1>5 DEF CountCompleted, Count, At, history
  <2>2. counted.settled + Cardinality(WithStatus(q, "completed")) >= mem[cur].num_items
    BY <1>5 DEF CountCompleted, Count
  <2>3. ASSUME cur \notin reopened \cup altered
        PROVE  Stored(q) \subseteq Settled(q, lim)
    <3>1. Cardinality(Stored(q)) <= mem[cur].num_items /\ mem[cur].num_items \in Nat
      BY <1>0, <2>1, <2>3 DEF CopiesInv, TaskDoc
    <3>2. counted.settled \in Nat
      BY <1>0
    <3>3. \/ Stored(q) = {}
          \/ counted.settled <= Cardinality(DefinitelyFailed(q, lim))
      BY <2>1, <2>3 DEF CountsInv
    <3>4. ASSUME counted.settled <= Cardinality(DefinitelyFailed(q, lim))
          PROVE  Stored(q) \subseteq Settled(q, lim)
      BY <1>0, <2>2, <3>1, <3>2, <3>4, AllSettled
    <3> QED BY <3>3, <3>4
  <2> QED BY <1>5, <2>1, <2>3 DEF CountsInv
<1>6. ASSUME \/ GetTasks \/ EndCycle \/ \E t \in Task : OpenQueue(t)
             \/ CountInitial \/ CloseTask \/ ProcessWorkerMeta
             \/ \E w \in Launches : Launch(w)
             \/ LaunchNone
             \/ DaemonFails
      PROVE  pc' \notin {"count_completed", "close"}
  BY <1>6 DEF DaemonFails, GetTasks, EndCycle, OpenQueue, CountInitial, Count, CloseTask,
              ProcessWorkerMeta, Launch, LaunchNone, NextTask
<1>7. ASSUME CountCompleted PROVE pc' \in {"close", "serve"}
  BY <1>7 DEF CountCompleted, Count
<1>8. ASSUME \/ \E t \in Task :
                   \/ \E p \in Payload, st \in {"started", "paused"} : CreateTask(t, p, st)
                   \/ Creating(t)
                   \/ InsertFails(t)
                   \/ DeleteTask(t) \/ Deleting(t) \/ DeleteAll
             \/ Healing
             \/ \E w \in Launches : Worker(w) \/ Enqueuing(w)
      PROVE  UNCHANGED <<pc, cur, counted, mem>>
  BY <1>8 DEF CreateTask, Creating, InsertItem, SaveNewTask, InsertFails, DeleteTask,
              Deleting, DropQueue, DropWorkerMeta, DeleteDoc, DeleteAll, Healing,
              HealQueue, Enqueue, Resetting, ResetItems, UpdateItems, ApiExit,
              Worker, ClaimItem, NothingToClaim, WriteItem, Enqueuing, GetQueueName,
              EnqueueItem, schedVars
<1>9. ASSUME Setting PROVE UNCHANGED <<pc, cur, counted, mem>>
  BY <1>9, SettingStep DEF schedVars
<1>10. CASE Next
  BY <1>2, <1>3, <1>4, <1>5, <1>6, <1>7, <1>8, <1>9, <1>10, Steps
<1>11. CASE UNCHANGED vars
  BY <1>2, <1>11 DEF vars, schedVars
<1> QED BY <1>10, <1>11

Closing ==
    /\ Orphans
    /\ \A t \in Task : NumItemsInv(t)
    /\ CopiesInv
    /\ WorkersInv
    /\ CountsInv

LEMMA ClosingHolds == Spec => []Closing
<1>1. Init => Closing
  BY TypeInit, OrphanInit, NumItemsInit, CopiesInit, WorkersInit, CountsInit
     DEF Closing, Orphans
<1>2. Closing /\ [Next]_vars => Closing'
  <2> SUFFICES ASSUME Closing, [Next]_vars PROVE Closing'
    OBVIOUS
  <2>1. /\ TypeOK /\ CopiesInv /\ WorkersInv /\ CountsInv
        /\ \A t \in Task : OrphanInv(t) /\ NumItemsInv(t)
    BY DEF Closing, Orphans
  <2>2. TypeOK' /\ \A t \in Task : OrphanInv(t)'
    BY <2>1, TypeNext, OrphanNext
  <2>3. \A t \in Task : NumItemsInv(t)'
    BY <2>1, NumItemsNext
  <2>4. CopiesInv' /\ WorkersInv' /\ CountsInv'
    BY <2>1, CopiesNext, WorkersNext, CountsNext
  <2> QED BY <2>2, <2>3, <2>4 DEF Closing, Orphans
<1> QED BY <1>1, <1>2, PTL DEF Spec

\* A task is closed only when its creation is over and nobody will crawl an item of
\* it again, for every interleaving of requests, cycles and workers, and whatever
\* becomes of its retry limit.  The exceptions are those of the code: a reset of
\* items since the last cycle without busy workers, items that a crawl enqueued, and
\* an update of the number of items or of the queue.
THEOREM ClosedTasksAreSettled == Spec => ClosedMeansSettled
<1>1. Closing /\ [Next]_vars =>
          [\A t \in Task :
               pc = "close" /\ pc' # pc /\ cur = t /\ Exists(t) /\ t \notin altered
                   => /\ creation[t].phase = "done"
                      /\ \/ t \in reopened
                         \/ Stored(queue[t]) \subseteq Settled(queue[t], mem[t].retry)]_vars
  BY DEF Closing, CopiesInv, CountsInv, Orphans, TypeOK
<1> QED BY <1>1, ClosingHolds, PTL DEF Spec, ClosedMeansSettled

-----------------------------------------------------------------------------
(* What can end the daemon's loop. *)

\* The daemon's own database calls succeed.
CallsSucceed == "scheduler" \notin Environment

\* A task that was created and is there no more.
Gone(t) == creation[t].phase # "none" /\ ~Exists(t)

\* The cycle works on tasks that were created, and its loop ends at one that is
\* gone.
LoopInv ==
    /\ \A t \in todo : creation[t].phase # "none"
    /\ pc \notin {"idle", "next"} => creation[cur].phase # "none"
    /\ daemon = "hung" => \E t \in Task : Gone(t)

LEMMA LoopInit == ASSUME Init PROVE LoopInv
BY DEF Init, LoopInv

\* A creation is never undone, and a task that is gone never comes back.
LEMMA GoneStays ==
    ASSUME TypeOK, [Next]_vars, NEW t \in Task, creation[t].phase # "none"
    PROVE  creation'[t].phase # "none" /\ (Gone(t) => Gone(t)')
<1>0. /\ task \in [Task -> TaskDoc] /\ creation \in [Task -> Creation]
      /\ task[t] \in TaskDoc /\ creation[t] \in Creation
  BY DEF TypeOK
<1> DEFINE Kept == creation'[t].phase # "none" /\ (Exists(t)' => Exists(t))
<1>1. ASSUME NEW p \in Payload, NEW st \in {"started", "paused"}, CreateTask(t, p, st)
      PROVE  Kept
  BY <1>1 DEF CreateTask
<1>9. ASSUME NEW w \in Launches, NEW i \in Item, EnqueueItem(w, t, i)
      PROVE  Kept
  BY <1>9 DEF EnqueueItem, apiVars, reqVars, Exists
<1>2. ASSUME NEW i \in Item, InsertItem(t, i)
      PROVE  Kept
  BY <1>0, <1>2 DEF InsertItem, Creation, Exists
<1>3. ASSUME InsertFails(t)
      PROVE  Kept
  BY <1>0, <1>3 DEF InsertFails, Creation, Exists
<1>4. ASSUME SaveNewTask(t)
      PROVE  Kept
  BY <1>0, <1>4 DEF SaveNewTask, Creation, TaskDoc, Exists
<1>5. ASSUME DeleteTask(t) \/ DropQueue(t) \/ DropWorkerMeta(t)
      PROVE  Kept
  BY <1>5 DEF DeleteTask, DropQueue, DropWorkerMeta, Exists
<1>6. ASSUME DeleteDoc(t) \/ DeleteAll
      PROVE  Kept
  BY <1>0, <1>6, NoTaskType DEF DeleteDoc, DeleteAll, Exists
<1>7. ASSUME ApiExit
      PROVE  Kept
  BY <1>0, <1>7 DEF ApiExit, Creation, Exists
<1>8. ASSUME Steady(t)
      PROVE  Kept
  BY <1>8 DEF Steady
<1> QED BY <1>1, <1>2, <1>3, <1>4, <1>5, <1>6, <1>7, <1>8, <1>9, LifeSteps DEF Gone

\* Then a save fails only when the task is gone.
LEMMA SaveHangs ==
    ASSUME CallsSucceed, TypeOK, LoopInv, NEW d, Save(cur, d), pc \notin {"idle", "next"}
    PROVE  daemon' = daemon \/ (daemon' = "hung" /\ Gone(cur))
BY DEF LoopInv, Save, Gone, Fault, CallsSucceed

LEMMA LoopNext ==
    ASSUME CallsSucceed, TypeOK, \A t \in Task : OrphanInv(t), LoopInv, [Next]_vars
    PROVE  LoopInv'
<1>0. todo \in SUBSET Task /\ cur \in Task
  BY DEF TypeOK
<1>1. \A t \in Task : creation[t].phase # "none"
         => creation'[t].phase # "none" /\ (Gone(t) => Gone(t)')
  BY GoneStays
<1>2. (\E t \in Task : Gone(t)) => \E t \in Task : Gone(t)'
  BY <1>1 DEF Gone
<1>3. ASSUME UNCHANGED schedVars
      PROVE  LoopInv'
  BY <1>0, <1>1, <1>2, <1>3 DEF LoopInv, schedVars
<1>4. ASSUME GetTasks
      PROVE  LoopInv'
  <2>1. \A t \in todo' : t \in Task /\ Exists(t)
    BY <1>4 DEF GetTasks, Exists
  <2>2. \A t \in todo' : creation[t].phase # "none"
    BY <2>1 DEF OrphanInv
  <2>3. daemon' = daemon /\ pc' = "next"
    BY <1>4 DEF GetTasks
  <2> QED BY <1>1, <1>2, <2>1, <2>2, <2>3 DEF LoopInv
<1>5. ASSUME \/ EndCycle
             \/ CountInitial
             \/ CountFailed
             \/ CountCompleted
             \/ LaunchNone
      PROVE  LoopInv'
  <2>1. /\ todo' \subseteq todo /\ daemon' = daemon /\ cur' = cur
        /\ pc \in {"idle", "next"} => pc' \in {"idle", "next"}
    BY <1>5 DEF EndCycle, CountInitial, CountFailed, CountCompleted, Count, LaunchNone,
                At, NextTask
  <2> QED BY <1>0, <1>1, <1>2, <2>1 DEF LoopInv
<1>6. ASSUME NEW t \in Task, OpenQueue(t)
      PROVE  LoopInv'
  <2>1. daemon' \in {daemon, "stopped"} /\ t \in todo
    BY <1>6 DEF OpenQueue
  <2>2. \/ pc' = "idle" /\ todo' = {}
        \/ cur' = t /\ todo' = todo
    BY <1>6 DEF OpenQueue
  <2> QED BY <1>0, <1>1, <1>2, <2>1, <2>2 DEF LoopInv
<1>7. ASSUME CloseTask \/ ProcessWorkerMeta \/ \E w \in Launches : Launch(w)
      PROVE  LoopInv'
  <2>1. /\ todo' \subseteq todo /\ cur' = cur
        /\ pc \notin {"idle", "next"}
    BY <1>7 DEF CloseTask, ProcessWorkerMeta, Launch, At, NextTask
  <2>2. \E d : Save(cur, d)
    BY <1>7 DEF CloseTask, ProcessWorkerMeta, Launch
  <2>3. daemon' = daemon \/ (daemon' = "hung" /\ Gone(cur))
    BY <2>1, <2>2, SaveHangs
  <2> QED BY <1>0, <1>1, <1>2, <2>1, <2>3 DEF LoopInv
<1>8. ASSUME NEW u \in Task,
             \/ \E p \in Payload, st \in {"started", "paused"} : CreateTask(u, p, st)
             \/ Creating(u)
             \/ InsertFails(u)
             \/ DeleteTask(u)
             \/ Deleting(u)
             \/ DeleteAll
      PROVE  UNCHANGED schedVars
  BY <1>8 DEF CreateTask, Creating, InsertItem, SaveNewTask, InsertFails, DeleteTask,
              Deleting, DropQueue, DropWorkerMeta, DeleteDoc, DeleteAll
<1>9. ASSUME Setting
      PROVE  UNCHANGED schedVars
  BY <1>9, SettingStep
<1>10. ASSUME Healing
       PROVE  UNCHANGED schedVars
  BY <1>10 DEF Healing, HealQueue, Enqueue, Resetting, ResetItems, UpdateItems, ApiExit
<1>14. ASSUME DaemonFails
       PROVE  FALSE
  BY <1>14 DEF DaemonFails, Fault, CallsSucceed
<1>11. ASSUME NEW w \in Launches, Worker(w) \/ Enqueuing(w)
       PROVE  UNCHANGED schedVars
  BY <1>11 DEF Worker, ClaimItem, NothingToClaim, WriteItem, Enqueuing, GetQueueName,
               EnqueueItem
<1>12. ASSUME UNCHANGED vars
       PROVE  UNCHANGED schedVars
  BY <1>12 DEF vars
<1>13. CASE Next
  BY <1>3, <1>4, <1>5, <1>6, <1>7, <1>8, <1>9, <1>10, <1>11, <1>13, <1>14, Steps
<1> QED BY <1>3, <1>12, <1>13

LEMMA LoopHolds ==
    ASSUME CallsSucceed
    PROVE  Spec => [](TypeOK /\ LoopInv)
<1>1. Init => Orphans /\ LoopInv
  BY TypeInit, OrphanInit, LoopInit DEF Orphans
<1>2. Orphans /\ LoopInv /\ [Next]_vars => (Orphans /\ LoopInv)'
  BY CallsSucceed, TypeNext, OrphanNext, LoopNext DEF Orphans
<1>3. Orphans /\ LoopInv => TypeOK /\ LoopInv
  BY DEF Orphans
<1> QED BY <1>1, <1>2, <1>3, PTL DEF Spec

\* As long as the daemon's own database calls succeed, its loop ends only when a
\* task that was created has been deleted, whatever else clients do, and whatever
\* fails for them, meanwhile.
THEOREM LoopEndsByDeletion ==
    ASSUME CallsSucceed
    PROVE  Spec => [](daemon = "hung"
                         => \E t \in Task : creation[t].phase # "none" /\ ~Exists(t))
<1>1. LoopInv => (daemon = "hung"
                    => \E t \in Task : creation[t].phase # "none" /\ ~Exists(t))
  BY DEF LoopInv, Gone
<1> QED BY <1>1, CallsSucceed, LoopHolds, PTL

\* Clients do not delete tasks.
NoDeletion == "delete" \notin Requests /\ "drop" \notin Requests

\* Then a task that was created stays.
StayInv(t) == deletion[t] = "none" /\ ~Gone(t)

LEMMA StayNext ==
    ASSUME NoDeletion, TypeOK, NEW t \in Task, StayInv(t), [Next]_vars
    PROVE  StayInv(t)'
<1>0. /\ task \in [Task -> TaskDoc] /\ creation \in [Task -> Creation]
      /\ task[t] \in TaskDoc /\ creation[t] \in Creation
      /\ deletion \in [Task -> {"none", "queue", "meta", "doc"}]
  BY DEF TypeOK
<1>1. ASSUME NEW p \in Payload, NEW st \in {"started", "paused"}, CreateTask(t, p, st)
      PROVE  StayInv(t)'
  <2>1. task'[t].status = st /\ deletion' = deletion
    BY <1>0, <1>1 DEF CreateTask, FirstDoc, NewDoc
  <2> QED BY <2>1 DEF StayInv, Gone, Exists
<1>2. ASSUME (\E i \in Item : InsertItem(t, i)) \/ InsertFails(t)
      PROVE  StayInv(t)'
  <2>1. UNCHANGED <<task, deletion>> /\ creation[t].phase = "insert"
    BY <1>2 DEF InsertItem, InsertFails
  <2> QED BY <2>1 DEF StayInv, Gone, Exists
<1>3. ASSUME SaveNewTask(t)
      PROVE  StayInv(t)'
  <2>1. creation[t].phase = "save" /\ deletion' = deletion
    BY <1>3 DEF SaveNewTask
  <2>2. Exists(t) => Exists(t)'
    BY <1>0, <1>3 DEF SaveNewTask, TaskDoc, Exists
  <2> QED BY <2>1, <2>2 DEF StayInv, Gone
<1>4. ASSUME DeleteTask(t) \/ DeleteAll
      PROVE  FALSE
  BY <1>4 DEF DeleteTask, DeleteAll, Request, NoDeletion
<1>5. ASSUME DropQueue(t) \/ DropWorkerMeta(t) \/ DeleteDoc(t)
      PROVE  FALSE
  BY <1>5 DEF DropQueue, DropWorkerMeta, DeleteDoc, StayInv
<1>6. ASSUME ApiExit
      PROVE  StayInv(t)'
  <2>1. task' = task /\ deletion'[t] = "none"
        /\ (creation'[t].phase # "none" => creation[t].phase # "none")
    BY <1>0, <1>6 DEF ApiExit, Creation
  <2> QED BY <2>1 DEF StayInv, Gone, Exists
<1>7. ASSUME Steady(t)
      PROVE  StayInv(t)'
  BY <1>7 DEF Steady, StayInv, Gone
<1>8. ASSUME NEW w \in Launches, NEW i \in Item, EnqueueItem(w, t, i)
      PROVE  StayInv(t)'
  BY <1>8 DEF EnqueueItem, apiVars, reqVars, StayInv, Gone, Exists
<1> QED BY <1>1, <1>2, <1>3, <1>4, <1>5, <1>6, <1>7, <1>8, LifeSteps

\* As long as the daemon's database calls succeed and clients delete no task, the
\* loop goes on until the process itself ends: no other request makes a save fail.
THEOREM DaemonLoopsWithoutDeletion ==
    ASSUME CallsSucceed, NoDeletion
    PROVE  Spec => [](daemon # "hung")
<1> DEFINE Stay == \A t \in Task : StayInv(t)
<1>1. Init => Stay
  BY DEF Init, StayInv, Gone, NoCreation
<1>2. TypeOK /\ Stay /\ [Next]_vars => Stay'
  BY NoDeletion, StayNext
<1>3. LoopInv /\ Stay => daemon # "hung"
  BY DEF LoopInv, StayInv
<1> HIDE DEF Stay
<1> QED BY <1>1, <1>2, <1>3, CallsSucceed, LoopHolds, PTL DEF Spec

=============================================================================

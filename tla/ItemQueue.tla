------------------------------ MODULE ItemQueue ------------------------------
(***************************************************************************)
(* The item queue of one crawl task: the MongoDB collection                *)
(* item_queue_<task>, shared by the scheduler (queue.model.ts), the API    *)
(* and every crawl worker (crawl_queue.ts).  A queue is a function from    *)
(* items to documents; each operator below is the effect of one database   *)
(* operation, and MongoDB applies each of them atomically.                 *)
(*                                                                         *)
(* An item that has not been inserted has status "absent".  The field      *)
(* crawled is a date in the code: here, whether it is set.  Where the      *)
(* retry limit matters it is an argument: task.retry_failed_items.         *)
(***************************************************************************)
EXTENDS Naturals, FiniteSets

CONSTANT Item   \* the items that are, or may be, in the queue

ASSUME ItemQueueAssumption == IsFiniteSet(Item)

QueueItemStatus == {"absent", "initial", "running", "completed", "failed"}

QueueDoc == [status : QueueItemStatus, retries : Nat, crawled : BOOLEAN]

-----------------------------------------------------------------------------
(* What the queries select. *)

WithStatus(q, st) == {i \in Item : q[i].status = st}

\* getItemsToCrawlSafe: {crawled: null, status: initial}
Claimable(q) == {i \in WithStatus(q, "initial") : ~q[i].crawled}

\* failed and no longer below the retry limit
DefinitelyFailed(q, limit) ==
    {i \in WithStatus(q, "failed") : q[i].retries >= limit}

Retriable(q, limit) == WithStatus(q, "failed") \ DefinitelyFailed(q, limit)

\* The items nobody will crawl again.
Settled(q, limit) == WithStatus(q, "completed") \cup DefinitelyFailed(q, limit)

-----------------------------------------------------------------------------
(* What the updates write. *)

FreshDoc == [status |-> "initial", retries |-> 0, crawled |-> FALSE]

AbsentDoc == [status |-> "absent", retries |-> 0, crawled |-> FALSE]

InsertItems(q, S) == [i \in Item |-> IF i \in S THEN FreshDoc ELSE q[i]]

SetStatus(q, S, st) ==
    [i \in Item |-> IF i \in S THEN [q[i] EXCEPT !.status = st] ELSE q[i]]

\* Mutant of TakeItem: the item is read but not marked.
PeekItem(q, i) == q

\* findOneAndUpdate of one claimable item
TakeItem(q, i) == SetStatus(q, {i}, "running")

\* heal: running -> initial, every other field kept
ResetQueueItems(q) == SetStatus(q, WithStatus(q, "running"), "initial")

\* Mutant of EnqueueFailedItems: the failed items are left alone.
EnqueueNothing(q, limit) == q

\* Mutant of EnqueueFailedItems: the retry limit is not looked at.
EnqueueFailedAgain(q, limit) == SetStatus(q, WithStatus(q, "failed"), "initial")

\* failed items below the retry limit go back to initial
EnqueueFailedItems(q, limit) == SetStatus(q, Retriable(q, limit), "initial")

\* the two updates behind the API's heal request also reset retries and crawled
ResetRunningItems(q) == InsertItems(q, WithStatus(q, "running"))

EnqueueAllFailedItems(q) == InsertItems(q, WithStatus(q, "failed"))

\* one updateOne of a worker's bulkWrite: it overwrites without looking
OverwriteItem(q, i, doc) == [q EXCEPT ![i] = doc]

-----------------------------------------------------------------------------
(* What a worker leaves of an item it has claimed. *)

AllOutcomes == {"completed", "failed", "blocked", "abandoned", "unstored",
                "untouched"}

\* Mutant of Blocked: the attempt is taken back although it was not counted.
BlockedTwice(doc) == [doc EXCEPT !.status = "failed", !.retries = @ - 1]

\* The attempt was counted and is taken back.
Blocked(doc) == [doc EXCEPT !.status = "failed"]

\* Mutant of Unstored: the date the crawl set is left in place.
UnstoredKeepsDate(doc) ==
    [status |-> "initial", crawled |-> TRUE, retries |-> doc.retries + 1]

\* Crawled, but the result could not be stored.
Unstored(doc) ==
    [status |-> "initial", crawled |-> FALSE, retries |-> doc.retries + 1]

\* What CrawlHandler.run and storeInCloud leave of a claimed item.
Result(doc, o) ==
    CASE o = "completed" -> [status |-> "completed", crawled |-> TRUE,
                             retries |-> doc.retries + 1]
      [] o = "failed"    -> [doc EXCEPT !.status = "failed", !.retries = @ + 1]
      [] o = "blocked"   -> Blocked(doc)
      [] o = "abandoned" -> [doc EXCEPT !.status = "initial", !.crawled = FALSE]
      [] o = "unstored"  -> Unstored(doc)
      [] o = "untouched" -> doc

=============================================================================

------------------------------ MODULE LaunchPlan ------------------------------
(***************************************************************************)
(* The arithmetic of a launch: how many workers may run at once, how many  *)
(* a cycle starts, how many items each of them is told to claim.           *)
(*                                                                         *)
(* Speeds are in thousandths of an item per second.  The measurements of a *)
(* task are given by their number and their sum; a speed is a fraction,    *)
(* and what the code computes with floating-point numbers is exact here.   *)
(***************************************************************************)
EXTENDS Integers

WorkerType == {"browser", "http"}

\* avg_items_per_second_worker
Measured == [count : Nat, total : Nat]

MIN_AVG_IPS == 10

HARD_LIMIT_MAX_WORKERS == 500

Speed(num, den) == [num |-> num, den |-> den]

AssumedSpeed(worker) == IF worker = "browser" THEN Speed(200, 1) ELSE Speed(500, 1)

\* The speed of one worker that maxWorkersConcurrentlyRunning reckons with.
WorkerSpeed(m, worker) ==
    CASE m.count = 0 -> AssumedSpeed(worker)
      [] m.count > 0 /\ m.total < MIN_AVG_IPS * m.count -> Speed(MIN_AVG_IPS, 1)
      [] m.count > 0 /\ m.total >= MIN_AVG_IPS * m.count -> Speed(m.total, m.count)

AtLeastOne(n) == IF n <= 1 THEN 1 ELSE n

\* Mutant of WorkersFor: rounded up.
WorkersAbove(rate, s) == AtLeastOne((rate * s.den) \div s.num + 1)

WorkersFor(rate, s) == AtLeastOne((rate * s.den) \div s.num)

MaxWorkersConcurrentlyRunning(rate, m, worker) == WorkersFor(rate, WorkerSpeed(m, worker))

\* limit: max_workers of the task, 0 if there is none.
NumWorkersToLaunch(max, running, limit, initial) ==
    LET free == max - running
        n == IF limit > 0 /\ limit < free THEN limit ELSE free
    IN IF initial <= 0 \/ n > HARD_LIMIT_MAX_WORKERS \/ n < 0 THEN 0 ELSE n

\* The speed that getNumItems reckons with once it has enough measurements.
ItemSpeed(m, worker) == IF m.total = 0 THEN AssumedSpeed(worker) ELSE Speed(m.total, m.count)

\* time is in seconds.
ItemsIn(time, s) == (time * s.num) \div (1000 * s.den)

CrawlingTime(plan) == IF plan.time = 0 THEN 240 ELSE plan.time

EnoughMeasured(m) == m.count >= 7

\* plan: num_items_browser or num_items_http of the configuration,
\* max_crawling_time_lambda, whitelisted_proxies and max_items_per_worker.
GetNumItems(plan, m, worker) ==
    LET n == CASE plan.whitelisted -> IF worker = "browser" THEN 100 ELSE 200
               [] ~plan.whitelisted /\ EnoughMeasured(m) ->
                      ItemsIn(CrawlingTime(plan), ItemSpeed(m, worker))
               [] ~plan.whitelisted /\ ~EnoughMeasured(m) -> plan.items
    IN IF plan.most > 0 /\ plan.most < n THEN plan.most ELSE n

Plan == [items : Nat, time : Nat, whitelisted : BOOLEAN, most : Nat]

-----------------------------------------------------------------------------
(* Reference definitions. *)

\* n is the largest number of workers that together stay within the rate, or one.
KeepsRate(n, rate, s) ==
    /\ n >= 1
    /\ n = 1 \/ n * s.num <= rate * s.den
    /\ (n + 1) * s.num > rate * s.den

\* n is the largest number of items that a worker of this speed crawls in time.
FillsTime(n, time, s) ==
    /\ 1000 * n * s.den <= time * s.num
    /\ time * s.num < 1000 * (n + 1) * s.den

=============================================================================

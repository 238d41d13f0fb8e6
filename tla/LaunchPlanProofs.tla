--------------------------- MODULE LaunchPlanProofs ---------------------------
(***************************************************************************)
(* What the arithmetic of a launch guarantees for every task, and where it *)
(* plans nothing.                                                          *)
(***************************************************************************)
EXTENDS LaunchPlan, TLAPS

LEMMA Quotient ==
    ASSUME NEW a \in Nat, NEW b \in Nat \ {0}
    PROVE  /\ a \div b \in Nat
           /\ (a \div b) * b <= a
           /\ a < (a \div b + 1) * b
OBVIOUS

LEMMA Product ==
    ASSUME NEW a \in Nat, NEW b \in Nat
    PROVE  a * b \in Nat /\ (a > 0 /\ b > 0 => a * b > 0)
OBVIOUS

FractionOfSpeed == [num : Nat \ {0}, den : Nat \ {0}]

\* The speeds that both computations divide by are positive.
LEMMA SpeedsArePositive ==
    ASSUME NEW m \in Measured, NEW worker \in WorkerType
    PROVE  /\ WorkerSpeed(m, worker) \in FractionOfSpeed
           /\ MIN_AVG_IPS * WorkerSpeed(m, worker).den <= WorkerSpeed(m, worker).num
           /\ m.count > 0 => ItemSpeed(m, worker) \in FractionOfSpeed
<1>0. m.count \in Nat /\ m.total \in Nat
  BY DEF Measured
<1>1. CASE m.count = 0
  BY <1>0, <1>1 DEF WorkerSpeed, AssumedSpeed, Speed, FractionOfSpeed, MIN_AVG_IPS
<1>2. CASE m.count > 0
  <2>1. CASE m.total < MIN_AVG_IPS * m.count
    <3>1. WorkerSpeed(m, worker) = [num |-> 10, den |-> 1]
      BY <1>0, <1>2, <2>1 DEF WorkerSpeed, Speed, MIN_AVG_IPS
    <3> QED BY <1>0, <1>2, <3>1 DEF ItemSpeed, AssumedSpeed, Speed, FractionOfSpeed, MIN_AVG_IPS
  <2>2. CASE m.total >= MIN_AVG_IPS * m.count
    <3>1. WorkerSpeed(m, worker) = [num |-> m.total, den |-> m.count]
      BY <1>0, <1>2, <2>2 DEF WorkerSpeed, Speed, MIN_AVG_IPS
    <3> QED BY <1>0, <1>2, <2>2, <3>1
            DEF ItemSpeed, AssumedSpeed, Speed, FractionOfSpeed, MIN_AVG_IPS
  <2> QED BY <1>0, <2>1, <2>2 DEF MIN_AVG_IPS
<1> QED BY <1>0, <1>1, <1>2

LEMMA WorkersForRate ==
    ASSUME NEW rate \in Nat, NEW s \in FractionOfSpeed
    PROVE  /\ WorkersFor(rate, s) \in Nat
           /\ KeepsRate(WorkersFor(rate, s), rate, s)
<1> DEFINE a == rate * s.den
           b == s.num
           q == a \div b
<1>1. a \in Nat /\ b \in Nat \ {0}
  BY Product DEF FractionOfSpeed
<1>2. q \in Nat /\ q * b <= a /\ a < (q + 1) * b
  <2> HIDE DEF a, b
  <2> QED BY <1>1, Quotient
<1>3. WorkersFor(rate, s) = AtLeastOne(q)
  BY DEF WorkersFor
<1> HIDE DEF a, b, q
<1>4. CASE q <= 1
  <2>1. AtLeastOne(q) = 1
    BY <1>4 DEF AtLeastOne
  <2>2. (q + 1) * b <= (1 + 1) * b
    BY <1>1, <1>2, <1>4
  <2>3. a < (1 + 1) * b
    BY <1>1, <1>2, <2>2
  <2> QED BY <1>3, <2>1, <2>3 DEF KeepsRate, a, b
<1>5. CASE q > 1
  <2>1. AtLeastOne(q) = q
    BY <1>2, <1>5 DEF AtLeastOne
  <2> QED BY <1>1, <1>2, <1>3, <1>5, <2>1 DEF KeepsRate, a, b
<1> QED BY <1>2, <1>4, <1>5

\* Together the workers stay within the rate of the task at the speed that was measured,
\* and one more would not, except that one worker may always run
\* (maxWorkersConcurrentlyRunning).
THEOREM WorkersKeepRate ==
    ASSUME NEW rate \in Nat, NEW m \in Measured, NEW worker \in WorkerType
    PROVE  KeepsRate(MaxWorkersConcurrentlyRunning(rate, m, worker), rate,
                     WorkerSpeed(m, worker))
BY SpeedsArePositive, WorkersForRate DEF MaxWorkersConcurrentlyRunning

\* The lower limit of the speed bounds the number of workers: one for each hundredth of
\* an item per second of the rate.
THEOREM WorkersAreBounded ==
    ASSUME NEW rate \in Nat, NEW m \in Measured, NEW worker \in WorkerType
    PROVE  LET n == MaxWorkersConcurrentlyRunning(rate, m, worker)
           IN n \in Nat /\ (n = 1 \/ n * MIN_AVG_IPS <= rate)
<1> DEFINE s == WorkerSpeed(m, worker)
           n == MaxWorkersConcurrentlyRunning(rate, m, worker)
<1>1. /\ s.num \in Nat \ {0} /\ s.den \in Nat \ {0}
      /\ MIN_AVG_IPS * s.den <= s.num /\ s \in FractionOfSpeed
  BY SpeedsArePositive DEF FractionOfSpeed
<1>2. n \in Nat /\ KeepsRate(n, rate, s)
  <2> HIDE DEF s
  <2> QED BY <1>1, WorkersForRate DEF MaxWorkersConcurrentlyRunning, s
<1> HIDE DEF n, s
<1>3. ASSUME n # 1 PROVE n * 10 <= rate
  <2> DEFINE x == s.num
             d == s.den
  <2>1. n * x <= rate * d
    BY <1>2, <1>3 DEF KeepsRate
  <2>2. x \in Nat /\ d \in Nat \ {0} /\ 10 * d <= x
    BY <1>1 DEF MIN_AVG_IPS
  <2> HIDE DEF x, d
  <2>3. n * (10 * d) <= n * x
    BY <1>2, <2>2
  <2>4. (n * 10) * d <= rate * d
    BY <1>2, <2>1, <2>2, <2>3
  <2> QED BY <1>2, <2>2, <2>4
<1> QED BY <1>2, <1>3 DEF n, MIN_AVG_IPS

\* A task whose rate is at most five items per second always gets a worker when it has
\* initial items and none runs, however slow its workers were measured.
THEOREM ModestTasksLaunch ==
    ASSUME NEW rate \in Nat, rate <= MIN_AVG_IPS * HARD_LIMIT_MAX_WORKERS,
           NEW m \in Measured, NEW worker \in WorkerType,
           NEW limit \in Nat, NEW initial \in Nat \ {0}
    PROVE  NumWorkersToLaunch(MaxWorkersConcurrentlyRunning(rate, m, worker), 0, limit,
                              initial) >= 1
<1> DEFINE n == MaxWorkersConcurrentlyRunning(rate, m, worker)
<1>1. n \in Nat /\ (n = 1 \/ n * 10 <= rate)
  BY WorkersAreBounded DEF MIN_AVG_IPS
<1>2. n >= 1
  BY WorkersKeepRate DEF KeepsRate
<1> HIDE DEF n
<1>3. n <= 500
  BY <1>1 DEF MIN_AVG_IPS, HARD_LIMIT_MAX_WORKERS
<1>4. NumWorkersToLaunch(n, 0, limit, initial) >= 1
  BY <1>1, <1>2, <1>3 DEF NumWorkersToLaunch, HARD_LIMIT_MAX_WORKERS
<1> QED BY <1>4 DEF n

\* A faster task may get none: when its workers were measured so slow that more than 500
\* of them would keep its rate, Scheduler.run refuses to start any, and as long as
\* none runs nothing new is measured.
THEOREM FastTasksStall ==
    ASSUME NEW rate \in Nat, NEW m \in Measured, NEW worker \in WorkerType,
           NEW initial \in Nat,
           (HARD_LIMIT_MAX_WORKERS + 1) * WorkerSpeed(m, worker).num
               <= rate * WorkerSpeed(m, worker).den
    PROVE  NumWorkersToLaunch(MaxWorkersConcurrentlyRunning(rate, m, worker), 0, 0,
                              initial) = 0
<1> DEFINE s == WorkerSpeed(m, worker)
           n == MaxWorkersConcurrentlyRunning(rate, m, worker)
<1>1. s \in FractionOfSpeed
  BY SpeedsArePositive
<1>2. n \in Nat /\ KeepsRate(n, rate, s)
  <2> HIDE DEF s
  <2> QED BY <1>1, WorkersForRate DEF MaxWorkersConcurrentlyRunning, s
<1>3. 501 * s.num <= rate * s.den
  BY DEF HARD_LIMIT_MAX_WORKERS
<1> HIDE DEF n, s
<1>4. n > 500
  <2> DEFINE x == s.num
             a == rate * s.den
  <2>1. x \in Nat \ {0} /\ a \in Nat /\ (n + 1) * x > a /\ 501 * x <= a
    BY <1>1, <1>2, <1>3, Product DEF FractionOfSpeed, KeepsRate
  <2> HIDE DEF x, a
  <2>2. SUFFICES ASSUME n + 1 <= 501 PROVE FALSE
    BY <1>2
  <2>3. (n + 1) * x <= 501 * x
    BY <1>2, <2>1, <2>2
  <2> QED BY <1>2, <2>1, <2>3
<1>5. NumWorkersToLaunch(n, 0, 0, initial) = 0
  BY <1>2, <1>4 DEF NumWorkersToLaunch, HARD_LIMIT_MAX_WORKERS
<1> QED BY <1>5 DEF n

LEMMA ItemsInTime ==
    ASSUME NEW time \in Nat, NEW s \in FractionOfSpeed
    PROVE  ItemsIn(time, s) \in Nat /\ FillsTime(ItemsIn(time, s), time, s)
<1> DEFINE a == time * s.num
           b == 1000 * s.den
           q == a \div b
<1>1. a \in Nat /\ b \in Nat \ {0} /\ s.den \in Nat
  BY Product DEF FractionOfSpeed
<1>2. q \in Nat /\ q * b <= a /\ a < (q + 1) * b
  <2> HIDE DEF a, b
  <2> QED BY <1>1, Quotient
<1>3. q * b = 1000 * q * s.den /\ (q + 1) * b = 1000 * (q + 1) * s.den
  <2> DEFINE d == s.den
  <2>1. d \in Nat
    BY <1>1
  <2> HIDE DEF a, d, q
  <2>2. q * (1000 * d) = 1000 * q * d /\ (q + 1) * (1000 * d) = 1000 * (q + 1) * d
    BY <1>2, <2>1
  <2> QED BY <2>2 DEF d
<1>4. ItemsIn(time, s) = q
  BY DEF ItemsIn
<1> HIDE DEF b, q
<1> QED BY <1>2, <1>3, <1>4 DEF FillsTime

\* With enough measurements a worker is told to claim as many items as it crawls in its
\* time, not one more (getNumItems).
THEOREM ItemsFillTime ==
    ASSUME NEW plan \in Plan, ~plan.whitelisted, plan.most = 0,
           NEW m \in Measured, EnoughMeasured(m), NEW worker \in WorkerType
    PROVE  FillsTime(GetNumItems(plan, m, worker), CrawlingTime(plan), ItemSpeed(m, worker))
<1> DEFINE time == CrawlingTime(plan)
           s == ItemSpeed(m, worker)
<1>1. time \in Nat /\ m.count > 0
  BY DEF CrawlingTime, Plan, EnoughMeasured, Measured
<1>2. s \in FractionOfSpeed
  BY <1>1, SpeedsArePositive
<1>3. GetNumItems(plan, m, worker) = ItemsIn(time, s)
  BY DEF GetNumItems
<1> HIDE DEF time, s
<1> QED BY <1>1, <1>2, <1>3, ItemsInTime DEF time, s

\* A task whose workers were measured slower than one item in the time they have tells
\* them to claim none; remoteCrawl answers 400 and never reports.
THEOREM SlowWorkersGetNothing ==
    ASSUME NEW plan \in Plan, ~plan.whitelisted,
           NEW m \in Measured, EnoughMeasured(m), NEW worker \in WorkerType,
           m.total > 0, CrawlingTime(plan) * m.total < 1000 * m.count
    PROVE  GetNumItems(plan, m, worker) = 0
<1> DEFINE a == CrawlingTime(plan) * m.total
           b == 1000 * m.count
           q == a \div b
<1>1. a \in Nat /\ b \in Nat \ {0} /\ a < b /\ plan.most \in Nat
  BY DEF Plan, Measured, EnoughMeasured, CrawlingTime
<1>2. q = 0
  <2> HIDE DEF a, b
  <2> QED BY <1>1, Quotient
<1>3. ItemSpeed(m, worker) = [num |-> m.total, den |-> m.count]
  BY DEF ItemSpeed, Speed, Measured
<1>4. ItemsIn(CrawlingTime(plan), ItemSpeed(m, worker)) = q
  BY <1>3 DEF ItemsIn
<1> HIDE DEF q
<1> QED BY <1>1, <1>2, <1>4 DEF GetNumItems
=============

-------------------------- MODULE CrawlHandlerProofs --------------------------
(***************************************************************************)
(* Theorems about CrawlHandler, for any number of items, proxies, failures *)
(* and configurations.                                                     *)
(***************************************************************************)
EXTENDS CrawlHandler, FiniteSetTheorems, TLAPS

-----------------------------------------------------------------------------
(* The pool. *)

\* Who is touched is the one used last; the order of the others stays.
LEMMA TouchedLast ==
    ASSUME NEW d \in [Proxy -> ProxyDoc], NEW p \in Proxy
    PROVE  /\ Touch(d, p) \in [Proxy -> ProxyDoc]
           /\ \A q \in Proxy : /\ Touch(d, p)[q].status = d[q].status
                               /\ Touch(d, p)[q].fails = d[q].fails
           /\ \A q \in Proxy \ {p} : Touch(d, p)[q].used < Touch(d, p)[p].used
           /\ \A q, r \in Proxy \ {p} : d[q].used < d[r].used
                                            => Touch(d, p)[q].used < Touch(d, p)[r].used
<1> DEFINE Older(q) == {r \in Proxy : r # p /\ (q = p \/ d[r].used < d[q].used)}
           t == Touch(d, p)
<1>1. ASSUME NEW q \in Proxy
      PROVE  IsFiniteSet(Older(q)) /\ Cardinality(Older(q)) \in Nat
  <2>1. Older(q) \in SUBSET Proxy
    OBVIOUS
  <2> QED BY <2>1, FS_Subset, FS_CardinalityType, ProxyPoolAssumption DEF ProxyPoolAssumption
<1>2. ASSUME NEW q \in Proxy
      PROVE  t[q].used = Cardinality(Older(q)) /\ t[q].status = d[q].status
             /\ t[q].fails = d[q].fails /\ t[q] \in ProxyDoc
  <2> DEFINE n == Cardinality(Older(q))
  <2>1. n \in Nat
    BY <1>1
  <2>2. t[q] = [d[q] EXCEPT !.used = n]
    BY DEF Touch
  <2> HIDE DEF n, t
  <2>3. t[q].used = n /\ t[q].status = d[q].status /\ t[q].fails = d[q].fails
        /\ t[q] \in ProxyDoc
    BY <2>1, <2>2 DEF ProxyDoc
  <2> QED BY <2>3 DEF n
<1>3. t \in [Proxy -> ProxyDoc]
  <2>1. t = [q \in Proxy |-> t[q]]
    BY DEF Touch
  <2> QED BY <1>2, <2>1
\* A strict subset of a finite set is smaller.
<1>4. ASSUME NEW q \in Proxy, NEW r \in Proxy, Older(q) \subseteq Older(r),
             NEW x \in Older(r), x \notin Older(q)
      PROVE  t[q].used < t[r].used
  <2>1. /\ Cardinality(Older(q)) <= Cardinality(Older(r))
        /\ Cardinality(Older(r)) = Cardinality(Older(q)) => Older(r) = Older(q)
    BY <1>1, <1>4, FS_Subset
  <2>2. Older(r) # Older(q)
    BY <1>4
  <2>3. Cardinality(Older(q)) \in Nat /\ Cardinality(Older(r)) \in Nat
    BY <1>1
  <2>4. t[q].used = Cardinality(Older(q)) /\ t[r].used = Cardinality(Older(r))
    BY <1>2
  <2> HIDE DEF Older, t
  <2> QED BY <2>1, <2>2, <2>3, <2>4
<1>5. ASSUME NEW q \in Proxy \ {p}
      PROVE  t[q].used < t[p].used
  <2>0. d[q].used \in Nat
    BY DEF ProxyDoc
  <2>1. Older(q) \subseteq Older(p) /\ q \in Older(p) /\ q \notin Older(q)
    BY <1>5, <2>0
  <2> HIDE DEF Older, t
  <2> QED BY <1>4, <2>1
<1>6. ASSUME NEW q \in Proxy \ {p}, NEW r \in Proxy \ {p}, d[q].used < d[r].used
      PROVE  t[q].used < t[r].used
  <2>0. /\ d[q].used \in Nat /\ d[r].used \in Nat
        /\ \A x \in Proxy : d[x].used \in Nat
    BY DEF ProxyDoc
  <2>1. q \in Older(r)
    BY <1>6
  <2>2. q \notin Older(q)
    BY <2>0, <1>6
  <2>3. Older(q) \subseteq Older(r)
    BY <2>0, <1>6
  <2> HIDE DEF Older, t
  <2> QED BY <1>4, <2>1, <2>2, <2>3
<1> QED BY <1>2, <1>3, <1>5, <1>6

\* A step that uses p, or leaves the dates alone.
Uses(d, e, p) ==
    /\ \A q \in Proxy \ {p} : e[q].used < e[p].used
    /\ \A q, r \in Proxy \ {p} : d[q].used < d[r].used => e[q].used < e[r].used

LEMMA UsesTouch ==
    ASSUME NEW d \in [Proxy -> ProxyDoc], NEW p \in Proxy
    PROVE  Uses(d, Touch(d, p), p)
BY TouchedLast DEF Uses

LEMMA UsesCounted ==
    ASSUME NEW d \in [Proxy -> ProxyDoc], NEW p \in Proxy
    PROVE  /\ CountFailedCheck(d, p) \in [Proxy -> ProxyDoc]
           /\ Uses(d, CountFailedCheck(d, p), p)
           /\ \A q \in Proxy : CountFailedCheck(d, p)[q].status = d[q].status
<1> DEFINE t == Touch(d, p)
           e == CountFailedCheck(d, p)
           n == t[p].fails + 1
<1>1. /\ t \in [Proxy -> ProxyDoc] /\ Uses(d, t, p)
      /\ \A q \in Proxy : t[q].status = d[q].status
  BY TouchedLast, UsesTouch
<1>2. e = [t EXCEPT ![p].fails = n]
  BY <1>1 DEF CountFailedCheck
<1> HIDE DEF t, e
<1>3. n \in Nat
  BY <1>1 DEF ProxyDoc
<1> HIDE DEF n
<1>4. /\ e \in [Proxy -> ProxyDoc]
      /\ \A q \in Proxy : e[q].used = t[q].used /\ e[q].status = t[q].status
  BY <1>1, <1>2, <1>3 DEF ProxyDoc
<1>5. Uses(d, e, p)
  BY <1>1, <1>4 DEF Uses
<1> QED BY <1>1, <1>4, <1>5 DEF e

LEMMA UsesMarked ==
    ASSUME NEW d \in [Proxy -> ProxyDoc], NEW p \in Proxy
    PROVE  /\ MarkDamaged(d, p) \in [Proxy -> ProxyDoc]
           /\ Uses(d, MarkDamaged(d, p), p)
           /\ \A q \in Proxy \ {p} : MarkDamaged(d, p)[q].status = d[q].status
           /\ MarkDamaged(d, p)[p].status = "damaged"
<1> DEFINE t == Touch(d, p)
           e == MarkDamaged(d, p)
<1>1. /\ t \in [Proxy -> ProxyDoc] /\ Uses(d, t, p)
      /\ \A q \in Proxy : t[q].status = d[q].status
  BY TouchedLast, UsesTouch
<1>2. e = [t EXCEPT ![p].status = "damaged"]
  BY DEF MarkDamaged
<1> HIDE DEF t, e
<1>3. /\ e \in [Proxy -> ProxyDoc] /\ e[p].status = "damaged"
      /\ \A q \in Proxy : e[q].used = t[q].used
      /\ \A q \in Proxy \ {p} : e[q].status = t[q].status
  BY <1>1, <1>2 DEF ProxyDoc, ProxyStatus
<1>4. Uses(d, e, p)
  BY <1>1, <1>3 DEF Uses
<1> QED BY <1>1, <1>3, <1>4 DEF e

\* Whatever is reported, the proxy is the one used last, or it was not there.
LEMMA Reported ==
    ASSUME NEW d \in [Proxy -> ProxyDoc], NEW p \in Proxy,
           NEW reason \in {"blocked", "check_failed", "damaged"}
    PROVE  /\ ReportProxy(d, p, reason) \in [Proxy -> ProxyDoc]
           /\ \A q \in Proxy : /\ ReportProxy(d, p, reason)[q].status = "new"
                                      => d[q].status = "new"
                               /\ d[q].status = "dropped"
                                      => ReportProxy(d, p, reason)[q].status = "dropped"
           /\ \/ p \notin Present(d) /\ ReportProxy(d, p, reason) = d
              \/ p \in Present(d) /\ Uses(d, ReportProxy(d, p, reason), p)
<1> DEFINE e == ReportProxy(d, p, reason)
<1>1. CASE p \notin Present(d)
  <2>1. e = d
    BY <1>1 DEF ReportProxy
  <2> QED BY <1>1, <2>1
<1>2. CASE p \in Present(d) /\ reason = "blocked"
  <2>1. e = Touch(d, p)
    BY <1>2 DEF ReportProxy
  <2> HIDE DEF e
  <2> QED BY <1>2, <2>1, TouchedLast, UsesTouch DEF e
<1>3. CASE p \in Present(d) /\ reason = "check_failed"
  <2>1. e = CountFailedCheck(d, p)
    BY <1>3 DEF ReportProxy
  <2> HIDE DEF e
  <2> QED BY <1>3, <2>1, UsesCounted DEF e
<1>4. CASE p \in Present(d) /\ reason = "damaged"
  <2>1. e = MarkDamaged(d, p)
    BY <1>4 DEF ReportProxy
  <2> HIDE DEF e
  <2> QED BY <1>4, <2>1, UsesMarked DEF e, Present
<1> QED BY <1>1, <1>2, <1>3, <1>4

\* An update of the API keeps the order where it leaves the date alone.
LEMMA UpdatedAll ==
    ASSUME NEW d \in [Proxy -> ProxyDoc], NEW S \in SUBSET Present(d),
           NEW u \in ProxyUpdate
    PROVE  /\ UpdateAll(d, S, u) \in [Proxy -> ProxyDoc]
           /\ \A q \in Proxy : /\ "used" \notin u.keys
                                      => UpdateAll(d, S, u)[q].used = d[q].used
                               /\ UpdateAll(d, S, u)[q].status = "new"
                                      => d[q].status = "new"
                               /\ d[q].status = "dropped"
                                      => UpdateAll(d, S, u)[q].status = "dropped"
<1>1. ASSUME NEW q \in Proxy
      PROVE  /\ Overwritten(d[q], u) \in ProxyDoc
             /\ "used" \notin u.keys => Overwritten(d[q], u).used = d[q].used
             /\ Overwritten(d[q], u).status = "new" => d[q].status = "new"
  BY DEF Overwritten, ProxyDoc, ProxyUpdate, ProxyStatus
<1>2. \A q \in S : q \in Proxy /\ d[q].status # "dropped"
  BY DEF Present
<1> QED BY <1>1, <1>2 DEF UpdateAll

LEMMA DroppedAll ==
    ASSUME NEW d \in [Proxy -> ProxyDoc]
    PROVE  /\ DropProxies(d) \in [Proxy -> ProxyDoc]
           /\ \A q \in Proxy : /\ DropProxies(d)[q].used = d[q].used
                               /\ DropProxies(d)[q].status = "new" => d[q].status = "new"
                               /\ d[q].status = "dropped"
                                      => DropProxies(d)[q].status = "dropped"
<1>1. \A q \in Proxy : /\ [d[q] EXCEPT !.status = "dropped"] \in ProxyDoc
                       /\ [d[q] EXCEPT !.status = "dropped"].used = d[q].used
                       /\ [d[q] EXCEPT !.status = "dropped"].status = "dropped"
  BY DEF ProxyDoc, ProxyStatus
<1> QED BY <1>1 DEF DropProxies, Present

-----------------------------------------------------------------------------
(* Types. *)

LEMMA ItemNumbers ==
    /\ NumItems \in Nat \ {0}
    /\ Item = 1 .. NumItems
    /\ \A i \in Item : i \in Nat
BY CrawlHandlerAssumption, ItemQueueAssumption, FS_CardinalityType
   DEF CrawlHandlerAssumption, ItemQueueAssumption, NumItems

CallType == [filter : {"any", "mobile"}, left : 1 .. MaxAttempts,
             then : {"setup", "before", "blocked"}, proxy : Proxy \cup {NoProxy}]

\* What the end of a search for a proxy does with the worker.
LEMMA ReturnStep ==
    ASSUME worker \in WorkerObject, NEW p \in Proxy \cup {NoProxy}, NEW gaveUp \in BOOLEAN,
           NEW then \in {"setup", "before", "blocked"}, Return(p, gaveUp, then)
    PROVE  /\ worker' \in WorkerObject /\ worker'.own = worker.own
           /\ worker'.cleaned = worker.cleaned /\ worker'.proxy \in {worker.proxy, p}
           /\ \/ then = "setup" /\ pc' = "prepare" /\ after' = after
              \/ then = "before" /\ pc' = "restart" /\ after' = after
              \/ then = "blocked" /\ pc' = "debug" /\ after' = after
              \/ then = "blocked" /\ pc' = "setup" /\ after' = "debug"
<1> DEFINE w == IF gaveUp THEN [worker EXCEPT !.status = "no_proxy"] ELSE worker
<1>1. /\ w \in WorkerObject /\ w.own = worker.own /\ w.proxy = worker.proxy
      /\ w.cleaned = worker.cleaned
  BY DEF WorkerObject, Status
<1>2. \/ then = "setup" /\ pc' = "prepare" /\ after' = after
      \/ then = "before" /\ pc' = "restart" /\ after' = after
      \/ then = "blocked" /\ pc' = "debug" /\ after' = after
      \/ then = "blocked" /\ pc' = "setup" /\ after' = "debug"
  BY DEF Return, Goto
<1>3. \/ worker' = [w EXCEPT !.proxy = p]
      \/ worker' = [w EXCEPT !.proxy = p, !.restart = TRUE]
      \/ worker' = w
  BY DEF Return
<1> HIDE DEF w
<1>4. /\ worker' \in WorkerObject /\ worker'.own = worker.own
      /\ worker'.cleaned = worker.cleaned /\ worker'.proxy \in {worker.proxy, p}
  BY <1>1, <1>3 DEF WorkerObject
<1> QED BY <1>2, <1>4

\* A search either starts or is over at once.
LEMMA AskStep ==
    ASSUME worker \in WorkerObject, NEW then \in {"setup", "before", "blocked"},
           NEW reason \in {"none", "blocked"}, AskForProxy(reason, then)
    PROVE  /\ call' \in CallType /\ call'.then = then /\ call'.proxy = NoProxy
           /\ worker' \in WorkerObject /\ worker'.own = worker.own
           /\ worker'.cleaned = worker.cleaned /\ worker'.proxy \in {worker.proxy, NoProxy}
           /\ \/ pc' = "report" /\ worker.proxy # NoProxy /\ worker' = worker /\ after' = after
              \/ pc' = "obtain" /\ worker' = worker /\ after' = after
              \/ then = "setup" /\ pc' = "prepare" /\ after' = after
              \/ then = "before" /\ pc' = "restart" /\ after' = after
              \/ then = "blocked" /\ pc' = "debug" /\ after' = after
              \/ then = "blocked" /\ pc' = "setup" /\ after' = "debug"
<1> DEFINE f == IF reason = "blocked" THEN "any" ELSE Filter
<1>1. call' \in CallType /\ call'.then = then /\ call'.proxy = NoProxy
  <2>1. f \in {"any", "mobile"}
    BY DEF Filter
  <2>2. MaxAttempts \in 1 .. MaxAttempts
    BY CrawlHandlerAssumption DEF CrawlHandlerAssumption
  <2>3. call' = [filter |-> f, left |-> MaxAttempts, then |-> then, proxy |-> NoProxy]
    BY DEF AskForProxy, NoCall
  <2> HIDE DEF f
  <2> QED BY <2>1, <2>2, <2>3 DEF CallType
<1>2. \/ Return(NoProxy, FALSE, then)
      \/ pc' = "report" /\ worker.proxy # NoProxy /\ worker' = worker /\ after' = after
      \/ pc' = "obtain" /\ worker' = worker /\ after' = after
  BY DEF AskForProxy, ObtainUnlessRotating, Goto
<1>3. CASE Return(NoProxy, FALSE, then)
  <2>1. NoProxy \in Proxy \cup {NoProxy} /\ FALSE \in BOOLEAN
    OBVIOUS
  <2> QED BY <1>1, <1>3, <2>1, ReturnStep
<1> QED BY <1>1, <1>2, <1>3

\* In between, the loop is at an item.
AtAnItem == pc \in {"next", "finish", "final", "end"} \/ at <= NumItems

\* A browser the worker knows of runs.
OwnRuns == worker.own => browsers > 0

\* A proxy that is checked is one.
ChecksOne == pc \in {"check", "deprecate"} => call.proxy \in Proxy

TypeInv == TypeOK /\ AtAnItem /\ OwnRuns /\ ChecksOne

Searching == pc \in {"report", "obtain", "check", "deprecate"}

LEMMA TypeInit == Init => TypeInv
<1> SUFFICES ASSUME Init PROVE TypeInv
  OBVIOUS
<1>1. pool \in [Proxy -> ProxyDoc]
  <2>1. NewProxy \in ProxyDoc /\ [NewProxy EXCEPT !.status = "functional"] \in ProxyDoc
    BY DEF NewProxy, ProxyDoc, ProxyStatus
  <2> QED BY <2>1 DEF Init
<1>2. call \in CallType
  <2>1. 1 \in 1 .. MaxAttempts
    BY CrawlHandlerAssumption DEF CrawlHandlerAssumption
  <2> QED BY <2>1 DEF Init, NoCall, CallType
<1>3. item \in [Item -> QueueDoc] /\ at \in 1 .. NumItems + 1 /\ at <= NumItems
  BY ItemNumbers DEF Init, Claimed, QueueDoc, QueueItemStatus
<1>4. worker \in WorkerObject
  BY DEF Init, WorkerObject, Status
<1> QED BY <1>1, <1>2, <1>3, <1>4 DEF Init, TypeInv, TypeOK, AtAnItem, OwnRuns, ChecksOne, CallType

\* What a call of cleanup() does with the browser: nothing, if there is nothing to
\* clean; it fails to close it; it closes it; or there is none.
LEMMA CleanupStep ==
    ASSUME worker \in WorkerObject, browsers \in Nat, unclosed \in Nat, faults \in Nat,
           Cleanup \/ CleanupThrows, OwnRuns
    PROVE  /\ worker' \in WorkerObject /\ browsers' \in Nat /\ unclosed' \in Nat
           /\ faults' \in Nat /\ worker'.proxy = worker.proxy
           /\ \/ UNCHANGED <<worker, browsers, unclosed>> /\ ~MustClean
              \/ /\ browsers' = browsers /\ worker'.own = worker.own
                 /\ unclosed' = unclosed + 1
              \/ /\ browsers' = browsers - 1 /\ worker.own /\ ~worker'.own
                 /\ unclosed' = unclosed
              \/ /\ browsers' = browsers /\ ~worker.own /\ worker'.own = worker.own
                 /\ unclosed' = unclosed
<1> DEFINE w1(b) == [worker EXCEPT !.own = FALSE, !.page = FALSE, !.cleaned = b]
           w2(b) == [worker EXCEPT !.page = FALSE, !.cleaned = b]
           Still == UNCHANGED <<worker, browsers, unclosed>> /\ ~MustClean
           Relay == UNCHANGED <<worker, browsers>> /\ unclosed' = unclosed + 1
<1>1. /\ \/ Still
         \/ \E b \in BOOLEAN : CloseBrowser(b)
         \/ \E b \in BOOLEAN : LeaveBrowser(b)
         \/ Relay
      /\ faults' = faults \/ faults' = faults + 1
  BY Zenon DEF Cleanup, CleanupThrows, Fault
<1>2. ASSUME NEW b \in BOOLEAN
      PROVE  /\ w1(b) \in WorkerObject /\ w1(b).own = FALSE /\ w1(b).proxy = worker.proxy
             /\ w2(b) \in WorkerObject /\ w2(b).own = worker.own
             /\ w2(b).proxy = worker.proxy
  BY DEF WorkerObject
<1>3. worker.own \in BOOLEAN /\ faults' \in Nat /\ (worker.own => browsers - 1 \in Nat)
  BY <1>1 DEF WorkerObject, OwnRuns
<1>4. ASSUME NEW b \in BOOLEAN, CloseBrowser(b)
      PROVE  /\ worker' = w1(b) /\ unclosed' = unclosed
             /\ browsers' = IF worker.own THEN browsers - 1 ELSE browsers
  BY <1>4 DEF CloseBrowser, Closed
<1>5. ASSUME NEW b \in BOOLEAN, LeaveBrowser(b)
      PROVE  worker' = w2(b) /\ browsers' = browsers /\ unclosed' = unclosed + 1
  BY <1>5 DEF LeaveBrowser
<1> HIDE DEF w1, w2
<1>6. CASE \E b \in BOOLEAN : CloseBrowser(b)
  <2>1. PICK b \in BOOLEAN : CloseBrowser(b)
    BY <1>6
  <2>2. /\ worker' \in WorkerObject /\ worker'.own = FALSE /\ worker'.proxy = worker.proxy
        /\ unclosed' = unclosed
        /\ browsers' = IF worker.own THEN browsers - 1 ELSE browsers
    BY <1>2, <1>4, <2>1
  <2>3. CASE worker.own
    BY <1>3, <2>2, <2>3
  <2>4. CASE worker.own = FALSE
    BY <1>3, <2>2, <2>4
  <2> QED BY <1>3, <2>3, <2>4
<1>7. CASE \E b \in BOOLEAN : LeaveBrowser(b)
  <2>1. PICK b \in BOOLEAN : LeaveBrowser(b)
    BY <1>7
  <2>2. /\ worker' \in WorkerObject /\ worker'.own = worker.own
        /\ worker'.proxy = worker.proxy /\ browsers' = browsers /\ unclosed' = unclosed + 1
    BY <1>2, <1>5, <2>1
  <2> QED BY <1>3, <2>2
<1>8. CASE Still
  BY <1>3, <1>8
<1>9. CASE Relay
  BY <1>3, <1>9
<1> QED BY <1>1, <1>6, <1>7, <1>8, <1>9

\* The steps of a search for a proxy.
LEMMA ProxiesType == TypeInv /\ Proxies => TypeInv'
<1> SUFFICES ASSUME TypeInv, Proxies PROVE TypeInv'
  OBVIOUS
<1>0. /\ pool \in [Proxy -> ProxyDoc] /\ worker \in WorkerObject /\ call \in CallType
      /\ since \in SUBSET Proxy /\ faults \in Nat
      /\ worker.proxy \in Proxy \cup {NoProxy}
      /\ call.proxy \in Proxy \cup {NoProxy} /\ call.then \in {"setup", "before", "blocked"}
      /\ call.left \in 1 .. MaxAttempts /\ TypeOK /\ OwnRuns /\ AtAnItem /\ ChecksOne
  BY DEF TypeInv, TypeOK, WorkerObject, CallType
<1>a. Searching => at <= NumItems
  BY <1>0 DEF AtAnItem, Searching
\* All of them keep the rest, and return somewhere.
<1>b. ASSUME Searching, pool' \in [Proxy -> ProxyDoc], since' \in SUBSET Proxy,
             faults' \in Nat, call' \in CallType,
             worker' \in WorkerObject, worker'.own = worker.own,
             pc' \in {"report", "obtain", "check", "deprecate", "prepare", "restart",
                      "debug", "setup"},
             pc' \in {"check", "deprecate"} => call'.proxy \in Proxy,
             after' \in {after, "debug"},
             UNCHANGED <<loading, others, config, loopVars, browsers, unclosed, setups,
                         outputVars>>
      PROVE  TypeInv'
  <2>1. TypeOK'
    BY <1>0, <1>b DEF TypeOK, CallType, loopVars, outputVars
  <2>2. AtAnItem' /\ OwnRuns' /\ ChecksOne'
    BY <1>0, <1>a, <1>b DEF AtAnItem, OwnRuns, ChecksOne, loopVars
  <2> QED BY <2>1, <2>2 DEF TypeInv
<1>c. ASSUME NEW p \in Proxy \cup {NoProxy}, NEW g \in BOOLEAN, Return(p, g, call.then)
      PROVE  /\ worker' \in WorkerObject /\ worker'.own = worker.own
             /\ pc' \in {"prepare", "restart", "debug", "setup"}
             /\ after' \in {after, "debug"}
  BY <1>0, <1>c, ReturnStep
<1>d. NoProxy \in Proxy \cup {NoProxy} /\ TRUE \in BOOLEAN /\ FALSE \in BOOLEAN
  OBVIOUS
<1>1. CASE ReportBlocked
  <2>1. /\ Searching /\ worker.proxy \in Proxy \cup {NoProxy}
        /\ UNCHANGED <<loading, others, config, call, loopVars, browsers, unclosed, setups,
                       outputVars>>
    BY <1>0, <1>1 DEF ReportBlocked, At, Searching
  <2>2. faults' \in Nat /\ since' \in SUBSET Proxy
    BY <1>0, <1>1 DEF ReportBlocked, Fault
  <2>3. pool' \in [Proxy -> ProxyDoc]
    <3>1. pool' = pool \/ pool' = ReportProxy(pool, worker.proxy, "blocked")
      BY <1>1 DEF ReportBlocked
    <3>2. CASE worker.proxy \in Proxy
      BY <1>0, <3>1, <3>2, Reported
    <3>3. CASE worker.proxy \notin Proxy
      BY <1>0, <3>1, <3>3 DEF ReportProxy, Present
    <3> QED BY <3>2, <3>3
  <2>4. \/ Return(NoProxy, FALSE, call.then)
        \/ pc' = "obtain" /\ UNCHANGED <<worker, after>>
    BY <1>1 DEF ReportBlocked, ObtainUnlessRotating, Goto
  <2>5. /\ worker' \in WorkerObject /\ worker'.own = worker.own
        /\ pc' \in {"obtain", "prepare", "restart", "debug", "setup"}
        /\ after' \in {after, "debug"}
    BY <1>0, <1>c, <1>d, <2>4
  <2> QED BY <1>0, <1>b, <2>1, <2>2, <2>3, <2>5
<1>2. ASSUME NEW p \in Proxy, GetProxy(p) PROVE TypeInv'
  <2>1. /\ Searching /\ pc' = "check" /\ since' \in SUBSET Proxy
        /\ pool' = Touch(pool, p)
        /\ call' = [call EXCEPT !.proxy = p]
        /\ UNCHANGED <<loading, others, config, after, loopVars, worker, browsers, unclosed,
                       setups, outputVars, faults>>
    BY <1>0, <1>2 DEF GetProxy, At, Searching, Goto, Obtain, browserVars
  <2>2. pool' \in [Proxy -> ProxyDoc] /\ call' \in CallType /\ call'.proxy \in Proxy
    BY <1>0, <2>1, TouchedLast DEF CallType
  <2> QED BY <1>0, <1>b, <2>1, <2>2
<1>3. CASE GetNoProxy
  <2>1. /\ Searching /\ Return(NoProxy, TRUE, call.then)
        /\ UNCHANGED <<pool, since, loading, others, config, call, loopVars, browsers,
                       unclosed, setups, outputVars>>
    BY <1>3 DEF GetNoProxy, At, Searching, poolVars
  <2>2. faults' \in Nat
    BY <1>0, <1>3 DEF GetNoProxy, Fault
  <2> QED BY <1>0, <1>b, <1>c, <1>d, <2>1, <2>2
<1>4. CASE CheckProxy
  <2>1. /\ Searching /\ call.proxy \in Proxy
        /\ \/ Return(call.proxy, FALSE, call.then)
           \/ pc' = "deprecate" /\ UNCHANGED <<worker, after>>
        /\ UNCHANGED <<pool, since, loading, others, config, call, loopVars, browsers,
                       unclosed, setups, outputVars>>
    BY <1>0, <1>4 DEF CheckProxy, At, Searching, poolVars, Goto, ChecksOne
  <2>2. faults' \in Nat
    <3>1. faults' = faults \/ Fault
      BY <1>4, Zenon DEF CheckProxy
    <3> QED BY <1>0, <3>1 DEF Fault
  <2> QED BY <1>0, <1>b, <1>c, <1>d, <2>1, <2>2
<1>5. CASE CheckFailed
  <2>1. /\ Searching /\ faults' \in Nat
        /\ UNCHANGED <<loading, others, config, loopVars, browsers, unclosed, setups,
                         outputVars>>
    BY <1>0, <1>5 DEF CheckFailed, At, Searching, Fault
  <2>2. /\ \/ Return(NoProxy, TRUE, call.then)
           \/ pc' = "obtain" /\ UNCHANGED <<worker, after>>
        /\ call' \in CallType
    <3>1. CASE call' = call /\ Return(NoProxy, TRUE, call.then)
      BY <1>0, <3>1
    <3>2. CASE ~LastAttempt /\ call' = [call EXCEPT !.left = call.left - 1]
               /\ pc' = "obtain" /\ UNCHANGED <<worker, after>>
      <4> DEFINE n == call.left - 1
      <4>1. n \in 1 .. MaxAttempts
        BY <1>0, <3>2, CrawlHandlerAssumption DEF LastAttempt, CrawlHandlerAssumption
      <4>2. call' = [call EXCEPT !.left = n]
        BY <3>2
      <4> HIDE DEF n
      <4> QED BY <1>0, <3>2, <4>1, <4>2 DEF CallType
    <3> QED BY <1>5, <3>1, <3>2 DEF CheckFailed, Goto
  <2>3. pool' \in [Proxy -> ProxyDoc] /\ since' \in SUBSET Proxy
    <3>1. \/ pool' = pool /\ since' = since
          \/ /\ pool' = ReportProxy(pool, call.proxy, "check_failed")
             /\ since' = since \cup {call.proxy}
      BY <1>5 DEF CheckFailed
    <3>2. call.proxy \in Proxy
      BY <1>0, <1>5 DEF CheckFailed, At, ChecksOne
    <3> QED BY <1>0, <3>1, <3>2, Reported
  <2> QED BY <1>0, <1>b, <1>c, <1>d, <2>1, <2>2, <2>3
<1> QED BY <1>1, <1>2, <1>3, <1>4, <1>5 DEF Proxies

LEMMA SettingUpType == TypeInv /\ SettingUp => TypeInv'
<1> SUFFICES ASSUME TypeInv, SettingUp PROVE TypeInv'
  OBVIOUS
<1>0. /\ worker \in WorkerObject /\ call \in CallType /\ faults \in Nat /\ browsers \in Nat
      /\ unclosed \in Nat /\ setups \in Nat /\ TypeOK /\ OwnRuns /\ AtAnItem
      /\ after \in {"next", "crawl", "debug"}
      /\ ended \in {"no", "setup", "exception", "normally", "rejected"}
  BY DEF TypeInv, TypeOK, CallType
<1>a. pc \in {"setup", "prepare", "setup_page", "setup_failed"} => at <= NumItems
  BY <1>0 DEF AtAnItem
<1>b. ASSUME pc \in {"setup", "prepare", "setup_page", "setup_failed"},
             worker' \in WorkerObject, browsers' \in Nat, unclosed' \in Nat, OwnRuns',
             call' \in CallType, setups' \in Nat, faults' \in Nat,
             after' \in {"next", "crawl", "debug"},
             ended' \in {"no", "setup", "exception", "normally", "rejected"},
             pc' \in {"setup", "report", "obtain", "prepare", "restart", "setup_page",
                      "setup_failed", "next", "crawl", "debug", "final"},
             UNCHANGED <<poolVars, config, loopVars, filed, stored>>
      PROVE  TypeInv'
  <2>1. TypeOK'
    BY <1>0, <1>b DEF TypeOK, CallType, poolVars, loopVars
  <2>2. AtAnItem' /\ ChecksOne'
    BY <1>0, <1>a, <1>b DEF AtAnItem, ChecksOne, loopVars
  <2> QED BY <1>b, <2>1, <2>2 DEF TypeInv
<1>c. ASSUME NEW b \in BOOLEAN, SetupReturns(b)
      PROVE  /\ pc' \in {"next", "crawl", "debug", "final"}
             /\ ended' \in {ended, "setup"}
  BY <1>0, <1>c DEF SetupReturns, Goto
<1>1. CASE Setup
  <2>1. /\ pc = "setup" /\ setups' = setups + 1
        /\ UNCHANGED <<poolVars, config, loopVars, browsers, unclosed, filed, stored>>
    BY <1>1 DEF Setup, At
  <2>2. CASE pc' \in {"prepare", "final"} /\ UNCHANGED <<after, call>>
             /\ worker' \in {worker, [worker EXCEPT !.relay = TRUE]}
             /\ (faults' = faults \/ Fault) /\ ended' \in {ended, "exception"}
    <3>0. faults' \in Nat
      BY <1>0, <2>2 DEF Fault
    <3>1. worker' \in WorkerObject /\ worker'.own = worker.own
      BY <1>0, <2>2 DEF WorkerObject
    <3>2. OwnRuns' /\ faults' \in Nat
      BY <1>0, <2>1, <3>0, <3>1 DEF OwnRuns
    <3> QED BY <1>0, <1>b, <2>1, <2>2, <3>1, <3>2
  <2>3. CASE AskForProxy("none", "setup") /\ UNCHANGED <<faults, ended>>
    <3>1. /\ call' \in CallType /\ worker' \in WorkerObject /\ worker'.own = worker.own
          /\ pc' \in {"report", "obtain", "prepare"} /\ after' = after
      BY <1>0, <2>3, AskStep
    <3>2. OwnRuns'
      BY <1>0, <2>1, <3>1 DEF OwnRuns
    <3> QED BY <1>0, <1>b, <2>1, <2>3, <3>1, <3>2
  <2> QED BY <1>1, <2>2, <2>3 DEF Setup, Goto, Throw
<1>2. CASE SetupHttp
  <2>1. /\ pc = "prepare"
        /\ UNCHANGED <<poolVars, config, after, call, loopVars, worker, browsers, unclosed,
                       setups, filed, stored>>
    BY <1>2 DEF SetupHttp, At, browserVars
  <2>2. \/ SetupReturns(TRUE) /\ faults' = faults
        \/ Fault /\ pc' = "final" /\ ended' = "exception"
    BY <1>2 DEF SetupHttp, Throw
  <2>3. /\ pc' \in {"next", "crawl", "debug", "final"} /\ faults' \in Nat
        /\ ended' \in {ended, "setup", "exception"}
    <3>1. CASE SetupReturns(TRUE) /\ faults' = faults
      BY <1>0, <1>c, <3>1
    <3>2. CASE Fault /\ pc' = "final" /\ ended' = "exception"
      BY <1>0, <3>2 DEF Fault
    <3> QED BY <2>2, <3>1, <3>2
  <2>4. OwnRuns'
    BY <1>0, <2>1 DEF OwnRuns
  <2> QED BY <1>0, <1>b, <2>1, <2>3, <2>4
<1>3. CASE StartBrowser
  <2>1. /\ pc = "prepare"
        /\ UNCHANGED <<poolVars, config, after, call, loopVars, unclosed, setups, filed,
                       stored, ended>>
    BY <1>3 DEF StartBrowser, At, outputVars
  <2>2. \/ /\ browsers' = browsers + 1 /\ worker' = [worker EXCEPT !.own = TRUE]
           /\ pc' = "setup_page" /\ faults' = faults
        \/ /\ Fault /\ pc' = "setup_failed" /\ UNCHANGED <<worker, browsers>>
    BY <1>3 DEF StartBrowser, Goto
  <2>3. /\ worker' \in WorkerObject /\ browsers' \in Nat /\ faults' \in Nat
        /\ OwnRuns' /\ pc' \in {"setup_page", "setup_failed"}
    <3>1. CASE /\ browsers' = browsers + 1 /\ worker' = [worker EXCEPT !.own = TRUE]
               /\ pc' = "setup_page" /\ faults' = faults
      <4>1. browsers + 1 \in Nat /\ browsers + 1 > 0
        BY <1>0
      <4>2. worker' \in WorkerObject
        BY <1>0, <3>1 DEF WorkerObject
      <4> QED BY <1>0, <3>1, <4>1, <4>2 DEF OwnRuns
    <3>2. CASE Fault /\ pc' = "setup_failed" /\ UNCHANGED <<worker, browsers>>
      <4>1. faults' \in Nat
        BY <1>0, <3>2 DEF Fault
      <4> QED BY <1>0, <3>2, <4>1 DEF OwnRuns
    <3> QED BY <2>2, <3>1, <3>2
  <2> QED BY <1>0, <1>b, <2>1, <2>3
<1>4. CASE SetupPage
  <2>1. /\ pc = "setup_page"
        /\ UNCHANGED <<poolVars, config, after, call, loopVars, browsers, unclosed, setups,
                       filed, stored>>
    BY <1>4 DEF SetupPage, At
  <2>2. /\ \E b \in BOOLEAN : worker' = [worker EXCEPT !.page = b]
        /\ \/ SetupReturns(TRUE) /\ faults' = faults
           \/ Fault /\ pc' = "setup_failed" /\ ended' = ended
    BY <1>4 DEF SetupPage, Goto
  <2>3. /\ pc' \in {"next", "crawl", "debug", "final", "setup_failed"} /\ faults' \in Nat
        /\ ended' \in {ended, "setup"}
    <3>1. CASE SetupReturns(TRUE) /\ faults' = faults
      BY <1>0, <1>c, <3>1
    <3>2. CASE Fault /\ pc' = "setup_failed" /\ ended' = ended
      BY <1>0, <3>2 DEF Fault
    <3> QED BY <2>2, <3>1, <3>2
  <2>4. worker' \in WorkerObject /\ worker'.own = worker.own
    BY <1>0, <2>2 DEF WorkerObject
  <2>5. OwnRuns'
    BY <1>0, <2>1, <2>4 DEF OwnRuns
  <2> QED BY <1>0, <1>b, <2>1, <2>3, <2>4, <2>5
<1>5. CASE SetupFailed
  <2>1. /\ pc = "setup_failed" /\ (Cleanup \/ CleanupThrows)
        /\ SetupReturns(FALSE) \/ (pc' = "final" /\ ended' = "exception")
        /\ UNCHANGED <<poolVars, config, after, call, loopVars, setups, filed, stored>>
    BY <1>5 DEF SetupFailed, At, Throw
  <2>2. /\ worker' \in WorkerObject /\ browsers' \in Nat /\ unclosed' \in Nat
        /\ faults' \in Nat
        /\ \/ browsers' = browsers /\ worker'.own = worker.own
           \/ ~worker'.own
    BY <1>0, <2>1, CleanupStep
  <2>3. OwnRuns'
    BY <1>0, <2>2 DEF OwnRuns
  <2>4. /\ pc' \in {"next", "crawl", "debug", "final"}
        /\ ended' \in {ended, "setup", "exception"}
    BY <1>c, <2>1
  <2> QED BY <1>0, <1>b, <2>1, <2>2, <2>3, <2>4
<1> QED BY <1>1, <1>2, <1>3, <1>4, <1>5 DEF SettingUp

\* What a crawl, a failure and a step back leave of a document.
LEMMA DocTypes ==
    ASSUME NEW d \in QueueDoc
    PROVE  /\ [status |-> "completed", crawled |-> TRUE, retries |-> d.retries + 1]
                  \in QueueDoc
           /\ [d EXCEPT !.status = "initial", !.crawled = FALSE] \in QueueDoc
           /\ GivenBack(d) \in QueueDoc
<1> DEFINE n == d.retries + 1
<1>0. d.retries \in Nat
  BY DEF QueueDoc
<1>1. n \in Nat
  BY <1>0
<1> HIDE DEF n
<1>2. [status |-> "completed", crawled |-> TRUE, retries |-> n] \in QueueDoc
  BY <1>1 DEF QueueDoc, QueueItemStatus
<1>3. [d EXCEPT !.status = "initial", !.crawled = FALSE] \in QueueDoc
  BY DEF QueueDoc, QueueItemStatus
<1>4. GivenBack(d) \in QueueDoc
  BY DEF QueueDoc, QueueItemStatus, GivenBack
<1> QED BY <1>2, <1>3, <1>4 DEF n

\* The item that failed: blocked items keep their count.
FailedDoc(d, asks) ==
    [d EXCEPT !.status = "failed", !.retries = IF asks THEN d.retries ELSE d.retries + 1]

LEMMA FailedItem ==
    ASSUME item \in [Item -> QueueDoc], at \in Item,
           NEW why \in {"failed", "blocked", "page_error"}, CrawlFails(why)
    PROVE  \E asks \in BOOLEAN :
               /\ item' = [item EXCEPT ![at] = FailedDoc(item[at], asks)]
               /\ FailedDoc(item[at], asks) \in QueueDoc
               /\ FailedDoc(item[at], asks).status = "failed"
               /\ asks = (why = "blocked" /\ config.via = "pool")
               /\ asks => AskForProxy("blocked", "blocked")
               /\ ~asks => pc' = "debug" /\ UNCHANGED <<worker, after, call>>
<1> DEFINE asks == why = "blocked" /\ config.via = "pool"
           d == item[at]
           n == IF asks THEN d.retries ELSE d.retries + 1
           e == FailedDoc(d, asks)
<1>0. d \in QueueDoc /\ d.retries \in Nat
  BY DEF QueueDoc
<1>1. n \in Nat
  BY <1>0
<1>2. e = [[d EXCEPT !.status = "failed"] EXCEPT !.retries = n]
  BY <1>0 DEF FailedDoc, QueueDoc
<1>3. e \in QueueDoc /\ e.status = "failed"
  <2> HIDE DEF n, e
  <2> QED BY <1>0, <1>1, <1>2 DEF QueueDoc, QueueItemStatus
<1>4. item' = [item EXCEPT ![at] = e]
  <2>1. item' = [item EXCEPT ![at].status = "failed", ![at].retries = n]
    BY <1>0 DEF CrawlFails, QueueDoc
  <2> DEFINE f == [item EXCEPT ![at].status = "failed"]
  <2>2. f \in [Item -> QueueDoc] /\ f[at] = [d EXCEPT !.status = "failed"]
    BY <1>0 DEF QueueDoc, QueueItemStatus
  <2>3. item' = [f EXCEPT ![at].retries = n]
    BY <2>1
  <2>4. item' = [f EXCEPT ![at] = e]
    <3> HIDE DEF f, n, e
    <3> QED BY <1>2, <2>2, <2>3
  <2> HIDE DEF e
  <2> QED BY <2>4
<1>5. /\ asks => AskForProxy("blocked", "blocked")
      /\ ~asks => pc' = "debug" /\ UNCHANGED <<worker, after, call>>
  BY DEF CrawlFails, Goto
<1> QED BY <1>3, <1>4, <1>5

LEMMA LoopType == TypeInv /\ Loop => TypeInv'
<1> SUFFICES ASSUME TypeInv, Loop PROVE TypeInv'
  OBVIOUS
<1>0. /\ worker \in WorkerObject /\ call \in CallType /\ item \in [Item -> QueueDoc]
      /\ result \in [Item -> {"undefined", "value", "nothing", "error"}]
      /\ after \in {"next", "crawl", "debug"} /\ at \in 1 .. NumItems + 1
      /\ failure \in {"none", "failed", "blocked", "page_error"}
      /\ ended \in {"no", "setup", "exception", "normally", "rejected"}
      /\ filed \in BOOLEAN /\ TypeOK /\ OwnRuns /\ AtAnItem
  BY DEF TypeInv, TypeOK, CallType
<1>n. NumItems \in Nat /\ Item = 1 .. NumItems /\ at \in Nat
  BY <1>0, ItemNumbers
<1>a. pc \in {"renew", "restart", "crawl", "debug"} => at \in Item /\ at + 1 \in 1 .. NumItems + 1
  BY <1>0, <1>n DEF AtAnItem
<1>b. ASSUME worker' \in WorkerObject, worker'.own = worker.own,
             call' \in CallType, after' \in {"next", "crawl", "debug"},
             at' \in 1 .. NumItems + 1, item' \in [Item -> QueueDoc],
             result' \in [Item -> {"undefined", "value", "nothing", "error"}],
             failure' \in {"none", "failed", "blocked", "page_error"},
             filed' \in BOOLEAN,
             ended' \in {"no", "setup", "exception", "normally", "rejected"},
             pc' \in {"setup", "report", "obtain", "prepare", "next", "renew", "restart",
                      "crawl", "debug", "finish", "final"},
             at' <= NumItems \/ pc' \in {"next", "finish", "final"},
             UNCHANGED <<poolVars, config, browsers, unclosed, setups, stored, faults>>
      PROVE  TypeInv'
  <2>1. TypeOK'
    BY <1>0, <1>b DEF TypeOK, CallType, poolVars
  <2>2. AtAnItem' /\ ChecksOne' /\ OwnRuns'
    BY <1>0, <1>b DEF AtAnItem, ChecksOne, OwnRuns
  <2> QED BY <2>1, <2>2 DEF TypeInv
<1>1. CASE NextItem
  <2>1. /\ UNCHANGED <<poolVars, config, after, call, at, item, result, failure, browsers,
                       unclosed, setups, filed, stored, ended, faults>>
        /\ \/ at > NumItems /\ pc' = "finish"
           \/ at <= NumItems /\ pc' \in {"crawl", "renew"}
    BY <1>1 DEF NextItem, Goto, loopVars, outputVars
  <2>2. \/ worker' = worker
        \/ worker' = [worker EXCEPT !.restart = FALSE, !.status = "no_time"]
        \/ worker' = [worker EXCEPT !.restart = config.restart]
    BY <1>1 DEF NextItem
  <2>3. config.restart \in BOOLEAN
    BY <1>0, CrawlHandlerAssumption DEF TypeOK, CrawlHandlerAssumption, Config
  <2>4. worker' \in WorkerObject /\ worker'.own = worker.own
    BY <1>0, <2>2, <2>3 DEF WorkerObject, Status
  <2> QED BY <1>0, <1>b, <2>1, <2>4
<1>2. CASE RenewProxy
  <2>1. /\ pc = "renew"
        /\ UNCHANGED <<poolVars, config, at, item, result, failure, browsers, unclosed, setups,
                       filed, stored, ended, faults>>
        /\ \/ AskForProxy("none", "before")
           \/ pc' = "restart" /\ UNCHANGED <<worker, after, call>>
    BY <1>2 DEF RenewProxy, At, Goto, loopVars, outputVars
  <2>2. /\ call' \in CallType /\ worker' \in WorkerObject /\ worker'.own = worker.own
        /\ pc' \in {"report", "obtain", "restart"} /\ after' = after
    BY <1>0, <2>1, AskStep
  <2> QED BY <1>0, <1>a, <1>b, <1>n, <2>1, <2>2
<1>3. CASE Restart
  <2>1. /\ pc = "restart"
        /\ UNCHANGED <<poolVars, config, call, at, item, result, failure, worker, browsers,
                       unclosed, setups, filed, stored, ended, faults>>
        /\ pc' \in {"setup", "crawl"} /\ after' \in {after, "crawl"}
    BY <1>3 DEF Restart, At, Goto, loopVars, browserVars, outputVars
  <2> QED BY <1>0, <1>a, <1>b, <1>n, <2>1
<1>4. CASE Abort
  <2>1. /\ pc = "crawl" /\ pc' = "finish"
        /\ UNCHANGED <<poolVars, config, after, call, at, result, failure, worker, browsers,
                       unclosed, setups, filed, stored, ended, faults>>
    BY <1>4 DEF Abort, At, Goto, browserVars, outputVars
  <2>2. item' \in [Item -> QueueDoc]
    <3>1. \A i \in Item : [item[i] EXCEPT !.status = "initial", !.crawled = FALSE] \in QueueDoc
      BY <1>0, DocTypes
    <3>2. item' = [i \in Item |-> IF i \in Remaining
                                  THEN [item[i] EXCEPT !.status = "initial", !.crawled = FALSE]
                                  ELSE item[i]]
      BY <1>4 DEF Abort
    <3> QED BY <1>0, <3>1, <3>2
  <2> QED BY <1>0, <1>b, <2>1, <2>2
<1>5. ASSUME NEW value \in {"value", "nothing"}, Crawl(value) PROVE TypeInv'
  <2>1. /\ pc = "crawl" /\ pc' = "next" /\ at' = at + 1
        /\ result' = [result EXCEPT ![at] = value]
        /\ UNCHANGED <<poolVars, config, after, call, failure, worker, browsers,
                       unclosed, setups, filed, stored, ended, faults>>
    BY <1>5 DEF Crawl, Crawling, At, Goto, browserVars, outputVars
  <2>2. item' \in [Item -> QueueDoc]
    <3> DEFINE doc == [status |-> "completed", crawled |-> TRUE, retries |-> item[at].retries + 1]
    <3>1. item[at] \in QueueDoc
      BY <1>0, <1>a, <2>1
    <3>2. doc \in QueueDoc
      BY <3>1, DocTypes
    <3>3. item' = [item EXCEPT ![at] = doc]
      BY <1>5 DEF Crawl
    <3> HIDE DEF doc
    <3> QED BY <1>0, <3>2, <3>3
  <2>3. result' \in [Item -> {"undefined", "value", "nothing", "error"}]
    BY <1>0, <2>1
  <2> QED BY <1>0, <1>a, <1>b, <2>1, <2>2, <2>3
<1>6. ASSUME NEW why \in {"failed", "blocked", "page_error"}, CrawlFails(why) PROVE TypeInv'
  <2>1. /\ pc = "crawl" /\ failure' = why /\ result' = [result EXCEPT ![at] = "error"]
        /\ UNCHANGED <<poolVars, config, at, browsers, unclosed, setups, filed, stored,
                       ended, faults>>
    BY <1>6 DEF CrawlFails, Crawling, At, outputVars
  <2>2. at \in Item
    BY <1>a, <2>1
  <2>3. PICK asks \in BOOLEAN :
               /\ item' = [item EXCEPT ![at] = FailedDoc(item[at], asks)]
               /\ FailedDoc(item[at], asks) \in QueueDoc
               /\ asks => AskForProxy("blocked", "blocked")
               /\ ~asks => pc' = "debug" /\ UNCHANGED <<worker, after, call>>
    BY <1>0, <1>6, <2>2, FailedItem
  <2>4. /\ item' \in [Item -> QueueDoc]
        /\ result' \in [Item -> {"undefined", "value", "nothing", "error"}]
    BY <1>0, <2>1, <2>3
  <2>5. /\ call' \in CallType /\ worker' \in WorkerObject /\ worker'.own = worker.own
        /\ pc' \in {"report", "obtain", "debug", "setup"} /\ after' \in {after, "debug"}
    BY <1>0, <2>3, AskStep
  <2> QED BY <1>0, <1>b, <1>n, <2>1, <2>2, <2>4, <2>5
<1>7. CASE AfterFailure
  <2>1. /\ pc = "debug" /\ failure' = "none"
        /\ UNCHANGED <<poolVars, config, after, call, item, result, browsers, unclosed, setups, filed,
                       stored, faults>>
        /\ \/ pc' = "final" /\ ended' = "exception" /\ UNCHANGED <<worker, at>>
           \/ /\ pc' = "next" /\ at' = at + 1 /\ ended' = ended
              /\ \/ worker' = worker
                 \/ worker' = [worker EXCEPT !.status = "page_error"]
    BY <1>7 DEF AfterFailure, At, Goto, Throw, FollowingItem
  <2>2. worker' \in WorkerObject /\ worker'.own = worker.own
    BY <1>0, <2>1 DEF WorkerObject, Status
  <2>3. at' \in 1 .. NumItems + 1
    BY <1>0, <1>a, <2>1
  <2> QED BY <1>0, <1>b, <2>1, <2>2, <2>3
<1>8. CASE Finish
  <2>1. /\ pc' = "final" /\ filed' = TRUE /\ ended' = "normally"
        /\ UNCHANGED <<poolVars, config, after, call, at, item, result, failure, worker,
                       browsers, unclosed, setups, stored, faults>>
    BY <1>8 DEF Finish, Goto, loopVars, browserVars
  <2> QED BY <1>0, <1>b, <2>1
<1> QED BY <1>1, <1>2, <1>3, <1>4, <1>5, <1>6, <1>7, <1>8 DEF Loop

LEMMA EndingType == TypeInv /\ Ending => TypeInv'
<1> SUFFICES ASSUME TypeInv, Ending PROVE TypeInv'
  OBVIOUS
<1>0. /\ worker \in WorkerObject /\ browsers \in Nat /\ faults \in Nat
      /\ unclosed \in Nat
      /\ item \in [Item -> QueueDoc] /\ at \in 1 .. NumItems + 1
      /\ filed \in BOOLEAN /\ stored \in SUBSET Item
      /\ ended \in {"no", "setup", "exception", "normally", "rejected"}
      /\ NumItems \in Nat /\ Item = 1 .. NumItems
      /\ TypeOK /\ OwnRuns /\ AtAnItem
  BY ItemNumbers DEF TypeInv, TypeOK
<1>b. ASSUME worker' \in WorkerObject, browsers' \in Nat, unclosed' \in Nat, OwnRuns',
             faults' \in Nat,
             at' \in 1 .. NumItems + 1, item' \in [Item -> QueueDoc],
             stored' \in SUBSET Item, pc' \in {"store", "end"},
             at' <= NumItems \/ pc' = "end",
             ended' \in {"no", "setup", "exception", "normally", "rejected"},
             UNCHANGED <<poolVars, config, after, call, result, failure, setups, filed>>
      PROVE  TypeInv'
  <2>1. TypeOK'
    BY <1>0, <1>b DEF TypeOK, poolVars
  <2>2. AtAnItem' /\ ChecksOne'
    BY <1>b DEF AtAnItem, ChecksOne
  <2> QED BY <1>b, <2>1, <2>2 DEF TypeInv
<1>f. ASSUME faults' = faults \/ Fault PROVE faults' \in Nat
  BY <1>0, <1>f DEF Fault
<1>1. CASE FinalCleanup
  <2>1. /\ Cleanup /\ pc' = "store" /\ at' = 1
        /\ UNCHANGED <<poolVars, config, after, call, item, result, failure, setups,
                       filed, stored, ended>>
    BY <1>1 DEF FinalCleanup, Goto, outputVars
  <2>2. /\ worker' \in WorkerObject /\ browsers' \in Nat /\ unclosed' \in Nat
        /\ faults' \in Nat
        /\ \/ browsers' = browsers /\ worker'.own = worker.own
           \/ ~worker'.own
    BY <1>0, <2>1, CleanupStep
  <2>3. OwnRuns'
    BY <1>0, <2>2 DEF OwnRuns
  <2>4. 1 \in 1 .. NumItems + 1 /\ 1 <= NumItems
    BY <1>0, ItemNumbers
  <2> QED BY <1>0, <1>b, <2>1, <2>2, <2>3, <2>4
<1>2. CASE CleanupFails
  <2>1. /\ CleanupThrows /\ pc' = "end" /\ ended' = "rejected"
        /\ UNCHANGED <<poolVars, config, after, call, at, item, result, failure, setups,
                       filed, stored>>
    BY <1>2 DEF CleanupFails, Goto, loopVars
  <2>2. /\ worker' \in WorkerObject /\ browsers' \in Nat /\ unclosed' \in Nat
        /\ faults' \in Nat
        /\ \/ browsers' = browsers /\ worker'.own = worker.own
           \/ ~worker'.own
    BY <1>0, <2>1, CleanupStep
  <2>3. OwnRuns'
    BY <1>0, <2>2 DEF OwnRuns
  <2> QED BY <1>0, <1>b, <2>1, <2>2, <2>3
<1>3. CASE StoreMerged
  <2>1. /\ pc' = "end"
        /\ UNCHANGED <<poolVars, config, after, call, at, result, failure, worker,
                       browsers, unclosed, setups, filed, ended>>
        /\ \/ stored' = {i \in Item : HasResult(i)} /\ item' = item /\ faults' = faults
           \/ Fault /\ item' = [i \in Item |-> GivenBack(item[i])] /\ stored' = stored
    BY <1>3 DEF StoreMerged, Goto, browserVars
  <2>2. OwnRuns'
    BY <1>0, <2>1 DEF OwnRuns
  <2>3. faults' \in Nat
    BY <1>f, <2>1
  <2>4. \A i \in Item : GivenBack(item[i]) \in QueueDoc
    BY <1>0, DocTypes
  <2>5. item' \in [Item -> QueueDoc] /\ stored' \in SUBSET Item
    BY <1>0, <2>1, <2>4
  <2> QED BY <1>0, <1>b, <2>1, <2>2, <2>3, <2>5
<1>4. CASE StoreItem
  <2>1. /\ pc = "store" /\ at' = at + 1
        /\ pc' = IF at = NumItems THEN "end" ELSE "store"
        /\ UNCHANGED <<poolVars, config, after, call, result, failure, worker,
                       browsers, unclosed, setups, filed, ended>>
        /\ \/ stored' \in {stored, stored \cup {at}} /\ item' = item /\ faults' = faults
           \/ Fault /\ item' = [item EXCEPT ![at] = GivenBack(item[at])] /\ stored' = stored
    BY <1>4 DEF StoreItem, At, Goto, browserVars
  <2>2. OwnRuns'
    BY <1>0, <2>1 DEF OwnRuns
  <2>3. faults' \in Nat
    BY <1>f, <2>1
  <2>4. at \in Item /\ at + 1 \in 1 .. NumItems + 1
        /\ (at + 1 <= NumItems \/ pc' = "end")
    BY <1>0, <2>1 DEF AtAnItem
  <2>5. GivenBack(item[at]) \in QueueDoc
    BY <1>0, <2>4, DocTypes
  <2>6. item' \in [Item -> QueueDoc] /\ stored' \in SUBSET Item
    BY <1>0, <2>1, <2>4, <2>5
  <2> QED BY <1>0, <1>b, <2>1, <2>2, <2>3, <2>4, <2>6
<1> QED BY <1>1, <1>2, <1>3, <1>4 DEF Ending

LEMMA CreatedProxy ==
    ASSUME NEW d \in [Proxy -> ProxyDoc], NEW p \in Proxy
    PROVE  /\ CreateProxy(d, p) \in [Proxy -> ProxyDoc]
           /\ Uses(d, CreateProxy(d, p), p)
           /\ CreateProxy(d, p)[p].status = "functional"
           /\ \A q \in Proxy \ {p} : CreateProxy(d, p)[q].status = d[q].status
<1> DEFINE t == Touch(d, p)
           e == CreateProxy(d, p)
<1>1. /\ t \in [Proxy -> ProxyDoc] /\ Uses(d, t, p)
      /\ \A q \in Proxy : t[q].status = d[q].status
  BY TouchedLast, UsesTouch
<1>2. e = [t EXCEPT ![p].status = "functional"]
  BY DEF CreateProxy
<1> HIDE DEF t, e
<1>3. /\ e \in [Proxy -> ProxyDoc] /\ e[p].status = "functional"
      /\ \A q \in Proxy : e[q].used = t[q].used
      /\ \A q \in Proxy \ {p} : e[q].status = t[q].status
  BY <1>1, <1>2 DEF ProxyDoc, ProxyStatus
<1>4. Uses(d, e, p)
  BY <1>1, <1>3 DEF Uses
<1> QED BY <1>1, <1>3, <1>4 DEF e

LEMMA EnvironmentType == TypeInv /\ Environment => TypeInv'
<1> SUFFICES ASSUME TypeInv, Environment PROVE TypeInv'
  OBVIOUS
<1>0. pool \in [Proxy -> ProxyDoc] /\ since \in SUBSET Proxy /\ others \in Nat
      /\ loading \in BOOLEAN /\ TypeInv
  BY DEF TypeInv, TypeOK
<1>b. ASSUME pool' \in [Proxy -> ProxyDoc], since' \in SUBSET Proxy,
             others' = others \/ Other, loading' \in BOOLEAN, NotTheWorker
      PROVE  TypeInv'
  <2>0. others' \in Nat
    BY <1>0, <1>b DEF Other
  <2>1. TypeOK'
    BY <1>0, <1>b, <2>0
       DEF TypeInv, TypeOK, NotTheWorker, loopVars, browserVars, outputVars
  <2>2. AtAnItem' /\ ChecksOne' /\ OwnRuns'
    BY <1>0, <1>b DEF TypeInv, AtAnItem, ChecksOne, OwnRuns, NotTheWorker, loopVars, browserVars
  <2> QED BY <2>1, <2>2 DEF TypeInv
<1>1. ASSUME NEW p \in Proxy, OtherObtains(p) PROVE TypeInv'
  <2>1. pool' \in [Proxy -> ProxyDoc]
    BY <1>0, <1>1, TouchedLast DEF OtherObtains, Obtain
  <2> QED BY <1>0, <1>1, <1>b, <2>1 DEF OtherObtains
<1>2. ASSUME NEW p \in Proxy, NEW reason \in {"blocked", "check_failed", "damaged"},
             OtherReports(p, reason)
      PROVE  TypeInv'
  <2>1. pool' \in [Proxy -> ProxyDoc]
    BY <1>0, <1>2, Reported DEF OtherReports
  <2> QED BY <1>0, <1>2, <1>b, <2>1 DEF OtherReports
<1>3. ASSUME NEW S \in SUBSET Present(pool), NEW u \in Updates, UpdateProxies(S, u)
      PROVE  TypeInv'
  <2>1. pool' \in [Proxy -> ProxyDoc]
    <3>1. u \in ProxyUpdate
      BY CrawlHandlerAssumption DEF CrawlHandlerAssumption
    <3> QED BY <1>0, <1>3, <3>1, UpdatedAll DEF UpdateProxies
  <2>2. since' \in SUBSET Proxy
    BY <1>0, <1>3 DEF UpdateProxies
  <2> QED BY <1>0, <1>3, <1>b, <2>1, <2>2 DEF UpdateProxies
<1>4. CASE ReloadProxies
  <2>1. pool' \in [Proxy -> ProxyDoc]
    BY <1>0, <1>4, DroppedAll DEF ReloadProxies
  <2> QED BY <1>0, <1>4, <1>b, <2>1 DEF ReloadProxies
<1>5. ASSUME NEW p \in Proxy, LoadProxy(p) PROVE TypeInv'
  <2>1. pool' \in [Proxy -> ProxyDoc]
    BY <1>0, <1>5, CreatedProxy DEF LoadProxy
  <2> QED BY <1>0, <1>5, <1>b, <2>1 DEF LoadProxy
<1> QED BY <1>1, <1>2, <1>3, <1>4, <1>5 DEF Environment

LEMMA TypeNext == TypeInv /\ [Next]_vars => TypeInv'
<1> SUFFICES ASSUME TypeInv, [Next]_vars PROVE TypeInv'
  OBVIOUS
<1>1. CASE UNCHANGED vars
  BY <1>1 DEF TypeInv, TypeOK, AtAnItem, OwnRuns, ChecksOne, vars, poolVars, loopVars,
              browserVars, outputVars
<1>2. CASE NoWorker
  <2>1. /\ pc' = "store" /\ at' = 1 /\ ended' = "exception" /\ Fault
        /\ UNCHANGED <<poolVars, config, after, call, item, result, failure, browserVars,
                       filed, stored>>
    BY <1>2 DEF NoWorker, Goto
  <2>2. TypeOK'
    BY <2>1, ItemNumbers DEF TypeInv, TypeOK, Fault, poolVars, browserVars
  <2> QED BY <2>1, <2>2, ItemNumbers DEF TypeInv, AtAnItem, OwnRuns, ChecksOne, browserVars
<1> QED BY <1>1, <1>2, ProxiesType, SettingUpType, LoopType, EndingType, EnvironmentType
        DEF Next, Step

\* Every variable has its type, in every state of every crawl.
THEOREM TypeCorrect == Spec => []TypeOK
<1>1. TypeInv => TypeOK
  BY DEF TypeInv
<1> QED BY TypeInit, TypeNext, <1>1, PTL DEF Spec

-----------------------------------------------------------------------------
(* Where the steps lead, and what they leave alone. *)

\* A search goes on, or returns to who asked for it.
LEMMA ProxiesFrame ==
    ASSUME TypeInv, Proxies
    PROVE  /\ Searching
           /\ UNCHANGED <<loading, others, config, loopVars, browsers, unclosed, setups,
                         outputVars>>
           /\ call'.then = call.then
           /\ worker'.own = worker.own /\ worker'.cleaned = worker.cleaned
           /\ \/ Searching' /\ after' = after
              \/ call.then = "setup" /\ pc' = "prepare" /\ after' = after
              \/ call.then = "before" /\ pc' = "restart" /\ after' = after
              \/ call.then = "blocked" /\ pc' = "debug" /\ after' = after
              \/ call.then = "blocked" /\ pc' = "setup" /\ after' = "debug"
           /\ pc' # "report"
<1>0. /\ worker \in WorkerObject /\ call \in CallType /\ call.proxy \in Proxy \cup {NoProxy}
      /\ call.then \in {"setup", "before", "blocked"}
  BY DEF TypeInv, TypeOK, CallType
<1>1. /\ Searching
      /\ UNCHANGED <<loading, others, config, loopVars, browsers, unclosed, setups,
                         outputVars>>
  BY DEF Proxies, ReportBlocked, GetProxy, GetNoProxy, CheckProxy, CheckFailed, At, Searching,
         poolVars, browserVars
<1>2. call'.then = call.then
  <2>1. \/ call' = call
        \/ \E p \in Proxy : call' = [call EXCEPT !.proxy = p]
        \/ call' = [call EXCEPT !.left = call.left - 1]
    BY DEF Proxies, ReportBlocked, GetProxy, GetNoProxy, CheckProxy, CheckFailed
  <2> QED BY <1>0, <2>1 DEF CallType
<1>3. \/ \E p \in Proxy \cup {NoProxy}, g \in BOOLEAN : Return(p, g, call.then)
      \/ pc' \in {"obtain", "check", "deprecate"} /\ UNCHANGED <<worker, after>>
  BY <1>0 DEF Proxies, ReportBlocked, GetProxy, GetNoProxy, CheckProxy, CheckFailed,
              ObtainUnlessRotating, Goto, browserVars
<1>4. CASE pc' \in {"obtain", "check", "deprecate"} /\ UNCHANGED <<worker, after>>
  BY <1>1, <1>2, <1>4 DEF Searching
<1>5. ASSUME NEW p \in Proxy \cup {NoProxy}, NEW g \in BOOLEAN, Return(p, g, call.then)
      PROVE  /\ worker'.own = worker.own /\ worker'.cleaned = worker.cleaned
             /\ \/ call.then = "setup" /\ pc' = "prepare" /\ after' = after
                \/ call.then = "before" /\ pc' = "restart" /\ after' = after
                \/ call.then = "blocked" /\ pc' = "debug" /\ after' = after
                \/ call.then = "blocked" /\ pc' = "setup" /\ after' = "debug"
  BY <1>0, <1>5, ReturnStep
<1> QED BY <1>1, <1>2, <1>3, <1>4, <1>5

\* setup() ends where it was called from, or ends the crawl.
LEMMA SettingUpFrame ==
    ASSUME TypeInv, SettingUp
    PROVE  /\ pc \in {"setup", "prepare", "setup_page", "setup_failed"}
           /\ UNCHANGED <<poolVars, config, loopVars, filed, stored, after>>
           /\ ended' \in {ended, "setup", "exception"}
           /\ \/ pc' \in {"prepare", "setup_page", "setup_failed"}
              \/ Searching' /\ call'.then = "setup"
              \/ pc' = after
              \/ pc' = "final"
<1>0. /\ worker \in WorkerObject /\ after \in {"next", "crawl", "debug"}
  BY DEF TypeInv, TypeOK
<1>1. CASE Setup
  <2>1. /\ pc = "setup" /\ UNCHANGED <<poolVars, config, loopVars, filed, stored>>
        /\ \/ /\ AskForProxy("none", "setup") /\ UNCHANGED <<faults, ended>>
           \/ /\ pc' \in {"prepare", "final"} /\ UNCHANGED <<after, call>>
              /\ ended' \in {ended, "exception"}
    BY <1>1 DEF Setup, At, Goto, Throw
  <2>2. AskForProxy("none", "setup")
           => /\ call'.then = "setup" /\ after' = after
              /\ pc' \in {"report", "obtain", "prepare"}
    BY <1>0, AskStep
  <2> QED BY <2>1, <2>2 DEF Searching
<1>2. CASE SetupHttp
  BY <1>2 DEF SetupHttp, At, SetupReturns, Goto, Throw
<1>3. CASE StartBrowser
  BY <1>3 DEF StartBrowser, At, Goto, outputVars
<1>4. CASE SetupPage
  BY <1>4 DEF SetupPage, At, SetupReturns, Goto
<1>5. CASE SetupFailed
  BY <1>5 DEF SetupFailed, At, SetupReturns, Goto, Throw
<1> QED BY <1>1, <1>2, <1>3, <1>4, <1>5 DEF SettingUp

\* What the loop leaves alone, and where it leads.
LEMMA LoopFrame ==
    ASSUME TypeInv, Loop
    PROVE  /\ pc \in {"next", "renew", "restart", "crawl", "debug", "finish"}
           /\ UNCHANGED <<poolVars, config, browsers, unclosed, setups, stored, faults>>
           /\ worker'.own = worker.own /\ worker'.cleaned = worker.cleaned
           /\ worker'.proxy \in {worker.proxy, NoProxy}
           /\ \/ filed' = filed /\ ended' \in {ended, "exception"}
              \/ filed' = TRUE /\ ended' = "normally"
           /\ \/ pc' \in {"next", "renew", "restart", "crawl", "debug", "finish", "final", "setup"}
              \/ pc' \in {"report", "obtain"} /\ call'.then \in {"before", "blocked"}
<1>0. worker \in WorkerObject
  BY DEF TypeInv, TypeOK
<1>1. CASE \/ RenewProxy
           \/ \E why \in {"failed", "blocked", "page_error"} : CrawlFails(why)
  <2>1. \/ AskForProxy("none", "before")
        \/ AskForProxy("blocked", "blocked")
        \/ pc' \in {"restart", "debug"} /\ UNCHANGED <<worker, after, call>>
    BY <1>1 DEF RenewProxy, CrawlFails, Goto
  <2>2. /\ worker'.own = worker.own /\ worker'.cleaned = worker.cleaned
        /\ worker'.proxy \in {worker.proxy, NoProxy}
        /\ \/ pc' \in {"restart", "debug", "setup"}
           \/ pc' \in {"report", "obtain"} /\ call'.then \in {"before", "blocked"}
    BY <1>0, <2>1, AskStep
  <2>3. /\ pc \in {"renew", "crawl"}
        /\ UNCHANGED <<poolVars, config, browsers, unclosed, setups, stored, faults, filed, ended>>
    BY <1>1 DEF RenewProxy, CrawlFails, Crawling, At, outputVars
  <2> QED BY <2>2, <2>3
<1>2. CASE NextItem
  <2>1. \/ worker' = worker
        \/ worker' = [worker EXCEPT !.restart = FALSE, !.status = "no_time"]
        \/ worker' = [worker EXCEPT !.restart = config.restart]
    BY <1>2 DEF NextItem
  <2>2. /\ worker'.own = worker.own /\ worker'.cleaned = worker.cleaned
        /\ worker'.proxy = worker.proxy
    BY <1>0, <2>1 DEF WorkerObject
  <2> QED BY <1>2, <2>2 DEF NextItem, At, Goto, outputVars
<1>3. CASE AfterFailure
  <2>1. \/ worker' = worker
        \/ worker' = [worker EXCEPT !.status = "page_error"]
    BY <1>3 DEF AfterFailure
  <2>2. /\ worker'.own = worker.own /\ worker'.cleaned = worker.cleaned
        /\ worker'.proxy = worker.proxy
    BY <1>0, <2>1 DEF WorkerObject
  <2> QED BY <1>3, <2>2 DEF AfterFailure, At, Goto, Throw
<1>4. CASE Restart
  BY <1>4 DEF Restart, At, Goto, outputVars, browserVars
<1>5. CASE Abort
  BY <1>5 DEF Abort, At, Goto, outputVars, browserVars
<1>6. CASE \E value \in {"value", "nothing"} : Crawl(value)
  BY <1>6 DEF Crawl, Crawling, At, Goto, outputVars, browserVars
<1>7. CASE Finish
  BY <1>7 DEF Finish, At, Goto, browserVars
<1> QED BY <1>1, <1>2, <1>3, <1>4, <1>5, <1>6, <1>7 DEF Loop

LEMMA EnvironmentFrame == Environment => NotTheWorker
BY DEF Environment, OtherObtains, OtherReports, UpdateProxies, ReloadProxies, LoadProxy

-----------------------------------------------------------------------------
(* Results. *)

\* The results are filed when the loop ends normally; from then on every item that
\* was looked at and still counts as completed has its result in the cloud.
FiledInv ==
    /\ ended = "normally" => filed
    /\ pc \in {"store", "end"} /\ ended = "normally"
           => \A i \in Item :
                  \/ item[i].status # "completed" \/ result[i] # "value"
                  \/ i \in stored
                  \/ pc = "store" /\ i >= at

LEMMA FiledInit == Init => FiledInv
BY DEF Init, FiledInv

LEMMA FiledNext == TypeInv /\ FiledInv /\ [Next]_vars => FiledInv'
<1> SUFFICES ASSUME TypeInv, FiledInv, [Next]_vars PROVE FiledInv'
  OBVIOUS
<1>0. /\ item \in [Item -> QueueDoc] /\ at \in Nat
      /\ filed \in BOOLEAN /\ Item = 1 .. NumItems /\ NumItems \in Nat
  BY ItemNumbers DEF TypeInv, TypeOK
<1>1. CASE Proxies
  <2>1. UNCHANGED <<filed, stored, ended>> /\ pc' \notin {"store", "end"}
    BY <1>1, ProxiesFrame DEF outputVars, Searching
  <2> QED BY <2>1 DEF FiledInv
<1>2. CASE SettingUp
  <2>0. after \in {"next", "crawl", "debug"}
    BY DEF TypeInv, TypeOK
  <2>1. /\ UNCHANGED <<filed, stored>> /\ ended' \in {ended, "setup", "exception"}
        /\ pc' \notin {"store", "end"}
    BY <1>2, <2>0, SettingUpFrame DEF Searching
  <2> QED BY <2>1 DEF FiledInv
<1>3. CASE Loop
  <2>1. /\ \/ filed' = filed /\ ended' \in {ended, "exception"}
           \/ filed' = TRUE /\ ended' = "normally"
        /\ pc' \notin {"store", "end"}
    BY <1>3, LoopFrame
  <2> QED BY <2>1 DEF FiledInv
<1>4. CASE FinalCleanup
  <2>1. /\ pc' = "store" /\ at' = 1
        /\ UNCHANGED <<item, result, filed, stored, ended>>
    BY <1>4 DEF FinalCleanup, Goto, outputVars
  <2>2. \A i \in Item : i >= 1
    BY <1>0
  <2> QED BY <2>1, <2>2 DEF FiledInv
<1>5. CASE CleanupFails
  BY <1>5 DEF CleanupFails, FiledInv
<1>6. CASE StoreMerged
  <2>1. /\ pc = "store" /\ pc' = "end" /\ UNCHANGED <<filed, ended, result>>
        /\ \/ stored' = {i \in Item : HasResult(i)} /\ item' = item
           \/ item' = [i \in Item |-> GivenBack(item[i])]
    BY <1>6 DEF StoreMerged, At, Goto
  <2>2. \A i \in Item : GivenBack(item[i]).status = "initial"
    BY <1>0 DEF GivenBack, QueueDoc
  <2>3. filed => \A i \in Item : result[i] = "value" => HasResult(i)
    BY DEF HasResult
  <2>4. ASSUME ended = "normally", NEW i \in Item
        PROVE  item'[i].status # "completed" \/ result'[i] # "value" \/ i \in stored'
    <3>1. filed
      BY <2>4 DEF FiledInv
    <3>2. CASE stored' = {j \in Item : HasResult(j)} /\ item' = item
      BY <2>1, <2>3, <3>1, <3>2
    <3>3. CASE item' = [j \in Item |-> GivenBack(item[j])]
      BY <2>2, <3>3
    <3> QED BY <2>1, <3>2, <3>3
  <2> QED BY <2>1, <2>4 DEF FiledInv
<1>7. CASE StoreItem
  <2>1. /\ pc = "store" /\ at' = at + 1 /\ UNCHANGED <<filed, ended, result>>
        /\ pc' = IF at = NumItems THEN "end" ELSE "store"
        /\ \/ stored' = (IF HasResult(at) THEN stored \cup {at} ELSE stored) /\ item' = item
           \/ item' = [item EXCEPT ![at] = GivenBack(item[at])] /\ stored' = stored
    BY <1>7 DEF StoreItem, At, Goto
  <2>2. at \in Item /\ GivenBack(item[at]).status = "initial"
    BY <1>0, <2>1 DEF TypeInv, TypeOK, AtAnItem, GivenBack, QueueDoc
  <2>3. filed /\ result[at] = "value" => HasResult(at)
    BY DEF HasResult
  <2>4. ASSUME ended = "normally", NEW i \in Item
        PROVE  item'[i].status # "completed" \/ result'[i] # "value" \/ i \in stored'
               \/ (pc' = "store" /\ i >= at')
    <3>1. filed
      BY <2>4 DEF FiledInv
    <3>2. CASE i = at
      <4>1. CASE item' = [item EXCEPT ![at] = GivenBack(item[at])]
        BY <1>0, <2>2, <3>2, <4>1
      <4>2. CASE stored' = (IF HasResult(at) THEN stored \cup {at} ELSE stored) /\ item' = item
        BY <2>1, <2>3, <3>1, <3>2, <4>2
      <4> QED BY <2>1, <4>1, <4>2
    <3>3. CASE i # at
      <4>1. item'[i] = item[i]
        BY <1>0, <2>1, <3>3
      <4>2. item[i].status # "completed" \/ result[i] # "value" \/ i \in stored \/ i >= at
        BY <2>1, <2>4 DEF FiledInv
      <4>3. i >= at => i >= at + 1 /\ at # NumItems
        BY <1>0, <3>3
      <4>4. stored \subseteq stored'
        BY <2>1
      <4> QED BY <2>1, <4>1, <4>2, <4>3, <4>4
    <3> QED BY <3>2, <3>3
  <2> QED BY <2>1, <2>4 DEF FiledInv
<1>8. CASE Environment
  BY <1>8, EnvironmentFrame DEF NotTheWorker, loopVars, outputVars, FiledInv
<1>9. CASE UNCHANGED vars
  BY <1>9 DEF vars, loopVars, outputVars, FiledInv
<1>10. CASE NoWorker
  BY <1>10 DEF NoWorker, FiledInv
<1> QED BY <1>1, <1>2, <1>3, <1>4, <1>5, <1>6, <1>7, <1>8, <1>9, <1>10 DEF Next, Step, Ending

\* What a crawl returned is in the cloud when its item is written back as completed.
THEOREM ResultsAreKept == Spec => []ResultsKept
<1>1. FiledInv => ResultsKept
  BY DEF FiledInv, ResultsKept
<1> QED BY TypeInit, TypeNext, FiledInit, FiledNext, <1>1, PTL DEF Spec

-----------------------------------------------------------------------------
(* Outcomes. *)

\* The loop has not touched its current item yet.
Untried ==
    \/ pc \in {"next", "renew", "restart", "crawl"}
    \/ pc \in {"setup", "prepare", "setup_page", "setup_failed"} /\ after # "debug"
    \/ Searching /\ call.then = "before"
    \/ Searching /\ call.then = "setup" /\ after # "debug"

Tried == {Result(Claimed, o) : o \in {"completed", "failed", "blocked"}}

NotUntouched == {Result(Claimed, o) : o \in AllOutcomes \ {"untouched"}}

NotAbandoned == {Result(Claimed, o) : o \in AllOutcomes \ {"abandoned"}}

InLoop == pc \notin {"finish", "final", "store", "end"}

\* What the loop, and then storeInCloud, have made of the items so far.
LoopItems ==
    InLoop =>
        /\ ~filed
        /\ \A i \in Item : i < at => item[i] \in Tried
        /\ \A i \in Item : i > at => item[i] = Claimed
        /\ at \in Item => IF Untried THEN item[at] = Claimed ELSE item[at] \in Tried

FinishedItems ==
    pc = "finish" => ~filed /\ \A i \in Item : item[i] \in NotUntouched

StoredItems ==
    pc \in {"final", "store"}
        => \A i \in Item : item[i] \in (IF filed THEN NotUntouched ELSE NotAbandoned)

LeftItems ==
    pc = "end" => \/ \A i \in Item : item[i] \in NotUntouched
                  \/ \A i \in Item : item[i] \in NotAbandoned

ItemsInv == LoopItems /\ FinishedItems /\ StoredItems /\ LeftItems

\* A document is its three fields.
LEMMA DocUpdates ==
    ASSUME NEW d \in QueueDoc
    PROVE  /\ \A st \in QueueItemStatus :
                  [d EXCEPT !.status = st] = [status |-> st, retries |-> d.retries, crawled |-> d.crawled]
           /\ \A n \in Nat :
                  [d EXCEPT !.retries = n] = [status |-> d.status, retries |-> n, crawled |-> d.crawled]
           /\ \A b \in BOOLEAN :
                  [d EXCEPT !.crawled = b] = [status |-> d.status, retries |-> d.retries, crawled |-> b]
BY DEF QueueDoc

\* The documents behind the outcomes.
LEMMA OutcomeDocs ==
    /\ Result(Claimed, "completed") = [status |-> "completed", retries |-> 1, crawled |-> TRUE]
    /\ Result(Claimed, "failed") = [status |-> "failed", retries |-> 1, crawled |-> FALSE]
    /\ Result(Claimed, "blocked") = [status |-> "failed", retries |-> 0, crawled |-> FALSE]
    /\ Result(Claimed, "abandoned") = [status |-> "initial", retries |-> 0, crawled |-> FALSE]
    /\ Result(Claimed, "unstored") = [status |-> "initial", retries |-> 1, crawled |-> FALSE]
    /\ Result(Claimed, "untouched") = Claimed
<1> DEFINE c == [status |-> "running", retries |-> 0, crawled |-> FALSE]
<1>0. /\ c \in QueueDoc
      /\ [status |-> "failed", retries |-> 0, crawled |-> FALSE] \in QueueDoc
      /\ [status |-> "initial", retries |-> 0, crawled |-> FALSE] \in QueueDoc
  BY DEF QueueDoc, QueueItemStatus
<1>1. Result(Claimed, "completed") = [status |-> "completed", retries |-> 1, crawled |-> TRUE]
  BY DEF Result, Claimed
<1>2. Result(Claimed, "failed") = [status |-> "failed", retries |-> 1, crawled |-> FALSE]
  <2>1. Result(Claimed, "failed") = [[c EXCEPT !.status = "failed"] EXCEPT !.retries = c.retries + 1]
    BY DEF Result, Claimed
  <2>2. [c EXCEPT !.status = "failed"] = [status |-> "failed", retries |-> 0, crawled |-> FALSE]
    BY <1>0, DocUpdates DEF QueueItemStatus
  <2>3. c.retries + 1 = 1
    OBVIOUS
  <2>4. [[status |-> "failed", retries |-> 0, crawled |-> FALSE] EXCEPT !.retries = 1]
            = [status |-> "failed", retries |-> 1, crawled |-> FALSE]
    BY <1>0, DocUpdates
  <2> HIDE DEF c
  <2> QED BY <2>1, <2>2, <2>3, <2>4
<1>3. Result(Claimed, "blocked") = [status |-> "failed", retries |-> 0, crawled |-> FALSE]
  BY DEF Result, Claimed, Blocked
<1>4. Result(Claimed, "abandoned") = [status |-> "initial", retries |-> 0, crawled |-> FALSE]
  <2>1. Result(Claimed, "abandoned") = [[c EXCEPT !.status = "initial"] EXCEPT !.crawled = FALSE]
    BY DEF Result, Claimed
  <2>2. [c EXCEPT !.status = "initial"] = [status |-> "initial", retries |-> 0, crawled |-> FALSE]
    BY <1>0, DocUpdates DEF QueueItemStatus
  <2>3. [[status |-> "initial", retries |-> 0, crawled |-> FALSE] EXCEPT !.crawled = FALSE]
            = [status |-> "initial", retries |-> 0, crawled |-> FALSE]
    BY <1>0, DocUpdates
  <2> HIDE DEF c
  <2> QED BY <2>1, <2>2, <2>3
<1>5. Result(Claimed, "unstored") = [status |-> "initial", retries |-> 1, crawled |-> FALSE]
  BY DEF Result, Claimed, Unstored
<1>6. Result(Claimed, "untouched") = Claimed
  BY DEF Result
<1> QED BY <1>1, <1>2, <1>3, <1>4, <1>5, <1>6

LEMMA FailedDocs ==
    /\ FailedDoc(Claimed, TRUE) = Result(Claimed, "blocked")
    /\ FailedDoc(Claimed, FALSE) = Result(Claimed, "failed")
<1> DEFINE c == [status |-> "running", retries |-> 0, crawled |-> FALSE]
           f == [status |-> "failed", retries |-> 0, crawled |-> FALSE]
<1>0. c \in QueueDoc /\ f \in QueueDoc
  BY DEF QueueDoc, QueueItemStatus
<1>1. [c EXCEPT !.status = "failed"] = f
  BY <1>0, DocUpdates DEF QueueItemStatus
<1>2. /\ FailedDoc(Claimed, TRUE) = [[c EXCEPT !.status = "failed"] EXCEPT !.retries = 0]
      /\ FailedDoc(Claimed, FALSE) = [[c EXCEPT !.status = "failed"] EXCEPT !.retries = 1]
  BY DEF FailedDoc, Claimed
<1>3. [f EXCEPT !.retries = 0] = f
      /\ [f EXCEPT !.retries = 1] = [status |-> "failed", retries |-> 1, crawled |-> FALSE]
  BY <1>0, DocUpdates
<1>4. /\ FailedDoc(Claimed, TRUE) = f
      /\ FailedDoc(Claimed, FALSE) = [status |-> "failed", retries |-> 1, crawled |-> FALSE]
  <2> HIDE DEF c, f
  <2> QED BY <1>1, <1>2, <1>3
<1> QED BY <1>4, OutcomeDocs

\* Giving back keeps nothing but the number of tries.
LEMMA BackDocs ==
    ASSUME NEW st \in QueueItemStatus, NEW n \in Nat, NEW b \in BOOLEAN
    PROVE  GivenBack([status |-> st, retries |-> n, crawled |-> b])
               = [status |-> "initial", retries |-> n, crawled |-> FALSE]
<1> DEFINE d == [status |-> st, retries |-> n, crawled |-> b]
<1>1. GivenBack(d) = [[d EXCEPT !.status = "initial"] EXCEPT !.crawled = FALSE]
  BY DEF GivenBack
<1>0. d \in QueueDoc /\ [status |-> "initial", retries |-> n, crawled |-> b] \in QueueDoc
  BY DEF QueueDoc, QueueItemStatus
<1>2. [d EXCEPT !.status = "initial"] = [status |-> "initial", retries |-> n, crawled |-> b]
  BY <1>0, DocUpdates DEF QueueItemStatus
<1>3. [[status |-> "initial", retries |-> n, crawled |-> b] EXCEPT !.crawled = FALSE]
          = [status |-> "initial", retries |-> n, crawled |-> FALSE]
  BY <1>0, DocUpdates
<1> QED BY <1>1, <1>2, <1>3

LEMMA OutcomeSets ==
    /\ Tried \subseteq NotUntouched /\ Tried \subseteq NotAbandoned
    /\ Claimed \in NotAbandoned
    /\ Result(Claimed, "abandoned") \in NotUntouched
    /\ \A d \in NotUntouched : GivenBack(d) \in NotUntouched
    /\ \A d \in NotAbandoned : GivenBack(d) \in NotUntouched
<1> DEFINE a == Result(Claimed, "abandoned")
           u == Result(Claimed, "unstored")
<1>1. a \in NotUntouched /\ u \in NotUntouched
  BY DEF NotUntouched, AllOutcomes
<1>2. /\ GivenBack(Result(Claimed, "completed")) = u
      /\ GivenBack(Result(Claimed, "failed")) = u
      /\ GivenBack(Result(Claimed, "blocked")) = a
      /\ GivenBack(Result(Claimed, "abandoned")) = a
      /\ GivenBack(Result(Claimed, "unstored")) = u
      /\ GivenBack(Result(Claimed, "untouched")) = a
  BY OutcomeDocs, BackDocs DEF Claimed, QueueItemStatus
<1> HIDE DEF a, u
<1>3. \A o \in AllOutcomes : GivenBack(Result(Claimed, o)) \in {a, u}
  BY <1>2 DEF AllOutcomes
<1>4. Tried \subseteq NotUntouched /\ Tried \subseteq NotAbandoned
  BY DEF Tried, NotUntouched, NotAbandoned, AllOutcomes
<1>5. Claimed \in NotAbandoned
  BY OutcomeDocs DEF NotAbandoned, AllOutcomes
<1> QED BY <1>1, <1>3, <1>4, <1>5 DEF a, NotUntouched, NotAbandoned

LEMMA ItemsInit == Init => ItemsInv
<1> SUFFICES ASSUME Init PROVE ItemsInv
  OBVIOUS
<1>1. /\ pc = "setup" /\ after = "next" /\ at = 1 /\ filed = FALSE
      /\ \A i \in Item : item[i] = Claimed
  BY DEF Init
<1>2. \A i \in Item : ~(i < 1)
  BY ItemNumbers
<1> QED BY <1>1, <1>2
        DEF ItemsInv, LoopItems, FinishedItems, StoredItems, LeftItems, Untried, InLoop

\* While the items stay and the loop goes on, only who is untried matters.
LEMMA SameItems ==
    ASSUME TypeInv, ItemsInv, InLoop, InLoop', UNCHANGED <<item, at, filed>>,
           at \in Item => Untried' = Untried
    PROVE  ItemsInv'
<1>1. LoopItems'
  BY DEF ItemsInv, LoopItems
<1> QED BY <1>1 DEF ItemsInv, InLoop, FinishedItems, StoredItems, LeftItems

\* An exception leaves the loop.
LEMMA ThrownItems ==
    ASSUME TypeInv, ItemsInv, InLoop, pc' \in {"final", "store"}, UNCHANGED <<item, filed>>
    PROVE  ItemsInv'
<1>1. at \in Nat /\ Item = 1 .. NumItems /\ NumItems \in Nat
  BY ItemNumbers DEF TypeInv, TypeOK
<1>2. ASSUME NEW i \in Item PROVE item[i] \in NotAbandoned
  <2>1. i < at \/ i = at \/ i > at
    BY <1>1
  <2>2. item[i] \in Tried \/ item[i] = Claimed
    BY <2>1 DEF ItemsInv, LoopItems
  <2> QED BY <2>2, OutcomeSets
<1>3. ~filed
  BY DEF ItemsInv, LoopItems
<1> QED BY <1>2, <1>3
        DEF ItemsInv, LoopItems, InLoop, FinishedItems, StoredItems, LeftItems

LEMMA LoopItemsNext == TypeInv /\ ItemsInv /\ Loop => ItemsInv'
<1> SUFFICES ASSUME TypeInv, ItemsInv, Loop PROVE ItemsInv'
  OBVIOUS
<1>0. /\ item \in [Item -> QueueDoc] /\ at \in Nat /\ worker \in WorkerObject
      /\ Item = 1 .. NumItems /\ NumItems \in Nat
  BY ItemNumbers DEF TypeInv, TypeOK
<1>a. pc \in {"renew", "restart", "crawl", "debug"} => at \in Item
  BY <1>0 DEF TypeInv, TypeOK, AtAnItem
<1>1. CASE NextItem
  <2>1. /\ pc = "next" /\ UNCHANGED <<item, at, filed>>
        /\ \/ at > NumItems /\ pc' = "finish"
           \/ at <= NumItems /\ pc' \in {"crawl", "renew"}
    BY <1>1 DEF NextItem, At, Goto, loopVars, outputVars
  <2>2. CASE at > NumItems /\ pc' = "finish"
    <3>1. \A i \in Item : i < at
      BY <1>0, <2>2
    <3>2. ~filed /\ \A i \in Item : item[i] \in Tried
      BY <2>1, <3>1 DEF ItemsInv, LoopItems, InLoop
    <3>3. \A i \in Item : item[i] \in NotUntouched
      BY <3>2, OutcomeSets
    <3> QED BY <2>1, <2>2, <3>2, <3>3
            DEF ItemsInv, LoopItems, InLoop, FinishedItems, StoredItems, LeftItems
  <2>3. CASE pc' \in {"crawl", "renew"}
    <3>1. Untried /\ Untried' /\ InLoop /\ InLoop'
      BY <2>1, <2>3 DEF Untried, InLoop
    <3> QED BY <2>1, <3>1, SameItems
  <2> QED BY <2>1, <2>2, <2>3
<1>2. CASE RenewProxy
  <2>1. /\ pc = "renew" /\ UNCHANGED <<item, at, filed>>
        /\ AskForProxy("none", "before") \/ pc' = "restart"
    BY <1>2 DEF RenewProxy, At, Goto, loopVars, outputVars
  <2>2. AskForProxy("none", "before")
           => call'.then = "before" /\ pc' \in {"report", "obtain", "restart"}
    BY <1>0, AskStep
  <2>3. Untried /\ Untried' /\ InLoop /\ InLoop'
    BY <2>1, <2>2 DEF Untried, InLoop, Searching
  <2> QED BY <2>1, <2>3, SameItems
<1>3. CASE Restart
  <2>1. /\ pc = "restart" /\ UNCHANGED <<item, at, filed>>
        /\ \/ pc' = "setup" /\ after' = "crawl"
           \/ pc' = "crawl"
    BY <1>3 DEF Restart, At, Goto, loopVars, outputVars
  <2>2. Untried /\ Untried' /\ InLoop /\ InLoop'
    BY <2>1 DEF Untried, InLoop
  <2> QED BY <2>1, <2>2, SameItems
<1>4. CASE Abort
  <2>1. /\ pc = "crawl" /\ pc' = "finish" /\ filed' = filed
        /\ item' = [i \in Item |-> IF i \in Remaining
                                   THEN [item[i] EXCEPT !.status = "initial", !.crawled = FALSE]
                                   ELSE item[i]]
    BY <1>4 DEF Abort, At, Goto, outputVars
  <2>2. Untried /\ InLoop
    BY <2>1 DEF Untried, InLoop
  <2>3. ASSUME NEW i \in Item PROVE item'[i] \in NotUntouched
    <3>1. CASE i \in Remaining
      <4>1. i = at \/ i > at
        BY <1>0, <3>1 DEF Remaining
      <4>2. item[i] = Claimed
        BY <2>2, <4>1 DEF ItemsInv, LoopItems
      <4>3. item'[i] = [Claimed EXCEPT !.status = "initial", !.crawled = FALSE]
        BY <2>1, <3>1, <4>2
      <4>4. item'[i] = Result(Claimed, "abandoned")
        BY <4>3, OutcomeDocs DEF Claimed
      <4> QED BY <4>4, OutcomeSets
    <3>2. CASE i \notin Remaining
      <4>1. i < at
        BY <1>0, <3>2 DEF Remaining
      <4>2. item'[i] \in Tried
        BY <2>1, <2>2, <3>2, <4>1 DEF ItemsInv, LoopItems
      <4> QED BY <4>2, OutcomeSets
    <3> QED BY <3>1, <3>2
  <2>4. ~filed
    BY <2>2 DEF ItemsInv, LoopItems
  <2> QED BY <2>1, <2>3, <2>4
          DEF ItemsInv, LoopItems, InLoop, FinishedItems, StoredItems, LeftItems
\* Crawl and AfterFailure go on to the next item.
<1>b. ASSUME InLoop, pc' = "next", at' = at + 1, filed' = filed, at \in Item,
             \A i \in Item : i # at => item'[i] = item[i], item'[at] \in Tried
      PROVE  ItemsInv'
  <2>1. ~filed /\ \A i \in Item : (i < at => item[i] \in Tried) /\ (i > at => item[i] = Claimed)
    BY <1>b DEF ItemsInv, LoopItems
  <2>2. ASSUME NEW i \in Item
        PROVE  /\ i < at' => item'[i] \in Tried
               /\ i > at' \/ i = at' => item'[i] = Claimed
    BY <1>0, <1>b, <2>1
  <2>3. Untried'
    BY <1>b DEF Untried
  <2> QED BY <1>b, <2>1, <2>2, <2>3
          DEF ItemsInv, LoopItems, InLoop, FinishedItems, StoredItems, LeftItems
<1>5. ASSUME NEW value \in {"value", "nothing"}, Crawl(value) PROVE ItemsInv'
  <2> DEFINE doc == [status |-> "completed", crawled |-> TRUE, retries |-> item[at].retries + 1]
  <2>1. /\ pc = "crawl" /\ pc' = "next" /\ at' = at + 1 /\ filed' = filed
        /\ item' = [item EXCEPT ![at] = doc]
    BY <1>5 DEF Crawl, Crawling, At, Goto, outputVars
  <2>2. at \in Item /\ Untried /\ InLoop
    BY <1>a, <2>1 DEF Untried, InLoop
  <2>3. item[at] = Claimed
    BY <2>2 DEF ItemsInv, LoopItems
  <2>4. doc = Result(Claimed, "completed")
    BY <2>3, OutcomeDocs DEF Claimed
  <2> HIDE DEF doc
  <2>5. doc \in Tried
    BY <2>4 DEF Tried
  <2>6. item'[at] \in Tried /\ \A i \in Item : i # at => item'[i] = item[i]
    BY <1>0, <2>1, <2>2, <2>5
  <2> QED BY <1>b, <2>1, <2>2, <2>6
<1>6. ASSUME NEW why \in {"failed", "blocked", "page_error"}, CrawlFails(why) PROVE ItemsInv'
  <2>1. pc = "crawl" /\ UNCHANGED <<at, filed>>
    BY <1>6 DEF CrawlFails, Crawling, At, outputVars
  <2>2. at \in Item /\ Untried /\ InLoop
    BY <1>a, <2>1 DEF Untried, InLoop
  <2>3. item[at] = Claimed
    BY <2>2 DEF ItemsInv, LoopItems
  <2>4. PICK asks \in BOOLEAN :
               /\ item' = [item EXCEPT ![at] = FailedDoc(item[at], asks)]
               /\ asks => AskForProxy("blocked", "blocked")
               /\ ~asks => pc' = "debug" /\ UNCHANGED <<worker, after, call>>
    BY <1>0, <1>6, <2>2, FailedItem
  <2>5. FailedDoc(Claimed, asks) \in Tried
    <3>1. FailedDoc(Claimed, TRUE) = Result(Claimed, "blocked")
      BY FailedDocs
    <3>2. FailedDoc(Claimed, FALSE) = Result(Claimed, "failed")
      BY FailedDocs
    <3>3. CASE asks = TRUE
      BY <3>1, <3>3 DEF Tried
    <3>4. CASE asks = FALSE
      BY <3>2, <3>4 DEF Tried
    <3> QED BY <3>3, <3>4
  <2>6. item'[at] \in Tried /\ \A i \in Item : i # at => item'[i] = item[i]
    BY <1>0, <2>2, <2>3, <2>4, <2>5
  <2>7. \/ pc' = "debug"
        \/ pc' \in {"report", "obtain"} /\ call'.then = "blocked"
        \/ pc' = "setup" /\ after' = "debug"
    BY <1>0, <2>4, AskStep
  <2>8. ~Untried' /\ InLoop'
    BY <2>7 DEF Untried, InLoop, Searching
  <2>9. ASSUME NEW i \in Item
        PROVE  (i < at => item'[i] \in Tried) /\ (i > at => item'[i] = Claimed)
    BY <1>0, <2>2, <2>6 DEF ItemsInv, LoopItems
  <2>10. ~filed
    BY <2>2 DEF ItemsInv, LoopItems
  <2> QED BY <2>1, <2>6, <2>8, <2>9, <2>10
          DEF ItemsInv, LoopItems, InLoop, FinishedItems, StoredItems, LeftItems
<1>7. CASE AfterFailure
  <2>1. /\ pc = "debug" /\ UNCHANGED <<item, filed>>
        /\ \/ pc' = "final"
           \/ pc' = "next" /\ at' = at + 1
    BY <1>7 DEF AfterFailure, At, Goto, Throw, FollowingItem
  <2>2. at \in Item /\ ~Untried /\ InLoop
    BY <1>a, <2>1 DEF Untried, InLoop, Searching
  <2>3. item[at] \in Tried
    BY <2>2 DEF ItemsInv, LoopItems
  <2> QED BY <1>b, <2>1, <2>2, <2>3, ThrownItems
<1>8. CASE Finish
  <2>1. pc = "finish" /\ pc' = "final" /\ filed' = TRUE /\ item' = item
    BY <1>8 DEF Finish, At, Goto, loopVars
  <2> QED BY <2>1 DEF ItemsInv, LoopItems, InLoop, FinishedItems, StoredItems, LeftItems
<1> QED BY <1>1, <1>2, <1>3, <1>4, <1>5, <1>6, <1>7, <1>8 DEF Loop

LEMMA EndingItemsNext == TypeInv /\ ItemsInv /\ Ending => ItemsInv'
<1> SUFFICES ASSUME TypeInv, ItemsInv, Ending PROVE ItemsInv'
  OBVIOUS
<1>0. item \in [Item -> QueueDoc]
  BY DEF TypeInv, TypeOK
<1>a. ASSUME pc' = "end", \/ \A i \in Item : item'[i] \in NotUntouched
                          \/ \A i \in Item : item'[i] \in NotAbandoned
      PROVE  ItemsInv'
  BY <1>a DEF ItemsInv, LoopItems, InLoop, FinishedItems, StoredItems, LeftItems
<1>1. CASE FinalCleanup
  <2>1. pc = "final" /\ pc' = "store" /\ UNCHANGED <<item, filed>>
    BY <1>1 DEF FinalCleanup, At, Goto, outputVars
  <2> QED BY <2>1 DEF ItemsInv, LoopItems, InLoop, FinishedItems, StoredItems, LeftItems
<1>2. CASE CleanupFails
  <2>1. pc = "final" /\ pc' = "end" /\ item' = item
    BY <1>2 DEF CleanupFails, At, Goto, loopVars
  <2> QED BY <1>a, <2>1 DEF ItemsInv, StoredItems
<1>3. CASE StoreMerged
  <2>1. /\ pc = "store" /\ pc' = "end"
        /\ item' = item \/ item' = [i \in Item |-> GivenBack(item[i])]
    BY <1>3 DEF StoreMerged, At, Goto
  <2>2. CASE item' = item
    BY <1>a, <2>1, <2>2 DEF ItemsInv, StoredItems
  <2>3. CASE item' = [i \in Item |-> GivenBack(item[i])]
    <3>1. \A i \in Item : item[i] \in NotUntouched \/ item[i] \in NotAbandoned
      BY <2>1 DEF ItemsInv, StoredItems
    <3>2. \A i \in Item : item'[i] \in NotUntouched
      BY <2>3, <3>1, OutcomeSets
    <3> QED BY <1>a, <2>1, <3>2
  <2> QED BY <2>1, <2>2, <2>3
<1>4. CASE StoreItem
  <2>1. /\ pc = "store" /\ pc' \in {"store", "end"} /\ filed' = filed
        /\ item' = item \/ (HasResult(at) /\ item' = [item EXCEPT ![at] = GivenBack(item[at])])
    BY <1>4 DEF StoreItem, At, Goto
  <2>2. \A i \in Item : item[i] \in (IF filed THEN NotUntouched ELSE NotAbandoned)
    BY <2>1 DEF ItemsInv, StoredItems
  <2>3. \A i \in Item : item'[i] \in (IF filed THEN NotUntouched ELSE NotAbandoned)
    <3>1. CASE item' = item
      BY <2>2, <3>1
    <3>2. CASE HasResult(at) /\ item' = [item EXCEPT ![at] = GivenBack(item[at])]
      <4>1. filed
        BY <3>2 DEF HasResult
      <4>2. ASSUME NEW i \in Item PROVE item'[i] \in {item[i], GivenBack(item[i])}
        BY <1>0, <3>2
      <4> QED BY <2>2, <4>1, <4>2, OutcomeSets
    <3> QED BY <2>1, <3>1, <3>2
  <2>4. CASE pc' = "end"
    BY <1>a, <2>3, <2>4
  <2>5. CASE pc' = "store"
    BY <2>1, <2>3, <2>5
       DEF ItemsInv, LoopItems, InLoop, FinishedItems, StoredItems, LeftItems
  <2> QED BY <2>1, <2>4, <2>5
<1> QED BY <1>1, <1>2, <1>3, <1>4 DEF Ending

LEMMA ItemsNext == TypeInv /\ ItemsInv /\ [Next]_vars => ItemsInv'
<1> SUFFICES ASSUME TypeInv, ItemsInv, [Next]_vars PROVE ItemsInv'
  OBVIOUS
<1>1. CASE Proxies
  <2>1. /\ Searching /\ UNCHANGED <<item, at, filed>>
        /\ call'.then = call.then
        /\ \/ Searching' /\ after' = after
           \/ call.then = "setup" /\ pc' = "prepare" /\ after' = after
           \/ call.then = "before" /\ pc' = "restart" /\ after' = after
           \/ call.then = "blocked" /\ pc' = "debug" /\ after' = after
           \/ call.then = "blocked" /\ pc' = "setup" /\ after' = "debug"
    BY <1>1, ProxiesFrame DEF loopVars, outputVars
  <2>2. Untried' = Untried
    BY <2>1 DEF Untried, Searching
  <2>3. InLoop /\ InLoop'
    BY <2>1 DEF InLoop, Searching
  <2> QED BY <2>1, <2>2, <2>3, SameItems
<1>2. CASE SettingUp
  <2>0. after \in {"next", "crawl", "debug"}
    BY DEF TypeInv, TypeOK
  <2>1. /\ pc \in {"setup", "prepare", "setup_page", "setup_failed"}
        /\ UNCHANGED <<item, at, filed, after>>
        /\ \/ pc' \in {"prepare", "setup_page", "setup_failed"}
           \/ Searching' /\ call'.then = "setup"
           \/ pc' = after
           \/ pc' = "final"
    BY <1>2, SettingUpFrame DEF loopVars
  <2>2. InLoop
    BY <2>1 DEF InLoop
  <2>3. CASE pc' = "final"
    BY <2>1, <2>2, <2>3, ThrownItems
  <2>4. CASE pc' # "final"
    <3>1. Untried' = Untried /\ InLoop'
      BY <2>0, <2>1, <2>4 DEF Untried, Searching, InLoop
    <3> QED BY <2>1, <2>2, <3>1, SameItems
  <2> QED BY <2>3, <2>4
<1>3. CASE Environment \/ UNCHANGED vars
  <2>1. UNCHANGED <<pc, after, call, item, at, filed>>
    BY <1>3, EnvironmentFrame DEF NotTheWorker, vars, loopVars, outputVars
  <2> QED BY <2>1 DEF ItemsInv, LoopItems, InLoop, FinishedItems, StoredItems, LeftItems,
                      Untried, Searching
<1>4. CASE NoWorker
  <2>1. InLoop /\ pc' = "store" /\ UNCHANGED <<item, filed>>
    BY <1>4 DEF NoWorker, At, Goto, InLoop
  <2> QED BY <2>1, ThrownItems
<1> QED BY <1>1, <1>2, <1>3, <1>4, LoopItemsNext, EndingItemsNext DEF Next, Step

\* The crawl leaves of its items what CrawlTask assumes of a worker.
THEOREM OutcomesAreLeft == Spec => []LeavesAnOutcome
<1>1. ItemsInv => LeavesAnOutcome
  BY DEF ItemsInv, LeftItems, LeavesAnOutcome, NotUntouched, NotAbandoned
<1> QED BY TypeInit, TypeNext, ItemsInit, ItemsNext, <1>1, PTL DEF Spec

-----------------------------------------------------------------------------
(* Proxies. *)

\* What was touched since the last block was used after everything that was not.
UsedAfter(d, S) == \A p \in S, q \in Proxy \ S : d[q].used < d[p].used

\* So was the proxy that blocked, unless it is gone.
BlockedLast(d, S, p) ==
    p # NoProxy => \/ d[p].status = "dropped"
                   \/ \A q \in Proxy \ S : q = p \/ d[q].used < d[p].used

\* Nobody uses what is not loaded yet.
UsedLater ==
    /\ pc \in {"check", "deprecate"}
           => call.proxy \in since /\ pool[call.proxy].status # "new"
    /\ worker.proxy # NoProxy => pool[worker.proxy].status # "new"
    /\ UsedAfter(pool, since)
    /\ BlockedLast(pool, since, worker.proxy)

LEMMA UsedLaterInit == Init => UsedLater
BY DEF Init, UsedLater, UsedAfter, BlockedLast

\* A use of p keeps the order, if p counts as touched from then on.
LEMMA UseKeepsOrder ==
    ASSUME NEW d \in [Proxy -> ProxyDoc], NEW e \in [Proxy -> ProxyDoc], NEW p \in Proxy,
           NEW S \in SUBSET Proxy, NEW w \in Proxy \cup {NoProxy}, Uses(d, e, p),
           UsedAfter(d, S), BlockedLast(d, S, w),
           w # NoProxy /\ d[w].status = "dropped" => e[w].status = "dropped"
    PROVE  UsedAfter(e, S \cup {p}) /\ BlockedLast(e, S \cup {p}, w)
<1>1. ASSUME NEW x \in S \cup {p}, NEW q \in Proxy \ (S \cup {p}) PROVE e[q].used < e[x].used
  BY <1>1 DEF Uses, UsedAfter
<1>2. ASSUME w # NoProxy, d[w].status # "dropped", NEW q \in Proxy \ (S \cup {p})
      PROVE  q = w \/ e[q].used < e[w].used
  BY <1>2 DEF Uses, BlockedLast
<1> QED BY <1>1, <1>2 DEF UsedAfter, BlockedLast

\* What a step of anyone does with the pool.
LEMMA PoolSteps ==
    ASSUME TypeInv, UsedLater, Proxies \/ Environment
    PROVE  /\ \/ pool' = pool /\ since' \in {since, {}} /\ (since' = {} => since = {}
                  \/ (worker.proxy # NoProxy => pool[worker.proxy].status = "dropped"))
              \/ \E p \in Proxy : /\ Uses(pool, pool', p) /\ pool'[p].status # "new"
                                  /\ \/ since' = since \cup {p}
                                     \/ since' = {} /\ p = worker.proxy
              \/ since' = since /\ \A q \in Proxy : pool'[q].used = pool[q].used
              \/ since' = Proxy
           /\ \A q \in Proxy : /\ pool'[q].status = "new" => pool[q].status = "new"
                               /\ pool[q].status = "dropped" => pool'[q].status = "dropped"
<1>0. /\ pool \in [Proxy -> ProxyDoc] /\ worker.proxy \in Proxy \cup {NoProxy}
      /\ since \in SUBSET Proxy
  BY DEF TypeInv, TypeOK, WorkerObject
<1>1. CASE ReportBlocked
  <2>1. CASE pool' = pool /\ since' = since
    BY <2>1
  <2>2. CASE pool' = ReportProxy(pool, worker.proxy, "blocked") /\ since' = {}
    <3>1. CASE worker.proxy \notin Proxy
      <4>1. pool' = pool
        BY <2>2, <3>1 DEF ReportProxy, Present
      <4> QED BY <1>0, <2>2, <3>1, <4>1
    <3>2. CASE worker.proxy \in Proxy
      <4>1. /\ \A q \in Proxy : /\ pool'[q].status = "new" => pool[q].status = "new"
                                /\ pool[q].status = "dropped" => pool'[q].status = "dropped"
            /\ \/ worker.proxy \notin Present(pool) /\ pool' = pool
               \/ worker.proxy \in Present(pool) /\ Uses(pool, pool', worker.proxy)
        BY <1>0, <2>2, <3>2, Reported
      <4>2. worker.proxy # NoProxy
        BY <3>2, CrawlHandlerAssumption DEF CrawlHandlerAssumption
      <4>3. CASE worker.proxy \notin Present(pool)
        <5>1. pool[worker.proxy].status \in {"new", "dropped"}
          BY <3>2, <4>3 DEF Present
        <5>2. pool[worker.proxy].status = "dropped"
          BY <4>2, <5>1 DEF UsedLater
        <5> QED BY <2>2, <4>1, <4>3, <5>2
      <4>4. CASE worker.proxy \in Present(pool)
        <5>1. pool'[worker.proxy].status # "new"
          BY <3>2, <4>1, <4>4 DEF Present
        <5> QED BY <2>2, <3>2, <4>1, <4>4, <5>1
      <4> QED BY <4>3, <4>4
    <3> QED BY <3>1, <3>2
  <2> QED BY <1>1, <2>1, <2>2 DEF ReportBlocked
\* Somebody obtains a proxy.
<1>a. ASSUME NEW p \in Proxy, pool' = Touch(pool, p), since' = since \cup {p},
             pool[p].status = "functional"
      PROVE  /\ \E x \in Proxy : /\ Uses(pool, pool', x) /\ pool'[x].status # "new"
                                 /\ since' = since \cup {x}
             /\ \A q \in Proxy : pool'[q].status = pool[q].status
  BY <1>0, <1>a, TouchedLast, UsesTouch
<1>2. CASE \E p \in Proxy : GetProxy(p) \/ OtherObtains(p)
  <2>1. PICK p \in Proxy : GetProxy(p) \/ OtherObtains(p)
    BY <1>2
  <2>2. /\ pool' = Touch(pool, p) /\ since' = since \cup {p}
        /\ pool[p].status = "functional"
    BY <2>1 DEF GetProxy, OtherObtains, Obtain, Preferred, Obtainable
  <2>3. /\ \E x \in Proxy : /\ Uses(pool, pool', x) /\ pool'[x].status # "new"
                            /\ since' = since \cup {x}
        /\ \A q \in Proxy : pool'[q].status = pool[q].status
    BY <1>a, <2>2
  <2> QED BY <2>3
<1>3. CASE GetNoProxy \/ CheckProxy
  BY <1>3 DEF GetNoProxy, CheckProxy, poolVars
\* Somebody reports one.
<1>b. ASSUME NEW p \in Proxy, NEW reason \in {"blocked", "check_failed", "damaged"},
             pool' = ReportProxy(pool, p, reason), since' = since \cup {p},
             p \in since \/ p \in Present(pool)
      PROVE  /\ \/ pool' = pool /\ since' = since
                \/ \E x \in Proxy : /\ Uses(pool, pool', x) /\ pool'[x].status # "new"
                                    /\ since' = since \cup {x}
             /\ \A q \in Proxy : /\ pool'[q].status = "new" => pool[q].status = "new"
                                 /\ pool[q].status = "dropped" => pool'[q].status = "dropped"
  <2>1. /\ \A q \in Proxy : /\ pool'[q].status = "new" => pool[q].status = "new"
                            /\ pool[q].status = "dropped" => pool'[q].status = "dropped"
        /\ \/ p \notin Present(pool) /\ pool' = pool
           \/ p \in Present(pool) /\ Uses(pool, pool', p)
    BY <1>0, <1>b, Reported
  <2>2. CASE p \notin Present(pool)
    BY <1>b, <2>1, <2>2
  <2>3. CASE p \in Present(pool)
    <3>1. pool'[p].status # "new"
      BY <2>1, <2>3 DEF Present
    <3> QED BY <1>b, <2>1, <2>3, <3>1
  <2> QED BY <2>2, <2>3
<1>4. CASE CheckFailed
  <2>1. \/ pool' = pool /\ since' = since
        \/ /\ pool' = ReportProxy(pool, call.proxy, "check_failed")
           /\ since' = since \cup {call.proxy}
    BY <1>4 DEF CheckFailed
  <2>2. call.proxy \in Proxy /\ call.proxy \in since
    BY <1>0, <1>4 DEF CheckFailed, At, TypeInv, ChecksOne, UsedLater
  <2>3. CASE pool' = pool /\ since' = since
    BY <2>3
  <2>4. CASE /\ pool' = ReportProxy(pool, call.proxy, "check_failed")
             /\ since' = since \cup {call.proxy}
    <3>1. /\ \/ pool' = pool /\ since' = since
             \/ \E x \in Proxy : /\ Uses(pool, pool', x) /\ pool'[x].status # "new"
                                 /\ since' = since \cup {x}
          /\ \A q \in Proxy : /\ pool'[q].status = "new" => pool[q].status = "new"
                              /\ pool[q].status = "dropped" => pool'[q].status = "dropped"
      BY <1>b, <2>2, <2>4
    <3> QED BY <3>1
  <2> QED BY <2>1, <2>3, <2>4
<1>5. CASE \E p \in Proxy, reason \in {"blocked", "check_failed", "damaged"} :
              OtherReports(p, reason)
  <2>1. PICK p \in Proxy, reason \in {"blocked", "check_failed", "damaged"} :
            OtherReports(p, reason)
    BY <1>5
  <2>2. /\ pool' = ReportProxy(pool, p, reason) /\ since' = since \cup {p}
        /\ p \in Present(pool)
    BY <2>1 DEF OtherReports
  <2>3. /\ \/ pool' = pool /\ since' = since
           \/ \E x \in Proxy : /\ Uses(pool, pool', x) /\ pool'[x].status # "new"
                               /\ since' = since \cup {x}
        /\ \A q \in Proxy : /\ pool'[q].status = "new" => pool[q].status = "new"
                            /\ pool[q].status = "dropped" => pool'[q].status = "dropped"
    BY <1>b, <2>2
  <2> QED BY <2>3
<1>6. CASE \E S \in SUBSET Present(pool), u \in Updates : UpdateProxies(S, u)
  <2>1. PICK S \in SUBSET Present(pool), u \in Updates : UpdateProxies(S, u)
    BY <1>6
  <2>2. /\ u \in ProxyUpdate /\ pool' = UpdateAll(pool, S, u)
        /\ since' = IF "used" \in u.keys THEN Proxy ELSE since
    BY <2>1, CrawlHandlerAssumption DEF CrawlHandlerAssumption, UpdateProxies
  <2>3. \A q \in Proxy : /\ "used" \notin u.keys => pool'[q].used = pool[q].used
                         /\ pool'[q].status = "new" => pool[q].status = "new"
                         /\ pool[q].status = "dropped" => pool'[q].status = "dropped"
    BY <1>0, <2>2, UpdatedAll
  <2> QED BY <2>2, <2>3
<1>7. CASE ReloadProxies
  BY <1>0, <1>7, DroppedAll DEF ReloadProxies
<1>8. CASE \E p \in Proxy : LoadProxy(p)
  <2>1. PICK p \in Proxy : LoadProxy(p)
    BY <1>8
  <2>2. pool[p].status = "new" /\ pool' = CreateProxy(pool, p) /\ since' = since \cup {p}
    BY <2>1 DEF LoadProxy
  <2>3. /\ Uses(pool, pool', p) /\ pool'[p].status = "functional"
        /\ \A q \in Proxy \ {p} : pool'[q].status = pool[q].status
    BY <1>0, <2>2, CreatedProxy
  <2> QED BY <2>2, <2>3
<1> QED BY <1>1, <1>2, <1>3, <1>4, <1>5, <1>6, <1>7, <1>8 DEF Proxies, Environment

\* The worker's proxy is replaced by one that was just checked, or by none.
LEMMA WorkersProxy ==
    ASSUME TypeInv, Proxies
    PROVE  /\ \/ worker'.proxy \in {worker.proxy, NoProxy}
              \/ /\ pc = "check" /\ worker'.proxy = call.proxy
                 /\ UNCHANGED <<pool, since>>
           /\ \/ pc' \notin {"check", "deprecate"}
              \/ pc = "obtain" /\ call'.proxy \in since' /\ pool'[call'.proxy].status # "new"
              \/ pc = "check" /\ call' = call /\ UNCHANGED since
<1>0. /\ worker \in WorkerObject /\ call \in CallType /\ pool \in [Proxy -> ProxyDoc]
      /\ call.proxy \in Proxy \cup {NoProxy}
      /\ call.then \in {"setup", "before", "blocked"}
      /\ NoProxy \in Proxy \cup {NoProxy} /\ TRUE \in BOOLEAN /\ FALSE \in BOOLEAN
  BY DEF TypeInv, TypeOK, CallType
<1>1. ASSUME NEW p \in Proxy \cup {NoProxy}, NEW g \in BOOLEAN, Return(p, g, call.then)
      PROVE  worker'.proxy \in {worker.proxy, p} /\ pc' \in {"prepare", "restart", "debug", "setup"}
  BY <1>0, <1>1, ReturnStep
<1>2. CASE ReportBlocked
  <2>1. \/ Return(NoProxy, FALSE, call.then)
        \/ pc' = "obtain" /\ worker' = worker
    BY <1>2 DEF ReportBlocked, ObtainUnlessRotating, Goto
  <2> QED BY <1>0, <1>1, <2>1
<1>3. ASSUME NEW p \in Proxy, GetProxy(p) 
      PROVE  /\ worker' = worker /\ pc = "obtain" /\ call'.proxy \in since'
             /\ pool'[call'.proxy].status # "new"
  <2>1. /\ worker' = worker /\ pc = "obtain" /\ call'.proxy = p /\ p \in since'
        /\ pool' = Touch(pool, p) /\ pool[p].status = "functional"
    BY <1>0, <1>3 DEF GetProxy, At, browserVars, CallType, Obtain, Preferred, Obtainable
  <2>2. pool'[p].status = "functional"
    BY <1>0, <2>1, TouchedLast
  <2> QED BY <2>1, <2>2
<1>4. CASE GetNoProxy
  <2>1. Return(NoProxy, TRUE, call.then)
    BY <1>4 DEF GetNoProxy
  <2> QED BY <1>0, <1>1, <2>1
<1>5. CASE CheckProxy
  <2>1. /\ pc = "check" /\ UNCHANGED <<pool, since, call>>
        /\ \/ Return(call.proxy, FALSE, call.then)
           \/ worker' = worker
    BY <1>5 DEF CheckProxy, At, poolVars
  <2>2. worker'.proxy \in {worker.proxy, call.proxy}
    BY <1>0, <1>1, <2>1
  <2> QED BY <2>1, <2>2
<1>6. CASE CheckFailed
  <2>1. \/ Return(NoProxy, TRUE, call.then)
        \/ pc' = "obtain" /\ worker' = worker
    BY <1>6 DEF CheckFailed, Goto
  <2> QED BY <1>0, <1>1, <2>1
<1> QED BY <1>2, <1>3, <1>4, <1>5, <1>6 DEF Proxies

\* Nobody but a search looks for another proxy.
LEMMA SettingUpProxy ==
    ASSUME TypeInv, SettingUp
    PROVE  worker'.proxy \in {worker.proxy, NoProxy} /\ pc' \notin {"check", "deprecate"}
<1>0. /\ worker \in WorkerObject /\ after \in {"next", "crawl", "debug"}
      /\ browsers \in Nat /\ unclosed \in Nat /\ faults \in Nat /\ OwnRuns
  BY DEF TypeInv, TypeOK
<1>1. CASE Setup
  <2>1. \/ AskForProxy("none", "setup")
        \/ /\ pc' \in {"prepare", "final"}
           /\ worker' \in {worker, [worker EXCEPT !.relay = TRUE]}
    BY <1>1 DEF Setup, Goto, Throw
  <2>2. [worker EXCEPT !.relay = TRUE].proxy = worker.proxy
    BY <1>0 DEF WorkerObject
  <2> QED BY <1>0, <2>1, <2>2, AskStep
<1>2. CASE SetupHttp
  BY <1>0, <1>2 DEF SetupHttp, SetupReturns, Goto, Throw, browserVars
<1>3. CASE StartBrowser
  BY <1>0, <1>3 DEF StartBrowser, Goto, WorkerObject
<1>4. CASE SetupPage
  <2>1. /\ \E b \in BOOLEAN : worker' = [worker EXCEPT !.page = b]
        /\ pc' \in {"next", "crawl", "debug", "final", "setup_failed"}
    BY <1>0, <1>4 DEF SetupPage, SetupReturns, Goto
  <2> QED BY <1>0, <2>1 DEF WorkerObject
<1>5. CASE SetupFailed
  <2>1. (Cleanup \/ CleanupThrows) /\ pc' \in {"next", "crawl", "debug", "final"}
    BY <1>0, <1>5 DEF SetupFailed, SetupReturns, Goto, Throw
  <2> QED BY <1>0, <2>1, CleanupStep
<1> QED BY <1>1, <1>2, <1>3, <1>4, <1>5 DEF SettingUp

LEMMA EndingProxy ==
    ASSUME TypeInv, Ending
    PROVE  worker'.proxy = worker.proxy
<1>0. /\ worker \in WorkerObject /\ browsers \in Nat /\ unclosed \in Nat
      /\ faults \in Nat /\ OwnRuns
  BY DEF TypeInv, TypeOK
<1>1. CASE FinalCleanup \/ CleanupFails
  <2>1. Cleanup \/ CleanupThrows
    BY <1>1 DEF FinalCleanup, CleanupFails
  <2> QED BY <1>0, <2>1, CleanupStep
<1>2. CASE StoreMerged \/ StoreItem
  BY <1>2 DEF StoreMerged, StoreItem, browserVars
<1> QED BY <1>1, <1>2 DEF Ending

LEMMA UsedLaterNext == TypeInv /\ UsedLater /\ [Next]_vars => UsedLater'
<1> SUFFICES ASSUME TypeInv, UsedLater, [Next]_vars PROVE UsedLater'
  OBVIOUS
<1>0. /\ pool \in [Proxy -> ProxyDoc] /\ since \in SUBSET Proxy
      /\ worker.proxy \in Proxy \cup {NoProxy}
      /\ TypeInv'
  BY TypeNext DEF TypeInv, TypeOK, WorkerObject
<1>1. pool' \in [Proxy -> ProxyDoc]
  BY <1>0 DEF TypeInv, TypeOK
\* The pool moves, the worker keeps its proxy or drops it.
<1>a. ASSUME Proxies \/ Environment
      PROVE  /\ UsedAfter(pool', since')
             /\ BlockedLast(pool', since', worker.proxy)
             /\ pc \in {"check", "deprecate"} => pool'[call.proxy].status # "new"
             /\ worker.proxy # NoProxy => pool'[worker.proxy].status # "new"
  <2>1. \A q \in Proxy : /\ pool'[q].status = "new" => pool[q].status = "new"
                         /\ pool[q].status = "dropped" => pool'[q].status = "dropped"
    BY <1>a, PoolSteps
  <2>2. /\ worker.proxy # NoProxy => pool'[worker.proxy].status # "new"
        /\ pc \in {"check", "deprecate"} => pool'[call.proxy].status # "new"
    BY <1>0, <2>1 DEF UsedLater, TypeInv, ChecksOne
  <2>3. CASE /\ pool' = pool /\ since' \in {since, {}}
             /\ since' = {} => since = {}
                  \/ (worker.proxy # NoProxy => pool[worker.proxy].status = "dropped")
    BY <2>2, <2>3 DEF UsedLater, UsedAfter, BlockedLast
  <2>4. ASSUME NEW p \in Proxy, Uses(pool, pool', p), pool'[p].status # "new",
               since' = since \cup {p}
        PROVE  UsedAfter(pool', since') /\ BlockedLast(pool', since', worker.proxy)
    <3>1. UsedAfter(pool, since) /\ BlockedLast(pool, since, worker.proxy)
      BY DEF UsedLater
    <3>2. worker.proxy # NoProxy /\ pool[worker.proxy].status = "dropped"
              => pool'[worker.proxy].status = "dropped"
      BY <1>0, <2>1
    <3>3. /\ UsedAfter(pool', since \cup {p})
          /\ BlockedLast(pool', since \cup {p}, worker.proxy)
      BY <1>0, <1>1, <2>4, <3>1, <3>2, UseKeepsOrder
    <3> QED BY <2>4, <3>3
  <2>5. ASSUME NEW p \in Proxy, Uses(pool, pool', p), since' = {}, p = worker.proxy
        PROVE  UsedAfter(pool', since') /\ BlockedLast(pool', since', worker.proxy)
    BY <2>5 DEF UsedAfter, BlockedLast, Uses
  <2>6. CASE since' = since /\ \A q \in Proxy : pool'[q].used = pool[q].used
    BY <1>0, <2>1, <2>2, <2>6 DEF UsedLater, UsedAfter, BlockedLast
  <2>7. CASE since' = Proxy
    <3>1. \A x \in Proxy \ since' : FALSE
      BY <2>7
    <3> QED BY <2>2, <3>1 DEF UsedAfter, BlockedLast
  <2> QED BY <1>a, <2>2, <2>3, <2>4, <2>5, <2>6, <2>7, PoolSteps
<1>2. CASE Proxies
  <2>1. BlockedLast(pool', since', worker'.proxy)
        /\ (worker'.proxy # NoProxy => pool'[worker'.proxy].status # "new")
    <3>1. CASE worker'.proxy \in {worker.proxy, NoProxy}
      BY <1>2, <1>a, <3>1 DEF BlockedLast
    <3>2. CASE /\ pc = "check" /\ worker'.proxy = call.proxy /\ UNCHANGED <<pool, since>>
      BY <1>0, <3>2 DEF UsedLater, UsedAfter, BlockedLast
    <3> QED BY <1>2, <3>1, <3>2, WorkersProxy
  <2>2. pc' \in {"check", "deprecate"}
            => call'.proxy \in since' /\ pool'[call'.proxy].status # "new"
    BY <1>2, <1>a, WorkersProxy DEF UsedLater
  <2> QED BY <1>2, <1>a, <2>1, <2>2 DEF UsedLater
<1>3. CASE Environment
  <2>1. UNCHANGED <<pc, call, worker>>
    BY <1>3, EnvironmentFrame DEF NotTheWorker, browserVars
  <2>2. \A p \in since : p \in since'
    BY <1>0, <1>3 DEF Environment, OtherObtains, OtherReports, UpdateProxies, ReloadProxies, LoadProxy
  <2> QED BY <1>3, <1>a, <2>1, <2>2 DEF UsedLater
<1>4. CASE NoWorker \/ SettingUp \/ Loop \/ Ending \/ UNCHANGED vars
  <2>1. pool' = pool /\ since' = since
    BY <1>4, SettingUpFrame, LoopFrame
       DEF NoWorker, Ending, FinalCleanup, CleanupFails, StoreMerged, StoreItem, poolVars,
           vars
  <2>2. worker'.proxy \in {worker.proxy, NoProxy}
    <3>1. CASE SettingUp
      BY <3>1, SettingUpProxy
    <3>2. CASE Loop
      BY <3>2, LoopFrame
    <3>3. CASE Ending
      BY <3>3, EndingProxy
    <3> QED BY <1>4, <3>1, <3>2, <3>3 DEF NoWorker, vars, browserVars
  <2>3. pc' \in {"check", "deprecate"} => pc' = pc /\ call' = call
    <3>1. CASE SettingUp
      BY <3>1, SettingUpProxy
    <3>2. CASE Loop
      BY <3>2, LoopFrame
    <3>3. CASE Ending
      BY <3>3 DEF Ending, FinalCleanup, CleanupFails, StoreMerged, StoreItem, Goto
    <3> QED BY <1>4, <3>1, <3>2, <3>3 DEF NoWorker, Goto, vars
  <2> QED BY <2>1, <2>2, <2>3 DEF UsedLater, BlockedLast
<1> QED BY <1>2, <1>3, <1>4 DEF Next, Step

\* A worker that was blocked does not come back to the proxy that blocked it
\* while others are left that nobody used since.
THEOREM BlockedProxiesRest == Spec => BlockedIsAvoided
<1> DEFINE Avoids ==
        \A p \in Proxy :
          At("obtain") /\ call.then = "blocked" /\ worker.proxy = p /\ call'.proxy = p
             /\ call.proxy = NoProxy
             => \A q \in Obtainable(pool, call.filter) \ {p} :
                   q \in since \/ pool[q].fails > pool[p].fails
<1>1. TypeInv /\ UsedLater /\ [Next]_vars => Avoids
  <2> SUFFICES ASSUME TypeInv, UsedLater, [Next]_vars, NEW p \in Proxy,
                      At("obtain"), worker.proxy = p, call'.proxy = p, call.proxy = NoProxy,
                      NEW q \in Obtainable(pool, call.filter) \ {p}, q \notin since
               PROVE  pool[q].fails > pool[p].fails
    OBVIOUS
  <2>0. /\ p # NoProxy /\ pool \in [Proxy -> ProxyDoc] /\ q \in Proxy /\ call \in CallType
    <3>1. p # NoProxy
      BY CrawlHandlerAssumption DEF CrawlHandlerAssumption
    <3>2. pool \in [Proxy -> ProxyDoc] /\ call \in CallType
      BY DEF TypeInv, TypeOK, CallType
    <3>3. q \in OfType(call.filter)
      BY DEF Obtainable
    <3>4. q \in Proxy
      BY <3>3, ProxyPoolAssumption DEF OfType, ProxyPoolAssumption
    <3> QED BY <3>1, <3>2, <3>4
  <2>1. GetProxy(p)
    <3>1. pc = "obtain"
      BY DEF At
    <3>2. ~SettingUp
      BY <3>1 DEF SettingUp, Setup, SetupHttp, StartBrowser, SetupPage, SetupFailed, At
    <3>a. ~NoWorker
      BY <3>1 DEF NoWorker, At
    <3>3. ~Loop
      BY <3>1, LoopFrame
    <3>4. ~Ending
      BY <3>1 DEF Ending, FinalCleanup, CleanupFails, StoreMerged, StoreItem, At
    <3>5. ~Environment /\ ~(UNCHANGED vars)
      BY <2>0, EnvironmentFrame DEF NotTheWorker, vars
    <3>6. Proxies
      BY <3>2, <3>a, <3>3, <3>4, <3>5 DEF Next, Step
    <3>7. GetNoProxy \/ \E x \in Proxy : GetProxy(x)
      BY <3>1, <3>6 DEF Proxies, ReportBlocked, CheckProxy, CheckFailed, At
    <3>8. ~GetNoProxy
      BY <2>0 DEF GetNoProxy
    <3>9. PICK x \in Proxy : GetProxy(x)
      BY <3>7, <3>8
    <3>10. call'.proxy = x
      BY <2>0, <3>9 DEF GetProxy, CallType
    <3> QED BY <3>9, <3>10
  <2>2. NoWorse(pool, p, q) /\ pool[p].status = "functional"
    BY <2>1 DEF GetProxy, Preferred, Obtainable
  <2>3. pool[q].used < pool[p].used
    BY <2>0, <2>2 DEF UsedLater, BlockedLast
  <2> QED BY <2>0, <2>2, <2>3 DEF NoWorse, ProxyDoc
<1>2. BlockedIsAvoided <=> [][Avoids]_vars
  BY DEF BlockedIsAvoided
<1> QED BY TypeInit, TypeNext, UsedLaterInit, UsedLaterNext, <1>1, <1>2, PTL DEF Spec
-----------------------------------------------------------------------------
(* The crawl is bounded. *)

\* How many steps a search for a proxy takes at most, a setup() with its search,
\* what follows a block, and an item.
SearchSteps == 3 * MaxAttempts

SetupSteps == SearchSteps + 4

CrawlSteps == SetupSteps + SearchSteps + 3

ItemSteps == CrawlSteps + SetupSteps + SearchSteps + 3

SearchLeft == CASE pc = "report" -> SearchSteps + 1
                [] pc = "obtain" -> 3 * call.left
                [] pc = "check" -> 3 * call.left - 1
                [] pc = "deprecate" -> 3 * call.left - 2

SetupLeft == CASE pc = "setup" -> SetupSteps
               [] pc = "prepare" -> 3
               [] pc = "setup_page" -> 2
               [] pc = "setup_failed" -> 1
               [] Searching -> 3 + SearchLeft

\* What is left when setup() returns.
LeftAfter == CASE after = "debug" -> 1
               [] after = "crawl" -> CrawlSteps
               [] after = "next" -> ItemSteps

SettingUpNow == \/ pc \in {"setup", "prepare", "setup_page", "setup_failed"}
                \/ (Searching /\ call.then = "setup")

ItemLeft == CASE pc = "debug" -> 1
              [] pc = "crawl" -> CrawlSteps
              [] pc = "restart" -> CrawlSteps + SetupSteps + 1
              [] pc = "renew" -> ItemSteps - 1
              [] pc = "next" -> ItemSteps
              [] SettingUpNow -> LeftAfter + SetupLeft
              [] Searching /\ call.then = "blocked" -> 1 + SetupSteps + SearchLeft
              [] Searching /\ call.then = "before" -> CrawlSteps + SetupSteps + 1 + SearchLeft

\* How many steps of the worker the rest of the crawl takes at most.
StepsLeft == CASE pc = "end" -> 0
               [] pc = "store" -> NumItems + 2 - at
               [] pc = "final" -> NumItems + 2
               [] pc = "finish" -> NumItems + 3
               [] OTHER -> NumItems + 3 + ItemSteps * (NumItems + 1 - at) + ItemLeft

\* How often setup() is still called for the item at hand.
FromNext == IF at = 1 THEN 1 ELSE 2

SetupsAfter == CASE after = "debug" -> 0
                 [] after = "crawl" -> 1
                 [] after = "next" -> FromNext

SetupsAhead == CASE pc = "debug" -> 0
                 [] pc = "crawl" -> 1
                 [] pc \in {"next", "renew", "restart"} -> FromNext
                 [] pc = "setup" -> 1 + SetupsAfter
                 [] pc # "setup" /\ SettingUpNow -> SetupsAfter
                 [] Searching /\ call.then = "blocked" -> 1
                 [] Searching /\ call.then = "before" -> FromNext

\* Two calls per item, and one browser per call.
SetupBudget ==
    /\ InLoop => setups + SetupsAhead <= 2 * at
    /\ ~InLoop => setups <= 2 * NumItems
    /\ browsers <= setups
    /\ SettingUpNow /\ (pc = "prepare" \/ Searching) => browsers < setups


\* The ways a step of the worker goes on.
Within ==
    /\ InLoop /\ InLoop'
    /\ at' = at
    /\ ItemLeft' < ItemLeft
    /\ setups' + SetupsAhead' <= setups + SetupsAhead

ToNext ==
    /\ pc \in {"crawl", "debug"} /\ pc' = "next"
    /\ at' = at + 1
    /\ setups' = setups

Leaves ==
    /\ InLoop
    /\ pc' \in {"finish", "final"} \/ (pc' = "store" /\ at' \in Nat)
    /\ \/ pc # "next" /\ setups' <= setups + SetupsAhead
       \/ pc = "next" /\ at > NumItems /\ setups' = setups

Ends ==
    /\ ~InLoop /\ ~InLoop'
    /\ StepsLeft' < StepsLeft
    /\ setups' = setups

LEMMA StepNumbers ==
    /\ SearchSteps \in Nat \ {0}
    /\ SetupSteps = SearchSteps + 4
    /\ CrawlSteps = 2 * SearchSteps + 7
    /\ ItemSteps = 4 * SearchSteps + 14
    /\ \A c \in CallType : c.left \in Nat \ {0} /\ 3 * c.left <= SearchSteps
BY CrawlHandlerAssumption
   DEF CrawlHandlerAssumption, SearchSteps, SetupSteps, CrawlSteps, ItemSteps, CallType

LEMMA SearchNumbers ==
    ASSUME call \in CallType, Searching
    PROVE  SearchLeft \in 1 .. SearchSteps + 1
<1>1. /\ SearchSteps \in Nat /\ call.left \in Nat \ {0} /\ 3 * call.left <= SearchSteps
  BY StepNumbers
<1> QED BY <1>1 DEF SearchLeft, Searching

\* Inside an item there is at least one step left, and at most two setups.
LEMMA ItemNumbersLeft ==
    TypeInv => (InLoop => ItemLeft \in Nat \ {0} /\ SetupsAhead \in 0 .. 3)
<1> SUFFICES ASSUME TypeInv, InLoop
             PROVE  ItemLeft \in Nat \ {0} /\ SetupsAhead \in 0 .. 3
  OBVIOUS
<1>1. /\ call \in CallType /\ after \in {"next", "crawl", "debug"}
      /\ call.then \in {"setup", "before", "blocked"}
      /\ pc \in {"setup", "report", "obtain", "check", "deprecate", "prepare",
                 "setup_page", "setup_failed", "next", "renew", "restart", "crawl", "debug"}
  BY DEF TypeInv, TypeOK, CallType, InLoop
<1>2. /\ SearchSteps \in Nat \ {0} /\ SetupSteps = SearchSteps + 4
      /\ CrawlSteps = 2 * SearchSteps + 7 /\ ItemSteps = 4 * SearchSteps + 14
  BY StepNumbers
<1>3. Searching => SearchLeft \in Nat \ {0}
  BY <1>1, <1>2, SearchNumbers
<1>4. LeftAfter \in Nat \ {0} /\ SetupsAfter \in 0 .. 2 /\ FromNext \in 0 .. 2
  BY <1>1, <1>2 DEF LeftAfter, SetupsAfter, FromNext
<1>5. SettingUpNow => SetupLeft \in Nat \ {0}
  BY <1>1, <1>2, <1>3 DEF SetupLeft, SettingUpNow, Searching
<1>6. ItemLeft \in Nat \ {0}
  BY <1>1, <1>2, <1>3, <1>4, <1>5 DEF ItemLeft, SettingUpNow, Searching
<1>7. SetupsAhead \in 0 .. 3
  BY <1>1, <1>4 DEF SetupsAhead, SettingUpNow, Searching
<1> QED BY <1>6, <1>7

\* The same, one place after the other.
StepsByPlace ==
    /\ pc = "debug" => ItemLeft = 1 /\ SetupsAhead = 0
    /\ pc = "crawl" => ItemLeft = CrawlSteps /\ SetupsAhead = 1
    /\ pc = "restart" => ItemLeft = CrawlSteps + SetupSteps + 1 /\ SetupsAhead = FromNext
    /\ pc = "renew" => ItemLeft = ItemSteps - 1 /\ SetupsAhead = FromNext
    /\ pc = "next" => ItemLeft = ItemSteps /\ SetupsAhead = FromNext
    /\ pc = "setup" => ItemLeft = LeftAfter + SetupSteps /\ SetupsAhead = 1 + SetupsAfter
    /\ pc = "prepare" => ItemLeft = LeftAfter + 3 /\ SetupsAhead = SetupsAfter
    /\ pc = "setup_page" => ItemLeft = LeftAfter + 2 /\ SetupsAhead = SetupsAfter
    /\ pc = "setup_failed" => ItemLeft = LeftAfter + 1 /\ SetupsAhead = SetupsAfter
    /\ Searching /\ call.then = "setup"
           => ItemLeft = LeftAfter + (3 + SearchLeft) /\ SetupsAhead = SetupsAfter
    /\ Searching /\ call.then = "blocked"
           => ItemLeft = 1 + SetupSteps + SearchLeft /\ SetupsAhead = 1
    /\ Searching /\ call.then = "before"
           => ItemLeft = CrawlSteps + SetupSteps + 1 + SearchLeft /\ SetupsAhead = FromNext

LEMMA StepsAt == StepsByPlace
<1>1. /\ pc = "debug" => ItemLeft = 1 /\ SetupsAhead = 0
      /\ pc = "crawl" => ItemLeft = CrawlSteps /\ SetupsAhead = 1
      /\ pc = "restart" => ItemLeft = CrawlSteps + SetupSteps + 1 /\ SetupsAhead = FromNext
      /\ pc = "renew" => ItemLeft = ItemSteps - 1 /\ SetupsAhead = FromNext
      /\ pc = "next" => ItemLeft = ItemSteps /\ SetupsAhead = FromNext
  BY DEF ItemLeft, SetupsAhead, SettingUpNow, Searching
<1>2. /\ pc = "setup" => SetupLeft = SetupSteps
      /\ pc = "prepare" => SetupLeft = 3
      /\ pc = "setup_page" => SetupLeft = 2
      /\ pc = "setup_failed" => SetupLeft = 1
      /\ Searching => SetupLeft = 3 + SearchLeft
  BY DEF SetupLeft, Searching
<1>4. /\ pc = "setup" => SetupsAhead = 1 + SetupsAfter
      /\ pc \in {"prepare", "setup_page", "setup_failed"} => SetupsAhead = SetupsAfter
  BY DEF SetupsAhead, SettingUpNow, Searching
<1>6. Searching /\ call.then = "setup" => SetupsAhead = SetupsAfter
  BY DEF SetupsAhead, SettingUpNow, Searching
<1>7. /\ Searching /\ call.then = "blocked" => SetupsAhead = 1
      /\ Searching /\ call.then = "before" => SetupsAhead = FromNext
  BY DEF SetupsAhead, SettingUpNow, Searching
<1>5. /\ pc \in {"setup", "prepare", "setup_page", "setup_failed"} \/ (Searching /\ call.then = "setup")
             => ItemLeft = LeftAfter + SetupLeft
      /\ Searching /\ call.then = "blocked" => ItemLeft = 1 + SetupSteps + SearchLeft
      /\ Searching /\ call.then = "before" => ItemLeft = CrawlSteps + SetupSteps + 1 + SearchLeft
  BY DEF ItemLeft, SettingUpNow, Searching
<1>8. Searching /\ call.then = "setup" => ItemLeft = LeftAfter + (3 + SearchLeft)
  BY <1>2, <1>5
<1> QED BY <1>1, <1>2, <1>4, <1>5, <1>6, <1>7, <1>8 DEF StepsByPlace

SearchByPlace ==
    /\ pc = "report" => SearchLeft = SearchSteps + 1
    /\ pc = "obtain" => SearchLeft = 3 * call.left
    /\ pc = "check" => SearchLeft = 3 * call.left - 1
    /\ pc = "deprecate" => SearchLeft = 3 * call.left - 2

LEMMA SearchAt == SearchByPlace
BY DEF SearchLeft, SearchByPlace

\* The steps of the items that follow.
LEMMA FollowingSteps ==
    ASSUME NEW k \in 1 .. NumItems + 1
    PROVE  /\ ItemSteps * (NumItems + 1 - k) \in Nat
           /\ k <= NumItems => ItemSteps * (NumItems + 1 - k)
                                   = ItemSteps * (NumItems + 1 - (k + 1)) + ItemSteps
<1>1. ItemSteps \in Nat /\ NumItems \in Nat
  BY StepNumbers, ItemNumbers
<1> DEFINE W == ItemSteps
           m == NumItems + 1 - k
           n == NumItems + 1 - (k + 1)
<1>2. m \in Nat /\ n \in Int /\ m = n + 1 /\ (k <= NumItems => n \in Nat) /\ W \in Nat
  BY <1>1
<1> HIDE DEF W, m, n
<1>3. W * m \in Nat /\ W * m = W * n + W
  BY <1>2
<1> QED BY <1>3 DEF W, m, n

LEMMA StepsLeftInLoop ==
    InLoop => StepsLeft = NumItems + 3 + ItemSteps * (NumItems + 1 - at) + ItemLeft
BY DEF InLoop, StepsLeft

\* There is a natural number of steps left.
LEMMA StepsLeftNumber == TypeInv => StepsLeft \in Nat
<1> SUFFICES ASSUME TypeInv PROVE StepsLeft \in Nat
  OBVIOUS
<1>1. NumItems \in Nat /\ at \in 1 .. NumItems + 1
  BY ItemNumbers DEF TypeInv, TypeOK
<1>2. CASE InLoop
  <2>1. ItemSteps * (NumItems + 1 - at) \in Nat /\ ItemLeft \in Nat
    BY <1>1, <1>2, FollowingSteps, ItemNumbersLeft
  <2> QED BY <1>1, <1>2, <2>1, StepsLeftInLoop
<1>3. CASE ~InLoop
  BY <1>1, <1>3 DEF InLoop, StepsLeft
<1> QED BY <1>2, <1>3

\* Each way uses up steps and keeps to the budget.
LEMMA UsesUp ==
    ASSUME TypeInv, TypeInv', Within \/ ToNext \/ Leaves \/ Ends
    PROVE  StepsLeft' < StepsLeft
<1> DEFINE following == ItemSteps * (NumItems + 1 - at)
<1>1. NumItems \in Nat /\ at \in 1 .. NumItems + 1 /\ at' \in 1 .. NumItems + 1
  BY ItemNumbers DEF TypeInv, TypeOK
<1>2. following \in Nat
  BY <1>1, FollowingSteps
<1>3. InLoop => ItemLeft \in Nat \ {0}
  BY ItemNumbersLeft
<1>4. InLoop' => ItemLeft' \in Nat \ {0}
  <2>1. TypeInv' => (InLoop => ItemLeft \in Nat \ {0} /\ SetupsAhead \in 0 .. 3)'
    BY ItemNumbersLeft, PTL
  <2> QED BY <2>1
<1>5. InLoop => StepsLeft = NumItems + 3 + following + ItemLeft
  BY StepsLeftInLoop
<1>6. InLoop' => StepsLeft' = NumItems + 3 + ItemSteps * (NumItems + 1 - at') + ItemLeft'
  <2>1. (InLoop => StepsLeft = NumItems + 3 + ItemSteps * (NumItems + 1 - at) + ItemLeft)'
    BY StepsLeftInLoop, PTL
  <2> QED BY <2>1
<1>7. CASE Within
  <2>1. StepsLeft' = NumItems + 3 + following + ItemLeft'
    BY <1>6, <1>7 DEF Within
  <2> HIDE DEF following
  <2> QED BY <1>1, <1>2, <1>3, <1>4, <1>5, <1>7, <2>1 DEF Within
<1>8. CASE ToNext
  <2>1. InLoop /\ InLoop' /\ at' = at + 1 /\ ItemLeft' = ItemSteps
    <3>1. StepsByPlace'
      BY StepsAt, PTL
    <3> QED BY <1>8, <3>1 DEF ToNext, InLoop, StepsByPlace
  <2> DEFINE less == ItemSteps * (NumItems + 1 - (at + 1))
  <2>2. at <= NumItems
    BY <1>1, <2>1
  <2>3. following = less + ItemSteps
    BY <1>1, <2>2, FollowingSteps
  <2>4. less \in Nat
    BY <1>1, <2>1, FollowingSteps
  <2>5. StepsLeft' = NumItems + 3 + less + ItemSteps
    BY <1>6, <2>1
  <2>6. ItemSteps \in Nat
    BY StepNumbers
  <2> HIDE DEF following, less
  <2> QED BY <1>1, <1>3, <1>5, <2>1, <2>3, <2>4, <2>5, <2>6
<1>9. CASE Leaves
  <2>1. /\ InLoop
        /\ \/ StepsLeft' = NumItems + 2 - at'
           \/ StepsLeft' = NumItems + 2
           \/ StepsLeft' = NumItems + 3
    BY <1>9 DEF Leaves, StepsLeft, NumItems
  <2> HIDE DEF following
  <2>2. StepsLeft \in Nat /\ StepsLeft > NumItems + 3
    BY <1>1, <1>2, <1>3, <1>5, <2>1
  <2> QED BY <1>1, <2>1, <2>2
<1> QED BY <1>7, <1>8, <1>9 DEF Ends

LEMMA KeepsTo ==
    ASSUME TypeInv, TypeInv', SetupBudget, Within \/ ToNext \/ Leaves \/ Ends
    PROVE  /\ InLoop' => setups' + SetupsAhead' <= 2 * at'
           /\ ~InLoop' => setups' <= 2 * NumItems
<1>1. /\ NumItems \in Nat /\ at \in 1 .. NumItems + 1 /\ at' \in 1 .. NumItems + 1
      /\ setups \in Nat /\ setups' \in Nat
  BY ItemNumbers DEF TypeInv, TypeOK
<1>2. InLoop => SetupsAhead \in Nat
  BY ItemNumbersLeft
<1>3. CASE Within
  <2>1. TypeInv' => (InLoop => ItemLeft \in Nat \ {0} /\ SetupsAhead \in 0 .. 3)'
    BY ItemNumbersLeft, PTL
  <2> QED BY <1>1, <1>2, <1>3, <2>1 DEF Within, SetupBudget
<1>4. CASE ToNext
  <2>1. /\ InLoop /\ InLoop' /\ at' = at + 1 /\ setups' = setups
        /\ SetupsAhead' = FromNext'
    <3>1. StepsByPlace'
      BY StepsAt, PTL
    <3> QED BY <1>4, <3>1 DEF ToNext, InLoop, StepsByPlace
  <2>2. SetupsAhead' = 2
    BY <1>1, <2>1 DEF FromNext
  <2> QED BY <1>1, <1>2, <2>1, <2>2 DEF SetupBudget
<1>5. CASE Leaves
  <2>1. InLoop /\ ~InLoop'
    BY <1>5 DEF Leaves, InLoop
  <2>2. CASE pc # "next" /\ setups' <= setups + SetupsAhead
    <3>1. at <= NumItems
      BY <2>1, <2>2 DEF TypeInv, AtAnItem, InLoop
    <3> QED BY <1>1, <1>2, <2>1, <2>2, <3>1 DEF SetupBudget
  <2>3. CASE pc = "next" /\ at > NumItems /\ setups' = setups
    <3>1. SetupsAhead = 2
      BY <1>1, <2>3, StepsAt, ItemNumbers DEF FromNext, StepsByPlace
    <3> QED BY <1>1, <2>1, <2>3, <3>1 DEF SetupBudget
  <2> QED BY <1>5, <2>2, <2>3 DEF Leaves
<1>6. CASE Ends
  BY <1>6 DEF Ends, SetupBudget
<1> QED BY <1>3, <1>4, <1>5, <1>6

\* A part that grows less makes the sum less.
LEMMA PartOfSum ==
    /\ \A a, b, c \in Int : a < b => c + a < c + b
    /\ \A a, b, c \in Int : a <= b => c + a <= c + b
OBVIOUS

\* A search takes a step towards its end.
LEMMA SearchAdvances ==
    ASSUME TypeInv, Proxies, Searching'
    PROVE  SearchLeft' \in Int /\ SearchLeft' < SearchLeft
<1>0. /\ call \in CallType /\ worker \in WorkerObject /\ call.then \in {"setup", "before", "blocked"}
      /\ call.proxy \in Proxy \cup {NoProxy} /\ call.left \in Nat \ {0}
      /\ 3 * call.left <= SearchSteps /\ SearchSteps \in Nat
  BY StepNumbers DEF TypeInv, TypeOK, CallType
<1>1. SearchByPlace /\ SearchByPlace'
  BY SearchAt, PTL
<1>2. ASSUME NEW p \in Proxy \cup {NoProxy}, NEW g \in BOOLEAN, Return(p, g, call.then)
      PROVE  FALSE
  <2>1. pc' \in {"prepare", "restart", "debug", "setup"}
    BY <1>0, <1>2, ReturnStep
  <2> QED BY <2>1 DEF Searching
<1>3. NoProxy \in Proxy \cup {NoProxy} /\ TRUE \in BOOLEAN /\ FALSE \in BOOLEAN
  OBVIOUS
<1>4. CASE ReportBlocked
  <2>1. pc = "report" /\ pc' = "obtain" /\ call' = call
    BY <1>2, <1>3, <1>4 DEF ReportBlocked, At, ObtainUnlessRotating, Goto
  <2> QED BY <1>0, <1>1, <2>1 DEF SearchByPlace
<1>5. CASE \E p \in Proxy : GetProxy(p)
  <2>1. PICK p \in Proxy : call' = [call EXCEPT !.proxy = p]
    BY <1>5 DEF GetProxy
  <2>2. pc = "obtain" /\ pc' = "check" /\ call'.left = call.left
    BY <1>0, <1>5, <2>1 DEF GetProxy, At, Goto, CallType
  <2> QED BY <1>0, <1>1, <2>2 DEF SearchByPlace
<1>6. CASE GetNoProxy
  BY <1>2, <1>3, <1>6 DEF GetNoProxy
<1>7. CASE CheckProxy
  <2>1. pc = "check" /\ pc' = "deprecate" /\ call' = call
    BY <1>0, <1>2, <1>3, <1>7 DEF CheckProxy, At, Goto
  <2> QED BY <1>0, <1>1, <2>1 DEF SearchByPlace
<1>8. CASE CheckFailed
  <2>1. pc = "deprecate" /\ pc' = "obtain" /\ call' = [call EXCEPT !.left = call.left - 1]
    BY <1>2, <1>3, <1>8 DEF CheckFailed, At, Goto
  <2>2. call'.left = call.left - 1
    BY <1>0, <2>1 DEF CallType
  <2> QED BY <1>0, <1>1, <2>1, <2>2 DEF SearchByPlace
<1> QED BY <1>4, <1>5, <1>6, <1>7, <1>8 DEF Proxies

LEMMA ProxiesAdvance == TypeInv /\ Proxies => Within
<1> SUFFICES ASSUME TypeInv, Proxies PROVE Within
  OBVIOUS
<1>7. setups \in Nat
  BY DEF TypeInv, TypeOK
<1>0. /\ Searching /\ at' = at /\ setups' = setups /\ call'.then = call.then
      /\ call \in CallType /\ call.then \in {"setup", "before", "blocked"}
      /\ after \in {"next", "crawl", "debug"}
  BY ProxiesFrame DEF TypeInv, TypeOK, CallType, loopVars
<1>1. /\ SearchSteps \in Nat \ {0} /\ SetupSteps = SearchSteps + 4
      /\ CrawlSteps = 2 * SearchSteps + 7 /\ ItemSteps = 4 * SearchSteps + 14
  BY StepNumbers
<1>2. StepsByPlace /\ StepsByPlace'
  BY StepsAt, PTL
<1>3. SearchLeft \in Nat \ {0}
  BY <1>0, <1>1, SearchNumbers
<1>4. InLoop
  BY <1>0 DEF InLoop, Searching
<1>5. LeftAfter \in Nat /\ SetupsAfter \in Nat /\ FromNext \in Nat
  BY <1>0, <1>1 DEF LeftAfter, SetupsAfter, FromNext
<1>6. /\ FromNext' = FromNext
      /\ after' = after => LeftAfter' = LeftAfter /\ SetupsAfter' = SetupsAfter
      /\ after' = "debug" => LeftAfter' = 1 /\ SetupsAfter' = 0
  BY <1>0 DEF LeftAfter, SetupsAfter, FromNext
<1>b. ASSUME SetupsAhead \in Int, SetupsAhead' \in Int,
             InLoop', ItemLeft' < ItemLeft, SetupsAhead' <= SetupsAhead
      PROVE  Within
  <2>1. setups \in Int
    BY <1>7
  <2>2. setups + SetupsAhead' <= setups + SetupsAhead
    BY <1>b, <2>1, PartOfSum, Zenon
  <2> QED BY <1>0, <1>4, <1>b, <2>2 DEF Within
<1>8. CASE Searching' /\ after' = after
  <2>1. SearchLeft' \in Int /\ SearchLeft' < SearchLeft
    BY <1>8, SearchAdvances
  <2>2. InLoop'
    BY <1>8 DEF InLoop, Searching
  <2>3. CASE call.then = "setup"
    <3>1. Searching /\ call.then = "setup" /\ (Searching /\ call.then = "setup")' 
      BY <1>0, <1>8, <2>3
    <3>2. /\ ItemLeft = LeftAfter + (3 + SearchLeft) /\ SetupsAhead = SetupsAfter
          /\ ItemLeft' = LeftAfter + (3 + SearchLeft') /\ SetupsAhead' = SetupsAfter
      BY <1>2, <1>6, <1>8, <3>1 DEF StepsByPlace
    <3>3. /\ ItemLeft = (LeftAfter + 3) + SearchLeft
          /\ ItemLeft' = (LeftAfter + 3) + SearchLeft'
      BY <1>3, <1>5, <2>1, <3>2
    <3>4. LeftAfter + 3 \in Int /\ SearchLeft \in Int
      BY <1>3, <1>5
    <3>5. ItemLeft' < ItemLeft
      BY <2>1, <3>3, <3>4, PartOfSum, Zenon
    <3> QED BY <1>5, <1>b, <2>2, <3>2, <3>5
  <2>4. CASE call.then = "blocked"
    <3>1. Searching /\ call.then = "blocked" /\ (Searching /\ call.then = "blocked")' 
      BY <1>0, <1>8, <2>4
    <3>2. /\ ItemLeft = 1 + SetupSteps + SearchLeft /\ SetupsAhead = 1
          /\ ItemLeft' = 1 + SetupSteps + SearchLeft' /\ SetupsAhead' = 1
      BY <1>2, <3>1 DEF StepsByPlace
    <3>3. 1 + SetupSteps \in Int /\ SearchLeft \in Int
      BY <1>1, <1>3
    <3>4. ItemLeft' < ItemLeft
      BY <2>1, <3>2, <3>3, PartOfSum, Zenon
    <3> QED BY <1>b, <2>2, <3>2, <3>4
  <2>5. CASE call.then = "before"
    <3>1. Searching /\ call.then = "before" /\ (Searching /\ call.then = "before")' 
      BY <1>0, <1>8, <2>5
    <3>2. /\ ItemLeft = CrawlSteps + SetupSteps + 1 + SearchLeft /\ SetupsAhead = FromNext
          /\ ItemLeft' = CrawlSteps + SetupSteps + 1 + SearchLeft' /\ SetupsAhead' = FromNext
      BY <1>2, <1>6, <3>1 DEF StepsByPlace
    <3>3. CrawlSteps + SetupSteps + 1 \in Int /\ SearchLeft \in Int
      BY <1>1, <1>3
    <3>4. ItemLeft' < ItemLeft
      BY <2>1, <3>2, <3>3, PartOfSum, Zenon
    <3> QED BY <1>5, <1>b, <2>2, <3>2, <3>4
  <2> QED BY <1>0, <2>3, <2>4, <2>5
<1>9. CASE call.then = "setup" /\ pc' = "prepare" /\ after' = after
  <2>1. Searching /\ call.then = "setup" /\ InLoop'
    BY <1>0, <1>9 DEF InLoop
  <2> QED BY <1>2, <1>3, <1>5, <1>6, <1>9, <1>b, <2>1 DEF StepsByPlace
<1>10. CASE call.then = "before" /\ pc' = "restart" /\ after' = after
  <2>1. Searching /\ call.then = "before" /\ InLoop'
    BY <1>0, <1>10 DEF InLoop
  <2> QED BY <1>1, <1>2, <1>3, <1>5, <1>6, <1>10, <1>b, <2>1 DEF StepsByPlace
<1>11. CASE call.then = "blocked" /\ pc' = "debug" /\ after' = after
  <2>1. Searching /\ call.then = "blocked" /\ InLoop'
    BY <1>0, <1>11 DEF InLoop
  <2> QED BY <1>1, <1>2, <1>3, <1>11, <1>b, <2>1 DEF StepsByPlace
<1>12. CASE call.then = "blocked" /\ pc' = "setup" /\ after' = "debug"
  <2>1. Searching /\ call.then = "blocked" /\ InLoop'
    BY <1>0, <1>12 DEF InLoop
  <2> QED BY <1>1, <1>2, <1>3, <1>6, <1>12, <1>b, <2>1 DEF StepsByPlace
<1> QED BY <1>8, <1>9, <1>10, <1>11, <1>12, ProxiesFrame

\* Where setup() returns to, only what follows is left.
LEMMA ReturnsFromSetup ==
    ASSUME TypeInv, pc' = after, UNCHANGED <<after, at>>
    PROVE  InLoop' /\ ItemLeft' = LeftAfter /\ SetupsAhead' = SetupsAfter
<1>0. after \in {"next", "crawl", "debug"}
  BY DEF TypeInv, TypeOK
<1>1. StepsByPlace'
  BY StepsAt, PTL
<1>2. InLoop'
  BY <1>0 DEF InLoop
<1>3. FromNext' = FromNext
  BY DEF FromNext
<1>4. CASE after = "next"
  BY <1>1, <1>2, <1>3, <1>4 DEF StepsByPlace, LeftAfter, SetupsAfter, ItemSteps, CrawlSteps, SetupSteps, SearchSteps
<1>5. CASE after = "crawl"
  BY <1>1, <1>2, <1>5 DEF StepsByPlace, LeftAfter, SetupsAfter, CrawlSteps, SetupSteps, SearchSteps
<1>6. CASE after = "debug"
  BY <1>1, <1>2, <1>6 DEF StepsByPlace, LeftAfter, SetupsAfter
<1> QED BY <1>0, <1>4, <1>5, <1>6

\* Without a block, a search starts without a report.
LEMMA AskStart ==
    ASSUME worker \in WorkerObject, NEW then \in {"setup", "before", "blocked"},
           NEW reason \in {"none", "blocked"}, AskForProxy(reason, then),
           Searching'
    PROVE  /\ reason = "none" => pc' = "obtain"
           /\ pc' \in {"report", "obtain"}
<1>1. \/ Return(NoProxy, FALSE, then)
      \/ reason = "blocked" /\ pc' = "report"
      \/ pc' = "obtain"
  BY DEF AskForProxy, ObtainUnlessRotating, Goto
<1>2. ~Return(NoProxy, FALSE, then)
  <2>1. NoProxy \in Proxy \cup {NoProxy} /\ FALSE \in BOOLEAN
    OBVIOUS
  <2>2. Return(NoProxy, FALSE, then) => pc' \in {"prepare", "restart", "debug", "setup"}
    BY <2>1, ReturnStep
  <2> QED BY <2>2 DEF Searching
<1> QED BY <1>1, <1>2

\* A search that starts here has its steps before it.
LEMMA SearchStarts ==
    ASSUME Searching', call' \in CallType, pc' \in {"report", "obtain"}
    PROVE  /\ pc' = "obtain" => SearchLeft' \in 0 .. SearchSteps
           /\ SearchLeft' \in 0 .. SearchSteps + 1
<1>1. SearchByPlace'
  BY SearchAt, PTL
<1>2. /\ SearchSteps \in Nat \ {0} /\ call'.left \in Nat \ {0}
      /\ 3 * call'.left <= SearchSteps
  BY StepNumbers
<1>3. CASE pc' = "obtain"
  <2>1. SearchLeft' = 3 * call'.left
    BY <1>1, <1>3 DEF SearchByPlace
  <2>2. 3 * call'.left \in 0 .. SearchSteps
    BY <1>2
  <2>3. SearchLeft' \in 0 .. SearchSteps
    BY <2>1, <2>2, Zenon
  <2> QED BY <1>2, <2>3
<1>4. CASE pc' = "report"
  <2>1. SearchLeft' = SearchSteps + 1
    BY <1>1, <1>4 DEF SearchByPlace
  <2> QED BY <1>2, <1>4, <2>1
<1> QED BY <1>3, <1>4

LEMMA SettingUpAdvances == TypeInv /\ SettingUp => Within \/ Leaves
<1> SUFFICES ASSUME TypeInv, SettingUp PROVE Within \/ Leaves
  OBVIOUS
<1>0. /\ setups \in Nat /\ worker \in WorkerObject
      /\ after \in {"next", "crawl", "debug"}
  BY DEF TypeInv, TypeOK
<1>1. /\ SearchSteps \in Nat \ {0} /\ SetupSteps = SearchSteps + 4
      /\ CrawlSteps = 2 * SearchSteps + 7 /\ ItemSteps = 4 * SearchSteps + 14
  BY StepNumbers
<1>2. StepsByPlace /\ StepsByPlace'
  BY StepsAt, PTL
<1>3. /\ pc \in {"setup", "prepare", "setup_page", "setup_failed"} /\ InLoop
      /\ at' = at
  BY SettingUpFrame DEF InLoop, loopVars
<1>4. LeftAfter \in Nat /\ SetupsAfter \in Nat
  BY <1>0, <1>1 DEF LeftAfter, SetupsAfter, FromNext
<1>5. after' = after => LeftAfter' = LeftAfter /\ SetupsAfter' = SetupsAfter
  BY <1>3 DEF LeftAfter, SetupsAfter, FromNext
<1>6. ASSUME NEW b \in BOOLEAN, SetupReturns(b), after' = after, setups' = setups,
             pc # "setup"
      PROVE  Within \/ Leaves
  <2>1. ItemLeft > LeftAfter /\ SetupsAhead = SetupsAfter
    BY <1>2, <1>3, <1>4, <1>6 DEF StepsByPlace
  <2>2. CASE pc' = "final"
    BY <1>0, <1>3, <1>4, <1>6, <2>1, <2>2 DEF Leaves
  <2>3. CASE pc' = after
    <3>1. InLoop' /\ ItemLeft' = LeftAfter /\ SetupsAhead' = SetupsAfter
      BY <1>3, <1>6, <2>3, ReturnsFromSetup
    <3> QED BY <1>0, <1>3, <1>4, <1>6, <2>1, <3>1 DEF Within
  <2> QED BY <1>6, <2>2, <2>3 DEF SetupReturns, Goto
<1>7. CASE Setup
  <2>1. /\ pc = "setup" /\ setups' = setups + 1
        /\ ItemLeft = LeftAfter + SetupSteps /\ SetupsAhead = 1 + SetupsAfter
    BY <1>2, <1>7 DEF Setup, At, StepsByPlace
  <2>2. CASE pc' = "prepare" /\ after' = after
    <3>1. ItemLeft' = LeftAfter + 3 /\ SetupsAhead' = SetupsAfter /\ InLoop'
      BY <1>2, <1>5, <2>2 DEF StepsByPlace, InLoop
    <3> QED BY <1>0, <1>1, <1>3, <1>4, <2>1, <3>1 DEF Within
  <2>3. CASE pc' = "final"
    BY <1>0, <1>3, <1>4, <2>1, <2>3 DEF Leaves
  <2>4. CASE AskForProxy("none", "setup")
    <3>1. /\ call' \in CallType /\ call'.then = "setup" /\ after' = after
          /\ pc' = "prepare" \/ pc' = "obtain" \/ pc' = "report"
      BY <1>0, <2>4, AskStep
    <3>2. CASE pc' = "prepare"
      BY <2>2, <3>1, <3>2
    <3>3. CASE pc' # "prepare"
      <4>1. Searching'
        BY <3>1, <3>3 DEF Searching
      <4>2. pc' = "obtain"
        BY <1>0, <2>4, <4>1, AskStart
      <4>3. SearchLeft' \in 0 .. SearchSteps
        BY <3>1, <4>1, <4>2, SearchStarts
      <4>4. PICK n \in 0 .. SearchSteps : SearchLeft' = n
        BY <4>3, Zenon
      <4>5. InLoop' /\ ItemLeft' = LeftAfter + (3 + n) /\ SetupsAhead' = SetupsAfter
        BY <1>2, <1>5, <3>1, <4>1, <4>2, <4>4 DEF StepsByPlace, InLoop
      <4> QED BY <1>0, <1>1, <1>3, <1>4, <2>1, <4>5 DEF Within
    <3> QED BY <3>2, <3>3
  <2> QED BY <1>7, <2>2, <2>3, <2>4 DEF Setup, Goto, Throw
<1>8. CASE SetupHttp
  <2>1. pc = "prepare" /\ after' = after /\ setups' = setups
    BY <1>8 DEF SetupHttp, At, browserVars
  <2>2. CASE SetupReturns(TRUE)
    BY <1>6, <2>1, <2>2
  <2>3. CASE pc' = "final"
    BY <1>0, <1>2, <1>3, <1>4, <2>1, <2>3 DEF Leaves, StepsByPlace
  <2> QED BY <1>8, <2>2, <2>3 DEF SetupHttp, Throw
<1>9. CASE StartBrowser
  <2>1. pc = "prepare" /\ after' = after /\ setups' = setups
        /\ pc' \in {"setup_page", "setup_failed"}
    BY <1>9 DEF StartBrowser, At, Goto
  <2>2. /\ ItemLeft = LeftAfter + 3 /\ SetupsAhead = SetupsAfter
        /\ ItemLeft' \in {LeftAfter + 1, LeftAfter + 2} /\ SetupsAhead' = SetupsAfter
    BY <1>2, <1>5, <2>1 DEF StepsByPlace
  <2>3. InLoop'
    BY <2>1 DEF InLoop
  <2> QED BY <1>0, <1>3, <1>4, <2>1, <2>2, <2>3 DEF Within
<1>10. CASE SetupPage
  <2>1. pc = "setup_page" /\ after' = after /\ setups' = setups
    BY <1>10 DEF SetupPage, At
  <2>2. CASE SetupReturns(TRUE)
    BY <1>6, <2>1, <2>2
  <2>3. CASE pc' = "setup_failed"
    <3>1. /\ ItemLeft = LeftAfter + 2 /\ SetupsAhead = SetupsAfter /\ InLoop'
          /\ ItemLeft' = LeftAfter + 1 /\ SetupsAhead' = SetupsAfter
      BY <1>2, <1>5, <2>1, <2>3 DEF StepsByPlace, InLoop
    <3> QED BY <1>0, <1>3, <1>4, <2>1, <3>1 DEF Within
  <2> QED BY <1>10, <2>2, <2>3 DEF SetupPage, Goto
<1>11. CASE SetupFailed
  <2>1. /\ pc = "setup_failed" /\ after' = after /\ setups' = setups
        /\ SetupReturns(FALSE) \/ pc' = "final"
    BY <1>11 DEF SetupFailed, At, Throw
  <2>2. CASE SetupReturns(FALSE)
    BY <1>6, <2>1, <2>2
  <2>3. CASE pc' = "final"
    BY <1>0, <1>2, <1>3, <1>4, <2>1, <2>3 DEF Leaves, StepsByPlace
  <2> QED BY <2>1, <2>2, <2>3
<1> QED BY <1>7, <1>8, <1>9, <1>10, <1>11 DEF SettingUp

LEMMA LoopAdvances == TypeInv /\ Loop => Within \/ ToNext \/ Leaves \/ Ends
<1> SUFFICES ASSUME TypeInv, Loop PROVE Within \/ ToNext \/ Leaves \/ Ends
  OBVIOUS
<1>0. /\ setups \in Nat /\ worker \in WorkerObject /\ NumItems \in Nat
      /\ at \in 1 .. NumItems + 1
  BY ItemNumbers DEF TypeInv, TypeOK
<1>1. /\ SearchSteps \in Nat \ {0} /\ SetupSteps = SearchSteps + 4
      /\ CrawlSteps = 2 * SearchSteps + 7 /\ ItemSteps = 4 * SearchSteps + 14
  BY StepNumbers
<1>2. StepsByPlace /\ StepsByPlace'
  BY StepsAt, PTL
<1>3. setups' = setups
  BY LoopFrame
<1>4. FromNext \in {1, 2} /\ (at' = at => FromNext' = FromNext)
  BY DEF FromNext
\* A search starts, or was over at once.
<1>5. ASSUME NEW reason \in {"none", "blocked"}, AskForProxy(reason, "before"), pc = "renew",
             at' = at, reason = "none"
      PROVE  Within
  <2>1. /\ call' \in CallType /\ call'.then = "before"
        /\ pc' = "restart" \/ pc' = "obtain" \/ pc' = "report"
    BY <1>0, <1>5, AskStep
  <2>2. InLoop /\ ItemLeft = ItemSteps - 1 /\ SetupsAhead = FromNext
    BY <1>2, <1>5 DEF StepsByPlace, InLoop
  <2>3. CASE pc' = "restart"
    <3>1. InLoop' /\ ItemLeft' = CrawlSteps + SetupSteps + 1 /\ SetupsAhead' = FromNext
      BY <1>2, <1>4, <1>5, <2>3 DEF StepsByPlace, InLoop
    <3> QED BY <1>0, <1>1, <1>3, <1>4, <1>5, <2>2, <3>1 DEF Within
  <2>4. CASE pc' # "restart"
    <3>1. Searching'
      BY <2>1, <2>4 DEF Searching
    <3>2. pc' = "obtain"
      BY <1>0, <1>5, <3>1, AskStart
    <3>3. SearchLeft' \in 0 .. SearchSteps
      BY <2>1, <3>1, <3>2, SearchStarts
    <3>4. PICK n \in 0 .. SearchSteps : SearchLeft' = n
      BY <3>3, Zenon
    <3>5. /\ InLoop' /\ ItemLeft' = CrawlSteps + SetupSteps + 1 + n
          /\ SetupsAhead' = FromNext
      BY <1>2, <1>4, <1>5, <2>1, <3>1, <3>2, <3>4 DEF StepsByPlace, InLoop
    <3> QED BY <1>0, <1>1, <1>3, <1>4, <1>5, <2>2, <3>5 DEF Within
  <2> QED BY <2>3, <2>4
<1>6. ASSUME AskForProxy("blocked", "blocked"), pc = "crawl", at' = at
      PROVE  Within
  <2>1. /\ call' \in CallType /\ call'.then = "blocked"
        /\ pc' = "report" \/ pc' = "obtain" \/ pc' = "debug"
           \/ (pc' = "setup" /\ after' = "debug")
    BY <1>0, <1>6, AskStep
  <2>2. InLoop /\ ItemLeft = CrawlSteps /\ SetupsAhead = 1
    BY <1>2, <1>6 DEF StepsByPlace, InLoop
  <2>3. CASE pc' = "debug"
    <3>1. InLoop' /\ ItemLeft' = 1 /\ SetupsAhead' = 0
      BY <1>2, <2>3 DEF StepsByPlace, InLoop
    <3> QED BY <1>0, <1>1, <1>3, <1>6, <2>2, <3>1 DEF Within
  <2>4. CASE pc' = "setup" /\ after' = "debug"
    <3>1. LeftAfter' = 1 /\ SetupsAfter' = 0
      BY <2>4 DEF LeftAfter, SetupsAfter
    <3>2. InLoop' /\ ItemLeft' = 1 + SetupSteps /\ SetupsAhead' = 1
      BY <1>2, <2>4, <3>1 DEF StepsByPlace, InLoop
    <3> QED BY <1>0, <1>1, <1>3, <1>6, <2>2, <3>2 DEF Within
  <2>5. CASE pc' \in {"report", "obtain"}
    <3>1. Searching'
      BY <2>5 DEF Searching
    <3>2. SearchLeft' \in 0 .. SearchSteps + 1
      BY <2>1, <2>5, <3>1, SearchStarts
    <3>3. PICK n \in 0 .. SearchSteps + 1 : SearchLeft' = n
      BY <3>2, Zenon
    <3>4. InLoop' /\ ItemLeft' = 1 + SetupSteps + n /\ SetupsAhead' = 1
      BY <1>2, <2>1, <2>5, <3>1, <3>3 DEF StepsByPlace, InLoop
    <3> QED BY <1>0, <1>1, <1>3, <1>6, <2>2, <3>4 DEF Within
  <2> QED BY <2>1, <2>3, <2>4, <2>5
<1>7. CASE NextItem
  <2>1. /\ pc = "next" /\ at' = at
        /\ \/ at > NumItems /\ pc' = "finish"
           \/ at <= NumItems /\ pc' \in {"crawl", "renew"}
    BY <1>7 DEF NextItem, At, Goto, loopVars
  <2>2. InLoop /\ ItemLeft = ItemSteps /\ SetupsAhead = FromNext
    BY <1>2, <2>1 DEF StepsByPlace, InLoop
  <2>3. CASE pc' = "finish"
    BY <1>3, <2>1, <2>2, <2>3 DEF Leaves
  <2>4. CASE pc' = "crawl"
    <3>1. InLoop' /\ ItemLeft' = CrawlSteps /\ SetupsAhead' = 1
      BY <1>2, <2>4 DEF StepsByPlace, InLoop
    <3> QED BY <1>0, <1>1, <1>3, <1>4, <2>1, <2>2, <3>1 DEF Within
  <2>5. CASE pc' = "renew"
    <3>1. InLoop' /\ ItemLeft' = ItemSteps - 1 /\ SetupsAhead' = FromNext
      BY <1>2, <1>4, <2>1, <2>5 DEF StepsByPlace, InLoop
    <3> QED BY <1>0, <1>1, <1>3, <1>4, <2>1, <2>2, <3>1 DEF Within
  <2> QED BY <2>1, <2>3, <2>4, <2>5
<1>8. CASE RenewProxy
  <2>1. pc = "renew" /\ at' = at
    BY <1>8 DEF RenewProxy, At, loopVars
  <2>2. CASE AskForProxy("none", "before")
    BY <1>5, <2>1, <2>2
  <2>3. CASE pc' = "restart"
    <3>1. /\ InLoop /\ ItemLeft = ItemSteps - 1 /\ SetupsAhead = FromNext
          /\ InLoop' /\ ItemLeft' = CrawlSteps + SetupSteps + 1 /\ SetupsAhead' = FromNext
      BY <1>2, <1>4, <2>1, <2>3 DEF StepsByPlace, InLoop
    <3> QED BY <1>0, <1>1, <1>3, <1>4, <2>1, <3>1 DEF Within
  <2> QED BY <1>8, <2>2, <2>3 DEF RenewProxy, Goto
<1>9. CASE Restart
  <2>1. /\ pc = "restart" /\ at' = at
        /\ \/ at > 1 /\ pc' = "setup" /\ after' = "crawl"
           \/ pc' = "crawl"
    BY <1>9 DEF Restart, At, Goto, loopVars
  <2>2. InLoop /\ ItemLeft = CrawlSteps + SetupSteps + 1 /\ SetupsAhead = FromNext
    BY <1>2, <2>1 DEF StepsByPlace, InLoop
  <2>3. CASE at > 1 /\ pc' = "setup" /\ after' = "crawl"
    <3>1. FromNext = 2
      BY <1>0, <2>3 DEF FromNext
    <3>2. LeftAfter' = CrawlSteps /\ SetupsAfter' = 1
      BY <2>3 DEF LeftAfter, SetupsAfter, CrawlSteps, SetupSteps, SearchSteps
    <3>3. InLoop' /\ ItemLeft' = CrawlSteps + SetupSteps /\ SetupsAhead' = 2
      <4>1. InLoop' /\ ItemLeft' = LeftAfter' + SetupSteps /\ SetupsAhead' = 1 + SetupsAfter'
        BY <1>2, <2>3 DEF StepsByPlace, InLoop, SetupSteps, SearchSteps
      <4> QED BY <3>2, <4>1
    <3> QED BY <1>0, <1>1, <1>3, <2>1, <2>2, <3>1, <3>3 DEF Within
  <2>4. CASE pc' = "crawl"
    <3>1. InLoop' /\ ItemLeft' = CrawlSteps /\ SetupsAhead' = 1
      BY <1>2, <2>4 DEF StepsByPlace, InLoop
    <3> QED BY <1>0, <1>1, <1>3, <1>4, <2>1, <2>2, <3>1 DEF Within
  <2> QED BY <2>1, <2>3, <2>4
<1>10. CASE Abort
  <2>1. pc = "crawl" /\ pc' = "finish" /\ SetupsAhead = 1 /\ InLoop
    BY <1>2, <1>10 DEF Abort, At, Goto, StepsByPlace, InLoop
  <2> QED BY <1>0, <1>3, <2>1 DEF Leaves
<1>11. CASE \E value \in {"value", "nothing"} : Crawl(value)
  BY <1>3, <1>11 DEF Crawl, Crawling, At, Goto, ToNext
<1>12. ASSUME NEW why \in {"failed", "blocked", "page_error"}, CrawlFails(why)
       PROVE  Within
  <2>1. pc = "crawl" /\ at' = at
    BY <1>12 DEF CrawlFails, Crawling, At
  <2>2. CASE AskForProxy("blocked", "blocked")
    BY <1>6, <2>1, <2>2
  <2>3. CASE pc' = "debug"
    <3>1. /\ InLoop /\ ItemLeft = CrawlSteps /\ SetupsAhead = 1
          /\ InLoop' /\ ItemLeft' = 1 /\ SetupsAhead' = 0
      BY <1>2, <2>1, <2>3 DEF StepsByPlace, InLoop
    <3> QED BY <1>0, <1>1, <1>3, <2>1, <3>1 DEF Within
  <2> QED BY <1>12, <2>2, <2>3 DEF CrawlFails, Goto
<1>13. CASE AfterFailure
  <2>1. pc = "debug" /\ SetupsAhead = 0 /\ InLoop
    BY <1>2, <1>13 DEF AfterFailure, At, StepsByPlace, InLoop
  <2>2. pc' = "final" \/ (pc' = "next" /\ at' = at + 1)
    BY <1>13 DEF AfterFailure, Goto, Throw, FollowingItem
  <2> QED BY <1>0, <1>3, <2>1, <2>2 DEF Leaves, ToNext
<1>14. CASE Finish
  <2>1. pc = "finish" /\ pc' = "final"
    BY <1>14 DEF Finish, At, Goto
  <2>2. ~InLoop /\ ~InLoop' /\ StepsLeft = NumItems + 3 /\ StepsLeft' = NumItems + 2
    BY <2>1 DEF InLoop, StepsLeft, NumItems
  <2> QED BY <1>0, <1>3, <2>2 DEF Ends
<1> QED BY <1>7, <1>8, <1>9, <1>10, <1>11, <1>12, <1>13, <1>14 DEF Loop

LEMMA EndingAdvances == TypeInv /\ Ending => Ends
<1> SUFFICES ASSUME TypeInv, Ending PROVE Ends
  OBVIOUS
<1>0. NumItems \in Nat /\ at \in 1 .. NumItems + 1 /\ (pc = "store" => at <= NumItems)
  BY ItemNumbers DEF TypeInv, TypeOK, AtAnItem
<1>1. setups' = setups
  BY DEF Ending, FinalCleanup, CleanupFails, StoreMerged, StoreItem, browserVars
<1>2. CASE FinalCleanup
  <2>1. pc = "final" /\ pc' = "store" /\ at' = 1
    BY <1>2 DEF FinalCleanup, At, Goto
  <2>2. ~InLoop /\ ~InLoop' /\ StepsLeft = NumItems + 2 /\ StepsLeft' = NumItems + 2 - 1
    BY <2>1 DEF InLoop, StepsLeft, NumItems
  <2> QED BY <1>0, <1>1, <2>2 DEF Ends
<1>3. CASE CleanupFails
  <2>1. pc = "final" /\ pc' = "end"
    BY <1>3 DEF CleanupFails, At, Goto
  <2>2. ~InLoop /\ ~InLoop' /\ StepsLeft = NumItems + 2 /\ StepsLeft' = 0
    BY <2>1 DEF InLoop, StepsLeft
  <2> QED BY <1>0, <1>1, <2>2 DEF Ends
<1>4. CASE StoreMerged \/ StoreItem
  <2>1. /\ pc = "store"
        /\ pc' = "end" \/ (pc' = "store" /\ at' = at + 1)
    BY <1>4 DEF StoreMerged, StoreItem, At, Goto
  <2>2. /\ ~InLoop /\ ~InLoop' /\ StepsLeft = NumItems + 2 - at
        /\ StepsLeft' = 0 \/ StepsLeft' = NumItems + 2 - (at + 1)
    BY <2>1 DEF InLoop, StepsLeft, NumItems
  <2> QED BY <1>0, <1>1, <2>1, <2>2 DEF Ends
<1> QED BY <1>2, <1>3, <1>4 DEF Ending

\* Without a worker all of it is skipped.
LEMMA NoWorkerAdvances == TypeInv /\ NoWorker => Leaves
<1> SUFFICES ASSUME TypeInv, NoWorker PROVE Leaves
  OBVIOUS
<1>1. /\ pc = "setup" /\ pc' = "store" /\ at' = 1 /\ setups' = setups /\ setups \in Nat
      /\ InLoop
  BY DEF NoWorker, At, Goto, InLoop, browserVars, TypeInv, TypeOK
<1>2. SetupsAhead \in Nat
  BY <1>1, ItemNumbersLeft
<1> QED BY <1>1, <1>2 DEF Leaves

LEMMA StepAdvances == TypeInv /\ Step => Within \/ ToNext \/ Leaves \/ Ends
BY NoWorkerAdvances, ProxiesAdvance, SettingUpAdvances, LoopAdvances, EndingAdvances DEF Step

\* Others do not lengthen the crawl.
LEMMA OthersDoNotAdvance ==
    ASSUME NotTheWorker \/ UNCHANGED vars
    PROVE  /\ StepsLeft' = StepsLeft
           /\ SetupBudget => SetupBudget'
<1>1. UNCHANGED <<pc, after, call, at, setups, browsers>>
  BY DEF NotTheWorker, vars, loopVars, browserVars
<1>2. UNCHANGED <<SearchLeft, LeftAfter, FromNext, SetupsAfter, InLoop, Searching>>
  BY <1>1 DEF SearchLeft, LeftAfter, FromNext, SetupsAfter, InLoop, Searching, SearchSteps,
              CrawlSteps, ItemSteps, SetupSteps
<1>3. UNCHANGED <<SettingUpNow, SetupLeft>>
  BY <1>1, <1>2 DEF SettingUpNow, SetupLeft, SetupSteps, SearchSteps
<1>4. UNCHANGED <<ItemLeft, SetupsAhead>>
  BY <1>1, <1>2, <1>3 DEF ItemLeft, SetupsAhead, CrawlSteps, ItemSteps, SetupSteps, SearchSteps
<1>5. StepsLeft' = StepsLeft
  BY <1>1, <1>4 DEF StepsLeft, ItemSteps, CrawlSteps, SetupSteps, SearchSteps, NumItems
<1>6. SetupBudget => SetupBudget'
  BY <1>1, <1>2, <1>3, <1>4 DEF SetupBudget, NumItems
<1> QED BY <1>5, <1>6

LEMMA SetupBudgetInit == Init => SetupBudget
<1> SUFFICES ASSUME Init PROVE SetupBudget
  OBVIOUS
<1>1. /\ pc = "setup" /\ after = "next" /\ at = 1 /\ setups = 0 /\ browsers = 0
  BY DEF Init
<1>2. SetupsAhead = 2
  BY <1>1, StepsAt DEF StepsByPlace, SetupsAfter, FromNext
<1>3. InLoop /\ ~(SettingUpNow /\ (pc = "prepare" \/ Searching))
  BY <1>1 DEF InLoop, Searching
<1> QED BY <1>1, <1>2, <1>3 DEF SetupBudget

\* A browser is started once per call of setup().
LEMMA BrowserBudget ==
    ASSUME TypeInv, SetupBudget, Step
    PROVE  /\ browsers' <= setups'
           /\ SettingUpNow' /\ (pc' = "prepare" \/ Searching') => browsers' < setups'
<1>0. /\ browsers \in Nat /\ setups \in Nat /\ worker \in WorkerObject /\ OwnRuns
      /\ after \in {"next", "crawl", "debug"} /\ call.then \in {"setup", "before", "blocked"}
  BY DEF TypeInv, TypeOK
<1>1. CASE Proxies
  <2>1. /\ Searching /\ UNCHANGED <<browsers, setups>> /\ call'.then = call.then
        /\ pc' = "prepare" => call.then = "setup"
        /\ pc' \in {"prepare", "restart", "debug", "setup"} \/ Searching'
    BY <1>1, ProxiesFrame DEF Searching
  <2>2. SettingUpNow' /\ (pc' = "prepare" \/ Searching') => SettingUpNow
    BY <2>1 DEF SettingUpNow, Searching
  <2> QED BY <2>1, <2>2 DEF SetupBudget
<1>2. CASE Setup
  <2>1. setups' = setups + 1 /\ browsers' = browsers
    BY <1>2 DEF Setup
  <2> QED BY <1>0, <2>1 DEF SetupBudget
<1>3. CASE StartBrowser
  <2>1. /\ browsers' \in {browsers, browsers + 1} /\ setups' = setups /\ pc = "prepare"
        /\ pc' \in {"setup_page", "setup_failed"}
    BY <1>3 DEF StartBrowser, At, Goto
  <2>2. SettingUpNow
    BY <2>1 DEF SettingUpNow
  <2>3. ~(pc' = "prepare" \/ Searching')
    BY <2>1 DEF Searching
  <2> QED BY <1>0, <2>1, <2>2, <2>3 DEF SetupBudget
<1>4. CASE SetupHttp \/ SetupPage \/ SetupFailed
  <2>1. /\ setups' = setups
        /\ pc' \in {"next", "crawl", "debug", "final", "setup_failed"}
    BY <1>0, <1>4 DEF SetupHttp, SetupPage, SetupFailed, SetupReturns, Goto, Throw, browserVars
  <2>2. browsers' \in {browsers, browsers - 1}
    <3>1. CASE SetupFailed
      <4>1. Cleanup \/ CleanupThrows
        BY <3>1 DEF SetupFailed
      <4>2. faults \in Nat /\ unclosed \in Nat
        BY DEF TypeInv, TypeOK
      <4> QED BY <1>0, <4>1, <4>2, CleanupStep
    <3> QED BY <1>4, <3>1 DEF SetupHttp, SetupPage, browserVars
  <2>3. ~(pc' = "prepare" \/ Searching')
    BY <2>1 DEF Searching
  <2> QED BY <1>0, <2>1, <2>2, <2>3 DEF SetupBudget
<1>5. CASE Loop
  <2>1. /\ UNCHANGED <<browsers, setups>>
        /\ pc' # "prepare"
        /\ Searching' => call'.then # "setup"
    BY <1>5, LoopFrame DEF Searching
  <2>2. ~(SettingUpNow' /\ (pc' = "prepare" \/ Searching'))
    BY <2>1 DEF SettingUpNow, Searching
  <2> QED BY <2>1, <2>2 DEF SetupBudget
<1>6. CASE Ending
  <2>1. setups' = setups /\ pc' \in {"store", "end"}
    BY <1>6 DEF Ending, FinalCleanup, CleanupFails, StoreMerged, StoreItem, Goto, browserVars
  <2>2. browsers' \in {browsers, browsers - 1}
    <3>1. CASE FinalCleanup \/ CleanupFails
      <4>1. Cleanup \/ CleanupThrows
        BY <3>1 DEF FinalCleanup, CleanupFails
      <4>2. faults \in Nat /\ unclosed \in Nat
        BY DEF TypeInv, TypeOK
      <4> QED BY <1>0, <4>1, <4>2, CleanupStep
    <3> QED BY <1>6, <3>1 DEF Ending, StoreMerged, StoreItem, browserVars
  <2>3. ~(pc' = "prepare" \/ Searching')
    BY <2>1 DEF Searching
  <2> QED BY <1>0, <2>1, <2>2, <2>3 DEF SetupBudget
<1>7. CASE NoWorker
  <2>1. UNCHANGED <<browsers, setups>> /\ pc' = "store"
    BY <1>7 DEF NoWorker, Goto, browserVars
  <2>2. ~(pc' = "prepare" \/ Searching')
    BY <2>1 DEF Searching
  <2> QED BY <2>1, <2>2 DEF SetupBudget
<1> QED BY <1>1, <1>2, <1>3, <1>4, <1>5, <1>6, <1>7 DEF Step, SettingUp

LEMMA SetupBudgetNext == TypeInv /\ SetupBudget /\ [Next]_vars => SetupBudget'
<1> SUFFICES ASSUME TypeInv, SetupBudget, [Next]_vars PROVE SetupBudget'
  OBVIOUS
<1>1. CASE Step
  <2>1. TypeInv'
    BY TypeNext
  <2>2. Within \/ ToNext \/ Leaves \/ Ends
    BY <1>1, StepAdvances
  <2>3. /\ InLoop' => setups' + SetupsAhead' <= 2 * at'
        /\ ~InLoop' => setups' <= 2 * NumItems
    BY <2>1, <2>2, KeepsTo
  <2>4. /\ browsers' <= setups'
        /\ SettingUpNow' /\ (pc' = "prepare" \/ Searching') => browsers' < setups'
    BY <1>1, BrowserBudget
  <2> QED BY <2>3, <2>4 DEF SetupBudget, NumItems
<1>2. CASE Environment \/ UNCHANGED vars
  BY <1>2, EnvironmentFrame, OthersDoNotAdvance
<1> QED BY <1>1, <1>2 DEF Next

\* However often the worker is blocked, restarted or refused a proxy, setup() is
\* called at most twice per item, and no more browsers than that can be left
\* running.
THEOREM BrowsersAreBounded ==
    Spec => [](setups <= 2 * NumItems /\ browsers <= 2 * NumItems)
<1>1. TypeInv /\ SetupBudget => setups <= 2 * NumItems /\ browsers <= 2 * NumItems
  <2> SUFFICES ASSUME TypeInv, SetupBudget
               PROVE  setups <= 2 * NumItems /\ browsers <= 2 * NumItems
    OBVIOUS
  <2>1. /\ setups \in Nat /\ browsers \in Nat /\ NumItems \in Nat /\ at \in 1 .. NumItems + 1
        /\ InLoop => SetupsAhead \in Nat
    BY ItemNumbers, ItemNumbersLeft DEF TypeInv, TypeOK
  <2>2. setups <= 2 * NumItems
    <3>1. CASE ~InLoop
      BY <3>1 DEF SetupBudget
    <3>2. CASE InLoop /\ at <= NumItems
      BY <2>1, <3>2 DEF SetupBudget
    <3>3. CASE InLoop /\ at > NumItems
      <4>1. pc = "next" /\ at = NumItems + 1 /\ at # 1
        BY <2>1, <3>3, ItemNumbers DEF TypeInv, AtAnItem, InLoop
      <4>2. SetupsAhead = 2
        BY <4>1, StepsAt DEF StepsByPlace, FromNext
      <4> QED BY <2>1, <3>3, <4>1, <4>2 DEF SetupBudget
    <3> QED BY <2>1, <3>1, <3>2, <3>3
  <2> QED BY <2>1, <2>2 DEF SetupBudget
<1> QED BY TypeInit, TypeNext, SetupBudgetInit, SetupBudgetNext, <1>1, PTL DEF Spec

-----------------------------------------------------------------------------
(* The browsers left behind. *)

Starting == SettingUpNow /\ (pc = "prepare" \/ Searching)

\* A browser was closed, or a call of cleanup() failed before, for one call of setup().
OneClosed == browsers + 1 <= setups + unclosed

\* A worker that was cleaned up has one closed, so has one that runs no browser, and
\* so has one whose crawl is over.
LeftInv ==
    /\ pc \notin {"setup", "store", "end"} => setups > 0
    /\ worker.own => Browser
    /\ worker.cleaned => OneClosed
    /\ worker.cleaned /\ Starting => browsers + 2 <= setups + unclosed
    /\ ~worker.own /\ setups > 0 => OneClosed
    /\ pc \in {"store", "end"} /\ setups > 0 => OneClosed

LEMMA LeftInit == Init => LeftInv
BY DEF Init, LeftInv

\* However cleanup() ends, and also if it has nothing to do.
LEMMA CleanupCloses ==
    ASSUME TypeInv, SetupBudget, LeftInv, setups > 0, setups' = setups,
           Cleanup \/ CleanupThrows
    PROVE  OneClosed' /\ (worker'.own => worker.own)
<1>0. /\ browsers \in Nat /\ setups \in Nat /\ unclosed \in Nat /\ faults \in Nat
      /\ worker \in WorkerObject /\ OwnRuns /\ browsers <= setups
  BY DEF TypeInv, TypeOK, SetupBudget
<1>1. /\ browsers' \in Nat /\ unclosed' \in Nat
      /\ \/ UNCHANGED <<worker, browsers, unclosed>> /\ ~MustClean
         \/ /\ browsers' = browsers /\ worker'.own = worker.own
            /\ unclosed' = unclosed + 1
         \/ /\ browsers' = browsers - 1 /\ worker.own /\ ~worker'.own
            /\ unclosed' = unclosed
         \/ /\ browsers' = browsers /\ ~worker.own /\ worker'.own = worker.own
            /\ unclosed' = unclosed
  BY <1>0, CleanupStep
<1>2. ~worker.own => OneClosed
  BY DEF LeftInv
<1>3. ~MustClean => OneClosed
  BY <1>2 DEF LeftInv, MustClean
<1>4. CASE UNCHANGED <<worker, browsers, unclosed>> /\ ~MustClean
  BY <1>3, <1>4 DEF OneClosed
<1>5. CASE /\ browsers' = browsers /\ worker'.own = worker.own
           /\ unclosed' = unclosed + 1
  BY <1>0, <1>5 DEF OneClosed
<1>6. CASE /\ browsers' = browsers - 1 /\ worker.own /\ ~worker'.own
           /\ unclosed' = unclosed
  BY <1>0, <1>6 DEF OneClosed
<1>7. CASE /\ browsers' = browsers /\ ~worker.own /\ worker'.own = worker.own
           /\ unclosed' = unclosed
  BY <1>2, <1>7 DEF OneClosed
<1> QED BY <1>1, <1>4, <1>5, <1>6, <1>7

\* Steps that start no browser and close none.
LEMMA LeftSame ==
    ASSUME LeftInv, UNCHANGED <<config, browsers, unclosed, setups>>,
           worker'.own = worker.own, worker'.cleaned = worker.cleaned, Starting' => Starting,
           pc \in {"setup", "store", "end"} => pc' \in {"setup", "store", "end"},
           pc' \in {"store", "end"} => pc \in {"store", "end"} \/ ~(setups > 0)
    PROVE  LeftInv'
<1>1. Browser' = Browser /\ OneClosed' = OneClosed
  BY DEF Browser, OneClosed
<1> QED BY <1>1 DEF LeftInv

LEMMA LeftSettingUp == TypeInv /\ SetupBudget /\ LeftInv /\ SettingUp => LeftInv'
<1> SUFFICES ASSUME TypeInv, SetupBudget, LeftInv, SettingUp PROVE LeftInv'
  OBVIOUS
<1>0. /\ browsers \in Nat /\ setups \in Nat /\ unclosed \in Nat /\ worker \in WorkerObject
      /\ after \in {"next", "crawl", "debug"} /\ browsers <= setups
  BY DEF TypeInv, TypeOK, SetupBudget
<1>1. CASE Setup
  <2>1. /\ setups' = setups + 1 /\ UNCHANGED <<browsers, unclosed, config>>
        /\ pc = "setup"
        /\ \/ worker' = [worker EXCEPT !.relay = TRUE]
           \/ AskForProxy("none", "setup")
           \/ worker' = worker
    BY <1>1 DEF Setup, At
  <2>2. worker'.own = worker.own /\ worker'.cleaned = worker.cleaned
    BY <1>0, <2>1, AskStep DEF WorkerObject
  <2>3. pc' \notin {"store", "end"}
    BY <1>0, <1>1, SettingUpFrame DEF SettingUp, Searching
  <2>4. OneClosed' /\ setups' > 0
    BY <1>0, <2>1 DEF OneClosed
  <2>5. worker'.cleaned => browsers' + 2 <= setups' + unclosed'
    BY <1>0, <2>1, <2>2 DEF LeftInv, OneClosed
  <2> QED BY <2>1, <2>2, <2>3, <2>4, <2>5 DEF LeftInv, Browser
<1>2. CASE StartBrowser
  <2>1. /\ pc = "prepare" /\ Browser /\ UNCHANGED <<config, unclosed, setups>>
        /\ pc' \in {"setup_page", "setup_failed"}
        /\ \/ browsers' = browsers + 1 /\ worker' = [worker EXCEPT !.own = TRUE]
           \/ UNCHANGED <<worker, browsers>>
    BY <1>2 DEF StartBrowser, At, Goto
  <2>2. Starting /\ ~Starting' /\ Browser'
    BY <2>1 DEF Starting, SettingUpNow, Searching, Browser
  <2>3. CASE UNCHANGED <<worker, browsers>>
    BY <2>1, <2>2, <2>3, LeftSame
  <2>4. CASE browsers' = browsers + 1 /\ worker' = [worker EXCEPT !.own = TRUE]
    <3>1. worker'.own = TRUE /\ worker'.cleaned = worker.cleaned
      BY <1>0, <2>4 DEF WorkerObject
    <3>2. worker'.cleaned => OneClosed'
      BY <1>0, <2>1, <2>2, <2>4, <3>1 DEF LeftInv, OneClosed
    <3>3. setups' > 0
      BY <2>1 DEF LeftInv
    <3> QED BY <2>1, <2>2, <3>1, <3>2, <3>3 DEF LeftInv
  <2> QED BY <2>1, <2>3, <2>4
<1>3. CASE SetupHttp \/ SetupPage
  <2>1. /\ pc \in {"prepare", "setup_page"} /\ UNCHANGED <<config, browsers, unclosed, setups>>
        /\ \/ worker' = worker
           \/ \E b \in BOOLEAN : worker' = [worker EXCEPT !.page = b]
        /\ pc' \in {"next", "crawl", "debug", "setup_failed", "final"}
    BY <1>0, <1>3 DEF SetupHttp, SetupPage, SetupReturns, Goto, Throw, At, browserVars
  <2>2. worker'.own = worker.own /\ worker'.cleaned = worker.cleaned
    BY <1>0, <2>1 DEF WorkerObject
  <2>3. ~Starting'
    BY <2>1 DEF Starting, Searching
  <2> QED BY <2>1, <2>2, <2>3, LeftSame
<1>4. CASE SetupFailed
  <2>1. /\ pc = "setup_failed" /\ UNCHANGED <<config, setups>>
        /\ Cleanup \/ CleanupThrows
        /\ pc' \in {"next", "crawl", "debug", "final"}
    BY <1>0, <1>4 DEF SetupFailed, SetupReturns, Goto, Throw, At
  <2>2. setups > 0
    BY <2>1 DEF LeftInv
  <2>3. OneClosed' /\ (worker'.own => worker.own)
    BY <2>1, <2>2, CleanupCloses
  <2>4. ~Starting' /\ Browser' = Browser
    BY <2>1 DEF Starting, Searching, Browser
  <2> QED BY <2>1, <2>2, <2>3, <2>4 DEF LeftInv
<1> QED BY <1>1, <1>2, <1>3, <1>4 DEF SettingUp

LEMMA LeftEnding == TypeInv /\ SetupBudget /\ LeftInv /\ Ending => LeftInv'
<1> SUFFICES ASSUME TypeInv, SetupBudget, LeftInv, Ending PROVE LeftInv'
  OBVIOUS
<1>1. CASE FinalCleanup \/ CleanupFails
  <2>1. /\ pc = "final" /\ UNCHANGED <<config, setups>>
        /\ Cleanup \/ CleanupThrows
        /\ pc' \in {"store", "end"}
    BY <1>1 DEF FinalCleanup, CleanupFails, Goto, At
  <2>2. setups > 0
    BY <2>1 DEF LeftInv
  <2>3. OneClosed' /\ (worker'.own => worker.own)
    BY <2>1, <2>2, CleanupCloses
  <2>4. ~Starting' /\ Browser' = Browser
    BY <2>1 DEF Starting, Searching, Browser
  <2> QED BY <2>1, <2>2, <2>3, <2>4 DEF LeftInv
<1>2. CASE StoreMerged \/ StoreItem
  <2>1. /\ pc = "store" /\ pc' \in {"store", "end"}
        /\ UNCHANGED <<config, worker, browsers, unclosed, setups>>
    BY <1>2 DEF StoreMerged, StoreItem, Goto, At, browserVars
  <2>2. ~Starting'
    BY <2>1 DEF Starting, Searching
  <2> QED BY <2>1, <2>2, LeftSame
<1> QED BY <1>1, <1>2 DEF Ending

LEMMA LeftNext == TypeInv /\ SetupBudget /\ LeftInv /\ [Next]_vars => LeftInv'
<1> SUFFICES ASSUME TypeInv, SetupBudget, LeftInv, [Next]_vars PROVE LeftInv'
  OBVIOUS
<1>1. CASE Proxies
  <2>1. /\ Searching /\ UNCHANGED <<config, browsers, unclosed, setups>>
        /\ worker'.own = worker.own /\ worker'.cleaned = worker.cleaned
        /\ call'.then = call.then /\ (pc' = "prepare" => call.then = "setup")
        /\ pc' \in {"prepare", "restart", "debug", "setup"} \/ Searching'
    BY <1>1, ProxiesFrame DEF Searching
  <2>2. Starting' => Starting
    BY <2>1 DEF Starting, SettingUpNow, Searching
  <2>3. pc \notin {"setup", "store", "end"} /\ pc' \notin {"store", "end"}
    BY <2>1 DEF Searching
  <2> QED BY <2>1, <2>2, <2>3, LeftSame
<1>2. CASE Loop
  <2>1. /\ pc \in {"next", "renew", "restart", "crawl", "debug", "finish"}
        /\ UNCHANGED <<config, browsers, unclosed, setups>>
        /\ worker'.own = worker.own /\ worker'.cleaned = worker.cleaned
        /\ \/ pc' \in {"next", "renew", "restart", "crawl", "debug", "finish", "final", "setup"}
           \/ pc' \in {"report", "obtain"} /\ call'.then \in {"before", "blocked"}
    BY <1>2, LoopFrame
  <2>2. ~Starting'
    BY <2>1 DEF Starting, SettingUpNow, Searching
  <2>3. pc \notin {"setup", "store", "end"} /\ pc' \notin {"store", "end"}
    BY <2>1
  <2> QED BY <2>1, <2>2, <2>3, LeftSame
<1>3. CASE NoWorker
  <2>1. /\ pc = "setup" /\ pc' = "store" /\ setups = 0
        /\ UNCHANGED <<config, worker, browsers, unclosed, setups>>
    BY <1>3 DEF NoWorker, Goto, At, browserVars
  <2>2. ~Starting'
    BY <2>1 DEF Starting, Searching
  <2> QED BY <2>1, <2>2, LeftSame
<1>4. CASE Environment \/ UNCHANGED vars
  <2>1. UNCHANGED <<config, pc, call, worker, browsers, unclosed, setups>>
    BY <1>4, EnvironmentFrame DEF NotTheWorker, vars, browserVars
  <2>2. Starting' => Starting
    BY <2>1 DEF Starting, SettingUpNow, Searching
  <2> QED BY <2>1, <2>2, LeftSame
<1> QED BY <1>1, <1>2, <1>3, <1>4, LeftSettingUp, LeftEnding DEF Next, Step

\* However a setup, a crawl, the loop or cleanup() itself fails, and wherever the
\* worker is started again, a crawl leaves at most one browser for each further call of
\* setup() and one for each call of cleanup() that failed before it closed one.
THEOREM BrowsersAreAccountedFor == Spec => []BrowsersLeft
<1>1. TypeInv /\ SetupBudget /\ LeftInv => BrowsersLeft
  <2> SUFFICES ASSUME TypeInv, SetupBudget, LeftInv, pc = "end"
               PROVE  browsers <= unclosed + (IF setups = 0 THEN 0 ELSE setups - 1)
    BY DEF BrowsersLeft
  <2>1. browsers \in Nat /\ setups \in Nat /\ unclosed \in Nat /\ browsers <= setups
    BY DEF TypeInv, TypeOK, SetupBudget
  <2>2. setups > 0 => OneClosed
    BY DEF LeftInv
  <2> QED BY <2>1, <2>2 DEF OneClosed
<1> QED BY TypeInit, TypeNext, SetupBudgetInit, SetupBudgetNext, LeftInit, LeftNext, <1>1,
           PTL DEF Spec

-----------------------------------------------------------------------------
(* The length of a crawl. *)

\* The most steps a crawl takes.
MaxSteps == (NumItems + 3 + ItemSteps * NumItems) + (ItemSteps + SetupSteps)

\* Every step of the worker uses up one of its steps, nobody else gives it more,
\* and there are MaxSteps of them: however the worker is blocked, restarted or
\* refused a proxy, the crawl is over after that many.  (That the worker takes
\* its steps is the fairness RunEnds assumes.)
THEOREM StepsAreUsedUp ==
    Spec => /\ [](StepsLeft \in 0 .. MaxSteps)
            /\ [][ /\ Step => StepsLeft' < StepsLeft
                   /\ Environment => StepsLeft' = StepsLeft ]_vars
<1> DEFINE Advance == /\ Step => StepsLeft' < StepsLeft
                      /\ Environment => StepsLeft' = StepsLeft
           Bounded == StepsLeft \in 0 .. MaxSteps
<1>1. TypeInv /\ [Next]_vars => [Advance]_vars
  <2> SUFFICES ASSUME TypeInv, [Next]_vars PROVE Advance
    OBVIOUS
  <2>1. ASSUME Step PROVE StepsLeft' < StepsLeft
    <3>1. TypeInv'
      BY TypeNext
    <3> QED BY <2>1, <3>1, StepAdvances, UsesUp
  <2>2. Environment => StepsLeft' = StepsLeft
    BY EnvironmentFrame, OthersDoNotAdvance
  <2> QED BY <2>1, <2>2
<1>2. Init => Bounded
  <2> SUFFICES ASSUME Init PROVE Bounded
    OBVIOUS
  <2>1. pc = "setup" /\ after = "next" /\ at = 1 /\ InLoop
    BY DEF Init, InLoop
  <2>2. /\ ItemSteps \in Nat /\ SetupSteps \in Nat /\ NumItems \in Nat
    BY StepNumbers, ItemNumbers
  <2>3. ItemLeft = ItemSteps + SetupSteps
    BY <2>1, StepsAt DEF StepsByPlace, LeftAfter, ItemSteps, CrawlSteps, SetupSteps, SearchSteps
  <2>4. NumItems + 1 - at = NumItems
    BY <2>1, <2>2
  <2>5. StepsLeft = NumItems + 3 + ItemSteps * NumItems + (ItemSteps + SetupSteps)
    BY <2>1, <2>3, <2>4, StepsLeftInLoop, Zenon
  <2>6. StepsLeft = MaxSteps
    BY <2>5 DEF MaxSteps
  <2>7. StepsLeft \in Nat
    BY TypeInit, StepsLeftNumber
  <2> QED BY <2>6, <2>7
<1>3. TypeInv /\ Bounded /\ [Next]_vars => Bounded'
  <2> SUFFICES ASSUME TypeInv, Bounded, [Next]_vars PROVE Bounded'
    OBVIOUS
  <2>1. TypeInv' => (StepsLeft \in Nat)'
    BY StepsLeftNumber, PTL
  <2>2. StepsLeft' \in Nat
    BY <2>1, TypeNext
  <2>3. StepsLeft' < StepsLeft \/ StepsLeft' = StepsLeft
    <3>1. CASE UNCHANGED vars
      BY <3>1, OthersDoNotAdvance
    <3> QED BY <1>1, <3>1 DEF Next
  <2>4. MaxSteps' = MaxSteps
    BY DEF MaxSteps, ItemSteps, CrawlSteps, SetupSteps, SearchSteps, NumItems
  <2>5. MaxSteps \in Nat
    <3>1. ItemSteps \in Nat /\ SetupSteps \in Nat /\ NumItems \in Nat
      BY StepNumbers, ItemNumbers
    <3>2. ItemSteps * NumItems \in Nat
      BY <3>1
    <3> QED BY <3>1, <3>2 DEF MaxSteps
  <2>6. PICK n \in Nat : StepsLeft' = n
    BY <2>2, Zenon
  <2>7. n \in 0 .. MaxSteps
    BY <2>3, <2>5, <2>6
  <2> QED BY <2>4, <2>6, <2>7
<1> QED BY TypeInit, TypeNext, <1>1, <1>2, <1>3, PTL DEF Spec
=============================================================================

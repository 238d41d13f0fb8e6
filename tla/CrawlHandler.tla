----------------------------- MODULE CrawlHandler -----------------------------
(***************************************************************************)
(* One remote crawl from the inside: what CrawlHandler.run, the worker     *)
(* class and storeInCloud do with the items a worker has claimed.  In      *)
(* CrawlTask this is the single step Crawl with a free choice of outcomes. *)
(*                                                                         *)
(* The loop, setup() and get_proxy() call each other: setup() asks for a   *)
(* proxy before the first item, before_crawl() and a block do later, and   *)
(* both start the worker again.  call and after hold the two returns that  *)
(* are pending.  The pool of proxies is shared with other workers and with *)
(* the API, which act between any two steps.                               *)
(*                                                                         *)
(* The items are numbered in the order of the claim; crawl_num is at - 1.  *)
(***************************************************************************)
EXTENDS ItemQueue, Integers, ProxyPool

CONSTANTS
    Configs,      \* the configurations of the worker
    NoProxy,      \* null
    Updates,      \* the updates of proxies the API is asked for
    MaxAttempts,  \* max_attempts of getFreshProxy
    MaxFaults,    \* bound: failures in one crawl
    MaxOthers     \* bound: steps of others on the pool

NumItems == Cardinality(Item)

\* kind: the worker class; via: no proxy, one of the pool (proxy_options) or
\* one of a list (proxies); mobile: the filter; change: every n-th item;
\* restart: restart_before_crawl; debug: store_browser_debug.
Config == [kind : {"browser", "http"}, via : {"none", "pool", "list"},
           mobile : BOOLEAN, change : Nat \ {0}, restart : BOOLEAN,
           debug : BOOLEAN, policy : {"itemwise", "merged"}]

ASSUME CrawlHandlerAssumption ==
    /\ Item = 1 .. NumItems
    /\ NumItems > 0
    /\ Configs \subseteq Config
    /\ NoProxy \notin Proxy
    /\ Updates \subseteq ProxyUpdate
    /\ MaxAttempts \in Nat \ {0}
    /\ MaxFaults \in Nat
    /\ MaxOthers \in Nat

VARIABLES
    pool,      \* the proxies
    loading,   \* whether the API is loading them
    others,    \* steps of others so far
    config,    \* the configuration, fixed
    pc,        \* where the crawl stands
    after,     \* where setup() returns to
    call,      \* the get_proxy() under way
    at,        \* the item the loop is at
    item,      \* the worker's copies of its items
    result,    \* the results of the loop, by item
    filed,     \* whether they were assigned to response.result
    stored,    \* the items whose result is in the cloud
    worker,    \* the worker object
    browsers,  \* browser processes that run
    unclosed,  \* history: calls of cleanup() that failed before the browser was closed
    setups,    \* calls of setup()
    failure,   \* how the current item failed
    ended,     \* how run() ended
    faults,    \* failures so far
    since      \* history: proxies touched since this worker was last blocked

poolVars == <<pool, loading, others, since>>
loopVars == <<at, item, result, failure>>
browserVars == <<worker, browsers, unclosed, setups>>
outputVars == <<filed, stored, ended>>
vars == <<poolVars, loopVars, browserVars, outputVars, config, pc, after, call,
          faults>>

Status == {"healthy", "no_proxy", "no_time", "page_error"}

\* own: this.browser is set; page: this.page can be used; relay: newProxyUrl is
\* set, a local server of proxy-chain.
WorkerObject == [status : Status, proxy : Proxy \cup {NoProxy}, restart : BOOLEAN,
                 relay : BOOLEAN, own : BOOLEAN, page : BOOLEAN, cleaned : BOOLEAN]

NoCall == [filter |-> "any", left |-> 1, then |-> "setup", proxy |-> NoProxy]

Claimed == [status |-> "running", retries |-> 0, crawled |-> FALSE]

Fault == faults < MaxFaults /\ faults' = faults + 1

Browser == config.kind = "browser"

Filter == IF config.mobile THEN "mobile" ELSE "any"

Init ==
    /\ pool \in {[p \in Proxy |-> IF p \in S THEN [NewProxy EXCEPT !.status = "functional"]
                                  ELSE NewProxy] : S \in SUBSET Proxy}
    /\ loading = FALSE
    /\ others = 0
    /\ config \in Configs
    /\ pc = "setup"
    /\ after = "next"
    /\ call = NoCall
    /\ at = 1
    /\ item = [i \in Item |-> Claimed]
    /\ result = [i \in Item |-> "undefined"]
    /\ filed = FALSE
    /\ stored = {}
    /\ worker = [status |-> "healthy", proxy |-> NoProxy, restart |-> FALSE,
                 relay |-> FALSE, own |-> FALSE, page |-> FALSE, cleaned |-> FALSE]
    /\ browsers = 0
    /\ unclosed = 0
    /\ setups = 0
    /\ failure = "none"
    /\ ended = "no"
    /\ faults = 0
    /\ since = {}

At(here) == pc = here

Goto(there) == pc' = there

\* An exception nobody catches before the end of run().
Throw == pc' = "final" /\ ended' = "exception"

-----------------------------------------------------------------------------
(* get_proxy() of BaseWorker and getFreshProxy(). *)

\* What the three callers do with the proxy they get, or with null; gaveUp if
\* the pool had none that works.
Return(p, gaveUp, then) ==
    LET w == IF gaveUp THEN [worker EXCEPT !.status = "no_proxy"] ELSE worker
    IN CASE then = "setup" ->
               /\ worker' = [w EXCEPT !.proxy = p]
               /\ Goto("prepare")
               /\ UNCHANGED after
         [] then = "before" ->
               /\ worker' = IF p = NoProxy THEN w
                            ELSE [w EXCEPT !.proxy = p, !.restart = TRUE]
               /\ Goto("restart")
               /\ UNCHANGED after
         [] then = "blocked" /\ p = NoProxy ->
               /\ worker' = w
               /\ Goto("debug")
               /\ UNCHANGED after
         [] then = "blocked" /\ p # NoProxy ->
               /\ worker' = [w EXCEPT !.proxy = p]
               /\ Goto("setup")
               /\ after' = "debug"

\* A rotating proxy is kept, which the caller cannot tell from a failure.
ObtainUnlessRotating(then) ==
    IF worker.proxy \in Rotating THEN Return(NoProxy, FALSE, then)
    ELSE Goto("obtain") /\ UNCHANGED <<worker, after>>

\* A request because of a block carries no filter and no interval.
AskForProxy(reason, then) ==
    /\ call' = [NoCall EXCEPT !.left = MaxAttempts, !.then = then,
                   !.filter = IF reason = "blocked" THEN "any" ELSE Filter]
    /\ CASE reason # "blocked" /\ (at - 1) % config.change # 0 ->
               Return(NoProxy, FALSE, then)
         [] reason = "blocked" /\ worker.proxy # NoProxy ->
               Goto("report") /\ UNCHANGED <<worker, after>>
         [] OTHER -> ObtainUnlessRotating(then)

\* updateProxy: an error is only logged.
ReportBlocked ==
    /\ At("report")
    /\ \/ /\ pool' = ReportProxy(pool, worker.proxy, "blocked")
          /\ since' = {}
          /\ UNCHANGED faults
       \/ Fault /\ UNCHANGED <<pool, since>>
    /\ ObtainUnlessRotating(call.then)
    /\ UNCHANGED <<loading, others, config, call, loopVars, browsers, unclosed, setups,
                   outputVars>>

GetProxy(p) ==
    /\ At("obtain")
    /\ p \in Preferred(pool, call.filter)
    /\ pool' = Obtain(pool, p)
    /\ since' = since \cup {p}
    /\ call' = [call EXCEPT !.proxy = p]
    /\ Goto("check")
    /\ UNCHANGED <<loading, others, config, after, loopVars, browserVars, outputVars,
                   faults>>

\* None is left, or the query fails.
GetNoProxy ==
    /\ At("obtain")
    /\ \/ Obtainable(pool, call.filter) = {} /\ UNCHANGED faults
       \/ Fault
    /\ Return(NoProxy, TRUE, call.then)
    /\ UNCHANGED <<poolVars, config, call, loopVars, browsers, unclosed, setups, outputVars>>

CheckProxy ==
    /\ At("check")
    /\ \/ Return(call.proxy, FALSE, call.then) /\ UNCHANGED faults
       \/ Fault /\ Goto("deprecate") /\ UNCHANGED <<worker, after>>
    /\ UNCHANGED <<poolVars, config, call, loopVars, browsers, unclosed, setups, outputVars>>

LastAttempt == call.left = 1

\* A proxy that fails the check is counted, and the next one is tried.
CheckFailed ==
    /\ At("deprecate")
    /\ \/ /\ pool' = ReportProxy(pool, call.proxy, "check_failed")
          /\ since' = since \cup {call.proxy}
          /\ UNCHANGED faults
       \/ Fault /\ UNCHANGED <<pool, since>>
    /\ \/ /\ LastAttempt
          /\ Return(NoProxy, TRUE, call.then)
          /\ UNCHANGED call
       \/ /\ ~LastAttempt
          /\ call' = [call EXCEPT !.left = @ - 1]
          /\ Goto("obtain")
          /\ UNCHANGED <<worker, after>>
    /\ UNCHANGED <<loading, others, config, loopVars, browsers, unclosed, setups, outputVars>>

-----------------------------------------------------------------------------
(* setup() and cleanup(). *)

\* setup() of BaseWorker: a proxy of the list, or one of the pool before the
\* first item is done.
Setup ==
    /\ At("setup")
    /\ setups' = setups + 1
    /\ \/ /\ config.via = "list"
          /\ \/ /\ worker' = [worker EXCEPT !.relay = TRUE]
                /\ Goto("prepare")
                /\ UNCHANGED <<faults, ended>>
             \/ Fault /\ Throw /\ UNCHANGED worker
          /\ UNCHANGED <<after, call>>
       \/ /\ config.via = "pool" /\ at = 1
          /\ AskForProxy("none", "setup")
          /\ UNCHANGED <<faults, ended>>
       \/ /\ config.via = "none" \/ (config.via = "pool" /\ at > 1)
          /\ Goto("prepare")
          /\ UNCHANGED <<worker, after, call, faults, ended>>
    /\ UNCHANGED <<poolVars, config, loopVars, browsers, unclosed, filed, stored>>

\* Only the first call looks at what setup() returns.
SetupReturns(success) ==
    IF after = "next" /\ ~success THEN pc' = "final" /\ ended' = "setup"
    ELSE Goto(after) /\ UNCHANGED ended

SetupHttp ==
    /\ At("prepare")
    /\ ~Browser
    /\ \/ SetupReturns(TRUE) /\ UNCHANGED faults
       \/ Fault /\ Throw
    /\ UNCHANGED <<poolVars, config, after, call, loopVars, browserVars, filed, stored>>

\* A browser that runs already is not closed first.
StartBrowser ==
    /\ At("prepare")
    /\ Browser
    /\ \/ /\ browsers' = browsers + 1
          /\ worker' = [worker EXCEPT !.own = TRUE]
          /\ Goto("setup_page")
          /\ UNCHANGED faults
       \/ /\ Fault
          /\ Goto("setup_failed")
          /\ UNCHANGED <<worker, browsers>>
    /\ UNCHANGED <<poolVars, config, after, call, loopVars, unclosed, setups, outputVars>>

\* A page that was opened before a later call failed stays.
SetupPage ==
    /\ At("setup_page")
    /\ \/ /\ worker' = [worker EXCEPT !.page = TRUE]
          /\ SetupReturns(TRUE)
          /\ UNCHANGED faults
       \/ /\ Fault
          /\ \E opened \in BOOLEAN : worker' = [worker EXCEPT !.page = opened]
          /\ Goto("setup_failed")
          /\ UNCHANGED ended
    /\ UNCHANGED <<poolVars, config, after, call, loopVars, browsers, unclosed, setups, filed,
                   stored>>

\* Mutant of Closed: the browser is forgotten.
Forgotten(w) == [w EXCEPT !.own = FALSE]

Closed(w) == w

\* How far cleanup() gets; done: it reaches its last line.
CloseBrowser(done) ==
    LET w == Closed(worker)
    IN /\ browsers' = IF w.own THEN browsers - 1 ELSE browsers
       /\ worker' = [w EXCEPT !.own = FALSE, !.page = FALSE, !.cleaned = done]
       /\ UNCHANGED unclosed

\* An error of close() is only logged.
LeaveBrowser(done) ==
    /\ worker.own
    /\ worker' = [worker EXCEPT !.page = FALSE, !.cleaned = done]
    /\ unclosed' = unclosed + 1
    /\ UNCHANGED browsers

MustClean == Browser /\ ~worker.cleaned

\* cleanup() closes the browser once.
Cleanup ==
    \/ ~MustClean /\ UNCHANGED <<worker, browsers, unclosed, faults>>
    \/ MustClean /\ CloseBrowser(TRUE) /\ UNCHANGED faults
    \/ MustClean /\ LeaveBrowser(TRUE) /\ Fault

\* closeAnonymizedProxy, which comes first, rejects, or the directory of the
\* browser cannot be deleted, which comes last.
CleanupThrows ==
    /\ Fault
    /\ \/ worker.relay /\ unclosed' = unclosed + 1 /\ UNCHANGED <<worker, browsers>>
       \/ MustClean /\ (CloseBrowser(FALSE) \/ LeaveBrowser(FALSE))

\* setup() catches what failed, but not what its cleanup() throws.
SetupFailed ==
    /\ At("setup_failed")
    /\ \/ Cleanup /\ SetupReturns(FALSE)
       \/ CleanupThrows /\ Throw
    /\ UNCHANGED <<poolVars, config, after, call, loopVars, setups, filed, stored>>

\* The function code cannot be evaluated or its constructor throws: there is no
\* worker to set up or to clean up.
NoWorker ==
    /\ At("setup") /\ setups = 0
    /\ Fault
    /\ ended' = "exception"
    /\ Goto("store")
    /\ at' = 1
    /\ UNCHANGED <<poolVars, config, after, call, item, result, failure, browserVars, filed,
                   stored>>

-----------------------------------------------------------------------------
(* The loop of run(). *)

\* The loop condition, and turnDown() of before_crawl().
NextItem ==
    /\ At("next")
    /\ \/ /\ at > NumItems
          /\ Goto("finish")
          /\ UNCHANGED worker
       \/ /\ at <= NumItems
          /\ worker' = [worker EXCEPT !.restart = FALSE, !.status = "no_time"]
          /\ Goto("crawl")
       \/ /\ at <= NumItems
          /\ worker' = [worker EXCEPT !.restart = config.restart]
          /\ Goto("renew")
    /\ UNCHANGED <<poolVars, config, after, call, loopVars, browsers, unclosed, setups,
                   outputVars, faults>>

RenewProxy ==
    /\ At("renew")
    /\ \/ /\ config.via = "pool" /\ at > 1
          /\ AskForProxy("none", "before")
       \/ /\ config.via # "pool" \/ at = 1
          /\ Goto("restart")
          /\ UNCHANGED <<worker, after, call>>
    /\ UNCHANGED <<poolVars, config, loopVars, browsers, unclosed, setups, outputVars, faults>>

Restart ==
    /\ At("restart")
    /\ IF worker.restart /\ at > 1 THEN Goto("setup") /\ after' = "crawl"
       ELSE Goto("crawl") /\ UNCHANGED after
    /\ UNCHANGED <<poolVars, config, call, loopVars, browserVars, outputVars, faults>>

\* Mutant of Remaining: only the item at hand is given back.
OnlyThis == {at}

Remaining == {i \in Item : i >= at}

\* The worker is not healthy: the remaining items are given back.
Abort ==
    /\ At("crawl")
    /\ worker.status # "healthy"
    /\ item' = [i \in Item |-> IF i \in Remaining
                               THEN [item[i] EXCEPT !.status = "initial", !.crawled = FALSE]
                               ELSE item[i]]
    /\ Goto("finish")
    /\ UNCHANGED <<poolVars, config, after, call, at, result, failure, browserVars,
                   outputVars, faults>>

Crawling == At("crawl") /\ worker.status = "healthy"

\* crawl() returns something or nothing.
Crawl(value) ==
    /\ Crawling
    /\ Browser => worker.page
    /\ item' = [item EXCEPT ![at] = [status |-> "completed", crawled |-> TRUE,
                                     retries |-> @.retries + 1]]
    /\ result' = [result EXCEPT ![at] = value]
    /\ at' = at + 1
    /\ Goto("next")
    /\ UNCHANGED <<poolVars, config, after, call, failure, browserVars, outputVars,
                   faults>>

\* crawl() throws.  Without a page it always does.
CrawlFails(why) ==
    LET asks == why = "blocked" /\ config.via = "pool"
    IN /\ Crawling
       /\ why = "page_error" => Browser
       /\ Browser /\ ~worker.page => why = "failed"
       /\ item' = [item EXCEPT ![at].status = "failed",
                               ![at].retries = IF asks THEN @ ELSE @ + 1]
       /\ result' = [result EXCEPT ![at] = "error"]
       /\ failure' = why
       /\ \/ asks /\ AskForProxy("blocked", "blocked")
          \/ ~asks /\ Goto("debug") /\ UNCHANGED <<worker, after, call>>
       /\ UNCHANGED <<poolVars, config, at, browsers, unclosed, setups, outputVars, faults>>

\* Mutant of FollowingItem: a blocked item is tried again.
AgainIfBlocked == IF failure = "blocked" THEN at ELSE at + 1

\* Mutant of FollowingItem: a failed item is counted twice.
CountedTwice == at + 2

FollowingItem == at + 1

\* getDebugInfo() exists for browser workers only.
AfterFailure ==
    /\ At("debug")
    /\ IF config.debug /\ ~Browser
       THEN Throw /\ UNCHANGED <<worker, at>>
       ELSE /\ worker' = IF failure = "page_error"
                         THEN [worker EXCEPT !.status = "page_error"] ELSE worker
            /\ at' = FollowingItem
            /\ Goto("next")
            /\ UNCHANGED ended
    /\ failure' = "none"
    /\ UNCHANGED <<poolVars, config, after, call, item, result, browsers, unclosed, setups,
                   filed, stored, faults>>

\* response.result = result
Finish ==
    /\ At("finish")
    /\ filed' = TRUE
    /\ ended' = "normally"
    /\ Goto("final")
    /\ UNCHANGED <<poolVars, config, after, call, loopVars, browserVars, stored, faults>>

FinalCleanup ==
    /\ At("final")
    /\ Cleanup
    /\ Goto("store")
    /\ at' = 1
    /\ UNCHANGED <<poolVars, config, after, call, item, result, failure, setups,
                   outputVars>>

\* With cleanup() rejects run(): nothing is stored, nothing is written back.
CleanupFails ==
    /\ At("final")
    /\ CleanupThrows
    /\ ended' = "rejected"
    /\ Goto("end")
    /\ UNCHANGED <<poolVars, config, after, call, loopVars, setups, filed, stored>>

-----------------------------------------------------------------------------
(* storeInCloud(). *)

\* Mutant of GivenBack: the verdict stays.
Kept(doc) == doc

GivenBack(doc) == [doc EXCEPT !.status = "initial", !.crawled = FALSE]

\* JSON.stringify leaves undefined out.
HasResult(i) == filed /\ result[i] \notin {"undefined", "nothing"}

StoreMerged ==
    /\ At("store")
    /\ config.policy = "merged"
    /\ \/ /\ stored' = {i \in Item : HasResult(i)}
          /\ UNCHANGED <<item, faults>>
       \/ /\ Fault
          /\ item' = [i \in Item |-> GivenBack(item[i])]
          /\ UNCHANGED stored
    /\ Goto("end")
    /\ UNCHANGED <<poolVars, config, after, call, at, result, failure, browserVars,
                   filed, ended>>

\* One upload per item; one without a result is skipped.
StoreItem ==
    /\ At("store")
    /\ config.policy = "itemwise"
    /\ \/ /\ stored' = IF HasResult(at) THEN stored \cup {at} ELSE stored
          /\ UNCHANGED <<item, faults>>
       \/ /\ HasResult(at)
          /\ Fault
          /\ item' = [item EXCEPT ![at] = GivenBack(@)]
          /\ UNCHANGED stored
    /\ at' = at + 1
    /\ Goto(IF at = NumItems THEN "end" ELSE "store")
    /\ UNCHANGED <<poolVars, config, after, call, result, failure, browserVars, filed,
                   ended>>

-----------------------------------------------------------------------------
(* Other workers and the API on the pool. *)

Other == others < MaxOthers /\ others' = others + 1

NotTheWorker ==
    UNCHANGED <<config, pc, after, call, loopVars, browserVars, outputVars, faults>>

OtherObtains(p) ==
    /\ Other
    /\ \E filter \in {"any", "mobile"} : p \in Preferred(pool, filter)
    /\ pool' = Obtain(pool, p)
    /\ since' = since \cup {p}
    /\ UNCHANGED loading
    /\ NotTheWorker

\* damaged is reported by crawl functions only.
OtherReports(p, reason) ==
    /\ Other
    /\ p \in Present(pool)
    /\ pool' = ReportProxy(pool, p, reason)
    /\ since' = since \cup {p}
    /\ UNCHANGED loading
    /\ NotTheWorker

\* Where the API writes the date, the order of use says nothing any more.
UpdateProxies(S, u) ==
    /\ Other
    /\ S # {}
    /\ pool' = UpdateAll(pool, S, u)
    /\ since' = IF "used" \in u.keys THEN Proxy ELSE since
    /\ UNCHANGED loading
    /\ NotTheWorker

ReloadProxies ==
    /\ Other
    /\ Present(pool) # {}
    /\ pool' = DropProxies(pool)
    /\ loading' = TRUE
    /\ UNCHANGED since
    /\ NotTheWorker

LoadProxy(p) ==
    /\ loading
    /\ pool[p].status = "new"
    /\ pool' = CreateProxy(pool, p)
    /\ since' = since \cup {p}
    /\ loading' \in BOOLEAN
    /\ UNCHANGED others
    /\ NotTheWorker

-----------------------------------------------------------------------------
Proxies ==
    \/ ReportBlocked
    \/ \E p \in Proxy : GetProxy(p)
    \/ GetNoProxy
    \/ CheckProxy
    \/ CheckFailed

SettingUp == Setup \/ SetupHttp \/ StartBrowser \/ SetupPage \/ SetupFailed

Loop ==
    \/ NextItem
    \/ RenewProxy
    \/ Restart
    \/ Abort
    \/ \E value \in {"value", "nothing"} : Crawl(value)
    \/ \E why \in {"failed", "blocked", "page_error"} : CrawlFails(why)
    \/ AfterFailure
    \/ Finish

Ending == FinalCleanup \/ CleanupFails \/ StoreMerged \/ StoreItem

Step == NoWorker \/ Proxies \/ SettingUp \/ Loop \/ Ending

Environment ==
    \/ \E p \in Proxy : OtherObtains(p)
    \/ \E p \in Proxy, reason \in {"blocked", "check_failed", "damaged"} : OtherReports(p, reason)
    \/ \E S \in SUBSET Present(pool), u \in Updates : UpdateProxies(S, u)
    \/ ReloadProxies
    \/ \E p \in Proxy : LoadProxy(p)

Next == Step \/ Environment

Spec == Init /\ [][Next]_vars

\* The worker's awaits return.
FairSpec == Spec /\ WF_vars(Step)

-----------------------------------------------------------------------------
(* Properties. *)

\* Every variable has its type.
TypeOK ==
    /\ pool \in [Proxy -> ProxyDoc]
    /\ loading \in BOOLEAN
    /\ others \in Nat
    /\ config \in Configs
    /\ pc \in {"setup", "report", "obtain", "check", "deprecate", "prepare",
               "setup_page", "setup_failed", "next", "renew", "restart", "crawl",
               "debug", "finish", "final", "store", "end"}
    /\ after \in {"next", "crawl", "debug"}
    /\ call \in [filter : {"any", "mobile"}, left : 1 .. MaxAttempts,
                 then : {"setup", "before", "blocked"}, proxy : Proxy \cup {NoProxy}]
    /\ at \in 1 .. NumItems + 1
    /\ item \in [Item -> QueueDoc]
    /\ result \in [Item -> {"undefined", "value", "nothing", "error"}]
    /\ filed \in BOOLEAN
    /\ stored \in SUBSET Item
    /\ worker \in WorkerObject
    /\ browsers \in Nat
    /\ unclosed \in Nat
    /\ setups \in Nat
    /\ failure \in {"none", "failed", "blocked", "page_error"}
    /\ ended \in {"no", "setup", "exception", "normally", "rejected"}
    /\ faults \in Nat
    /\ since \in SUBSET Proxy

\* What a crawl returned is in the cloud when its item is written back as
\* completed, whatever ended the loop, unless an exception did.
ResultsKept ==
    pc = "end" /\ ended = "normally" =>
        \A i \in Item : item[i].status = "completed" /\ result[i] = "value" => i \in stored

\* Whatever the configuration and the failures, the crawl leaves of its items
\* what CrawlTask assumes; items are given back or left untouched, never both.
LeavesAnOutcome ==
    pc = "end" =>
        \/ \A i \in Item : \E o \in AllOutcomes \ {"untouched"} :
               item[i] = Result(Claimed, o)
        \/ \A i \in Item : \E o \in AllOutcomes \ {"abandoned"} :
               item[i] = Result(Claimed, o)

\* A crawl leaves one browser behind for every time its worker was set up again,
\* because that starts a browser without closing the one that runs, and one for
\* every cleanup() that failed, but no other: one that starts is closed, however
\* the setup, the crawl or the loop failed.
BrowsersLeft ==
    pc = "end" => browsers <= unclosed + (IF setups = 0 THEN 0 ELSE setups - 1)

\* A worker that was blocked does not come back to the proxy that blocked it
\* while others of its class are left that nobody used since.
BlockedIsAvoided ==
    [][\A p \in Proxy :
          At("obtain") /\ call.then = "blocked" /\ worker.proxy = p /\ call'.proxy = p
             /\ call.proxy = NoProxy
             => \A q \in Obtainable(pool, call.filter) \ {p} :
                   q \in since \/ pool[q].fails > pool[p].fails]_vars

\* The crawl ends: the loop, the searches for a proxy and the restarts do not
\* keep each other going.
RunEnds == <>(pc = "end")

\* A worker with proxy options crawls through a proxy that matches them.
CrawlsThroughProxy ==
    [][Crawling /\ pc' # pc /\ config.via = "pool"
          => worker.proxy \in OfType(Filter)]_vars

=============================================================================

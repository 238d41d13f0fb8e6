----------------------------- MODULE WorkerServer -----------------------------
(***************************************************************************)
(* The HTTP servers that run crawls (worker.service.ts): the replicas of   *)
(* one swarm service.  A server processes one call at a time and says so   *)
(* in its state.  Three kinds of call share that state: invokeEvent        *)
(* answers at once and crawls afterwards, invokeRequestResponse answers    *)
(* with the results, blankSlate does so with a browser and a proxy server  *)
(* that it keeps from one call to the next (persistant_handler.ts).        *)
(*                                                                         *)
(* How a crawl goes inside is the subject of CrawlHandler: here it         *)
(* resolves or rejects.  All calls carry the right API key.                *)
(***************************************************************************)
EXTENDS Naturals, FiniteSets

CONSTANTS
    Server,    \* the replicas
    Nobody,    \* no server
    Call,      \* the HTTP requests to the servers
    Upstream,  \* the proxies a blankSlate call may name
    NoProxy,   \* none named
    MaxFaults  \* bound: failures

ASSUME WorkerServerAssumption ==
    /\ IsFiniteSet(Server)
    /\ Nobody \notin Server
    /\ NoProxy \notin Upstream
    /\ MaxFaults \in Nat

VARIABLES
    service,   \* the process and its WorkerService
    handler,   \* the PersistantCrawlHandler of each process
    call,      \* the calls
    faults     \* failures so far

serverVars == <<service, handler, call, faults>>

State == {"initial", "running", "failed"}

Service == [up : BOOLEAN, state : State]

\* set: its state is running; counted: counter > 0; proxy: the upstream of the
\* proxy server, none before the first call.
Handler == [set : BOOLEAN, browser : BOOLEAN, page : {"none", "new", "used"},
            counted : BOOLEAN, proxy : Upstream \cup {NoProxy}]

NewService == [up |-> TRUE, state |-> "initial"]

NewHandler == [set |-> FALSE, browser |-> FALSE, page |-> "none", counted |-> FALSE,
               proxy |-> NoProxy]

\* A "lambda" call reaches no server.
Kind == {"none", "event", "response", "blank", "lambda"}

Crawling == {"crawl", "setup", "page", "proxy", "items", "restart"}

Doing == {"nothing", "sent", "ignored"} \cup Crawling

\* started, results, empty, rejected, invalid: HTTP status 200, of which empty
\* is a crawl that could not be set up and rejected has a status 400 inside.
\* lost: the client saw no answer.
Answer == {"none", "started", "results", "empty", "rejected", "invalid", "refused",
           "failed", "lost"}

CallRecord == [kind : Kind, at : Server \cup {Nobody}, doing : Doing,
               answer : Answer, proxy : Upstream \cup {NoProxy}, exit : BOOLEAN]

NoCall == [kind |-> "none", at |-> Nobody, doing |-> "nothing", answer |-> "none",
           proxy |-> NoProxy, exit |-> FALSE]

ServerInit ==
    /\ service = [s \in Server |-> NewService]
    /\ handler = [s \in Server |-> NewHandler]
    /\ call = [c \in Call |-> NoCall]
    /\ faults = 0

Fault == faults < MaxFaults /\ faults' = faults + 1

OnServer(c, doing) ==
    /\ call[c].doing = doing
    /\ call[c].at \in Server
    /\ service[call[c].at].up

SetState(s, st) == service' = [service EXCEPT ![s].state = st]

Continue(c, doing) == call' = [call EXCEPT ![c].doing = doing]

\* An answer to a client that no longer waits is dropped.
Answered(record, answer) == IF record.answer = "none" THEN answer ELSE record.answer

End(c, answer) ==
    call' = [call EXCEPT ![c].doing = "nothing", ![c].answer = Answered(call[c], answer)]

-----------------------------------------------------------------------------
(* The calls arrive. *)

\* Mutant of Idle: the state is not looked at.
AlwaysIdle(s) == TRUE

Idle(s) == service[s].state = "initial"

InvokeEvent(c) ==
    LET s == call[c].at
    IN /\ OnServer(c, "sent")
       /\ call[c].kind = "event"
       /\ \/ /\ Idle(s)
             /\ SetState(s, "running")
             /\ call' = [call EXCEPT ![c].doing = "crawl", ![c].answer = "started"]
          \/ /\ ~Idle(s)
             /\ End(c, "refused")
             /\ UNCHANGED service
       /\ UNCHANGED <<handler, faults>>

\* A server that is not idle does not answer at all.
InvokeRequestResponse(c) ==
    LET s == call[c].at
    IN /\ OnServer(c, "sent")
       /\ call[c].kind = "response"
       /\ \/ /\ Idle(s)
             /\ SetState(s, "running")
             /\ Continue(c, "crawl")
          \/ /\ ~Idle(s)
             /\ Continue(c, "ignored")
             /\ UNCHANGED service
       /\ UNCHANGED <<handler, faults>>

BlankSlate(c) ==
    LET s == call[c].at
    IN /\ OnServer(c, "sent")
       /\ call[c].kind = "blank"
       /\ \/ /\ Idle(s)
             /\ SetState(s, "running")
             /\ Continue(c, "setup")
          \/ /\ ~Idle(s)
             /\ End(c, "refused")
             /\ UNCHANGED service
       /\ UNCHANGED <<handler, faults>>

\* The process is gone: with it the browser and every open connection.
Down(s) ==
    /\ service' = [service EXCEPT ![s] = [up |-> FALSE, state |-> "initial"]]
    /\ handler' = [handler EXCEPT ![s] = NewHandler]
    /\ call' = [c \in Call |->
                  IF call[c].at = s /\ call[c].doing # "nothing"
                  THEN [call[c] EXCEPT !.doing = "nothing",
                                       !.answer = Answered(call[c], "lost")]
                  ELSE call[c]]

-----------------------------------------------------------------------------
(* The crawls. *)

\* start() resolves.  After an event the process exits unless it is told not
\* to, and swarm starts it again.
CrawlResolves(c) ==
    LET s == call[c].at
    IN /\ OnServer(c, "crawl")
       /\ \/ /\ call[c].exit
             /\ Down(s)
          \/ /\ ~call[c].exit
             /\ SetState(s, "initial")
             /\ \E answer \in {"results", "empty", "rejected"} : End(c, answer)
             /\ UNCHANGED handler
       /\ UNCHANGED faults

\* Mutant of Rejects: the state is not set.
RejectsQuietly(c) == End(c, "failed") /\ UNCHANGED <<service, handler>>

\* An exception: the server stays failed.
Rejects(c) ==
    /\ SetState(call[c].at, "failed")
    /\ End(c, "failed")
    /\ UNCHANGED handler

CrawlRejects(c) ==
    /\ OnServer(c, "crawl")
    /\ Fault
    /\ Rejects(c)

\* A new browser with its page, or none: setup() of the browser worker catches
\* its errors, and nobody looks at what it returns.
SetUpOf(s) ==
    \/ /\ handler' = [handler EXCEPT ![s].set = TRUE, ![s].browser = TRUE, ![s].page = "new"]
       /\ UNCHANGED faults
    \/ /\ handler' = [handler EXCEPT ![s].set = TRUE, ![s].browser = FALSE, ![s].page = "none"]
       /\ Fault

\* Mutant of NeedsPage: the page is kept.
NeverNeedsPage(h) == FALSE

\* The page is not opened again before the first crawl is counted.
NeedsPage(h) == h.counted

BlankSetup(c) ==
    LET s == call[c].at
    IN /\ OnServer(c, "setup")
       /\ \/ ~handler[s].set /\ SetUpOf(s)
          \/ handler[s].set /\ UNCHANGED <<handler, faults>>
       /\ Continue(c, IF NeedsPage(handler[s]) THEN "page" ELSE "proxy")
       /\ UNCHANGED service

\* setupPage() rejects when there is no browser.
BlankPage(c) ==
    LET s == call[c].at
    IN /\ OnServer(c, "page")
       /\ \/ /\ handler[s].browser
             /\ handler' = [handler EXCEPT ![s].page = "new"]
             /\ Continue(c, "proxy")
             /\ UNCHANGED <<service, faults>>
          \/ handler[s].browser /\ Fault /\ Rejects(c)
          \/ ~handler[s].browser /\ Rejects(c) /\ UNCHANGED faults

\* Mutant of RestartedWith: the proxy server is left alone if the call names none.
KeptIfNone(h, proxy) == IF proxy = NoProxy THEN h ELSE [h EXCEPT !.proxy = proxy]

RestartedWith(h, proxy) == [h EXCEPT !.proxy = proxy]

\* Then the crawler's code is taken from the cache or downloaded; a name that is
\* not known and a download that fails end the call.
BlankProxy(c) ==
    LET s == call[c].at
    IN /\ OnServer(c, "proxy")
       /\ \/ /\ handler' = [handler EXCEPT ![s] = RestartedWith(@, call[c].proxy)]
             /\ \/ Continue(c, "items") /\ UNCHANGED service
                \/ End(c, "invalid") /\ SetState(s, "initial")
             /\ UNCHANGED faults
          \/ Fault /\ Rejects(c)

\* Errors of single items are part of the results.  An error of the crawler's
\* class counts no call and restarts the browser; so does a call that asks for it.
BlankItems(c) ==
    LET s == call[c].at
        used == [handler[s] EXCEPT !.page = IF @ = "none" THEN "none" ELSE "used"]
    IN /\ OnServer(c, "items")
       /\ \/ /\ handler' = [handler EXCEPT ![s] = [used EXCEPT !.counted = TRUE]]
             /\ \/ End(c, "results") /\ SetState(s, "initial")
                \/ Continue(c, "restart") /\ UNCHANGED service
             /\ UNCHANGED faults
          \/ /\ Fault
             /\ handler' = [handler EXCEPT ![s] = used]
             /\ Continue(c, "restart")
             /\ UNCHANGED service

BlankRestart(c) ==
    LET s == call[c].at
    IN /\ OnServer(c, "restart")
       /\ SetUpOf(s)
       /\ End(c, "results")
       /\ SetState(s, "initial")

-----------------------------------------------------------------------------
(* The processes. *)

\* An error that is thrown in an event listener of the page, or no memory.
Crash(s) ==
    /\ service[s].up
    /\ Fault
    /\ Down(s)

Respawn(s) ==
    /\ ~service[s].up
    /\ service' = [service EXCEPT ![s] = NewService]
    /\ UNCHANGED <<handler, call, faults>>

ConnectionRefused(c) ==
    /\ call[c].doing = "sent"
    /\ call[c].at \in Server
    /\ ~service[call[c].at].up
    /\ End(c, "lost")
    /\ UNCHANGED <<service, handler, faults>>

\* Mutant of Timeout: it runs only while the server works on the call.
TimeoutOfCrawl(c) ==
    /\ call[c].kind = "response"
    /\ call[c].answer = "none"
    /\ call[c].doing = "crawl"
    /\ call' = [call EXCEPT ![c].answer = "lost"]
    /\ UNCHANGED <<service, handler, faults>>

\* The client gives up; the server does not notice.
Timeout(c) ==
    /\ call[c].kind = "response"
    /\ call[c].answer = "none"
    /\ call' = [call EXCEPT ![c].answer = "lost"]
    /\ UNCHANGED <<service, handler, faults>>

ServerStep(c) ==
    \/ InvokeEvent(c)
    \/ InvokeRequestResponse(c)
    \/ BlankSlate(c)
    \/ CrawlResolves(c)
    \/ CrawlRejects(c)
    \/ BlankSetup(c)
    \/ BlankPage(c)
    \/ BlankProxy(c)
    \/ BlankItems(c)
    \/ BlankRestart(c)
    \/ ConnectionRefused(c)
    \/ Timeout(c)

ServerNext ==
    \/ \E c \in Call : ServerStep(c)
    \/ \E s \in Server : Crash(s) \/ Respawn(s)

-----------------------------------------------------------------------------
(* Properties. *)

ServerTypeOK ==
    /\ service \in [Server -> Service]
    /\ handler \in [Server -> Handler]
    /\ call \in [Call -> CallRecord]
    /\ \A c \in Call : call[c].at \in Server <=> call[c].kind \notin {"none", "lambda"}
    /\ faults \in Nat

ActiveOn(s) == {c \in Call : call[c].at = s /\ call[c].doing \in Crawling}

\* A server works on at most one call, whatever its kind, and its state tells:
\* no call is left behind on a server that is idle, failed or gone, and no server
\* stays in state running without a call that will end it.
OneCallAtATime ==
    \A s \in Server :
        /\ \A c, d \in ActiveOn(s) : c = d
        /\ service[s].state = "running" <=> ActiveOn(s) # {}

\* The items of a blankSlate call are crawled through the proxy it names, or
\* none if it names none, never through that of another call.
ThroughOwnProxy ==
    \A c \in Call : OnServer(c, "items") => handler[call[c].at].proxy = call[c].proxy

\* A blankSlate call does not crawl with a page that an earlier call has used,
\* whatever errors and restarts the earlier calls had.
PageIsFresh ==
    \A c \in Call : OnServer(c, "items") => handler[call[c].at].page # "used"

=============================================================================

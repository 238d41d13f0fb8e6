-------------------------- MODULE WorkerServerProofs --------------------------
(***************************************************************************)
(* What every step of a worker server keeps, for any number of servers and *)
(* calls, whoever sends them.  CrawlRequestProofs adds the clients.        *)
(***************************************************************************)
EXTENDS WorkerServer, TLAPS

-----------------------------------------------------------------------------
(* Types. *)

LEMMA FreshRecords ==
    /\ NoCall \in CallRecord /\ NoCall.at \notin Server
    /\ NewHandler \in Handler
    /\ NewService \in Service
BY WorkerServerAssumption
   DEF WorkerServerAssumption, NoCall, CallRecord, Kind, Doing, Crawling, Answer,
       NewHandler, Handler, NewService, Service, State

LEMMA ServerTypeInit == ServerInit => ServerTypeOK
<1> SUFFICES ASSUME ServerInit PROVE ServerTypeOK
  OBVIOUS
<1>1. service \in [Server -> Service] /\ handler \in [Server -> Handler]
  BY FreshRecords DEF ServerInit
<1>2. call \in [Call -> CallRecord]
  BY FreshRecords DEF ServerInit
<1>3. \A c \in Call : call[c].at \in Server <=> call[c].kind \notin {"none", "lambda"}
  BY FreshRecords DEF ServerInit, NoCall
<1> QED BY <1>1, <1>2, <1>3 DEF ServerInit, ServerTypeOK

LEMMA AnsweredType ==
    ASSUME NEW r \in CallRecord, NEW a \in Answer
    PROVE  Answered(r, a) \in Answer
BY DEF Answered, CallRecord

\* Ends of calls and steps from one activity to the next.
LEMMA EndType ==
    ASSUME ServerTypeOK, NEW c \in Call, NEW a \in Answer, End(c, a)
    PROVE  /\ call' \in [Call -> CallRecord]
           /\ \A d \in Call : call'[d].at = call[d].at /\ call'[d].kind = call[d].kind
<1>1. call[c] \in CallRecord /\ Answered(call[c], a) \in Answer
  BY AnsweredType DEF ServerTypeOK
<1>2. [call[c] EXCEPT !.doing = "nothing", !.answer = Answered(call[c], a)] \in CallRecord
  BY <1>1 DEF CallRecord, Doing
<1> QED BY <1>1, <1>2 DEF End, ServerTypeOK, CallRecord

LEMMA ContinueType ==
    ASSUME ServerTypeOK, NEW c \in Call, NEW doing \in Doing, Continue(c, doing)
    PROVE  /\ call' \in [Call -> CallRecord]
           /\ \A d \in Call : call'[d].at = call[d].at /\ call'[d].kind = call[d].kind
BY DEF Continue, ServerTypeOK, CallRecord

LEMMA DownType ==
    ASSUME ServerTypeOK, NEW s \in Server, Down(s)
    PROVE  /\ call' \in [Call -> CallRecord]
           /\ \A d \in Call : call'[d].at = call[d].at /\ call'[d].kind = call[d].kind
           /\ service' \in [Server -> Service]
           /\ handler' \in [Server -> Handler]
<1>1. ASSUME NEW d \in Call
      PROVE  /\ call'[d] \in CallRecord
             /\ call'[d].at = call[d].at /\ call'[d].kind = call[d].kind
  <2>1. call[d] \in CallRecord /\ Answered(call[d], "lost") \in Answer
    BY AnsweredType DEF ServerTypeOK, Answer
  <2> QED BY <2>1 DEF Down, CallRecord, Doing
<1>2. call' = [d \in Call |-> call'[d]]
  BY DEF Down
<1>3. service' \in [Server -> Service] /\ handler' \in [Server -> Handler]
  BY FreshRecords DEF Down, ServerTypeOK, Service, State
<1> QED BY <1>1, <1>2, <1>3

LEMMA StateType ==
    ASSUME ServerTypeOK, NEW s \in Server, NEW st \in State, SetState(s, st)
    PROVE  service' \in [Server -> Service]
BY DEF SetState, ServerTypeOK, Service

LEMMA SetUpType ==
    ASSUME ServerTypeOK, NEW s \in Server, SetUpOf(s)
    PROVE  handler' \in [Server -> Handler] /\ faults' \in Nat
<1>1. handler \in [Server -> Handler] /\ faults \in Nat
  BY DEF ServerTypeOK
<1>2. PICK b \in BOOLEAN, pg \in {"none", "new"} :
          handler' = [handler EXCEPT ![s].set = TRUE, ![s].browser = b, ![s].page = pg]
  BY DEF SetUpOf
<1> DEFINE h1 == [handler EXCEPT ![s].set = TRUE]
           h2 == [h1 EXCEPT ![s].browser = b]
<1>5. h1 \in [Server -> Handler]
  BY <1>1 DEF Handler
<1>6. h2 \in [Server -> Handler]
  <2> HIDE DEF h1
  <2> QED BY <1>5 DEF Handler
<1>7. handler' = [h2 EXCEPT ![s].page = pg]
  BY <1>1, <1>2
<1>3. handler' \in [Server -> Handler]
  <2> HIDE DEF h2
  <2> QED BY <1>6, <1>7 DEF Handler
<1>4. faults' \in Nat
  BY <1>1 DEF SetUpOf, Fault
<1> QED BY <1>3, <1>4

\* What all steps share: a call keeps its kind and its server.
LEMMA ServerStepType ==
    ASSUME ServerTypeOK, NEW c \in Call, ServerStep(c)
    PROVE  /\ ServerTypeOK'
           /\ \A d \in Call : call'[d].at = call[d].at /\ call'[d].kind = call[d].kind
<1> DEFINE SameCalls == /\ call' \in [Call -> CallRecord]
                        /\ \A d \in Call : call'[d].at = call[d].at
                                           /\ call'[d].kind = call[d].kind
           Types == /\ service' \in [Server -> Service]
                    /\ handler' \in [Server -> Handler]
                    /\ faults' \in Nat
<1> SUFFICES SameCalls /\ Types
  BY DEF ServerTypeOK
<1>0. /\ call \in [Call -> CallRecord] /\ call[c] \in CallRecord
      /\ service \in [Server -> Service]
      /\ handler \in [Server -> Handler]
      /\ faults \in Nat
  BY DEF ServerTypeOK
<1>a. {"started", "results", "empty", "rejected", "invalid", "refused", "failed",
       "lost"} \subseteq Answer
  BY DEF Answer
<1>b. {"nothing", "sent", "ignored", "crawl", "setup", "page", "proxy", "items",
       "restart"} \subseteq Doing /\ {"initial", "running", "failed"} = State
  BY DEF Doing, Crawling, State
<1>1. CASE InvokeEvent(c)
  <2>1. CASE Idle(call[c].at)
    <3>1. SetState(call[c].at, "running") \/ End(c, "refused")
      BY <1>1 DEF InvokeEvent
    <3>2. [call[c] EXCEPT !.doing = "crawl", !.answer = "started"] \in CallRecord
      BY <1>0, <1>a, <1>b DEF CallRecord
    <3> QED BY <1>0, <1>1, <1>a, <1>b, <2>1, <3>2, StateType
            DEF InvokeEvent, OnServer, CallRecord
  <2>2. CASE ~Idle(call[c].at)
    BY <1>0, <1>1, <1>a, <2>2, EndType DEF InvokeEvent
  <2> QED BY <2>1, <2>2
<1>2. CASE InvokeRequestResponse(c)
  BY <1>0, <1>2, <1>b, StateType, ContinueType DEF InvokeRequestResponse, OnServer
<1>3. CASE BlankSlate(c)
  BY <1>0, <1>3, <1>a, <1>b, StateType, ContinueType, EndType DEF BlankSlate, OnServer
<1>4. CASE CrawlResolves(c)
  <2>1. CASE Down(call[c].at)
    BY <1>0, <1>4, <2>1, DownType DEF CrawlResolves, OnServer
  <2>2. CASE ~Down(call[c].at)
    BY <1>0, <1>4, <1>a, <1>b, <2>2, StateType, EndType DEF CrawlResolves, OnServer
  <2> QED BY <2>1, <2>2
<1>5. CASE CrawlRejects(c)
  BY <1>0, <1>5, <1>a, <1>b, StateType, EndType DEF CrawlRejects, Rejects, OnServer, Fault
<1>6. CASE BlankSetup(c)
  BY <1>0, <1>6, <1>b, SetUpType, ContinueType DEF BlankSetup, OnServer
<1>7. CASE BlankPage(c)
  <2>1. CASE Rejects(c)
    BY <1>0, <1>7, <1>a, <1>b, <2>1, StateType, EndType
       DEF BlankPage, Rejects, OnServer, Fault
  <2>2. CASE ~Rejects(c)
    <3>1. handler' \in [Server -> Handler]
      BY <1>0, <1>7, <2>2 DEF BlankPage, OnServer, Handler
    <3> QED BY <1>0, <1>7, <1>b, <2>2, <3>1, ContinueType DEF BlankPage, OnServer
  <2> QED BY <2>1, <2>2
<1>8. CASE BlankProxy(c)
  <2>1. CASE Rejects(c)
    BY <1>0, <1>8, <1>a, <1>b, <2>1, StateType, EndType
       DEF BlankProxy, Rejects, OnServer, Fault, RestartedWith, Handler, CallRecord
  <2>2. CASE ~Rejects(c)
    <3>1. handler' \in [Server -> Handler]
      BY <1>0, <1>8, <2>2 DEF BlankProxy, OnServer, Handler, RestartedWith, CallRecord
    <3> QED BY <1>0, <1>8, <1>a, <1>b, <2>2, <3>1, ContinueType, EndType, StateType
            DEF BlankProxy, OnServer
  <2> QED BY <2>1, <2>2
<1>9. CASE BlankItems(c)
  <2> DEFINE s == call[c].at
             used == [handler[s] EXCEPT !.page = IF @ = "none" THEN "none" ELSE "used"]
  <2>a. s \in Server /\ handler[s] \in Handler
    BY <1>0, <1>9 DEF BlankItems, OnServer
  <2>b. used \in Handler /\ [used EXCEPT !.counted = TRUE] \in Handler
    BY <2>a DEF Handler
  <2>c. \/ handler' = [handler EXCEPT ![s] = [used EXCEPT !.counted = TRUE]]
        \/ handler' = [handler EXCEPT ![s] = used]
    BY <1>9 DEF BlankItems
  <2>1. handler' \in [Server -> Handler]
    BY <1>0, <2>a, <2>b, <2>c
  <2> QED BY <1>0, <1>9, <1>a, <1>b, <2>1, ContinueType, EndType, StateType
          DEF BlankItems, OnServer, Fault
<1>10. CASE BlankRestart(c)
  BY <1>0, <1>10, <1>a, <1>b, SetUpType, EndType, StateType DEF BlankRestart, OnServer
<1>11. CASE ConnectionRefused(c)
  BY <1>0, <1>11, <1>a, EndType DEF ConnectionRefused
<1>12. CASE Timeout(c)
  BY <1>0, <1>12, <1>a DEF Timeout, CallRecord
<1> QED BY <1>1, <1>2, <1>3, <1>4, <1>5, <1>6, <1>7, <1>8, <1>9, <1>10, <1>11, <1>12
        DEF ServerStep

LEMMA ProcessType ==
    ASSUME ServerTypeOK, NEW s \in Server, Crash(s) \/ Respawn(s)
    PROVE  /\ ServerTypeOK'
           /\ \A d \in Call : call'[d].at = call[d].at /\ call'[d].kind = call[d].kind
<1>1. CASE Crash(s)
  BY <1>1, DownType DEF Crash, Fault, ServerTypeOK
<1>2. CASE Respawn(s)
  BY <1>2, FreshRecords DEF Respawn, ServerTypeOK
<1> QED BY <1>1, <1>2

\* Every step of the servers keeps the types, and a call its kind and server.
THEOREM ServerTypeNext ==
    ASSUME ServerTypeOK, ServerNext
    PROVE  /\ ServerTypeOK'
           /\ \A d \in Call : call'[d].at = call[d].at /\ call'[d].kind = call[d].kind
BY ServerStepType, ProcessType DEF ServerNext

-----------------------------------------------------------------------------
(* One call at a time. *)

OneCallInv ==
    /\ OneCallAtATime
    /\ \A s \in Server : ~service[s].up => service[s].state # "running"

\* A step of a call that is active, or was accepted by a server without one.
LEMMA ActiveStep ==
    ASSUME OneCallInv, NEW c \in Call, NEW s \in Server, call[c].at = s,
           call[c].doing \in Crawling \/ service[s].state # "running",
           \A d \in Call \ {c} : call'[d] = call[d],
           call'[c].at = s,
           \A r \in Server \ {s} : service'[r] = service[r],
           service'[s].up,
           service'[s].state = "running" <=> call'[c].doing \in Crawling
    PROVE  OneCallInv'
<1>1. \A d \in Call : call'[d].at = call[d].at
  OBVIOUS
<1>2. \A d \in Call \ {c} : ~(call[d].at = s /\ call[d].doing \in Crawling)
  BY DEF OneCallInv, OneCallAtATime, ActiveOn
<1>3. ActiveOn(s)' = IF call'[c].doing \in Crawling THEN {c} ELSE {}
  BY <1>1, <1>2 DEF ActiveOn
<1>4. \A r \in Server \ {s} : ActiveOn(r)' = ActiveOn(r)
  BY <1>1 DEF ActiveOn
<1> QED BY <1>3, <1>4 DEF OneCallInv, OneCallAtATime

\* A step of a call that is not active, before and after.
LEMMA IdleStep ==
    ASSUME OneCallInv, NEW c \in Call, service' = service,
           call[c].doing \notin Crawling, call'[c].doing \notin Crawling,
           \A d \in Call \ {c} : call'[d] = call[d]
    PROVE  OneCallInv'
<1>1. \A r \in Server : ActiveOn(r)' = ActiveOn(r)
  BY DEF ActiveOn
<1> QED BY <1>1 DEF OneCallInv, OneCallAtATime

LEMMA DownStep ==
    ASSUME ServerTypeOK, OneCallInv, NEW s \in Server, Down(s)
    PROVE  OneCallInv'
<1>1. \A d \in Call : call'[d].at = call[d].at
  BY DownType
<1>2. \A d \in Call : call'[d].doing = IF call[d].at = s THEN "nothing" ELSE call[d].doing
  BY DEF Down, ServerTypeOK, CallRecord
<1>3. ActiveOn(s)' = {}
  BY <1>1, <1>2 DEF ActiveOn, Crawling
<1>4. \A r \in Server \ {s} : ActiveOn(r)' = ActiveOn(r)
  BY <1>1, <1>2 DEF ActiveOn
<1>5. \A r \in Server \ {s} : service'[r] = service[r]
  BY DEF Down, ServerTypeOK
<1>6. service'[s].state = "initial"
  BY DEF Down, ServerTypeOK
<1> QED BY <1>3, <1>4, <1>5, <1>6 DEF OneCallInv, OneCallAtATime

\* What End, Continue and SetState do.
LEMMA EndEffect ==
    ASSUME ServerTypeOK, NEW c \in Call, NEW a, End(c, a)
    PROVE  /\ call'[c].doing = "nothing" /\ call'[c].at = call[c].at
           /\ \A d \in Call \ {c} : call'[d] = call[d]
           /\ call'[c].answer = Answered(call[c], a)
           /\ call'[c].kind = call[c].kind /\ call'[c].proxy = call[c].proxy
BY DEF End, ServerTypeOK, CallRecord

LEMMA ContinueEffect ==
    ASSUME ServerTypeOK, NEW c \in Call, NEW doing, Continue(c, doing)
    PROVE  /\ call'[c].doing = doing /\ call'[c].at = call[c].at
           /\ \A d \in Call \ {c} : call'[d] = call[d]
           /\ call'[c].answer = call[c].answer
           /\ call'[c].kind = call[c].kind /\ call'[c].proxy = call[c].proxy
BY DEF Continue, ServerTypeOK, CallRecord

LEMMA StateEffect ==
    ASSUME ServerTypeOK, NEW s \in Server, NEW st, SetState(s, st)
    PROVE  /\ service'[s].state = st /\ service'[s].up = service[s].up
           /\ \A r \in Server \ {s} : service'[r] = service[r]
BY DEF SetState, ServerTypeOK, Service

LEMMA OneCallStep ==
    ASSUME ServerTypeOK, OneCallInv, NEW c \in Call, ServerStep(c)
    PROVE  OneCallInv'
<1> DEFINE s == call[c].at
<1>0. /\ ~(call[c].doing \in {"nothing", "sent", "ignored"} /\ call[c].doing \in Crawling)
      /\ {"crawl", "setup", "page", "proxy", "items", "restart"} = Crawling
  BY DEF Crawling
<1>1. CASE InvokeEvent(c)
  <2>1. CASE Idle(s)
    <3>1. /\ s \in Server /\ service[s].up /\ service[s].state # "running"
          /\ SetState(s, "running")
      BY <1>1, <2>1 DEF InvokeEvent, OnServer, Idle
    <3>2. /\ call'[c].doing = "crawl" /\ call'[c].at = s
          /\ \A d \in Call \ {c} : call'[d] = call[d]
      BY <1>1, <2>1 DEF InvokeEvent, ServerTypeOK, CallRecord
    <3> QED BY <1>0, <3>1, <3>2, StateEffect, ActiveStep
  <2>2. CASE ~Idle(s)
    <3>1. End(c, "refused") /\ service' = service /\ call[c].doing = "sent"
      BY <1>1, <2>2 DEF InvokeEvent, OnServer
    <3> QED BY <1>0, <3>1, EndEffect, IdleStep
  <2> QED BY <2>1, <2>2
<1>2. CASE InvokeRequestResponse(c)
  <2>1. CASE Idle(s)
    <3>1. /\ s \in Server /\ service[s].up /\ service[s].state # "running"
          /\ SetState(s, "running") /\ Continue(c, "crawl")
      BY <1>2, <2>1 DEF InvokeRequestResponse, OnServer, Idle
    <3> QED BY <1>0, <3>1, StateEffect, ContinueEffect, ActiveStep
  <2>2. CASE ~Idle(s)
    <3>1. Continue(c, "ignored") /\ service' = service /\ call[c].doing = "sent"
      BY <1>2, <2>2 DEF InvokeRequestResponse, OnServer
    <3> QED BY <1>0, <3>1, ContinueEffect, IdleStep
  <2> QED BY <2>1, <2>2
<1>3. CASE BlankSlate(c)
  <2>1. CASE Idle(s)
    <3>1. /\ s \in Server /\ service[s].up /\ service[s].state # "running"
          /\ SetState(s, "running") /\ Continue(c, "setup")
      BY <1>3, <2>1 DEF BlankSlate, OnServer, Idle
    <3> QED BY <1>0, <3>1, StateEffect, ContinueEffect, ActiveStep
  <2>2. CASE ~Idle(s)
    <3>1. End(c, "refused") /\ service' = service /\ call[c].doing = "sent"
      BY <1>3, <2>2 DEF BlankSlate, OnServer
    <3> QED BY <1>0, <3>1, EndEffect, IdleStep
  <2> QED BY <2>1, <2>2
\* A step of an active call: it goes on, or ends with the state set.
<1>4. ASSUME NEW doing \in Crawling, OnServer(c, doing),
             \/ \E next \in Crawling : Continue(c, next) /\ service' = service
             \/ \E a, st : End(c, a) /\ SetState(s, st) /\ st # "running"
      PROVE  OneCallInv'
  <2>1. s \in Server /\ service[s].up /\ call[c].doing \in Crawling
    BY <1>4 DEF OnServer
  <2>2. CASE \E next \in Crawling : Continue(c, next) /\ service' = service
    <3>1. service[s].state = "running"
      BY <2>1 DEF OneCallInv, OneCallAtATime, ActiveOn
    <3> QED BY <2>1, <2>2, <3>1, ContinueEffect, ActiveStep
  <2>3. CASE \E a, st : End(c, a) /\ SetState(s, st) /\ st # "running"
    BY <1>0, <2>1, <2>3, EndEffect, StateEffect, ActiveStep
  <2> QED BY <1>4, <2>2, <2>3
<1>5. CASE CrawlResolves(c)
  <2>1. CASE Down(s)
    BY <1>5, <2>1, DownStep DEF CrawlResolves, OnServer
  <2>2. CASE ~Down(s)
    BY <1>0, <1>4, <1>5, <2>2 DEF CrawlResolves
  <2> QED BY <2>1, <2>2
<1>6. CASE CrawlRejects(c)
  BY <1>0, <1>4, <1>6 DEF CrawlRejects, Rejects
<1>7. CASE BlankSetup(c)
  BY <1>0, <1>4, <1>7 DEF BlankSetup
<1>8. CASE BlankPage(c)
  BY <1>0, <1>4, <1>8 DEF BlankPage, Rejects
<1>9. CASE BlankProxy(c)
  BY <1>0, <1>4, <1>9 DEF BlankProxy, Rejects
<1>10. CASE BlankItems(c)
  BY <1>0, <1>4, <1>10 DEF BlankItems
<1>11. CASE BlankRestart(c)
  BY <1>0, <1>4, <1>11 DEF BlankRestart
<1>12. CASE ConnectionRefused(c)
  BY <1>0, <1>12, EndEffect, IdleStep DEF ConnectionRefused
<1>13. CASE Timeout(c)
  <2>1. /\ \A d \in Call : call'[d].at = call[d].at /\ call'[d].doing = call[d].doing
        /\ service' = service
    BY <1>13 DEF Timeout, ServerTypeOK, CallRecord
  <2>2. \A r \in Server : ActiveOn(r)' = ActiveOn(r)
    BY <2>1 DEF ActiveOn
  <2> QED BY <2>1, <2>2 DEF OneCallInv, OneCallAtATime
<1> QED BY <1>1, <1>2, <1>3, <1>5, <1>6, <1>7, <1>8, <1>9, <1>10, <1>11, <1>12, <1>13
        DEF ServerStep

\* A server never works on two calls, and its state tells whether it works on one.
THEOREM OneCallNext ==
    ASSUME ServerTypeOK, OneCallInv, ServerNext
    PROVE  OneCallInv'
<1>1. CASE \E c \in Call : ServerStep(c)
  BY <1>1, OneCallStep
<1>2. CASE \E s \in Server : Crash(s)
  BY <1>2, DownStep DEF Crash
<1>3. ASSUME NEW s \in Server, Respawn(s) PROVE OneCallInv'
  <2>1. call' = call /\ service' = [service EXCEPT ![s] = NewService]
    BY <1>3 DEF Respawn
  <2>2. \A r \in Server : ActiveOn(r)' = ActiveOn(r)
    BY <2>1 DEF ActiveOn
  <2>3. service[s].state # "running"
    BY <1>3 DEF Respawn, OneCallInv
  <2> QED BY <2>1, <2>2, <2>3 DEF OneCallInv, OneCallAtATime, NewService, ServerTypeOK
<1> QED BY <1>1, <1>2, <1>3 DEF ServerNext

-----------------------------------------------------------------------------
(* The browser that is kept. *)

\* A step touches the browser of one server, and no other call that works.
LEMMA StepFrame ==
    ASSUME ServerTypeOK, OneCallInv, NEW c \in Call, ServerStep(c)
    PROVE  /\ \A r \in Server \ {call[c].at} : handler'[r] = handler[r]
           /\ \A d \in Call \ {c} : call[d].at # call[c].at => call'[d] = call[d]
           /\ \A d \in Call \ {c} : call'[d].doing \in Crawling =>
                 call'[d] = call[d] /\ (call[d].at # call[c].at \/ handler' = handler)
<1> DEFINE s == call[c].at
<1>0. {"crawl", "setup", "page", "proxy", "items", "restart"} = Crawling
      /\ "nothing" \notin Crawling
  BY DEF Crawling
<1>1. CASE s \in Server /\ Down(s)
  <2>1. \A d \in Call : call'[d] = IF call[d].at = s /\ call[d].doing # "nothing"
            THEN [call[d] EXCEPT !.doing = "nothing", !.answer = Answered(call[d], "lost")]
            ELSE call[d]
    BY <1>1 DEF Down
  <2>2. \A d \in Call : call[d].at = s => call'[d].doing = "nothing"
    BY <2>1 DEF ServerTypeOK, CallRecord
  <2>3. \A r \in Server \ {s} : handler'[r] = handler[r]
    BY <1>1 DEF Down, ServerTypeOK
  <2> QED BY <1>0, <2>1, <2>2, <2>3
<1>2. CASE ~(s \in Server /\ Down(s))
  <2>1. \A d \in Call \ {c} : call'[d] = call[d]
    BY <1>2, EndEffect, ContinueEffect
       DEF ServerStep, InvokeEvent, InvokeRequestResponse, BlankSlate, CrawlResolves,
           CrawlRejects, Rejects, BlankSetup, BlankPage, BlankProxy, BlankItems,
           BlankRestart, ConnectionRefused, Timeout, ServerTypeOK, OnServer
  <2>2. \A r \in Server \ {s} : handler'[r] = handler[r]
    <3>1. CASE BlankItems(c)
      <4>1. \E h : handler' = [handler EXCEPT ![s] = h]
        BY <3>1 DEF BlankItems
      <4> QED BY <4>1 DEF ServerTypeOK
    <3>2. ASSUME SetUpOf(s) PROVE \A r \in Server \ {s} : handler'[r] = handler[r]
      BY <3>2 DEF SetUpOf, ServerTypeOK
    <3>3. CASE BlankPage(c)
      <4>1. \/ handler' = [handler EXCEPT ![s].page = "new"]
            \/ handler' = handler
        BY <3>3 DEF BlankPage, Rejects
      <4> QED BY <4>1 DEF ServerTypeOK
    <3> QED BY <1>2, <3>1, <3>2, <3>3
            DEF ServerStep, InvokeEvent, InvokeRequestResponse, BlankSlate, CrawlResolves,
                CrawlRejects, Rejects, BlankSetup, BlankProxy, BlankRestart,
                ConnectionRefused, Timeout, ServerTypeOK, OnServer
  <2>3. handler' = handler \/ (s \in Server /\ call[c].doing \in Crawling)
    BY <1>0, <1>2 DEF ServerStep, InvokeEvent, InvokeRequestResponse, BlankSlate,
           CrawlResolves, CrawlRejects, Rejects, BlankSetup, BlankPage, BlankProxy,
           BlankItems, BlankRestart, ConnectionRefused, Timeout, OnServer
  <2>4. ASSUME NEW d \in Call \ {c}, call[d].doing \in Crawling, handler' # handler
        PROVE  call[d].at # s
    BY <2>3, <2>4 DEF OneCallInv, OneCallAtATime, ActiveOn
  <2> QED BY <2>1, <2>2, <2>4
<1> QED BY <1>1, <1>2

ProxyInv ==
    \A c \in Call : call[c].at \in Server /\ call[c].doing = "items"
        => handler[call[c].at].proxy = call[c].proxy

LEMMA ProxyStep ==
    ASSUME ServerTypeOK, OneCallInv, ProxyInv, NEW c \in Call, ServerStep(c)
    PROVE  ProxyInv'
<1> SUFFICES ASSUME NEW d \in Call, (call[d].at \in Server)', (call[d].doing = "items")'
             PROVE  (handler[call[d].at].proxy = call[d].proxy)'
  BY DEF ProxyInv
<1>1. CASE d # c
  <2>1. call'[d] = call[d] /\ (call[d].at # call[c].at \/ handler' = handler)
    BY <1>1, StepFrame DEF Crawling
  <2>2. handler'[call[d].at] = handler[call[d].at]
    BY <2>1, StepFrame
  <2> QED BY <2>1, <2>2 DEF ProxyInv
<1>2. CASE d = c
  <2>1. CASE BlankProxy(c)
    <3>1. /\ OnServer(c, "proxy")
          /\ handler' = [handler EXCEPT ![call[c].at] = RestartedWith(@, call[c].proxy)]
          /\ Continue(c, "items")
      <4>1. ~ \E a : End(c, a)
        BY <1>2, EndEffect
      <4> QED BY <2>1, <4>1 DEF BlankProxy, Rejects
    <3>2. call'[c].at = call[c].at /\ call'[c].proxy = call[c].proxy
      BY <3>1, ContinueEffect
    <3> QED BY <1>2, <3>1, <3>2 DEF RestartedWith, ServerTypeOK, Handler, OnServer
  <2>2. CASE Timeout(c)
    BY <1>2, <2>2 DEF Timeout, ProxyInv, ServerTypeOK, CallRecord
  <2>3. CASE ~BlankProxy(c) /\ ~Timeout(c)
    <3>1. call[c].at \in Server => ~Down(call[c].at)
      <4>1. ASSUME call[c].at \in Server, Down(call[c].at) PROVE call'[c].doing = "nothing"
        BY <4>1 DEF Down, ServerTypeOK, CallRecord
      <4> QED BY <1>2, <4>1
    <3>2. \/ \E a : End(c, a)
          \/ \E doing \in {"crawl", "ignored", "setup", "page", "proxy", "restart"} :
                Continue(c, doing)
          \/ call'[c].doing = "crawl"
      BY <2>3, <3>1 DEF ServerStep, InvokeEvent, InvokeRequestResponse, BlankSlate,
           CrawlResolves, CrawlRejects, Rejects, BlankSetup, BlankPage, BlankItems,
           BlankRestart, ConnectionRefused, OnServer, ServerTypeOK, CallRecord
    <3> QED BY <1>2, <3>2, EndEffect, ContinueEffect
  <2> QED BY <2>1, <2>2, <2>3
<1> QED BY <1>1, <1>2

PageInv ==
    /\ \A s \in Server : handler[s].page = "used" /\ ~handler[s].counted
          => \E c \in Call : call[c].at = s /\ call[c].doing = "restart"
    /\ \A c \in Call : call[c].at \in Server /\ call[c].doing \in {"proxy", "items"}
          => handler[call[c].at].page # "used"

LEMMA PageStep ==
    ASSUME ServerTypeOK, OneCallInv, PageInv, NEW c \in Call, ServerStep(c)
    PROVE  PageInv'
<1> DEFINE s == call[c].at
\* Servers other than that of the call.
<1>1. ASSUME NEW r \in Server \ {s}
      PROVE  (handler[r].page = "used" /\ ~handler[r].counted
               => \E d \in Call : call[d].at = r /\ call[d].doing = "restart")'
  <2>1. handler'[r] = handler[r]
    BY <1>1, StepFrame
  <2>2. \A d \in Call : call[d].at = r => call'[d] = call[d]
    BY <1>1, StepFrame
  <2> QED BY <2>1, <2>2 DEF PageInv
<1>2. ASSUME NEW d \in Call \ {c}, (call[d].at \in Server)',
             (call[d].doing \in {"proxy", "items"})'
      PROVE  (handler[call[d].at].page # "used")'
  <2>1. call'[d] = call[d] /\ (call[d].at # s \/ handler' = handler)
    BY <1>2, StepFrame DEF Crawling
  <2>2. handler'[call[d].at] = handler[call[d].at]
    BY <1>2, <2>1, StepFrame
  <2> QED BY <1>2, <2>1, <2>2 DEF PageInv
\* The call itself and its server.
<1> DEFINE Here == s \in Server =>
             /\ handler'[s].page = "used" /\ ~handler'[s].counted
                  => \E d \in Call : call'[d].at = s /\ call'[d].doing = "restart"
             /\ call'[c].doing \in {"proxy", "items"} => handler'[s].page # "used"
<1>0. /\ handler \in [Server -> Handler]
      /\ s \in Server => handler[s] \in Handler
  BY DEF ServerTypeOK, Handler
<1>3. ASSUME s \in Server, handler' = handler, call[c].doing # "restart",
             \A d \in Call \ {c} : call'[d] = call[d],
             call'[c].doing \notin {"proxy", "items"}
      PROVE  Here
  BY <1>3 DEF PageInv
<1>4. ASSUME s \in Server, Down(s) PROVE Here
  <2>1. handler'[s] = NewHandler
    BY <1>0, <1>4 DEF Down
  <2> QED BY <2>1 DEF NewHandler
<1>5. ASSUME ~(s \in Server /\ Down(s)) PROVE Here
  <2>1. \A d \in Call \ {c} : call'[d] = call[d]
    BY <1>5, EndEffect, ContinueEffect
       DEF ServerStep, InvokeEvent, InvokeRequestResponse, BlankSlate, CrawlResolves,
           CrawlRejects, Rejects, BlankSetup, BlankPage, BlankProxy, BlankItems,
           BlankRestart, ConnectionRefused, Timeout, ServerTypeOK, OnServer
  <2>2. CASE InvokeEvent(c)
    <3>1. call[c].doing = "sent" /\ handler' = handler
      BY <2>2 DEF InvokeEvent, OnServer
    <3>2. call'[c].doing \in {"crawl", "nothing"}
      BY <2>2, EndEffect DEF InvokeEvent, ServerTypeOK, CallRecord
    <3> QED BY <1>3, <2>1, <3>1, <3>2
  <2>3. CASE InvokeRequestResponse(c) \/ BlankSlate(c)
    <3>1. call[c].doing = "sent" /\ handler' = handler
      BY <2>3 DEF InvokeRequestResponse, BlankSlate, OnServer
    <3>2. call'[c].doing \in {"crawl", "setup", "nothing", "ignored"}
      BY <2>3, EndEffect, ContinueEffect DEF InvokeRequestResponse, BlankSlate
    <3> QED BY <1>3, <2>1, <3>1, <3>2
  <2>4. CASE CrawlResolves(c) \/ CrawlRejects(c) \/ ConnectionRefused(c)
    <3>1. call[c].doing \in {"sent", "crawl"} /\ handler' = handler
      BY <1>5, <2>4 DEF CrawlResolves, CrawlRejects, Rejects, ConnectionRefused, OnServer
    <3>2. call'[c].doing = "nothing"
      BY <1>5, <2>4, EndEffect DEF CrawlResolves, CrawlRejects, Rejects, ConnectionRefused,
                                   OnServer
    <3> QED BY <1>3, <2>1, <3>1, <3>2
  <2>5. CASE BlankSetup(c)
    <3>1. s \in Server /\ call[c].doing = "setup"
      BY <2>5 DEF BlankSetup, OnServer
    <3>2. /\ call'[c].doing = IF handler[s].counted THEN "page" ELSE "proxy"
          /\ call'[c].at = s
      BY <2>5, ContinueEffect DEF BlankSetup, NeedsPage, Doing
    <3>3. CASE ~handler[s].set /\ SetUpOf(s)
      <4>1. handler'[s].page \in {"new", "none"}
        BY <1>0, <3>1, <3>3 DEF SetUpOf, Handler
      <4> QED BY <4>1
    <3>4. CASE handler' = handler
      <4>1. \A d \in Call \ {c} : ~(call[d].at = s /\ call[d].doing = "restart")
        BY <3>1 DEF OneCallInv, OneCallAtATime, ActiveOn, Crawling
      <4>2. handler[s].page = "used" => handler[s].counted
        BY <3>1, <4>1 DEF PageInv
      <4> QED BY <3>2, <3>4, <4>2
    <3> QED BY <2>5, <3>3, <3>4 DEF BlankSetup
  <2>6. CASE BlankPage(c)
    <3>1. s \in Server /\ call[c].doing = "page"
      BY <2>6 DEF BlankPage, OnServer
    <3>2. CASE Rejects(c)
      <4>1. handler' = handler /\ call'[c].doing = "nothing"
        BY <3>2, EndEffect DEF Rejects
      <4> QED BY <1>3, <2>1, <3>1, <4>1
    <3>3. CASE handler' = [handler EXCEPT ![s].page = "new"]
      BY <1>0, <3>1, <3>3
    <3> QED BY <2>6, <3>2, <3>3 DEF BlankPage
  <2>7. CASE BlankProxy(c)
    <3>1. s \in Server /\ call[c].doing = "proxy"
      BY <2>7 DEF BlankProxy, OnServer
    <3>2. CASE Rejects(c)
      <4>1. handler' = handler /\ call'[c].doing = "nothing"
        BY <3>2, EndEffect DEF Rejects
      <4> QED BY <1>3, <2>1, <3>1, <4>1
    <3>3. CASE handler' = [handler EXCEPT ![s] = RestartedWith(@, call[c].proxy)]
      <4>1. handler'[s].page = handler[s].page
        BY <1>0, <3>1, <3>3 DEF RestartedWith, Handler
      <4> QED BY <3>1, <4>1 DEF PageInv
    <3> QED BY <2>7, <3>2, <3>3 DEF BlankProxy
  <2>8. CASE BlankItems(c)
    <3> DEFINE used == [handler[s] EXCEPT !.page = IF @ = "none" THEN "none" ELSE "used"]
    <3>1. s \in Server /\ call[c].doing = "items" /\ handler[s] \in Handler
      BY <1>0, <2>8 DEF BlankItems, OnServer
    <3>2. call'[c].doing \in {"nothing", "restart"} /\ call'[c].at = s
      BY <2>8, EndEffect, ContinueEffect DEF BlankItems
    <3>3. CASE handler' = [handler EXCEPT ![s] = [used EXCEPT !.counted = TRUE]]
      <4>1. used \in Handler
        BY <3>1 DEF Handler
      <4>2. handler'[s].counted
        <5> HIDE DEF used
        <5> QED BY <1>0, <3>1, <3>3, <4>1 DEF Handler
      <4> QED BY <3>2, <4>2
    <3>4. CASE Continue(c, "restart")
      BY <3>2, <3>4, ContinueEffect
    <3> QED BY <2>8, <3>3, <3>4 DEF BlankItems
  <2>9. CASE BlankRestart(c)
    <3>1. s \in Server /\ SetUpOf(s)
      BY <2>9 DEF BlankRestart, OnServer
    <3>2. handler'[s].page \in {"new", "none"}
      BY <1>0, <3>1 DEF SetUpOf, Handler
    <3> QED BY <3>2
  <2>10. CASE Timeout(c)
    <3>1. /\ handler' = handler
          /\ \A d \in Call : call'[d].at = call[d].at /\ call'[d].doing = call[d].doing
      BY <2>10 DEF Timeout, ServerTypeOK, CallRecord
    <3> QED BY <3>1 DEF PageInv
  <2> QED BY <2>2, <2>3, <2>4, <2>5, <2>6, <2>7, <2>8, <2>9, <2>10 DEF ServerStep
<1>6. Here
  BY <1>4, <1>5
<1>7. call'[c].at = s
  BY ServerStepType
<1> QED BY <1>1, <1>2, <1>6, <1>7 DEF PageInv

\* After a crash there is no page, and nothing that could use it.
LEMMA ProcessStep ==
    ASSUME ServerTypeOK, OneCallInv, ProxyInv, PageInv, NEW s \in Server,
           Crash(s) \/ Respawn(s)
    PROVE  ProxyInv' /\ PageInv'
<1>1. CASE Crash(s)
  <2>1. Down(s)
    BY <1>1 DEF Crash
  <2>2. \A d \in Call : call'[d].at = call[d].at
    BY <2>1, DownType
  <2>3. \A d \in Call : call[d].at = s => call'[d].doing = "nothing"
    BY <2>1 DEF Down, ServerTypeOK, CallRecord
  <2>4. \A d \in Call : call[d].at # s => call'[d] = call[d]
    BY <2>1 DEF Down
  <2>5. \A r \in Server \ {s} : handler'[r] = handler[r]
    BY <2>1 DEF Down, ServerTypeOK
  <2>6. handler'[s].page = "none"
    BY <2>1 DEF Down, ServerTypeOK, NewHandler
  <2>7. ProxyInv'
    BY <2>2, <2>3, <2>4, <2>5 DEF ProxyInv
  <2>8. PageInv'
    BY <2>2, <2>3, <2>4, <2>5, <2>6 DEF PageInv
  <2> QED BY <2>7, <2>8
<1>2. CASE Respawn(s)
  BY <1>2 DEF Respawn, ProxyInv, PageInv
<1> QED BY <1>1, <1>2

\* No blankSlate call crawls through the proxy or with the page of another.
THEOREM BrowserNext ==
    ASSUME ServerTypeOK, OneCallInv, ProxyInv, PageInv, ServerNext
    PROVE  ProxyInv' /\ PageInv'
BY ProxyStep, PageStep, ProcessStep DEF ServerNext

-----------------------------------------------------------------------------
(* What the clients see. *)

\* The answers to an invokeRequestResponse and to a Lambda call.
Replies == {"none", "results", "empty", "rejected", "refused", "failed", "lost"}

AnswerInv ==
    \A c \in Call : call[c].kind = "response" =>
        /\ call[c].answer \in Replies
        /\ call[c].doing \in {"nothing", "sent", "ignored", "crawl"}

\* What the servers leave alone: calls of the other kind, and given answers.
AnswersStay ==
    \A c \in Call :
        /\ call[c].kind \in {"none", "lambda"} => call'[c] = call[c]
        /\ call[c].kind = "response" /\ call[c].answer # "none"
             => call'[c].answer = call[c].answer

LEMMA DownAnswers ==
    ASSUME ServerTypeOK, AnswerInv, NEW s \in Server, Down(s)
    PROVE  AnswerInv' /\ AnswersStay
<1> SUFFICES ASSUME NEW d \in Call
             PROVE  /\ (call[d].kind = "response" =>
                          /\ call[d].answer \in Replies
                          /\ call[d].doing \in {"nothing", "sent", "ignored", "crawl"})'
                    /\ call[d].kind \in {"none", "lambda"} => call'[d] = call[d]
                    /\ call[d].kind = "response" /\ call[d].answer # "none"
                         => call'[d].answer = call[d].answer
  BY DEF AnswerInv, AnswersStay
<1>1. call[d] \in CallRecord /\ (call[d].at \in Server <=> call[d].kind \notin {"none", "lambda"})
  BY DEF ServerTypeOK
<1>2. CASE call[d].at = s /\ call[d].doing # "nothing"
  <2>1. call'[d] = [call[d] EXCEPT !.doing = "nothing", !.answer = Answered(call[d], "lost")]
    BY <1>2 DEF Down
  <2> QED BY <1>1, <1>2, <2>1 DEF AnswerInv, Answered, CallRecord, Replies
<1>3. CASE ~(call[d].at = s /\ call[d].doing # "nothing")
  <2>1. call'[d] = call[d]
    BY <1>3 DEF Down
  <2> QED BY <2>1 DEF AnswerInv
<1> QED BY <1>2, <1>3

LEMMA AnswersStep ==
    ASSUME ServerTypeOK, AnswerInv, NEW c \in Call, ServerStep(c)
    PROVE  AnswerInv' /\ AnswersStay
<1> DEFINE s == call[c].at
           Same == \A d \in Call \ {c} : call'[d] = call[d]
           Good == /\ call'[c].kind = call[c].kind
                   /\ call[c].kind = "response" =>
                        /\ call'[c].answer \in Replies
                        /\ call'[c].doing \in {"nothing", "sent", "ignored", "crawl"}
                        /\ call[c].answer # "none" => call'[c].answer = call[c].answer
<1>0. /\ call[c] \in CallRecord
      /\ call[c].at \in Server <=> call[c].kind \notin {"none", "lambda"}
  BY DEF ServerTypeOK
<1>1. ASSUME Same, Good, s \in Server PROVE AnswerInv' /\ AnswersStay
  BY <1>0, <1>1 DEF AnswerInv, AnswersStay
<1>2. ASSUME NEW a, End(c, a), s \in Server, call[c].kind = "response" => a \in Replies
      PROVE  AnswerInv' /\ AnswersStay
  <2>1. Same /\ Good
    BY <1>2, EndEffect DEF Answered, AnswerInv
  <2> QED BY <1>1, <1>2, <2>1
<1>3. ASSUME NEW doing, Continue(c, doing), s \in Server,
             call[c].kind = "response" => doing \in {"ignored", "crawl"}
      PROVE  AnswerInv' /\ AnswersStay
  <2>1. Same /\ Good
    BY <1>3, ContinueEffect DEF AnswerInv
  <2> QED BY <1>1, <1>3, <2>1
<1>4. ASSUME NEW doing \in {"setup", "page", "proxy", "items", "restart"}, OnServer(c, doing)
      PROVE  s \in Server /\ call[c].kind # "response"
  BY <1>4 DEF OnServer, AnswerInv
<1>5. {"results", "empty", "rejected", "failed", "lost", "refused"} \subseteq Replies
  BY DEF Replies
<1>6. CASE InvokeEvent(c)
  <2>1. s \in Server /\ call[c].kind = "event"
    BY <1>6 DEF InvokeEvent, OnServer
  <2>2. CASE End(c, "refused")
    BY <1>2, <2>1, <2>2
  <2>3. CASE call' = [call EXCEPT ![c].doing = "crawl", ![c].answer = "started"]
    <3>1. Same /\ Good
      BY <2>1, <2>3 DEF ServerTypeOK, CallRecord
    <3> QED BY <1>1, <2>1, <3>1
  <2> QED BY <1>6, <2>2, <2>3 DEF InvokeEvent
<1>7. CASE InvokeRequestResponse(c)
  BY <1>3, <1>7 DEF InvokeRequestResponse, OnServer
<1>8. CASE BlankSlate(c)
  BY <1>2, <1>3, <1>8 DEF BlankSlate, OnServer
<1>9. CASE CrawlResolves(c)
  BY <1>2, <1>5, <1>9, DownAnswers DEF CrawlResolves, OnServer
<1>10. CASE CrawlRejects(c)
  BY <1>2, <1>5, <1>10 DEF CrawlRejects, Rejects, OnServer
<1>11. CASE BlankSetup(c)
  BY <1>3, <1>4, <1>11 DEF BlankSetup
<1>12. CASE BlankPage(c)
  BY <1>2, <1>3, <1>4, <1>12 DEF BlankPage, Rejects
<1>13. CASE BlankProxy(c)
  BY <1>2, <1>3, <1>4, <1>13 DEF BlankProxy, Rejects
<1>14. CASE BlankItems(c)
  BY <1>2, <1>3, <1>4, <1>14 DEF BlankItems
<1>15. CASE BlankRestart(c)
  BY <1>2, <1>4, <1>15 DEF BlankRestart
<1>16. CASE ConnectionRefused(c)
  BY <1>2, <1>5, <1>16 DEF ConnectionRefused
<1>17. CASE Timeout(c)
  <2>1. Same /\ Good /\ s \in Server
    BY <1>0, <1>5, <1>17 DEF Timeout, ServerTypeOK, CallRecord, AnswerInv
  <2> QED BY <1>1, <2>1
<1> QED BY <1>6, <1>7, <1>8, <1>9, <1>10, <1>11, <1>12, <1>13, <1>14, <1>15, <1>16, <1>17
        DEF ServerStep

\* An answer that a client has got stays, and a call that is answered with results
\* is never answered with what the other kinds of call get.
THEOREM AnswersNext ==
    ASSUME ServerTypeOK, AnswerInv, ServerNext
    PROVE  AnswerInv' /\ AnswersStay
<1>1. CASE \E c \in Call : ServerStep(c)
  BY <1>1, AnswersStep
<1>2. CASE \E s \in Server : Crash(s)
  BY <1>2, DownAnswers DEF Crash
<1>3. CASE \E s \in Server : Respawn(s)
  BY <1>3 DEF Respawn, AnswerInv, AnswersStay
<1> QED BY <1>1, <1>2, <1>3 DEF ServerNext

-----------------------------------------------------------------------------
(* How far a call is from its end. *)

\* The steps a server has still to take for a call.
StepsFrom == [d \in Doing |->
    CASE d = "sent" -> 6
      [] d = "setup" -> 5
      [] d = "page" -> 4
      [] d = "proxy" -> 3
      [] d = "items" -> 2
      [] d \in {"crawl", "restart", "ignored"} -> 1
      [] d = "nothing" -> 0]

\* And the answer its client still waits for.
Left(r) == StepsFrom[r.doing] + (IF r.answer = "none" THEN 1 ELSE 0)

CallLeft(c) == Left(call[c])

LEMMA StepsFromValues ==
    /\ StepsFrom["sent"] = 6 /\ StepsFrom["setup"] = 5 /\ StepsFrom["page"] = 4
    /\ StepsFrom["proxy"] = 3 /\ StepsFrom["items"] = 2
    /\ StepsFrom["crawl"] = 1 /\ StepsFrom["restart"] = 1 /\ StepsFrom["ignored"] = 1
    /\ StepsFrom["nothing"] = 0
    /\ \A d \in Doing : StepsFrom[d] \in 0 .. 6
    /\ \A d \in Doing \ {"nothing"} : StepsFrom[d] > 0
BY DEF StepsFrom, Doing, Crawling

LEMMA LeftType ==
    ASSUME NEW r \in CallRecord
    PROVE  Left(r) \in 0 .. 7
<1>1. StepsFrom[r.doing] \in 0 .. 6
  BY StepsFromValues DEF CallRecord
<1> QED BY <1>1 DEF Left

\* A call on which a server works is nearer to its end when the server has moved
\* on, and when it is answered.
LEMMA LeftDrops ==
    ASSUME NEW r \in CallRecord, NEW q \in CallRecord,
           StepsFrom[q.doing] < StepsFrom[r.doing],
           q.answer = "none" => r.answer = "none"
    PROVE  Left(q) < Left(r)
<1>1. StepsFrom[r.doing] \in 0 .. 6 /\ StepsFrom[q.doing] \in 0 .. 6
  BY StepsFromValues DEF CallRecord
<1> QED BY <1>1 DEF Left

LEMMA DownLeft ==
    ASSUME ServerTypeOK, NEW s \in Server, Down(s), NEW d \in Call
    PROVE  /\ Left(call'[d]) <= Left(call[d])
           /\ call[d].at = s /\ call[d].doing # "nothing" => Left(call'[d]) < Left(call[d])
<1>0. call[d] \in CallRecord /\ call'[d] \in CallRecord
  BY DownType DEF ServerTypeOK
<1>1. CASE call[d].at = s /\ call[d].doing # "nothing"
  <2>1. call'[d] = [call[d] EXCEPT !.doing = "nothing", !.answer = Answered(call[d], "lost")]
    BY <1>1 DEF Down
  <2>2. call'[d].doing = "nothing" /\ call'[d].answer # "none"
    BY <1>0, <2>1 DEF Answered, CallRecord
  <2>3. StepsFrom[call'[d].doing] < StepsFrom[call[d].doing]
    BY <1>0, <1>1, <2>2, StepsFromValues DEF CallRecord
  <2>4. Left(call'[d]) < Left(call[d])
    BY <1>0, <2>2, <2>3, LeftDrops
  <2> QED BY <1>0, <2>4, LeftType
<1>2. CASE ~(call[d].at = s /\ call[d].doing # "nothing")
  <2>1. call'[d] = call[d]
    BY <1>2 DEF Down
  <2> QED BY <1>0, <1>2, <2>1, LeftType
<1> QED BY <1>1, <1>2

\* Every step of a server for a call brings that call nearer to its end, and no
\* other call away from it.
LEMMA LeftStep ==
    ASSUME ServerTypeOK, NEW c \in Call, ServerStep(c), NEW d \in Call
    PROVE  /\ Left(call'[d]) <= Left(call[d])
           /\ d = c => Left(call'[d]) < Left(call[d])
<1> DEFINE Nearer == /\ Left(call'[c]) < Left(call[c])
                     /\ \A b \in Call \ {c} : call'[b] = call[b]
<1>0. /\ call' \in [Call -> CallRecord] /\ call \in [Call -> CallRecord]
      /\ call[c] \in CallRecord /\ call'[c] \in CallRecord
  BY ServerStepType DEF ServerTypeOK
<1>1. ASSUME NEW a, End(c, a), a # "none", call[c].doing # "nothing"
      PROVE  Nearer
  <2>1. /\ call'[c].doing = "nothing" /\ call'[c].answer = Answered(call[c], a)
        /\ \A b \in Call \ {c} : call'[b] = call[b]
    BY <1>1, EndEffect
  <2>2. StepsFrom[call'[c].doing] < StepsFrom[call[c].doing]
    BY <1>0, <1>1, <2>1, StepsFromValues DEF CallRecord
  <2>3. call'[c].answer = "none" => call[c].answer = "none"
    BY <1>1, <2>1 DEF Answered
  <2> QED BY <1>0, <2>1, <2>2, <2>3, LeftDrops
<1>2. ASSUME NEW doing \in Doing, Continue(c, doing),
             StepsFrom[doing] < StepsFrom[call[c].doing]
      PROVE  Nearer
  <2>1. /\ call'[c].doing = doing /\ call'[c].answer = call[c].answer
        /\ \A b \in Call \ {c} : call'[b] = call[b]
    BY <1>2, ContinueEffect
  <2> QED BY <1>0, <1>2, <2>1, LeftDrops
<1>3. {"setup", "page", "proxy", "items", "restart", "crawl", "ignored"} \subseteq Doing
  BY DEF Doing, Crawling
<1>4. CASE Nearer
  <2>1. CASE d = c
    BY <1>0, <1>4, <2>1, LeftType
  <2>2. CASE d # c
    BY <1>0, <1>4, <2>2, LeftType
  <2> QED BY <2>1, <2>2
<1>5. CASE InvokeEvent(c)
  <2>1. call[c].doing = "sent"
    BY <1>5 DEF InvokeEvent, OnServer
  <2>2. CASE End(c, "refused")
    BY <1>1, <1>4, <2>1, <2>2
  <2>3. CASE call' = [call EXCEPT ![c].doing = "crawl", ![c].answer = "started"]
    <3>1. /\ call'[c].doing = "crawl" /\ call'[c].answer = "started"
          /\ \A b \in Call \ {c} : call'[b] = call[b]
      BY <1>0, <2>3 DEF CallRecord
    <3>2. Nearer
      BY <1>0, <2>1, <3>1, StepsFromValues, LeftDrops
    <3> QED BY <1>4, <3>2
  <2> QED BY <1>5, <2>2, <2>3 DEF InvokeEvent
<1>6. CASE InvokeRequestResponse(c)
  BY <1>2, <1>3, <1>4, <1>6, StepsFromValues DEF InvokeRequestResponse, OnServer
<1>7. CASE BlankSlate(c)
  <2>1. call[c].doing = "sent"
    BY <1>7 DEF BlankSlate, OnServer
  <2>2. End(c, "refused") \/ Continue(c, "setup")
    BY <1>7 DEF BlankSlate
  <2> QED BY <1>1, <1>2, <1>3, <1>4, <2>1, <2>2, StepsFromValues
<1>8. CASE CrawlResolves(c)
  <2>1. call[c].doing = "crawl" /\ call[c].at \in Server
    BY <1>8 DEF CrawlResolves, OnServer
  <2>2. CASE Down(call[c].at)
    BY <2>1, <2>2, DownLeft
  <2>3. CASE \E a \in {"results", "empty", "rejected"} : End(c, a)
    BY <1>1, <1>4, <2>1, <2>3
  <2> QED BY <1>8, <2>2, <2>3 DEF CrawlResolves
<1>9. CASE CrawlRejects(c)
  BY <1>1, <1>4, <1>9 DEF CrawlRejects, Rejects, OnServer
<1>10. CASE BlankSetup(c)
  BY <1>2, <1>3, <1>4, <1>10, StepsFromValues DEF BlankSetup, OnServer
<1>11. CASE BlankPage(c)
  <2>1. call[c].doing = "page"
    BY <1>11 DEF BlankPage, OnServer
  <2>2. End(c, "failed") \/ Continue(c, "proxy")
    BY <1>11 DEF BlankPage, Rejects
  <2> QED BY <1>1, <1>2, <1>3, <1>4, <2>1, <2>2, StepsFromValues
<1>12. CASE BlankProxy(c)
  <2>1. call[c].doing = "proxy"
    BY <1>12 DEF BlankProxy, OnServer
  <2>2. End(c, "failed") \/ End(c, "invalid") \/ Continue(c, "items")
    BY <1>12 DEF BlankProxy, Rejects
  <2> QED BY <1>1, <1>2, <1>3, <1>4, <2>1, <2>2, StepsFromValues
<1>13. CASE BlankItems(c)
  <2>1. call[c].doing = "items"
    BY <1>13 DEF BlankItems, OnServer
  <2>2. End(c, "results") \/ Continue(c, "restart")
    BY <1>13 DEF BlankItems
  <2> QED BY <1>1, <1>2, <1>3, <1>4, <2>1, <2>2, StepsFromValues
<1>14. CASE BlankRestart(c)
  BY <1>1, <1>4, <1>14 DEF BlankRestart, OnServer
<1>15. CASE ConnectionRefused(c)
  BY <1>1, <1>4, <1>15 DEF ConnectionRefused
<1>16. CASE Timeout(c)
  <2>1. /\ call[c].answer = "none" /\ call'[c].answer = "lost"
        /\ call'[c].doing = call[c].doing
        /\ \A b \in Call \ {c} : call'[b] = call[b]
    BY <1>0, <1>16 DEF Timeout, CallRecord
  <2>2. StepsFrom[call[c].doing] \in 0 .. 6
    BY <1>0, StepsFromValues DEF CallRecord
  <2>3. Nearer
    BY <2>1, <2>2 DEF Left
  <2> QED BY <1>4, <2>3
<1> QED BY <1>5, <1>6, <1>7, <1>8, <1>9, <1>10, <1>11, <1>12, <1>13, <1>14, <1>15, <1>16
        DEF ServerStep

LEMMA LeftNext ==
    ASSUME ServerTypeOK, ServerNext, NEW d \in Call
    PROVE  Left(call'[d]) <= Left(call[d])
<1>1. CASE \E c \in Call : ServerStep(c)
  BY <1>1, LeftStep
<1>2. CASE \E s \in Server : Crash(s)
  BY <1>2, DownLeft DEF Crash
<1>3. CASE \E s \in Server : Respawn(s)
  BY <1>3, LeftType DEF Respawn, ServerTypeOK
<1> QED BY <1>1, <1>2, <1>3 DEF ServerNext

=============================================================================

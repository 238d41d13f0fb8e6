----------------------------- MODULE CrawlRequest -----------------------------
(***************************************************************************)
(* One request to /crawl of the master's API (api.service.ts crawl): its   *)
(* items are cut into chunks, every chunk is a call to a worker server or  *)
(* to a Lambda function, and the answers are put together.  Scheduler and  *)
(* other clients call the same servers meanwhile.                          *)
(*                                                                         *)
(* An endpoint is the address of a machine of the swarm, whose routing     *)
(* mesh hands each connection to any replica.                              *)
(***************************************************************************)
EXTENDS WorkerServer, Integers

CONSTANTS
    Requests,           \* the requests
    ApiMaxConcurrency,  \* config.api_max_concurrency
    MaxOthers           \* bound: the calls of others

\* given: items is an array, or text, which may name a file or an address, or it
\* is missing; items: its length.  concurrency, which nobody checks, is 0 if there
\* is none, and below 0 also stands for what is no number.
Request == [items : Nat, given : {"list", "text", "none"}, concurrency : Int,
            backend : {"ec2", "lambda"}, streaming : BOOLEAN]

ASSUME CrawlRequestAssumption ==
    /\ ApiMaxConcurrency \in Nat \ {0}
    /\ Requests \subseteq Request
    /\ Call \subseteq Nat \ {0}
    /\ MaxOthers \in Nat

VARIABLES
    request,   \* the request, fixed
    stage,     \* where crawl() stands
    answer,    \* what the client has got
    written,   \* chunks whose results were streamed to the client
    reported,  \* chunks whose results are in the list of results
    billed     \* chunks that were billed

requestVars == <<request, stage, answer, written, reported, billed>>
vars == <<serverVars, requestVars>>

-----------------------------------------------------------------------------
(* How the items are cut. *)

Ceil(n, d) == (n + d - 1) \div d

\* Math.ceil(n / d), also of a negative quotient.
CeilDiv(n, d) == IF d > 0 THEN Ceil(n, d) ELSE -(n \div (-d))

AtMost(a, b) == IF a < b THEN a ELSE b

\* Mutant of MaxConcurrency: the configured maximum is ignored.
AsRequested(concurrency) == IF concurrency # 0 THEN concurrency ELSE ApiMaxConcurrency

MaxConcurrency(concurrency) ==
    IF concurrency # 0 THEN AtMost(concurrency, ApiMaxConcurrency) ELSE ApiMaxConcurrency

GetItemsPerWorker(n, concurrency) ==
    LET even == CeilDiv(n, MaxConcurrency(concurrency))
    IN CASE n <= 15 -> 1
         [] 15 < n /\ n <= 100 -> IF concurrency # 0 THEN even ELSE even + 1
         [] n > 100 -> even

\* The docker backend takes a concurrency of one if none is given.
Concurrency(r) ==
    IF r.backend = "ec2" /\ r.concurrency = 0 THEN 1 ELSE r.concurrency

Size(r) == GetItemsPerWorker(r.items, Concurrency(r))

\* Mutant of NumChunks: a last chunk that is not full is dropped.
NumFullChunks(r) == IF Size(r) <= 0 THEN 0 ELSE r.items \div Size(r)

\* splice() takes no item if the size is not positive, and then the loop is over.
NumChunks(r) == IF Size(r) <= 0 THEN 0 ELSE Ceil(r.items, Size(r))

\* There are numbers for all calls of a request.
ASSUME CallsAssumption == \A r \in Requests : 1 .. NumChunks(r) \subseteq Call

ChunkItems(r, k) == (k - 1) * Size(r) + 1 .. AtMost(k * Size(r), r.items)

-----------------------------------------------------------------------------
Init ==
    /\ ServerInit
    /\ request \in Requests
    /\ stage = "check"
    /\ answer = "none"
    /\ written = {}
    /\ reported = {}
    /\ billed = {}

\* The calls of the request; the other numbers are calls of others.
Chunks == 1 .. NumChunks(request)

Calls == {c \in Call : call[c].kind # "none"}

Streaming == request.backend = "lambda" /\ request.streaming

\* check_api_call and, for a stream, the external authentication.  An array without
\* items is refused.
Accept ==
    /\ stage = "check"
    /\ request.given # "none"
    /\ request.given = "list" => request.items > 0
    /\ stage' = "invoke"
    /\ UNCHANGED <<serverVars, request, answer, written, reported, billed>>

Refuse ==
    /\ stage = "check"
    /\ stage' = "end"
    /\ answer' = "refused"
    /\ UNCHANGED <<serverVars, request, written, reported, billed>>

\* The check takes a request without items for valid, and the next line reads their
\* number.
NoItems ==
    /\ stage = "check"
    /\ request.given = "none"
    /\ stage' = "broken"
    /\ UNCHANGED <<serverVars, request, answer, written, reported, billed>>

\* Text with a length passes the check, too, but cannot be cut into chunks.
CutFails ==
    /\ stage = "invoke"
    /\ request.given = "text" /\ request.items > 0
    /\ stage' = "broken"
    /\ UNCHANGED <<serverVars, request, answer, written, reported, billed>>

\* Mutant of Invoked: every call goes to a server.
InvokedDirectly(c, s) == [NoCall EXCEPT !.doing = "sent", !.at = s, !.kind = "response"]

Invoked(c, s) == [NoCall EXCEPT !.doing = "sent", !.at = s,
                     !.kind = IF request.backend = "ec2" THEN "response" ELSE "lambda"]

\* All calls are sent at once.
Invoke ==
    /\ stage = "invoke"
    /\ request.given = "list" \/ request.items = 0
    /\ \E at \in [Chunks -> IF request.backend = "ec2" THEN Server ELSE {Nobody}] :
          call' = [c \in Call |-> IF c \in Chunks THEN Invoked(c, at[c]) ELSE call[c]]
    /\ stage' = "wait"
    /\ UNCHANGED <<service, handler, faults, request, answer, written, reported, billed>>

\* Without machines the number of started workers is sent: zero.
NoEndpoints ==
    /\ stage = "invoke"
    /\ request.backend = "ec2"
    /\ stage' = "end"
    /\ answer' = "zero"
    /\ UNCHANGED <<serverVars, request, written, reported, billed>>

\* The query for the machines is not guarded.
EndpointsFail ==
    /\ stage = "invoke"
    /\ request.backend = "ec2"
    /\ Fault
    /\ stage' = "broken"
    /\ UNCHANGED <<service, handler, call, request, answer, written, reported, billed>>

\* Only the status code is looked at: what came back with 200 or 202 counts, an error
\* of the function ("rejected") like results, and a stream passes it on at once.
\* Another code or a payload that cannot be parsed ("invalid") is dropped; in a stream,
\* such a payload makes the call fail.
LambdaReturns(c) ==
    /\ call[c].kind = "lambda" /\ call[c].doing = "sent"
    /\ \/ /\ \E payload \in {"results", "rejected"} : End(c, payload)
          /\ written' = IF Streaming THEN written \cup {c} ELSE written
       \/ /\ End(c, "invalid")
          /\ UNCHANGED written
       \/ /\ Streaming
          /\ End(c, "lost")
          /\ UNCHANGED written
    /\ UNCHANGED <<service, handler, faults, request, stage, answer, reported, billed>>

LambdaFails(c) ==
    /\ call[c].kind = "lambda" /\ call[c].doing = "sent"
    /\ Fault
    /\ End(c, "lost")
    /\ UNCHANGED <<service, handler, requestVars>>

Failed(c) == call[c].answer \in {"refused", "failed", "lost"}

\* Mutant of Successful: what the server rejected is reported, too.
Replied(c) == call[c].answer \in {"results", "empty", "rejected"}

Successful(c) ==
    \/ call[c].answer \in {"results", "empty"}
    \/ call[c].kind = "lambda" /\ call[c].answer = "rejected"

\* Promise.all rejects with the first call that fails.  A stream is not ended,
\* and the error is billed.
GiveUp ==
    /\ stage = "wait"
    /\ \E c \in Chunks : Failed(c)
    /\ answer' = IF Streaming THEN "none" ELSE "error"
    /\ stage' = IF Streaming THEN "bill" ELSE "end"
    /\ UNCHANGED <<serverVars, request, written, reported, billed>>

Collect ==
    /\ stage = "wait"
    /\ \A c \in Chunks : call[c].answer # "none" /\ ~Failed(c)
    /\ reported' = {c \in Chunks : Successful(c)}
    /\ answer' = "results"
    /\ stage' = IF Streaming THEN "bill" ELSE "end"
    /\ UNCHANGED <<serverVars, request, written, billed>>

\* A bill that is not accepted is only logged.
Bill ==
    /\ stage = "bill"
    /\ \/ billed' = reported
       \/ UNCHANGED billed
    /\ stage' = "end"
    /\ UNCHANGED <<serverVars, request, answer, written, reported>>

\* The scheduler and other clients.
OtherCalls(c, s) ==
    /\ Cardinality(Calls \ Chunks) < MaxOthers
    /\ c \notin Chunks
    /\ \A d \in Call : d \in Calls \cup Chunks <=> d < c
    /\ \/ \E exit \in BOOLEAN :
             call' = [call EXCEPT ![c] = [NoCall EXCEPT !.kind = "event", !.at = s,
                                                        !.doing = "sent", !.exit = exit]]
       \/ \E proxy \in Upstream \cup {NoProxy} :
             call' = [call EXCEPT ![c] = [NoCall EXCEPT !.kind = "blank", !.at = s,
                                                        !.doing = "sent", !.proxy = proxy]]
    /\ UNCHANGED <<service, handler, faults, requestVars>>

FrontDoor ==
    \/ Accept
    \/ Refuse
    \/ NoItems
    \/ CutFails
    \/ Invoke
    \/ NoEndpoints
    \/ EndpointsFail
    \/ \E c \in Call : LambdaReturns(c) \/ LambdaFails(c)
    \/ GiveUp
    \/ Collect
    \/ Bill

Servers == ServerNext /\ UNCHANGED requestVars

Others == \E c \in Call, s \in Server : OtherCalls(c, s)

Next == FrontDoor \/ Servers \/ Others

Spec == Init /\ [][Next]_vars

Working ==
    /\ (\E c \in Call : ServerStep(c)) \/ (\E s \in Server : Respawn(s))
    /\ UNCHANGED requestVars

\* The front door's awaits return; the servers work, swarm starts them again and
\* client calls time out: with finitely many calls all of that comes to an end.
FairSpec == Spec /\ WF_vars(FrontDoor) /\ WF_vars(Working)

-----------------------------------------------------------------------------
(* Properties. *)

\* Every variable has its type.
TypeOK ==
    /\ ServerTypeOK
    /\ request \in Requests
    /\ stage \in {"check", "invoke", "wait", "bill", "end", "broken"}
    /\ answer \in {"none", "refused", "zero", "error", "results"}
    /\ written \in SUBSET Call
    /\ reported \in SUBSET Call
    /\ billed \in SUBSET Call

\* The answer that keeps a chunk out of the results.
Dropped == IF request.backend = "ec2" THEN "rejected" ELSE "invalid"

\* An answer with results is of the whole request: every item was in exactly one
\* chunk, and each chunk is in the results, unless its worker said that it could not
\* start or Lambda sent nothing that can be read, which the client is not told.  The
\* one request whose items are all left out is one with a negative concurrency.  An
\* answer with an error has a call that failed behind it.  A client is left without
\* an answer when a stream failed, and otherwise only before a single call was made:
\* because the items are no list or the query for the machines failed.  A client is
\* billed for what it was sent and for nothing else.
HonestAnswer ==
    /\ answer = "results" =>
         /\ \/ \A i \in 1 .. request.items :
                  Cardinality({k \in Chunks : i \in ChunkItems(request, k)}) = 1
            \/ request.concurrency < 0 /\ request.items > 15 /\ Chunks = {}
         /\ \A k \in Chunks \ reported : call[k].answer = Dropped
         /\ \A k \in Chunks \cap reported :
               \/ call[k].answer \in {"results", "empty"}
               \/ request.backend = "lambda" /\ call[k].answer = "rejected"
    /\ answer = "error" => \E k \in Chunks : Failed(k)
    /\ stage = "end" /\ answer = "none" => Streaming /\ \E k \in Chunks : Failed(k)
    /\ stage = "broken" =>
         /\ request.given # "list" \/ request.backend = "ec2"
         /\ \A k \in Chunks : call[k].kind = "none"
    /\ billed \subseteq written

\* More than 15 items never take more concurrent calls than the client and the
\* configuration allow.  (Up to 15 items take one call each, whatever they say.)
ConcurrencyBounded ==
    request.items > 15 =>
        LET running == Cardinality({k \in Calls \cap Chunks : call[k].doing # "nothing"})
        IN /\ running <= ApiMaxConcurrency
           /\ request.concurrency > 0 => running <= request.concurrency

\* The request ends, also when a busy server never answers or a server is gone.
RequestEnds == <>(stage \in {"end", "broken"})

\* A call that a server accepted ends, and the server takes calls again unless
\* it failed: swarm starts a server anew that exits after its crawl.
ServersComeBack ==
    \A s \in Server : []<>(service[s].state # "running" /\ service[s].up)

=============================================================================

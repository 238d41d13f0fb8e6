-------------------------- MODULE CrawlRequestProofs --------------------------
(***************************************************************************)
(* Proofs about CrawlRequest: what a client of /crawl can rely on, for any *)
(* number of items, servers and other calls, and whatever fails.           *)
(***************************************************************************)
EXTENDS CrawlRequest, WorkerServerProofs, FiniteSetTheorems, TLAPS

-----------------------------------------------------------------------------
(* The arithmetic of the chunks. *)

LEMMA DivBounds ==
    ASSUME NEW n \in Nat, NEW d \in Nat \ {0}
    PROVE  /\ n \div d \in Nat
           /\ (n \div d) * d <= n
           /\ n < (n \div d) * d + d
OBVIOUS

LEMMA CeilBounds ==
    ASSUME NEW n \in Nat \ {0}, NEW d \in Nat \ {0}
    PROVE  /\ Ceil(n, d) \in Nat \ {0}
           /\ n <= Ceil(n, d) * d
           /\ (Ceil(n, d) - 1) * d < n
<1> DEFINE m == n + d - 1
           q == m \div d
<1>1. m \in Nat
  OBVIOUS
<1>2. q \in Nat /\ q * d <= m /\ m < q * d + d
  BY <1>1, DivBounds
<1>3. Ceil(n, d) = q
  BY DEF Ceil
<1> HIDE DEF q
<1>4. n <= q * d
  BY <1>2
<1>5. q # 0
  BY <1>4
<1>6. (q - 1) * d = q * d - d
  BY <1>2
<1> QED BY <1>2, <1>3, <1>4, <1>5, <1>6

LEMMA TimesMonotone ==
    ASSUME NEW a \in Int, NEW b \in Int, a <= b, NEW d \in Nat
    PROVE  a * d <= b * d
<1>1. b * d - a * d = (b - a) * d
  OBVIOUS
<1>2. (b - a) * d >= 0
  OBVIOUS
<1> QED BY <1>1, <1>2

\* A ceiling is the least number of pieces that suffice.
LEMMA CeilLeast ==
    ASSUME NEW n \in Nat \ {0}, NEW d \in Nat \ {0}, NEW m \in Nat, n <= m * d
    PROVE  Ceil(n, d) <= m
<1> DEFINE c == Ceil(n, d) - 1
<1>1. c \in Nat /\ c * d < n
  BY CeilBounds
<1>2. SUFFICES ASSUME m <= c PROVE FALSE
  BY CeilBounds
<1> HIDE DEF c
<1>3. m * d <= c * d
  BY <1>1, <1>2, TimesMonotone
<1>4. m * d \in Nat /\ c * d \in Nat
  BY <1>1
<1> QED BY <1>1, <1>3, <1>4

\* No concurrency but a negative one makes chunks without items, and only of more
\* than 15 items.
LEMMA SizeType ==
    ASSUME NEW r \in Request
    PROVE  /\ Concurrency(r) \in Int
           /\ MaxConcurrency(Concurrency(r)) \in Int
           /\ Size(r) \in Int
           /\ r.concurrency >= 0 => MaxConcurrency(Concurrency(r)) > 0
           /\ Size(r) > 0 <=> r.concurrency >= 0 \/ r.items <= 15
<1> DEFINE n == r.items
           c == Concurrency(r)
           m == MaxConcurrency(c)
<1>1. n \in Nat /\ r.concurrency \in Int
  BY DEF Request
<1>2. c \in Int /\ (c >= 0 <=> r.concurrency >= 0)
  BY <1>1 DEF Concurrency
<1>3. m \in Int /\ (c >= 0 => m > 0) /\ (c < 0 => m < 0)
  BY <1>2, CrawlRequestAssumption DEF MaxConcurrency, AtMost, CrawlRequestAssumption
<1>4. ASSUME n > 15
      PROVE  /\ CeilDiv(n, m) \in Int
             /\ (c >= 0 => CeilDiv(n, m) > 0) /\ (c < 0 => CeilDiv(n, m) <= 0)
  <2> HIDE DEF n, m, c
  <2>0. n \in Nat /\ n > 15 /\ c \in Int /\ m \in Int /\ (c >= 0 => m > 0) /\ (c < 0 => m < 0)
    BY <1>1, <1>2, <1>3, <1>4 DEF n, m, c
  <2>1. CASE c >= 0
    <3>1. CeilDiv(n, m) = Ceil(n, m) /\ Ceil(n, m) \in Nat \ {0}
      BY <2>0, <2>1, CeilBounds DEF CeilDiv
    <3> QED BY <2>0, <2>1, <3>1
  <2>2. CASE c < 0
    <3> DEFINE d == -m
    <3>1. d \in Nat \ {0}
      BY <2>0, <2>2
    <3>2. PICK q \in Nat : n \div d = q
      BY <2>0, <3>1, DivBounds
    <3>3. CeilDiv(n, m) = -q
      BY <2>0, <2>2, <3>2 DEF CeilDiv
    <3> QED BY <2>0, <2>2, <3>3
  <2> QED BY <2>0, <2>1, <2>2
<1>5. CASE n <= 15
  BY <1>1, <1>2, <1>3, <1>5 DEF Size, GetItemsPerWorker
<1>6. CASE n > 15
  <2>1. Size(r) = CeilDiv(n, m) \/ (c = 0 /\ Size(r) = CeilDiv(n, m) + 1)
    BY <1>1, <1>6 DEF Size, GetItemsPerWorker
  <2> HIDE DEF n, m, c
  <2>2. Size(r) \in Int /\ (c >= 0 => Size(r) > 0) /\ (c < 0 => Size(r) <= 0)
    BY <1>2, <1>4, <1>6, <2>1
  <2> QED BY <1>1, <1>2, <1>3, <1>6, <2>2 DEF n, m, c
<1> QED BY <1>1, <1>5, <1>6

LEMMA NumChunksType ==
    ASSUME NEW r \in Request
    PROVE  NumChunks(r) \in Nat
<1>1. Size(r) \in Int /\ r.items \in Nat
  BY SizeType DEF Request
<1>2. CASE Size(r) <= 0
  BY <1>2 DEF NumChunks
<1>3. CASE Size(r) > 0
  <2>1. r.items + Size(r) - 1 \in Nat /\ Size(r) \in Nat \ {0}
    BY <1>1, <1>3
  <2>2. Ceil(r.items, Size(r)) \in Nat
    BY <2>1, DivBounds DEF Ceil
  <2> QED BY <1>3, <2>2 DEF NumChunks
<1> QED BY <1>1, <1>2, <1>3

\* Every item is in exactly one chunk.
LEMMA ChunksPartition ==
    ASSUME NEW r \in Request, Size(r) > 0, NEW i \in 1 .. r.items
    PROVE  \E k \in 1 .. NumChunks(r) :
              /\ i \in ChunkItems(r, k)
              /\ \A j \in 1 .. NumChunks(r) : i \in ChunkItems(r, j) => j = k
<1> DEFINE n == r.items
           s == Size(r)
           k == Ceil(i, s)
<1>1. n \in Nat \ {0} /\ s \in Nat \ {0} /\ i \in Nat \ {0} /\ i <= n
  BY SizeType DEF Request
<1>2. k \in Nat \ {0} /\ i <= k * s /\ (k - 1) * s < i
  BY <1>1, CeilBounds
<1>3. n <= NumChunks(r) * s /\ NumChunks(r) \in Nat \ {0}
  <2>1. NumChunks(r) = Ceil(n, s)
    BY <1>1 DEF NumChunks
  <2> QED BY <1>1, <2>1, CeilBounds
<1> HIDE DEF n, s
<1>4. k <= NumChunks(r)
  BY <1>1, <1>3, CeilLeast
<1> HIDE DEF k
<1>5. ASSUME NEW j \in 1 .. NumChunks(r)
      PROVE  i \in ChunkItems(r, j) <=> (j - 1) * s + 1 <= i /\ i <= j * s
  <2>1. /\ j \in Nat \ {0} /\ j * s \in Int /\ (j - 1) * s \in Int
    BY <1>1, <1>3
  <2> QED BY <1>1, <2>1 DEF ChunkItems, AtMost, n, s
<1>6. k \in 1 .. NumChunks(r)
  BY <1>2, <1>3, <1>4
<1>7. (k - 1) * s \in Int /\ k * s \in Int
  BY <1>1, <1>2
<1>8. i \in ChunkItems(r, k)
  BY <1>1, <1>2, <1>5, <1>6, <1>7
<1>9. ASSUME NEW j \in 1 .. NumChunks(r), i \in ChunkItems(r, j)
      PROVE  j = k
  <2>1. j \in Nat \ {0} /\ (j - 1) * s \in Int /\ j * s \in Int
    BY <1>1, <1>3
  <2>2. (j - 1) * s < i /\ i <= j * s
    BY <1>1, <1>5, <1>9, <2>1
  <2>3. CASE j <= k - 1
    <3>1. j * s <= (k - 1) * s
      BY <1>1, <1>2, <2>1, <2>3, TimesMonotone
    <3> QED BY <1>1, <1>2, <1>7, <2>1, <2>2, <3>1
  <2>4. CASE k <= j - 1
    <3>1. k * s <= (j - 1) * s
      BY <1>1, <1>2, <2>1, <2>4, TimesMonotone
    <3> QED BY <1>1, <1>2, <1>7, <2>1, <2>2, <3>1
  <2> QED BY <1>2, <2>1, <2>3, <2>4
<1> QED BY <1>6, <1>8, <1>9

\* More than 15 items make no more chunks than calls are allowed.
LEMMA FewChunks ==
    ASSUME NEW r \in Request, r.items > 15, Size(r) > 0
    PROVE  NumChunks(r) <= MaxConcurrency(Concurrency(r))
<1> DEFINE n == r.items
           m == MaxConcurrency(Concurrency(r))
           s == Size(r)
<1>1. n \in Nat \ {0} /\ m \in Nat \ {0} /\ s \in Nat \ {0}
  BY SizeType DEF Request
<1>2. s = Ceil(n, m) \/ s = Ceil(n, m) + 1
  BY <1>1, CeilBounds DEF Size, GetItemsPerWorker, CeilDiv
<1>3. Ceil(n, m) \in Nat /\ n <= Ceil(n, m) * m
  BY <1>1, CeilBounds
<1>4. Ceil(n, m) * m <= s * m
  BY <1>1, <1>2, <1>3, TimesMonotone
<1> HIDE DEF n, m, s
<1>5. n <= m * s
  <2>1. s * m = m * s /\ s * m \in Nat /\ Ceil(n, m) * m \in Nat
    BY <1>1, <1>3
  <2> QED BY <1>1, <1>3, <1>4, <2>1
<1>6. Ceil(n, s) <= m
  BY <1>1, <1>5, CeilLeast
<1> QED BY <1>1, <1>6 DEF NumChunks, n, m, s

-----------------------------------------------------------------------------
(* Types, and what a call of the request is. *)

\* The kind of the request's own calls.
OwnKind == IF request.backend = "ec2" THEN "response" ELSE "lambda"

LambdaReplies == Replies \cup {"invalid"}

ChunkInv ==
    /\ \A c \in Chunks : call[c].kind \in {"none", OwnKind}
    /\ stage \in {"check", "invoke", "broken"} => \A c \in Chunks : call[c].kind = "none"
    /\ \A c \in Call : call[c].kind = "none" => call[c] = NoCall
    /\ \A c \in Call : call[c].kind = "lambda" =>
          call[c].answer \in LambdaReplies /\ call[c].doing \in {"nothing", "sent"}

TypeInv == TypeOK /\ OneCallInv /\ ProxyInv /\ PageInv /\ AnswerInv /\ ChunkInv

LEMMA RequestType ==
    ASSUME TypeOK
    PROVE  request \in Request /\ Chunks \subseteq Call /\ NumChunks(request) \in Nat
<1>1. request \in Requests /\ request \in Request
  BY CrawlRequestAssumption DEF TypeOK, CrawlRequestAssumption
<1> QED BY <1>1, CallsAssumption, NumChunksType DEF CallsAssumption, Chunks

LEMMA TypeInit == Init => TypeInv
<1> SUFFICES ASSUME Init PROVE TypeInv
  OBVIOUS
<1>1. ServerTypeOK
  BY ServerTypeInit DEF Init
<1>2. TypeOK
  BY <1>1 DEF Init, TypeOK
<1>3. \A c \in Call : call[c] = NoCall
  BY DEF Init, ServerInit
<1>4. \A s \in Server : ActiveOn(s) = {} /\ service[s] = NewService /\ handler[s] = NewHandler
  BY <1>3 DEF ActiveOn, NoCall, Crawling, Init, ServerInit
<1>5. OneCallInv
  BY <1>4 DEF OneCallInv, OneCallAtATime, NewService
<1>6. ProxyInv /\ PageInv /\ AnswerInv
  BY <1>3, <1>4 DEF ProxyInv, PageInv, AnswerInv, NoCall, NewHandler
<1>7. ChunkInv
  <2>1. NoCall.kind = "none"
    BY DEF NoCall
  <2>2. Chunks \subseteq Call
    BY <1>2, RequestType
  <2> QED BY <1>3, <2>1, <2>2 DEF ChunkInv
<1> QED BY <1>2, <1>5, <1>6, <1>7 DEF TypeInv

\* The steps of the front door that touch neither servers nor calls.
Paperwork ==
    \/ Accept \/ Refuse \/ NoItems \/ CutFails \/ NoEndpoints \/ EndpointsFail
    \/ GiveUp \/ Collect \/ Bill

LEMMA PaperworkStep ==
    ASSUME TypeInv, Paperwork
    PROVE  TypeInv' /\ call' = call /\ request' = request
<1>0. /\ service' = service /\ handler' = handler /\ call' = call
      /\ request' = request /\ faults' \in Nat
  BY DEF Paperwork, Accept, Refuse,
         NoItems, CutFails, NoEndpoints, EndpointsFail, GiveUp, Collect, Bill,
         serverVars, Fault, TypeInv, TypeOK, ServerTypeOK
<1>1. ServerTypeOK'
  BY <1>0 DEF TypeInv, TypeOK, ServerTypeOK
<1>2. Chunks \subseteq Call /\ Chunks' = Chunks
  BY <1>0, RequestType DEF TypeInv, Chunks
<1>3. TypeOK'
  BY <1>0, <1>1, <1>2 DEF TypeInv, TypeOK, Paperwork, Accept, Refuse,
         NoItems, CutFails, NoEndpoints,
         EndpointsFail, GiveUp, Collect, Bill
<1>4. OneCallInv' /\ ProxyInv' /\ PageInv' /\ AnswerInv'
  BY <1>0 DEF TypeInv, OneCallInv, OneCallAtATime, ActiveOn, ProxyInv, PageInv, AnswerInv
<1>5. ChunkInv'
  BY <1>0, <1>2 DEF TypeInv, ChunkInv, OwnKind, Paperwork, Accept, Refuse,
         NoItems, CutFails, NoEndpoints,
         EndpointsFail, GiveUp, Collect, Bill
<1> QED BY <1>0, <1>3, <1>4, <1>5 DEF TypeInv

\* New calls and Lambda calls do not disturb the servers.
LEMMA CallStep ==
    ASSUME TypeInv, UNCHANGED <<service, handler>>, faults' \in Nat,
           call' \in [Call -> CallRecord],
           \A c \in Call : call'[c].at \in Server <=> call'[c].kind \notin {"none", "lambda"},
           \A c \in Call :
              \/ call'[c] = call[c]
              \/ /\ call[c].kind \in {"none", "lambda"}
                 /\ call'[c].doing \in {"sent", "nothing"}
                 /\ call'[c].answer \in LambdaReplies
                 /\ call'[c].kind = "response" => call'[c].answer \in Replies
    PROVE  (ServerTypeOK /\ OneCallInv /\ ProxyInv /\ PageInv /\ AnswerInv)'
<1>0. /\ service' = service /\ handler' = handler
      /\ \A c \in Call : call[c].at \in Server <=> call[c].kind \notin {"none", "lambda"}
      /\ "sent" \notin Crawling /\ "nothing" \notin Crawling
  BY DEF TypeInv, TypeOK, ServerTypeOK, Crawling
<1>1. ServerTypeOK'
  BY DEF TypeInv, TypeOK, ServerTypeOK
<1>2. \A s \in Server : ActiveOn(s)' = ActiveOn(s)
  BY <1>0 DEF ActiveOn
<1>3. OneCallInv'
  BY <1>0, <1>2 DEF TypeInv, OneCallInv, OneCallAtATime
<1>4. ProxyInv' /\ PageInv'
  BY <1>0 DEF TypeInv, ProxyInv, PageInv
<1>5. AnswerInv'
  BY <1>0 DEF TypeInv, AnswerInv
<1> QED BY <1>1, <1>3, <1>4, <1>5

LEMMA InvokeStep ==
    ASSUME TypeInv, Invoke
    PROVE  TypeInv'
<1> DEFINE Places == IF request.backend = "ec2" THEN Server ELSE {Nobody}
<1>1. PICK at \in [Chunks -> Places] :
          call' = [c \in Call |-> IF c \in Chunks THEN Invoked(c, at[c]) ELSE call[c]]
  BY DEF Invoke
<1>2. /\ Chunks \subseteq Call /\ Chunks' = Chunks /\ request' = request
      /\ service' = service /\ handler' = handler /\ faults' = faults
      /\ OwnKind \in {"response", "lambda"} /\ OwnKind' = OwnKind
  BY RequestType DEF TypeInv, Chunks, Invoke, OwnKind
<1>3. ASSUME NEW c \in Chunks
      PROVE  /\ call'[c] \in CallRecord
             /\ call'[c].kind = OwnKind /\ call'[c].doing = "sent" /\ call'[c].answer = "none"
             /\ call'[c].at \in Server <=> OwnKind # "lambda"
             /\ call[c].kind = "none"
  <2>1. call'[c] = [NoCall EXCEPT !.doing = "sent", !.at = at[c], !.kind = OwnKind]
    BY <1>1, <1>2 DEF Invoked, OwnKind
  <2>2. at[c] \in Places /\ NoCall \in CallRecord
    BY FreshRecords
  <2>3. call'[c] = [kind |-> OwnKind, at |-> at[c], doing |-> "sent", answer |-> "none",
                    proxy |-> NoProxy, exit |-> FALSE]
    BY <2>1 DEF NoCall
  <2>4. call'[c] \in CallRecord
    BY <2>2, <2>3 DEF CallRecord, Kind, Doing, Answer, OwnKind
  <2>5. call'[c].at \in Server <=> OwnKind # "lambda"
    BY <2>2, <2>3, WorkerServerAssumption DEF OwnKind, WorkerServerAssumption
  <2> QED BY <2>3, <2>4, <2>5 DEF TypeInv, ChunkInv, Invoke
<1>4. \A c \in Call \ Chunks : call'[c] = call[c]
  BY <1>1
<1>5. call' \in [Call -> CallRecord]
  <2>1. \A c \in Call : call'[c] \in CallRecord
    BY <1>3, <1>4 DEF TypeInv, TypeOK, ServerTypeOK
  <2> QED BY <1>1, <2>1
<1>6. (ServerTypeOK /\ OneCallInv /\ ProxyInv /\ PageInv /\ AnswerInv)'
  <2>1. \A c \in Call : call'[c].at \in Server <=> call'[c].kind \notin {"none", "lambda"}
    BY <1>2, <1>3, <1>4 DEF TypeInv, TypeOK, ServerTypeOK
  <2>2. \A c \in Call :
              \/ call'[c] = call[c]
              \/ /\ call[c].kind \in {"none", "lambda"}
                 /\ call'[c].doing \in {"sent", "nothing"}
                 /\ call'[c].answer \in LambdaReplies
                 /\ call'[c].kind = "response" => call'[c].answer \in Replies
    BY <1>3, <1>4 DEF Replies, LambdaReplies
  <2>3. faults' \in Nat
    BY <1>2 DEF TypeInv, TypeOK, ServerTypeOK
  <2> QED BY <1>2, <1>5, <2>1, <2>2, <2>3, CallStep
<1>7. ChunkInv'
  BY <1>2, <1>3, <1>4 DEF TypeInv, ChunkInv, Invoke, Replies, LambdaReplies
<1>8. TypeOK'
  BY <1>6 DEF TypeInv, TypeOK, Invoke
<1> QED BY <1>6, <1>7, <1>8 DEF TypeInv

LEMMA LambdaEffect ==
    ASSUME TypeInv, NEW c \in Call, LambdaReturns(c) \/ LambdaFails(c)
    PROVE  /\ call[c].kind = "lambda"
           /\ \E a \in {"results", "rejected", "invalid", "lost"} :
                 /\ call'[c].answer = Answered(call[c], a)
                 /\ a \in {"results", "rejected"} /\ Streaming => written' = written \cup {c}
                 /\ End(c, a)
           /\ UNCHANGED <<service, handler, request, stage, answer, reported, billed>>
           /\ faults' \in Nat
           /\ written \subseteq written' /\ written' \subseteq written \cup {c}
<1>0. ServerTypeOK
  BY DEF TypeInv, TypeOK
<1>1. CASE LambdaReturns(c)
  <2>1. ASSUME NEW a \in {"results", "rejected"}, End(c, a),
               written' = IF Streaming THEN written \cup {c} ELSE written
        PROVE  call'[c].answer = Answered(call[c], a)
    BY <1>0, <1>1, <2>1, EndEffect DEF LambdaReturns, ServerTypeOK
  <2>2. ASSUME NEW a \in {"invalid", "lost"}, End(c, a), written' = written
        PROVE  call'[c].answer = Answered(call[c], a)
    BY <1>0, <1>1, <2>2, EndEffect DEF LambdaReturns, ServerTypeOK
  <2>3. \/ \E a \in {"results", "rejected"} :
              End(c, a) /\ written' = IF Streaming THEN written \cup {c} ELSE written
        \/ \E a \in {"invalid", "lost"} : End(c, a) /\ written' = written
    BY <1>1 DEF LambdaReturns
  <2>4. /\ call[c].kind = "lambda"
        /\ UNCHANGED <<service, handler, faults, request, stage, answer, reported, billed>>
    BY <1>1 DEF LambdaReturns
  <2> QED BY <1>0, <2>1, <2>2, <2>3, <2>4 DEF ServerTypeOK
<1>2. CASE LambdaFails(c)
  BY <1>0, <1>2, EndEffect DEF LambdaFails, Fault, requestVars, ServerTypeOK
<1> QED BY <1>1, <1>2

LEMMA LambdaStep ==
    ASSUME TypeInv, NEW c \in Call, LambdaReturns(c) \/ LambdaFails(c)
    PROVE  TypeInv'
<1>0. ServerTypeOK /\ call[c] \in CallRecord /\ call[c].answer \in LambdaReplies
  BY LambdaEffect DEF TypeInv, TypeOK, ServerTypeOK, ChunkInv
<1>1. PICK a \in {"results", "rejected", "invalid", "lost"} :
          call'[c].answer = Answered(call[c], a) /\ End(c, a)
  BY LambdaEffect
<1>2. /\ call' \in [Call -> CallRecord]
      /\ \A d \in Call : call'[d].at = call[d].at /\ call'[d].kind = call[d].kind
  BY <1>0, <1>1, EndType DEF Answer
<1>3. /\ call'[c].doing = "nothing" /\ call'[c].answer \in LambdaReplies
      /\ \A d \in Call \ {c} : call'[d] = call[d]
  BY <1>0, <1>1, EndEffect DEF Replies, LambdaReplies, Answered
<1>4. (ServerTypeOK /\ OneCallInv /\ ProxyInv /\ PageInv /\ AnswerInv)'
  <2>1. \A d \in Call : call'[d].at \in Server <=> call'[d].kind \notin {"none", "lambda"}
    BY <1>0, <1>2 DEF ServerTypeOK
  <2>2. \A d \in Call :
              \/ call'[d] = call[d]
              \/ /\ call[d].kind \in {"none", "lambda"}
                 /\ call'[d].doing \in {"sent", "nothing"}
                 /\ call'[d].answer \in LambdaReplies
                 /\ call'[d].kind = "response" => call'[d].answer \in Replies
    BY <1>2, <1>3, LambdaEffect
  <2> QED BY <1>2, <2>1, <2>2, LambdaEffect, CallStep
<1>5. Chunks' = Chunks /\ OwnKind' = OwnKind /\ stage' = stage /\ Chunks \subseteq Call
  BY LambdaEffect, RequestType DEF Chunks, OwnKind, TypeInv
<1>6. ChunkInv'
  BY <1>2, <1>3, <1>5, LambdaEffect DEF TypeInv, ChunkInv
<1>7. TypeOK'
  <2>1. written' \in SUBSET Call
    BY LambdaEffect DEF TypeInv, TypeOK
  <2> QED BY <1>4, <2>1, LambdaEffect DEF TypeInv, TypeOK
<1> QED BY <1>4, <1>6, <1>7 DEF TypeInv

LEMMA OtherStep ==
    ASSUME TypeInv, NEW c \in Call, NEW s \in Server, OtherCalls(c, s)
    PROVE  /\ TypeInv' /\ UNCHANGED requestVars
           /\ \A d \in Chunks : call'[d] = call[d]
           /\ \A d \in Call : call'[d] = call[d] \/ call'[d].kind \in {"event", "blank"}
<1>1. /\ c \notin Chunks /\ call[c].kind = "none"
      /\ service' = service /\ handler' = handler /\ faults' = faults
      /\ UNCHANGED requestVars
  <2>1. c \notin Calls
    <3>1. c \in Calls \cup Chunks <=> c < c
      BY DEF OtherCalls
    <3>2. c \in Nat
      BY CrawlRequestAssumption DEF CrawlRequestAssumption
    <3> QED BY <3>1, <3>2
  <2> QED BY <2>1 DEF OtherCalls, Calls
<1>2. PICK r \in CallRecord :
          /\ r.kind \in {"event", "blank"} /\ r.at = s /\ r.doing = "sent" /\ r.answer = "none"
          /\ call' = [call EXCEPT ![c] = r]
  <2>1. ASSUME NEW exit \in BOOLEAN, NEW r,
               r = [NoCall EXCEPT !.kind = "event", !.at = s, !.doing = "sent", !.exit = exit]
        PROVE  r = [kind |-> "event", at |-> s, doing |-> "sent", answer |-> "none",
                    proxy |-> NoProxy, exit |-> exit]
    BY <2>1 DEF NoCall
  <2>2. ASSUME NEW proxy \in Upstream \cup {NoProxy}, NEW r,
               r = [NoCall EXCEPT !.kind = "blank", !.at = s, !.doing = "sent", !.proxy = proxy]
        PROVE  r = [kind |-> "blank", at |-> s, doing |-> "sent", answer |-> "none",
                    proxy |-> proxy, exit |-> FALSE]
    BY <2>2 DEF NoCall
  <2>3. CASE \E exit \in BOOLEAN :
             call' = [call EXCEPT ![c] = [NoCall EXCEPT !.kind = "event", !.at = s,
                                                        !.doing = "sent", !.exit = exit]]
    <3>1. PICK exit \in BOOLEAN :
             call' = [call EXCEPT ![c] = [NoCall EXCEPT !.kind = "event", !.at = s,
                                                        !.doing = "sent", !.exit = exit]]
      BY <2>3
    <3>2. [kind |-> "event", at |-> s, doing |-> "sent", answer |-> "none",
           proxy |-> NoProxy, exit |-> exit] \in CallRecord
      BY DEF CallRecord, Kind, Doing, Answer
    <3> QED BY <2>1, <3>1, <3>2
  <2>4. CASE \E proxy \in Upstream \cup {NoProxy} :
             call' = [call EXCEPT ![c] = [NoCall EXCEPT !.kind = "blank", !.at = s,
                                                        !.doing = "sent", !.proxy = proxy]]
    <3>1. PICK proxy \in Upstream \cup {NoProxy} :
             call' = [call EXCEPT ![c] = [NoCall EXCEPT !.kind = "blank", !.at = s,
                                                        !.doing = "sent", !.proxy = proxy]]
      BY <2>4
    <3>2. [kind |-> "blank", at |-> s, doing |-> "sent", answer |-> "none",
           proxy |-> proxy, exit |-> FALSE] \in CallRecord
      BY DEF CallRecord, Kind, Doing, Answer
    <3> QED BY <2>2, <3>1, <3>2
  <2> QED BY <2>3, <2>4 DEF OtherCalls
<1>3. /\ call' \in [Call -> CallRecord] /\ call'[c] = r
      /\ \A d \in Call \ {c} : call'[d] = call[d]
  BY <1>2 DEF TypeInv, TypeOK, ServerTypeOK
<1>4. (ServerTypeOK /\ OneCallInv /\ ProxyInv /\ PageInv /\ AnswerInv)'
  <2>1. \A d \in Call : call'[d].at \in Server <=> call'[d].kind \notin {"none", "lambda"}
    BY <1>2, <1>3 DEF TypeInv, TypeOK, ServerTypeOK
  <2>2. \A d \in Call :
              \/ call'[d] = call[d]
              \/ /\ call[d].kind \in {"none", "lambda"}
                 /\ call'[d].doing \in {"sent", "nothing"}
                 /\ call'[d].answer \in LambdaReplies
                 /\ call'[d].kind = "response" => call'[d].answer \in Replies
    BY <1>1, <1>2, <1>3 DEF Replies, LambdaReplies
  <2>3. faults' \in Nat
    BY <1>1 DEF TypeInv, TypeOK, ServerTypeOK
  <2> QED BY <1>1, <1>3, <2>1, <2>2, <2>3, CallStep
<1>5. Chunks \subseteq Call /\ Chunks' = Chunks /\ OwnKind' = OwnKind /\ stage' = stage
  BY <1>1, RequestType DEF TypeInv, Chunks, OwnKind, requestVars
<1>6. \A d \in Chunks : call'[d] = call[d]
  BY <1>1, <1>3, <1>5
<1>7. ChunkInv'
  BY <1>1, <1>2, <1>3, <1>5, <1>6 DEF TypeInv, ChunkInv
<1>8. TypeOK'
  BY <1>1, <1>4 DEF TypeInv, TypeOK, requestVars
<1> QED BY <1>1, <1>2, <1>3, <1>4, <1>6, <1>7, <1>8 DEF TypeInv

LEMMA ServersStep ==
    ASSUME TypeInv, Servers
    PROVE  TypeInv' /\ AnswersStay /\ UNCHANGED requestVars
<1>1. ServerTypeOK /\ OneCallInv /\ ProxyInv /\ PageInv /\ AnswerInv /\ ServerNext
  BY DEF TypeInv, TypeOK, Servers
<1>2. /\ ServerTypeOK' /\ OneCallInv' /\ ProxyInv' /\ PageInv' /\ AnswerInv' /\ AnswersStay
      /\ \A d \in Call : call'[d].at = call[d].at /\ call'[d].kind = call[d].kind
  BY <1>1, ServerTypeNext, OneCallNext, BrowserNext, AnswersNext
<1>3. Chunks \subseteq Call /\ Chunks' = Chunks /\ OwnKind' = OwnKind /\ stage' = stage
  BY RequestType DEF TypeInv, Chunks, OwnKind, requestVars, Servers
<1>4. ChunkInv'
  BY <1>2, <1>3 DEF TypeInv, ChunkInv, AnswersStay
<1>5. TypeOK'
  BY <1>2 DEF TypeInv, TypeOK, requestVars, Servers
<1> QED BY <1>2, <1>4, <1>5 DEF TypeInv, Servers

LEMMA TypeNext == TypeInv /\ [Next]_vars => TypeInv'
<1> SUFFICES ASSUME TypeInv, [Next]_vars PROVE TypeInv'
  OBVIOUS
<1>1. CASE FrontDoor
  BY <1>1, PaperworkStep, InvokeStep, LambdaStep DEF FrontDoor, Paperwork
<1>2. CASE Servers
  BY <1>2, ServersStep
<1>3. CASE Others
  BY <1>3, OtherStep DEF Others
<1>4. CASE UNCHANGED vars
  BY <1>4 DEF vars, serverVars, requestVars, TypeInv, TypeOK, ServerTypeOK, OneCallInv,
         OneCallAtATime, ActiveOn, ProxyInv, PageInv, AnswerInv, ChunkInv, Chunks, OwnKind
<1> QED BY <1>1, <1>2, <1>3, <1>4 DEF Next

LEMMA TypeAlways == Spec => []TypeInv
BY TypeInit, TypeNext, PTL DEF Spec

\* Type correctness.
THEOREM RequestTypeCorrect == Spec => []TypeOK
<1>1. TypeInv => TypeOK
  BY DEF TypeInv
<1> QED BY <1>1, TypeAlways, PTL

\* A worker server never works on two calls, and its state tells the truth.
THEOREM ServersTakeOneCall == Spec => []OneCallAtATime
<1>1. TypeInv => OneCallAtATime
  BY DEF TypeInv, OneCallInv
<1> QED BY <1>1, TypeAlways, PTL

\* A blankSlate call crawls through its own proxy only.
THEOREM ProxiesAreOwn == Spec => []ThroughOwnProxy
<1>1. TypeInv => ThroughOwnProxy
  BY DEF TypeInv, ProxyInv, ThroughOwnProxy, OnServer
<1> QED BY <1>1, TypeAlways, PTL

\* A blankSlate call crawls with a page nobody has used.
THEOREM PagesAreFresh == Spec => []PageIsFresh
<1>1. TypeInv => PageIsFresh
  BY DEF TypeInv, PageInv, PageIsFresh, OnServer
<1> QED BY <1>1, TypeAlways, PTL

-----------------------------------------------------------------------------
(* The bill. *)

BillInv ==
    /\ stage \notin {"bill", "end"} => reported = {}
    /\ stage # "end" => billed = {}
    /\ Streaming => \A c \in Call : call[c].kind = "lambda"
                        /\ call[c].answer \in {"results", "empty", "rejected"} => c \in written
    /\ stage = "wait" => \A c \in Chunks : call[c].kind = OwnKind
    /\ stage = "bill" => reported \subseteq written
    /\ billed \subseteq written

LEMMA BillNext == TypeInv /\ BillInv /\ [Next]_vars => BillInv'
<1> SUFFICES ASSUME TypeInv, BillInv, [Next]_vars PROVE BillInv'
  OBVIOUS
<1>0. /\ Chunks \subseteq Call
      /\ request' = request => Chunks' = Chunks /\ OwnKind' = OwnKind /\ Streaming' = Streaming
  BY RequestType DEF TypeInv, Chunks, OwnKind, Streaming
<1>1. CASE Accept \/ Refuse \/ NoItems \/ CutFails \/ NoEndpoints \/ EndpointsFail
  <2>1. /\ request' = request /\ call' = call /\ written' = written
        /\ reported' = reported /\ billed' = billed
        /\ stage \in {"check", "invoke"} /\ stage' \in {"invoke", "end", "broken"}
    BY <1>1 DEF Accept, Refuse, NoItems, CutFails, NoEndpoints, EndpointsFail, serverVars
  <2> QED BY <1>0, <2>1 DEF BillInv
<1>2. CASE Invoke
  <2>1. PICK at : call' = [c \in Call |-> IF c \in Chunks THEN Invoked(c, at[c]) ELSE call[c]]
    BY <1>2 DEF Invoke
  <2>2. ASSUME NEW c \in Chunks
        PROVE  call'[c].kind = OwnKind /\ call'[c].answer = "none"
    <3>1. call'[c] = [NoCall EXCEPT !.doing = "sent", !.at = at[c], !.kind = OwnKind]
      BY <1>0, <2>1 DEF Invoked, OwnKind
    <3> QED BY <3>1 DEF NoCall
  <2>3. \A c \in Call \ Chunks : call'[c] = call[c]
    BY <2>1
  <2>4. /\ request' = request /\ written' = written /\ reported' = reported
        /\ billed' = billed /\ stage = "invoke" /\ stage' = "wait"
    BY <1>2 DEF Invoke
  <2> QED BY <1>0, <2>2, <2>3, <2>4 DEF BillInv
<1>3. ASSUME NEW c \in Call, LambdaReturns(c) \/ LambdaFails(c) PROVE BillInv'
  <2>1. PICK a \in {"results", "rejected", "invalid", "lost"} :
            /\ call'[c].answer = Answered(call[c], a)
            /\ a \in {"results", "rejected"} /\ Streaming => written' = written \cup {c}
            /\ End(c, a)
    BY <1>3, LambdaEffect
  <2>2. /\ call'[c].kind = call[c].kind /\ \A d \in Call \ {c} : call'[d] = call[d]
    BY <2>1, EndEffect DEF TypeInv, TypeOK
  <2>3. /\ request' = request /\ stage' = stage /\ reported' = reported /\ billed' = billed
        /\ written \subseteq written' /\ call[c].kind = "lambda"
    BY <1>3, LambdaEffect
  <2>4. Streaming /\ call'[c].answer \in {"results", "empty", "rejected"} => c \in written'
    BY <2>1, <2>3 DEF Answered, BillInv
  <2> QED BY <1>0, <2>2, <2>3, <2>4 DEF BillInv
<1>4. CASE GiveUp \/ Bill
  <2>1. /\ request' = request /\ call' = call /\ written' = written
    BY <1>4 DEF GiveUp, Bill, serverVars
  <2> QED BY <1>0, <1>4, <2>1 DEF GiveUp, Bill, BillInv
<1>5. CASE Collect
  <2>1. request' = request /\ call' = call /\ written' = written /\ billed' = billed
    BY <1>5 DEF Collect, serverVars
  <2>2. Streaming => OwnKind = "lambda"
    BY DEF Streaming, OwnKind
  <2>3. Streaming => reported' \subseteq written
    BY <1>0, <1>5, <2>2 DEF Collect, Successful, BillInv
  <2> QED BY <1>0, <1>5, <2>1, <2>3 DEF Collect, BillInv
<1>6. CASE Servers
  <2>1. AnswersStay /\ UNCHANGED requestVars
    BY <1>6, ServersStep
  <2>2. \A d \in Call : call'[d].kind = call[d].kind
    BY <1>6, ServerTypeNext DEF Servers, TypeInv, TypeOK
  <2> QED BY <1>0, <2>1, <2>2 DEF AnswersStay, requestVars, BillInv
<1>7. CASE Others
  <2>1. PICK c \in Call, s \in Server : OtherCalls(c, s)
    BY <1>7 DEF Others
  <2>2. UNCHANGED requestVars /\ (\A d \in Chunks : call'[d] = call[d])
    BY <2>1, OtherStep
  <2>3. \A d \in Call : call'[d] = call[d] \/ call'[d].kind \in {"event", "blank"}
    BY <2>1, OtherStep
  <2> QED BY <1>0, <2>2, <2>3 DEF requestVars, BillInv
<1>8. CASE UNCHANGED vars
  BY <1>0, <1>8 DEF vars, serverVars, requestVars, BillInv
<1> QED BY <1>1, <1>2, <1>3, <1>4, <1>5, <1>6, <1>7, <1>8 DEF Next, FrontDoor

LEMMA BillInit == Init => BillInv
<1>1. Init => \A c \in Call : call[c] = NoCall
  BY DEF Init, ServerInit
<1> QED BY <1>1 DEF Init, BillInv, NoCall

-----------------------------------------------------------------------------
(* The answer. *)

HonestInv ==
    /\ stage \in {"check", "invoke", "wait", "broken"} => answer = "none"
    /\ answer = "results" =>
         \A k \in Chunks : /\ call[k].kind = OwnKind
                           /\ call[k].answer \notin {"none", "refused", "failed", "lost"}
                           /\ k \in reported <=> Successful(k)
    /\ answer = "error" => \E k \in Chunks : call[k].kind = OwnKind /\ Failed(k)
    /\ stage = "bill" => Streaming
    /\ stage = "broken" => request.given # "list" \/ request.backend = "ec2"
    /\ stage \in {"bill", "end"} /\ answer = "none" =>
         Streaming /\ \E k \in Chunks : call[k].kind = OwnKind /\ Failed(k)

\* Nothing that happens to the calls once they are answered changes what the
\* client was told.
LEMMA HonestStays ==
    ASSUME TypeInv, HonestInv, request' = request, answer' = answer, stage' = stage,
           reported' = reported,
           \A k \in Chunks : /\ call'[k].kind = call[k].kind
                             /\ call[k].kind = OwnKind /\ call[k].answer # "none"
                                  => call'[k].answer = call[k].answer
    PROVE  HonestInv'
<1>1. Chunks' = Chunks /\ OwnKind' = OwnKind /\ Streaming' = Streaming
  BY DEF Chunks, OwnKind, Streaming
<1>2. \A k \in Chunks : call[k].kind = OwnKind /\ Failed(k) => (Failed(k))'
  BY DEF Failed
<1>3. OwnKind # "none"
  BY DEF OwnKind
<1>4. \A k \in Chunks : call[k].kind = OwnKind /\ call[k].answer # "none"
                           => (Successful(k)' <=> Successful(k))
  BY DEF Successful
<1> QED BY <1>1, <1>2, <1>4 DEF HonestInv

LEMMA HonestNext == TypeInv /\ BillInv /\ HonestInv /\ [Next]_vars => HonestInv'
<1> SUFFICES ASSUME TypeInv, BillInv, HonestInv, [Next]_vars PROVE HonestInv'
  OBVIOUS
<1>0. /\ Chunks \subseteq Call
      /\ request' = request => Chunks' = Chunks /\ OwnKind' = OwnKind /\ Streaming' = Streaming
      /\ OwnKind \in {"response", "lambda"}
  BY RequestType DEF TypeInv, Chunks, OwnKind, Streaming
<1>1. CASE \/ Accept \/ Refuse \/ NoItems \/ CutFails \/ NoEndpoints \/ EndpointsFail
           \/ Invoke
  <2>1. /\ stage \in {"check", "invoke"} /\ request' = request
        /\ stage' \in {"invoke", "wait", "end", "broken"}
        /\ stage' = "end" => answer' \in {"refused", "zero"}
        /\ stage' # "end" => answer' = answer
        /\ stage' = "broken" => request.given # "list" \/ request.backend = "ec2"
    BY <1>1 DEF Accept, Refuse, NoItems, CutFails, NoEndpoints, EndpointsFail, Invoke
  <2> QED BY <2>1 DEF HonestInv
<1>2. ASSUME NEW c \in Call, LambdaReturns(c) \/ LambdaFails(c) PROVE HonestInv'
  <2>1. PICK a \in {"results", "rejected", "invalid", "lost"} :
            call'[c].answer = Answered(call[c], a) /\ End(c, a)
    BY <1>2, LambdaEffect
  <2>2. /\ call'[c].kind = call[c].kind /\ \A d \in Call \ {c} : call'[d] = call[d]
    BY <2>1, EndEffect DEF TypeInv, TypeOK
  <2>3. \A k \in Chunks : /\ call'[k].kind = call[k].kind
                          /\ call[k].answer # "none" => call'[k].answer = call[k].answer
    BY <1>0, <2>1, <2>2 DEF Answered
  <2> QED BY <1>2, <2>3, LambdaEffect, HonestStays
<1>3. CASE GiveUp
  <2>1. request' = request /\ call' = call
    BY <1>3 DEF GiveUp, serverVars
  <2>2. \E k \in Chunks : call[k].kind = OwnKind /\ Failed(k)
    BY <1>3 DEF GiveUp, BillInv
  <2>3. \E k \in Chunks : call'[k].kind = OwnKind /\ Failed(k)'
    BY <2>1, <2>2 DEF Failed
  <2> QED BY <1>0, <1>3, <2>1, <2>3 DEF GiveUp, HonestInv
<1>4. CASE Collect
  <2>1. request' = request /\ call' = call
    BY <1>4 DEF Collect, serverVars
  <2>2. ASSUME NEW k \in Chunks
        PROVE  /\ call[k].kind = OwnKind
               /\ call[k].answer \notin {"none", "refused", "failed", "lost"}
               /\ k \in reported' <=> Successful(k)
    <3>1. call[k].kind = OwnKind
      BY <1>4 DEF Collect, BillInv
    <3>2. call[k].answer # "none" /\ ~Failed(k)
      BY <1>4 DEF Collect
    <3> QED BY <1>4, <3>1, <3>2 DEF Collect, Failed
  <2>3. \A k \in Chunks : Successful(k)' <=> Successful(k)
    BY <2>1 DEF Successful
  <2> QED BY <1>0, <1>4, <2>1, <2>2, <2>3 DEF Collect, HonestInv
<1>5. CASE Bill
  <2>1. /\ request' = request /\ call' = call /\ reported' = reported /\ answer' = answer
        /\ stage = "bill" /\ stage' = "end"
    BY <1>5 DEF Bill, serverVars
  <2>2. \A k \in Chunks : (Failed(k)' <=> Failed(k)) /\ (Successful(k)' <=> Successful(k))
    BY <2>1 DEF Failed, Successful
  <2> QED BY <1>0, <2>1, <2>2 DEF HonestInv
<1>6. CASE Servers
  <2>1. AnswersStay /\ UNCHANGED requestVars
    BY <1>6, ServersStep
  <2>2. \A d \in Call : call'[d].kind = call[d].kind
    BY <1>6, ServerTypeNext DEF Servers, TypeInv, TypeOK
  <2>3. \A k \in Chunks : call[k].kind = OwnKind /\ call[k].answer # "none"
                             => call'[k].answer = call[k].answer
    BY <1>0, <2>1 DEF AnswersStay
  <2> QED BY <1>0, <2>1, <2>2, <2>3, HonestStays DEF requestVars
<1>7. CASE Others
  BY <1>7, OtherStep, HonestStays DEF Others, requestVars
<1>8. CASE UNCHANGED vars
  BY <1>8, HonestStays DEF vars, serverVars, requestVars
<1> QED BY <1>1, <1>2, <1>3, <1>4, <1>5, <1>6, <1>7, <1>8 DEF Next, FrontDoor

\* Whatever the request, the servers, Lambda and the network do, an answer with results
\* is of the whole request but for the chunks that HonestAnswer names, no error is
\* hidden, and a client is billed for what it was sent only.
THEOREM AnswersAreHonest == Spec => []HonestAnswer
<1>1. Init => HonestInv
  <2>1. Init => \A c \in Call : call[c] = NoCall
    BY DEF Init, ServerInit
  <2> QED BY <2>1 DEF Init, HonestInv, NoCall
<1>2. TypeInv /\ BillInv /\ HonestInv => HonestAnswer
  <2> SUFFICES ASSUME TypeInv, BillInv, HonestInv PROVE HonestAnswer
    OBVIOUS
  <2>1. /\ request \in Request /\ Chunks \subseteq Call /\ Size(request) \in Int
        /\ request.backend \in {"ec2", "lambda"}
    BY RequestType, SizeType DEF TypeInv, Request
  <2>2. ASSUME NEW i \in 1 .. request.items, Size(request) > 0
        PROVE  Cardinality({k \in Chunks : i \in ChunkItems(request, k)}) = 1
    <3>1. PICK k \in Chunks : /\ i \in ChunkItems(request, k)
                              /\ \A j \in Chunks : i \in ChunkItems(request, j) => j = k
      BY <2>1, <2>2, ChunksPartition DEF Chunks
    <3>2. {j \in Chunks : i \in ChunkItems(request, j)} = {k}
      BY <3>1
    <3> QED BY <3>2, FS_Singleton
  <2>3. CASE Size(request) <= 0
    <3>1. request.concurrency < 0 /\ request.items > 15
      BY <2>1, <2>3, SizeType DEF Request
    <3>2. Chunks = {}
      BY <2>3 DEF Chunks, NumChunks
    <3> QED BY <3>1, <3>2 DEF HonestAnswer, HonestInv, BillInv
  <2>4. CASE Size(request) > 0
    <3>1. ASSUME answer = "results", NEW k \in Chunks
          PROVE  IF k \in reported
                 THEN \/ call[k].answer \in {"results", "empty"}
                      \/ request.backend = "lambda" /\ call[k].answer = "rejected"
                 ELSE call[k].answer = Dropped
      <4>1. /\ call[k].kind = OwnKind /\ (k \in reported <=> Successful(k))
            /\ call[k].answer \notin {"none", "refused", "failed", "lost"}
        BY <3>1 DEF HonestInv
      <4>2. CASE request.backend = "ec2"
        <5>1. call[k].kind = "response" /\ call[k].answer \in Replies
          BY <2>1, <4>1, <4>2 DEF TypeInv, AnswerInv, OwnKind
        <5> QED BY <4>1, <4>2, <5>1 DEF Successful, Replies, Dropped
      <4>3. CASE request.backend = "lambda"
        <5>1. call[k].kind = "lambda" /\ call[k].answer \in LambdaReplies
          BY <2>1, <4>1, <4>3 DEF TypeInv, ChunkInv, OwnKind
        <5> QED BY <4>1, <4>3, <5>1 DEF Successful, LambdaReplies, Replies, Dropped
      <4> QED BY <2>1, <4>2, <4>3
    <3>2. stage = "broken" => \A k \in Chunks : call[k].kind = "none"
      BY DEF TypeInv, ChunkInv
    <3> QED BY <2>2, <2>4, <3>1, <3>2 DEF HonestAnswer, HonestInv, BillInv
  <2> QED BY <2>1, <2>3, <2>4
<1> QED BY <1>1, <1>2, BillInit, BillNext, HonestNext, TypeAlways, PTL DEF Spec

\* Beyond 15 items the limit of the configuration and of the client hold.
THEOREM CallsAreBounded == Spec => []ConcurrencyBounded
<1>1. TypeInv => ConcurrencyBounded
  <2> SUFFICES ASSUME TypeInv, request.items > 15 PROVE ConcurrencyBounded
    BY DEF ConcurrencyBounded
  <2> DEFINE S == {k \in Calls \cap Chunks : call[k].doing # "nothing"}
             n == NumChunks(request)
             m == MaxConcurrency(Concurrency(request))
  <2>1. request \in Request /\ n \in Nat /\ m \in Int
    BY RequestType, SizeType DEF TypeInv
  <2>2. IsFiniteSet(1 .. n) /\ Cardinality(1 .. n) = n
    BY <2>1, FS_Interval
  <2>3. S \subseteq 1 .. n
    BY DEF Chunks
  <2>4. Cardinality(S) \in Nat /\ Cardinality(S) <= n
    BY <2>2, <2>3, FS_Subset, FS_CardinalityType
  <2>5. request.concurrency \in Int /\ ApiMaxConcurrency \in Nat
    BY <2>1, CrawlRequestAssumption DEF CrawlRequestAssumption, Request
  <2>6. /\ n <= ApiMaxConcurrency
        /\ request.concurrency > 0 => n <= request.concurrency
    <3>1. CASE Size(request) <= 0
      BY <2>5, <3>1 DEF NumChunks
    <3>2. CASE Size(request) > 0
      <4>1. n <= m /\ request.concurrency >= 0
        BY <2>1, <2>5, <3>2, FewChunks, SizeType DEF Request
      <4>2. /\ m <= ApiMaxConcurrency
            /\ request.concurrency > 0 => m <= request.concurrency
        BY <2>5, <4>1 DEF MaxConcurrency, AtMost, Concurrency
      <4> HIDE DEF n, m
      <4> QED BY <2>1, <2>5, <4>1, <4>2
    <3> QED BY <2>1, <3>1, <3>2, SizeType
  <2> HIDE DEF S, n, m
  <2>7. Cardinality(S) <= ApiMaxConcurrency
        /\ (request.concurrency > 0 => Cardinality(S) <= request.concurrency)
    BY <2>1, <2>4, <2>5, <2>6
  <2> QED BY <2>7 DEF ConcurrencyBounded, S
<1> QED BY <1>1, TypeAlways, PTL

-----------------------------------------------------------------------------
(* The calls come to an end. *)

\* A call keeps its kind, is never made again, and no step of anybody takes it
\* away from its end.
NoneBack ==
    \A c \in Calls : CallLeft(c)' <= CallLeft(c) /\ call'[c].kind = call[c].kind

\* Every step for a call uses up one of the at most seven that it can take.
EachForward ==
    \A c \in Call : ServerStep(c) \/ LambdaReturns(c) \/ LambdaFails(c)
                       => CallLeft(c)' < CallLeft(c)

LEMMA LambdaForward ==
    ASSUME TypeInv, NEW c \in Call, LambdaReturns(c) \/ LambdaFails(c)
    PROVE  /\ Left(call'[c]) < Left(call[c])
           /\ call'[c].kind = call[c].kind
           /\ \A d \in Call \ {c} : call'[d] = call[d]
<1>0. ServerTypeOK /\ call[c] \in CallRecord /\ call[c].doing = "sent"
  BY DEF TypeInv, TypeOK, ServerTypeOK, LambdaReturns, LambdaFails
<1>1. PICK a \in {"results", "rejected", "invalid", "lost"} : End(c, a)
  BY LambdaEffect
<1>2. /\ call'[c].doing = "nothing" /\ call'[c].answer = Answered(call[c], a)
      /\ call'[c].kind = call[c].kind
      /\ \A d \in Call \ {c} : call'[d] = call[d]
  BY <1>0, <1>1, EndEffect
<1>3. call'[c] \in CallRecord
  BY <1>0, <1>1, EndType DEF Answer
<1>4. Left(call'[c]) < Left(call[c])
  BY <1>0, <1>2, <1>3, StepsFromValues, LeftDrops DEF Answered
<1> QED BY <1>2, <1>4

LEMMA CallsStep ==
    ASSUME TypeInv, [Next]_vars
    PROVE  NoneBack /\ EachForward
<1>0. ServerTypeOK /\ call \in [Call -> CallRecord]
  BY DEF TypeInv, TypeOK, ServerTypeOK
<1>1. EachForward
  BY <1>0, LeftStep, LambdaForward DEF EachForward, CallLeft
<1>2. SUFFICES ASSUME NEW c \in Calls
               PROVE  Left(call'[c]) <= Left(call[c]) /\ call'[c].kind = call[c].kind
  BY <1>1 DEF NoneBack, CallLeft
<1>3. c \in Call /\ call[c].kind # "none" /\ call[c] \in CallRecord
  BY <1>0 DEF Calls
<1>4. call'[c] = call[c] => Left(call'[c]) <= Left(call[c]) /\ call'[c].kind = call[c].kind
  BY <1>3, LeftType
<1>5. CASE \/ Accept \/ Refuse \/ NoItems \/ CutFails \/ NoEndpoints \/ EndpointsFail
           \/ GiveUp \/ Collect \/ Bill
  BY <1>4, <1>5 DEF Accept, Refuse,
         NoItems, CutFails, NoEndpoints, EndpointsFail, GiveUp, Collect, Bill, serverVars
<1>6. CASE Invoke
  <2>1. c \notin Chunks
    BY <1>3, <1>6 DEF TypeInv, ChunkInv, Invoke
  <2> QED BY <1>3, <1>4, <1>6, <2>1 DEF Invoke
<1>7. ASSUME NEW b \in Call, LambdaReturns(b) \/ LambdaFails(b)
      PROVE  Left(call'[c]) <= Left(call[c]) /\ call'[c].kind = call[c].kind
  <2>1. call'[c] \in CallRecord
    BY <1>3, <1>7, LambdaStep DEF TypeInv, TypeOK, ServerTypeOK
  <2> QED BY <1>3, <1>4, <1>7, <2>1, LambdaForward, LeftType
<1>8. CASE Servers
  BY <1>0, <1>3, <1>8, LeftNext, ServerTypeNext DEF Servers
<1>9. ASSUME NEW b \in Call, NEW s \in Server, OtherCalls(b, s)
      PROVE  Left(call'[c]) <= Left(call[c]) /\ call'[c].kind = call[c].kind
  <2>1. b # c
    <3>1. b \in Calls \cup Chunks <=> b < b
      BY <1>9 DEF OtherCalls
    <3>2. b \in Nat
      BY CrawlRequestAssumption DEF CrawlRequestAssumption
    <3> QED BY <3>1, <3>2
  <2>2. call'[c] = call[c]
    BY <1>0, <1>3, <1>9, <2>1 DEF OtherCalls
  <2> QED BY <1>4, <2>2
<1>10. CASE UNCHANGED vars
  BY <1>4, <1>10 DEF vars, serverVars
<1> QED BY <1>5, <1>6, <1>7, <1>8, <1>9, <1>10 DEF Next, FrontDoor, Others

\* A call to a server or to Lambda takes at most seven steps, whatever the other
\* calls, crashes and timeouts do: none of them is repeated, and what one step has
\* done for a call no other undoes: what RequestEnds says of the calls, but for the
\* fairness.
THEOREM CallsAreUsedUp ==
    Spec => /\ [](\A c \in Call : CallLeft(c) \in 0 .. 7)
            /\ [][NoneBack /\ EachForward]_vars
<1>1. TypeInv => \A c \in Call : CallLeft(c) \in 0 .. 7
  BY LeftType DEF TypeInv, TypeOK, ServerTypeOK, CallLeft
<1>2. TypeInv /\ [Next]_vars => [NoneBack /\ EachForward]_vars
  BY CallsStep
<1> QED BY <1>1, <1>2, TypeAlways, PTL DEF Spec

=============================================================================

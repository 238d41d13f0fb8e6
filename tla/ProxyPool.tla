------------------------------ MODULE ProxyPool ------------------------------
(***************************************************************************)
(* The collection of proxies that the API loads (proxy.model.ts) and that  *)
(* all workers share (proxy.ts in the crawler).  Each operator is one      *)
(* database operation.                                                     *)
(*                                                                         *)
(* A member of Proxy is a document: when the API reloads the proxies it    *)
(* drops the documents and creates new ones, and a worker may still hold   *)
(* one that is gone.  Of last_used only the order matters: a step that     *)
(* writes the present date makes used the number of documents with an older*)
(* date.  What a proxy is (its type, whether it rotates) stays.            *)
(***************************************************************************)
EXTENDS Naturals, FiniteSets

CONSTANTS
    Proxy,     \* the documents
    Mobile,    \* those of type mobile
    Rotating   \* those whose provider rotates the address itself

ASSUME ProxyPoolAssumption ==
    /\ IsFiniteSet(Proxy)
    /\ Mobile \subseteq Proxy
    /\ Rotating \subseteq Proxy

ProxyStatus == {"new", "functional", "damaged", "expired", "dropped"}

ProxyDoc == [status : ProxyStatus, fails : Nat, used : Nat]

NewProxy == [status |-> "new", fails |-> 0, used |-> 0]

Present(pool) == {p \in Proxy : pool[p].status \notin {"new", "dropped"}}

\* What a filter matches besides the status: any proxy, or mobile ones only.
OfType(filter) == IF filter = "mobile" THEN Mobile ELSE Proxy

Obtainable(pool, filter) ==
    {p \in OfType(filter) : pool[p].status = "functional"}

\* The sort of getProxy: few failed checks first, then the longest unused.
\* obtain_counter, which decides between equal dates, is left out.
NoWorse(pool, p, q) ==
    \/ pool[p].fails < pool[q].fails
    \/ pool[p].fails = pool[q].fails /\ pool[p].used <= pool[q].used

Preferred(pool, filter) ==
    {p \in Obtainable(pool, filter) :
        \A q \in Obtainable(pool, filter) : NoWorse(pool, p, q)}

\* last_used = now: p becomes the one used last, the order of the others stays.
Touch(pool, p) ==
    LET Older(q) == {r \in Proxy : r # p /\ (q = p \/ pool[r].used < pool[q].used)}
    IN [q \in Proxy |-> [pool[q] EXCEPT !.used = Cardinality(Older(q))]]

Obtain(pool, p) == Touch(pool, p)

CountFailedCheck(pool, p) == [Touch(pool, p) EXCEPT ![p].fails = @ + 1]

MarkDamaged(pool, p) == [Touch(pool, p) EXCEPT ![p].status = "damaged"]

\* Mutant of ReportProxy: a block leaves the date alone.
ReportLightly(pool, p, reason) ==
    IF p \notin Present(pool) THEN pool
    ELSE CASE reason = "blocked"       -> pool
           [] reason = "damaged"       -> MarkDamaged(pool, p)
           [] reason = "check_failed"  -> CountFailedCheck(pool, p)

\* updateProxy: an update of a document that is gone changes nothing.
ReportProxy(pool, p, reason) ==
    IF p \notin Present(pool) THEN pool
    ELSE CASE reason = "blocked"       -> Touch(pool, p)
           [] reason = "damaged"       -> MarkDamaged(pool, p)
           [] reason = "check_failed"  -> CountFailedCheck(pool, p)

\* An update of the API: the fields it writes, and what it writes.
ProxyUpdate ==
    [keys : SUBSET {"status", "fails", "used"},
     doc : [status : {"functional", "damaged", "expired"}, fails : Nat, used : Nat]]

Overwritten(doc, u) ==
    LET Field(f) == IF f \in u.keys THEN u.doc[f] ELSE doc[f]
    IN [status |-> Field("status"), fails |-> Field("fails"), used |-> Field("used")]

\* updateAllProxies of the API
UpdateAll(pool, S, u) ==
    [p \in Proxy |-> IF p \in S THEN Overwritten(pool[p], u) ELSE pool[p]]

DropProxies(pool) ==
    [p \in Proxy |-> IF p \in Present(pool) THEN [pool[p] EXCEPT !.status = "dropped"]
                     ELSE pool[p]]

\* loadProxies creates one document after the other.
CreateProxy(pool, p) == [Touch(pool, p) EXCEPT ![p].status = "functional"]

=============================================================================

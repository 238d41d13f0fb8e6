--------------------------- MODULE MCCrawlHandler ---------------------------
EXTENDS CrawlHandler

CONSTANTS p1, p2

TwoItems == 1 .. 2

\* Every class, source of proxies and policy, with the options that matter to it.
MCConfigs ==
    {c \in [kind : {"browser", "http"}, via : {"none", "pool", "list"},
            mobile : BOOLEAN, change : {1, 2}, restart : BOOLEAN, debug : BOOLEAN,
            policy : {"itemwise", "merged"}] :
        /\ c.via # "pool" => ~c.mobile /\ c.change = 1
        /\ c.debug => c.kind = "http" \/ c.via = "none"
        /\ c.via = "pool" => c.policy = "itemwise"}

\* A status, a counter, a date, and a status with a counter.
MCUpdates ==
    LET Doc(st, n) == [status |-> st, fails |-> n, used |-> 0]
    IN [keys : {{"status"}}, doc : {Doc("functional", 0), Doc("damaged", 0), Doc("expired", 0)}]
       \cup [keys : {{"fails"}, {"used"}, {"status", "fails"}}, doc : {Doc("functional", 0)}]

NoUpdates == {}

Pooled == {[kind |-> "browser", via |-> "pool", mobile |-> m, change |-> n,
            restart |-> FALSE, debug |-> FALSE, policy |-> "itemwise"] :
              m \in BOOLEAN, n \in {1, 2}}
=============================================================================

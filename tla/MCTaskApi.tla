----------------------------- MODULE MCTaskApi -----------------------------
(* Constants for TLC. *)
EXTENDS TaskApi

CONSTANTS i1, i2

\* A file that ends in a newline and one that does not, and an array with a blank
\* line.
MCItems ==
    {[kind |-> "file", items |-> {i1, i2}, blanks |-> 0, unfinished |-> FALSE],
     [kind |-> "file", items |-> {i1}, blanks |-> 0, unfinished |-> TRUE],
     [kind |-> "array", items |-> {i1}, blanks |-> 1, unfinished |-> FALSE]}

\* As well as a request without items.
MCPayload ==
    MCItems \cup {[kind |-> "none", items |-> {}, blanks |-> 0, unfinished |-> FALSE]}

NewValues == [status |-> "failed", queue |-> FALSE, num_items |-> 1, running |-> 0,
              retry |-> 0, longliving |-> TRUE]

\* The requests to pause and to resume set the other statuses.
MCUpdates ==
    {[keys |-> K, doc |-> NewValues] :
        K \in {{"status"}, {"longliving", "running"}, {"queue", "num_items"}}}
    \cup {[keys |-> {"status", "retry"}, doc |-> [NewValues EXCEPT !.status = "started"]]}

=============================================================================

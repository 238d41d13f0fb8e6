---------------------------- MODULE MCCrawlRequest ----------------------------
EXTENDS CrawlRequest

CONSTANTS px, s1

Asking(n, g, c, b, s) ==
    [items |-> n, given |-> g, concurrency |-> c, backend |-> b, streaming |-> s]

\* Two chunks in each range of the arithmetic, and what the API does not check: no
\* items, items that are no list, and a negative concurrency.
MCRequests == {Asking(17, "list", 3, "ec2", FALSE), Asking(101, "list", 0, "lambda", FALSE),
               Asking(2, "list", 0, "lambda", TRUE), Asking(0, "none", 0, "ec2", FALSE),
               Asking(2, "text", 0, "ec2", FALSE), Asking(16, "list", -1, "lambda", TRUE)}

=============================================================================

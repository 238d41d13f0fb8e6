----------------------------- MODULE MCCrawlTask -----------------------------
EXTENDS CrawlTask, TLC

Items == Permutations(Item)

Unmeasured == [count |-> 0, total |-> 0]

OneSpeed == {Unmeasured}

\* Assumed, and twice as fast: two workers keep the rate of 400, or one.
TwoSpeeds == {Unmeasured, [count |-> 1, total |-> 400]}

\* Also slower than the minimum and faster than the rate.
AnySpeed == TwoSpeeds \cup {[count |-> 2, total |-> 1], [count |-> 1, total |-> 3000]}
=============================================================================

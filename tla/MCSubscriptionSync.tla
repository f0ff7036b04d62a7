------------------------- MODULE MCSubscriptionSync -------------------------
EXTENDS SubscriptionSync, TLC

\* Subscriptions and handlers are interchangeable.
Symmetry == Permutations(Subscriptions) \cup Permutations(Handlers)

\* A report that nobody works on any more is not read again: only whether it was an end
\* is, whether a deletion was processed, and the end of the last period.
Settled(e) ==
  /\ ledger[e] # "NONE"
  /\ \A h \in Handlers :
       At(h, "idle") \/ At(h, "cancel") \/ At(h, "reactivate") \/ work[h].event # e
Seen(s, n) ==
  LET r == reports[s][n]
      e == <<s, n>>
  IN  [kind |-> IF Settled(e) /\ r.kind \notin Ends THEN "SETTLED" ELSE r.kind,
       until |-> IF Settled(e) /\ r.kind \notin Ends /\ n < Len(reports[s]) THEN 0 ELSE r.until,
       ledger |-> IF Settled(e) /\ r.kind # "DELETED" THEN "SETTLED" ELSE ledger[e]]
\* Of a row that a free plan has followed, or a free plan that a row has, only what it is
\* of is read again: it is neither the newest row nor, if it is a subscription's, in force.
Row(i) == IF i < Len(plans) /\ (plans[i].of = Free \/ \E j \in RowsOf(Free) : j > i)
          THEN [of |-> plans[i].of, status |-> "FOLLOWED", until |-> 0] ELSE plans[i]
View == <<[s \in Subscriptions |-> [n \in DOMAIN reports[s] |-> Seen(s, n)]],
          [i \in DOMAIN plans |-> Row(i)], now, work>>
=============================================================================

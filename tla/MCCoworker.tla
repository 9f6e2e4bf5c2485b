----------------------------- MODULE MCCoworker -----------------------------
(***************************************************************************)
(* Instances of Coworker for TLC.                                          *)
(***************************************************************************)
EXTENDS CoworkerInvariant, TLC

CONSTANTS w1, w2, rv, ic, is, sl, g1, g2, t1, t2, t3, d1, d2, d3, d4

\* One pull request: a review with an inline comment arrives as one batch, an
\* issue comment on its own; a batch of two comment threads of a document comes too.
PREvent == {rv, ic, is, g1, g2}
PRThreadOf == [e \in PREvent |-> IF e = g1 THEN t2 ELSE IF e = g2 THEN t3 ELSE t1]
PRKindOf == (rv :> "review") @@ (ic :> "review_comment") @@ (is :> "issue_comment")
            @@ (g1 :> "mention") @@ (g2 :> "mention")
PREventsOf == (d1 :> <<rv, ic>>) @@ (d2 :> <<is>>) @@ (d3 :> <<g1, g2>>)

\* The same without the review, small enough for faults, restarts and crashes,
\* with an empty batch.
PairEvent == {ic, is}
PairThreadOf == [e \in PairEvent |-> t1]
PairKindOf == (ic :> "review_comment") @@ (is :> "issue_comment")
PairEventsOf == (d1 :> <<ic>>) @@ (d2 :> <<is>>) @@ (d4 :> <<>>)

\* A review and a Slack thread whose lock keys may collide.
TwoEvent == {rv, ic, sl}
TwoThreadOf == (rv :> t1) @@ (ic :> t1) @@ (sl :> t2)
TwoKindOf == (rv :> "review") @@ (ic :> "review_comment") @@ (sl :> "mention")
TwoEventsOf == (d1 :> <<rv, ic>>) @@ (d2 :> <<sl>>)
Colliding == [t \in Thread |-> 0]
Distinct == [t \in Thread |-> t]

WorkerSymmetry == Permutations(Worker)
=============================================================================

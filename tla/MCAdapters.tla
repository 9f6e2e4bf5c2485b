----------------------------- MODULE MCAdapters -----------------------------
(***************************************************************************)
(* An instance of Adapters for TLC.  GitHub: a review of two pages whose   *)
(* second inline comment mentions the bot; in a pull request of the bot, a *)
(* comment of an allowed user and one of a user who is not; and what the   *)
(* bot may post in return: a reply to an inline comment and one comment,   *)
(* an answer or a denial, both with a mention of the bot in them.  Slack:  *)
(* a thread of three messages of which the first and the last mention it.  *)
(***************************************************************************)
EXTENDS Adapters

CONSTANTS review, reply, comment, foreign, notice, c1, c2, c3, alice, mallory, bot, p1, p2

Items == {review, reply, comment, foreign, notice}
Kinds == [i \in Items |-> IF i \in {review, reply} THEN "review" ELSE "issue_comment"]
Authors == [i \in Items |-> IF i \in {reply, notice} THEN bot
                            ELSE IF i = foreign THEN mallory ELSE alice]
Pulls == [i \in Items |-> IF i \in {review, reply} THEN p1 ELSE p2]
Inlines == [i \in Items |-> IF i = review THEN <<c1, c2>> ELSE IF i = reply THEN <<c3>> ELSE << >>]

Messages == 1..3
Threads == [m \in Messages |-> 1]
=============================================================================

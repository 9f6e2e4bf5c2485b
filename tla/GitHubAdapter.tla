---------------------------- MODULE GitHubAdapter ----------------------------
(***************************************************************************)
(* The GitHub adapter's webhook handlers (internal/adapter/github).        *)
(* GitHub is external: users and the bot post items (issue comments and    *)
(* reviews with inline comments), edit them, and for each of these GitHub  *)
(* sends webhooks in any order, also for what the bot itself posts.  Every *)
(* webhook is handled by a goroutine of its own.  An event is named after  *)
(* the item or the inline comment it stands for.                           *)
(***************************************************************************)
EXTENDS Naturals, Sequences, FiniteSets

CONSTANTS
  Item,           \* issue comments and reviews that may come to be
  Inline,         \* inline comments of reviews
  User, Bot,      \* authors; Bot is the login the adapter is configured with
  Allowed,        \* allowedUsers, or all of User with allowAll
  KindOfItem,     \* "issue_comment" or "review"
  AuthorOf,       \* an item's author
  PullOf,         \* the issue or pull request it belongs to
  BotPulls,       \* pull requests that the bot opened
  Mentions,       \* items and inline comments whose text mentions the bot
  Bodiless,       \* reviews without a body
  InlineOf,       \* the inline comments of a review, in order
  PageSize,       \* PerPage of ListReviewComments
  MaxHookFaults,  \* bound: calls that fail
  MaxRedeliver,   \* bound: webhooks delivered again by hand
  MaxEdits        \* bound: edits of items

Pull == {PullOf[i] : i \in Item}

InlineSet(i) == {InlineOf[i][k] : k \in DOMAIN InlineOf[i]}
ItemOf(e) == IF e \in Item THEN e ELSE CHOOSE i \in Item : e \in InlineSet(i)

\* An item's own webhook; a new review has another one per inline comment.
HookOf(i, action) ==
  [type |-> IF KindOfItem[i] = "review" THEN "pull_request_review" ELSE "issue_comment",
   action |-> action, of |-> i]
HooksOfNew(i) ==
  {HookOf(i, "new")} \cup
  {[type |-> "pull_request_review_comment", action |-> "new", of |-> c] : c \in InlineSet(i)}

Hook == UNION {HooksOfNew(i) \cup {HookOf(i, "edited")} : i \in Item}

ASSUME GitHubAssumption ==
  /\ Bot \in User /\ Allowed \subseteq User
  /\ KindOfItem \in [Item -> {"issue_comment", "review"}]
  /\ AuthorOf \in [Item -> User]
  /\ BotPulls \subseteq Pull
  /\ Mentions \subseteq Item \cup Inline /\ Bodiless \subseteq Item
  /\ InlineOf \in [Item -> Seq(Inline)]
  /\ Item \cap Inline = {}
  \* Only reviews have inline comments.
  /\ \A i \in Item : KindOfItem[i] = "issue_comment" => InlineOf[i] = << >>
  \* An inline comment belongs to one review, and occurs once in it.
  /\ \A c \in Inline : \E i \in Item : c \in InlineSet(i)
  /\ \A i, j \in Item : InlineSet(i) \cap InlineSet(j) # {} => i = j
  /\ \A i \in Item : \A k, m \in DOMAIN InlineOf[i] : InlineOf[i][k] = InlineOf[i][m] => k = m
  /\ PageSize \in Nat \ {0} /\ MaxHookFaults \in Nat /\ MaxRedeliver \in Nat /\ MaxEdits \in Nat

VARIABLES
  there,          \* items that are on GitHub
  wpc,            \* where the handler of a webhook is
  fetched,        \* how many inline comments the handler has listed
  batch,          \* the events it hands to the router
  deliveries,     \* how often a webhook was delivered
  tasks,          \* how many tasks an event has got
  denials,        \* how many denials an item has got
  answered,       \* events that were answered
  hookFaults,     \* failed calls so far
  redelivered,    \* redeliveries so far
  edits           \* edits so far

gitHubVars == <<there, wpc, fetched, batch, deliveries, tasks, denials, answered, hookFaults,
                redelivered, edits>>

HandlerAt == {"none", "sent", "list", "filter", "deny", "handle", "ok", "error"}

GitHubTypeOK ==
  /\ there \subseteq Item
  /\ wpc \in [Hook -> HandlerAt]
  /\ fetched \in [Hook -> Nat]
  /\ \A h \in Hook : fetched[h] > 0 => fetched[h] <= Len(InlineOf[h.of])
  /\ batch \in [Hook -> Seq(Item \cup Inline)]
  /\ deliveries \in [Hook -> Nat]
  /\ tasks \in [Item \cup Inline -> Nat]
  /\ denials \in [Item -> Nat]
  /\ answered \subseteq Item \cup Inline
  /\ hookFaults \in 0..MaxHookFaults /\ redelivered \in 0..MaxRedeliver
  /\ edits \in 0..MaxEdits

GitHubInit ==
  /\ there = {}
  /\ wpc = [h \in Hook |-> "none"]
  /\ fetched = [h \in Hook |-> 0]
  /\ batch = [h \in Hook |-> << >>]
  /\ deliveries = [h \in Hook |-> 0]
  /\ tasks = [e \in Item \cup Inline |-> 0]
  /\ denials = [i \in Item |-> 0]
  /\ answered = {}
  /\ hookFaults = 0 /\ redelivered = 0 /\ edits = 0

-----------------------------------------------------------------------------
(* GitHub.                                                                   *)

Deliver(hs, at) ==
  /\ wpc' = [h \in Hook |-> IF h \in hs THEN "sent" ELSE at[h]]
  /\ deliveries' = [h \in Hook |-> IF h \in hs THEN deliveries[h] + 1 ELSE deliveries[h]]

\* An item appears and its webhooks are sent; at is where the handlers are otherwise.
Publish(i, at) ==
  /\ i \notin there
  /\ there' = there \cup {i}
  /\ Deliver(HooksOfNew(i), at)

UserPosts(i) ==
  /\ AuthorOf[i] # Bot
  /\ Publish(i, wpc)
  /\ UNCHANGED <<fetched, batch, tasks, denials, answered, hookFaults, redelivered, edits>>

\* A user edits an item.
Edit(i) ==
  /\ i \in there /\ AuthorOf[i] # Bot /\ edits < MaxEdits
  /\ edits' = edits + 1
  /\ Deliver({HookOf(i, "edited")}, wpc)
  /\ UNCHANGED <<there, fetched, batch, tasks, denials, answered, hookFaults, redelivered>>

\* GitHub does not repeat a delivery that failed by itself; an operator may.
Redeliver(h) ==
  /\ wpc[h] = "error" /\ redelivered < MaxRedeliver
  /\ redelivered' = redelivered + 1
  /\ Deliver({h}, wpc)
  /\ fetched' = [fetched EXCEPT ![h] = 0]
  /\ batch' = [batch EXCEPT ![h] = << >>]
  /\ UNCHANGED <<there, tasks, denials, answered, hookFaults, edits>>

-----------------------------------------------------------------------------
(* The handlers.                                                             *)

At(h, s) == wpc' = [wpc EXCEPT ![h] = s]

\* A call fails, or the context of the request has ended: GitHub closes the
\* connection after ten seconds, and Start closes it when the process stops.
HookErrs == hookFaults < MaxHookFaults /\ hookFaults' = hookFaults + 1

\* Variant with a fault: the webhook of an inline comment is handled as well.
HandleWebhookAll(h) ==
  /\ wpc[h] = "sent"
  /\ IF h.type = "pull_request_review_comment"
     THEN /\ At(h, IF h.action = "new" /\ h.of \in Mentions THEN "handle" ELSE "ok")
          /\ batch' = [batch EXCEPT ![h] = <<h.of>>]
     ELSE /\ At(h, IF h.action # "new" THEN "ok"
                   ELSE IF h.type = "issue_comment" THEN "filter" ELSE "list")
          /\ UNCHANGED batch
  /\ UNCHANGED <<there, fetched, deliveries, tasks, denials, answered, hookFaults, redelivered, edits>>

\* The webhook of an inline comment is ignored, as is every action but the first
\* one; the bot's own review is ignored before anything is fetched.
HandleWebhook(h) ==
  /\ wpc[h] = "sent"
  /\ At(h, IF h.type = "pull_request_review_comment" \/ h.action # "new" THEN "ok"
           ELSE IF h.type = "issue_comment" THEN "filter"
           ELSE IF AuthorOf[h.of] = Bot THEN "ok" ELSE "list")
  /\ UNCHANGED <<there, fetched, batch, deliveries, tasks, denials, answered, hookFaults, redelivered, edits>>

Least(m, n) == IF m < n THEN m ELSE n

\* Variant with a fault: the loop ends after the first page.
ListFirstPage(h) ==
  /\ wpc[h] = "list"
  /\ \/ /\ fetched' = [fetched EXCEPT ![h] = Least(PageSize, Len(InlineOf[h.of]))]
        /\ At(h, "filter") /\ UNCHANGED hookFaults
     \/ HookErrs /\ At(h, "error") /\ UNCHANGED fetched
  /\ UNCHANGED <<there, batch, deliveries, tasks, denials, answered, redelivered, edits>>

\* Variant with a fault: a page is requested although there is none left.
ListPastEnd(h) ==
  /\ wpc[h] = "list"
  /\ fetched' = [fetched EXCEPT ![h] = @ + PageSize]
  /\ At(h, IF fetched[h] + PageSize > Len(InlineOf[h.of]) THEN "filter" ELSE "list")
  /\ UNCHANGED <<there, batch, deliveries, tasks, denials, answered, hookFaults, redelivered, edits>>

\* handlePRReview: the review's inline comments, page by page.
ListReviewComments(h) ==
  /\ wpc[h] = "list"
  /\ \/ /\ fetched' = [fetched EXCEPT ![h] = Least(@ + PageSize, Len(InlineOf[h.of]))]
        /\ At(h, IF fetched[h] + PageSize >= Len(InlineOf[h.of]) THEN "filter" ELSE "list")
        /\ UNCHANGED hookFaults
     \/ HookErrs /\ At(h, "error") /\ UNCHANGED fetched
  /\ UNCHANGED <<there, batch, deliveries, tasks, denials, answered, redelivered, edits>>

Fetched(h) == SubSeq(InlineOf[h.of], 1, fetched[h])

\* A review is relevant if the bot is mentioned in its body or in an inline comment
\* or if the pull request is the bot's; a comment likewise.
IsRelevant(h) ==
  \/ h.of \in Mentions
  \/ PullOf[h.of] \in BotPulls
  \/ \E k \in 1..fetched[h] : InlineOf[h.of][k] \in Mentions

\* An issue comment is one event; a review is its body, if any, and its comments.
BuildEvents(h) ==
  IF h.type = "issue_comment" THEN <<h.of>>
  ELSE (IF h.of \in Bodiless THEN << >> ELSE <<h.of>>) \o Fetched(h)

\* Variant with a fault: the author is not compared with the bot.
FilterOwn(h) ==
  /\ wpc[h] = "filter"
  /\ \/ ~IsRelevant(h) /\ At(h, "ok") /\ UNCHANGED batch
     \/ IsRelevant(h) /\ AuthorOf[h.of] \notin Allowed /\ At(h, "deny") /\ UNCHANGED batch
     \/ /\ IsRelevant(h) /\ AuthorOf[h.of] \in Allowed /\ At(h, "handle")
        /\ batch' = [batch EXCEPT ![h] = BuildEvents(h)]
  /\ UNCHANGED <<there, fetched, deliveries, tasks, denials, answered, hookFaults, redelivered, edits>>

\* What has nothing in it, is not relevant or is the bot's own is ignored; then the
\* author has to be allowed.
Filter(h) ==
  /\ wpc[h] = "filter"
  /\ LET ignored == ~IsRelevant(h) \/ AuthorOf[h.of] = Bot \/ BuildEvents(h) = << >>
     IN  \/ ignored /\ At(h, "ok") /\ UNCHANGED batch
         \/ ~ignored /\ AuthorOf[h.of] \notin Allowed /\ At(h, "deny") /\ UNCHANGED batch
         \/ /\ ~ignored /\ AuthorOf[h.of] \in Allowed /\ At(h, "handle")
            /\ batch' = [batch EXCEPT ![h] = BuildEvents(h)]
  /\ UNCHANGED <<there, fetched, deliveries, tasks, denials, answered, hookFaults, redelivered, edits>>

\* The bot posts an issue comment or, as the answer to an inline comment, a review
\* with one comment; GitHub sends webhooks for it.
BotPosts(kind, pull, at) ==
  \E b \in Item :
    AuthorOf[b] = Bot /\ KindOfItem[b] = kind /\ PullOf[b] = pull /\ Publish(b, at)

\* The denial is an issue comment; its error is only logged.
DenyUnauthorized(h) ==
  /\ wpc[h] = "deny"
  /\ denials' = [denials EXCEPT ![h.of] = @ + 1]
  /\ \/ BotPosts("issue_comment", PullOf[h.of], [wpc EXCEPT ![h] = "ok"]) /\ UNCHANGED hookFaults
     \/ HookErrs /\ At(h, "ok") /\ UNCHANGED <<there, deliveries>>
  /\ UNCHANGED <<fetched, batch, tasks, answered, redelivered, edits>>

\* The router's HandleEvent: a task for every event of the batch, in order, until
\* the first error.
HandleEvent(h) ==
  /\ wpc[h] = "handle"
  /\ \/ /\ tasks' = [tasks EXCEPT ![Head(batch[h])] = @ + 1]
        /\ batch' = [batch EXCEPT ![h] = Tail(@)]
        /\ At(h, IF Len(batch[h]) = 1 THEN "ok" ELSE "handle")
        /\ UNCHANGED hookFaults
     \/ HookErrs /\ At(h, "error") /\ UNCHANGED <<tasks, batch>>
  /\ UNCHANGED <<there, fetched, deliveries, denials, answered, redelivered, edits>>

\* A worker answers a task: under the inline comment, or at the pull request.
SendResponse(e) ==
  /\ tasks[e] > 0 /\ e \notin answered
  /\ answered' = answered \cup {e}
  /\ BotPosts(IF e \in Inline THEN "review" ELSE "issue_comment", PullOf[ItemOf(e)], wpc)
  /\ UNCHANGED <<fetched, batch, tasks, denials, hookFaults, redelivered, edits>>

HookStep(h) ==
  HandleWebhook(h) \/ ListReviewComments(h) \/ Filter(h) \/ DenyUnauthorized(h) \/ HandleEvent(h)

GitHubNext ==
  \/ \E i \in Item : UserPosts(i) \/ Edit(i)
  \/ \E h \in Hook : Redeliver(h) \/ HookStep(h)
  \/ \E e \in Item \cup Inline : SendResponse(e)

-----------------------------------------------------------------------------
\* The webhook that announces an event.
Announces(e) == HookOf(ItemOf(e), "new")

\* "Processing both would create duplicate tasks": although an inline comment is
\* announced by two webhooks and may be edited, it gets at most one task for each
\* delivery of its review, and so does every other event.
OneTaskPerDelivery ==
  \A e \in Item \cup Inline : tasks[e] <= deliveries[Announces(e)]

\* The bot does not react to itself: its answers and denials come back as webhooks,
\* some in its own pull requests or quoting a mention, and none of them gets a task
\* or a denial.  A denial goes to a user who is not allowed, and what such a user
\* writes gets no task.
ReactsToUsersOnly ==
  /\ \A e \in Item \cup Inline : tasks[e] > 0 => AuthorOf[ItemOf(e)] \in Allowed \ {Bot}
  /\ \A i \in Item : denials[i] > 0 => AuthorOf[i] \notin Allowed \cup {Bot}

\* What a user asks for by posting an item: everything in it, if the bot is mentioned
\* anywhere in it or the pull request is the bot's.
Asked(i) ==
  IF AuthorOf[i] \in Allowed \ {Bot} /\ (({i} \cup InlineSet(i)) \cap Mentions # {} \/ PullOf[i] \in BotPulls)
  THEN ({i} \ Bodiless) \cup InlineSet(i) ELSE {}

\* Every comment of a review that concerns the bot gets its task, however many pages
\* the review has and wherever in it the mention is, unless the webhook ended with
\* an error that GitHub is told of.
AskedBecomesTasks ==
  \A i \in {j \in Item : Asked(j) # {}} :
    (i \in there) ~> \/ \A e \in Asked(i) : tasks[e] > 0
                     \/ wpc[Announces(i)] = "error"
=============================================================================

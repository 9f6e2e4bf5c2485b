--------------------------- MODULE AdaptersProofs ---------------------------
(***************************************************************************)
(* Proofs that the GitHub adapter never reacts to the bot itself, makes no *)
(* more tasks of a comment than its review was delivered and says OK only  *)
(* when all that was asked for has its task, for any items, users, pages,  *)
(* failures, edits and redeliveries; and that the Slack adapter repeats no *)
(* task because the process ended, loses at most one mention to a failed   *)
(* call or an end, and hands a mention over with its thread, for any       *)
(* messages, envelopes, failures and ends.                                 *)
(***************************************************************************)
EXTENDS Adapters, TLAPS, FiniteSetTheorems

Events == Item \cup Inline

-----------------------------------------------------------------------------
(* Items, inline comments and webhooks *)

\* Every event belongs to an item: an item to itself, an inline comment to its review.
LEMMA EventItems ==
  /\ \A e \in Events : ItemOf(e) \in Item
  /\ \A i \in Item : ItemOf(i) = i
  /\ \A i \in Item : \A k \in DOMAIN InlineOf[i] :
       InlineOf[i][k] \in Inline /\ ItemOf(InlineOf[i][k]) = i
<1>1. ASSUME NEW c \in Inline
      PROVE  ItemOf(c) \in Item /\ c \in InlineSet(ItemOf(c))
  <2>1. c \notin Item /\ \E i \in Item : c \in InlineSet(i)
    BY GitHubAssumption
  <2>2. ItemOf(c) = CHOOSE i \in Item : c \in InlineSet(i)
    BY <2>1 DEF ItemOf
  <2> QED BY <2>1, <2>2
<1>2. \A i \in Item : ItemOf(i) = i
  BY DEF ItemOf
<1>3. ASSUME NEW i \in Item, NEW k \in DOMAIN InlineOf[i]
      PROVE  InlineOf[i][k] \in Inline /\ ItemOf(InlineOf[i][k]) = i
  <2>1. InlineOf[i][k] \in Inline
    BY GitHubAssumption
  <2>2. InlineOf[i][k] \in InlineSet(i)
    BY DEF InlineSet
  <2>3. \A a, b \in Item : InlineSet(a) \cap InlineSet(b) # {} => a = b
    BY GitHubAssumption
  <2> QED BY <1>1, <2>1, <2>2, <2>3
<1> QED BY <1>1, <1>2, <1>3 DEF Events

\* The webhook of an item is a webhook, and it is the only one of its type and action.
LEMMA ItemHooks ==
  /\ \A i \in Item : HookOf(i, "new") \in Hook /\ HookOf(i, "new").of = i
  /\ \A h \in Hook : h.type # "pull_request_review_comment" /\ h.action = "new" =>
       h.of \in Item /\ h = HookOf(h.of, "new")
<1>1. \A i \in Item : HookOf(i, "new") \in Hook /\ HookOf(i, "new").of = i
  BY DEF Hook, HooksOfNew, HookOf
<1>2. ASSUME NEW h \in Hook, h.type # "pull_request_review_comment", h.action = "new"
      PROVE  h.of \in Item /\ h = HookOf(h.of, "new")
  <2>1. PICK i \in Item : h \in HooksOfNew(i) \cup {HookOf(i, "edited")}
    BY DEF Hook
  <2>2. h = HookOf(i, "new")
    BY <1>2, <2>1 DEF HooksOfNew, HookOf
  <2> QED BY <2>2 DEF HookOf
<1> QED BY <1>1, <1>2

\* An event is announced by a webhook, and if that is h the event belongs to h's item.
LEMMA Announced ==
  \A e \in Events : Announces(e) \in Hook /\ Announces(e).of = ItemOf(e)
  BY EventItems, ItemHooks DEF Announces

-----------------------------------------------------------------------------
(* The invariant *)

GitHubTypes ==
  /\ wpc \in [Hook -> HandlerAt]
  /\ fetched \in [Hook -> Nat]
  /\ batch \in [Hook -> Seq(Events)]
  /\ deliveries \in [Hook -> Nat]
  /\ tasks \in [Events -> Nat]
  /\ denials \in [Item -> Nat]

\* A handler that is at s has listed no more comments than there are; past its first
\* check it is that of a new item's own webhook; while it has not filtered, every event it
\* announces has fewer tasks than deliveries, and while it hands over, every event in its
\* batch has.
Known(h, s) ==
  /\ h.of \in Item => fetched[h] <= Len(InlineOf[h.of])
  /\ s \in {"list", "filter", "deny", "handle"} => h.of \in Item /\ h = HookOf(h.of, "new")
  /\ s \in {"sent", "list", "filter"} =>
       \A e \in Events : Announces(e) = h => tasks[e] < deliveries[h]
  /\ s = "deny" => AuthorOf[h.of] \notin Allowed \cup {Bot}
  /\ s = "handle" =>
       /\ AuthorOf[h.of] \in Allowed \ {Bot} /\ batch[h] # << >>
       /\ \A k \in DOMAIN batch[h] : ItemOf(batch[h][k]) = h.of /\ tasks[batch[h][k]] < deliveries[h]
       /\ \A k, m \in DOMAIN batch[h] : batch[h][k] = batch[h][m] => k = m

HookOK(h) == Known(h, wpc[h])

GitHubInv ==
  /\ GitHubTypes
  /\ \A h \in Hook : HookOK(h)
  /\ OneTaskPerDelivery
  /\ ReactsToUsersOnly

-----------------------------------------------------------------------------
(* Steps *)

\* What Filter hands over are events of the webhook's item, each once.
LEMMA BuiltEvents ==
  ASSUME GitHubTypes, NEW h \in Hook, HookOK(h), h.of \in Item
  PROVE  /\ BuildEvents(h) \in Seq(Events)
         /\ \A k \in DOMAIN BuildEvents(h) : ItemOf(BuildEvents(h)[k]) = h.of
         /\ \A k, m \in DOMAIN BuildEvents(h) : BuildEvents(h)[k] = BuildEvents(h)[m] => k = m
<1> DEFINE I == InlineOf[h.of]
           n == fetched[h]
           F == Fetched(h)
<1>1. I \in Seq(Inline) /\ n \in Nat /\ n <= Len(I)
  BY GitHubAssumption DEF HookOK, Known, GitHubTypes
<1>2. /\ \A k \in DOMAIN I : I[k] \in Inline /\ ItemOf(I[k]) = h.of
      /\ \A k, m \in DOMAIN I : I[k] = I[m] => k = m
      /\ ItemOf(h.of) = h.of
  BY EventItems, GitHubAssumption
<1>3. Item \cap Inline = {}
  BY GitHubAssumption
<1>4. /\ F \in Seq(Inline) /\ Len(F) = n
      /\ \A k \in 1..n : F[k] = I[k] /\ k \in DOMAIN I
  BY <1>1 DEF Fetched
<1> HIDE DEF I, n, F
<1>5. CASE BuildEvents(h) = <<h.of>>
  BY <1>2, <1>5 DEF Events
<1>6. CASE BuildEvents(h) = << >> \o F
  <2>1. BuildEvents(h) = F /\ DOMAIN F = 1..n
    BY <1>1, <1>4, <1>6
  <2>2. F \in Seq(Events)
    BY <1>4 DEF Events
  <2> QED BY <1>2, <1>4, <2>1, <2>2
<1>7. CASE BuildEvents(h) = <<h.of>> \o F
  <2> DEFINE B == <<h.of>> \o F
  <2>1. B \in Seq(Events) /\ Len(B) = n + 1 /\ DOMAIN B = 1..n + 1
    BY <1>1, <1>4 DEF Events
  <2>2. B[1] = h.of /\ \A k \in 2..n + 1 : B[k] = F[k - 1]
    BY <1>1, <1>4
  <2>3. \A k \in 2..n + 1 : B[k] = I[k - 1] /\ k - 1 \in DOMAIN I
    BY <1>1, <1>4, <2>2
  <2> HIDE DEF B
  <2>4. \A k \in DOMAIN B : ItemOf(B[k]) = h.of
    BY <1>1, <1>2, <2>1, <2>2, <2>3
  <2>5. \A k \in 2..n + 1 : B[k] # B[1]
    BY <1>2, <1>3, <2>2, <2>3
  <2>6. \A k, m \in DOMAIN B : B[k] = B[m] => k = m
    BY <1>1, <1>2, <2>1, <2>3, <2>5
  <2> QED BY <1>7, <2>1, <2>4, <2>6 DEF B
<1> QED BY <1>5, <1>6, <1>7 DEF BuildEvents, F

\* What is known of a handler depends on its own webhook and on the tasks of the events
\* that it announces or hands over, and more deliveries do not harm it.
LEMMA KnownStays ==
  ASSUME GitHubTypes, NEW h \in Hook, NEW s, Known(h, s),
         fetched'[h] = fetched[h], batch'[h] = batch[h], deliveries'[h] >= deliveries[h],
         deliveries' \in [Hook -> Nat],
         \A e \in Events : Announces(e) = h => tasks'[e] = tasks[e]
  PROVE  Known(h, s)'
<1>1. \A e \in Events : tasks[e] \in Nat
  BY DEF GitHubTypes
<1>2. deliveries[h] \in Nat /\ deliveries'[h] \in Nat
  BY DEF GitHubTypes
<1>3. ASSUME NEW e \in Events, Announces(e) = h, tasks[e] < deliveries[h]
      PROVE  tasks'[e] < deliveries'[h]
  BY <1>1, <1>2, <1>3
<1>4. ASSUME s = "handle", NEW k \in DOMAIN batch[h]
      PROVE  ItemOf(batch'[h][k]) = h.of /\ tasks'[batch'[h][k]] < deliveries'[h]
  <2>1. batch[h][k] \in Events
    BY DEF GitHubTypes
  <2>2. ItemOf(batch[h][k]) = h.of /\ tasks[batch[h][k]] < deliveries[h] /\ h = HookOf(h.of, "new")
    BY <1>4 DEF Known
  <2>3. Announces(batch[h][k]) = h
    BY <2>2 DEF Announces
  <2>. QED BY <2>1, <2>2, <2>3, <1>3
<1>. QED BY <1>3, <1>4 DEF Known

\* Webhooks are sent while the handlers are at the places given by at.
LEMMA Delivered ==
  ASSUME GitHubTypes, OneTaskPerDelivery, NEW at \in [Hook -> HandlerAt], NEW hs,
         \A h \in Hook : Known(h, at[h]),
         Deliver(hs, at), UNCHANGED tasks,
         \A h \in Hook \ hs : fetched'[h] = fetched[h] /\ batch'[h] = batch[h],
         \A h \in hs \cap Hook : fetched'[h] \in {fetched[h], 0}
  PROVE  /\ wpc' \in [Hook -> HandlerAt] /\ deliveries' \in [Hook -> Nat]
         /\ \A h \in Hook : HookOK(h)'
         /\ OneTaskPerDelivery'
<1>1. wpc' \in [Hook -> HandlerAt]
  BY DEF Deliver, HandlerAt
<1>2. /\ deliveries' \in [Hook -> Nat]
      /\ \A h \in Hook : deliveries'[h] >= deliveries[h]
      /\ \A h \in hs \cap Hook : deliveries'[h] = deliveries[h] + 1
  BY DEF Deliver, GitHubTypes
<1>3. ASSUME NEW h \in Hook \ hs PROVE HookOK(h)'
  <2>1. wpc'[h] = at[h]
    BY DEF Deliver
  <2>2. Known(h, at[h])'
    <3>. DEFINE s == at[h]
    <3>1. Known(h, s)
      OBVIOUS
    <3>. HIDE DEF s
    <3>2. fetched'[h] = fetched[h] /\ batch'[h] = batch[h] /\ deliveries'[h] >= deliveries[h]
      BY <1>2
    <3>3. \A e \in Events : Announces(e) = h => tasks'[e] = tasks[e]
      OBVIOUS
    <3>4. Known(h, s)'
      BY <3>1, <3>2, <3>3, <1>2, KnownStays
    <3>. QED BY <3>4 DEF s
  <2>. QED BY <2>1, <2>2 DEF HookOK
<1>4. ASSUME NEW h \in hs \cap Hook PROVE HookOK(h)'
  <2>1. wpc'[h] = "sent"
    BY DEF Deliver
  <2>2. ASSUME NEW e \in Events, Announces(e) = h PROVE tasks'[e] < deliveries'[h]
    <3>1. tasks[e] <= deliveries[h]
      BY <2>2 DEF OneTaskPerDelivery, Events
    <3>2. tasks[e] \in Nat /\ deliveries[h] \in Nat
      BY DEF GitHubTypes
    <3>. QED BY <3>1, <3>2, <1>2
  <2>3. h.of \in Item => fetched'[h] <= Len(InlineOf[h.of])
    <3>1. h.of \in Item => fetched[h] <= Len(InlineOf[h.of]) /\ Len(InlineOf[h.of]) \in Nat
      BY GitHubAssumption DEF Known
    <3>2. fetched'[h] \in {fetched[h], 0}
      OBVIOUS
    <3>. QED BY <3>1, <3>2
  <2>4. Known(h, "sent")'
    BY <2>2, <2>3 DEF Known
  <2>. QED BY <2>1, <2>4 DEF HookOK
<1>5. OneTaskPerDelivery'
  <2>1. ASSUME NEW e \in Events PROVE tasks'[e] <= deliveries'[Announces(e)]
    <3>1. Announces(e) \in Hook /\ tasks[e] <= deliveries[Announces(e)]
      BY Announced DEF OneTaskPerDelivery, Events
    <3>2. tasks[e] \in Nat /\ deliveries[Announces(e)] \in Nat /\ deliveries'[Announces(e)] \in Nat
      BY <3>1, <1>2 DEF GitHubTypes
    <3>. QED BY <3>1, <3>2, <1>2
  <2>. QED BY <2>1 DEF OneTaskPerDelivery, Events
<1>. QED BY <1>1, <1>2, <1>3, <1>4, <1>5

\* The handler of h goes to s; the others stay where they are.
LEMMA Moved ==
  ASSUME GitHubInv, NEW h \in Hook, NEW s \in HandlerAt, At(h, s),
         \A g \in Hook \ {h} : fetched'[g] = fetched[g] /\ batch'[g] = batch[g],
         UNCHANGED <<tasks, deliveries>>, Known(h, s)'
  PROVE  wpc' \in [Hook -> HandlerAt] /\ \A g \in Hook : HookOK(g)'
<1>1. wpc' \in [Hook -> HandlerAt] /\ wpc'[h] = s /\ \A g \in Hook \ {h} : wpc'[g] = wpc[g]
  BY DEF At, GitHubInv, GitHubTypes
<1>2. ASSUME NEW g \in Hook \ {h} PROVE HookOK(g)'
  BY <1>1 DEF GitHubInv, HookOK, Known
<1>3. HookOK(h)'
  BY <1>1 DEF HookOK
<1>. QED BY <1>1, <1>2, <1>3

\* The bot posts an item while the handlers are at the places given by at.
LEMMA Posted ==
  ASSUME GitHubTypes, OneTaskPerDelivery, NEW at \in [Hook -> HandlerAt], NEW i \in Item,
         \A h \in Hook : Known(h, at[h]), Publish(i, at), UNCHANGED <<tasks, fetched, batch>>
  PROVE  /\ wpc' \in [Hook -> HandlerAt] /\ deliveries' \in [Hook -> Nat]
         /\ \A h \in Hook : HookOK(h)'
         /\ OneTaskPerDelivery'
<1>1. Deliver(HooksOfNew(i), at)
  BY DEF Publish
<1>. QED BY <1>1, Delivered

\* What remains of a sequence without its first element.
LEMMA TailOf ==
  ASSUME NEW S, NEW b \in Seq(S), Len(b) > 1
  PROVE  /\ Tail(b) # << >> /\ DOMAIN Tail(b) = 1..Len(b) - 1
         /\ \A k \in DOMAIN Tail(b) : k + 1 \in DOMAIN b /\ Tail(b)[k] = b[k + 1]
<1>1. Tail(b) \in Seq(S) /\ Len(Tail(b)) = Len(b) - 1
  OBVIOUS
<1>2. \A k \in 1..Len(b) - 1 : Tail(b)[k] = b[k + 1]
  OBVIOUS
<1>3. DOMAIN Tail(b) = 1..Len(b) - 1 /\ DOMAIN b = 1..Len(b)
  BY <1>1
<1>4. Tail(b) # << >>
  <2>1. Len(Tail(b)) # 0
    BY <1>1
  <2>2. Len(<< >>) = 0
    OBVIOUS
  <2>. QED BY <2>1, <2>2, Zenon
<1>5. \A k \in 1..Len(b) - 1 : k + 1 \in 1..Len(b)
  <2>1. Len(b) \in Nat
    OBVIOUS
  <2>. QED BY <2>1
<1>. QED BY <1>2, <1>3, <1>4, <1>5

\* Every step of GitHub, of a handler or of a worker preserves the invariant.
LEMMA GitHubStep == GitHubInv /\ GitHubNext => GitHubInv'
<1>. SUFFICES ASSUME GitHubInv, GitHubNext PROVE GitHubInv'
  OBVIOUS
<1>0. GitHubTypes /\ OneTaskPerDelivery /\ ReactsToUsersOnly /\ \A h \in Hook : HookOK(h)
  BY DEF GitHubInv
<1>a. wpc \in [Hook -> HandlerAt] /\ \A h \in Hook : Known(h, wpc[h])
  BY <1>0 DEF GitHubTypes, HookOK
<1>t. fetched \in [Hook -> Nat] /\ batch \in [Hook -> Seq(Events)] /\ deliveries \in [Hook -> Nat]
      /\ tasks \in [Events -> Nat] /\ denials \in [Item -> Nat]
  BY <1>0 DEF GitHubTypes
<1>1. ASSUME NEW i \in Item, UserPosts(i) PROVE GitHubInv'
  <2>1. Publish(i, wpc) /\ UNCHANGED <<fetched, batch, tasks, denials>>
    BY <1>1 DEF UserPosts
  <2>. QED BY <2>1, <1>0, <1>a, <1>t, Posted DEF GitHubInv, GitHubTypes, ReactsToUsersOnly
<1>2. ASSUME NEW i \in Item, Edit(i) PROVE GitHubInv'
  <2>1. Deliver({HookOf(i, "edited")}, wpc) /\ UNCHANGED <<fetched, batch, tasks, denials>>
    BY <1>2 DEF Edit
  <2>2. /\ wpc' \in [Hook -> HandlerAt] /\ deliveries' \in [Hook -> Nat]
        /\ \A h \in Hook : HookOK(h)'
        /\ OneTaskPerDelivery'
    BY <2>1, <1>0, <1>a, Delivered
  <2>. QED BY <2>1, <2>2, <1>0, <1>t DEF GitHubInv, GitHubTypes, ReactsToUsersOnly
<1>3. ASSUME NEW h \in Hook, Redeliver(h) PROVE GitHubInv'
  <2>1. Deliver({h}, wpc) /\ UNCHANGED <<tasks, denials>>
    BY <1>3 DEF Redeliver
  <2>2. /\ fetched' \in [Hook -> Nat] /\ batch' \in [Hook -> Seq(Events)]
        /\ fetched'[h] = 0
        /\ \A g \in Hook \ {h} : fetched'[g] = fetched[g] /\ batch'[g] = batch[g]
    BY <1>3, <1>t DEF Redeliver
  <2>3. /\ wpc' \in [Hook -> HandlerAt] /\ deliveries' \in [Hook -> Nat]
        /\ \A g \in Hook : HookOK(g)'
        /\ OneTaskPerDelivery'
    BY <2>1, <2>2, <1>0, <1>a, Delivered
  <2>. QED BY <2>1, <2>2, <2>3, <1>0, <1>t DEF GitHubInv, GitHubTypes, ReactsToUsersOnly
<1>4. ASSUME NEW h \in Hook, HandleWebhook(h) PROVE GitHubInv'
  <2>1. /\ wpc[h] = "sent" /\ UNCHANGED <<fetched, batch, deliveries, tasks, denials>>
        /\ \/ At(h, "ok")
           \/ /\ h.type # "pull_request_review_comment" /\ h.action = "new"
              /\ At(h, "filter") \/ At(h, "list")
    BY <1>4 DEF HandleWebhook
  <2>2. Known(h, "sent")
    BY <2>1, <1>a
  <2>3. PICK s \in {"ok", "filter", "list"} :
          /\ At(h, s)
          /\ s # "ok" => h.type # "pull_request_review_comment" /\ h.action = "new"
    BY <2>1
  <2>4. Known(h, s)'
    BY <2>1, <2>2, <2>3, ItemHooks DEF Known
  <2>5. s \in HandlerAt
    BY DEF HandlerAt
  <2>6. wpc' \in [Hook -> HandlerAt] /\ \A g \in Hook : HookOK(g)'
    BY <2>1, <2>3, <2>4, <2>5, Moved
  <2>. QED BY <2>1, <2>6, <1>0, <1>t DEF GitHubInv, GitHubTypes, ReactsToUsersOnly, OneTaskPerDelivery
<1>5. ASSUME NEW h \in Hook, ListReviewComments(h) PROVE GitHubInv'
  <2>1. wpc[h] = "list" /\ UNCHANGED <<batch, deliveries, tasks, denials>>
    BY <1>5 DEF ListReviewComments
  <2>2. Known(h, "list") /\ h.of \in Item
    BY <2>1, <1>a DEF Known
  <2>3. PICK s \in {"filter", "list", "error"} : At(h, s)
    BY <1>5 DEF ListReviewComments
  <2>4. /\ fetched' \in [Hook -> Nat] /\ \A g \in Hook \ {h} : fetched'[g] = fetched[g]
        /\ fetched'[h] <= Len(InlineOf[h.of])
    <3>1. Len(InlineOf[h.of]) \in Nat /\ PageSize \in Nat /\ fetched[h] \in Nat
          /\ fetched[h] <= Len(InlineOf[h.of])
      BY <2>2, <1>t, GitHubAssumption DEF Known
    <3>2. Least(fetched[h] + PageSize, Len(InlineOf[h.of])) \in Nat
          /\ Least(fetched[h] + PageSize, Len(InlineOf[h.of])) <= Len(InlineOf[h.of])
      BY <3>1 DEF Least
    <3>3. \/ fetched' = fetched
          \/ fetched' = [fetched EXCEPT ![h] = Least(fetched[h] + PageSize, Len(InlineOf[h.of]))]
      BY <1>5 DEF ListReviewComments
    <3>. QED BY <3>1, <3>2, <3>3, <1>t
  <2>5. Known(h, s)'
    BY <2>1, <2>2, <2>4 DEF Known
  <2>6. s \in HandlerAt
    BY DEF HandlerAt
  <2>7. wpc' \in [Hook -> HandlerAt] /\ \A g \in Hook : HookOK(g)'
    BY <2>1, <2>3, <2>4, <2>5, <2>6, Moved
  <2>. QED BY <2>1, <2>4, <2>7, <1>0, <1>t DEF GitHubInv, GitHubTypes, ReactsToUsersOnly, OneTaskPerDelivery
<1>6. ASSUME NEW h \in Hook, Filter(h) PROVE GitHubInv'
  <2>1. wpc[h] = "filter" /\ UNCHANGED <<fetched, deliveries, tasks, denials>>
    BY <1>6 DEF Filter
  <2>2. Known(h, "filter") /\ h.of \in Item /\ h = HookOf(h.of, "new")
    BY <2>1, <1>a DEF Known
  <2>3. /\ BuildEvents(h) \in Seq(Events)
        /\ \A k \in DOMAIN BuildEvents(h) : ItemOf(BuildEvents(h)[k]) = h.of
        /\ \A k, m \in DOMAIN BuildEvents(h) : BuildEvents(h)[k] = BuildEvents(h)[m] => k = m
    BY <2>2, <1>0, BuiltEvents
  <2>4. \/ At(h, "ok") /\ UNCHANGED batch
        \/ AuthorOf[h.of] # Bot /\ AuthorOf[h.of] \notin Allowed /\ At(h, "deny") /\ UNCHANGED batch
        \/ /\ AuthorOf[h.of] # Bot /\ BuildEvents(h) # << >> /\ AuthorOf[h.of] \in Allowed
           /\ At(h, "handle") /\ batch' = [batch EXCEPT ![h] = BuildEvents(h)]
    BY <1>6 DEF Filter
  <2>5. batch' \in [Hook -> Seq(Events)] /\ \A g \in Hook \ {h} : batch'[g] = batch[g]
    BY <2>3, <2>4, <1>t
  <2>6. \E s \in HandlerAt : At(h, s) /\ Known(h, s)'
    <3>1. CASE At(h, "ok") /\ UNCHANGED batch
      BY <3>1, <2>1, <2>2 DEF Known, HandlerAt
    <3>2. CASE /\ AuthorOf[h.of] # Bot /\ AuthorOf[h.of] \notin Allowed /\ At(h, "deny")
               /\ UNCHANGED batch
      BY <3>2, <2>1, <2>2 DEF Known, HandlerAt
    <3>3. CASE /\ AuthorOf[h.of] # Bot /\ BuildEvents(h) # << >> /\ AuthorOf[h.of] \in Allowed
               /\ At(h, "handle") /\ batch' = [batch EXCEPT ![h] = BuildEvents(h)]
      <4>1. batch'[h] = BuildEvents(h)
        BY <3>3, <1>t
      <4>2. ASSUME NEW k \in DOMAIN BuildEvents(h)
            PROVE  tasks[BuildEvents(h)[k]] < deliveries[h]
        <5>1. BuildEvents(h)[k] \in Events
          BY <2>3
        <5>2. Announces(BuildEvents(h)[k]) = h
          BY <2>2, <2>3 DEF Announces
        <5>. QED BY <5>1, <5>2, <2>2 DEF Known
      <4>3. Known(h, "handle")'
        BY <4>1, <4>2, <3>3, <2>1, <2>2, <2>3 DEF Known
      <4>. QED BY <4>3, <3>3 DEF HandlerAt
    <3>. QED BY <2>4, <3>1, <3>2, <3>3
  <2>7. wpc' \in [Hook -> HandlerAt] /\ \A g \in Hook : HookOK(g)'
    BY <2>1, <2>5, <2>6, Moved
  <2>. QED BY <2>1, <2>5, <2>7, <1>0, <1>t DEF GitHubInv, GitHubTypes, ReactsToUsersOnly, OneTaskPerDelivery
<1>7. ASSUME NEW h \in Hook, DenyUnauthorized(h) PROVE GitHubInv'
  <2>1. /\ wpc[h] = "deny" /\ denials' = [denials EXCEPT ![h.of] = @ + 1]
        /\ UNCHANGED <<fetched, batch, tasks>>
    BY <1>7 DEF DenyUnauthorized
  <2>2. Known(h, "deny") /\ h.of \in Item /\ AuthorOf[h.of] \notin Allowed \cup {Bot}
    BY <2>1, <1>a DEF Known
  <2>3. denials' \in [Item -> Nat] /\ ReactsToUsersOnly'
    BY <2>1, <2>2, <1>0, <1>t DEF ReactsToUsersOnly
  <2>4. DEFINE at == [wpc EXCEPT ![h] = "ok"]
  <2>5. at \in [Hook -> HandlerAt] /\ \A g \in Hook : Known(g, at[g])
    <3>1. Known(h, "ok")
      BY <2>2 DEF Known
    <3>2. at \in [Hook -> HandlerAt] /\ at[h] = "ok" /\ \A g \in Hook \ {h} : at[g] = wpc[g]
      BY <1>a DEF HandlerAt
    <3>. QED BY <3>1, <3>2, <1>a
  <2>6. CASE \E b \in Item : Publish(b, at)
    <3>1. PICK b \in Item : Publish(b, at)
      BY <2>6
    <3>. HIDE DEF at
    <3>2. /\ wpc' \in [Hook -> HandlerAt] /\ deliveries' \in [Hook -> Nat]
          /\ \A g \in Hook : HookOK(g)'
          /\ OneTaskPerDelivery'
      BY <3>1, <2>1, <2>5, <1>0, Posted
    <3>. QED BY <3>2, <2>1, <2>3, <1>t DEF GitHubInv, GitHubTypes
  <2>7. CASE At(h, "ok") /\ UNCHANGED deliveries
    <3>1. Known(h, "ok")' /\ "ok" \in HandlerAt
      BY <2>1, <2>2 DEF Known, HandlerAt
    <3>2. wpc' \in [Hook -> HandlerAt] /\ \A g \in Hook : HookOK(g)'
      BY <3>1, <2>1, <2>7, Moved
    <3>. QED BY <3>2, <2>1, <2>3, <2>7, <1>0, <1>t DEF GitHubInv, GitHubTypes, OneTaskPerDelivery
  <2>. QED BY <2>6, <2>7, <1>7 DEF DenyUnauthorized, BotPosts
<1>8. ASSUME NEW h \in Hook, HandleEvent(h) PROVE GitHubInv'
  <2>1. wpc[h] = "handle" /\ UNCHANGED <<fetched, deliveries, denials>>
    BY <1>8 DEF HandleEvent
  <2>2. /\ Known(h, "handle") /\ h.of \in Item /\ h = HookOf(h.of, "new")
        /\ AuthorOf[h.of] \in Allowed \ {Bot} /\ batch[h] # << >>
        /\ \A k \in DOMAIN batch[h] : ItemOf(batch[h][k]) = h.of /\ tasks[batch[h][k]] < deliveries[h]
        /\ \A k, m \in DOMAIN batch[h] : batch[h][k] = batch[h][m] => k = m
    BY <2>1, <1>a DEF Known
  <2>3. CASE At(h, "error") /\ UNCHANGED <<tasks, batch>>
    <3>1. Known(h, "error")' /\ "error" \in HandlerAt
      BY <2>1, <2>2, <2>3 DEF Known, HandlerAt
    <3>2. wpc' \in [Hook -> HandlerAt] /\ \A g \in Hook : HookOK(g)'
      BY <3>1, <2>1, <2>3, Moved
    <3>. QED BY <3>2, <2>1, <2>3, <1>0, <1>t
           DEF GitHubInv, GitHubTypes, OneTaskPerDelivery, ReactsToUsersOnly
  <2>4. CASE /\ tasks' = [tasks EXCEPT ![Head(batch[h])] = @ + 1]
             /\ batch' = [batch EXCEPT ![h] = Tail(@)]
             /\ At(h, IF Len(batch[h]) = 1 THEN "ok" ELSE "handle")
    <3>. DEFINE b == batch[h]
                e == Head(b)
                s == IF Len(b) = 1 THEN "ok" ELSE "handle"
    <3>1. b \in Seq(Events) /\ b # << >> /\ 1 \in DOMAIN b /\ e = b[1] /\ e \in Events
      BY <2>2, <1>t
    <3>2. ItemOf(e) = h.of /\ tasks[e] < deliveries[h] /\ Announces(e) = h
      BY <3>1, <2>2 DEF Announces
    <3>3. /\ tasks' \in [Events -> Nat] /\ tasks'[e] = tasks[e] + 1
          /\ \A d \in Events \ {e} : tasks'[d] = tasks[d]
      BY <2>4, <3>1, <1>t
    <3>4. /\ batch' \in [Hook -> Seq(Events)] /\ batch'[h] = Tail(b)
          /\ \A g \in Hook \ {h} : batch'[g] = batch[g]
      BY <2>4, <3>1, <1>t
    <3>5. wpc' \in [Hook -> HandlerAt] /\ wpc'[h] = s /\ \A g \in Hook \ {h} : wpc'[g] = wpc[g]
      BY <2>4, <1>a DEF At, HandlerAt
    <3>6. ASSUME NEW g \in Hook \ {h} PROVE HookOK(g)'
      <4>1. PICK q \in HandlerAt : q = wpc[g]
        BY <1>a
      <4>2. deliveries'[g] >= deliveries[g] /\ deliveries' \in [Hook -> Nat]
        BY <2>1, <1>t
      <4>3. \A d \in Events : Announces(d) = g => tasks'[d] = tasks[d]
        BY <3>2, <3>3
      <4>4. fetched'[g] = fetched[g] /\ batch'[g] = batch[g]
        BY <2>1, <3>4
      <4>5. Known(g, q)'
        <5>1. g \in Hook /\ GitHubTypes /\ Known(g, q)
          BY <1>0, <1>a, <4>1
        <5>. QED BY <5>1, <4>2, <4>3, <4>4, KnownStays
      <4>6. wpc'[g] = q
        BY <3>5, <4>1
      <4>. QED BY <4>5, <4>6 DEF HookOK
    <3>7. HookOK(h)'
      <4>0. wpc'[h] = (IF Len(b) = 1 THEN "ok" ELSE "handle") /\ Len(b) \in Nat /\ Len(b) >= 1
        BY <3>1, <3>5
      <4>. HIDE DEF s
      <4>1. CASE Len(b) = 1
        <5>1. wpc'[h] = "ok"
          BY <4>0, <4>1
        <5>. QED BY <5>1, <2>1, <2>2 DEF HookOK, Known
      <4>2. CASE Len(b) # 1
        <5>1. wpc'[h] = "handle"
          BY <4>0, <4>2
        <5>2. Len(b) \in Nat /\ Len(b) > 1
          <6>1. Len(b) \in Nat /\ Len(b) >= 1 /\ Len(b) # 1
            BY <4>0, <4>2, Zenon
          <6>2. \A n \in Nat : n >= 1 /\ n # 1 => n > 1
            OBVIOUS
          <6>. QED BY <6>1, <6>2, Zenon
        <5>3. /\ Tail(b) # << >> /\ DOMAIN Tail(b) = 1..Len(b) - 1
              /\ \A k \in DOMAIN Tail(b) : k + 1 \in DOMAIN b /\ Tail(b)[k] = b[k + 1]
          BY <5>2, <3>1, TailOf
        <5>4. ASSUME NEW k \in DOMAIN Tail(b)
              PROVE  ItemOf(Tail(b)[k]) = h.of /\ tasks'[Tail(b)[k]] < deliveries'[h]
          <6>1. k + 1 \in DOMAIN b /\ Tail(b)[k] = b[k + 1] /\ k + 1 # 1 /\ b[k + 1] \in Events
            BY <5>3, <5>2, <3>1
          <6>2. b[k + 1] # e
            BY <6>1, <3>1, <2>2
          <6>. QED BY <6>1, <6>2, <3>3, <2>1, <2>2
        <5>5. \A k, m \in DOMAIN Tail(b) : Tail(b)[k] = Tail(b)[m] => k = m
          <6>1. ASSUME NEW k \in DOMAIN Tail(b), NEW m \in DOMAIN Tail(b), Tail(b)[k] = Tail(b)[m]
                PROVE  k = m
            <7>1. k + 1 = m + 1
              BY <6>1, <5>3, <2>2
            <7>. QED BY <7>1, <5>2, <5>3
          <6>. QED BY <6>1
        <5>. QED BY <5>1, <5>3, <5>4, <5>5, <3>4, <2>1, <2>2 DEF HookOK, Known
      <4>. QED BY <4>1, <4>2
    <3>8. OneTaskPerDelivery'
      <4>1. ASSUME NEW d \in Events PROVE tasks'[d] <= deliveries'[Announces(d)]
        <5>1. CASE d = e
          <6>1. tasks[e] \in Nat /\ deliveries[h] \in Nat
            BY <3>1, <1>t
          <6>. QED BY <5>1, <6>1, <3>2, <3>3, <2>1
        <5>2. CASE d # e
          BY <5>2, <3>3, <2>1, <1>0 DEF OneTaskPerDelivery, Events
        <5>. QED BY <5>1, <5>2
      <4>. QED BY <4>1 DEF OneTaskPerDelivery, Events
    <3>9. ReactsToUsersOnly'
      BY <3>2, <3>3, <2>1, <2>2, <1>0 DEF ReactsToUsersOnly, Events
    <3>. QED BY <3>3, <3>4, <3>5, <3>6, <3>7, <3>8, <3>9, <2>1, <1>t DEF GitHubInv, GitHubTypes
  <2>. QED BY <2>3, <2>4, <1>8 DEF HandleEvent
<1>9. ASSUME NEW e \in Item \cup Inline, SendResponse(e) PROVE GitHubInv'
  <2>1. PICK b \in Item : Publish(b, wpc)
    BY <1>9 DEF SendResponse, BotPosts
  <2>2. UNCHANGED <<fetched, batch, tasks, denials>>
    BY <1>9 DEF SendResponse
  <2>. QED BY <2>1, <2>2, <1>0, <1>a, <1>t, Posted DEF GitHubInv, GitHubTypes, ReactsToUsersOnly
<1>. QED BY <1>1, <1>2, <1>3, <1>4, <1>5, <1>6, <1>7, <1>8, <1>9 DEF GitHubNext, HookStep

\* Nothing has happened yet.
LEMMA GitHubInvInit == GitHubInit => GitHubInv
<1>. SUFFICES ASSUME GitHubInit PROVE GitHubInv
  OBVIOUS
<1>1. GitHubTypes
  BY DEF GitHubInit, GitHubTypes, HandlerAt, Events
<1>2. ASSUME NEW h \in Hook PROVE HookOK(h)
  <2>1. wpc[h] = "none" /\ fetched[h] = 0
    BY DEF GitHubInit
  <2>2. h.of \in Item => Len(InlineOf[h.of]) \in Nat
    BY GitHubAssumption
  <2>. QED BY <2>1, <2>2 DEF HookOK, Known
<1>3. OneTaskPerDelivery
  BY Announced DEF GitHubInit, OneTaskPerDelivery, Events
<1>4. ReactsToUsersOnly
  BY DEF GitHubInit, ReactsToUsersOnly
<1>. QED BY <1>1, <1>2, <1>3, <1>4 DEF GitHubInv

\* Which adapters are enabled does not change.
Deployed == enabled \in Deployment

\* The rest of what is in a state: only the handler of an item's webhook lists anything.
Counted ==
  /\ there \subseteq Item /\ answered \subseteq Events
  /\ hookFaults \in 0..MaxHookFaults /\ redelivered \in 0..MaxRedeliver /\ edits \in 0..MaxEdits
  /\ \A h \in Hook : fetched[h] > 0 => h.of \in Item

\* Every step keeps it.
LEMMA CountedStep ==
  ASSUME GitHubInv, Counted, GitHubNext
  PROVE  Counted'
<1>1. fetched \in [Hook -> Nat] /\ \A h \in Hook : Known(h, wpc[h])
  BY DEF GitHubInv, GitHubTypes, HookOK
<1>2. /\ there \subseteq Item /\ answered \subseteq Events
      /\ hookFaults \in 0..MaxHookFaults /\ redelivered \in 0..MaxRedeliver
      /\ edits \in 0..MaxEdits
      /\ MaxHookFaults \in Nat /\ MaxRedeliver \in Nat /\ MaxEdits \in Nat
  BY GitHubAssumption DEF Counted
<1>3. ASSUME HookErrs PROVE hookFaults' \in 0..MaxHookFaults
  BY <1>2, <1>3 DEF HookErrs
<1>4. ASSUME UNCHANGED fetched PROVE \A h \in Hook : fetched'[h] > 0 => h.of \in Item
  BY <1>4 DEF Counted
<1>5. ASSUME NEW i \in Item, UserPosts(i) PROVE Counted'
  BY <1>2, <1>4, <1>5 DEF Counted, UserPosts, Publish
<1>6. ASSUME NEW i \in Item, Edit(i) PROVE Counted'
  <2>1. edits' \in 0..MaxEdits
    BY <1>2, <1>6 DEF Edit
  <2> QED BY <1>2, <1>4, <1>6, <2>1 DEF Counted, Edit
<1>7. ASSUME NEW h \in Hook, Redeliver(h) PROVE Counted'
  <2>1. redelivered' \in 0..MaxRedeliver
    BY <1>2, <1>7 DEF Redeliver
  <2>2. fetched'[h] = 0 /\ \A g \in Hook \ {h} : fetched'[g] = fetched[g]
    BY <1>1, <1>7 DEF Redeliver
  <2>3. \A g \in Hook : fetched'[g] > 0 => g.of \in Item
    BY <2>2 DEF Counted
  <2> QED BY <1>2, <1>7, <2>1, <2>3 DEF Counted, Redeliver
<1>8. ASSUME NEW h \in Hook, HandleWebhook(h) PROVE Counted'
  BY <1>2, <1>4, <1>8 DEF Counted, HandleWebhook
<1>9. ASSUME NEW h \in Hook, ListReviewComments(h) PROVE Counted'
  <2>1. h.of \in Item
    BY <1>1, <1>9 DEF ListReviewComments, Known
  <2>2. \A g \in Hook \ {h} : fetched'[g] = fetched[g]
    BY <1>1, <1>9 DEF ListReviewComments
  <2>3. \A g \in Hook : fetched'[g] > 0 => g.of \in Item
    BY <2>1, <2>2 DEF Counted
  <2>4. hookFaults' \in 0..MaxHookFaults
    BY <1>2, <1>3, <1>9 DEF ListReviewComments
  <2> QED BY <1>2, <1>9, <2>3, <2>4 DEF Counted, ListReviewComments
<1>10. ASSUME NEW h \in Hook, Filter(h) PROVE Counted'
  BY <1>2, <1>4, <1>10 DEF Counted, Filter
<1>11. ASSUME NEW h \in Hook, DenyUnauthorized(h) PROVE Counted'
  <2>1. there' \subseteq Item
    BY <1>2, <1>11 DEF DenyUnauthorized, BotPosts, Publish
  <2>2. hookFaults' \in 0..MaxHookFaults
    BY <1>2, <1>3, <1>11 DEF DenyUnauthorized
  <2> QED BY <1>2, <1>4, <1>11, <2>1, <2>2 DEF Counted, DenyUnauthorized
<1>12. ASSUME NEW h \in Hook, HandleEvent(h) PROVE Counted'
  <2>1. hookFaults' \in 0..MaxHookFaults
    BY <1>2, <1>3, <1>12 DEF HandleEvent
  <2> QED BY <1>2, <1>4, <1>12, <2>1 DEF Counted, HandleEvent
<1>13. ASSUME NEW e \in Events, SendResponse(e) PROVE Counted'
  <2>1. there' \subseteq Item /\ answered' \subseteq Events
    BY <1>2, <1>13 DEF SendResponse, BotPosts, Publish
  <2> QED BY <1>2, <1>4, <1>13, <2>1 DEF Counted, SendResponse
<1> QED BY <1>5, <1>6, <1>7, <1>8, <1>9, <1>10, <1>11, <1>12, <1>13
        DEF GitHubNext, HookStep, Events

-----------------------------------------------------------------------------
(* What a webhook that was answered with OK has done *)

\* A handler at s filters with all inline comments at hand; every event that was asked for
\* and has no task is in the batch it hands over, and when it is done there is none.
Settled(h, s) ==
  /\ s = "filter" => fetched[h] = Len(InlineOf[h.of])
  /\ s = "handle" =>
       \A e \in Asked(h.of) : tasks[e] > 0 \/ \E k \in DOMAIN batch[h] : batch[h][k] = e
  /\ s = "ok" /\ h.of \in Item /\ h = HookOf(h.of, "new") => \A e \in Asked(h.of) : tasks[e] > 0

SettledNow(h) == Settled(h, wpc[h])
SettledInv == \A h \in Hook : SettledNow(h)

\* What is asked for are events.
LEMMA AskedAreEvents == \A i \in Item : Asked(i) \subseteq Events
  BY EventItems DEF Asked, Events, InlineSet

\* With all inline comments at hand, an event that is asked for is built, and if one is
\* the webhook is relevant.
LEMMA AskedAreBuilt ==
  ASSUME NEW h \in Hook, h.of \in Item, h = HookOf(h.of, "new"), fetched[h] = Len(InlineOf[h.of]),
         NEW e \in Asked(h.of)
  PROVE  IsRelevant(h) /\ \E k \in DOMAIN BuildEvents(h) : BuildEvents(h)[k] = e
<1> DEFINE I == InlineOf[h.of]
           F == Fetched(h)
<1>1. I \in Seq(Inline) /\ Len(I) \in Nat /\ DOMAIN I = 1..Len(I)
  BY GitHubAssumption
<1>2. IsRelevant(h)
  BY <1>1 DEF IsRelevant, Asked, InlineSet
<1>3. /\ F \in Seq(Inline) /\ Len(F) = Len(I) /\ DOMAIN F = 1..Len(I)
      /\ \A k \in 1..Len(I) : F[k] = I[k]
  BY <1>1 DEF Fetched
<1>4. (e = h.of /\ h.of \notin Bodiless) \/ \E k \in 1..Len(I) : e = I[k]
  BY <1>1 DEF Asked, InlineSet
<1> HIDE DEF I, F
<1>5. CASE h.type = "issue_comment"
  <2>1. KindOfItem[h.of] = "issue_comment"
    BY <1>5, GitHubAssumption DEF HookOf
  <2>2. I = << >>
    BY <2>1, GitHubAssumption DEF I
  <2>3. Len(I) = 0
    BY <2>2
  <2>4. e = h.of
    BY <1>4, <2>3
  <2> QED BY <1>2, <1>5, <2>4 DEF BuildEvents
<1>6. CASE h.type # "issue_comment" /\ h.of \in Bodiless
  <2>1. BuildEvents(h) = << >> \o F
    BY <1>6 DEF BuildEvents, F
  <2>2. BuildEvents(h) = F
    BY <1>3, <2>1
  <2> QED BY <1>2, <1>3, <1>4, <1>6, <2>2
<1>7. CASE h.type # "issue_comment" /\ h.of \notin Bodiless
  <2>1. BuildEvents(h) = <<h.of>> \o F
    BY <1>7 DEF BuildEvents, F
  <2> DEFINE B == <<h.of>> \o F
  <2>2. /\ DOMAIN B = 1..Len(I) + 1 /\ B[1] = h.of
        /\ \A k \in 1..Len(I) : k + 1 \in DOMAIN B /\ B[k + 1] = I[k]
    BY <1>1, <1>3
  <2>3. 1 \in DOMAIN B
    BY <1>1, <2>2
  <2> HIDE DEF B
  <2> QED BY <1>2, <1>4, <2>1, <2>2, <2>3 DEF B
<1> QED BY <1>5, <1>6, <1>7

\* Webhooks are sent while the handlers are at the places given by at.
LEMMA DeliveredSettled ==
  ASSUME GitHubTypes, NEW at, NEW hs, \A h \in Hook : Settled(h, at[h]),
         Deliver(hs, at), UNCHANGED tasks,
         \A h \in Hook \ hs : fetched'[h] = fetched[h] /\ batch'[h] = batch[h]
  PROVE  SettledInv'
<1> SUFFICES ASSUME NEW h \in Hook PROVE SettledNow(h)'
  BY DEF SettledInv
<1>1. CASE h \in hs
  <2>1. wpc'[h] = "sent"
    BY <1>1 DEF Deliver
  <2> QED BY <2>1 DEF SettledNow, Settled
<1>2. CASE h \notin hs
  <2>1. wpc'[h] = at[h] /\ Settled(h, at[h]) /\ fetched'[h] = fetched[h] /\ batch'[h] = batch[h]
    BY <1>2 DEF Deliver
  <2> QED BY <2>1 DEF SettledNow, Settled
<1> QED BY <1>1, <1>2

\* The handler of h goes to s; the others stay where they are, and no task goes away.
LEMMA MovedSettled ==
  ASSUME GitHubInv, SettledInv, NEW h \in Hook, NEW s, At(h, s),
         \A g \in Hook \ {h} : fetched'[g] = fetched[g] /\ batch'[g] = batch[g],
         \A e \in Events : tasks[e] > 0 => tasks'[e] > 0, Settled(h, s)'
  PROVE  SettledInv'
<1>1. wpc'[h] = s /\ \A g \in Hook \ {h} : wpc'[g] = wpc[g]
  BY DEF At, GitHubInv, GitHubTypes
<1>s. SettledNow(h)'
  BY <1>1 DEF SettledNow
<1> SUFFICES ASSUME NEW g \in Hook \ {h} PROVE SettledNow(g)'
  BY <1>s DEF SettledInv
<1>2. Settled(g, wpc[g])
  BY DEF SettledInv, SettledNow
<1>3. \A e \in Asked(g.of) : g.of \in Item /\ tasks[e] > 0 => tasks'[e] > 0
  BY AskedAreEvents
<1>4. wpc'[g] = wpc[g] /\ fetched'[g] = fetched[g] /\ batch'[g] = batch[g]
  BY <1>1
<1>5. wpc[g] = "filter" => fetched'[g] = Len(InlineOf[g.of])
  BY <1>2, <1>4 DEF Settled
<1>6. ASSUME wpc[g] = "handle", NEW e \in Asked(g.of)
      PROVE  tasks'[e] > 0 \/ \E k \in DOMAIN batch'[g] : batch'[g][k] = e
  <2>1. g.of \in Item
    BY <1>6 DEF GitHubInv, HookOK, Known
  <2>2. tasks[e] > 0 \/ \E k \in DOMAIN batch[g] : batch[g][k] = e
    BY <1>2, <1>6 DEF Settled
  <2> QED BY <1>3, <1>4, <2>1, <2>2
<1>7. ASSUME wpc[g] = "ok", g.of \in Item, g = HookOf(g.of, "new"), NEW e \in Asked(g.of)
      PROVE  tasks'[e] > 0
  BY <1>2, <1>3, <1>7 DEF Settled
<1> QED BY <1>4, <1>5, <1>6, <1>7 DEF SettledNow, Settled

\* Every step keeps it.
LEMMA SettledStep ==
  ASSUME GitHubInv, SettledInv, GitHubNext
  PROVE  SettledInv'
<1>1. /\ GitHubTypes /\ wpc \in [Hook -> HandlerAt] /\ fetched \in [Hook -> Nat]
      /\ batch \in [Hook -> Seq(Events)] /\ tasks \in [Events -> Nat]
      /\ \A h \in Hook : Known(h, wpc[h]) /\ Settled(h, wpc[h])
  BY DEF GitHubInv, GitHubTypes, HookOK, SettledInv, SettledNow
<1>2. ASSUME NEW i \in Item, UserPosts(i) PROVE SettledInv'
  BY <1>1, <1>2, DeliveredSettled DEF UserPosts, Publish
<1>3. ASSUME NEW i \in Item, Edit(i) PROVE SettledInv'
  BY <1>1, <1>3, DeliveredSettled DEF Edit
<1>4. ASSUME NEW h \in Hook, Redeliver(h) PROVE SettledInv'
  <2>1. \A g \in Hook \ {h} : fetched'[g] = fetched[g] /\ batch'[g] = batch[g]
    BY <1>1, <1>4 DEF Redeliver
  <2>2. Deliver({h}, wpc) /\ UNCHANGED tasks
    BY <1>4 DEF Redeliver
  <2> QED BY <1>1, <2>1, <2>2, DeliveredSettled
<1>5. ASSUME NEW h \in Hook, HandleWebhook(h) PROVE SettledInv'
  <2>1. UNCHANGED <<fetched, batch, tasks>> /\ wpc[h] = "sent"
    BY <1>5 DEF HandleWebhook
  <2>2. CASE /\ At(h, "ok")
             /\ \/ h.type = "pull_request_review_comment" \/ h.action # "new"
                \/ AuthorOf[h.of] = Bot
    <3>1. h.of \in Item /\ h = HookOf(h.of, "new") => Asked(h.of) = {}
      BY <2>2 DEF HookOf, Asked
    <3>2. Settled(h, "ok")'
      BY <3>1 DEF Settled
    <3> QED BY <1>1, <2>1, <2>2, <3>2, MovedSettled
  <2>3. CASE At(h, "list")
    BY <1>1, <2>1, <2>3, MovedSettled DEF Settled
  <2>4. CASE h.type = "issue_comment" /\ h.action = "new" /\ At(h, "filter")
    <3>1. h.of \in Item /\ h = HookOf(h.of, "new")
      BY <2>4, ItemHooks
    <3>2. KindOfItem[h.of] = "issue_comment"
      BY <2>4, <3>1, GitHubAssumption DEF HookOf
    <3>3. InlineOf[h.of] = << >>
      BY <3>1, <3>2, GitHubAssumption
    <3>4. fetched[h] <= Len(InlineOf[h.of]) /\ fetched[h] \in Nat
      BY <1>1, <3>1 DEF Known
    <3>5. fetched[h] = Len(InlineOf[h.of])
      BY <3>3, <3>4
    <3>6. Settled(h, "filter")'
      BY <2>1, <3>5 DEF Settled
    <3> QED BY <1>1, <2>1, <2>4, <3>6, MovedSettled
  <2> QED BY <1>5, <2>2, <2>3, <2>4 DEF HandleWebhook
<1>6. ASSUME NEW h \in Hook, ListReviewComments(h) PROVE SettledInv'
  <2>1. UNCHANGED <<batch, tasks>> /\ wpc[h] = "list"
    BY <1>6 DEF ListReviewComments
  <2>2. /\ h.of \in Item /\ fetched[h] <= Len(InlineOf[h.of]) /\ fetched[h] \in Nat
        /\ Len(InlineOf[h.of]) \in Nat /\ PageSize \in Nat
    BY <1>1, <2>1, GitHubAssumption DEF Known
  <2>3. \A g \in Hook \ {h} : fetched'[g] = fetched[g]
    BY <1>1, <1>6 DEF ListReviewComments
  <2>4. PICK s \in {"filter", "list", "error"} :
          /\ At(h, s)
          /\ s = "filter" =>
               /\ fetched' = [fetched EXCEPT ![h] = Least(fetched[h] + PageSize, Len(InlineOf[h.of]))]
               /\ fetched[h] + PageSize >= Len(InlineOf[h.of])
    BY <1>6, <2>2 DEF ListReviewComments
  <2>5. s = "filter" => fetched'[h] = Len(InlineOf[h.of])
    <3>1. fetched[h] + PageSize >= Len(InlineOf[h.of]) =>
            Least(fetched[h] + PageSize, Len(InlineOf[h.of])) = Len(InlineOf[h.of])
      BY <2>2 DEF Least
    <3> QED BY <1>1, <2>4, <3>1
  <2>6. Settled(h, s)'
    BY <2>5 DEF Settled
  <2> QED BY <1>1, <2>1, <2>3, <2>4, <2>6, MovedSettled
<1>7. ASSUME NEW h \in Hook, Filter(h) PROVE SettledInv'
  <2>1. UNCHANGED <<fetched, tasks>> /\ wpc[h] = "filter"
    BY <1>7 DEF Filter
  <2>2. h.of \in Item /\ h = HookOf(h.of, "new") /\ fetched[h] = Len(InlineOf[h.of])
    BY <1>1, <2>1 DEF Known, Settled
  <2>3. \A e \in Asked(h.of) : IsRelevant(h) /\ \E k \in DOMAIN BuildEvents(h) : BuildEvents(h)[k] = e
    BY <2>2, AskedAreBuilt
  <2>4. Asked(h.of) # {} => AuthorOf[h.of] \in Allowed /\ AuthorOf[h.of] # Bot
    BY DEF Asked
  <2>5. CASE /\ At(h, "ok") /\ UNCHANGED batch
             /\ ~IsRelevant(h) \/ AuthorOf[h.of] = Bot \/ BuildEvents(h) = << >>
    <3>1. Asked(h.of) = {}
      BY <2>3, <2>4, <2>5
    <3>2. Settled(h, "ok")'
      BY <3>1 DEF Settled
    <3> QED BY <1>1, <2>1, <2>5, <3>2, MovedSettled
  <2>6. CASE At(h, "deny") /\ UNCHANGED batch
    BY <1>1, <2>1, <2>6, MovedSettled DEF Settled
  <2>7. CASE At(h, "handle") /\ batch' = [batch EXCEPT ![h] = BuildEvents(h)]
    <3>1. batch'[h] = BuildEvents(h) /\ \A g \in Hook \ {h} : batch'[g] = batch[g]
      BY <1>1, <2>7
    <3>2. Settled(h, "handle")'
      BY <2>3, <3>1 DEF Settled
    <3> QED BY <1>1, <2>1, <2>7, <3>1, <3>2, MovedSettled
  <2> QED BY <1>7, <2>5, <2>6, <2>7 DEF Filter
<1>8. ASSUME NEW h \in Hook, DenyUnauthorized(h) PROVE SettledInv'
  <2>1. UNCHANGED <<fetched, batch, tasks>> /\ wpc[h] = "deny"
    BY <1>8 DEF DenyUnauthorized
  <2>2. Asked(h.of) = {}
    BY <1>1, <2>1 DEF Known, Asked
  <2>3. Settled(h, "ok")
    BY <2>2 DEF Settled
  <2> DEFINE at == [wpc EXCEPT ![h] = "ok"]
  <2>4. \A g \in Hook : Settled(g, at[g])
    <3>1. at[h] = "ok" /\ \A g \in Hook \ {h} : at[g] = wpc[g]
      BY <1>1
    <3> QED BY <1>1, <2>3, <3>1
  <2>5. CASE \E b \in Item : Publish(b, at)
    <3>1. PICK b \in Item : Deliver(HooksOfNew(b), at)
      BY <2>5 DEF Publish
    <3> HIDE DEF at
    <3> QED BY <1>1, <2>1, <2>4, <3>1, DeliveredSettled
  <2>6. CASE At(h, "ok")
    <3>1. Settled(h, "ok")'
      BY <2>2 DEF Settled
    <3> QED BY <1>1, <2>1, <2>6, <3>1, MovedSettled
  <2> QED BY <1>8, <2>5, <2>6 DEF DenyUnauthorized, BotPosts
<1>9. ASSUME NEW h \in Hook, HandleEvent(h) PROVE SettledInv'
  <2>1. UNCHANGED fetched /\ wpc[h] = "handle"
    BY <1>9 DEF HandleEvent
  <2>2. /\ batch[h] # << >> /\ batch[h] \in Seq(Events) /\ h.of \in Item
        /\ \A e \in Asked(h.of) : tasks[e] > 0 \/ \E k \in DOMAIN batch[h] : batch[h][k] = e
    BY <1>1, <2>1 DEF Known, Settled
  <2>3. CASE At(h, "error") /\ UNCHANGED <<tasks, batch>>
    BY <1>1, <2>1, <2>3, MovedSettled DEF Settled
  <2>4. CASE /\ tasks' = [tasks EXCEPT ![Head(batch[h])] = @ + 1]
             /\ batch' = [batch EXCEPT ![h] = Tail(@)]
             /\ At(h, IF Len(batch[h]) = 1 THEN "ok" ELSE "handle")
    <3> DEFINE b == batch[h]
    <3>1. /\ b \in Seq(Events) /\ Len(b) \in Nat \ {0} /\ DOMAIN b = 1..Len(b) /\ Head(b) = b[1]
          /\ b[1] \in Events
      BY <2>2
    <3>2. batch'[h] = Tail(b) /\ \A g \in Hook \ {h} : batch'[g] = batch[g]
      BY <1>1, <2>4
    <3> HIDE DEF b
    <3>3. tasks'[b[1]] > 0 /\ \A e \in Events : tasks[e] > 0 => tasks'[e] > 0
      BY <1>1, <2>4, <3>1 DEF b
    <3>4. ASSUME NEW e \in Asked(h.of), ~(tasks'[e] > 0)
          PROVE  \E k \in 1..Len(b) - 1 : b[k + 1] = e
      <4>1. e \in Events /\ ~(tasks[e] > 0)
        BY <2>2, <3>3, <3>4, AskedAreEvents
      <4>2. PICK k \in 1..Len(b) : b[k] = e
        BY <2>2, <3>1, <4>1 DEF b
      <4>3. k # 1
        BY <3>3, <3>4, <4>2
      <4>4. k - 1 \in 1..Len(b) - 1 /\ (k - 1) + 1 = k
        BY <3>1, <4>3
      <4> QED BY <4>2, <4>4
    <3>5. CASE Len(b) = 1
      <4>1. \A e \in Asked(h.of) : tasks'[e] > 0
        BY <3>4, <3>5
      <4>2. Settled(h, "ok")' /\ At(h, "ok")
        BY <2>4, <3>5, <4>1 DEF Settled, b
      <4> QED BY <1>1, <2>1, <3>2, <3>3, <4>2, MovedSettled
    <3>6. CASE Len(b) # 1
      <4>1. /\ DOMAIN Tail(b) = 1..Len(b) - 1
            /\ \A k \in 1..Len(b) - 1 : Tail(b)[k] = b[k + 1]
        BY <3>1, <3>6, TailOf
      <4>2. \A e \in Asked(h.of) : tasks'[e] > 0 \/ \E k \in DOMAIN Tail(b) : Tail(b)[k] = e
        BY <3>4, <4>1
      <4>3. Settled(h, "handle")' /\ At(h, "handle")
        BY <2>4, <3>2, <3>6, <4>2 DEF Settled, b
      <4> QED BY <1>1, <2>1, <3>2, <3>3, <4>3, MovedSettled
    <3> QED BY <3>5, <3>6
  <2> QED BY <1>9, <2>3, <2>4 DEF HandleEvent
<1>10. ASSUME NEW e \in Events, SendResponse(e) PROVE SettledInv'
  <2>1. PICK b \in Item : Deliver(HooksOfNew(b), wpc)
    BY <1>10 DEF SendResponse, BotPosts, Publish
  <2>2. UNCHANGED <<fetched, batch, tasks>>
    BY <1>10 DEF SendResponse
  <2> QED BY <1>1, <2>1, <2>2, DeliveredSettled
<1> QED BY <1>2, <1>3, <1>4, <1>5, <1>6, <1>7, <1>8, <1>9, <1>10 DEF GitHubNext, HookStep, Events

-----------------------------------------------------------------------------
(* Envelopes of the Slack adapter *)

\* The envelopes of m in a queue.
Places(q, m) == {i \in DOMAIN q : q[i] = m}
Copies(q, m) == Cardinality(Places(q, m))

\* A queue with one element more, and what is left of one without its first.
LEMMA QueueWithOneMore ==
  ASSUME NEW V, NEW q \in Seq(V), NEW e \in V
  PROVE  /\ Append(q, e) \in Seq(V) /\ Len(Append(q, e)) = Len(q) + 1 /\ Len(q) \in Nat
         /\ DOMAIN q = 1..Len(q) /\ DOMAIN Append(q, e) = 1..(Len(q) + 1)
         /\ \A i \in 1..Len(q) : Append(q, e)[i] = q[i]
         /\ Append(q, e)[Len(q) + 1] = e
OBVIOUS

\* A queue of which the head is taken.
LEMMA QueueWithOneLess ==
  ASSUME NEW V, NEW q \in Seq(V), q # << >>
  PROVE  /\ Tail(q) \in Seq(V) /\ Len(q) \in Nat \ {0} /\ Len(Tail(q)) = Len(q) - 1
         /\ DOMAIN q = 1..Len(q) /\ DOMAIN Tail(q) = 1..(Len(q) - 1)
         /\ \A i \in 1..(Len(q) - 1) : Tail(q)[i] = q[i + 1]
         /\ Head(q) = q[1] /\ q[1] \in V
OBVIOUS

\* The places in a sequence are finitely many.
LEMMA PlacesAreFinite ==
  ASSUME NEW q \in Seq(Message), NEW m
  PROVE  IsFiniteSet(Places(q, m)) /\ Copies(q, m) \in Nat
<1>1. IsFiniteSet(1..Len(q)) /\ Places(q, m) \in SUBSET (1..Len(q))
  BY FS_Interval DEF Places
<1> QED BY <1>1, FS_Subset, FS_CardinalityType DEF Copies

\* Append adds one envelope of what is appended.
LEMMA CopiesOfAppend ==
  ASSUME NEW q \in Seq(Message), NEW e \in Message, NEW m
  PROVE  Copies(Append(q, e), m) = Copies(q, m) + IF m = e THEN 1 ELSE 0
<1> DEFINE n == Len(q) + 1
<1>1. IsFiniteSet(Places(q, m)) /\ Copies(q, m) \in Nat
  BY PlacesAreFinite
<1>2. n \notin Places(q, m) /\ DOMAIN q = 1..Len(q) /\ DOMAIN Append(q, e) = 1..n
  BY QueueWithOneMore DEF Places
<1>3. (\A i \in 1..Len(q) : Append(q, e)[i] = q[i]) /\ Append(q, e)[n] = e /\ Len(q) \in Nat
  BY QueueWithOneMore
<1>4. CASE m = e
  <2>1. Places(Append(q, e), m) = Places(q, m) \cup {n}
    BY <1>2, <1>3, <1>4 DEF Places
  <2> QED BY <1>1, <1>2, <1>4, <2>1, FS_AddElement DEF Copies
<1>5. CASE m # e
  <2>1. Places(Append(q, e), m) = Places(q, m)
    BY <1>2, <1>3, <1>5 DEF Places
  <2> QED BY <1>1, <1>5, <2>1 DEF Copies
<1> QED BY <1>4, <1>5

\* Taking the first envelope out removes one of its message.
LEMMA CopiesOfTail ==
  ASSUME NEW q \in Seq(Message), q # << >>, NEW m
  PROVE  Copies(q, m) = Copies(Tail(q), m) + IF m = Head(q) THEN 1 ELSE 0
<1> DEFINE T == Places(Tail(q), m)
           S == Places(q, m) \ {1}
           f == [i \in T |-> i + 1]
<1>1. /\ Tail(q) \in Seq(Message) /\ Len(q) \in Nat \ {0} /\ Len(Tail(q)) = Len(q) - 1
      /\ \A i \in 1..Len(q) - 1 : Tail(q)[i] = q[i + 1]
      /\ Head(q) = q[1]
  OBVIOUS
<1>2. /\ IsFiniteSet(T) /\ Cardinality(T) \in Nat /\ Copies(Tail(q), m) = Cardinality(T)
      /\ IsFiniteSet(Places(q, m)) /\ Copies(q, m) \in Nat
  BY <1>1, PlacesAreFinite DEF Copies
<1>3. \A i \in T : i \in Nat /\ i + 1 \in S
  BY <1>1 DEF Places
<1>4. \A j \in S : j \in Nat /\ j - 1 \in T /\ j = (j - 1) + 1
  BY <1>1 DEF Places
<1>5. f \in Bijection(T, S)
  <2> HIDE DEF T, S
  <2>1. f \in [T -> S]
    BY <1>3
  <2>2. \A i, j \in T : f[i] = f[j] => i = j
    BY <1>3
  <2>3. \A j \in S : \E i \in T : f[i] = j
    BY <1>4
  <2> QED BY <2>1, <2>2, <2>3 DEF Bijection, Injection, Surjection, IsInjective
<1>6. Cardinality(S) = Cardinality(T)
  <2> HIDE DEF T, S
  <2>1. ExistsBijection(T, S)
    BY <1>5 DEF ExistsBijection
  <2> QED BY <1>2, <2>1, FS_Bijection
<1>7. Cardinality(S) = IF 1 \in Places(q, m) THEN Copies(q, m) - 1 ELSE Copies(q, m)
  BY <1>2, FS_RemoveElement DEF Copies
<1>8. 1 \in Places(q, m) <=> m = Head(q)
  BY <1>1 DEF Places
<1> QED BY <1>2, <1>6, <1>7, <1>8

\* What Slack sends again holds every message that was not confirmed once.
LEMMA CopiesOfOrder ==
  ASSUME NEW S \in SUBSET Message, NEW q \in SetToSeqs(S), NEW m
  PROVE  /\ q \in Seq(Message) /\ \A i \in DOMAIN q : q[i] \in S
         /\ Copies(q, m) <= 1 /\ (m \notin S => Copies(q, m) = 0)
<1>1. IsFiniteSet(S) /\ Cardinality(S) \in Nat
  BY SlackAssumption, FS_Subset, FS_CardinalityType
<1>2. /\ q \in [1..Cardinality(S) -> S]
      /\ \A i, j \in 1..Cardinality(S) : i # j => q[i] # q[j]
  BY DEF SetToSeqs
<1>3. DOMAIN q = 1..Cardinality(S) /\ \A i \in DOMAIN q : q[i] \in S
  BY <1>2
<1>4. q \in Seq(Message)
  BY <1>1, <1>2
<1>5. CASE Places(q, m) = {}
  <2>1. Copies(q, m) = 0
    BY <1>5, FS_EmptySet DEF Copies
  <2> QED BY <1>3, <1>4, <2>1
<1>6. ASSUME NEW k \in Places(q, m)
      PROVE  Copies(q, m) <= 1 /\ m \in S
  <2>1. Places(q, m) = {k} /\ m \in S
    BY <1>2, <1>3, <1>6 DEF Places
  <2>2. Copies(q, m) = 1
    BY <2>1, FS_Singleton DEF Copies
  <2> QED BY <2>1, <2>2
<1> QED BY <1>3, <1>4, <1>5, <1>6

-----------------------------------------------------------------------------
(* The invariant of the Slack adapter *)

\* The envelopes of m that the loop has not confirmed, and whether it is past that with one.
Waiting(m) == Copies(socket, m) + IF current = m /\ spc = "ack" THEN 1 ELSE 0
Past(m) == IF current = m /\ spc \in {"fetch", "hand"} THEN 1 ELSE 0

\* What may still become a task of m is paid for: by the first envelope, one that was sent
\* again, or a failed call.  While m is not confirmed, what got further than the
\* confirmation did so because the confirmation failed, so a new start adds nothing.
Paid(m) ==
  /\ slackTasks[m] + Past(m) + Waiting(m) <= 1 + late[m] + slackFaults
  /\ m \notin confirmed => slackTasks[m] + Past(m) <= slackFaults /\ Waiting(m) <= 1 + late[m]

\* The messages of m's thread that are older than m, all of which it has as its context.
Before(m) == {k \in Message : k < m /\ ChannelThread[k] = ChannelThread[m]}
Full(m) == Cardinality(Before(m)) <= ReplyLimit => Before(m) \subseteq context[m]

\* Only what was written is in an envelope.
Written ==
  /\ \A i \in DOMAIN socket : socket[i] <= written
  /\ confirmed \subseteq 1..written
  /\ current \in 0..written /\ (spc # "receive" => current # 0)

\* While nothing failed, what is handed over or was is complete.
Complete ==
  slackFaults = 0 => /\ spc = "hand" => Full(current)
                     /\ \A m \in Message : slackTasks[m] > 0 => Full(m)

SlackInv ==
  /\ SlackTypeOK /\ Written /\ Complete
  /\ \A m \in Message : Paid(m)

-----------------------------------------------------------------------------
(* Steps of the Slack adapter *)

\* What the assumption on the constants says of a message as a number.
LEMMA MessageNumbers ==
  /\ Cardinality(Message) \in Nat /\ Message = 1..Cardinality(Message)
  /\ ReplyLimit \in Nat /\ MaxSlackFaults \in Nat /\ MaxSlackEnds \in Nat
  /\ ChannelThread \in [Message -> Message] /\ \A m \in Message : ChannelThread[m] <= m
BY SlackAssumption, FS_CardinalityType

\* A message that starts its thread has nothing before it.
LEMMA RootsAreFull ==
  ASSUME NEW m \in Message, ChannelThread[m] = m
  PROVE  Full(m)
<1>1. \A k \in Message : k < m => ChannelThread[k] # m
  BY MessageNumbers
<1> QED BY <1>1 DEF Full, Before

\* One answer with room for all that is before m has all of it.
LEMMA RepliesHaveBefore ==
  ASSUME NEW m \in Message, written \in 0..Cardinality(Message), m <= written,
         Cardinality(Before(m)) <= ReplyLimit
  PROVE  Before(m) \subseteq Replies(m) \ {m}
<1> DEFINE thread == {k \in 1..written : ChannelThread[k] = ChannelThread[m]}
<1>1. ASSUME NEW k \in Before(m)
      PROVE  k \in thread /\ k # m /\ Cardinality({j \in thread : j < k}) < ReplyLimit
  <2>1. k \in thread /\ k # m
    BY MessageNumbers DEF Before
  <2>2. {j \in thread : j < k} \in SUBSET (Before(m) \ {k})
    BY MessageNumbers DEF Before
  <2>3. IsFiniteSet(Before(m)) /\ Cardinality(Before(m)) \in Nat
    <3>1. Before(m) \in SUBSET Message
      BY DEF Before
    <3> QED BY <3>1, SlackAssumption, FS_Subset, FS_CardinalityType
  <2>4. /\ IsFiniteSet(Before(m) \ {k})
        /\ Cardinality(Before(m) \ {k}) = Cardinality(Before(m)) - 1
    BY <2>3, FS_RemoveElement
  <2> DEFINE older == {j \in thread : j < k}
  <2>5. Cardinality(older) <= Cardinality(Before(m) \ {k}) /\ Cardinality(older) \in Nat
    BY <2>2, <2>4, FS_Subset, FS_CardinalityType
  <2> HIDE DEF older
  <2>6. Cardinality(older) < ReplyLimit
    BY <2>3, <2>4, <2>5, MessageNumbers
  <2> QED BY <2>1, <2>6 DEF older
<1> QED BY <1>1 DEF Replies

\* The first state.
LEMMA SlackInvInit == ASSUME SlackInit PROVE SlackInv
<1>1. SlackTypeOK
  BY MessageNumbers DEF SlackInit, SlackTypeOK, NoContext
<1>2. \A m \in Message : Copies(socket, m) = 0
  BY FS_EmptySet DEF SlackInit, Copies, Places
<1>3. Written /\ Complete
  BY DEF SlackInit, Written, Complete
<1>4. \A m \in Message : Paid(m)
  BY <1>2 DEF SlackInit, Paid, Past, Waiting
<1> QED BY <1>1, <1>3, <1>4 DEF SlackInv

\* The steps of the adapter keep the types.
LEMMA SlackTypeStep ==
  ASSUME SlackInv, SlackNext
  PROVE  SlackTypeOK'
<1>1. SlackTypeOK /\ (spc # "receive" => current \in Message)
  BY DEF SlackInv, Written, SlackTypeOK
<1>2. CASE Write
  <2>1. written' = written + 1 /\ written + 1 \in Message /\ written' \in 0..Cardinality(Message)
    BY <1>1, <1>2, MessageNumbers DEF SlackTypeOK, Write
  <2>2. socket' \in Seq(Message)
    BY <1>1, <1>2, <2>1, QueueWithOneMore DEF SlackTypeOK, Write
  <2> QED BY <1>1, <1>2, <2>1, <2>2 DEF SlackTypeOK, Write
<1>3. ASSUME NEW m \in Message, SendAgain(m) PROVE SlackTypeOK'
  <2>1. socket' \in Seq(Message)
    BY <1>1, <1>3, QueueWithOneMore DEF SlackTypeOK, SendAgain
  <2>2. late' \in [Message -> Nat]
    BY <1>1, <1>3 DEF SlackTypeOK, SendAgain
  <2> QED BY <1>1, <1>3, <2>1, <2>2 DEF SlackTypeOK, SendAgain
<1>4. CASE SlackReconnect
  <2>1. (1..written) \ confirmed \in SUBSET Message
    BY <1>1, MessageNumbers DEF SlackTypeOK
  <2>2. socket' \in Seq(Message)
    BY <1>4, <2>1, CopiesOfOrder DEF SlackReconnect
  <2>3. slackEnds' \in 0..MaxSlackEnds
    BY <1>1, <1>4, MessageNumbers DEF SlackTypeOK, SlackReconnect
  <2> QED BY <1>1, <1>4, <2>2, <2>3 DEF SlackTypeOK, SlackReconnect
<1>5. CASE Receive
  <2>1. socket' \in Seq(Message) /\ current' \in Message
    BY <1>1, <1>5, QueueWithOneLess DEF SlackTypeOK, Receive
  <2> QED BY <1>1, <1>5, <2>1 DEF SlackTypeOK, Receive, LoopAt
<1>6. ASSUME SlackErrs PROVE slackFaults' \in 0..MaxSlackFaults
  BY <1>1, <1>6, MessageNumbers DEF SlackTypeOK, SlackErrs
<1>7. CASE Ack
  <2>1. slackFaults' \in 0..MaxSlackFaults
    BY <1>1, <1>6, <1>7 DEF SlackTypeOK, Ack
  <2>2. confirmed' \subseteq Message
    BY <1>1, <1>7 DEF SlackTypeOK, Ack
  <2> QED BY <1>1, <1>7, <2>1, <2>2 DEF SlackTypeOK, Ack, LoopAt
<1>8. CASE FetchThreadContext
  <2>1. Replies(current) \subseteq Message
    BY <1>1, MessageNumbers DEF Replies, SlackTypeOK
  <2>2. context' \in [Message -> SUBSET Message]
    BY <1>1, <1>8, <2>1 DEF SlackTypeOK, FetchThreadContext, NoContext
  <2>3. slackFaults' \in 0..MaxSlackFaults
    BY <1>1, <1>6, <1>8 DEF SlackTypeOK, FetchThreadContext
  <2> QED BY <1>1, <1>8, <2>2, <2>3 DEF SlackTypeOK, FetchThreadContext, LoopAt
<1>9. CASE Hand
  <2>1. slackFaults' \in 0..MaxSlackFaults
    BY <1>1, <1>6, <1>9 DEF SlackTypeOK, Hand
  <2>2. slackTasks' \in [Message -> Nat]
    <3>1. slackTasks \in [Message -> Nat] /\ current \in Message
      BY <1>1, <1>9 DEF SlackTypeOK, Hand
    <3>2. [slackTasks EXCEPT ![current] = @ + 1] \in [Message -> Nat]
      BY <3>1
    <3> QED BY <1>9, <3>1, <3>2 DEF Hand
  <2> QED BY <1>1, <1>9, <2>1, <2>2 DEF SlackTypeOK, Hand, LoopAt
<1> QED BY <1>2, <1>3, <1>4, <1>5, <1>7, <1>8, <1>9 DEF SlackNext, SlackLoop

\* They keep what was written apart from what was not.
LEMMA WrittenStep ==
  ASSUME SlackInv, SlackNext
  PROVE  Written'
<1>1. /\ Written /\ socket \in Seq(Message) /\ written \in Nat
      /\ \A i \in DOMAIN socket : socket[i] \in Message
  BY DEF SlackInv, SlackTypeOK
<1>2. \A m \in Message : m \in Nat \ {0}
  BY MessageNumbers
<1>3. CASE Write
  <2>1. \A i \in DOMAIN socket' : socket'[i] = written + 1 \/ (i \in DOMAIN socket /\ socket'[i] = socket[i])
    BY <1>1, <1>3, QueueWithOneMore DEF Write
  <2>2. \A i \in DOMAIN socket' : socket'[i] <= written'
    BY <1>1, <1>2, <1>3, <2>1 DEF Written, Write
  <2> QED BY <1>1, <1>3, <2>2 DEF Written, Write
<1>4. ASSUME NEW m \in Message, SendAgain(m) PROVE Written'
  <2>1. \A i \in DOMAIN socket' : socket'[i] = m \/ (i \in DOMAIN socket /\ socket'[i] = socket[i])
    BY <1>1, <1>4, QueueWithOneMore DEF SendAgain
  <2>2. \A i \in DOMAIN socket' : socket'[i] <= written'
    BY <1>1, <1>4, <2>1 DEF Written, SendAgain
  <2> QED BY <1>1, <1>4, <2>2 DEF Written, SendAgain
<1>5. CASE SlackReconnect
  <2>1. (1..written) \ confirmed \in SUBSET Message
    BY <1>1, MessageNumbers DEF SlackInv, SlackTypeOK
  <2>2. \A i \in DOMAIN socket' : socket'[i] \in 1..written
    BY <1>5, <2>1, CopiesOfOrder DEF SlackReconnect
  <2> QED BY <1>1, <1>5, <2>2 DEF Written, SlackReconnect
<1>6. CASE Receive
  <2>1. \A i \in DOMAIN socket' : i + 1 \in DOMAIN socket /\ socket'[i] = socket[i + 1]
    BY <1>1, <1>6, QueueWithOneLess DEF Receive
  <2>2. 1 \in DOMAIN socket /\ current' = socket[1]
    BY <1>1, <1>6, QueueWithOneLess DEF Receive
  <2> QED BY <1>1, <1>2, <1>6, <2>1, <2>2 DEF Written, Receive, LoopAt
<1>7. CASE Ack
  <2>1. current \in 1..written
    BY <1>1, <1>7 DEF Written, Ack
  <2> QED BY <1>1, <1>7, <2>1 DEF Written, Ack, LoopAt
<1>8. CASE FetchThreadContext
  BY <1>1, <1>8 DEF Written, FetchThreadContext, LoopAt
<1>9. CASE Hand
  BY <1>1, <1>9 DEF Written, Hand, LoopAt
<1> QED BY <1>3, <1>4, <1>5, <1>6, <1>7, <1>8, <1>9 DEF SlackNext, SlackLoop

\* They keep the account of every message.
LEMMA PaidStep ==
  ASSUME SlackInv, SlackNext, NEW m \in Message
  PROVE  Paid(m)'
<1> USE DEF Paid, Past, Waiting
<1>1. SlackTypeOK /\ Written /\ Paid(m) /\ Copies(socket, m) \in Nat
  BY PlacesAreFinite DEF SlackInv, SlackTypeOK
<1>2. /\ slackTasks \in [Message -> Nat] /\ late \in [Message -> Nat] /\ slackFaults \in Nat
      /\ socket \in Seq(Message) /\ Copies(socket, m)' = Copies(socket', m)
  BY <1>1 DEF SlackTypeOK
<1>3. CASE Write
  <2>1. written + 1 \in Message /\ socket' = Append(socket, written + 1)
    BY <1>3 DEF Write
  <2>2. Copies(socket', m) = Copies(socket, m) + IF m = written + 1 THEN 1 ELSE 0
    BY <1>2, <2>1, CopiesOfAppend
  <2>3. m = written + 1 => Copies(socket, m) = 0 /\ m \notin confirmed /\ current # m
    <3>1. ASSUME m = written + 1 PROVE Places(socket, m) = {}
      BY <1>1, <3>1 DEF Written, Places, SlackTypeOK
    <3>2. m = written + 1 => Copies(socket, m) = 0
      BY <3>1, FS_EmptySet DEF Copies
    <3> QED BY <1>1, <3>2 DEF Written, SlackTypeOK
  <2> QED BY <1>1, <1>2, <1>3, <2>2, <2>3 DEF Write
<1>4. ASSUME NEW n \in Message, SendAgain(n) PROVE Paid(m)'
  <2>1. Copies(socket', m) = Copies(socket, m) + IF m = n THEN 1 ELSE 0
    BY <1>2, <1>4, CopiesOfAppend DEF SendAgain
  <2>2. /\ late'[m] = late[m] + IF m = n THEN 1 ELSE 0
        /\ late[m] \in Nat /\ slackTasks[m] \in Nat
    BY <1>2, <1>4 DEF SendAgain
  <2>3. UNCHANGED <<spc, current, confirmed, slackTasks, slackFaults>>
    BY <1>4 DEF SendAgain
  <2>4. Past(m)' = Past(m) /\ Past(m) \in {0, 1}
    BY <2>3
  <2>5. Waiting(m)' = Waiting(m) + (IF m = n THEN 1 ELSE 0) /\ Waiting(m) \in Nat
    BY <1>1, <1>2, <2>1, <2>3
  <2> HIDE DEF Past, Waiting
  <2> QED BY <1>1, <1>2, <2>2, <2>3, <2>4, <2>5
<1>5. CASE SlackReconnect
  <2>1. (1..written) \ confirmed \in SUBSET Message
    BY <1>1, MessageNumbers DEF SlackTypeOK
  <2>2. /\ Copies(socket', m) <= 1 /\ (m \in confirmed => Copies(socket', m) = 0)
        /\ Copies(socket', m) \in Nat
    BY <1>5, <2>1, CopiesOfOrder, PlacesAreFinite DEF SlackReconnect
  <2>3. current' = 0 /\ m # 0
    BY <1>5, MessageNumbers DEF SlackReconnect
  <2> QED BY <1>1, <1>2, <1>5, <2>2, <2>3 DEF SlackReconnect
<1>6. CASE Receive
  <2>1. Copies(socket, m) = Copies(socket', m) + IF m = current' THEN 1 ELSE 0
    BY <1>2, <1>6, CopiesOfTail DEF Receive
  <2>2. Copies(socket', m) \in Nat
    BY <1>2, <1>6, QueueWithOneLess, PlacesAreFinite DEF Receive
  <2>3. /\ spc = "receive" /\ spc' = "ack"
        /\ UNCHANGED <<confirmed, late, slackTasks, slackFaults>>
    BY <1>6 DEF Receive, LoopAt
  <2>4. Past(m) = 0 /\ Past(m)' = 0
    BY <2>3
  <2>5. Waiting(m)' = Waiting(m)
    BY <1>2, <2>1, <2>2, <2>3
  <2> HIDE DEF Past, Waiting
  <2> QED BY <1>1, <2>3, <2>4, <2>5
<1>7. CASE Ack
  BY <1>1, <1>2, <1>7 DEF Ack, LoopAt, SlackErrs
<1>8. CASE FetchThreadContext
  BY <1>1, <1>2, <1>8 DEF FetchThreadContext, LoopAt, SlackErrs
<1>9. CASE Hand
  BY <1>1, <1>2, <1>9 DEF Hand, LoopAt, SlackErrs
<1> QED BY <1>3, <1>4, <1>5, <1>6, <1>7, <1>8, <1>9 DEF SlackNext, SlackLoop

\* They keep what is handed over complete.
LEMMA CompleteStep ==
  ASSUME SlackInv, SlackNext
  PROVE  Complete'
<1>1. SlackTypeOK /\ Written /\ Complete
  BY DEF SlackInv
<1>2. /\ slackTasks \in [Message -> Nat] /\ context \in [Message -> SUBSET Message]
      /\ slackFaults \in Nat /\ written \in 0..Cardinality(Message)
      /\ (spc # "receive" => current \in Message /\ current <= written)
  BY <1>1, MessageNumbers DEF SlackTypeOK, Written
<1>3. CASE UNCHANGED <<spc, current, context, slackTasks, slackFaults>>
  BY <1>1, <1>3 DEF Complete, Full
<1>4. CASE Write \/ \E m \in Message : SendAgain(m)
  BY <1>3, <1>4 DEF Write, SendAgain
<1>5. CASE SlackReconnect \/ Receive
  BY <1>1, <1>5 DEF SlackReconnect, Receive, LoopAt, Complete, Full
<1>6. CASE Ack
  <2>1. spc' = "hand" => Full(current)
    BY <1>2, <1>6, RootsAreFull DEF Ack, LoopAt
  <2>2. slackFaults' = 0 => slackFaults = 0
    BY <1>2, <1>6 DEF Ack, SlackErrs
  <2> QED BY <1>1, <1>6, <2>1, <2>2 DEF Ack, Complete, Full
<1>7. CASE FetchThreadContext
  <2>1. slackFaults' = 0 =>
          /\ slackFaults = 0
          /\ context' = [context EXCEPT ![current] = Replies(current) \ {current}]
    BY <1>2, <1>7 DEF FetchThreadContext, SlackErrs
  <2>2. ASSUME slackFaults' = 0 PROVE Full(current)'
    <3>1. Cardinality(Before(current)) <= ReplyLimit => Before(current) \subseteq context'[current]
      BY <1>2, <1>7, <2>1, <2>2, RepliesHaveBefore DEF FetchThreadContext
    <3> QED BY <1>7, <3>1 DEF Full, FetchThreadContext
  <2>3. ASSUME slackFaults' = 0, NEW m \in Message, m # current, Full(m) PROVE Full(m)'
    BY <1>2, <2>1, <2>3 DEF Full
  <2> QED BY <1>1, <1>7, <2>1, <2>2, <2>3 DEF FetchThreadContext, Complete
<1>8. CASE Hand
  <2>1. slackFaults' = 0 => /\ slackFaults = 0
                            /\ slackTasks' = [slackTasks EXCEPT ![current] = @ + 1]
    BY <1>2, <1>8 DEF Hand, SlackErrs
  <2> QED BY <1>1, <1>2, <1>8, <2>1 DEF Hand, LoopAt, Complete, Full
<1> QED BY <1>4, <1>5, <1>6, <1>7, <1>8 DEF SlackNext, SlackLoop

-----------------------------------------------------------------------------
(* What the Slack adapter loses *)

\* The mention the loop is at, and the mentions that have no task and will get none from
\* the loop, unless Slack sends them again: neither is the loop at them nor are they in an
\* envelope that still has to be confirmed.
Busy == IF spc = "receive" THEN {} ELSE {current}
Has(q, m) == \E k \in DOMAIN q : q[k] = m
Lost ==
  {m \in IsMention : /\ m <= written /\ slackTasks[m] = 0 /\ m \notin Busy
                     /\ m \in confirmed \/ ~Has(socket, m)}

\* Every envelope of a set is in each order of it.
LEMMA OrderHasAll ==
  ASSUME NEW S \in SUBSET Message, NEW q \in SetToSeqs(S), NEW m \in S
  PROVE  \E k \in DOMAIN q : q[k] = m
<1> DEFINE D == 1..Cardinality(S)
<1>1. IsFiniteSet(S) /\ Cardinality(S) \in Nat
  BY SlackAssumption, FS_Subset, FS_CardinalityType
<1>2. q \in [D -> S] /\ \A i, j \in D : i # j => q[i] # q[j]
  BY DEF SetToSeqs
<1>3. IsFiniteSet(D) /\ Cardinality(D) = Cardinality(S)
  BY <1>1, FS_Interval
<1> HIDE DEF D
<1>4. q \in Injection(D, S)
  BY <1>2 DEF Injection, IsInjective
<1>5. q \in Surjection(D, S)
  BY <1>1, <1>3, <1>4, FS_Injection
<1> QED BY <1>2, <1>5 DEF Surjection

\* The lost mentions are finitely many, and one more is one more.
LEMMA LostCount ==
  /\ IsFiniteSet(Lost) /\ Cardinality(Lost) \in Nat
  /\ \A S, x : S \subseteq Lost \cup {x} => Cardinality(S) <= Cardinality(Lost) + 1
  /\ \A S : S \subseteq Lost => Cardinality(S) <= Cardinality(Lost)
<1>1. Lost \in SUBSET Message
  BY SlackAssumption DEF Lost
<1>2. IsFiniteSet(Lost) /\ Cardinality(Lost) \in Nat
  BY <1>1, SlackAssumption, FS_Subset, FS_CardinalityType
<1>3. ASSUME NEW S, NEW x, S \subseteq Lost \cup {x} PROVE Cardinality(S) <= Cardinality(Lost) + 1
  <2>1. /\ IsFiniteSet(Lost \cup {x})
        /\ Cardinality(Lost \cup {x}) = IF x \in Lost THEN Cardinality(Lost) ELSE Cardinality(Lost) + 1
    BY <1>2, FS_AddElement
  <2>2. Cardinality(S) <= Cardinality(Lost \cup {x}) /\ Cardinality(S) \in Nat
    BY <1>3, <2>1, FS_Subset, FS_CardinalityType
  <2> QED BY <1>2, <2>1, <2>2
<1>4. ASSUME NEW S, S \subseteq Lost PROVE Cardinality(S) <= Cardinality(Lost)
  BY <1>2, <1>4, FS_Subset
<1> QED BY <1>2, <1>3, <1>4

\* A queue with one element more has that one and all it had.
LEMMA GrownHas ==
  ASSUME NEW q \in Seq(Message), NEW e \in Message
  PROVE  Has(Append(q, e), e) /\ \A m : Has(q, m) => Has(Append(q, e), m)
<1>1. /\ Len(q) \in Nat /\ DOMAIN q = 1..Len(q)
      /\ DOMAIN Append(q, e) = 1..(Len(q) + 1) /\ Append(q, e)[Len(q) + 1] = e
      /\ \A i \in 1..Len(q) : Append(q, e)[i] = q[i]
  BY QueueWithOneMore
<1>2. Len(q) + 1 \in DOMAIN Append(q, e) /\ \A k \in DOMAIN q : k \in DOMAIN Append(q, e)
  BY <1>1
<1> QED BY <1>1, <1>2 DEF Has

\* A number stays below a sum that grows with it.
LEMMA BothGrow ==
  \A l, n, a, b, c, d \in Nat :
    n <= l + 1 /\ l <= a + b /\ c + d = a + b + 1 => n <= c + d
BY SMT

\* Only a failed call or an end of the process loses a mention, and no more than one.
LEMMA LostStep ==
  ASSUME SlackInv, SlackNext
  PROVE  \/ Lost' \subseteq Lost /\ slackEnds' >= slackEnds /\ slackFaults' >= slackFaults
         \/ /\ \E x : Lost' \subseteq Lost \cup {x}
            /\ slackEnds' + slackFaults' = slackEnds + slackFaults + 1
<1>1. /\ Written /\ socket \in Seq(Message) /\ written \in Nat
      /\ slackTasks \in [Message -> Nat] /\ slackEnds \in Nat /\ slackFaults \in Nat
      /\ confirmed \subseteq 1..written /\ 1..written \subseteq Message
      /\ (spc # "receive" => current \in Message)
  <2>1. /\ SlackTypeOK /\ Written
    BY DEF SlackInv
  <2>2. written \in Nat /\ written <= Cardinality(Message) /\ current \in Nat
    BY <2>1, MessageNumbers DEF SlackTypeOK, Written
  <2>3. 1..written \subseteq Message
    BY <2>2, MessageNumbers
  <2>4. spc # "receive" => current \in 1..written
    BY <2>1, <2>2 DEF Written
  <2> QED BY <2>1, <2>2, <2>3, <2>4 DEF SlackTypeOK, Written
<1>2. IsMention \subseteq Message /\ \A m \in Message : m \in Nat \ {0}
  <2>1. IsMention \subseteq Message
    BY SlackAssumption
  <2> QED BY <2>1, MessageNumbers
<1>3. CASE Write
  <2>1. /\ written + 1 \in Message /\ socket' = Append(socket, written + 1) /\ written' = written + 1
        /\ UNCHANGED <<confirmed, spc, current, slackTasks, slackFaults, slackEnds>>
    BY <1>3 DEF Write
  <2>2. Has(socket', written + 1) /\ \A n \in Message : Has(socket, n) => Has(socket', n)
    BY <1>1, <2>1, GrownHas
  <2>3. ASSUME NEW m \in IsMention, m <= written', m \in confirmed \/ ~Has(socket', m)
        PROVE  m <= written /\ (m \in confirmed \/ ~Has(socket, m))
    <3>1. m \in Message /\ m \in Nat
      BY <1>2
    <3>2. m # written + 1
      <4>1. written + 1 \notin confirmed
        BY <1>1
      <4> QED BY <2>2, <2>3, <4>1
    <3>3. m <= written
      BY <1>1, <2>1, <2>3, <3>1, <3>2
    <3> QED BY <2>2, <2>3, <3>1, <3>3
  <2>4. Lost' \subseteq Lost
    BY <2>1, <2>3 DEF Lost, Busy
  <2> QED BY <1>1, <2>1, <2>4
<1>4. ASSUME NEW n \in Message, SendAgain(n)
      PROVE  Lost' \subseteq Lost /\ slackEnds' >= slackEnds /\ slackFaults' >= slackFaults
  <2>1. /\ socket' = Append(socket, n)
        /\ UNCHANGED <<written, confirmed, spc, current, slackTasks, slackFaults, slackEnds>>
    BY <1>4 DEF SendAgain
  <2>2. \A m \in Message : Has(socket, m) => Has(socket', m)
    BY <1>1, <2>1, GrownHas
  <2>3. Lost' \subseteq Lost
    BY <1>2, <2>1, <2>2 DEF Lost, Busy
  <2> QED BY <1>1, <2>1, <2>3
<1>5. CASE SlackReconnect
  <2>1. /\ socket' \in SetToSeqs((1..written) \ confirmed) /\ spc' = "receive"
        /\ slackEnds' = slackEnds + 1 /\ UNCHANGED <<written, confirmed, slackTasks, slackFaults>>
    BY <1>5 DEF SlackReconnect
  <2>2. ASSUME NEW m \in Lost' PROVE m \in confirmed
    <3>1. m \in Message /\ m \in 1..written
      BY <1>2, <2>1, <2>2 DEF Lost
    <3>2. m \notin confirmed => Has(socket', m)
      BY <1>1, <2>1, <3>1, OrderHasAll DEF Has
    <3> QED BY <2>1, <2>2, <3>2 DEF Lost
  <2>3. Lost' \subseteq Lost \cup {current}
    BY <2>1, <2>2 DEF Lost, Busy
  <2>4. slackEnds' + slackFaults' = slackEnds + slackFaults + 1
    BY <1>1, <2>1
  <2> QED BY <2>3, <2>4
<1>6. CASE Receive
  <2>1. /\ spc = "receive" /\ spc' = "ack" /\ socket # << >> /\ current' = Head(socket)
        /\ socket' = Tail(socket)
        /\ UNCHANGED <<written, confirmed, slackTasks, slackFaults, slackEnds>>
    BY <1>6 DEF Receive, LoopAt
  <2>2. ASSUME NEW m \in Message, Has(socket, m), m # current' PROVE Has(socket', m)
    <3>1. PICK k \in DOMAIN socket : socket[k] = m
      BY <2>2 DEF Has
    <3>2. /\ DOMAIN socket = 1..Len(socket) /\ DOMAIN socket' = 1..Len(socket) - 1
          /\ Len(socket) \in Nat /\ \A i \in 1..Len(socket) - 1 : socket'[i] = socket[i + 1]
          /\ current' = socket[1]
      BY <1>1, <2>1, QueueWithOneLess
    <3>3. k - 1 \in DOMAIN socket' /\ socket'[k - 1] = m
      BY <2>2, <3>1, <3>2
    <3> QED BY <3>3 DEF Has
  <2>3. Lost' \subseteq Lost
    BY <1>2, <2>1, <2>2 DEF Lost, Busy
  <2> QED BY <1>1, <2>1, <2>3
<1>7. CASE Ack
  <2>1. /\ spc = "ack" /\ UNCHANGED <<written, socket, current, slackTasks, slackEnds>>
        /\ confirmed' \subseteq confirmed \cup {current}
        /\ slackFaults' >= slackFaults
        /\ spc' = "receive" => current \notin IsMention
    BY <1>1, <1>7 DEF Ack, LoopAt, SlackErrs
  <2>2. Lost' \subseteq Lost
    BY <2>1 DEF Lost, Busy, Has
  <2> QED BY <1>1, <2>1, <2>2
<1>8. CASE FetchThreadContext
  <2>1. /\ spc = "fetch" /\ spc' = "hand"
        /\ UNCHANGED <<written, socket, confirmed, current, slackTasks, slackEnds>>
        /\ slackFaults' >= slackFaults
    BY <1>1, <1>8 DEF FetchThreadContext, LoopAt, SlackErrs
  <2>2. Lost' \subseteq Lost
    BY <2>1 DEF Lost, Busy, Has
  <2> QED BY <1>1, <2>1, <2>2
<1>9. CASE Hand
  <2>1. /\ spc = "hand" /\ spc' = "receive" /\ current \in Message
        /\ UNCHANGED <<written, socket, confirmed, current, slackEnds>>
    BY <1>1, <1>9 DEF Hand, LoopAt
  <2>2. CASE slackTasks' = [slackTasks EXCEPT ![current] = @ + 1] /\ UNCHANGED slackFaults
    <3>1. slackTasks'[current] # 0 /\ \A m \in Message \ {current} : slackTasks'[m] = slackTasks[m]
      BY <1>1, <2>1, <2>2
    <3>2. Lost' \subseteq Lost
      BY <1>2, <2>1, <3>1 DEF Lost, Busy, Has
    <3> QED BY <1>1, <2>1, <2>2, <3>2
  <2>3. CASE SlackErrs /\ UNCHANGED slackTasks
    <3>1. Lost' \subseteq Lost \cup {current}
      BY <2>1, <2>3 DEF Lost, Busy, Has
    <3>2. slackEnds' + slackFaults' = slackEnds + slackFaults + 1
      BY <1>1, <2>1, <2>3 DEF SlackErrs
    <3> QED BY <3>1, <3>2
  <2> QED BY <1>9, <2>2, <2>3 DEF Hand
<1> QED BY <1>3, <1>4, <1>5, <1>6, <1>7, <1>8, <1>9 DEF SlackNext, SlackLoop

-----------------------------------------------------------------------------
\* GitHubInv is an invariant of the adapters, whatever users, GitHub, the workers and
\* failing calls do.
THEOREM GitHubInvariance == Spec => []GitHubInv
<1>1. Init => GitHubInv
  BY GitHubInvInit DEF Init
<1>2. GitHubInv /\ [Next]_vars => GitHubInv'
  <2>. SUFFICES ASSUME GitHubInv, [Next]_vars PROVE GitHubInv'
    OBVIOUS
  <2>1. CASE GitHub
    BY <2>1, GitHubStep DEF GitHub
  <2>2. CASE UNCHANGED gitHubVars
    BY <2>2 DEF gitHubVars, GitHubInv, GitHubTypes, HookOK, Known, OneTaskPerDelivery, ReactsToUsersOnly
  <2>. QED BY <2>1, <2>2 DEF Next, Slack, vars
<1>. QED BY <1>1, <1>2, PTL DEF Spec

\* An event gets no more tasks than its webhook was delivered, although an inline comment
\* is announced twice and its review may be edited and delivered again.
THEOREM TasksMatchDeliveries == Spec => []OneTaskPerDelivery
<1>1. GitHubInv => OneTaskPerDelivery
  BY DEF GitHubInv
<1>. QED BY <1>1, GitHubInvariance, PTL

\* The bot's own comments, reviews and denials get neither a task nor a denial.
THEOREM BotIsNotAnswered == Spec => []ReactsToUsersOnly
<1>1. GitHubInv => ReactsToUsersOnly
  BY DEF GitHubInv
<1>. QED BY <1>1, GitHubInvariance, PTL

\* GitHub is told that a new item's webhook went well only when everything in the item that
\* was asked for has its task, whatever page it was on and whichever call failed before.
OkMeansHanded == \A i \in Item : wpc[Announces(i)] = "ok" => \A e \in Asked(i) : tasks[e] > 0

\* A handler answers with OK after the router has taken all of an item, or nothing in it is
\* for the bot (handleWebhook returns the router's error otherwise).
THEOREM WebhooksEndWithTasks == Spec => []OkMeansHanded
<1>1. Init => SettledInv
  BY DEF Init, GitHubInit, SettledInv, SettledNow, Settled
<1>2. GitHubInv /\ SettledInv /\ [Next]_vars => SettledInv'
  <2> SUFFICES ASSUME GitHubInv, SettledInv, [Next]_vars PROVE SettledInv'
    OBVIOUS
  <2>1. CASE GitHub
    BY <2>1, SettledStep DEF GitHub
  <2>2. CASE UNCHANGED gitHubVars
    BY <2>2 DEF gitHubVars, SettledInv, SettledNow, Settled
  <2> QED BY <2>1, <2>2 DEF Next, Slack, vars
<1>3. SettledInv => OkMeansHanded
  <2> SUFFICES ASSUME SettledInv, NEW i \in Item, wpc[Announces(i)] = "ok" PROVE
                 \A e \in Asked(i) : tasks[e] > 0
    BY DEF OkMeansHanded
  <2>1. Announces(i) = HookOf(i, "new") /\ HookOf(i, "new") \in Hook /\ HookOf(i, "new").of = i
    BY EventItems, ItemHooks DEF Announces
  <2> QED BY <2>1 DEF SettledInv, SettledNow, Settled
<1> QED BY <1>1, <1>2, <1>3, GitHubInvariance, PTL DEF Spec

\* SlackInv is an invariant of the adapters, however often Slack repeats an envelope, calls
\* fail and the process ends.
THEOREM SlackInvariance == Spec => []SlackInv
<1>1. Init => SlackInv
  BY SlackInvInit DEF Init
<1>2. SlackInv /\ [Next]_vars => SlackInv'
  <2> SUFFICES ASSUME SlackInv, [Next]_vars PROVE SlackInv'
    OBVIOUS
  <2>1. CASE SlackNext
    BY <2>1, SlackTypeStep, WrittenStep, PaidStep, CompleteStep DEF SlackInv
  <2>2. CASE UNCHANGED slackVars
    BY <2>2 DEF slackVars, SlackInv, SlackTypeOK, Written, Complete, Full, Paid, Past, Waiting
  <2> QED BY <2>1, <2>2 DEF Next, GitHub, Slack, vars
<1> QED BY <1>1, <1>2, PTL DEF Spec

\* An end of the process repeats no task of Slack: a message has at most one task, one
\* more for each time its unconfirmed envelope was sent again and for each failed call.
THEOREM RestartsRepeatNothing == Spec => []RestartRepeatsNoTask
<1>1. SlackInv => RestartRepeatsNoTask
  <2> SUFFICES ASSUME SlackInv, NEW m \in Message
               PROVE  slackTasks[m] <= 1 + late[m] + slackFaults
    BY DEF RestartRepeatsNoTask
  <2>1. /\ Paid(m) /\ Copies(socket, m) \in Nat
        /\ slackTasks[m] \in Nat /\ late[m] \in Nat /\ slackFaults \in Nat
    BY PlacesAreFinite DEF SlackInv, SlackTypeOK
  <2> QED BY <2>1 DEF Paid, Past, Waiting
<1> QED BY <1>1, SlackInvariance, PTL

\* While nothing fails, a mention is handed over with all that is before it in its thread,
\* if that fits into the one answer fetchThreadContext asks for.
THEOREM ContextsAreComplete == Spec => []ThreadContextIsComplete
<1>1. SlackInv => ThreadContextIsComplete
  BY DEF SlackInv, Complete, Full, Before, ThreadContextIsComplete
<1> QED BY <1>1, SlackInvariance, PTL

\* Every failed call and every end of the process costs at most one mention, however many
\* are waiting: envelopes are confirmed one by one, and what was not confirmed comes again.
LossesAreFaults == Cardinality(Lost) <= slackEnds + slackFaults

\* No mention is lost but to a failed call or an end of the process, one to each at most
\* (the envelope is confirmed before it is handled, and each before the next is taken).
THEOREM OneLossPerFault == Spec => []LossesAreFaults
<1>1. Init => LossesAreFaults
  <2> SUFFICES ASSUME Init PROVE LossesAreFaults
    OBVIOUS
  <2>1. slackEnds = 0 /\ slackFaults = 0 /\ written = 0
    BY DEF Init, SlackInit
  <2>2. Lost = {}
    BY <2>1, SlackAssumption, MessageNumbers DEF Lost
  <2> QED BY <2>1, <2>2, FS_EmptySet DEF LossesAreFaults
<1>2. SlackInv /\ LossesAreFaults /\ [Next]_vars => LossesAreFaults'
  <2> SUFFICES ASSUME SlackInv, LossesAreFaults, [Next]_vars PROVE LossesAreFaults'
    OBVIOUS
  <2>1. CASE SlackNext
    <3>1. /\ slackEnds \in Nat /\ slackFaults \in Nat /\ slackEnds' \in Nat /\ slackFaults' \in Nat
          /\ Cardinality(Lost) \in Nat
      BY <2>1, SlackTypeStep, MessageNumbers, LostCount DEF SlackInv, SlackTypeOK
    <3>2. Lost' \in SUBSET Message
      BY SlackAssumption DEF Lost
    <3>3. Cardinality(Lost') \in Nat
      BY <3>2, SlackAssumption, FS_Subset, FS_CardinalityType
    <3>4. CASE Lost' \subseteq Lost /\ slackEnds' >= slackEnds /\ slackFaults' >= slackFaults
      <4>1. Cardinality(Lost') <= Cardinality(Lost)
        BY <3>4, LostCount
      <4>2. Cardinality(Lost) <= slackEnds + slackFaults
        BY DEF LossesAreFaults
      <4>3. Cardinality(Lost') <= slackEnds' + slackFaults'
        BY <3>1, <3>3, <3>4, <4>1, <4>2
      <4> QED BY <4>3 DEF LossesAreFaults
    <3>5. CASE /\ \E x : Lost' \subseteq Lost \cup {x}
               /\ slackEnds' + slackFaults' = slackEnds + slackFaults + 1
      <4>1. Cardinality(Lost') <= Cardinality(Lost) + 1
        BY <3>5, LostCount
      <4>2. Cardinality(Lost) <= slackEnds + slackFaults
        BY DEF LossesAreFaults
      <4>3. slackEnds' + slackFaults' = slackEnds + slackFaults + 1
        BY <3>5
      <4>4. Cardinality(Lost') <= slackEnds' + slackFaults'
        BY <3>1, <3>3, <4>1, <4>2, <4>3, BothGrow
      <4> QED BY <4>4 DEF LossesAreFaults
    <3> QED BY <2>1, <3>4, <3>5, LostStep
  <2>2. CASE UNCHANGED slackVars
    BY <2>2 DEF slackVars, LossesAreFaults, Lost, Busy, Has
  <2> QED BY <2>1, <2>2 DEF Next, GitHub, Slack, vars
<1> QED BY <1>1, <1>2, SlackInvariance, PTL DEF Spec

\* The adapters stay within their types: a webhook lists no more inline comments than its
\* review has, and only events are answered.
THEOREM AdaptersTypes == Spec => []TypeOK
<1>1. Init => Counted /\ Deployed
  BY GitHubAssumption DEF Init, GitHubInit, Counted, Deployed
<1>2. GitHubInv /\ Counted /\ Deployed /\ [Next]_vars
        => Counted' /\ Deployed'
  <2> SUFFICES ASSUME GitHubInv, Counted, Deployed, [Next]_vars
               PROVE  Counted' /\ Deployed'
    OBVIOUS
  <2>1. CASE GitHub
    <3>1. GitHubNext /\ enabled' = enabled
      BY <2>1 DEF GitHub
    <3> QED BY <3>1, CountedStep DEF Deployed
  <2>2. CASE UNCHANGED <<gitHubVars, enabled>>
    BY <2>2 DEF gitHubVars, Counted, Deployed
  <2> QED BY <2>1, <2>2 DEF Next, Slack, vars
<1>3. GitHubInv /\ Counted /\ SlackInv /\ Deployed => TypeOK
  <2> SUFFICES ASSUME GitHubInv, Counted, SlackInv, Deployed PROVE TypeOK
    OBVIOUS
  <2>1. \A h \in Hook : fetched[h] > 0 => fetched[h] <= Len(InlineOf[h.of])
    BY DEF GitHubInv, HookOK, Known, Counted
  <2>2. GitHubTypeOK
    BY <2>1 DEF GitHubInv, GitHubTypes, Counted, GitHubTypeOK, Events
  <2> QED BY <2>2 DEF SlackInv, TypeOK, Deployed
<1> QED BY <1>1, <1>2, <1>3, GitHubInvariance, SlackInvariance, PTL DEF Spec
=============================================================================

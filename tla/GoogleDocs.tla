----------------------------- MODULE GoogleDocs -----------------------------
(***************************************************************************)
(* The Google Docs adapter (internal/adapter/googledocs/googledocs.go):    *)
(* the watch it registers with Drive, the goroutine each push notification *)
(* starts, and the last-seen time per document that it keeps in the store. *)
(*                                                                         *)
(* Drive itself is external.  It keeps a log of changed documents, of      *)
(* which a page token is a position, and per comment thread who spoke last *)
(* and when.  A listing of comments comes page by page, while people go on *)
(* writing; the code takes it to name a comment thread at most once.  A    *)
(* request is a pair of a comment thread and the time at which a user      *)
(* asked something in it.                                                  *)
(***************************************************************************)
EXTENDS Naturals, Sequences, FiniteSets, FiniteSetsExt

CONSTANTS
  Doc,          \* shared documents
  Comment,      \* comment threads
  DocOf,        \* the document a comment thread is in
  Assigned,     \* comment threads that assign an action item to the bot
  Proc,         \* bound: notifications processed at the same time
  NoProc,       \* the owner of a free mutex
  MaxPages,     \* maxPaginationPages, of changes (one on a page) and of comments
  MinGap,       \* 1 if two writes never fall in the same millisecond, else 0
  Says,         \* bound: what users do in a thread, a part of Deeds
  MaxWrites,    \* bound: how often they do
  MaxFaults,    \* bound: calls of the adapter that return an error
  MaxRenewals,  \* bound: renewals of the watch
  MaxRestarts   \* bound: ends of the process

Deeds == {"mention", "plain", "empty", "resolve"}

ASSUME GoogleDocsAssumption ==
  /\ Doc # {} /\ IsFiniteSet(Comment)
  /\ DocOf \in [Comment -> Doc] /\ Assigned \subseteq Comment
  /\ NoProc \notin Proc
  /\ MaxPages \in Nat \ {0} /\ MinGap \in {0, 1} /\ Says \subseteq Deeds
  /\ {MaxWrites, MaxFaults, MaxRenewals, MaxRestarts} \subseteq Nat

VARIABLES
  log, now, mtime, last, resolved, asked,   \* Drive
  behind,                                   \* behind[p]: what the listing of p is past
  passed,                                   \* history: what listings may have gone past
  watch, due,                               \* the push channel, notifications on their way
  wpc, wtok, pageToken,                     \* watchRenewalLoop, and the token it shares
  lastSeen,                                 \* adapter_state in the store; 0 is "not found"
  lock,                                     \* docLocks
  gpc, tok, page, todo, doc, since, found,  \* processChanges goroutines
  handed, accepted, answered,               \* requests given to the router, with a task, replied to
  up, writes, faults, renewals, restarts

contentVars == <<log, now, mtime, last, resolved, asked>>
driveVars == <<contentVars, behind, passed>>
watchVars == <<wpc, wtok, pageToken>>
procVars == <<gpc, tok, page, todo, doc, since, found>>
requestVars == <<handed, accepted, answered>>
bounds == <<writes, faults, renewals, restarts>>
vars == <<driveVars, watch, due, watchVars, lastSeen, lock, procVars, requestVars, up, bounds>>

Request == Comment \X Nat
GoroutineStates ==
  {"idle", "token", "list", "store", "docs", "seen", "comments", "save", "handle", "ack", "task"}

TypeOK ==
  /\ log \in Seq(Doc) /\ now \in Nat /\ mtime \in [Comment -> Nat]
  /\ last \in [Comment -> {"nobody", "mention", "plain", "empty", "bot"}]
  /\ resolved \subseteq Comment /\ asked \in [Comment -> Nat]
  /\ behind \in [Proc -> SUBSET Comment] /\ passed \subseteq Comment
  /\ watch \in BOOLEAN /\ due \in Nat
  /\ wpc \in {"start", "store", "watch", "watching"} /\ wtok \in Nat /\ pageToken \in Nat
  /\ lastSeen \in [Doc -> Nat] /\ lock \in [Doc -> Proc \cup {NoProc}]
  /\ gpc \in [Proc -> GoroutineStates]
  /\ tok \in [Proc -> Nat] /\ page \in [Proc -> Nat] /\ since \in [Proc -> Nat]
  /\ todo \in [Proc -> SUBSET Doc] /\ doc \in [Proc -> Doc]
  /\ found \in [Proc -> SUBSET Request]
  /\ handed \subseteq Request /\ accepted \subseteq handed /\ answered \subseteq accepted
  /\ up \in BOOLEAN /\ writes \in Nat /\ faults \in Nat /\ renewals \in Nat /\ restarts \in Nat

NoGoroutines ==
  [gpc |-> [p \in Proc |-> "idle"], zero |-> [p \in Proc |-> 0],
   none |-> [p \in Proc |-> {}], doc |-> [p \in Proc |-> CHOOSE d \in Doc : TRUE],
   free |-> [d \in Doc |-> NoProc]]

Init ==
  /\ log = << >> /\ now = 1 /\ mtime = [c \in Comment |-> 0]
  /\ last = [c \in Comment |-> "nobody"] /\ resolved = {} /\ asked = [c \in Comment |-> 0]
  /\ behind = NoGoroutines.none /\ passed = {}
  /\ watch = FALSE /\ due = 0
  /\ wpc = "start" /\ wtok = 0 /\ pageToken = 0
  /\ lastSeen = [d \in Doc |-> 0] /\ lock = NoGoroutines.free
  /\ gpc = NoGoroutines.gpc /\ tok = NoGoroutines.zero /\ page = NoGoroutines.zero
  /\ since = NoGoroutines.zero /\ todo = NoGoroutines.none /\ found = NoGoroutines.none
  /\ doc = NoGoroutines.doc
  /\ handed = {} /\ accepted = {} /\ answered = {}
  /\ up = TRUE /\ writes = 0 /\ faults = 0 /\ renewals = 0 /\ restarts = 0

-----------------------------------------------------------------------------
(* Drive *)

\* The token of the end of the log.
EndToken == Len(log) + 1

\* The goroutine lists the comments of c's document and has pages to come.
Midway(p, c) == gpc[p] = "comments" /\ page[p] > 0 /\ doc[p] = DocOf[c]

\* Where a comment thread that is written in stands in a listing depends on the order
\* Drive lists them in: it may now be behind the page the listing is at, or come on a
\* later one; once listed it does not come again.
MovesInListings(c) ==
  /\ \E back \in BOOLEAN :
       behind' = [p \in Proc |-> behind[p] \cup IF back /\ Midway(p, c) THEN {c} ELSE {}]
  /\ passed' = IF \E p \in Proc : Midway(p, c) /\ c \in behind'[p]
               THEN passed \cup {c} ELSE passed \ {c}

\* Somebody writes in a comment thread: its modified time moves, the document
\* enters the log, and a watching channel is notified, with or without an earlier
\* notification that is still on its way.
Modify(c, who) ==
  /\ MovesInListings(c)
  /\ now' \in {now + MinGap, now + 1}
  /\ mtime' = [mtime EXCEPT ![c] = now']
  /\ last' = [last EXCEPT ![c] = who]
  /\ log' = Append(log, DocOf[c])
  /\ due' \in IF watch THEN {due + 1, IF due = 0 THEN 1 ELSE due} ELSE {due}

UserWrites(c, what) ==
  /\ writes < MaxWrites
  /\ Modify(c, what)
  /\ resolved' = resolved \ {c}
  /\ asked' = [asked EXCEPT ![c] = IF what = "mention" THEN mtime'[c] ELSE 0]
  /\ writes' = writes + 1
  /\ UNCHANGED <<watch, watchVars, lastSeen, lock, procVars, requestVars, up, faults, renewals, restarts>>

UserResolves(c) ==
  /\ writes < MaxWrites /\ last[c] # "nobody" /\ c \notin resolved
  /\ Modify(c, "empty")
  /\ resolved' = resolved \cup {c}
  /\ asked' = [asked EXCEPT ![c] = 0]
  /\ writes' = writes + 1
  /\ UNCHANGED <<watch, watchVars, lastSeen, lock, procVars, requestVars, up, faults, renewals, restarts>>

\* Replies.Create with action "reopen": what both Acknowledge and SendResponse do.
BotReplies(c) ==
  /\ Modify(c, "bot")
  /\ resolved' = resolved \ {c}
  /\ UNCHANGED asked

\* A call of the adapter that returns an error.
Errs == faults < MaxFaults /\ faults' = faults + 1

-----------------------------------------------------------------------------
(* watchRenewalLoop *)

\* GetStartPageToken returns the end of the log.
GetStartToken ==
  /\ up /\ wpc = "start"
  /\ wtok' = EndToken /\ wpc' = "store"
  /\ UNCHANGED <<driveVars, watch, due, pageToken, lastSeen, lock, procVars, requestVars, up, bounds>>

\* It replaces whatever token was there.
StoreStartToken ==
  /\ up /\ wpc = "store"
  /\ pageToken' = wtok /\ wpc' = "watch"
  /\ UNCHANGED <<driveVars, watch, due, wtok, lastSeen, lock, procVars, requestVars, up, bounds>>

\* Variant with a fault: an error ends the loop.
WatchOnce ==
  /\ up /\ wpc = "watch"
  /\ \/ watch' = TRUE /\ wpc' = "watching" /\ UNCHANGED faults
     \/ Errs /\ wpc' = "stopped" /\ UNCHANGED watch
  /\ UNCHANGED <<driveVars, due, wtok, pageToken, lastSeen, lock, procVars, requestVars, up,
                 writes, renewals, restarts>>

\* Changes.Watch from that token; after an error registerWatch starts over.
Watch ==
  /\ up /\ wpc = "watch"
  /\ \/ /\ watch' = TRUE /\ wpc' = "watching" /\ UNCHANGED faults
        /\ due' = IF EndToken > wtok /\ due = 0 THEN 1 ELSE due
     \/ Errs /\ wpc' = "start" /\ UNCHANGED <<watch, due>>
  /\ UNCHANGED <<driveVars, wtok, pageToken, lastSeen, lock, procVars, requestVars, up,
                 writes, renewals, restarts>>

\* Before the channel expires it is stopped and a new one is registered.
Renew ==
  /\ up /\ wpc = "watching" /\ renewals < MaxRenewals
  /\ watch' = FALSE /\ wpc' = "start" /\ renewals' = renewals + 1
  /\ UNCHANGED <<driveVars, due, wtok, pageToken, lastSeen, lock, procVars, requestVars, up,
                 writes, faults, restarts>>

-----------------------------------------------------------------------------
(* handleNotification and processChanges *)

Goto(p, s) == gpc' = [gpc EXCEPT ![p] = s]

\* The check of a document returns: docMu.Unlock, and on to the next document.
NextDoc(p) ==
  /\ Goto(p, "docs")
  /\ lock' = [lock EXCEPT ![doc[p]] = NoProc]
  /\ since' = [since EXCEPT ![p] = 0]
  /\ found' = [found EXCEPT ![p] = {}]

\* A notification is answered at once and its work is left to a goroutine.
HandleNotification(p) ==
  /\ up /\ gpc[p] = "idle" /\ due > 0
  /\ due' = due - 1 /\ Goto(p, "token")
  /\ UNCHANGED <<driveVars, watch, watchVars, lastSeen, lock, tok, page, todo, doc, since, found,
                 requestVars, up, bounds>>

ReadToken(p) ==
  /\ gpc[p] = "token"
  /\ Goto(p, IF pageToken = 0 THEN "idle" ELSE "list")
  /\ tok' = [tok EXCEPT ![p] = pageToken]
  /\ page' = [page EXCEPT ![p] = 0]
  /\ todo' = [todo EXCEPT ![p] = {}]
  /\ UNCHANGED <<driveVars, watch, due, watchVars, lastSeen, lock, doc, since, found,
                 requestVars, up, bounds>>

\* One page of Changes.List: the change at the token, if there is one.  The last
\* page comes with the token of the end of the log.
ListChanges(p) ==
  /\ gpc[p] = "list"
  /\ \/ /\ UNCHANGED faults
        /\ todo' = [todo EXCEPT ![p] = @ \cup {log[i] : i \in DOMAIN log \cap {tok[p]}}]
        /\ tok' = [tok EXCEPT ![p] = IF @ < EndToken THEN @ + 1 ELSE EndToken]
        /\ page' = [page EXCEPT ![p] = @ + 1]
        /\ Goto(p, IF tok'[p] = EndToken \/ page'[p] = MaxPages THEN "store" ELSE "list")
     \/ Errs /\ Goto(p, "idle") /\ UNCHANGED <<todo, tok, page>>
  /\ UNCHANGED <<driveVars, watch, due, watchVars, lastSeen, lock, doc, since, found,
                 requestVars, up, writes, renewals, restarts>>

\* Variant with a fault: the token of the current end of the log goes back.
StoreEndToken(p) ==
  /\ gpc[p] = "store"
  /\ pageToken' = EndToken /\ Goto(p, "docs") /\ page' = [page EXCEPT ![p] = 0]
  /\ UNCHANGED <<driveVars, watch, due, wpc, wtok, lastSeen, lock, tok, todo, doc, since, found,
                 requestVars, up, bounds>>

\* The token goes back, whatever another goroutine or the watch put there.
StoreToken(p) ==
  /\ gpc[p] = "store"
  /\ pageToken' = tok[p] /\ Goto(p, "docs") /\ page' = [page EXCEPT ![p] = 0]
  /\ UNCHANGED <<driveVars, watch, due, wpc, wtok, lastSeen, lock, tok, todo, doc, since, found,
                 requestVars, up, bounds>>

\* Variant with a fault: no mutex.
LockNothing(p, d) ==
  /\ gpc[p] = "docs" /\ d \in todo[p]
  /\ todo' = [todo EXCEPT ![p] = @ \ {d}]
  /\ doc' = [doc EXCEPT ![p] = d]
  /\ Goto(p, "seen")
  /\ UNCHANGED <<driveVars, watch, due, watchVars, lastSeen, lock, tok, page, since, found,
                 requestVars, up, bounds>>

\* The documents are checked one after the other, each under its mutex; in which
\* order does not matter.
LockDoc(p, d) ==
  /\ gpc[p] = "docs" /\ d \in todo[p] /\ lock[d] = NoProc
  /\ lock' = [lock EXCEPT ![d] = p]
  /\ todo' = [todo EXCEPT ![p] = @ \ {d}]
  /\ doc' = [doc EXCEPT ![p] = d]
  /\ Goto(p, "seen")
  /\ UNCHANGED <<driveVars, watch, due, watchVars, lastSeen, tok, page, since, found,
                 requestVars, up, bounds>>

ChangesDone(p) ==
  /\ gpc[p] = "docs" /\ todo[p] = {}
  /\ Goto(p, "idle")
  /\ tok' = [tok EXCEPT ![p] = 0]
  /\ UNCHANGED <<driveVars, watch, due, watchVars, lastSeen, lock, page, todo, doc, since, found,
                 requestVars, up, bounds>>

-----------------------------------------------------------------------------
(* checkDocumentComments *)

GetLastSeen(p) ==
  /\ gpc[p] = "seen"
  /\ \/ /\ since' = [since EXCEPT ![p] = lastSeen[doc[p]]]
        /\ Goto(p, "comments") /\ UNCHANGED <<lock, found, faults>>
     \/ Errs /\ NextDoc(p)
  /\ UNCHANGED <<driveVars, watch, due, watchVars, lastSeen, tok, page, todo, doc,
                 requestVars, up, writes, renewals, restarts>>

\* Unresolved, not answered by the bot already, not empty, and either the last
\* reply mentions the bot or the thread assigns it an action item.
IsRelevantComment(c) ==
  /\ c \notin resolved
  /\ last[c] = "mention" \/ (last[c] = "plain" /\ c \in Assigned)

\* What the listing has still to name: it starts at the last-seen time.
Rest(p) ==
  {c \in Comment \ behind[p] : DocOf[c] = doc[p] /\ last[c] # "nobody" /\ mtime[c] >= since[p]}

\* What is relevant on a page, as it is when the page is made.
OnPage(P) == {<<c, mtime[c]>> : c \in {x \in P : IsRelevantComment(x)}}

\* The page comes with a token for the next one.  Nothing but the count changes with an
\* empty page: these are left to the end of a listing that is cut.
NextPage(p, P) ==
  /\ P # {} /\ P # Rest(p) /\ page[p] + 1 < MaxPages
  /\ found' = [found EXCEPT ![p] = @ \cup OnPage(P)]
  /\ behind' = [behind EXCEPT ![p] = @ \cup P]
  /\ page' = [page EXCEPT ![p] = @ + 1]
  /\ UNCHANGED <<gpc, lock, since, passed>>

\* Variant with a fault: the last page replaces the earlier ones.
LastPageOnly(p, P) ==
  /\ P = Rest(p) \/ page[p] + 1 = MaxPages
  /\ \/ OnPage(P) = {} /\ NextDoc(p)
     \/ /\ OnPage(P) # {} /\ Goto(p, "save") /\ UNCHANGED <<lock, since>>
        /\ found' = [found EXCEPT ![p] = OnPage(P)]
  /\ passed' = passed \cup (Rest(p) \ P)
  /\ behind' = [behind EXCEPT ![p] = {}]
  /\ page' = [page EXCEPT ![p] = 0]

\* The last page, or as many as are fetched at most: what is on none of them is left.
\* The fetches that follow, of the document's text and of all its comments, only
\* log their errors.
LastPage(p, P) ==
  /\ P = Rest(p) \/ page[p] + 1 = MaxPages
  /\ LET F == found[p] \cup OnPage(P)
     IN  \/ F = {} /\ NextDoc(p)
         \/ /\ F # {} /\ Goto(p, "save") /\ UNCHANGED <<lock, since>>
            /\ found' = [found EXCEPT ![p] = F]
  /\ passed' = passed \cup (Rest(p) \ P)
  /\ behind' = [behind EXCEPT ![p] = {}]
  /\ page' = [page EXCEPT ![p] = 0]

\* One request of the loop over Comments.List, and the filter.
ListComments(p) ==
  /\ gpc[p] = "comments"
  /\ \/ UNCHANGED faults /\ \E P \in SUBSET Rest(p) : NextPage(p, P) \/ LastPage(p, P)
     \/ /\ Errs /\ NextDoc(p)
        /\ behind' = [behind EXCEPT ![p] = {}] /\ page' = [page EXCEPT ![p] = 0]
        /\ UNCHANGED passed
  /\ UNCHANGED <<contentVars, watch, due, watchVars, lastSeen, tok, todo, doc,
                 requestVars, up, writes, renewals, restarts>>

\* Variant with a fault: the time of the check.
LastSeenNow(p) == now + 1

\* One millisecond after the latest of the relevant comments.
NewLastSeen(p) == Max({r[2] : r \in found[p]}) + 1

\* The last-seen time is stored before the events are handed over; an error is
\* logged.
SaveLastSeen(p) ==
  /\ gpc[p] = "save"
  /\ LET Saved == lastSeen' = [lastSeen EXCEPT ![doc[p]] = NewLastSeen(p)]
     IN  \/ Saved /\ UNCHANGED faults
         \/ Errs /\ (Saved \/ UNCHANGED lastSeen)
  /\ Goto(p, "handle")
  /\ UNCHANGED <<driveVars, watch, due, watchVars, lock, tok, page, todo, doc, since, found,
                 requestVars, up, writes, renewals, restarts>>

\* The router is called with one event per comment, each with a thread key of its
\* own: it refuses a batch of more than one for mixing threads.
HandleEvents(p) ==
  /\ gpc[p] = "handle"
  /\ handed' = handed \cup found[p]
  /\ IF Cardinality(found[p]) > 1 THEN NextDoc(p)
     ELSE Goto(p, "ack") /\ UNCHANGED <<lock, since, found>>
  /\ UNCHANGED <<driveVars, watch, due, watchVars, lastSeen, tok, page, todo, doc,
                 accepted, answered, up, bounds>>

\* The router acknowledges the event with a reply; an error is logged.
Acknowledge(p) ==
  /\ gpc[p] = "ack"
  /\ \/ \E r \in found[p] : BotReplies(r[1]) /\ UNCHANGED faults
     \/ Errs /\ UNCHANGED <<driveVars, due>>
  /\ Goto(p, "task")
  /\ UNCHANGED <<watch, watchVars, lastSeen, lock, tok, page, todo, doc, since, found,
                 requestVars, up, writes, renewals, restarts>>

\* It stores the thread, the message and the task, or fails (see Router).
CreateTask(p) ==
  /\ gpc[p] = "task"
  /\ \/ accepted' = accepted \cup found[p] /\ UNCHANGED faults
     \/ Errs /\ UNCHANGED accepted
  /\ NextDoc(p)
  /\ UNCHANGED <<driveVars, watch, due, watchVars, lastSeen, tok, page, todo, doc,
                 handed, answered, up, writes, renewals, restarts>>

\* Some time later a worker replies to a task, or fails to.
SendResponse(r) ==
  /\ up /\ r \in accepted \ answered
  /\ \/ BotReplies(r[1]) /\ UNCHANGED faults
     \/ Errs /\ UNCHANGED <<driveVars, due>>
  /\ answered' = answered \cup {r}
  /\ UNCHANGED <<watch, watchVars, lastSeen, lock, procVars, handed, accepted, up,
                 writes, renewals, restarts>>

-----------------------------------------------------------------------------
(* The process *)

\* The process ends: its goroutines and its token are gone, its channel is stopped
\* or speaks to nobody.
ProcessEnds ==
  /\ up /\ restarts < MaxRestarts
  /\ up' = FALSE /\ restarts' = restarts + 1
  /\ watch' = FALSE /\ due' = 0 /\ pageToken' = 0 /\ wtok' = 0 /\ wpc' = "start"
  /\ lock' = NoGoroutines.free
  /\ gpc' = NoGoroutines.gpc /\ tok' = NoGoroutines.zero /\ page' = NoGoroutines.zero
  /\ since' = NoGoroutines.zero /\ todo' = NoGoroutines.none /\ found' = NoGoroutines.none
  /\ doc' = NoGoroutines.doc /\ behind' = NoGoroutines.none
  /\ UNCHANGED <<contentVars, passed, lastSeen, requestVars, writes, faults, renewals>>

\* Start, in a new process.
Start ==
  /\ ~up /\ up' = TRUE
  /\ UNCHANGED <<driveVars, watch, due, watchVars, lastSeen, lock, procVars, requestVars, bounds>>

User ==
  \E c \in Comment : \/ "resolve" \in Says /\ UserResolves(c)
                     \/ \E what \in Says \ {"resolve"} : UserWrites(c, what)

WatchLoop == GetStartToken \/ StoreStartToken \/ Watch

Goroutine(p) ==
  \/ ReadToken(p) \/ ListChanges(p) \/ StoreToken(p) \/ ChangesDone(p)
  \/ \E d \in Doc : LockDoc(p, d)
  \/ GetLastSeen(p) \/ ListComments(p) \/ SaveLastSeen(p)
  \/ HandleEvents(p) \/ Acknowledge(p) \/ CreateTask(p)

Next ==
  \/ User \/ WatchLoop \/ Renew \/ ProcessEnds \/ Start
  \/ \E p \in Proc : HandleNotification(p) \/ Goroutine(p)
  \/ \E r \in accepted : SendResponse(r)

Spec == Init /\ [][Next]_vars

(***************************************************************************)
(* The loop and the goroutines keep running, Drive delivers its            *)
(* notifications and an ended process is started again.  Nothing is        *)
(* assumed of the users or of the workers.                                 *)
(***************************************************************************)
Fairness ==
  /\ WF_vars(WatchLoop) /\ WF_vars(Start)
  /\ WF_vars(\E p \in Proc : HandleNotification(p))
  /\ \A p \in Proc : WF_vars(Goroutine(p))

FairSpec == Spec /\ Fairness

-----------------------------------------------------------------------------
\* A request gets at most one task, across notifications handled at the same
\* time, restarts and one failing call: the mutex of the document, the last-seen
\* time and the bot's own reply in the thread see to it together.
AcceptedOnce == \A p \in Proc : gpc[p] = "task" => found[p] \cap accepted = {}

\* The last-seen time has passed a relevant comment that was not handed over, nor is
\* about to be by the goroutine that has the document's mutex.
Skipped(c) ==
  /\ IsRelevantComment(c) /\ mtime[c] < lastSeen[DocOf[c]]
  /\ <<c, mtime[c]>> \notin handed
  /\ \A p \in Proc : gpc[p] = "handle" /\ lock[DocOf[c]] = p => <<c, mtime[c]>> \notin found[p]

\* Whatever users write between listing the comments and storing the time, no relevant
\* comment is skipped, unless it was written in between two pages of a listing or
\* was on none of the pages fetched, or a goroutine died with its process.
NotSkipped == restarts = 0 => \A c \in Comment : Skipped(c) => c \in passed

\* The document has changed since the watch was registered.
Watched(c) == wpc # "start" /\ \E i \in DOMAIN log : i >= wtok /\ log[i] = DocOf[c]

\* "On each push notification, the adapter fetches comments for that specific
\* document": a relevant comment of a document that changes while it is watched is
\* handed to the router, unless it stops being relevant first or a listing of several
\* pages went past it, although goroutines that overtake each other move the shared
\* page token back and forth.
WatchedRequestsAreHanded ==
  \A c \in Comment :
    IsRelevantComment(c) /\ Watched(c)
      ~> (~IsRelevantComment(c) \/ <<c, mtime[c]>> \in handed \/ c \in passed)

-----------------------------------------------------------------------------
(* What the documentation claims: TLC finds behaviours of the code that break   *)
(* each of these.                                                              *)

\* "On each push notification, the adapter fetches comments for that specific document
\* [...], filtered to comments modified since the last check": no relevant comment is
\* skipped, in listings of several pages either.
ModifiedIsFetched == restarts = 0 => \A c \in Comment : ~Skipped(c)

\* "After a restart, the adapter picks up where it left off": a relevant comment
\* that is there while the process is down is handed to the router, unless it
\* stops being relevant first.
DowntimeRequestsAreHanded ==
  \A c \in Comment :
    IsRelevantComment(c) /\ ~up ~> (~IsRelevantComment(c) \/ <<c, mtime[c]>> \in handed)

\* "any comments posted during downtime are processed as a batch": what was
\* handed over while no call failed is a task, once its goroutine is done.
HandedIsAccepted ==
  faults = 0 /\ restarts = 0 =>
    \A r \in handed \ accepted : \E p \in Proc : gpc[p] \in {"ack", "task"} /\ r \in found[p]

\* "@mention the bot's service account email in a document comment. The bot
\* replies in the same comment thread": the bot does not reply after a mention
\* that has not been handed over, which would hide the mention for good.
NoMentionTalkedOver ==
  \A c \in Comment : last[c] = "bot" /\ asked[c] # 0 => <<c, asked[c]>> \in handed
=============================================================================

-------------------------- MODULE GoogleDocsProofs --------------------------
(***************************************************************************)
(* Proofs about the Google Docs adapter, for any documents, comment        *)
(* threads, goroutines, writes, renewals and restarts: the last-seen time  *)
(* never goes back and passes no request that was not handed over, except  *)
(* behind the pages of a listing, no request gets two tasks, and while     *)
(* nothing fails none is forgotten by goroutines that overtake each other. *)
(***************************************************************************)
EXTENDS GoogleDocs, TLAPS, FiniteSetTheorems, WellFoundedInduction

\* Where a goroutine has the mutex of its document, and where it may have found something.
Checking == {"seen", "comments", "save", "handle", "ack", "task"}
Holding == {"comments", "save", "handle", "ack", "task"}

\* Nothing is later than now, and a last-seen time is at most one millisecond ahead.
TimesInv ==
  /\ \A c \in Comment : mtime[c] <= now
  /\ \A d \in Doc : lastSeen[d] <= now + 1
  /\ \A p \in Proc : \A r \in found[p] : r[2] <= now

\* The mutex of a document is its checker's.
LockOK(p) == gpc[p] \in Checking => lock[doc[p]] = p
LockInv == \A p \in Proc : LockOK(p)

\* What a listing is past is of the document that is listed.
CursorOK(p) == \A c \in behind[p] : Midway(p, c)
CursorInv == \A p \in Proc : CursorOK(p)

\* What a goroutine has found is of its document, and not older than the last-seen time,
\* which nobody else moves before it does.
FoundOK(p) ==
  /\ gpc[p] \notin Holding => found[p] = {}
  /\ gpc[p] \in {"comments", "save"} =>
       since[p] = lastSeen[doc[p]] /\ \A r \in found[p] : r[2] >= since[p]
  /\ gpc[p] = "save" => found[p] # {}
  /\ gpc[p] \in Holding => \A r \in found[p] : DocOf[r[1]] = doc[p]
  /\ gpc[p] \in {"ack", "task"} => found[p] \subseteq handed /\ \A r, s \in found[p] : r = s

FoundInv == \A p \in Proc : FoundOK(p)

BaseInv == TypeOK /\ TimesInv /\ LockInv /\ CursorInv /\ FoundInv

\* A relevant comment that a listing is past was found, or was written in when the listing
\* was past it.  Before the last-seen time is stored, a relevant comment that is not older
\* than it was found, was passed, or was written after all that was found.
Listed(p) ==
  /\ gpc[p] = "comments" =>
       \A c \in behind[p] : IsRelevantComment(c) /\ mtime[c] >= since[p] =>
         <<c, mtime[c]>> \in found[p] \/ c \in passed
  /\ gpc[p] = "save" =>
       \A c \in Comment : DocOf[c] = doc[p] /\ IsRelevantComment(c) /\ mtime[c] >= since[p] =>
         \/ <<c, mtime[c]>> \in found[p] \/ c \in passed
         \/ \A r \in found[p] : mtime[c] > r[2]

ListedInv == \A p \in Proc : Listed(p)

SkipInv == ListedInv /\ NotSkipped

\* The request cannot be found again: the last-seen time or its thread has moved on.
Over(r) == lastSeen[DocOf[r[1]]] > r[2] \/ mtime[r[1]] > r[2]

\* What is found is no task yet, and does not become a second one.
OnceOK(p) ==
  /\ gpc[p] \in Holding => found[p] \cap accepted = {}
  /\ gpc[p] \in {"handle", "ack"} => faults >= 1 \/ \A r \in found[p] : lastSeen[doc[p]] > r[2]
  /\ gpc[p] = "task" => \A r \in found[p] : Over(r)

OnceInv == (\A r \in accepted : Over(r)) /\ (\A p \in Proc : OnceOK(p))

-----------------------------------------------------------------------------
(* Lemmas *)

\* A set of numbers with a bound has a greatest one, and that is its Max.
LEMMA MaxOfBounded ==
  ASSUME NEW T \in SUBSET Nat, T # {}, NEW n \in Nat, \A t \in T : t <= n
  PROVE  Max(T) \in T /\ \A t \in T : Max(T) >= t
<1> DEFINE D == {n - t : t \in T}
<1>1. /\ \A t \in T : n - t \in Nat
      /\ D \subseteq Nat /\ D # {}
  <2>1. \A t \in T : t \in Nat /\ n - t \in Nat
    OBVIOUS
  <2> QED BY <2>1
<1>2. PICK d \in D : \A e \in D : ~(<<e, d>> \in OpToRel(<, Nat))
  <2> HIDE DEF D
  <2> QED BY <1>1, NatLessThanWellFounded, WFMin
<1>3. \A e \in D : ~(e < d)
  BY <1>1, <1>2 DEF OpToRel
<1>4. PICK t \in T : d = n - t
  OBVIOUS
<1>5. ASSUME NEW u \in T PROVE t >= u
  <2>1. n - u \in D
    OBVIOUS
  <2>2. ~(n - u < n - t)
    BY <1>3, <1>4, <2>1
  <2> QED BY <2>2
<1> QED BY <1>5 DEF Max

\* What is stored is one more than the time of a request that was found, and none that
\* was found is later.
LEMMA NewLastSeenFacts ==
  ASSUME TypeOK, TimesInv, NEW p \in Proc, found[p] # {}
  PROVE  /\ NewLastSeen(p) \in Nat
         /\ \E r \in found[p] : NewLastSeen(p) = r[2] + 1
         /\ \A r \in found[p] : r[2] < NewLastSeen(p)
<1> DEFINE T == {r[2] : r \in found[p]}
<1>1. found[p] \subseteq Comment \X Nat /\ now \in Nat
  BY DEF TypeOK, Request
<1>2. T \in SUBSET Nat /\ T # {} /\ \A t \in T : t <= now
  BY <1>1 DEF TimesInv
<1>3. Max(T) \in T /\ \A t \in T : Max(T) >= t
  <2> HIDE DEF T
  <2> QED BY <1>1, <1>2, MaxOfBounded
<1>4. Max(T) \in Nat /\ \A r \in found[p] : r[2] \in T /\ r[2] \in Nat
  BY <1>1, <1>2, <1>3
<1>5. PICK r \in found[p] : Max(T) = r[2]
  BY <1>3
<1>6. NewLastSeen(p) = Max(T) + 1
  BY DEF NewLastSeen
<1> HIDE DEF T
<1>7. \A q \in found[p] : q[2] < Max(T) + 1
  BY <1>3, <1>4
<1> QED BY <1>4, <1>5, <1>6, <1>7

\* What a goroutine has found is a finite set, since nothing in it is later than now.
LEMMA FoundIsFinite ==
  ASSUME TypeOK, TimesInv, NEW p \in Proc
  PROVE  IsFiniteSet(found[p])
<1>1. found[p] \in SUBSET (Comment \X (0..now)) /\ now \in Nat
  BY DEF TypeOK, TimesInv, Request
<1>2. IsFiniteSet(Comment) /\ IsFiniteSet(0..now)
  BY <1>1, FS_Interval, GoogleDocsAssumption
<1> QED BY <1>1, <1>2, FS_Product, FS_Subset

\* A batch that is not refused has one request.
LEMMA OneFound ==
  ASSUME TypeOK, TimesInv, NEW p \in Proc, ~(Cardinality(found[p]) > 1)
  PROVE  \A r, s \in found[p] : r = s
<1>1. IsFiniteSet(found[p])
  BY FoundIsFinite
<1>2. Cardinality(found[p]) \in Nat
  BY <1>1, FS_CardinalityType
<1>3. Cardinality(found[p]) = 0 \/ Cardinality(found[p]) = 1
  BY <1>2
<1> QED BY <1>1, <1>3, FS_EmptySet, FS_Singleton

-----------------------------------------------------------------------------
(* Types *)

Flags == watch \in BOOLEAN /\ up \in BOOLEAN
DriveTypes ==
  /\ log \in Seq(Doc) /\ now \in Nat /\ mtime \in [Comment -> Nat] /\ due \in Nat
  /\ last \in [Comment -> {"nobody", "mention", "plain", "empty", "bot"}]
  /\ resolved \subseteq Comment /\ asked \in [Comment -> Nat]
  /\ behind \in [Proc -> SUBSET Comment] /\ passed \subseteq Comment
WatchTypes ==
  wpc \in {"start", "store", "watch", "watching"} /\ wtok \in Nat /\ pageToken \in Nat
SeenTypes == lastSeen \in [Doc -> Nat] /\ lock \in [Doc -> Proc \cup {NoProc}]
ProcTypes ==
  /\ gpc \in [Proc -> GoroutineStates]
  /\ tok \in [Proc -> Nat] /\ page \in [Proc -> Nat] /\ since \in [Proc -> Nat]
  /\ todo \in [Proc -> SUBSET Doc] /\ doc \in [Proc -> Doc]
FoundTypes == found \in [Proc -> SUBSET Request]
RequestTypes == handed \subseteq Request /\ accepted \subseteq handed /\ answered \subseteq accepted
BoundTypes == writes \in Nat /\ faults \in Nat /\ renewals \in Nat /\ restarts \in Nat

Types ==
  /\ Flags /\ DriveTypes /\ WatchTypes /\ SeenTypes
  /\ ProcTypes /\ FoundTypes /\ RequestTypes /\ BoundTypes

\* TypeOK is the types of its parts, before a step and after it.
LEMMA TypeParts == (TypeOK <=> Types) /\ (TypeOK' <=> Types')
BY Zenon DEF TypeOK, Types, Flags, DriveTypes, WatchTypes, SeenTypes, ProcTypes, FoundTypes,
   RequestTypes, BoundTypes

\* A write in a comment thread moves nothing but that thread in the listings; when a listing
\* is now past it, it is noted.
LEMMA MoveFacts ==
  ASSUME DriveTypes, NEW c \in Comment, MovesInListings(c)
  PROVE  /\ behind' \in [Proc -> SUBSET Comment] /\ passed' \subseteq Comment
         /\ \A p \in Proc : \A b \in Comment \ {c} : b \in behind'[p] <=> b \in behind[p]
         /\ \A p \in Proc : c \in behind'[p] => c \in behind[p] \/ Midway(p, c)
         /\ \A p \in Proc : c \in behind'[p] /\ Midway(p, c) => c \in passed'
         /\ \A b \in Comment \ {c} : b \in passed' <=> b \in passed
<1>1. PICK back \in BOOLEAN :
        behind' = [p \in Proc |-> behind[p] \cup IF back /\ Midway(p, c) THEN {c} ELSE {}]
  BY DEF MovesInListings
<1>2. behind' \in [Proc -> SUBSET Comment]
  BY <1>1 DEF DriveTypes
<1>3. passed' = IF \E p \in Proc : Midway(p, c) /\ c \in behind'[p]
                THEN passed \cup {c} ELSE passed \ {c}
  BY DEF MovesInListings
<1> QED BY <1>1, <1>2, <1>3 DEF DriveTypes

\* A write in a comment thread keeps the types of what Drive has.
LEMMA ModifyFacts ==
  ASSUME DriveTypes, NEW c \in Comment, NEW who, Modify(c, who)
  PROVE  /\ log' \in Seq(Doc) /\ due' \in Nat
         /\ now' \in Nat /\ now <= now' /\ (MinGap = 1 => now < now')
         /\ mtime' \in [Comment -> Nat] /\ mtime'[c] = now'
         /\ \A b \in Comment : b # c => mtime'[b] = mtime[b] /\ last'[b] = last[b]
         /\ last'[c] = who
         /\ who \in {"nobody", "mention", "plain", "empty", "bot"} =>
              last' \in [Comment -> {"nobody", "mention", "plain", "empty", "bot"}]
         /\ behind' \in [Proc -> SUBSET Comment] /\ passed' \subseteq Comment
<1>6. behind' \in [Proc -> SUBSET Comment] /\ passed' \subseteq Comment
  BY MoveFacts DEF Modify
<1> USE DEF DriveTypes, Modify
<1>1. now' \in Nat /\ now <= now' /\ (MinGap = 1 => now < now')
  BY GoogleDocsAssumption
<1>2. DocOf[c] \in Doc
  BY GoogleDocsAssumption
<1>3. log' \in Seq(Doc)
  BY <1>2
<1>4. due' \in Nat
  <2>1. due' \in {due + 1, 1, due}
    BY Zenon
  <2> QED BY <2>1
<1> QED BY <1>1, <1>3, <1>4, <1>6

\* The first state has the types.
LEMMA InitTypes == Init => TypeOK
<1> SUFFICES ASSUME Init PROVE Types
  BY TypeParts
<1>1. Flags
  BY Zenon DEF Init, Flags
<1>2. DriveTypes /\ WatchTypes /\ RequestTypes /\ BoundTypes
  BY DEF Init, NoGoroutines, DriveTypes, WatchTypes, RequestTypes, BoundTypes
<1>3. SeenTypes /\ ProcTypes /\ FoundTypes
  BY GoogleDocsAssumption
  DEF Init, NoGoroutines, SeenTypes, ProcTypes, FoundTypes, GoroutineStates
<1> QED BY <1>1, <1>2, <1>3 DEF Types

\* The actions of the users and of the watch.
LEMMA OutsideTypes ==
  ASSUME Types, User \/ WatchLoop \/ Renew \/ Start
  PROVE  Types'
<1> USE DEF contentVars, driveVars, watchVars, procVars, requestVars, bounds
<1>1. Flags'
  BY Zenon DEF Types, Flags, User, UserWrites, UserResolves, WatchLoop, GetStartToken,
     StoreStartToken, Watch, Renew, Start
<1>2. SeenTypes' /\ ProcTypes' /\ FoundTypes' /\ RequestTypes'
  <2>1. UNCHANGED <<lastSeen, lock, procVars, requestVars>>
    BY Zenon DEF User, UserWrites, UserResolves, WatchLoop, GetStartToken, StoreStartToken,
       Watch, Renew, Start
  <2> QED BY <2>1 DEF Types, SeenTypes, ProcTypes, FoundTypes, RequestTypes
<1>3. CASE User
  <2> SUFFICES ASSUME NEW c \in Comment, NEW what \in {"mention", "plain", "empty"},
                      UserResolves(c) \/ UserWrites(c, what)
               PROVE  Types'
    BY <1>3, GoogleDocsAssumption DEF User, Deeds
  <2>1. PICK who \in {"mention", "plain", "empty"} : Modify(c, who)
    BY DEF UserResolves, UserWrites
  <2>2. resolved' \subseteq Comment /\ asked' \in [Comment -> Nat]
    <3>1. mtime'[c] \in Nat
      BY <2>1, ModifyFacts DEF Types
    <3>2. asked' \in {[asked EXCEPT ![c] = 0], [asked EXCEPT ![c] = mtime'[c]]}
      BY DEF UserResolves, UserWrites
    <3> QED BY <3>1, <3>2 DEF Types, DriveTypes, UserResolves, UserWrites
  <2>3. DriveTypes'
    BY <2>1, <2>2, ModifyFacts DEF Types, DriveTypes
  <2>4. WatchTypes' /\ BoundTypes'
    BY DEF Types, WatchTypes, BoundTypes, UserResolves, UserWrites
  <2> QED BY <1>1, <1>2, <2>3, <2>4 DEF Types
<1>4. CASE WatchLoop
  <2>1. EndToken \in Nat
    BY DEF EndToken, Types, DriveTypes
  <2>2. due' \in {0, 1, due} /\ UNCHANGED driveVars
    BY <1>4 DEF WatchLoop, GetStartToken, StoreStartToken, Watch
  <2>3. WatchTypes' /\ BoundTypes'
    BY <1>4, <2>1 DEF Types, WatchTypes, BoundTypes, WatchLoop, GetStartToken, StoreStartToken,
       Watch, Errs
  <2> QED BY <1>1, <1>2, <2>2, <2>3 DEF Types, DriveTypes
<1>5. CASE Renew \/ Start
  BY <1>1, <1>2, <1>5 DEF Types, DriveTypes, WatchTypes, BoundTypes, Renew, Start
<1> QED BY <1>3, <1>4, <1>5

\* The end of the process.
LEMMA EndTypes ==
  ASSUME Types, ProcessEnds
  PROVE  Types'
<1> USE DEF contentVars, driveVars, watchVars, procVars, requestVars, bounds
<1>1. Flags'
  BY Zenon DEF ProcessEnds, Flags
<1>2. DriveTypes' /\ WatchTypes' /\ RequestTypes' /\ BoundTypes'
  BY DEF Types, ProcessEnds, NoGoroutines, DriveTypes, WatchTypes, RequestTypes, BoundTypes
<1>3. SeenTypes' /\ ProcTypes' /\ FoundTypes'
  BY GoogleDocsAssumption
  DEF Types, ProcessEnds, NoGoroutines, SeenTypes, ProcTypes, FoundTypes, GoroutineStates
<1> QED BY <1>1, <1>2, <1>3 DEF Types

\* The bot's reply in a thread, or its failure.
LEMMA ReplyTypes ==
  ASSUME Types, NEW r \in Request,
         (BotReplies(r[1]) /\ UNCHANGED faults) \/ (Errs /\ UNCHANGED <<driveVars, due>>),
         UNCHANGED <<writes, renewals, restarts>>
  PROVE  DriveTypes' /\ BoundTypes'
<1>1. r[1] \in Comment
  BY DEF Request
<1>2. BoundTypes'
  BY DEF Types, BoundTypes, Errs
<1>3. CASE BotReplies(r[1])
  BY <1>1, <1>2, <1>3, ModifyFacts DEF Types, DriveTypes, BotReplies
<1>4. CASE UNCHANGED <<driveVars, due>>
  BY <1>2, <1>4 DEF Types, DriveTypes, contentVars, driveVars
<1> QED BY <1>3, <1>4

\* The check of a document returns.
LEMMA NextDocTypes ==
  ASSUME Types, NEW p \in Proc, NextDoc(p)
  PROVE  /\ lock' \in [Doc -> Proc \cup {NoProc}] /\ since' \in [Proc -> Nat]
         /\ gpc' \in [Proc -> GoroutineStates] /\ FoundTypes'
BY DEF Types, SeenTypes, ProcTypes, FoundTypes, NextDoc, Goto, GoroutineStates

\* What a page has is of the document, not older than where the listing starts, and as it is.
LEMMA PageFacts ==
  ASSUME Types, NEW p \in Proc, NEW P \in SUBSET Rest(p)
  PROVE  /\ OnPage(P) \subseteq Request
         /\ \A r \in OnPage(P) : /\ r[1] \in P /\ r[2] = mtime[r[1]] /\ DocOf[r[1]] = doc[p]
                                 /\ r[2] >= since[p] /\ r[2] \in Nat
         /\ \A c \in P : IsRelevantComment(c) => <<c, mtime[c]>> \in OnPage(P)
<1>1. P \subseteq Comment /\ \A c \in P : DocOf[c] = doc[p] /\ mtime[c] >= since[p]
  BY DEF Rest
<1>2. mtime \in [Comment -> Nat]
  BY DEF Types, DriveTypes
<1> QED BY <1>1, <1>2 DEF OnPage, Request

\* A request of a listing: it returns the check, adds a page to what was found, or adds the
\* last one and goes on to store the time.
LEMMA Listing ==
  ASSUME Types, NEW p \in Proc, ListComments(p)
  PROVE  /\ gpc[p] = "comments" /\ passed \subseteq passed' /\ passed' \subseteq Comment
         /\ behind' \in [Proc -> SUBSET Comment] /\ page' \in [Proc -> Nat]
         /\ \A q \in Proc \ {p} : behind'[q] = behind[q] /\ page'[q] = page[q]
         /\ \/ NextDoc(p) /\ behind'[p] = {}
               /\ (Errs \/ \E P \in SUBSET Rest(p) : found[p] \cup OnPage(P) = {} /\ Rest(p) \ P \subseteq passed')
            \/ /\ UNCHANGED <<gpc, lock, since>>
               /\ \E P \in SUBSET Rest(p) :
                    /\ found' = [found EXCEPT ![p] = @ \cup OnPage(P)]
                    /\ behind'[p] = behind[p] \cup P /\ page'[p] > 0
            \/ /\ gpc' = [gpc EXCEPT ![p] = "save"] /\ UNCHANGED <<lock, since>> /\ behind'[p] = {}
               /\ \E P \in SUBSET Rest(p) :
                    /\ found' = [found EXCEPT ![p] = @ \cup OnPage(P)]
                    /\ found[p] \cup OnPage(P) # {} /\ Rest(p) \ P \subseteq passed'
<1>1. /\ gpc[p] = "comments" /\ behind \in [Proc -> SUBSET Comment] /\ page \in [Proc -> Nat]
      /\ passed \subseteq Comment /\ Rest(p) \subseteq Comment
  BY DEF ListComments, Types, DriveTypes, ProcTypes, Rest
<1>2. CASE Errs /\ NextDoc(p) /\ behind' = [behind EXCEPT ![p] = {}]
           /\ page' = [page EXCEPT ![p] = 0] /\ UNCHANGED passed
  BY <1>1, <1>2
<1>3. ASSUME NEW P \in SUBSET Rest(p), NextPage(p, P)
      PROVE  /\ UNCHANGED <<gpc, lock, since, passed>>
             /\ found' = [found EXCEPT ![p] = @ \cup OnPage(P)]
             /\ behind' = [behind EXCEPT ![p] = @ \cup P] /\ page' = [page EXCEPT ![p] = @ + 1]
  BY <1>3 DEF NextPage
<1>4. ASSUME NEW P \in SUBSET Rest(p), LastPage(p, P)
      PROVE  /\ passed' = passed \cup (Rest(p) \ P)
             /\ behind' = [behind EXCEPT ![p] = {}] /\ page' = [page EXCEPT ![p] = 0]
             /\ \/ found[p] \cup OnPage(P) = {} /\ NextDoc(p)
                \/ /\ found[p] \cup OnPage(P) # {} /\ UNCHANGED <<lock, since>>
                   /\ gpc' = [gpc EXCEPT ![p] = "save"]
                   /\ found' = [found EXCEPT ![p] = @ \cup OnPage(P)]
  BY <1>4 DEF LastPage, Goto
<1>5. ASSUME NEW P \in SUBSET Rest(p), NextPage(p, P)
      PROVE  /\ passed' = passed /\ behind'[p] = behind[p] \cup P /\ page'[p] > 0
             /\ behind' \in [Proc -> SUBSET Comment] /\ page' \in [Proc -> Nat]
             /\ \A q \in Proc \ {p} : behind'[q] = behind[q] /\ page'[q] = page[q]
  BY <1>1, <1>3, <1>5
<1>6. ASSUME NEW P \in SUBSET Rest(p), LastPage(p, P)
      PROVE  /\ passed \subseteq passed' /\ passed' \subseteq Comment /\ Rest(p) \ P \subseteq passed'
             /\ behind'[p] = {} /\ behind' \in [Proc -> SUBSET Comment] /\ page' \in [Proc -> Nat]
             /\ \A q \in Proc \ {p} : behind'[q] = behind[q] /\ page'[q] = page[q]
  BY <1>1, <1>4, <1>6
<1>7. CASE \E P \in SUBSET Rest(p) : NextPage(p, P)
  BY <1>1, <1>3, <1>5, <1>7
<1>8. CASE \E P \in SUBSET Rest(p) : LastPage(p, P)
  BY <1>1, <1>4, <1>6, <1>8
<1> QED BY <1>2, <1>7, <1>8 DEF ListComments

\* The actions of a goroutine.
LEMMA GoroutineTypes ==
  ASSUME TypeOK, TimesInv, FoundInv, NEW p \in Proc, HandleNotification(p) \/ Goroutine(p)
  PROVE  Types'
<1> USE DEF Goto, GoroutineStates, contentVars, driveVars, watchVars, procVars, requestVars, bounds
<1>1. Types
  BY TypeParts
<1>2. Flags'
  BY <1>1, Zenon DEF Types, Flags, HandleNotification, Goroutine, ReadToken, ListChanges, StoreToken,
     ChangesDone, LockDoc, GetLastSeen, ListComments, SaveLastSeen, HandleEvents, Acknowledge,
     CreateTask
<1>3. CASE HandleNotification(p)
  BY <1>1, <1>2, <1>3 DEF HandleNotification, Types, DriveTypes, WatchTypes, SeenTypes, ProcTypes,
     FoundTypes, RequestTypes, BoundTypes
<1>4. CASE ReadToken(p)
  BY <1>1, <1>2, <1>4 DEF ReadToken, Types, DriveTypes, WatchTypes, SeenTypes, ProcTypes,
     FoundTypes, RequestTypes, BoundTypes
<1>5. CASE ListChanges(p)
  <2>1. EndToken \in Nat /\ {log[i] : i \in DOMAIN log \cap {tok[p]}} \subseteq Doc
    BY <1>1 DEF EndToken, Types, DriveTypes
  <2>2. todo' \in [Proc -> SUBSET Doc]
    <3>1. CASE UNCHANGED todo
      BY <1>1, <3>1 DEF Types, ProcTypes
    <3>2. CASE todo' = [todo EXCEPT ![p] = @ \cup {log[i] : i \in DOMAIN log \cap {tok[p]}}]
      <4>1. todo[p] \cup {log[i] : i \in DOMAIN log \cap {tok[p]}} \in SUBSET Doc
        BY <1>1, <2>1 DEF Types, ProcTypes
      <4> HIDE DEF GoroutineStates
      <4> QED BY <1>1, <3>2, <4>1, Zenon DEF Types, ProcTypes
    <3> QED BY <1>5, <3>1, <3>2 DEF ListChanges
  <2>3. tok' \in [Proc -> Nat] /\ page' \in [Proc -> Nat] /\ gpc' \in [Proc -> GoroutineStates]
        /\ faults' \in Nat
    BY <1>1, <1>5, <2>1 DEF ListChanges, Errs, Types, ProcTypes, BoundTypes
  <2> QED
    BY <1>1, <1>2, <1>5, <2>2, <2>3 DEF ListChanges, Types, DriveTypes, WatchTypes, SeenTypes,
       ProcTypes, FoundTypes, RequestTypes, BoundTypes
<1>6. CASE StoreToken(p)
  BY <1>1, <1>2, <1>6 DEF StoreToken, Types, DriveTypes, WatchTypes, SeenTypes, ProcTypes,
     FoundTypes, RequestTypes, BoundTypes
<1>7. CASE ChangesDone(p)
  BY <1>1, <1>2, <1>7 DEF ChangesDone, Types, DriveTypes, WatchTypes, SeenTypes, ProcTypes,
     FoundTypes, RequestTypes, BoundTypes
<1>8. ASSUME NEW d \in Doc, LockDoc(p, d) PROVE Types'
  BY <1>1, <1>2, <1>8 DEF LockDoc, Types, DriveTypes, WatchTypes, SeenTypes, ProcTypes,
     FoundTypes, RequestTypes, BoundTypes
<1>9. CASE GetLastSeen(p)
  <2>1. SeenTypes' /\ ProcTypes' /\ FoundTypes' /\ BoundTypes'
    <3>1. CASE NextDoc(p)
      BY <1>1, <1>9, <3>1, NextDocTypes DEF GetLastSeen, Errs, Types, ProcTypes, SeenTypes, BoundTypes
    <3>2. CASE ~NextDoc(p)
      BY <1>1, <1>9, <3>2 DEF GetLastSeen, Types, SeenTypes, ProcTypes, FoundTypes, BoundTypes
    <3> QED BY <3>1, <3>2
  <2> QED
    BY <1>1, <1>2, <1>9, <2>1 DEF GetLastSeen, Types, DriveTypes, WatchTypes, RequestTypes
<1>10. CASE ListComments(p)
  <2>1. /\ lock' \in [Doc -> Proc \cup {NoProc}] /\ since' \in [Proc -> Nat]
        /\ gpc' \in [Proc -> GoroutineStates] /\ FoundTypes'
    <3>1. CASE NextDoc(p)
      BY <1>1, <3>1, NextDocTypes
    <3>2. CASE /\ gpc' \in {gpc, [gpc EXCEPT ![p] = "save"]} /\ UNCHANGED <<lock, since>>
               /\ \E P \in SUBSET Rest(p) : found' = [found EXCEPT ![p] = @ \cup OnPage(P)]
      BY <1>1, <3>2, PageFacts DEF Types, SeenTypes, ProcTypes, FoundTypes
    <3> QED BY <1>1, <1>10, <3>1, <3>2, Listing
  <2>2. SeenTypes' /\ ProcTypes' /\ BoundTypes'
    BY <1>1, <1>10, <2>1, Listing DEF ListComments, Errs, Types, SeenTypes, ProcTypes, BoundTypes
  <2>3. DriveTypes'
    BY <1>1, <1>10, Listing DEF ListComments, Types, DriveTypes
  <2> QED
    BY <1>1, <1>2, <1>10, <2>1, <2>2, <2>3 DEF ListComments, Types, WatchTypes, RequestTypes
<1>11. CASE SaveLastSeen(p)
  <2>1. NewLastSeen(p) \in Nat
    BY <1>11, NewLastSeenFacts DEF SaveLastSeen, FoundInv, FoundOK
  <2>2. SeenTypes' /\ BoundTypes'
    BY <1>1, <1>11, <2>1 DEF SaveLastSeen, Errs, Types, SeenTypes, BoundTypes
  <2> QED
    BY <1>1, <1>2, <1>11, <2>2 DEF SaveLastSeen, Types, DriveTypes, WatchTypes, ProcTypes,
       FoundTypes, RequestTypes
<1>12. CASE HandleEvents(p)
  <2>1. RequestTypes' /\ FoundTypes'
    BY <1>1, <1>12 DEF HandleEvents, NextDoc, Types, RequestTypes, FoundTypes
  <2>2. SeenTypes' /\ ProcTypes'
    <3>1. CASE NextDoc(p)
      BY <1>1, <1>12, <3>1, NextDocTypes DEF HandleEvents, Types, ProcTypes, SeenTypes
    <3>2. CASE ~NextDoc(p)
      BY <1>1, <1>12, <3>2 DEF HandleEvents, Types, SeenTypes, ProcTypes
    <3> QED BY <3>1, <3>2
  <2> QED
    BY <1>1, <1>2, <1>12, <2>1, <2>2 DEF HandleEvents, Types, DriveTypes, WatchTypes, BoundTypes
<1>13. CASE Acknowledge(p)
  <2>1. DriveTypes' /\ BoundTypes'
    <3>1. ASSUME NEW r \in found[p], BotReplies(r[1]), UNCHANGED faults
          PROVE  DriveTypes' /\ BoundTypes'
      BY <1>1, <1>13, <3>1, ReplyTypes DEF Acknowledge, Types, FoundTypes
    <3>2. CASE Errs /\ UNCHANGED <<driveVars, due>>
      BY <1>1, <1>13, <3>2 DEF Acknowledge, Errs, Types, DriveTypes, BoundTypes
    <3> QED BY <1>13, <3>1, <3>2 DEF Acknowledge
  <2> QED
    BY <1>1, <1>2, <1>13, <2>1 DEF Acknowledge, Types, WatchTypes, SeenTypes, ProcTypes,
       FoundTypes, RequestTypes
<1>14. CASE CreateTask(p)
  <2>1. found[p] \subseteq handed
    BY <1>14 DEF CreateTask, FoundInv, FoundOK
  <2>2. RequestTypes' /\ FoundTypes'
    BY <1>1, <1>14, <2>1 DEF CreateTask, NextDoc, Types, RequestTypes, FoundTypes
  <2> QED
    BY <1>1, <1>2, <1>14, <2>2 DEF CreateTask, NextDoc, Errs, Types, DriveTypes, WatchTypes,
       SeenTypes, ProcTypes, BoundTypes
<1> QED
  BY <1>3, <1>4, <1>5, <1>6, <1>7, <1>8, <1>9, <1>10, <1>11, <1>12, <1>13, <1>14 DEF Goroutine

\* Every action keeps the types.
LEMMA TypeStep ==
  ASSUME TypeOK, TimesInv, FoundInv, [Next]_vars
  PROVE  TypeOK'
<1> USE DEF contentVars, driveVars, watchVars, procVars, requestVars, bounds
<1>1. Types
  BY TypeParts
<1>2. CASE User \/ WatchLoop \/ Renew \/ Start
  BY <1>1, <1>2, OutsideTypes, TypeParts
<1>3. CASE ProcessEnds
  BY <1>1, <1>3, EndTypes, TypeParts
<1>4. CASE \E p \in Proc : HandleNotification(p) \/ Goroutine(p)
  BY <1>4, GoroutineTypes, TypeParts
<1>5. ASSUME NEW r \in accepted, SendResponse(r) PROVE TypeOK'
  <2>1. r \in Request
    BY <1>1 DEF Types, RequestTypes
  <2>2. DriveTypes' /\ BoundTypes'
    BY <1>1, <1>5, <2>1, ReplyTypes DEF SendResponse
  <2>3. Flags'
    BY <1>1, <1>5, Zenon DEF Types, Flags, SendResponse
  <2>4. Types'
    BY <1>1, <1>5, <2>2, <2>3 DEF SendResponse, Types, WatchTypes, SeenTypes, ProcTypes,
       FoundTypes, RequestTypes
  <2> QED BY <2>4, TypeParts
<1>6. CASE UNCHANGED vars
  BY <1>1, <1>6, TypeParts DEF vars, Types, Flags, DriveTypes, WatchTypes, SeenTypes, ProcTypes,
     FoundTypes, RequestTypes, BoundTypes
<1> QED BY <1>2, <1>3, <1>4, <1>5, <1>6 DEF Next

-----------------------------------------------------------------------------
(* Times, locks and what was found *)

\* Somebody writes in c, or nobody writes anything.
Written(c) ==
  /\ now' \in Nat /\ now <= now' /\ (MinGap = 1 => now < now')
  /\ mtime'[c] = now'
  /\ \A b \in Comment : b # c =>
       /\ mtime'[b] = mtime[b] /\ last'[b] = last[b] /\ (b \in resolved' <=> b \in resolved)
       /\ (b \in passed' <=> b \in passed) /\ \A p \in Proc : b \in behind'[p] <=> b \in behind[p]
  /\ \A p \in Proc : c \in behind'[p] => Midway(p, c) /\ c \in passed'
Quiet == UNCHANGED <<now, mtime, last, resolved>> /\ passed \subseteq passed'

\* A write, from what Modify does.
LEMMA ModifyWrites ==
  ASSUME DriveTypes, CursorInv, NEW c \in Comment, NEW who, Modify(c, who),
         \A b \in Comment : b # c => (b \in resolved' <=> b \in resolved)
  PROVE  Written(c)
<1>1. /\ \A p \in Proc : \A b \in Comment \ {c} : b \in behind'[p] <=> b \in behind[p]
      /\ \A p \in Proc : c \in behind'[p] => c \in behind[p] \/ Midway(p, c)
      /\ \A p \in Proc : c \in behind'[p] /\ Midway(p, c) => c \in passed'
      /\ \A b \in Comment \ {c} : b \in passed' <=> b \in passed
  BY MoveFacts DEF Modify
<1>2. \A p \in Proc : c \in behind'[p] => Midway(p, c) /\ c \in passed'
  BY <1>1 DEF CursorInv, CursorOK
<1> QED BY <1>1, <1>2, ModifyFacts DEF Written

\* The bot's reply writes in one comment thread.
LEMMA ReplyWrites ==
  ASSUME TypeOK, CursorInv, NEW r \in Request, BotReplies(r[1])
  PROVE  r[1] \in Comment /\ Written(r[1])
<1>1. r[1] \in Comment /\ DriveTypes
  BY TypeParts DEF Request, Types
<1>2. Modify(r[1], "bot") /\ resolved' = resolved \ {r[1]}
  BY DEF BotReplies
<1>3. \A b \in Comment : b # r[1] => (b \in resolved' <=> b \in resolved)
  BY <1>2
<1> QED BY <1>1, <1>2, <1>3, ModifyWrites

\* So does what a user writes or resolves.
LEMMA UserWritesOne ==
  ASSUME TypeOK, CursorInv, User
  PROVE  \E c \in Comment : Written(c)
<1>1. PICK c \in Comment : UserResolves(c) \/ \E what : UserWrites(c, what)
  BY DEF User
<1>2. PICK who : Modify(c, who)
  BY <1>1 DEF UserResolves, UserWrites
<1>3. \A b \in Comment : b # c => (b \in resolved' <=> b \in resolved)
  BY <1>1 DEF UserResolves, UserWrites
<1>4. DriveTypes
  BY TypeParts DEF Types
<1> QED BY <1>2, <1>3, <1>4, ModifyWrites

\* The steps outside of the goroutines.
Outside == User \/ WatchLoop \/ Renew \/ Start \/ (\E r \in accepted : SendResponse(r)) \/ UNCHANGED vars

\* A step outside of the goroutines writes in at most one comment thread.
LEMMA OutsideFrame ==
  ASSUME TypeOK, CursorInv, Outside
  PROVE  /\ (Quiet /\ UNCHANGED behind) \/ \E c \in Comment : Written(c)
         /\ UNCHANGED <<lastSeen, lock, gpc, page, doc, since, found, handed, accepted, restarts>>
         /\ faults' >= faults
<1> USE DEF contentVars, driveVars, watchVars, procVars, requestVars, bounds
<1>1. CASE User
  <2>1. faults \in Nat
    BY DEF TypeOK
  <2>2. UNCHANGED <<lastSeen, lock, gpc, page, doc, since, found, handed, accepted, restarts, faults>>
    BY <1>1 DEF User, UserWrites, UserResolves
  <2> QED BY <1>1, <2>1, <2>2, UserWritesOne
<1>2. CASE WatchLoop \/ Renew \/ Start
  BY <1>2 DEF Quiet, WatchLoop, GetStartToken, StoreStartToken, Watch, Renew, Start, Errs, TypeOK
<1>3. ASSUME NEW r \in accepted, SendResponse(r)
      PROVE  (Quiet /\ UNCHANGED behind) \/ \E c \in Comment : Written(c)
  <2>1. r \in Request
    BY DEF TypeOK
  <2>2. CASE BotReplies(r[1])
    BY <2>1, <2>2, ReplyWrites
  <2>3. CASE UNCHANGED driveVars
    BY <2>3 DEF Quiet
  <2> QED BY <1>3, <2>2, <2>3 DEF SendResponse
<1>4. ASSUME NEW r \in accepted, SendResponse(r)
      PROVE  /\ UNCHANGED <<lastSeen, lock, gpc, page, doc, since, found, handed, accepted, restarts>>
             /\ faults' >= faults
  BY <1>4 DEF SendResponse, Errs, TypeOK
<1>5. CASE UNCHANGED vars
  BY <1>5 DEF vars, Quiet, TypeOK
<1> QED BY <1>1, <1>2, <1>3, <1>4, <1>5 DEF Outside

\* What a step of goroutine p leaves alone.
LEMMA GoroutineFrame ==
  ASSUME BaseInv, NEW p \in Proc, HandleNotification(p) \/ Goroutine(p)
  PROVE  /\ \A q \in Proc \ {p} :
              /\ gpc'[q] = gpc[q] /\ doc'[q] = doc[q] /\ since'[q] = since[q] /\ found'[q] = found[q]
              /\ page'[q] = page[q]
              /\ \A d \in Doc : lock[d] = q => lock'[d] = q
         /\ \A d \in Doc : lastSeen'[d] = lastSeen[d] \/ (gpc[p] = "save" /\ d = doc[p])
         /\ handed \subseteq handed' /\ restarts' = restarts /\ faults' >= faults
<1> USE DEF contentVars, driveVars, watchVars, procVars, requestVars, bounds
<1>1. Types
  BY TypeParts DEF BaseInv
<1>2. \A q \in Proc \ {p} :
        /\ gpc'[q] = gpc[q] /\ doc'[q] = doc[q] /\ since'[q] = since[q] /\ found'[q] = found[q]
        /\ page'[q] = page[q]
  <2> USE <1>1 DEF Types, ProcTypes, FoundTypes, Goto, NextDoc
  <2>1. CASE HandleNotification(p) \/ ReadToken(p) \/ ListChanges(p) \/ StoreToken(p) \/ ChangesDone(p)
    BY <2>1 DEF HandleNotification, ReadToken, ListChanges, StoreToken, ChangesDone
  <2>2. CASE (\E d \in Doc : LockDoc(p, d)) \/ GetLastSeen(p)
    BY <2>2 DEF LockDoc, GetLastSeen
  <2>3. CASE ListComments(p)
    <3>1. \A q \in Proc \ {p} : page'[q] = page[q]
      BY <1>1, <2>3, Listing
    <3>2. doc' = doc
      BY <2>3 DEF ListComments
    <3>3. CASE NextDoc(p)
      BY <3>1, <3>2, <3>3
    <3>4. CASE gpc' \in {gpc, [gpc EXCEPT ![p] = "save"]} /\ UNCHANGED since
               /\ \E P \in SUBSET Rest(p) : found' = [found EXCEPT ![p] = @ \cup OnPage(P)]
      BY <3>1, <3>2, <3>4
    <3> QED BY <1>1, <2>3, <3>3, <3>4, Listing
  <2>4. CASE SaveLastSeen(p) \/ HandleEvents(p) \/ Acknowledge(p) \/ CreateTask(p)
    BY <2>4 DEF SaveLastSeen, HandleEvents, Acknowledge, CreateTask
  <2> QED BY <2>1, <2>2, <2>3, <2>4 DEF Goroutine
<1>3. ASSUME NEW q \in Proc \ {p}, NEW d \in Doc, lock[d] = q
      PROVE  lock'[d] = q
  <2>1. CASE UNCHANGED lock
    BY <1>3, <2>1
  <2>2. CASE NextDoc(p) /\ gpc[p] \in Checking
    <3>1. lock[doc[p]] = p
      BY <2>2 DEF BaseInv, LockInv, LockOK
    <3> QED BY <1>1, <1>3, <2>2, <3>1 DEF NextDoc, Types, SeenTypes
  <2>3. CASE \E e \in Doc : LockDoc(p, e)
    BY <1>1, <1>3, <2>3, GoogleDocsAssumption DEF LockDoc, Types, SeenTypes
  <2>4. CASE HandleNotification(p) \/ ReadToken(p) \/ ListChanges(p) \/ StoreToken(p) \/ ChangesDone(p)
    BY <2>1, <2>4 DEF HandleNotification, ReadToken, ListChanges, StoreToken, ChangesDone
  <2>5. CASE GetLastSeen(p) \/ ListComments(p)
    BY <1>1, <2>1, <2>2, <2>5, Listing DEF GetLastSeen, Checking
  <2>6. CASE SaveLastSeen(p) \/ Acknowledge(p)
    BY <2>1, <2>6 DEF SaveLastSeen, Acknowledge
  <2>7. CASE HandleEvents(p) \/ CreateTask(p)
    BY <2>1, <2>2, <2>7 DEF HandleEvents, CreateTask, Checking
  <2> QED BY <2>3, <2>4, <2>5, <2>6, <2>7 DEF Goroutine
<1>4. /\ \A d \in Doc : lastSeen'[d] = lastSeen[d] \/ (gpc[p] = "save" /\ d = doc[p])
      /\ handed \subseteq handed' /\ restarts' = restarts /\ faults' >= faults
  <2> USE <1>1 DEF Types, SeenTypes, BoundTypes, Errs
  <2>1. CASE HandleNotification(p) \/ ReadToken(p) \/ ListChanges(p) \/ StoreToken(p) \/ ChangesDone(p)
    BY <2>1 DEF HandleNotification, ReadToken, ListChanges, StoreToken, ChangesDone
  <2>2. CASE (\E d \in Doc : LockDoc(p, d)) \/ GetLastSeen(p) \/ ListComments(p)
    BY <2>2 DEF LockDoc, GetLastSeen, ListComments
  <2>3. CASE SaveLastSeen(p)
    BY <2>3 DEF SaveLastSeen
  <2>4. CASE HandleEvents(p) \/ Acknowledge(p) \/ CreateTask(p)
    BY <2>4 DEF HandleEvents, Acknowledge, CreateTask
  <2> QED BY <2>1, <2>2, <2>3, <2>4 DEF Goroutine
<1> QED BY <1>2, <1>3, <1>4

\* A goroutine writes nothing but its acknowledgement, and lists for itself.
LEMMA GoroutineWrites ==
  ASSUME BaseInv, NEW p \in Proc, HandleNotification(p) \/ Goroutine(p)
  PROVE  \/ /\ Quiet /\ \A q \in Proc \ {p} : behind'[q] = behind[q]
            /\ UNCHANGED behind \/ ListComments(p)
         \/ gpc[p] = "ack" /\ \E r \in found[p] : r[1] \in Comment /\ Written(r[1])
<1> USE DEF contentVars, driveVars, watchVars, procVars, requestVars, bounds, Quiet
<1>1. CASE Acknowledge(p)
  <2>1. ASSUME NEW r \in found[p], BotReplies(r[1]) PROVE r[1] \in Comment /\ Written(r[1])
    BY <2>1, ReplyWrites DEF BaseInv, TypeOK
  <2> QED BY <1>1, <2>1 DEF Acknowledge
<1>2. CASE HandleNotification(p) \/ ReadToken(p) \/ ListChanges(p) \/ StoreToken(p) \/ ChangesDone(p)
  BY <1>2 DEF HandleNotification, ReadToken, ListChanges, StoreToken, ChangesDone
<1>3. CASE (\E d \in Doc : LockDoc(p, d)) \/ GetLastSeen(p)
  BY <1>3 DEF LockDoc, GetLastSeen
<1>4. CASE SaveLastSeen(p) \/ HandleEvents(p) \/ CreateTask(p)
  BY <1>4 DEF SaveLastSeen, HandleEvents, CreateTask
<1>5. CASE ListComments(p)
  <2>1. Types
    BY TypeParts DEF BaseInv
  <2>2. UNCHANGED <<now, mtime, last, resolved>>
    BY <1>5 DEF ListComments
  <2> QED BY <1>5, <2>1, <2>2, Listing
<1> QED BY <1>1, <1>2, <1>3, <1>4, <1>5 DEF Goroutine

\* What a step of goroutine p does to its own part of the invariant.
LEMMA OwnStep ==
  ASSUME BaseInv, NEW p \in Proc, HandleNotification(p) \/ Goroutine(p)
  PROVE  LockOK(p)' /\ FoundOK(p)' /\ \A r \in found'[p] : r[2] <= now
<1>t. Types
  BY TypeParts DEF BaseInv
<1> USE DEF contentVars, driveVars, watchVars, procVars, requestVars, bounds, Goto, Checking, Holding
<1>1. /\ gpc \in [Proc -> GoroutineStates] /\ doc \in [Proc -> Doc] /\ since \in [Proc -> Nat]
      /\ found \in [Proc -> SUBSET Request] /\ lock \in [Doc -> Proc \cup {NoProc}]
      /\ lastSeen \in [Doc -> Nat] /\ mtime \in [Comment -> Nat] /\ now \in Nat
  BY DEF BaseInv, TypeOK
<1>2. /\ LockOK(p) /\ FoundOK(p) /\ (\A r \in found[p] : r[2] <= now)
      /\ \A c \in Comment : mtime[c] <= now
  BY DEF BaseInv, LockInv, FoundInv, TimesInv
<1> USE <1>1, <1>2 DEF LockOK, FoundOK
<1>3. CASE HandleNotification(p) \/ ReadToken(p) \/ ListChanges(p) \/ StoreToken(p) \/ ChangesDone(p)
  BY <1>3 DEF HandleNotification, ReadToken, ListChanges, StoreToken, ChangesDone
<1>4. ASSUME NEW d \in Doc, LockDoc(p, d)
      PROVE  LockOK(p)' /\ FoundOK(p)' /\ \A r \in found'[p] : r[2] <= now
  BY <1>4 DEF LockDoc
<1>5. ASSUME NextDoc(p)
      PROVE  LockOK(p)' /\ FoundOK(p)' /\ \A r \in found'[p] : r[2] <= now
  BY <1>5 DEF NextDoc
<1>6. CASE GetLastSeen(p)
  <2>1. CASE ~NextDoc(p)
    BY <1>6, <2>1 DEF GetLastSeen
  <2> QED BY <1>5, <2>1
<1>7. CASE ListComments(p)
  <2>1. /\ gpc[p] = "comments" /\ UNCHANGED <<doc, lastSeen, handed>>
        /\ since[p] = lastSeen[doc[p]] /\ lock[doc[p]] = p
    BY <1>7 DEF ListComments
  <2>2. ASSUME NEW P \in SUBSET Rest(p), found' = [found EXCEPT ![p] = @ \cup OnPage(P)],
               UNCHANGED <<lock, since>>,
               gpc' = gpc \/ (gpc' = [gpc EXCEPT ![p] = "save"] /\ found[p] \cup OnPage(P) # {})
        PROVE  LockOK(p)' /\ FoundOK(p)' /\ \A r \in found'[p] : r[2] <= now
    <3>1. \A r \in OnPage(P) : DocOf[r[1]] = doc[p] /\ r[2] >= since[p] /\ r[2] <= now
      <4>1. \A r \in OnPage(P) : r[1] \in Comment /\ r[2] = mtime[r[1]]
        BY <1>t, PageFacts DEF Rest
      <4> QED BY <1>t, <4>1, PageFacts
    <3>2. \A r \in found[p] : DocOf[r[1]] = doc[p] /\ r[2] >= since[p]
      BY <2>1
    <3>3. found'[p] = found[p] \cup OnPage(P) /\ since'[p] = since[p]
      BY <2>2
    <3>4. gpc'[p] \in {"comments", "save"} /\ (gpc'[p] = "save" => found'[p] # {})
      BY <2>1, <2>2, <3>3
    <3>5. \A r \in found'[p] : DocOf[r[1]] = doc[p] /\ r[2] >= since[p] /\ r[2] <= now
      BY <3>1, <3>2, <3>3
    <3> QED BY <2>1, <2>2, <3>3, <3>4, <3>5
  <2> QED BY <1>t, <1>5, <1>7, <2>2, Listing
<1>8. CASE SaveLastSeen(p)
  BY <1>8 DEF SaveLastSeen
<1>9. CASE HandleEvents(p)
  <2>1. CASE ~NextDoc(p)
    <3>1. \A r, t \in found[p] : r = t
      BY <1>9, <2>1, OneFound DEF HandleEvents, BaseInv
    <3> QED BY <1>9, <2>1, <3>1 DEF HandleEvents
  <2> QED BY <1>5, <2>1
<1>10. CASE Acknowledge(p)
  BY <1>10 DEF Acknowledge
<1>11. CASE CreateTask(p)
  BY <1>5, <1>11 DEF CreateTask
<1> QED BY <1>3, <1>4, <1>6, <1>7, <1>8, <1>9, <1>10, <1>11 DEF Goroutine

\* Where a goroutine's own listing is.
LEMMA OwnCursor ==
  ASSUME BaseInv, NEW p \in Proc, HandleNotification(p) \/ Goroutine(p)
  PROVE  CursorOK(p)'
<1>1. Types /\ CursorOK(p)
  BY TypeParts DEF BaseInv, CursorInv
<1>2. /\ gpc \in [Proc -> GoroutineStates] /\ page \in [Proc -> Nat] /\ doc \in [Proc -> Doc]
      /\ behind \in [Proc -> SUBSET Comment]
  BY <1>1 DEF Types, ProcTypes, DriveTypes
<1>3. CASE ListComments(p)
  <2>1. gpc[p] = "comments" /\ doc' = doc
    BY <1>3 DEF ListComments
  <2>2. behind'[p] = {} => CursorOK(p)'
    BY DEF CursorOK
  <2>3. ASSUME UNCHANGED gpc, page'[p] > 0,
               NEW P \in SUBSET Rest(p), behind'[p] = behind[p] \cup P
        PROVE  CursorOK(p)'
    <3>1. \A c \in P : DocOf[c] = doc[p]
      BY DEF Rest
    <3>2. \A c \in behind[p] : DocOf[c] = doc[p]
      BY <1>1 DEF CursorOK, Midway
    <3> QED BY <2>1, <2>3, <3>1, <3>2 DEF CursorOK, Midway
  <2> QED BY <1>1, <1>3, <2>2, <2>3, Listing
<1>4. CASE ~ListComments(p)
  <2>1. gpc[p] # "comments"
    BY <1>4 DEF HandleNotification, Goroutine, ReadToken, ListChanges, StoreToken, ChangesDone, LockDoc,
       GetLastSeen, SaveLastSeen, HandleEvents, Acknowledge, CreateTask
  <2>2. behind[p] = {}
    BY <1>1, <1>2, <2>1 DEF CursorOK, Midway
  <2>3. behind'[p] = {}
    <3>1. ASSUME NEW b \in Comment, Written(b), b \in behind'[p] PROVE FALSE
      BY <2>1, <3>1 DEF Written, Midway
    <3>2. ASSUME NEW b \in Comment, Written(b), NEW c \in Comment, c # b, c \in behind'[p] PROVE FALSE
      BY <2>2, <3>2 DEF Written
    <3>3. behind'[p] \subseteq Comment
      BY TypeStep DEF BaseInv, TypeOK, Next
    <3> QED BY <1>4, <2>2, <3>1, <3>2, <3>3, GoroutineWrites
  <2> QED BY <2>3 DEF CursorOK
<1> QED BY <1>3, <1>4

\* A write in a thread leaves the listings of others where they are.
LEMMA OthersCursor ==
  ASSUME BaseInv, NEW q \in Proc, behind'[q] = behind[q] \/ \E c \in Comment : Written(c),
         behind'[q] \subseteq Comment, gpc'[q] = gpc[q], page'[q] = page[q], doc'[q] = doc[q]
  PROVE  CursorOK(q)'
<1>1. CursorOK(q)
  BY DEF BaseInv, CursorInv
<1>2. \A c \in Comment : Midway(q, c) => Midway(q, c)'
  BY DEF Midway
<1>3. \A c \in behind[q] : c \in Comment
  BY DEF BaseInv, TypeOK
<1>4. ASSUME NEW b \in Comment, Written(b), NEW c \in Comment, c \in behind'[q] PROVE Midway(q, c)
  BY <1>1, <1>4 DEF Written, CursorOK
<1> QED BY <1>1, <1>2, <1>3, <1>4 DEF CursorOK

\* A write is not in the past of what was found or stored before.
LEMMA WriteKeepsTimes ==
  ASSUME BaseInv, Quiet \/ \E c \in Comment : Written(c)
  PROVE  /\ now' \in Nat /\ now <= now' /\ \A c \in Comment : mtime'[c] <= now'
<1>1. now \in Nat /\ \A c \in Comment : mtime[c] \in Nat /\ mtime[c] <= now
  BY DEF BaseInv, TypeOK, TimesInv
<1>2. CASE Quiet
  BY <1>1, <1>2 DEF Quiet
<1>3. ASSUME NEW c \in Comment, Written(c), NEW b \in Comment PROVE mtime'[b] <= now'
  BY <1>1, <1>3 DEF Written
<1> QED BY <1>1, <1>2, <1>3 DEF Written

\* Every action keeps BaseInv.
LEMMA BaseStep ==
  ASSUME BaseInv, [Next]_vars
  PROVE  BaseInv'
<1>1. TypeOK'
  BY TypeStep DEF BaseInv
<1>2. /\ now \in Nat /\ lastSeen \in [Doc -> Nat] /\ found \in [Proc -> SUBSET Request]
      /\ doc \in [Proc -> Doc] /\ NoProc \notin Proc
  BY GoogleDocsAssumption DEF BaseInv, TypeOK
<1>3. CASE Outside
  <2>1. TimesInv'
    <3>1. now' \in Nat /\ now <= now' /\ \A c \in Comment : mtime'[c] <= now'
      BY <1>3, OutsideFrame, WriteKeepsTimes DEF BaseInv
    <3>2. UNCHANGED <<lastSeen, found>>
      BY <1>3, OutsideFrame DEF BaseInv
    <3>3. \A p \in Proc : \A r \in found[p] : r[2] \in Nat /\ r[2] <= now
      BY <1>2 DEF BaseInv, TimesInv, Request
    <3>4. \A d \in Doc : lastSeen[d] <= now + 1
      BY DEF BaseInv, TimesInv
    <3> QED BY <1>2, <3>1, <3>2, <3>3, <3>4 DEF TimesInv
  <2>2. LockInv' /\ FoundInv'
    BY <1>3, OutsideFrame DEF BaseInv, LockInv, LockOK, FoundInv, FoundOK
  <2>3. \A p \in Proc : behind'[p] \subseteq Comment
    BY <1>1 DEF TypeOK
  <2>4. /\ UNCHANGED behind \/ \E c \in Comment : Written(c)
        /\ UNCHANGED <<gpc, page, doc>>
    BY <1>3, OutsideFrame DEF BaseInv
  <2>5. CursorInv'
    BY <2>3, <2>4, OthersCursor DEF CursorInv
  <2> QED BY <1>1, <2>1, <2>2, <2>5 DEF BaseInv
<1>4. CASE ProcessEnds
  <2> USE DEF contentVars, driveVars, requestVars
  <2>1. /\ UNCHANGED <<now, mtime, lastSeen>>
        /\ \A p \in Proc : gpc'[p] = "idle" /\ found'[p] = {} /\ behind'[p] = {}
    BY <1>4 DEF ProcessEnds, NoGoroutines
  <2>2. TimesInv'
    BY <2>1 DEF BaseInv, TimesInv
  <2>3. LockInv' /\ FoundInv' /\ CursorInv'
    BY <2>1 DEF LockInv, LockOK, FoundInv, FoundOK, Checking, Holding, CursorInv, CursorOK
  <2> QED BY <1>1, <2>2, <2>3 DEF BaseInv
<1>5. ASSUME NEW p \in Proc, HandleNotification(p) \/ Goroutine(p) PROVE BaseInv'
  <2>1. now' \in Nat /\ now <= now' /\ \A c \in Comment : mtime'[c] <= now'
    BY <1>5, GoroutineWrites, WriteKeepsTimes
  <2>2. LockOK(p)' /\ FoundOK(p)' /\ \A r \in found'[p] : r[2] <= now
    BY <1>5, OwnStep
  <2>3. ASSUME NEW q \in Proc \ {p}
        PROVE  LockOK(q)' /\ FoundOK(q)' /\ \A r \in found'[q] : r[2] <= now
    <3>1. /\ gpc'[q] = gpc[q] /\ doc'[q] = doc[q] /\ since'[q] = since[q] /\ found'[q] = found[q]
          /\ (lock[doc[q]] = q => lock'[doc[q]] = q)
          /\ handed \subseteq handed'
          /\ lastSeen'[doc[q]] = lastSeen[doc[q]] \/ (gpc[p] = "save" /\ doc[q] = doc[p])
      BY <1>2, <1>5, <2>3, GoroutineFrame
    <3>2. LockOK(q)'
      BY <3>1 DEF BaseInv, LockInv, LockOK
    <3>3. gpc[q] \in {"comments", "save"} => lastSeen'[doc[q]] = lastSeen[doc[q]]
      BY <3>1 DEF BaseInv, LockInv, LockOK, Checking
    <3>4. FoundOK(q)'
      BY <3>1, <3>3 DEF BaseInv, FoundInv, FoundOK
    <3> QED BY <3>1, <3>2, <3>4 DEF BaseInv, TimesInv
  <2>4. \A d \in Doc : lastSeen'[d] <= now + 1
    <3>1. CASE SaveLastSeen(p)
      <4>1. NewLastSeen(p) <= now + 1 /\ NewLastSeen(p) \in Nat
        <5>1. found[p] # {}
          BY <3>1 DEF SaveLastSeen, BaseInv, FoundInv, FoundOK
        <5>2. \A r \in found[p] : r[2] \in Nat /\ r[2] <= now
          BY <1>2 DEF BaseInv, TimesInv, Request
        <5> QED BY <1>2, <5>1, <5>2, NewLastSeenFacts DEF BaseInv
      <4> QED BY <1>2, <3>1, <4>1 DEF SaveLastSeen, BaseInv, TimesInv
    <3>2. CASE lastSeen' = lastSeen
      BY <3>2 DEF BaseInv, TimesInv
    <3>3. ~SaveLastSeen(p) => lastSeen' = lastSeen
      BY <1>5 DEF HandleNotification, Goroutine, ReadToken, ListChanges, StoreToken, ChangesDone,
         LockDoc, GetLastSeen, ListComments, HandleEvents, Acknowledge, CreateTask
    <3> QED BY <3>1, <3>2, <3>3
  <2>5. TimesInv'
    <3>1. ASSUME NEW q \in Proc, NEW r \in found'[q] PROVE r[2] \in Nat /\ r[2] <= now
      <4>1. found'[q] \subseteq Request
        BY <1>1 DEF TypeOK
      <4> QED BY <2>2, <2>3, <4>1 DEF Request
    <3>2. \A d \in Doc : lastSeen'[d] \in Nat
      BY <1>1 DEF TypeOK
    <3> QED BY <1>2, <2>1, <2>4, <3>1, <3>2 DEF TimesInv
  <2>6. LockInv' /\ FoundInv'
    BY <2>2, <2>3 DEF LockInv, FoundInv
  <2>7. CursorInv'
    <3>1. \A q \in Proc : behind'[q] \subseteq Comment
      BY <1>1 DEF TypeOK
    <3>2. ASSUME NEW q \in Proc \ {p} PROVE CursorOK(q)'
      <4>1. behind'[q] = behind[q] \/ \E c \in Comment : Written(c)
        BY <1>5, GoroutineWrites
      <4>2. gpc'[q] = gpc[q] /\ page'[q] = page[q] /\ doc'[q] = doc[q]
        BY <1>5, GoroutineFrame
      <4> QED BY <3>1, <4>1, <4>2, OthersCursor
    <3> QED BY <1>5, <3>2, OwnCursor DEF CursorInv
  <2> QED BY <1>1, <2>5, <2>6, <2>7 DEF BaseInv
<1> QED BY <1>3, <1>4, <1>5 DEF Next, Outside

-----------------------------------------------------------------------------
(* No request is skipped *)

\* A comment that is written in is newer than everything; the others stay as they are.
LEMMA CommentStep ==
  ASSUME MinGap = 1, BaseInv, Quiet \/ \E c \in Comment : Written(c), NEW b \in Comment
  PROVE  \/ /\ mtime'[b] = mtime[b] /\ (IsRelevantComment(b)' <=> IsRelevantComment(b))
            /\ b \in passed => b \in passed'
         \/ now < mtime'[b] /\ now < now'
<1>1. CASE Quiet
  BY <1>1 DEF Quiet, IsRelevantComment
<1>2. ASSUME NEW c \in Comment, Written(c), b = c PROVE now < mtime'[b] /\ now < now'
  BY <1>2 DEF Written
<1>3. ASSUME NEW c \in Comment, Written(c), b # c
      PROVE  /\ mtime'[b] = mtime[b] /\ (IsRelevantComment(b)' <=> IsRelevantComment(b))
             /\ b \in passed => b \in passed'
  BY <1>3 DEF Written, IsRelevantComment
<1> QED BY <1>1, <1>2, <1>3

\* What others do to the listing of goroutine q: a thread that is written in behind it is passed.
LEMMA OthersListed ==
  ASSUME MinGap = 1, BaseInv, BaseInv', NEW q \in Proc, Listed(q),
         (Quiet /\ behind'[q] = behind[q]) \/ \E c \in Comment : Written(c),
         gpc'[q] = gpc[q], doc'[q] = doc[q], since'[q] = since[q], found'[q] = found[q]
  PROVE  Listed(q)'
<1>1. /\ found[q] \subseteq Request /\ now \in Nat /\ mtime' \in [Comment -> Nat]
      /\ behind'[q] \subseteq Comment
      /\ \A r \in found[q] : r[2] <= now
  BY DEF BaseInv, TypeOK, TimesInv
<1>2. \A r \in found[q] : r[2] \in Nat
  BY <1>1 DEF Request
<1>3. ASSUME gpc'[q] = "comments", NEW c \in behind'[q], IsRelevantComment(c)', mtime'[c] >= since'[q]
      PROVE  <<c, mtime'[c]>> \in found'[q] \/ c \in passed'
  <2>1. CASE Quiet /\ behind'[q] = behind[q]
    BY <1>3, <2>1 DEF Listed, Quiet, IsRelevantComment
  <2>2. ASSUME NEW b \in Comment, Written(b), b # c PROVE <<c, mtime'[c]>> \in found'[q] \/ c \in passed'
    <3>1. c \in Comment
      BY <1>1, <1>3
    <3>2. /\ c \in behind[q] /\ mtime'[c] = mtime[c] /\ (c \in passed => c \in passed')
          /\ IsRelevantComment(c)
      BY <1>3, <2>2, <3>1 DEF Written, IsRelevantComment
    <3> QED BY <1>3, <3>2 DEF Listed
  <2>3. ASSUME NEW b \in Comment, Written(b), b = c PROVE c \in passed'
    BY <1>3, <2>3 DEF Written
  <2> QED BY <2>1, <2>2, <2>3
<1>4. ASSUME gpc'[q] = "save", NEW c \in Comment, DocOf[c] = doc'[q], IsRelevantComment(c)',
             mtime'[c] >= since'[q]
      PROVE  \/ <<c, mtime'[c]>> \in found'[q] \/ c \in passed'
             \/ \A r \in found'[q] : mtime'[c] > r[2]
  <2>1. CASE now < mtime'[c]
    BY <1>1, <1>2, <2>1
  <2>2. CASE mtime'[c] = mtime[c] /\ IsRelevantComment(c) /\ (c \in passed => c \in passed')
    BY <1>4, <2>2 DEF Listed
  <2> QED BY <1>4, <2>1, <2>2, CommentStep
<1> QED BY <1>3, <1>4 DEF Listed

\* What goroutine p does to its own listing.
LEMMA OwnListed ==
  ASSUME BaseInv, NEW p \in Proc, Listed(p), HandleNotification(p) \/ Goroutine(p)
  PROVE  Listed(p)'
<1>1. Types /\ CursorOK(p)
  BY TypeParts DEF BaseInv, CursorInv
<1>2. /\ gpc \in [Proc -> GoroutineStates] /\ doc \in [Proc -> Doc] /\ found \in [Proc -> SUBSET Request]
      /\ behind \in [Proc -> SUBSET Comment]
  BY DEF BaseInv, TypeOK
<1>3. CASE ListComments(p)
  <2>1. /\ gpc[p] = "comments" /\ UNCHANGED <<mtime, last, resolved, doc>> /\ passed \subseteq passed'
        /\ \A c \in Comment : IsRelevantComment(c)' <=> IsRelevantComment(c)
    BY <1>1, <1>3, Listing DEF ListComments, contentVars, IsRelevantComment
  <2>2. CASE NextDoc(p)
    BY <1>2, <2>2 DEF NextDoc, Goto, Listed
  <2>3. ASSUME UNCHANGED <<gpc, since>>, NEW P \in SUBSET Rest(p),
               found' = [found EXCEPT ![p] = @ \cup OnPage(P)], behind'[p] = behind[p] \cup P
        PROVE  Listed(p)'
    <3>1. ASSUME NEW c \in behind'[p], IsRelevantComment(c)', mtime'[c] >= since'[p]
          PROVE  <<c, mtime'[c]>> \in found'[p] \/ c \in passed'
      <4>1. c \in Comment /\ found'[p] = found[p] \cup OnPage(P)
        BY <1>2, <2>3, <3>1 DEF Rest
      <4>2. CASE c \in P
        BY <1>1, <2>1, <3>1, <4>1, <4>2, PageFacts
      <4>3. CASE c \in behind[p]
        BY <2>1, <2>3, <3>1, <4>1, <4>3 DEF Listed
      <4> QED BY <2>3, <3>1, <4>2, <4>3
    <3> QED BY <2>1, <2>3, <3>1 DEF Listed
  <2>4. ASSUME gpc' = [gpc EXCEPT ![p] = "save"], UNCHANGED since, NEW P \in SUBSET Rest(p),
               found' = [found EXCEPT ![p] = @ \cup OnPage(P)], Rest(p) \ P \subseteq passed'
        PROVE  Listed(p)'
    <3>1. ASSUME NEW c \in Comment, DocOf[c] = doc'[p], IsRelevantComment(c)', mtime'[c] >= since'[p]
          PROVE  <<c, mtime'[c]>> \in found'[p] \/ c \in passed'
      <4>1. found'[p] = found[p] \cup OnPage(P)
        BY <1>2, <2>4
      <4>2. IsRelevantComment(c) /\ DocOf[c] = doc[p] /\ mtime[c] >= since[p]
        BY <2>1, <2>4, <3>1
      <4>3. CASE c \in behind[p]
        BY <2>1, <4>1, <4>2, <4>3 DEF Listed
      <4>4. CASE c \notin behind[p]
        <5>1. c \in Rest(p)
          BY <4>2, <4>4 DEF Rest, IsRelevantComment
        <5> QED BY <1>1, <2>1, <2>4, <4>1, <4>2, <5>1, PageFacts
      <4> QED BY <4>3, <4>4
    <3>2. gpc'[p] = "save"
      BY <1>2, <2>4
    <3> QED BY <3>1, <3>2 DEF Listed
  <2> QED BY <1>1, <1>3, <2>2, <2>3, <2>4, Listing
<1>4. CASE ~ListComments(p)
  <2>1. CASE GetLastSeen(p)
    <3>1. behind'[p] = {}
      BY <1>1, <1>2, <2>1 DEF GetLastSeen, driveVars, CursorOK, Midway
    <3>2. gpc'[p] # "save"
      BY <1>2, <2>1 DEF GetLastSeen, NextDoc, Goto
    <3> QED BY <3>1, <3>2 DEF Listed
  <2>2. CASE ~GetLastSeen(p)
    <3>1. CASE HandleNotification(p) \/ ReadToken(p) \/ ListChanges(p) \/ StoreToken(p) \/ ChangesDone(p)
      BY <1>2, <3>1 DEF HandleNotification, ReadToken, ListChanges, StoreToken, ChangesDone, Goto, Listed
    <3>2. CASE (\E d \in Doc : LockDoc(p, d)) \/ SaveLastSeen(p)
      BY <1>2, <3>2 DEF LockDoc, SaveLastSeen, Goto, Listed
    <3>3. CASE HandleEvents(p) \/ Acknowledge(p) \/ CreateTask(p)
      BY <1>2, <3>3 DEF HandleEvents, Acknowledge, CreateTask, NextDoc, Goto, Listed
    <3> QED BY <1>4, <2>2, <3>1, <3>2, <3>3 DEF Goroutine
  <2> QED BY <2>1, <2>2
<1> QED BY <1>3, <1>4

\* Every action keeps SkipInv if two writes never fall in the same millisecond.
LEMMA SkipStep ==
  ASSUME MinGap = 1, BaseInv, SkipInv, [Next]_vars
  PROVE  SkipInv'
<1>1. /\ now \in Nat /\ mtime \in [Comment -> Nat] /\ lastSeen \in [Doc -> Nat]
      /\ found \in [Proc -> SUBSET Request] /\ doc \in [Proc -> Doc] /\ gpc \in [Proc -> GoroutineStates]
      /\ DocOf \in [Comment -> Doc] /\ since \in [Proc -> Nat] /\ restarts \in Nat
  BY GoogleDocsAssumption DEF BaseInv, TypeOK
<1>2. /\ \A p \in Proc : \A r \in found[p] : r[2] \in Nat /\ r[2] <= now
      /\ \A d \in Doc : lastSeen[d] <= now + 1
      /\ mtime' \in [Comment -> Nat]
  <2>1. mtime' \in [Comment -> Nat]
    BY TypeStep DEF BaseInv, TypeOK
  <2>2. \A p \in Proc : \A r \in found[p] : r[2] \in Nat
    BY <1>1 DEF Request
  <2>3. TimesInv
    BY DEF BaseInv
  <2> QED BY <2>1, <2>2, <2>3 DEF TimesInv
<1>3. CASE Outside
  <2>1. /\ (Quiet /\ UNCHANGED behind) \/ \E c \in Comment : Written(c)
        /\ UNCHANGED <<lastSeen, lock, gpc, since, doc, found, handed, restarts>>
    BY <1>3, OutsideFrame DEF BaseInv
  <2>2. ListedInv'
    BY <2>1, BaseStep, OthersListed DEF SkipInv, ListedInv
  <2>3. NotSkipped'
    <3> SUFFICES ASSUME restarts' = 0, NEW c \in Comment, IsRelevantComment(c)',
                        mtime'[c] < lastSeen'[DocOf[c]]
                 PROVE  \/ c \in passed' \/ <<c, mtime'[c]>> \in handed'
                        \/ \E p \in Proc : /\ gpc'[p] = "handle" /\ lock'[DocOf[c]] = p
                                           /\ <<c, mtime'[c]>> \in found'[p]
      BY DEF NotSkipped, Skipped
    <3>1. ~(now < mtime'[c])
      BY <1>1, <1>2, <2>1
    <3>2. mtime'[c] = mtime[c] /\ IsRelevantComment(c) /\ (c \in passed => c \in passed')
      BY <2>1, <3>1, CommentStep
    <3> QED BY <2>1, <3>2 DEF SkipInv, NotSkipped, Skipped
  <2> QED BY <2>2, <2>3 DEF SkipInv
<1>4. CASE ProcessEnds
  <2>1. restarts' # 0 /\ \A p \in Proc : gpc'[p] = "idle"
    BY <1>1, <1>4 DEF ProcessEnds, NoGoroutines
  <2> QED BY <2>1 DEF SkipInv, ListedInv, Listed, NotSkipped
<1>5. ASSUME NEW p \in Proc, HandleNotification(p) \/ Goroutine(p) PROVE SkipInv'
  <2>1. /\ \A q \in Proc \ {p} :
              /\ gpc'[q] = gpc[q] /\ doc'[q] = doc[q] /\ since'[q] = since[q] /\ found'[q] = found[q]
              /\ \A d \in Doc : lock[d] = q => lock'[d] = q
        /\ \A d \in Doc : lastSeen'[d] = lastSeen[d] \/ (gpc[p] = "save" /\ d = doc[p])
        /\ handed \subseteq handed' /\ restarts' = restarts
    BY <1>5, GoroutineFrame
  <2>2. /\ Quiet \/ \E c \in Comment : Written(c)
        /\ Quiet \/ gpc[p] = "ack"
        /\ \A q \in Proc \ {p} : (Quiet /\ behind'[q] = behind[q]) \/ \E c \in Comment : Written(c)
    BY <1>5, GoroutineWrites
  <2>3. ASSUME NEW q \in Proc \ {p} PROVE Listed(q)'
    BY <2>1, <2>2, BaseStep, OthersListed DEF SkipInv, ListedInv
  <2>4. ListedInv'
    BY <1>5, <2>3, OwnListed DEF SkipInv, ListedInv
  <2>5. NotSkipped'
    <3> SUFFICES ASSUME restarts' = 0, NEW c \in Comment, IsRelevantComment(c)',
                        mtime'[c] < lastSeen'[DocOf[c]], c \notin passed'
                 PROVE  \/ <<c, mtime'[c]>> \in handed'
                        \/ \E q \in Proc : /\ gpc'[q] = "handle" /\ lock'[DocOf[c]] = q
                                           /\ <<c, mtime'[c]>> \in found'[q]
      BY DEF NotSkipped, Skipped
    <3>1. mtime'[c] = mtime[c] /\ IsRelevantComment(c) /\ c \notin passed
      <4>1. CASE Quiet
        BY <4>1 DEF Quiet, IsRelevantComment
      <4>2. CASE gpc[p] = "ack"
        <5>1. lastSeen'[DocOf[c]] <= now + 1
          BY <1>1, <1>2, <2>1, <4>2
        <5> QED BY <1>1, <1>2, <2>1, <2>2, <4>2, <5>1, CommentStep
      <4> QED BY <2>2, <4>1, <4>2
    <3>2. ASSUME mtime[c] < lastSeen[DocOf[c]]
          PROVE  \/ <<c, mtime[c]>> \in handed
                 \/ \E q \in Proc : /\ gpc[q] = "handle" /\ lock[DocOf[c]] = q
                                    /\ <<c, mtime[c]>> \in found[q]
      BY <2>1, <3>1, <3>2 DEF SkipInv, NotSkipped, Skipped
    <3>3. CASE lastSeen'[DocOf[c]] = lastSeen[DocOf[c]]
      <4>1. ASSUME gpc[p] = "handle" PROVE found[p] \subseteq handed'
        BY <1>5, <4>1 DEF HandleNotification, Goroutine, ReadToken, ListChanges, StoreToken,
           ChangesDone, LockDoc, GetLastSeen, ListComments, SaveLastSeen, HandleEvents, Acknowledge,
           CreateTask
      <4> QED BY <1>1, <2>1, <3>1, <3>2, <3>3, <4>1
    <3>4. CASE lastSeen'[DocOf[c]] # lastSeen[DocOf[c]]
      <4>1. gpc[p] = "save" /\ DocOf[c] = doc[p]
        BY <1>1, <2>1, <3>4
      <4>2. SaveLastSeen(p)
        BY <1>5, <4>1 DEF HandleNotification, Goroutine, ReadToken, ListChanges, StoreToken,
           ChangesDone, LockDoc, GetLastSeen, ListComments, HandleEvents, Acknowledge, CreateTask
      <4>3. /\ lock[doc[p]] = p /\ since[p] = lastSeen[doc[p]] /\ found[p] # {}
        BY <4>1 DEF BaseInv, LockInv, LockOK, Checking, FoundInv, FoundOK
      <4>4. PICK r \in found[p] : lastSeen'[doc[p]] = r[2] + 1
        BY <1>1, <3>4, <4>1, <4>2, <4>3, NewLastSeenFacts DEF SaveLastSeen, BaseInv
      <4>5. ~(mtime[c] > r[2])
        BY <1>1, <1>2, <3>1, <4>1, <4>4
      <4>6. CASE mtime[c] >= since[p]
        <5>1. <<c, mtime[c]>> \in found[p]
          BY <3>1, <4>1, <4>5, <4>6 DEF SkipInv, ListedInv, Listed
        <5>2. gpc'[p] = "handle" /\ lock' = lock /\ found' = found
          BY <1>1, <4>2 DEF SaveLastSeen, Goto
        <5> QED BY <3>1, <4>1, <4>3, <5>1, <5>2
      <4>7. CASE mtime[c] < since[p]
        BY <2>1, <3>1, <3>2, <4>1, <4>3, <4>7
      <4> QED BY <1>1, <4>6, <4>7
    <3> QED BY <3>3, <3>4
  <2> QED BY <2>4, <2>5 DEF SkipInv
<1> QED BY <1>3, <1>4, <1>5 DEF Next, Outside

-----------------------------------------------------------------------------
(* No request gets two tasks *)

\* No step sets the last-seen time of a document back.
LEMMA LastSeenStep ==
  ASSUME BaseInv, [Next]_vars, NEW d \in Doc
  PROVE  lastSeen'[d] >= lastSeen[d]
<1>1. /\ now \in Nat /\ lastSeen \in [Doc -> Nat]
      /\ found \in [Proc -> SUBSET Request] /\ doc \in [Proc -> Doc]
  BY DEF BaseInv, TypeOK
<1>2. CASE lastSeen' = lastSeen
  <2>1. lastSeen[d] \in Nat
    BY <1>1
  <2> QED BY <1>2, <2>1
<1>3. CASE Outside \/ ProcessEnds
  <2>1. lastSeen' = lastSeen
    BY <1>3, OutsideFrame DEF BaseInv, ProcessEnds
  <2> QED BY <1>2, <2>1
<1>4. ASSUME NEW p \in Proc, HandleNotification(p) \/ Goroutine(p)
      PROVE  lastSeen'[d] >= lastSeen[d]
  <2>1. CASE SaveLastSeen(p)
    <3>1. gpc[p] = "save" /\ found[p] # {} /\ \A t \in found[p] : t[2] >= since[p] /\ t[2] \in Nat
      BY <1>1, <2>1 DEF SaveLastSeen, BaseInv, FoundInv, FoundOK, Request
    <3>2. since[p] = lastSeen[doc[p]]
      BY <3>1 DEF BaseInv, FoundInv, FoundOK
    <3>3. NewLastSeen(p) \in Nat /\ NewLastSeen(p) >= lastSeen[doc[p]]
      BY <1>1, <3>1, <3>2, NewLastSeenFacts DEF BaseInv
    <3> QED BY <1>1, <2>1, <3>3 DEF SaveLastSeen
  <2>2. ~SaveLastSeen(p) => lastSeen' = lastSeen
    BY <1>4 DEF HandleNotification, Goroutine, ReadToken, ListChanges, StoreToken, ChangesDone,
       LockDoc, GetLastSeen, ListComments, HandleEvents, Acknowledge, CreateTask
  <2> QED BY <1>2, <2>1, <2>2
<1> QED BY <1>3, <1>4 DEF Next, Outside

\* A request that is over stays over: neither time goes back.
LEMMA OverStep ==
  ASSUME BaseInv, [Next]_vars, NEW r \in Request, Over(r)
  PROVE  Over(r)'
<1>1. /\ now \in Nat /\ mtime \in [Comment -> Nat] /\ lastSeen \in [Doc -> Nat]
      /\ found \in [Proc -> SUBSET Request] /\ doc \in [Proc -> Doc]
      /\ DocOf[r[1]] \in Doc /\ r[1] \in Comment /\ r[2] \in Nat
  BY GoogleDocsAssumption DEF BaseInv, TypeOK, Request
<1>2. \A c \in Comment : mtime[c] <= now
  BY DEF BaseInv, TimesInv
<1>3. lastSeen' \in [Doc -> Nat] /\ mtime' \in [Comment -> Nat] /\ now' \in Nat
  BY TypeStep DEF BaseInv, TypeOK
<1>4. ASSUME Quiet \/ \E c \in Comment : Written(c) PROVE mtime'[r[1]] >= mtime[r[1]]
  <2>1. CASE Quiet
    BY <1>1, <2>1 DEF Quiet
  <2>2. ASSUME NEW c \in Comment, Written(c) PROVE mtime'[r[1]] >= mtime[r[1]]
    BY <1>1, <1>2, <1>3, <2>2 DEF Written
  <2> QED BY <1>4, <2>1, <2>2
<1>5. CASE Outside
  BY <1>1, <1>3, <1>4, <1>5, OutsideFrame DEF Over, BaseInv
<1>6. CASE ProcessEnds
  BY <1>6 DEF ProcessEnds, Over, contentVars, driveVars
<1>7. ASSUME NEW p \in Proc, HandleNotification(p) \/ Goroutine(p) PROVE Over(r)'
  <2>1. mtime'[r[1]] >= mtime[r[1]]
    BY <1>4, <1>7, GoroutineWrites
  <2>2. lastSeen'[DocOf[r[1]]] >= lastSeen[DocOf[r[1]]]
    BY <1>1, LastSeenStep
  <2> QED BY <1>1, <1>3, <2>1, <2>2 DEF Over
<1> QED BY <1>5, <1>6, <1>7 DEF Next, Outside

\* What a step of goroutine p does to its own part of OnceInv.
LEMMA OnceOwnStep ==
  ASSUME MinGap = 1, MaxFaults <= 1, BaseInv, OnceInv,
         NEW p \in Proc, HandleNotification(p) \/ Goroutine(p)
  PROVE  OnceOK(p)'
<1>1. /\ now \in Nat /\ mtime \in [Comment -> Nat] /\ lastSeen \in [Doc -> Nat]
      /\ found \in [Proc -> SUBSET Request] /\ doc \in [Proc -> Doc] /\ since \in [Proc -> Nat]
      /\ gpc \in [Proc -> GoroutineStates] /\ faults \in Nat /\ MaxFaults \in Nat
      /\ DocOf \in [Comment -> Doc] /\ accepted \subseteq Request
  BY GoogleDocsAssumption DEF BaseInv, TypeOK
<1>2. OnceOK(p) /\ FoundOK(p) /\ \A r \in accepted : Over(r)
  BY DEF OnceInv, BaseInv, FoundInv
<1>3. \A r \in found[p] : r[1] \in Comment /\ r[2] \in Nat /\ r[2] <= now
  BY <1>1 DEF BaseInv, TimesInv, Request
<1>4. ASSUME gpc'[p] \notin Holding PROVE OnceOK(p)'
  BY <1>4 DEF OnceOK, Holding
<1>5. NextDoc(p) => OnceOK(p)'
  BY <1>1, <1>4 DEF NextDoc, Goto, Holding
<1>6. CASE HandleNotification(p) \/ ReadToken(p) \/ ListChanges(p) \/ StoreToken(p) \/ ChangesDone(p)
  BY <1>1, <1>4, <1>6 DEF HandleNotification, ReadToken, ListChanges, StoreToken, ChangesDone, Goto, Holding
<1>7. CASE (\E d \in Doc : LockDoc(p, d)) \/ GetLastSeen(p)
  <2>1. CASE NextDoc(p) \/ \E d \in Doc : LockDoc(p, d)
    BY <1>1, <1>4, <1>5, <2>1 DEF LockDoc, Goto, Holding
  <2>2. CASE GetLastSeen(p) /\ ~NextDoc(p)
    <3>1. gpc[p] = "seen" /\ gpc'[p] = "comments" /\ found' = found
      BY <1>1, <2>2 DEF GetLastSeen, Goto
    <3>2. found[p] = {}
      BY <1>2, <3>1 DEF FoundOK, Holding
    <3> QED BY <3>1, <3>2 DEF OnceOK
  <2> QED BY <1>7, <2>1, <2>2
<1>8. CASE ListComments(p)
  <2>1. Types
    BY TypeParts DEF BaseInv
  <2>2. accepted' = accepted /\ gpc[p] = "comments" /\ since[p] = lastSeen[doc[p]]
    BY <1>2, <1>8 DEF ListComments, requestVars, FoundOK
  <2>3. ASSUME gpc' = gpc \/ gpc' = [gpc EXCEPT ![p] = "save"], NEW P \in SUBSET Rest(p),
               found' = [found EXCEPT ![p] = @ \cup OnPage(P)]
        PROVE  OnceOK(p)'
    <3>1. gpc'[p] \in {"comments", "save"} /\ found'[p] = found[p] \cup OnPage(P)
      BY <1>1, <2>2, <2>3
    <3>2. ASSUME NEW r \in OnPage(P) PROVE r \notin accepted
      <4>1. /\ r[1] \in Comment /\ r[2] = mtime[r[1]] /\ DocOf[r[1]] = doc[p] /\ r[2] \in Nat
            /\ r[2] >= since[p]
        BY <2>1, PageFacts DEF Rest
      <4>2. ~Over(r)
        BY <1>1, <2>2, <4>1 DEF Over
      <4> QED BY <1>2, <4>2
    <3>3. found[p] \cap accepted = {}
      BY <1>2, <2>2 DEF OnceOK, Holding
    <3> QED BY <2>2, <3>1, <3>2, <3>3 DEF OnceOK
  <2> QED BY <1>5, <1>8, <2>1, <2>3, Listing
<1>9. CASE SaveLastSeen(p)
  <2>1. /\ accepted' = accepted /\ found' = found /\ doc' = doc /\ gpc'[p] = "handle" /\ gpc[p] = "save"
    BY <1>1, <1>9 DEF SaveLastSeen, Goto, requestVars
  <2>2. faults' >= 1 \/ \A r \in found[p] : lastSeen'[doc[p]] > r[2]
    <3>1. CASE Errs
      BY <1>1, <3>1 DEF Errs
    <3>2. CASE lastSeen' = [lastSeen EXCEPT ![doc[p]] = NewLastSeen(p)]
      <4>1. found[p] # {}
        BY <1>2, <2>1 DEF FoundOK
      <4>2. NewLastSeen(p) \in Nat /\ \A r \in found[p] : NewLastSeen(p) > r[2]
        BY <1>3, <4>1, NewLastSeenFacts DEF BaseInv
      <4>3. lastSeen'[doc[p]] = NewLastSeen(p)
        BY <1>1, <3>2
      <4> QED BY <4>2, <4>3
    <3> QED BY <1>9, <3>1, <3>2 DEF SaveLastSeen
  <2> QED BY <1>2, <2>1, <2>2 DEF OnceOK, Holding
<1>10. CASE HandleEvents(p)
  <2>1. CASE ~NextDoc(p)
    <3>1. /\ UNCHANGED <<accepted, lastSeen, faults, doc, found>>
          /\ gpc'[p] = "ack" /\ gpc[p] = "handle"
      BY <1>1, <1>10, <2>1 DEF HandleEvents, Goto, bounds
    <3> QED BY <1>2, <3>1 DEF OnceOK, Holding
  <2> QED BY <1>5, <2>1
<1>11. CASE Acknowledge(p)
  <2>1. /\ UNCHANGED <<accepted, lastSeen, doc, found>> /\ gpc'[p] = "task" /\ gpc[p] = "ack"
    BY <1>1, <1>11 DEF Acknowledge, Goto, requestVars
  <2>2. ASSUME NEW r \in found[p] PROVE Over(r)'
    <3>1. CASE Errs
      <4>1. DocOf[r[1]] = doc[p] /\ lastSeen[doc[p]] > r[2]
        BY <1>1, <1>2, <2>1, <3>1 DEF Errs, OnceOK, FoundOK, Holding
      <4> QED BY <2>1, <4>1 DEF Over
    <3>2. ASSUME NEW t \in found[p], BotReplies(t[1]) PROVE Over(r)'
      <4>1. r = t
        BY <1>2, <2>1 DEF FoundOK
      <4>2. now' \in {now + 1} /\ mtime' = [mtime EXCEPT ![r[1]] = now']
        BY <3>2, <4>1 DEF BotReplies, Modify
      <4>3. mtime'[r[1]] > r[2]
        BY <1>1, <1>3, <4>2
      <4> QED BY <4>3 DEF Over
    <3> QED BY <1>11, <3>1, <3>2 DEF Acknowledge
  <2>3. found[p] \cap accepted = {}
    BY <1>2, <2>1 DEF OnceOK, Holding
  <2> QED BY <2>1, <2>2, <2>3 DEF OnceOK
<1>12. CASE CreateTask(p)
  BY <1>5, <1>12 DEF CreateTask
<1> QED BY <1>6, <1>7, <1>8, <1>9, <1>10, <1>11, <1>12 DEF Goroutine

\* Every action keeps OnceInv if at most one call fails.
LEMMA OnceStep ==
  ASSUME MinGap = 1, MaxFaults <= 1, BaseInv, OnceInv, [Next]_vars
  PROVE  OnceInv'
<1>1. /\ lastSeen \in [Doc -> Nat] /\ found \in [Proc -> SUBSET Request] /\ doc \in [Proc -> Doc]
      /\ faults \in Nat /\ accepted \subseteq Request /\ gpc \in [Proc -> GoroutineStates]
  BY DEF BaseInv, TypeOK
<1>2. \A r \in Request : Over(r) => Over(r)'
  BY OverStep
<1>3. CASE Outside
  <2>1. UNCHANGED <<lastSeen, gpc, doc, found, accepted>> /\ faults' >= faults
    BY <1>3, OutsideFrame DEF BaseInv
  <2>2. faults' \in Nat
    BY TypeStep DEF BaseInv, TypeOK
  <2>3. \A r \in accepted' : Over(r)'
    BY <1>1, <1>2, <2>1 DEF OnceInv
  <2>4. ASSUME NEW q \in Proc PROVE OnceOK(q)'
    BY <1>1, <1>2, <2>1, <2>2 DEF OnceInv, OnceOK
  <2> QED BY <2>3, <2>4 DEF OnceInv
<1>4. CASE ProcessEnds
  <2>1. accepted' = accepted /\ \A q \in Proc : gpc'[q] = "idle"
    BY <1>4 DEF ProcessEnds, NoGoroutines, requestVars
  <2> QED BY <1>1, <1>2, <2>1 DEF OnceInv, OnceOK, Holding
<1>5. ASSUME NEW p \in Proc, HandleNotification(p) \/ Goroutine(p) PROVE OnceInv'
  <2>1. /\ \A q \in Proc \ {p} : gpc'[q] = gpc[q] /\ doc'[q] = doc[q] /\ found'[q] = found[q]
        /\ \A d \in Doc : lastSeen'[d] = lastSeen[d] \/ (gpc[p] = "save" /\ d = doc[p])
        /\ faults' >= faults /\ faults' \in Nat
    BY <1>5, GoroutineFrame, TypeStep DEF BaseInv, TypeOK
  <2>2. accepted' = accepted \/ (gpc[p] = "task" /\ accepted' = accepted \cup found[p])
    BY <1>5 DEF HandleNotification, Goroutine, ReadToken, ListChanges, StoreToken, ChangesDone, LockDoc,
       GetLastSeen, ListComments, SaveLastSeen, HandleEvents, Acknowledge, CreateTask, requestVars
  <2>3. OnceOK(p)'
    BY <1>5, OnceOwnStep
  <2>4. \A r \in accepted' : Over(r)'
    BY <1>1, <1>2, <2>2 DEF OnceInv, OnceOK
  <2>5. ASSUME NEW q \in Proc \ {p} PROVE OnceOK(q)'
    <3>1. gpc[q] \in Checking /\ gpc[p] \in Checking => doc[q] # doc[p]
      BY DEF BaseInv, LockInv, LockOK
    <3>2. ASSUME gpc[q] \in Holding PROVE found[q] \cap accepted' = {}
      <4>1. gpc[p] = "task" => found[q] \cap found[p] = {}
        BY <3>1, <3>2 DEF BaseInv, FoundInv, FoundOK, Holding, Checking
      <4> QED BY <2>2, <3>2, <4>1 DEF OnceInv, OnceOK
    <3>3. gpc[q] \in Checking => lastSeen'[doc[q]] = lastSeen[doc[q]]
      BY <1>1, <2>1, <3>1 DEF Checking
    <3> QED BY <1>1, <1>2, <2>1, <3>2, <3>3 DEF OnceInv, OnceOK, Holding, Checking
  <2> QED BY <2>3, <2>4, <2>5 DEF OnceInv
<1> QED BY <1>3, <1>4, <1>5 DEF Next, Outside

-----------------------------------------------------------------------------
(* No request is forgotten *)

\* No call has failed, no watch was renewed and no process has ended.
Undisturbed == faults = 0 /\ renewals = 0 /\ restarts = 0

\* The goroutines that have a token which they may put back.
Reading == {"list", "store"}

\* Goroutine p has still to check c's document, is at it, or has found c as it is now.
CarriedBy(p, c) ==
  \/ gpc[p] \notin {"idle", "token"} /\ DocOf[c] \in todo[p]
  \/ gpc[p] \in {"seen", "comments"} /\ doc[p] = DocOf[c]
  \/ gpc[p] \in {"save", "handle"} /\ <<c, mtime[c]>> \in found[p]
Carried(c) == \E p \in Proc : CarriedBy(p, c)

\* Somebody will read from the shared page token.
Expected == wpc # "watching" \/ due > 0 \/ \E p \in Proc : gpc[p] \in {"token", "list"}

\* No token is past the i-th change, neither the shared one nor one that may be put back.
NotPast(i) == pageToken <= i /\ \A p \in Proc : gpc[p] \in Reading => tok[p] <= i

\* A change of c's document is ahead of all tokens, and somebody will list it, unless there
\* are more changes than a goroutine lists.
Ahead(c) ==
  /\ \E i \in DOMAIN log : log[i] = DocOf[c] /\ NotPast(i)
  /\ Len(log) < MaxPages => Expected

\* What the adapter has still to hand over.
Due(c) ==
  IsRelevantComment(c) /\ Watched(c) /\ <<c, mtime[c]>> \notin handed /\ c \notin passed

\* Goroutines that overtake each other and put back the page token do not make the adapter
\* forget a request: while nothing fails and the watch stays, a relevant comment in a
\* document that has changed since the watch began is handed over, a goroutine has it in
\* hand, its change is still ahead of every page token, or a listing of several pages went
\* past it: it was written in between two pages, or was on none of those fetched.
NotForgotten ==
  Undisturbed => \A c \in Comment : Due(c) => Carried(c) \/ Ahead(c)

\* Tokens are of the log, and whoever lists has listed less than its token says.  Before
\* the watch there are neither notifications nor goroutines.
Tokens ==
  /\ up /\ wtok <= EndToken /\ pageToken <= EndToken
  /\ wpc # "start" => wtok > 0
  /\ wpc \in {"watch", "watching"} => pageToken > 0
  /\ watch <=> wpc = "watching"
  /\ wpc # "watching" => due = 0 /\ \A p \in Proc : gpc[p] = "idle"
  /\ \A p \in Proc : /\ gpc[p] \in Reading => tok[p] \in 1..EndToken
                     /\ gpc[p] = "list" => page[p] < tok[p]
TokensInv == Undisturbed => Tokens

\* A step after which nothing has failed, ended or been renewed is none of these.
LEMMA StillUndisturbed ==
  ASSUME TypeOK, [Next]_vars, Undisturbed'
  PROVE  Undisturbed /\ ~Errs /\ ~Renew /\ ~ProcessEnds
<1> USE DEF contentVars, driveVars, watchVars, procVars, requestVars, bounds
<1>1. /\ faults \in Nat /\ renewals \in Nat /\ restarts \in Nat
      /\ faults' = 0 /\ renewals' = 0 /\ restarts' = 0
  BY DEF TypeOK, Undisturbed
<1>2. ~Errs /\ ~Renew /\ ~ProcessEnds
  BY <1>1 DEF Errs, Renew, ProcessEnds
<1>3. faults' = faults /\ renewals' = renewals /\ restarts' = restarts
  <2>1. CASE User \/ WatchLoop \/ Start \/ UNCHANGED vars
    BY <1>2, <2>1 DEF User, UserWrites, UserResolves, WatchLoop, GetStartToken, StoreStartToken, Watch,
       Start, vars
  <2>2. CASE \E r \in accepted : SendResponse(r)
    BY <1>2, <2>2 DEF SendResponse
  <2>3. ASSUME NEW p \in Proc, HandleNotification(p) \/ Goroutine(p)
        PROVE  faults' = faults /\ renewals' = renewals /\ restarts' = restarts
    <3>1. CASE HandleNotification(p) \/ ReadToken(p) \/ ListChanges(p) \/ StoreToken(p) \/ ChangesDone(p)
      BY <1>2, <3>1 DEF HandleNotification, ReadToken, ListChanges, StoreToken, ChangesDone
    <3>2. CASE (\E d \in Doc : LockDoc(p, d)) \/ GetLastSeen(p) \/ ListComments(p)
      BY <1>2, <3>2 DEF LockDoc, GetLastSeen, ListComments
    <3>3. CASE SaveLastSeen(p) \/ HandleEvents(p) \/ Acknowledge(p) \/ CreateTask(p)
      BY <1>2, <3>3 DEF SaveLastSeen, HandleEvents, Acknowledge, CreateTask
    <3> QED BY <2>3, <3>1, <3>2, <3>3 DEF Goroutine
  <2> QED BY <1>2, <2>1, <2>2, <2>3 DEF Next
<1> QED BY <1>1, <1>2, <1>3 DEF Undisturbed

\* The step of somebody who writes in c: a user, a worker's answer, or the reply of p, who
\* acknowledges.
Writes(c) ==
  /\ Written(c) /\ log' = Append(log, DocOf[c])
  /\ due' \in Nat /\ due' >= due /\ (watch => due' > 0) /\ (~watch => due' = due)
  /\ UNCHANGED <<watch, watchVars, tok, page, todo, doc, found, handed, up>>
  /\ \/ gpc' = gpc
     \/ \E p \in Proc : gpc[p] = "ack" /\ gpc' = [gpc EXCEPT ![p] = "task"]

\* What a write does to the log and to the notifications.
LEMMA ModifyNotifies ==
  ASSUME DriveTypes, NEW c \in Comment, NEW who, Modify(c, who)
  PROVE  /\ log' = Append(log, DocOf[c])
         /\ due' \in Nat /\ due' >= due /\ (watch => due' > 0) /\ (~watch => due' = due)
<1>1. due \in Nat
  BY DEF DriveTypes
<1>2. CASE watch
  BY <1>1, <1>2 DEF Modify
<1>3. CASE ~watch
  BY <1>1, <1>3 DEF Modify
<1> QED BY <1>2, <1>3 DEF Modify

\* While nothing is disturbed, a step writes in one comment thread, or the threads stay as
\* they are and it is one of the watch, of the start or of a goroutine.
LEMMA CalmSteps ==
  ASSUME BaseInv, [Next]_vars, Undisturbed'
  PROVE  \/ \E c \in Comment : Writes(c)
         \/ UNCHANGED driveVars /\ (WatchLoop \/ Start \/ UNCHANGED vars)
         \/ /\ UNCHANGED contentVars /\ passed \subseteq passed'
            /\ \E p \in Proc : (HandleNotification(p) \/ Goroutine(p)) /\ ~Acknowledge(p)
<1> USE DEF contentVars, driveVars, watchVars, procVars, requestVars, bounds
<1>1. TypeOK /\ CursorInv /\ DriveTypes /\ ~Errs /\ ~Renew /\ ~ProcessEnds
  BY StillUndisturbed, TypeParts DEF BaseInv, Types
<1>2. ASSUME NEW c \in Comment, UserResolves(c) \/ \E what : UserWrites(c, what)
      PROVE  Writes(c)
  <2>1. PICK who : Modify(c, who)
    BY <1>2 DEF UserResolves, UserWrites
  <2>2. \A b \in Comment : b # c => (b \in resolved' <=> b \in resolved)
    BY <1>2 DEF UserResolves, UserWrites
  <2>3. UNCHANGED <<watch, watchVars, tok, page, todo, doc, found, handed, up, gpc>>
    BY <1>2 DEF UserResolves, UserWrites
  <2>4. Written(c)
    BY <1>1, <2>1, <2>2, ModifyWrites
  <2> QED BY <1>1, <2>1, <2>3, <2>4, ModifyNotifies DEF Writes
<1>3. ASSUME NEW r \in Request, BotReplies(r[1]),
             UNCHANGED <<watch, watchVars, tok, page, todo, doc, found, handed, up>>,
             gpc' = gpc \/ \E p \in Proc : gpc[p] = "ack" /\ gpc' = [gpc EXCEPT ![p] = "task"]
      PROVE  \E c \in Comment : Writes(c)
  <2>1. r[1] \in Comment /\ Written(r[1])
    BY <1>1, <1>3, ReplyWrites
  <2>2. Modify(r[1], "bot")
    BY <1>3 DEF BotReplies
  <2>3. Writes(r[1])
    BY <1>1, <1>3, <2>1, <2>2, ModifyNotifies DEF Writes
  <2> QED BY <2>1, <2>3
<1>4. CASE User
  BY <1>2, <1>4 DEF User
<1>5. ASSUME NEW r \in accepted, SendResponse(r) PROVE \E c \in Comment : Writes(c)
  <2>1. r \in Request
    BY <1>1 DEF TypeOK
  <2>2. BotReplies(r[1]) /\ UNCHANGED <<watch, watchVars, tok, page, todo, doc, found, handed, up, gpc>>
    BY <1>1, <1>5 DEF SendResponse
  <2> QED BY <1>3, <2>1, <2>2
<1>6. ASSUME NEW p \in Proc, Acknowledge(p) PROVE \E c \in Comment : Writes(c)
  <2>1. PICK r \in found[p] : BotReplies(r[1])
    BY <1>1, <1>6 DEF Acknowledge
  <2>2. r \in Request
    BY <1>1 DEF TypeOK
  <2>3. gpc[p] = "ack" /\ gpc' = [gpc EXCEPT ![p] = "task"]
    BY <1>6 DEF Acknowledge, Goto
  <2>4. UNCHANGED <<watch, watchVars, tok, page, todo, doc, found, handed, up>>
    BY <1>6 DEF Acknowledge
  <2> QED BY <1>3, <2>1, <2>2, <2>3, <2>4
<1>7. CASE WatchLoop \/ Start \/ UNCHANGED vars
  <2>1. UNCHANGED driveVars
    BY <1>7 DEF WatchLoop, GetStartToken, StoreStartToken, Watch, Start, vars
  <2> QED BY <1>7, <2>1
<1>8. ASSUME NEW p \in Proc, HandleNotification(p) \/ Goroutine(p), ~Acknowledge(p)
      PROVE  UNCHANGED contentVars /\ passed \subseteq passed'
  <2>1. CASE HandleNotification(p) \/ ReadToken(p) \/ ListChanges(p) \/ StoreToken(p) \/ ChangesDone(p)
    BY <2>1 DEF HandleNotification, ReadToken, ListChanges, StoreToken, ChangesDone
  <2>2. CASE (\E d \in Doc : LockDoc(p, d)) \/ GetLastSeen(p)
    BY <2>2 DEF LockDoc, GetLastSeen
  <2>3. CASE SaveLastSeen(p) \/ HandleEvents(p) \/ CreateTask(p)
    BY <2>3 DEF SaveLastSeen, HandleEvents, CreateTask
  <2>4. CASE ListComments(p)
    <3>1. Types
      BY <1>1, TypeParts
    <3> QED BY <2>4, <3>1, Listing DEF ListComments
  <2> QED BY <1>8, <2>1, <2>2, <2>3, <2>4 DEF Goroutine
<1>9. ASSUME NEW p \in Proc, HandleNotification(p) \/ Goroutine(p)
      PROVE  \/ \E c \in Comment : Writes(c)
             \/ UNCHANGED contentVars /\ passed \subseteq passed' /\ ~Acknowledge(p)
  BY <1>6, <1>8, <1>9
<1> HIDE DEF contentVars, driveVars, watchVars, procVars, requestVars, bounds
<1> QED BY <1>1, <1>4, <1>5, <1>7, <1>9 DEF Next

\* What the steps of goroutine p leave of the tokens, the pages and the documents to check.
LEMMA TokenFrame ==
  ASSUME TypeOK, NEW p \in Proc, HandleNotification(p) \/ Goroutine(p), ~Acknowledge(p)
  PROVE  /\ UNCHANGED <<watch, wpc, wtok, up>>
         /\ \A q \in Proc \ {p} : tok'[q] = tok[q] /\ page'[q] = page[q] /\ todo'[q] = todo[q]
         /\ pageToken' = IF gpc[p] = "store" THEN tok[p] ELSE pageToken
         /\ due' = IF gpc[p] = "idle" THEN due - 1 ELSE due
         /\ gpc[p] = "idle" => due > 0
         /\ gpc[p] \notin {"token", "list", "docs"} => UNCHANGED <<tok, todo>>
         /\ gpc'[p] \in Reading => gpc[p] \in {"token", "list"}
<1> USE DEF contentVars, driveVars, watchVars, procVars, requestVars, bounds
<1>1. /\ gpc \in [Proc -> GoroutineStates] /\ tok \in [Proc -> Nat] /\ page \in [Proc -> Nat]
      /\ todo \in [Proc -> SUBSET Doc]
  BY DEF TypeOK
<1>2. CASE HandleNotification(p) \/ ReadToken(p)
  BY <1>1, <1>2 DEF HandleNotification, ReadToken, Goto, Reading
<1>3. CASE ListChanges(p)
  BY <1>1, <1>3 DEF ListChanges, Goto, Reading
<1>4. CASE StoreToken(p) \/ ChangesDone(p)
  BY <1>1, <1>4 DEF StoreToken, ChangesDone, Goto, Reading
<1>5. CASE (\E d \in Doc : LockDoc(p, d))
  BY <1>1, <1>5 DEF LockDoc, Goto, Reading
<1>6. CASE GetLastSeen(p)
  BY <1>1, <1>6 DEF GetLastSeen, NextDoc, Goto, Reading
<1>8. CASE ListComments(p)
  <2>1. Types
    BY TypeParts
  <2>2. gpc[p] = "comments" /\ \A q \in Proc \ {p} : page'[q] = page[q]
    BY <1>8, <2>1, Listing
  <2>3. gpc'[p] \notin Reading
    BY <1>1, <1>8, <2>1, <2>2, Listing DEF NextDoc, Goto, Reading
  <2> QED BY <1>8, <2>2, <2>3 DEF ListComments
<1>7. CASE SaveLastSeen(p) \/ HandleEvents(p) \/ CreateTask(p)
  BY <1>1, <1>7 DEF SaveLastSeen, HandleEvents, CreateTask, NextDoc, Goto, Reading
<1> QED BY <1>2, <1>3, <1>4, <1>5, <1>6, <1>7, <1>8 DEF Goroutine

\* A step keeps the tokens within the log.
LEMMA TokensStep ==
  ASSUME BaseInv, TokensInv, [Next]_vars
  PROVE  TokensInv'
<1> SUFFICES ASSUME Undisturbed' PROVE Tokens'
  BY DEF TokensInv
<1> USE DEF contentVars, driveVars, watchVars, procVars, requestVars, bounds
<1>1. TypeOK /\ Tokens /\ ~Errs
  BY StillUndisturbed DEF BaseInv, TokensInv
<1>2. /\ log \in Seq(Doc) /\ Len(log) \in Nat /\ wtok \in Nat /\ pageToken \in Nat /\ due \in Nat
      /\ gpc \in [Proc -> GoroutineStates] /\ tok \in [Proc -> Nat] /\ page \in [Proc -> Nat]
  BY <1>1 DEF TypeOK
<1>3. ASSUME NEW c \in Comment, Writes(c) PROVE Tokens'
  <2>1. Len(log') = Len(log) + 1
    BY <1>2, <1>3, GoogleDocsAssumption DEF Writes
  <2>2. \A p \in Proc : gpc'[p] \in Reading => gpc'[p] = gpc[p]
    BY <1>2, <1>3 DEF Writes, Reading
  <2>3. wpc # "watching" => due' = 0 /\ \A p \in Proc : gpc'[p] = "idle"
    <3>1. wpc # "watching" => due' = due
      BY <1>1, <1>3 DEF Writes, Tokens
    <3>2. ASSUME wpc # "watching", NEW p \in Proc PROVE gpc'[p] = "idle"
      BY <1>1, <1>2, <1>3, <3>2 DEF Writes, Tokens
    <3> QED BY <1>1, <3>1, <3>2 DEF Tokens
  <2>4. UNCHANGED <<watch, wpc, wtok, pageToken, tok, page, up>>
    BY <1>3 DEF Writes
  <2>5. up' /\ (watch' <=> wpc' = "watching")
    BY <1>1, <2>4 DEF Tokens
  <2> QED BY <1>1, <1>2, <2>1, <2>2, <2>3, <2>4, <2>5 DEF Tokens, EndToken, Reading
<1>4. CASE UNCHANGED driveVars /\ (WatchLoop \/ Start \/ UNCHANGED vars)
  <2>1. CASE Start \/ UNCHANGED vars
    BY <1>1, <2>1 DEF Start, Tokens, vars, EndToken
  <2>2. CASE GetStartToken \/ StoreStartToken
    <3>1. UNCHANGED <<up, watch, log, due, gpc, tok, page>>
      BY <2>2 DEF GetStartToken, StoreStartToken
    <3>2. CASE GetStartToken
      BY <1>1, <1>2, <3>1, <3>2 DEF GetStartToken, Tokens, EndToken
    <3>3. CASE StoreStartToken
      <4>1. wpc = "store" /\ wpc' = "watch" /\ wtok' = wtok /\ pageToken' = wtok
        BY <3>3 DEF StoreStartToken
      <4> QED BY <1>1, <1>2, <3>1, <4>1 DEF Tokens, EndToken
    <3> QED BY <2>2, <3>2, <3>3
  <2>3. CASE Watch
    BY <1>1, <1>2, <2>3 DEF Watch, Tokens, EndToken
  <2> QED BY <1>4, <2>1, <2>2, <2>3 DEF WatchLoop
<1>5. ASSUME UNCHANGED contentVars, NEW p \in Proc, HandleNotification(p) \/ Goroutine(p), ~Acknowledge(p)
      PROVE  Tokens'
  <2>1. /\ UNCHANGED <<log, watch, wpc, wtok, up>>
        /\ \A q \in Proc \ {p} : gpc'[q] = gpc[q] /\ tok'[q] = tok[q] /\ page'[q] = page[q]
        /\ pageToken' = IF gpc[p] = "store" THEN tok[p] ELSE pageToken
        /\ due' = IF gpc[p] = "idle" THEN due - 1 ELSE due
    BY <1>1, <1>5, TokenFrame, GoroutineFrame
  <2>2. wpc = "watching"
    <3>1. gpc[p] = "idle" => due # 0
      BY <1>1, <1>2, <1>5, TokenFrame
    <3> QED BY <1>1, <3>1 DEF Tokens
  <2>3. /\ pageToken > 0 /\ pageToken <= EndToken /\ (gpc[p] \in Reading => tok[p] \in 1..EndToken)
        /\ (gpc[p] = "list" => page[p] < tok[p])
    BY <1>1, <2>2 DEF Tokens
  <2>4. /\ gpc'[p] \in Reading => tok'[p] \in 1..EndToken
        /\ gpc'[p] = "list" => page'[p] < tok'[p]
    <3>1. CASE ReadToken(p)
      BY <1>2, <2>3, <3>1 DEF ReadToken, Goto, Reading
    <3>2. CASE ListChanges(p)
      <4>1. /\ tok'[p] = IF tok[p] < EndToken THEN tok[p] + 1 ELSE EndToken
            /\ page'[p] = page[p] + 1 /\ gpc[p] = "list"
            /\ gpc'[p] = IF tok'[p] = EndToken \/ page'[p] = MaxPages THEN "store" ELSE "list"
        <5>1. gpc[p] = "list"
          BY <3>2 DEF ListChanges
        <5> QED BY <1>1, <1>2, <3>2, <5>1 DEF ListChanges, Goto, Reading
      <4> QED BY <1>2, <2>3, <4>1 DEF EndToken, Reading
    <3>3. CASE HandleNotification(p) \/ StoreToken(p) \/ ChangesDone(p)
      BY <1>2, <3>3 DEF HandleNotification, StoreToken, ChangesDone, Goto, Reading
    <3>4. CASE gpc[p] \notin {"token", "list"}
      BY <1>1, <1>5, <3>4, TokenFrame DEF Reading
    <3>5. CASE gpc[p] \in {"token", "list"} /\ ~ReadToken(p) /\ ~ListChanges(p)
      BY <1>5, <3>5 DEF HandleNotification, Goroutine, StoreToken, ChangesDone, LockDoc, GetLastSeen,
         ListComments, SaveLastSeen, HandleEvents, CreateTask
    <3> QED BY <3>1, <3>2, <3>4, <3>5
  <2>5. pageToken' > 0 /\ pageToken' <= EndToken
    BY <1>2, <2>1, <2>3 DEF Reading
  <2>6. EndToken' = EndToken
    BY <2>1 DEF EndToken
  <2>7. up' /\ (watch' <=> wpc' = "watching")
    BY <1>1, <2>1 DEF Tokens
  <2>8. wtok' > 0 /\ wtok' <= EndToken
    BY <1>1, <2>1, <2>2 DEF Tokens
  <2>9. \A q \in Proc : /\ gpc'[q] \in Reading => tok'[q] \in 1..EndToken
                        /\ gpc'[q] = "list" => page'[q] < tok'[q]
    BY <1>1, <2>1, <2>4 DEF Tokens
  <2> QED BY <2>1, <2>2, <2>5, <2>6, <2>7, <2>8, <2>9 DEF Tokens
<1> HIDE DEF contentVars, driveVars, watchVars, procVars, requestVars, bounds
<1> QED BY <1>3, <1>4, <1>5, CalmSteps

\* A write in c's document is ahead of every token; one elsewhere changes nothing for c.
LEMMA WriteForgetsNothing ==
  ASSUME BaseInv, Tokens, NEW b \in Comment, Writes(b), NEW c \in Comment,
         Due(c)', Due(c) => Carried(c) \/ Ahead(c)
  PROVE  Carried(c)' \/ Ahead(c)'
<1> USE DEF Due
<1>1. /\ log \in Seq(Doc) /\ Len(log) \in Nat /\ DOMAIN log = 1..Len(log) /\ due \in Nat
      /\ gpc \in [Proc -> GoroutineStates] /\ DocOf[b] \in Doc /\ pageToken \in Nat
      /\ tok \in [Proc -> Nat] /\ MaxPages \in Nat
  BY GoogleDocsAssumption DEF BaseInv, TypeOK
<1>2. /\ Len(log') = Len(log) + 1 /\ DOMAIN log' = 1..Len(log) + 1
      /\ log'[Len(log) + 1] = DocOf[b] /\ \A i \in DOMAIN log : log'[i] = log[i]
  BY <1>1 DEF Writes
<1>3. /\ UNCHANGED <<watch, wpc, wtok, pageToken, tok, page, todo, doc, found, handed, up>>
      /\ due' \in Nat /\ due' >= due /\ (watch => due' > 0)
  BY DEF Writes, watchVars
<1>4. /\ \A p \in Proc : gpc'[p] = gpc[p] \/ (gpc[p] = "ack" /\ gpc'[p] = "task")
      /\ \A p \in Proc : gpc'[p] \in Reading => gpc[p] \in Reading
  BY <1>1 DEF Writes, Reading
<1>5. CASE DocOf[b] = DocOf[c]
  <2>1. Len(log) + 1 \in DOMAIN log' /\ log'[Len(log) + 1] = DocOf[c]
    BY <1>1, <1>2, <1>5
  <2>2. pageToken' <= Len(log) + 1 /\ \A p \in Proc : gpc'[p] \in Reading => tok'[p] <= Len(log) + 1
    BY <1>1, <1>3, <1>4 DEF Tokens, EndToken
  <2>3. Expected'
    BY <1>3 DEF Tokens, Expected
  <2> QED BY <2>1, <2>2, <2>3 DEF Ahead, NotPast
<1>6. CASE DocOf[b] # DocOf[c]
  <2>1. c # b
    BY <1>6
  <2>2. /\ mtime'[c] = mtime[c] /\ last'[c] = last[c] /\ (c \in resolved' <=> c \in resolved)
        /\ (c \in passed' <=> c \in passed)
    BY <2>1 DEF Writes, Written
  <2>3. IsRelevantComment(c) /\ <<c, mtime[c]>> \notin handed /\ c \notin passed
    BY <1>3, <2>2 DEF IsRelevantComment
  <2>4. Watched(c)
    <3>1. PICK i \in DOMAIN log' : i >= wtok' /\ log'[i] = DocOf[c]
      BY DEF Watched
    <3>2. i \in DOMAIN log
      BY <1>1, <1>2, <1>6, <3>1
    <3>3. wpc # "start"
      BY <1>3 DEF Watched
    <3> QED BY <1>2, <1>3, <3>1, <3>2, <3>3 DEF Watched
  <2>5. CASE Carried(c)
    <3>1. PICK p \in Proc : CarriedBy(p, c)
      BY <2>5 DEF Carried
    <3>2. gpc'[p] = gpc[p] \/ (gpc[p] = "ack" /\ gpc'[p] = "task")
      BY <1>4
    <3>3. CarriedBy(p, c)'
      BY <1>3, <2>2, <3>1, <3>2 DEF CarriedBy
    <3> QED BY <3>3 DEF Carried
  <2>6. CASE Ahead(c)
    <3>1. PICK i \in DOMAIN log : log[i] = DocOf[c] /\ NotPast(i)
      BY <2>6 DEF Ahead
    <3>2. i \in DOMAIN log' /\ log'[i] = DocOf[c] /\ NotPast(i)'
      BY <1>1, <1>2, <1>3, <1>4, <3>1 DEF NotPast
    <3>3. Len(log') < MaxPages => Len(log) < MaxPages
      BY <1>1, <1>2
    <3>4. Expected => Expected'
      <4>1. \A p \in Proc : gpc[p] \in {"token", "list"} => gpc'[p] = gpc[p]
        BY <1>4
      <4>2. due > 0 => due' > 0
        BY <1>1, <1>3
      <4> QED BY <1>3, <4>1, <4>2 DEF Expected
    <3> QED BY <2>6, <3>2, <3>3, <3>4 DEF Ahead
  <2> QED BY <2>3, <2>4, <2>5, <2>6
<1> QED BY <1>5, <1>6

\* Nor does the watch loop lose a change: before it watches there are only changes ahead.
LEMMA WatchForgetsNothing ==
  ASSUME BaseInv, Tokens, UNCHANGED driveVars, ~Errs, NEW c \in Comment,
         WatchLoop \/ Start \/ UNCHANGED vars,
         Due(c)', Due(c) => Carried(c) \/ Ahead(c)
  PROVE  Carried(c)' \/ Ahead(c)'
<1> USE DEF watchVars, procVars, requestVars, bounds, Due
<1>1. /\ UNCHANGED <<log, mtime, last, resolved, passed>>
      /\ DOMAIN log = 1..Len(log) /\ Len(log) \in Nat /\ wtok \in Nat /\ due \in Nat
  BY DEF contentVars, driveVars, BaseInv, TypeOK
<1>2. /\ IsRelevantComment(c) /\ (Watched(c)' /\ wtok' = wtok /\ wpc # "start" => Watched(c))
      /\ UNCHANGED <<gpc, tok, page, todo, doc, found, handed>>
  <2>1. UNCHANGED <<gpc, tok, page, todo, doc, found, handed>>
    BY DEF WatchLoop, GetStartToken, StoreStartToken, Watch, Start, vars
  <2> QED BY <1>1, <2>1 DEF IsRelevantComment, Watched
<1>3. CASE GetStartToken
  <2>1. wtok' = Len(log) + 1
    BY <1>3 DEF GetStartToken, EndToken
  <2> QED BY <1>1, <2>1 DEF Watched
<1>4. CASE StoreStartToken
  <2>1. wpc' = "watch" /\ pageToken' = wtok /\ wtok' = wtok /\ wpc = "store"
    BY <1>4 DEF StoreStartToken
  <2>2. PICK i \in DOMAIN log : i >= wtok /\ log[i] = DocOf[c]
    BY <1>1, <2>1 DEF Watched
  <2>3. \A p \in Proc : gpc'[p] \notin Reading
    BY <1>2, <2>1 DEF Tokens, Reading
  <2>4. NotPast(i)'
    BY <1>1, <2>1, <2>2, <2>3 DEF NotPast
  <2>5. Expected'
    BY <2>1 DEF Expected
  <2> QED BY <1>1, <2>2, <2>4, <2>5 DEF Ahead
<1>5. CASE Watch
  <2>1. /\ wpc = "watch" /\ wtok' = wtok /\ pageToken' = pageToken
        /\ due' = IF EndToken > wtok /\ due = 0 THEN 1 ELSE due
    BY <1>5 DEF Watch
  <2>2. due = 0 /\ \A p \in Proc : gpc[p] = "idle"
    BY <2>1 DEF Tokens
  <2>3. PICK i \in DOMAIN log : i >= wtok
    BY <1>1, <2>1 DEF Watched
  <2>4. due' > 0
    BY <1>1, <2>1, <2>2, <2>3 DEF EndToken
  <2>5. mtime'[c] = mtime[c] /\ ~Carried(c)
    BY <1>1, <2>2 DEF Carried, CarriedBy
  <2>6. Ahead(c)
    BY <1>1, <1>2, <2>1, <2>5
  <2>7. PICK j \in DOMAIN log : log[j] = DocOf[c] /\ NotPast(j)
    BY <2>6 DEF Ahead
  <2>8. NotPast(j)'
    BY <1>2, <2>1, <2>7 DEF NotPast
  <2> QED BY <1>1, <2>4, <2>7, <2>8 DEF Ahead, Expected
<1>6. CASE Start \/ UNCHANGED vars
  <2>1. UNCHANGED <<wpc, wtok, pageToken, due>>
    BY <1>6 DEF Start, vars
  <2>2. Due(c)
    BY <1>1, <1>2, <2>1 DEF Watched
  <2>3. Carried(c) => Carried(c)'
    BY <1>1, <1>2 DEF Carried, CarriedBy
  <2>4. Ahead(c) => Ahead(c)'
    BY <1>1, <1>2, <2>1 DEF Ahead, NotPast, Expected
  <2> QED BY <1>2, <2>2, <2>3, <2>4
<1> QED BY <1>3, <1>4, <1>5, <1>6 DEF WatchLoop

\* A goroutine that lists a change of c's document will check the document, and until it
\* does none of its steps drops c.
LEMMA GoroutineForgetsNothing ==
  ASSUME BaseInv, SkipInv, Tokens, Undisturbed, ~Errs, NEW c \in Comment,
         UNCHANGED contentVars, passed \subseteq passed',
         NEW p \in Proc, HandleNotification(p) \/ Goroutine(p), ~Acknowledge(p),
         Due(c)', Due(c) => Carried(c) \/ Ahead(c)
  PROVE  Carried(c)' \/ Ahead(c)'
<1> USE DEF watchVars, procVars, requestVars, bounds, Due
<1>1. /\ UNCHANGED <<log, mtime, last, resolved>>
      /\ DOMAIN log = 1..Len(log) /\ Len(log) \in Nat /\ due \in Nat /\ DocOf[c] \in Doc
      /\ gpc \in [Proc -> GoroutineStates] /\ tok \in [Proc -> Nat] /\ page \in [Proc -> Nat]
      /\ todo \in [Proc -> SUBSET Doc] /\ doc \in [Proc -> Doc] /\ found \in [Proc -> SUBSET Request]
      /\ mtime \in [Comment -> Nat] /\ pageToken \in Nat /\ MaxPages \in Nat
  BY GoogleDocsAssumption DEF contentVars, driveVars, BaseInv, TypeOK
<1>2. /\ UNCHANGED <<watch, wpc, wtok, up>>
      /\ \A q \in Proc \ {p} : /\ gpc'[q] = gpc[q] /\ doc'[q] = doc[q] /\ found'[q] = found[q]
                               /\ tok'[q] = tok[q] /\ page'[q] = page[q] /\ todo'[q] = todo[q]
      /\ pageToken' = IF gpc[p] = "store" THEN tok[p] ELSE pageToken
      /\ due' = IF gpc[p] = "idle" THEN due - 1 ELSE due
      /\ gpc[p] = "idle" => due > 0
      /\ gpc[p] \notin {"token", "list", "docs"} => UNCHANGED <<tok, todo>>
      /\ gpc'[p] \in Reading => gpc[p] \in {"token", "list"}
      /\ handed \subseteq handed'
  BY TokenFrame, GoroutineFrame DEF BaseInv
<1>3. Watched(c) /\ IsRelevantComment(c) /\ <<c, mtime[c]>> \notin handed /\ c \notin passed
  BY <1>1, <1>2 DEF Watched, IsRelevantComment
<1>4. wpc = "watching" /\ pageToken > 0
  <2>1. gpc[p] = "idle" => due # 0
    BY <1>1, <1>2
  <2> QED BY <2>1 DEF Tokens
<1>5. ASSUME NEW q \in Proc \ {p}, CarriedBy(q, c) PROVE Carried(c)'
  <2>1. CarriedBy(q, c)'
    BY <1>1, <1>2, <1>5 DEF CarriedBy
  <2> QED BY <2>1 DEF Carried
<1>6. ASSUME CarriedBy(p, c) PROVE Carried(c)'
  <2>1. CASE ListChanges(p)
    <3>1. gpc'[p] \in {"list", "store"} /\ todo[p] \subseteq todo'[p] /\ gpc[p] = "list"
      BY <1>1, <2>1 DEF ListChanges, Goto
    <3> QED BY <1>6, <3>1 DEF CarriedBy, Carried
  <2>2. CASE StoreToken(p)
    BY <1>1, <1>6, <2>2 DEF StoreToken, Goto, CarriedBy, Carried
  <2>3. ASSUME NEW d \in Doc, LockDoc(p, d) PROVE Carried(c)'
    BY <1>1, <1>6, <2>3 DEF LockDoc, Goto, CarriedBy, Carried
  <2>4. CASE GetLastSeen(p)
    BY <1>1, <1>6, <2>4 DEF GetLastSeen, Goto, CarriedBy, Carried
  <2>5. CASE ListComments(p)
    <3>t. Types
      BY TypeParts DEF BaseInv
    <3>1. gpc[p] = "comments" /\ todo' = todo /\ doc' = doc
      BY <2>5 DEF ListComments
    <3>2. CASE DocOf[c] \in todo[p]
      <4>1. gpc'[p] \in {"docs", "comments", "save"}
        BY <1>1, <2>5, <3>t, <3>1, Listing DEF NextDoc, Goto
      <4> QED BY <3>1, <3>2, <4>1 DEF CarriedBy, Carried
    <3>3. CASE doc[p] = DocOf[c]
      <4>1. lock[doc[p]] = p /\ since[p] = lastSeen[doc[p]]
        BY <3>1 DEF BaseInv, LockInv, LockOK, FoundInv, FoundOK, Checking
      <4>2. ~(mtime[c] < lastSeen[DocOf[c]])
        <5>1. restarts = 0 /\ NotSkipped
          BY DEF Undisturbed, SkipInv
        <5>2. ASSUME NEW q \in Proc, gpc[q] = "handle", lock[DocOf[c]] = q PROVE FALSE
          BY <3>1, <3>3, <4>1, <5>2
        <5> QED BY <1>3, <5>1, <5>2 DEF NotSkipped, Skipped
      <4>3. mtime[c] >= since[p]
        BY <1>1, <3>3, <4>1, <4>2 DEF BaseInv, TypeOK
      <4>4. c \in behind[p] => <<c, mtime[c]>> \in found[p]
        BY <1>3, <3>1, <4>3 DEF SkipInv, ListedInv, Listed
      <4>5. c \notin behind[p] => c \in Rest(p)
        BY <1>3, <3>3, <4>3 DEF Rest, IsRelevantComment
      <4>6. ASSUME NEW P \in SUBSET Rest(p), Rest(p) \ P \subseteq passed'
            PROVE  <<c, mtime[c]>> \in found[p] \cup OnPage(P)
        BY <1>3, <3>t, <4>4, <4>5, <4>6, PageFacts
      <4>7. ~(\E P \in SUBSET Rest(p) : found[p] \cup OnPage(P) = {} /\ Rest(p) \ P \subseteq passed')
        BY <4>6
      <4>8. CASE UNCHANGED gpc
        BY <3>1, <3>3, <4>8 DEF CarriedBy, Carried
      <4>9. ASSUME gpc' = [gpc EXCEPT ![p] = "save"], NEW P \in SUBSET Rest(p),
                   found' = [found EXCEPT ![p] = @ \cup OnPage(P)], Rest(p) \ P \subseteq passed'
            PROVE  Carried(c)'
        <5>1. gpc'[p] = "save" /\ <<c, mtime[c]>> \in found'[p]
          BY <1>1, <4>6, <4>9
        <5> QED BY <1>1, <5>1 DEF CarriedBy, Carried
      <4> QED BY <2>5, <3>t, <4>7, <4>8, <4>9, Listing
    <3> QED BY <1>6, <3>1, <3>2, <3>3 DEF CarriedBy
  <2>6. CASE SaveLastSeen(p)
    BY <1>1, <1>6, <2>6 DEF SaveLastSeen, Goto, CarriedBy, Carried
  <2>7. CASE HandleEvents(p)
    <3>1. gpc[p] = "handle" /\ found[p] \subseteq handed' /\ todo' = todo /\ gpc'[p] \in {"docs", "ack"}
      BY <1>1, <2>7 DEF HandleEvents, NextDoc, Goto
    <3>2. <<c, mtime[c]>> \notin found[p]
      BY <1>1, <3>1
    <3> QED BY <1>6, <3>1, <3>2 DEF CarriedBy, Carried
  <2>8. CASE CreateTask(p)
    BY <1>1, <1>6, <2>8 DEF CreateTask, NextDoc, Goto, CarriedBy, Carried
  <2>9. CASE HandleNotification(p) \/ ReadToken(p) \/ ChangesDone(p)
    BY <1>6, <2>9 DEF HandleNotification, ReadToken, ChangesDone, CarriedBy
  <2> QED BY <2>1, <2>2, <2>3, <2>4, <2>5, <2>6, <2>7, <2>8, <2>9 DEF Goroutine
<1>7. ASSUME NEW i \in DOMAIN log, log[i] = DocOf[c], NotPast(i), Len(log) < MaxPages => Expected
      PROVE  Carried(c)' \/ Ahead(c)'
  <2>1. /\ pageToken <= i /\ i <= Len(log) /\ i \in Nat
        /\ \A q \in Proc : gpc[q] \in Reading => tok[q] <= i
    BY <1>1, <1>7 DEF NotPast
  <2>2. \A q \in Proc \ {p} : gpc'[q] \in Reading => tok'[q] <= i
    BY <1>2, <2>1
  <2>3. pageToken' <= i
    BY <1>2, <2>1 DEF Reading
  <2>4. CASE HandleNotification(p)
    <3>1. gpc'[p] = "token"
      BY <1>1, <2>4 DEF HandleNotification, Goto
    <3> QED BY <1>1, <1>7, <2>2, <2>3, <3>1 DEF Ahead, NotPast, Expected, Reading
  <2>5. CASE ReadToken(p)
    <3>1. gpc'[p] = "list" /\ tok'[p] = pageToken
      BY <1>1, <1>4, <2>5 DEF ReadToken, Goto
    <3> QED BY <1>1, <1>7, <2>1, <2>2, <2>3, <3>1 DEF Ahead, NotPast, Expected, Reading
  <2>6. CASE ListChanges(p)
    <3>1. /\ gpc[p] = "list" /\ page'[p] = page[p] + 1
          /\ todo'[p] = todo[p] \cup {log[j] : j \in DOMAIN log \cap {tok[p]}}
          /\ tok'[p] = IF tok[p] < EndToken THEN tok[p] + 1 ELSE EndToken
          /\ gpc'[p] = IF tok'[p] = EndToken \/ page'[p] = MaxPages THEN "store" ELSE "list"
      BY <1>1, <2>6 DEF ListChanges, Goto
    <3>2. tok[p] <= i /\ page[p] < tok[p] /\ tok[p] \in Nat /\ page[p] \in Nat
      BY <1>1, <2>1, <3>1 DEF Tokens, Reading
    <3>3. CASE tok[p] = i
      <4>1. DocOf[c] \in todo'[p]
        BY <1>7, <3>1, <3>3
      <4> QED BY <3>1, <4>1 DEF CarriedBy, Carried
    <3>4. CASE tok[p] < i
      <4>1. tok'[p] = tok[p] + 1 /\ tok'[p] <= i /\ tok'[p] # EndToken
        BY <2>1, <3>1, <3>2, <3>4 DEF EndToken
      <4>2. Len(log) < MaxPages => page'[p] # MaxPages
        BY <1>1, <2>1, <3>1, <3>2, <3>4
      <4>3. Len(log) < MaxPages => gpc'[p] = "list"
        BY <3>1, <4>1, <4>2
      <4>4. NotPast(i)'
        BY <2>2, <2>3, <4>1 DEF NotPast
      <4>5. Len(log) < MaxPages => Expected'
        BY <4>3 DEF Expected
      <4> QED BY <1>1, <1>7, <4>4, <4>5 DEF Ahead
    <3> QED BY <2>1, <3>2, <3>3, <3>4
  <2>7. CASE gpc[p] \notin {"idle", "token", "list"}
    <3>1. gpc'[p] \notin Reading /\ due' = due /\ wpc' = wpc
      BY <1>2, <2>7
    <3>2. Expected => Expected'
      BY <1>2, <2>7, <3>1 DEF Expected
    <3> QED BY <1>1, <1>7, <2>2, <2>3, <3>1, <3>2 DEF Ahead, NotPast
  <2>8. CASE gpc[p] \in {"idle", "token", "list"} /\ ~HandleNotification(p) /\ ~ReadToken(p) /\ ~ListChanges(p)
    BY <2>8 DEF Goroutine, StoreToken, ChangesDone, LockDoc, GetLastSeen, ListComments, SaveLastSeen,
       HandleEvents, CreateTask
  <2> QED BY <2>4, <2>5, <2>6, <2>7, <2>8
<1>8. CASE Carried(c)
  BY <1>5, <1>6, <1>8 DEF Carried
<1>9. CASE Ahead(c)
  BY <1>7, <1>9 DEF Ahead
<1> QED BY <1>3, <1>8, <1>9

\* Together: every action keeps every request in hand or ahead.
LEMMA ForgetStep ==
  ASSUME BaseInv, SkipInv, TokensInv, NotForgotten, [Next]_vars
  PROVE  NotForgotten'
<1> SUFFICES ASSUME Undisturbed', NEW c \in Comment,
                    Due(c)'
             PROVE  Carried(c)' \/ Ahead(c)'
  BY DEF NotForgotten
<1>1. Undisturbed /\ Tokens /\ ~Errs
  BY StillUndisturbed DEF BaseInv, TokensInv
<1>2. Due(c) => Carried(c) \/ Ahead(c)
  BY <1>1 DEF NotForgotten
<1>3. CASE \E b \in Comment : Writes(b)
  BY <1>1, <1>2, <1>3, WriteForgetsNothing
<1>4. CASE UNCHANGED driveVars /\ (WatchLoop \/ Start \/ UNCHANGED vars)
  BY <1>1, <1>2, <1>4, WatchForgetsNothing
<1>5. CASE /\ UNCHANGED contentVars /\ passed \subseteq passed'
           /\ \E p \in Proc : (HandleNotification(p) \/ Goroutine(p)) /\ ~Acknowledge(p)
  BY <1>1, <1>2, <1>5, GoroutineForgetsNothing
<1> QED BY <1>3, <1>4, <1>5, CalmSteps

-----------------------------------------------------------------------------
(* Theorems *)

\* Nothing has been found, stored or accepted in the beginning.
LEMMA InitBase == Init => BaseInv /\ SkipInv /\ OnceInv
<1> SUFFICES ASSUME Init PROVE BaseInv /\ SkipInv /\ OnceInv
  OBVIOUS
<1>1. TypeOK
  BY InitTypes
<1>2. /\ now = 1 /\ mtime = [c \in Comment |-> 0] /\ lastSeen = [d \in Doc |-> 0] /\ accepted = {}
      /\ gpc = [p \in Proc |-> "idle"] /\ found = [p \in Proc |-> {}] /\ behind = [p \in Proc |-> {}]
  BY DEF Init, NoGoroutines
<1>3. TimesInv
  BY <1>2 DEF TimesInv
<1>4. LockInv /\ FoundInv /\ CursorInv
  BY <1>2 DEF LockInv, LockOK, FoundInv, FoundOK, CursorInv, CursorOK, Checking, Holding
<1>5. SkipInv
  BY <1>2, GoogleDocsAssumption DEF SkipInv, ListedInv, Listed, NotSkipped, Skipped
<1>6. OnceInv
  BY <1>2 DEF OnceInv, OnceOK, Holding
<1> QED BY <1>1, <1>3, <1>4, <1>5, <1>6 DEF BaseInv

\* Every variable keeps its type.  What a goroutine stores as last-seen time is a time
\* because it has found something and nothing it found is later than now, so this takes
\* the whole of BaseInv.
THEOREM DocsTypes == Spec => []TypeOK
<1>1. Init => BaseInv
  BY InitBase
<1>2. BaseInv /\ [Next]_vars => BaseInv'
  BY BaseStep
<1>3. BaseInv => TypeOK
  BY DEF BaseInv
<1> QED BY <1>1, <1>2, <1>3, PTL DEF Spec

\* The last-seen time that checkDocumentComments stores passes no request it does not
\* hand over, unless the request was made between two pages of a listing, in a thread
\* the listing was past, or was on none of the pages fetched, if no two writes fall in
\* the same millisecond and a listing names a thread at most once.
THEOREM NothingIsSkipped ==
  ASSUME MinGap = 1
  PROVE  Spec => []NotSkipped
<1>1. Init => BaseInv /\ SkipInv
  BY InitBase
<1>2. BaseInv /\ SkipInv /\ [Next]_vars => BaseInv' /\ SkipInv'
  BY BaseStep, SkipStep
<1>3. SkipInv => NotSkipped
  BY DEF SkipInv
<1> QED BY <1>1, <1>2, <1>3, PTL DEF Spec

\* A request gets at most one task, however many goroutines check its document and
\* however often the process restarts, if no two writes fall in the same millisecond
\* and at most one call fails.
THEOREM RequestsGetOneTask ==
  ASSUME MinGap = 1, MaxFaults <= 1
  PROVE  Spec => []AcceptedOnce
<1>1. Init => BaseInv /\ OnceInv
  BY InitBase
<1>2. BaseInv /\ OnceInv /\ [Next]_vars => BaseInv' /\ OnceInv'
  BY BaseStep, OnceStep
<1>3. OnceInv => AcceptedOnce
  BY DEF OnceInv, OnceOK, AcceptedOnce, Holding
<1> QED BY <1>1, <1>2, <1>3, PTL DEF Spec

\* The last-seen time of a document never goes back, whichever goroutines check it at the
\* same time, calls fail and processes end: a check never finds again what an earlier one
\* has passed.
LastSeenOnlyGrows == [][\A d \in Doc : lastSeen'[d] >= lastSeen[d]]_vars

\* checkDocumentComments reads, and later stores, the time under the document's mutex.
THEOREM LastSeenNeverGoesBack == Spec => LastSeenOnlyGrows
<1>1. Init => BaseInv
  BY InitBase
<1>2. BaseInv /\ [Next]_vars => BaseInv'
  BY BaseStep
<1>3. BaseInv /\ [Next]_vars => [\A d \in Doc : lastSeen'[d] >= lastSeen[d]]_vars
  BY LastSeenStep
<1> QED BY <1>1, <1>2, <1>3, PTL DEF Spec, LastSeenOnlyGrows

\* No request of a watched document is forgotten because goroutines overtake each other
\* (processChanges reads, lists from and stores one shared page token), if no two writes
\* fall in the same millisecond; only a listing of several pages can go past one.
THEOREM RequestsAreNotForgotten ==
  ASSUME MinGap = 1
  PROVE  Spec => []NotForgotten
<1>1. Init => TokensInv /\ NotForgotten
  BY DEF Init, NoGoroutines, TokensInv, Tokens, EndToken, Reading, NotForgotten, Due, Watched
<1>2. BaseInv /\ SkipInv /\ TokensInv /\ NotForgotten /\ [Next]_vars =>
        BaseInv' /\ SkipInv' /\ TokensInv' /\ NotForgotten'
  BY BaseStep, SkipStep, TokensStep, ForgetStep
<1> QED BY <1>1, <1>2, InitBase, PTL DEF Spec
=============================================================================

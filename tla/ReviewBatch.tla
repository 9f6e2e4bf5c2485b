---------------------------- MODULE ReviewBatch ----------------------------
(***************************************************************************)
(* How one answer is divided among the comments of a review                *)
(* (internal/engine/worker.go, the end of processTask): the worker numbers *)
(* the comments in the prompt, the executor answers with one text that     *)
(* should have a section per number, and the worker cuts it up and sends   *)
(* every comment its section.  The executor is external and writes what it *)
(* likes.                                                                  *)
(*                                                                         *)
(* The answer is a sequence of lines: a header with a number, a header     *)
(* whose number strconv.Atoi refuses, a line of text or a blank one.  A    *)
(* piece of the answer is the interval of its first and its last line.     *)
(***************************************************************************)
EXTENDS Naturals, Sequences

CONSTANTS
  Comment,            \* the comments of a review, one task each
  Batches,            \* the lists of tasks that a worker may have: its own first
  Number,             \* the numbers that headers may carry
  TooLarge,           \* a header whose number is not an int
  Text, Blank,        \* lines that are no headers
  Answers,            \* what the executor may answer
  MaxFailedUpdates,   \* bound: updates of tasks that fail
  NoPiece             \* no piece of the answer

Header == Number \cup {TooLarge}
Line == Header \cup {Text, Blank}

ASSUME ReviewBatchAssumption ==
  /\ Batches \subseteq Seq(Comment)
  /\ \A b \in Batches : Len(b) > 0 /\ \A i, j \in 1..Len(b) : b[i] = b[j] => i = j
  /\ Number \subseteq Nat
  /\ {TooLarge, Text, Blank} \cap Nat = {}
  /\ TooLarge # Text /\ Text # Blank /\ Blank # TooLarge
  /\ Answers \subseteq Seq(Line)
  /\ MaxFailedUpdates \in Nat
  /\ NoPiece \notin [from : Nat, to : Nat]

Piece == [from : Nat, to : Nat]

VARIABLES
  order,          \* the tasks of the batch, the primary one first
  bpc,            \* where processTask is
  prompt,         \* the comment that a number stands for in the prompt
  answer,         \* the executor's answer
  match,          \* the line of the header that was read last
  perComment,     \* the section of a number
  turn,           \* the task whose turn it is
  result,         \* the Result saved with a task
  sent,           \* what was sent in reply to a comment
  failedUpdates   \* failed updates so far

vars == <<order, bpc, prompt, answer, match, perComment, turn, result, sent, failedUpdates>>

TypeOK ==
  /\ order \in Seq(Comment)
  /\ bpc \in {"prompt", "execute", "save", "parse", "update", "route", "done"}
  /\ prompt \in Seq(Comment)
  /\ answer \in Seq(Line)
  /\ match \in 0..Len(answer)
  /\ perComment \in [Number -> Piece \cup {NoPiece}]
  /\ turn \in 1..Len(order) + 1
  /\ result \in [Comment -> Piece \cup {NoPiece}]
  /\ sent \in [Comment -> Piece \cup {NoPiece}]
  /\ failedUpdates \in 0..MaxFailedUpdates

\* The primary task is claimed and ClaimPendingTasks has returned the absorbed ones,
\* in no particular order.
Init ==
  /\ order \in Batches
  /\ bpc = "prompt"
  /\ prompt = << >> /\ answer = << >>
  /\ match = 0
  /\ perComment = [k \in Number |-> NoPiece]
  /\ turn = 1
  /\ result = [c \in Comment |-> NoPiece]
  /\ sent = [c \in Comment |-> NoPiece]
  /\ failedUpdates = 0

-----------------------------------------------------------------------------
(* Pieces of the answer.                                                     *)

Whole == [from |-> 1, to |-> Len(answer)]
Empty == [from |-> 1, to |-> 0]

IsHeader(q) == answer[q] \in Header

\* Line e is the first header after line m, or just after the answer if there is none.
EndsAt(m, e) ==
  /\ e \in m + 1..Len(answer) + 1
  /\ e <= Len(answer) => IsHeader(e)
  /\ \A q \in m + 1..e - 1 : ~IsHeader(q)

\* strings.TrimSpace: r is what is left of the lines from a to b.
IsTrimmed(r, a, b) ==
  /\ \A q \in a..b : answer[q] = Text => q \in r.from..r.to
  /\ \/ r = Empty
     \/ /\ a <= r.from /\ r.from <= r.to /\ r.to <= b
        /\ answer[r.from] = Text /\ answer[r.to] = Text

-----------------------------------------------------------------------------
(* processTask.                                                              *)

\* Variant with a fault: only the absorbed tasks are numbered.
NumberAbsorbed ==
  /\ bpc = "prompt"
  /\ prompt' = Tail(order)
  /\ bpc' = "execute"
  /\ UNCHANGED <<order, answer, match, perComment, turn, result, sent, failedUpdates>>

\* Comments are numbered if there are several; a single one is the prompt as it is.
BuildMergedReviewInput ==
  /\ bpc = "prompt"
  /\ prompt' = IF Len(order) > 1 THEN order ELSE << >>
  /\ bpc' = "execute"
  /\ UNCHANGED <<order, answer, match, perComment, turn, result, sent, failedUpdates>>

Execute ==
  /\ bpc = "execute"
  /\ answer' \in Answers
  /\ bpc' = "save"
  /\ UNCHANGED <<order, prompt, match, perComment, turn, result, sent, failedUpdates>>

\* UpdateTask saves a Result with a task, or fails, with or without an effect.
Save(c, r) == result' = [result EXCEPT ![c] = r] /\ UNCHANGED failedUpdates
SaveFails(c, r) ==
  /\ failedUpdates < MaxFailedUpdates
  /\ failedUpdates' = failedUpdates + 1
  /\ result' \in {result, [result EXCEPT ![c] = r]}

\* The primary task is completed with the whole answer; if that fails nothing is sent.
SavePrimary ==
  /\ bpc = "save"
  /\ \/ Save(order[1], Whole) /\ bpc' = IF Len(order) > 1 THEN "parse" ELSE "route"
     \/ SaveFails(order[1], Whole) /\ bpc' = "done"
  /\ UNCHANGED <<order, prompt, answer, match, perComment, turn, sent>>

\* Variant with a fault: every section reaches to the end of the answer.
ParseToEnd ==
  /\ bpc = "parse"
  /\ \E j \in 1..Len(answer) :
       /\ EndsAt(match, j)
       /\ match' = j
       /\ \/ answer[j] = TooLarge /\ UNCHANGED perComment
          \/ /\ answer[j] # TooLarge
             /\ perComment' = [perComment EXCEPT ![answer[j]] = [from |-> j + 1, to |-> Len(answer)]]
  /\ UNCHANGED <<order, bpc, prompt, answer, turn, result, sent, failedUpdates>>

\* parseCommentResponses, for the next header: the lines up to the header after it
\* are the section of its number, in place of an earlier one.
ParseCommentResponses ==
  /\ bpc = "parse"
  /\ \E j \in 1..Len(answer) :
       /\ EndsAt(match, j)
       /\ match' = j
       /\ \/ answer[j] = TooLarge /\ UNCHANGED perComment
          \/ /\ answer[j] # TooLarge
             /\ \E e \in 1..Len(answer) + 1, from, to \in 0..Len(answer) :
                  /\ EndsAt(j, e) /\ IsTrimmed([from |-> from, to |-> to], j + 1, e - 1)
                  /\ perComment' = [perComment EXCEPT ![answer[j]] = [from |-> from, to |-> to]]
  /\ UNCHANGED <<order, bpc, prompt, answer, turn, result, sent, failedUpdates>>

\* There is no header left.
ParseDone ==
  /\ bpc = "parse" /\ EndsAt(match, Len(answer) + 1)
  /\ bpc' = "route"
  /\ UNCHANGED <<order, prompt, answer, match, perComment, turn, result, sent, failedUpdates>>

\* The response of the task at hand: the section of its number, or the whole answer.
Response ==
  IF turn \in Number /\ perComment[turn] # NoPiece THEN perComment[turn] ELSE Whole

\* Variant with a fault: an update that fails ends the loop.
UpdateAbsorbedOrReturn ==
  /\ bpc = "update"
  /\ \/ Save(order[turn], Response) /\ bpc' = "route"
     \/ SaveFails(order[turn], Response) /\ bpc' = "done"
  /\ UNCHANGED <<order, prompt, answer, match, perComment, turn, sent>>

\* An absorbed task is completed before its response is sent, which happens all the
\* same if that fails.
UpdateAbsorbed ==
  /\ bpc = "update"
  /\ Save(order[turn], Response) \/ SaveFails(order[turn], Response)
  /\ bpc' = "route"
  /\ UNCHANGED <<order, prompt, answer, match, perComment, turn, sent>>

\* Variant with a fault: the loop forgets to stop.
RouteOn ==
  /\ bpc = "route"
  /\ sent' = [sent EXCEPT ![order[turn]] = Response]
  /\ turn' = turn + 2
  /\ bpc' = IF turn + 1 > Len(order) THEN "done" ELSE "update"
  /\ UNCHANGED <<order, prompt, answer, match, perComment, result, failedUpdates>>

RouteResponse ==
  /\ bpc = "route"
  /\ sent' = [sent EXCEPT ![order[turn]] = Response]
  /\ turn' = turn + 1
  /\ bpc' = IF turn = Len(order) THEN "done" ELSE "update"
  /\ UNCHANGED <<order, prompt, answer, match, perComment, result, failedUpdates>>

Next ==
  \/ BuildMergedReviewInput \/ Execute \/ SavePrimary \/ ParseCommentResponses \/ ParseDone
  \/ UpdateAbsorbed \/ RouteResponse

Spec == Init /\ [][Next]_vars

\* The worker's goroutine keeps running, and the executor ends within its timeout.
FairSpec == Spec /\ WF_vars(Next)

-----------------------------------------------------------------------------
\* The number a comment has in the prompt is k.
HasNumber(c, k) == k \in 1..Len(prompt) /\ prompt[k] = c

\* Line j is the last header with number k.
LastHeader(k, j) ==
  /\ j \in 1..Len(answer) /\ answer[j] = k
  /\ \A q \in j + 1..Len(answer) : answer[q] # k

\* The reply r has the text below header j, all of it, and nothing from beyond the
\* next header.
IsSection(r, j) ==
  /\ \A q \in r.from..r.to : q \in j + 1..Len(answer) /\ \A h \in j + 1..q : ~IsHeader(h)
  /\ \A q \in j + 1..Len(answer) :
       answer[q] = Text /\ (\A h \in j + 1..q : ~IsHeader(h)) => q \in r.from..r.to

\* Whatever the executor writes (no headers, some of them, in any order, repeated, with
\* numbers that were not given or that are none), a comment is answered with the last
\* section under the number the prompt gave to it, or with the whole answer if it has
\* none.  processTask counts from 0 and the prompt from 1, and the tasks come in the
\* order of ClaimPendingTasks.
AnsweredWithOwnSection ==
  \A c \in Comment :
    sent[c] # NoPiece =>
      \/ /\ sent[c] = Whole
         /\ \A k \in 1..Len(prompt) :
              HasNumber(c, k) => \A q \in 1..Len(answer) : answer[q] # k
      \/ \E k \in 1..Len(prompt), j \in 1..Len(answer) :
           HasNumber(c, k) /\ LastHeader(k, j) /\ IsSection(sent[c], j)

\* Two comments that are both answered with a section share no line of the answer.
SectionsAreDisjoint ==
  \A c, d \in Comment :
    c # d /\ sent[c] \notin {NoPiece, Whole} /\ sent[d] \notin {NoPiece, Whole} =>
      \A q \in 1..Len(answer) :
        ~(q \in sent[c].from..sent[c].to /\ q \in sent[d].from..sent[d].to)

\* Once the primary task is saved, every comment of the batch is answered, also when
\* updates of absorbed tasks fail.
EveryCommentIsAnswered ==
  bpc \in {"parse", "route"} ~> \A i \in 1..Len(order) : sent[order[i]] # NoPiece
=============================================================================

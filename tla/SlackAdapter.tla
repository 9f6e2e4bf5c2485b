---------------------------- MODULE SlackAdapter ----------------------------
(***************************************************************************)
(* The Slack adapter (internal/adapter/slack): one goroutine takes the     *)
(* envelopes of the socket from a channel, one after the other, confirms   *)
(* each before it handles it, fetches the thread of a reply and calls the  *)
(* router.  Slack is external: it sends an envelope again if it was not    *)
(* confirmed in time, or was not when the connection ended.                *)
(***************************************************************************)
EXTENDS Naturals, Sequences, FiniteSets, SequencesExt

CONSTANTS
  Message,       \* messages in the order of their timestamps: 1..n
  IsMention,     \* the messages that mention the bot
  ChannelThread, \* the thread a message is in, named by the message that starts it
  ReplyLimit,    \* how many messages one answer of conversations.replies holds
  MaxLate,       \* bound: envelopes sent again while the first copy waits
  MaxSlackFaults,\* bound: calls that fail
  MaxSlackEnds   \* bound: ends of the process

ASSUME SlackAssumption ==
  /\ IsFiniteSet(Message) /\ Message = 1..Cardinality(Message)
  /\ IsMention \subseteq Message /\ ChannelThread \in [Message -> Message]
  /\ \A m \in Message : ChannelThread[m] <= m
  /\ ReplyLimit \in Nat /\ MaxLate \in Nat /\ MaxSlackFaults \in Nat /\ MaxSlackEnds \in Nat

VARIABLES
  written,      \* how many messages have been written
  socket,       \* envelopes in the channel of the socket client
  confirmed,    \* messages whose envelope was confirmed
  late,         \* how often a message was sent again while its envelope waited
  spc,          \* where the loop is
  current,      \* the message it is at
  context,      \* the thread context a message was handed over with
  slackTasks,   \* how many tasks a message has got
  slackFaults,  \* failed calls so far
  slackEnds     \* ends of the process so far

slackVars == <<written, socket, confirmed, late, spc, current, context, slackTasks,
               slackFaults, slackEnds>>

NoContext == {}

SlackTypeOK ==
  /\ written \in 0..Cardinality(Message)
  /\ socket \in Seq(Message)
  /\ confirmed \subseteq Message
  /\ late \in [Message -> Nat]
  /\ spc \in {"receive", "ack", "fetch", "hand"}
  /\ current \in Message \cup {0}
  /\ context \in [Message -> SUBSET Message]
  /\ slackTasks \in [Message -> Nat]
  /\ slackFaults \in 0..MaxSlackFaults /\ slackEnds \in 0..MaxSlackEnds

SlackInit ==
  /\ written = 0
  /\ socket = << >>
  /\ confirmed = {}
  /\ late = [m \in Message |-> 0]
  /\ spc = "receive" /\ current = 0
  /\ context = [m \in Message |-> NoContext]
  /\ slackTasks = [m \in Message |-> 0]
  /\ slackFaults = 0 /\ slackEnds = 0

LoopAt(s) == spc' = s

SlackErrs == slackFaults < MaxSlackFaults /\ slackFaults' = slackFaults + 1

-----------------------------------------------------------------------------
(* Slack.                                                                    *)

\* A user writes the next message; the app gets an envelope for it.
Write ==
  /\ written + 1 \in Message
  /\ written' = written + 1
  /\ socket' = Append(socket, written + 1)
  /\ UNCHANGED <<confirmed, late, spc, current, context, slackTasks, slackFaults, slackEnds>>

\* An envelope that is not confirmed within seconds is sent again: the loop is busy
\* with an earlier one, or the confirmation was lost.
SendAgain(m) ==
  /\ m \in 1..written /\ m \notin confirmed
  /\ late[m] < MaxLate
  /\ late' = [late EXCEPT ![m] = @ + 1]
  /\ socket' = Append(socket, m)
  /\ UNCHANGED <<written, confirmed, spc, current, context, slackTasks, slackFaults, slackEnds>>

\* The process ends, with all that it has in memory; when the next one connects,
\* Slack sends what was not confirmed, in whatever order.
SlackReconnect ==
  /\ slackEnds < MaxSlackEnds
  /\ slackEnds' = slackEnds + 1
  /\ socket' \in SetToSeqs((1..written) \ confirmed)
  /\ spc' = "receive" /\ current' = 0
  /\ UNCHANGED <<written, confirmed, late, context, slackTasks, slackFaults>>

-----------------------------------------------------------------------------
(* The loop.                                                                 *)

Receive ==
  /\ spc = "receive" /\ socket # << >>
  /\ current' = Head(socket) /\ socket' = Tail(socket)
  /\ LoopAt("ack")
  /\ UNCHANGED <<written, confirmed, late, context, slackTasks, slackFaults, slackEnds>>

\* Variant with a fault: the envelope is confirmed by the last step.
AckLater ==
  /\ spc = "ack"
  /\ LoopAt(IF current \notin IsMention THEN "receive"
            ELSE IF ChannelThread[current] # current THEN "fetch" ELSE "hand")
  /\ UNCHANGED <<written, socket, confirmed, late, current, context, slackTasks,
                 slackFaults, slackEnds>>

\* Variant with a fault: only a mention that starts a thread goes on.
AckRootsOnly ==
  /\ spc = "ack"
  /\ confirmed' = confirmed \cup {current}
  /\ LoopAt(IF current \in IsMention /\ ChannelThread[current] = current THEN "hand" ELSE "receive")
  /\ UNCHANGED <<written, socket, late, current, context, slackTasks, slackFaults, slackEnds>>

\* The envelope is confirmed, at best effort, whatever is in it; only mentions go
\* on, and those in a thread fetch it first.
Ack ==
  /\ spc = "ack"
  /\ \/ confirmed' = confirmed \cup {current} /\ UNCHANGED slackFaults
     \/ SlackErrs /\ UNCHANGED confirmed
  /\ LoopAt(IF current \notin IsMention THEN "receive"
            ELSE IF ChannelThread[current] # current THEN "fetch" ELSE "hand")
  /\ UNCHANGED <<written, socket, late, current, context, slackTasks, slackEnds>>

\* The messages of the thread that one answer holds: the oldest ones.
Replies(m) ==
  LET thread == {k \in 1..written : ChannelThread[k] = ChannelThread[m]}
  IN  {k \in thread : Cardinality({j \in thread : j < k}) < ReplyLimit}

\* Variant with a fault: the thread is that of the message, not of its root.
FetchThreadContextOfMessage ==
  /\ spc = "fetch"
  /\ \/ context' = [context EXCEPT ![current] = {}] /\ UNCHANGED slackFaults
     \/ SlackErrs /\ context' = [context EXCEPT ![current] = NoContext]
  /\ LoopAt("hand")
  /\ UNCHANGED <<written, socket, confirmed, late, current, slackTasks, slackEnds>>

\* fetchThreadContext and formatThreadContext: all but the message itself; an error
\* leaves the context empty.
FetchThreadContext ==
  /\ spc = "fetch"
  /\ \/ context' = [context EXCEPT ![current] = Replies(current) \ {current}] /\ UNCHANGED slackFaults
     \/ SlackErrs /\ context' = [context EXCEPT ![current] = NoContext]
  /\ LoopAt("hand")
  /\ UNCHANGED <<written, socket, confirmed, late, current, slackTasks, slackEnds>>

\* The router's HandleEvent with one event; its error is logged.
Hand ==
  /\ spc = "hand"
  /\ \/ slackTasks' = [slackTasks EXCEPT ![current] = @ + 1] /\ UNCHANGED slackFaults
     \/ SlackErrs /\ UNCHANGED slackTasks
  /\ LoopAt("receive")
  /\ UNCHANGED <<written, socket, confirmed, late, current, context, slackEnds>>

SlackLoop == Receive \/ Ack \/ FetchThreadContext \/ Hand

SlackNext == Write \/ (\E m \in Message : SendAgain(m)) \/ SlackReconnect \/ SlackLoop

-----------------------------------------------------------------------------
\* An end of the process repeats no task: a mention gets one task, and another one
\* only for every time Slack sent it again before it was confirmed, or for a
\* confirmation that failed.  The envelope is
\* confirmed before it is handled for this reason.
RestartRepeatsNoTask ==
  \A m \in Message : slackTasks[m] <= 1 + late[m] + slackFaults

\* A mention in a thread is handed over with all that was written in the thread
\* before it, so that a follow-up makes sense to the executor, unless the request
\* for the thread failed or the thread exceeds the one answer that is requested.
ThreadContextIsComplete ==
  \A m \in Message :
    LET before == {k \in Message : k < m /\ ChannelThread[k] = ChannelThread[m]}
    IN  slackTasks[m] > 0 /\ slackFaults = 0 /\ Cardinality(before) <= ReplyLimit =>
          before \subseteq context[m]

\* Nothing that Slack was told is received is forgotten while the process lives and
\* nothing fails: every mention gets its task.
MentionsBecomeTasks ==
  \A m \in IsMention :
    (m <= written) ~> slackTasks[m] > 0 \/ slackFaults > 0 \/ slackEnds > 0
=============================================================================

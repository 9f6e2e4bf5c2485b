------------------------------ MODULE Adapters ------------------------------
(***************************************************************************)
(* The GitHub and the Slack adapter in one process: main starts the ones   *)
(* that the configuration enables, each in a goroutine of its own and with *)
(* the router's HandleEvent.  They share nothing else.                     *)
(***************************************************************************)
EXTENDS GitHubAdapter, SlackAdapter

CONSTANTS Deployment   \* the sets of adapters that may be enabled

ASSUME AdaptersAssumption == Deployment \subseteq SUBSET {"github", "slack"}

VARIABLES enabled      \* the adapters of this process

vars == <<gitHubVars, slackVars, enabled>>

TypeOK == GitHubTypeOK /\ SlackTypeOK /\ enabled \in Deployment

Init == GitHubInit /\ SlackInit /\ enabled \in Deployment

\* The adapter of GitHub, or of Slack, takes a step.
GitHub == "github" \in enabled /\ GitHubNext /\ UNCHANGED <<slackVars, enabled>>
Slack == "slack" \in enabled /\ SlackNext /\ UNCHANGED <<gitHubVars, enabled>>

Next == GitHub \/ Slack

Spec == Init /\ [][Next]_vars

(***************************************************************************)
(* The goroutine that handles the webhook of a user's item and the loop of *)
(* the Slack adapter keep running.  Nothing is assumed of the handlers of  *)
(* the other webhooks (they are not waited for), of users, of workers, of  *)
(* failing calls or of what GitHub and Slack send again.                   *)
(***************************************************************************)
Fairness ==
  /\ \A i \in Item :
       AuthorOf[i] # Bot => WF_vars(HookStep(Announces(i)) /\ UNCHANGED <<slackVars, enabled>>)
  /\ WF_vars("slack" \in enabled /\ SlackLoop /\ UNCHANGED <<gitHubVars, enabled>>)

FairSpec == Spec /\ Fairness
=============================================================================

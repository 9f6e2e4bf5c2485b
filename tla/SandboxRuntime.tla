---------------------------- MODULE SandboxRuntime ----------------------------
(***************************************************************************)
(* What the executor needs from a sandbox.Runtime (internal/sandbox/       *)
(* sandbox.go): Exec runs one workload and returns once, either an error   *)
(* or an ExecResult.  Its exit code is 0 only if the workload's own was    *)
(* (claudecode.go answers the user with the output when ExitCode is 0),    *)
(* and a success always comes with its output.  That does not make every   *)
(* exit code 0 a success: a workload that the platform gave up after a     *)
(* clean exit is "broken" here, and Exec may return 0 for it, without      *)
(* output.  When Exec returns the workload has been removed, except when   *)
(* the one removal request was itself refused.  DockerSandbox and          *)
(* KubernetesSandbox are both shown to implement this module.              *)
(***************************************************************************)
EXTENDS Naturals

CONSTANT Calls        \* the calls of Exec, each by one worker goroutine

VARIABLES
  phase,      \* phase[c]: "idle", "executing" or "done"
  alive,      \* the calls whose container or job exists and was started
  fate,       \* fate[c]: how far the workload of c got
  abandoned,  \* the calls whose removal request failed
  result      \* result[c]: what Exec returned

vars == <<phase, alive, fate, abandoned, result>>

\* "succeeded" is an exit code 0, "failed" another code or none; "broken" is a
\* workload that ended with 0 and that the platform reports as failed.
Ends == {"succeeded", "failed", "broken"}
Fates == {"unborn", "running"} \cup Ends

\* An ExecResult: its exit code (0, or 1 for every other code) and whether
\* it carries the output of the workload.
ExecResult == [code : 0..1, output : BOOLEAN]

\* "none" before Exec returns; "error" is (nil, err).
Results == {[kind |-> "none"], [kind |-> "error"]}
             \cup [kind : {"result"}, value : ExecResult]

NoResult == [kind |-> "none"]
Error == [kind |-> "error"]
Returned(code, output) == [kind |-> "result", value |-> [code |-> code, output |-> output]]

\* What may be returned once the workload has come to fate f: of a broken one,
\* any code, with or without its output.
Truthful(r, f) ==
  r.kind = "result" => /\ f \in Ends
                       /\ f = "succeeded" => r.value.code = 0 /\ r.value.output
                       /\ f = "failed" => r.value.code # 0

Init == /\ phase = [c \in Calls |-> "idle"]
        /\ alive = {}
        /\ fate = [c \in Calls |-> "unborn"]
        /\ abandoned = {}
        /\ result = [c \in Calls |-> NoResult]

Begin(c) == /\ phase[c] = "idle"
            /\ phase' = [phase EXCEPT ![c] = "executing"]
            /\ UNCHANGED <<alive, fate, abandoned, result>>

Launch(c) == /\ phase[c] = "executing" /\ fate[c] = "unborn"
             /\ alive' = alive \cup {c}
             /\ fate' = [fate EXCEPT ![c] = "running"]
             /\ UNCHANGED <<phase, abandoned, result>>

Finish(c) == /\ c \in alive /\ fate[c] = "running"
             /\ \E f \in Ends : fate' = [fate EXCEPT ![c] = f]
             /\ UNCHANGED <<phase, alive, abandoned, result>>

Remove(c) == /\ phase[c] = "executing" /\ c \in alive
             /\ alive' = alive \ {c}
             /\ UNCHANGED <<phase, fate, abandoned, result>>

Abandon(c) == /\ phase[c] = "executing" /\ c \in alive
              /\ abandoned' = abandoned \cup {c}
              /\ UNCHANGED <<phase, alive, fate, result>>

Return(c) == /\ phase[c] = "executing"
             /\ c \in alive => c \in abandoned
             /\ phase' = [phase EXCEPT ![c] = "done"]
             /\ \E r \in Results \ {NoResult} :
                  Truthful(r, fate[c]) /\ result' = [result EXCEPT ![c] = r]
             /\ UNCHANGED <<alive, fate, abandoned>>

Next == \E c \in Calls : Begin(c) \/ Launch(c) \/ Finish(c) \/ Remove(c)
                         \/ Abandon(c) \/ Return(c)

Spec == Init /\ [][Next]_vars
=============================================================================

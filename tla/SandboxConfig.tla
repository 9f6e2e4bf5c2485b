---------------------------- MODULE SandboxConfig ----------------------------
(***************************************************************************)
(* What the two sandbox runtimes are configured with and called for        *)
(* (internal/sandbox/sandbox.go, ExecConfig), and the bound on failures.   *)
(***************************************************************************)
EXTENDS Naturals

CONSTANTS
  Calls,      \* the calls of Exec, each by one worker goroutine
  Skills,     \* the number of skill images configured
  Limits,     \* the validity of the configured limits: a set of Booleans
  MaxFaults   \* bound: requests or file operations that fail

ASSUME SandboxAssumption ==
  Skills \in Nat /\ MaxFaults \in Nat /\ Limits \subseteq BOOLEAN
=============================================================================

---------------------------- MODULE MCGoogleDocs ----------------------------
(***************************************************************************)
(* Instances of GoogleDocs for TLC.                                        *)
(***************************************************************************)
EXTENDS GoogleDocs, TLC

CONSTANTS x1

\* All comment threads are in one document.
OneDoc == [c \in Comment |-> x1]

ProcSymmetry == Permutations(Proc)
=============================================================================

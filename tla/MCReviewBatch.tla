--------------------------- MODULE MCReviewBatch ---------------------------
(***************************************************************************)
(* An instance of ReviewBatch for TLC: two comments, alone or together in  *)
(* either order, and every answer of at most MaxLines lines in which a     *)
(* header has the number of a comment, another one, or none.               *)
(***************************************************************************)
EXTENDS ReviewBatch, SequencesExt

CONSTANTS a, b, MaxLines

TwoComments == {<<a>>, <<a, b>>, <<b, a>>}
ShortAnswers == BoundedSeq(Line, MaxLines)
=============================================================================

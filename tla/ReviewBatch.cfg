SPECIFICATION FairSpec
CONSTANTS
  a = a
  b = b
  MaxLines = 5
  Comment = {a, b}
  Batches <- TwoComments
  Number = {1, 2, 3}
  TooLarge = TooLarge
  Text = Text
  Blank = Blank
  Answers <- ShortAnswers
  MaxFailedUpdates = 1
  NoPiece = NoPiece
INVARIANTS TypeOK AnsweredWithOwnSection SectionsAreDisjoint
PROPERTIES EveryCommentIsAnswered
CHECK_DEADLOCK FALSE

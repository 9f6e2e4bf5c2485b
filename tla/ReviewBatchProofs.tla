-------------------------- MODULE ReviewBatchProofs --------------------------
(***************************************************************************)
(* Proofs about ReviewBatch: for every set of comments, every batch and    *)
(* every answer, each comment gets its own section or the whole answer,    *)
(* the replies do not end halfway, and the loops that cut the answer up    *)
(* and send it end.                                                        *)
(***************************************************************************)
EXTENDS ReviewBatch, TLAPS

\* Nothing is cut up or sent before the answer is there and the primary task is saved.
Untouched ==
  bpc \in {"prompt", "execute", "save"} =>
    /\ match = 0 /\ turn = 1
    /\ perComment = [k \in Number |-> NoPiece]
    /\ sent = [c \in Comment |-> NoPiece]

\* The prompt's numbers are the positions in the batch.
Numbered ==
  /\ order \in Batches
  /\ bpc # "prompt" => prompt = IF Len(order) > 1 THEN order ELSE << >>

\* The sections found so far are the last ones up to the header that was read last.
SectionOfNumber(k) ==
  \/ perComment[k] = NoPiece /\ \A q \in 1..match : answer[q] # k
  \/ \E j \in 1..match :
       /\ perComment[k] \in Piece
       /\ answer[j] = k /\ \A q \in j + 1..match : answer[q] # k
       /\ IsSection(perComment[k], j)
Parsed == \A k \in Number : SectionOfNumber(k)

\* Replies are sent when all headers have been read, or when none are looked for.
Routing ==
  bpc \in {"update", "route"} =>
    /\ turn \in 1..Len(order)
    /\ \/ Len(order) > 1 /\ \A q \in match + 1..Len(answer) : ~IsHeader(q)
       \/ Len(order) = 1 /\ perComment = [k \in Number |-> NoPiece]

\* A single task is not cut up, and an answer is cut up before the first reply.
Alone ==
  /\ bpc \in {"parse", "update"} => Len(order) > 1
  /\ bpc = "parse" => turn = 1

BatchInv ==
  TypeOK /\ Untouched /\ Numbered /\ Parsed /\ Routing /\ Alone /\ AnsweredWithOwnSection

-----------------------------------------------------------------------------
\* What TrimSpace leaves of the lines between a header and the next one is the
\* section below the header.
LEMMA TrimmedIsSection ==
  ASSUME answer \in Seq(Line), NEW j \in 1..Len(answer), NEW e \in 1..Len(answer) + 1,
         NEW r \in Piece, EndsAt(j, e), IsTrimmed(r, j + 1, e - 1)
  PROVE  IsSection(r, j)
<1>1. /\ e \in j + 1..Len(answer) + 1
      /\ e <= Len(answer) => IsHeader(e)
      /\ \A q \in j + 1..e - 1 : ~IsHeader(q)
  BY DEF EndsAt
<1>2. /\ \A q \in j + 1..e - 1 : answer[q] = Text => q \in r.from..r.to
      /\ r = Empty \/ (j + 1 <= r.from /\ r.to <= e - 1)
  BY DEF IsTrimmed
<1>t. Len(answer) \in Nat /\ j \in Nat /\ e \in Nat /\ r.from \in Nat /\ r.to \in Nat
  BY DEF Piece
<1>3. ASSUME NEW q \in r.from..r.to
      PROVE  q \in j + 1..Len(answer) /\ \A h \in j + 1..q : ~IsHeader(h)
  <2>1. r # Empty
    BY <1>3, <1>t, SMT DEF Empty
  <2>2. j + 1 <= q /\ q <= e - 1
    BY <2>1, <1>2, <1>3, <1>t, SMT
  <2>. QED BY <2>2, <1>1, <1>3, <1>t, SMT
<1>4. ASSUME NEW q \in j + 1..Len(answer), answer[q] = Text,
             \A h \in j + 1..q : ~IsHeader(h)
      PROVE  q \in r.from..r.to
  <2>1. q <= e - 1
    BY <1>1, <1>4, <1>t, SMT
  <2>. QED BY <2>1, <1>2, <1>4, <1>t, SMT
<1>. QED BY <1>3, <1>4 DEF IsSection

\* The initial states satisfy the invariant.
LEMMA BatchInvInit == Init => BatchInv
<1> SUFFICES ASSUME Init PROVE BatchInv
  OBVIOUS
<1> USE ReviewBatchAssumption
<1>1. order \in Batches /\ order \in Seq(Comment) /\ Len(order) > 0
  BY DEF Init
<1>2. TypeOK
  <2>1. /\ answer \in Seq(Line) /\ prompt \in Seq(Comment) /\ Len(answer) = 0
    BY DEF Init
  <2>2. turn \in 1..Len(order) + 1
    BY <1>1, SMT DEF Init
  <2>. QED BY <1>1, <2>1, <2>2, SMT DEF Init, TypeOK
<1>3. Parsed
  <2> SUFFICES ASSUME NEW k \in Number PROVE SectionOfNumber(k)
    BY DEF Parsed
  <2>1. perComment[k] = NoPiece /\ \A q \in 1..match : FALSE
    BY SMT DEF Init
  <2>. QED BY <2>1 DEF SectionOfNumber
<1>4. Untouched /\ Numbered /\ Routing /\ Alone
  BY <1>1 DEF Init, Untouched, Numbered, Routing, Alone
<1>5. AnsweredWithOwnSection
  BY DEF Init, AnsweredWithOwnSection
<1>. QED BY <1>2, <1>3, <1>4, <1>5 DEF BatchInv

\* The lists and counters that every step is about.
LEMMA BatchFacts ==
  ASSUME TypeOK, order \in Batches
  PROVE  /\ Len(order) \in Nat /\ Len(order) > 0 /\ Len(answer) \in Nat
         /\ match \in Nat /\ match <= Len(answer) /\ turn \in Nat /\ turn > 0
         /\ \A i \in 1..Len(order) : order[i] \in Comment
         /\ \A i, k \in 1..Len(order) : order[i] = order[k] => i = k
         /\ Whole \in Piece
<1>1. order \in Seq(Comment) /\ answer \in Seq(Line)
  BY DEF TypeOK
<1>2. /\ Len(order) \in Nat /\ Len(order) > 0 /\ Len(answer) \in Nat
      /\ \A i \in 1..Len(order) : order[i] \in Comment
      /\ \A i, k \in 1..Len(order) : order[i] = order[k] => i = k
  BY <1>1, ReviewBatchAssumption
<1>3. match \in Nat /\ match <= Len(answer) /\ turn \in Nat /\ turn > 0
  BY <1>2, SMT DEF TypeOK
<1>4. Whole \in Piece
  BY <1>2, SMT DEF Whole, Piece
<1>. QED BY <1>2, <1>3, <1>4

\* Reading a header keeps the sections the last ones of their numbers.
LEMMA ParseStep ==
  ASSUME BatchInv, ParseCommentResponses
  PROVE  /\ Parsed'
         /\ match' \in 0..Len(answer)
         /\ perComment' \in [Number -> Piece \cup {NoPiece}]
<1> USE ReviewBatchAssumption
<1>1. /\ TypeOK /\ Parsed /\ answer' = answer /\ order \in Batches
  BY DEF BatchInv, ParseCommentResponses, Numbered
<1>2. PICK j \in 1..Len(answer) :
        /\ EndsAt(match, j)
        /\ match' = j
        /\ \/ answer[j] = TooLarge /\ UNCHANGED perComment
           \/ /\ answer[j] # TooLarge
              /\ \E e \in 1..Len(answer) + 1, from, to \in 0..Len(answer) :
                   /\ EndsAt(j, e) /\ IsTrimmed([from |-> from, to |-> to], j + 1, e - 1)
                   /\ perComment' = [perComment EXCEPT ![answer[j]] = [from |-> from, to |-> to]]
  BY DEF ParseCommentResponses
<1>3. /\ Len(answer) \in Nat /\ match \in Nat /\ match < j /\ j <= Len(answer) /\ j \in Nat
      /\ IsHeader(j) /\ \A q \in match + 1..j - 1 : ~IsHeader(q)
  BY <1>1, <1>2, BatchFacts, SMT DEF EndsAt
<1>4. answer \in Seq(Line) /\ perComment \in [Number -> Piece \cup {NoPiece}]
  BY <1>1 DEF TypeOK
<1>5. \A k \in Number : k \in Header
  BY DEF Header
<1>6. ASSUME NEW k \in Number, answer[j] # k, perComment'[k] = perComment[k]
      PROVE  SectionOfNumber(k)'
  <2>1. SectionOfNumber(k)
    BY <1>1 DEF Parsed
  <2>2. \A q \in match + 1..j : answer[q] # k
    BY <1>3, <1>5, <1>6, SMT DEF IsHeader
  <2>3. CASE perComment[k] = NoPiece /\ \A q \in 1..match : answer[q] # k
    <3>1. \A q \in 1..j : answer[q] # k
      BY <2>2, <2>3, <1>3, SMT
    <3>. QED BY <3>1, <2>3, <1>6, <1>2, <1>1 DEF SectionOfNumber
  <2>4. ASSUME NEW i \in 1..match, perComment[k] \in Piece, answer[i] = k,
               \A q \in i + 1..match : answer[q] # k, IsSection(perComment[k], i)
        PROVE  SectionOfNumber(k)'
    <3>1. i \in 1..j /\ \A q \in i + 1..j : answer[q] # k
      BY <2>2, <2>4, <1>3, SMT
    <3>2. IsSection(perComment[k], i)'
      BY <2>4, <1>6, <1>1 DEF IsSection, IsHeader
    <3>. QED BY <3>1, <3>2, <2>4, <1>6, <1>2, <1>1 DEF SectionOfNumber
  <2>. QED BY <2>1, <2>3, <2>4 DEF SectionOfNumber
<1>7. CASE answer[j] = TooLarge /\ UNCHANGED perComment
  <2>1. \A k \in Number : answer[j] # k
    BY <1>7
  <2>. QED BY <2>1, <1>7, <1>6, <1>2, <1>3, <1>4, SMT DEF Parsed
<1>8. CASE /\ answer[j] # TooLarge
           /\ \E e \in 1..Len(answer) + 1, from, to \in 0..Len(answer) :
                /\ EndsAt(j, e) /\ IsTrimmed([from |-> from, to |-> to], j + 1, e - 1)
                /\ perComment' = [perComment EXCEPT ![answer[j]] = [from |-> from, to |-> to]]
  <2>1. answer[j] \in Number
    BY <1>8, <1>3 DEF IsHeader, Header
  <2>2. PICK e \in 1..Len(answer) + 1, from \in 0..Len(answer), to \in 0..Len(answer) :
                /\ EndsAt(j, e) /\ IsTrimmed([from |-> from, to |-> to], j + 1, e - 1)
                /\ perComment' = [perComment EXCEPT ![answer[j]] = [from |-> from, to |-> to]]
    BY <1>8
  <2> DEFINE r == [from |-> from, to |-> to]
  <2>3. r \in Piece
    BY <1>3, <2>2, SMT DEF Piece
  <2>4. IsSection(r, j)
    <3> HIDE DEF r
    <3>1. IsTrimmed(r, j + 1, e - 1)
      BY <2>2 DEF r
    <3>. QED BY <3>1, <2>2, <2>3, <1>4, TrimmedIsSection
  <2>5. /\ perComment' \in [Number -> Piece \cup {NoPiece}]
        /\ perComment'[answer[j]] = r
        /\ \A k \in Number : k # answer[j] => perComment'[k] = perComment[k]
    <3> HIDE DEF r
    <3>1. perComment' = [perComment EXCEPT ![answer[j]] = r]
      BY <2>2 DEF r
    <3>. QED BY <3>1, <2>1, <2>3, <1>4
  <2>6. ASSUME NEW k \in Number, k = answer[j] PROVE SectionOfNumber(k)'
    <3> HIDE DEF r
    <3>1. IsSection(r, j)'
      BY <2>4, <1>1 DEF IsSection, IsHeader
    <3>2. j \in 1..j /\ \A q \in j + 1..j : FALSE
      BY <1>3, SMT
    <3>3. perComment'[k] = r
      BY <2>5, <2>6
    <3>. QED BY <3>1, <3>2, <3>3, <2>3, <2>6, <1>2, <1>1 DEF SectionOfNumber
  <2>7. ASSUME NEW k \in Number PROVE SectionOfNumber(k)'
    BY <2>5, <2>6, <1>6
  <2>. QED BY <2>7, <2>5, <1>2, <1>3, SMT DEF Parsed
<1>. QED BY <1>2, <1>7, <1>8

\* A reply that is sent is the section of the comment's own number, or the whole answer.
LEMMA RouteStep ==
  ASSUME BatchInv, RouteResponse
  PROVE  AnsweredWithOwnSection' /\ sent' \in [Comment -> Piece \cup {NoPiece}]
<1> USE ReviewBatchAssumption
<1> DEFINE c == order[turn]
<1>1. /\ TypeOK /\ Parsed /\ AnsweredWithOwnSection /\ order \in Batches
      /\ answer' = answer /\ prompt' = prompt /\ bpc = "route"
      /\ sent' = [sent EXCEPT ![c] = Response]
      /\ prompt = IF Len(order) > 1 THEN order ELSE << >>
  BY DEF BatchInv, RouteResponse, Numbered
<1>2. /\ turn \in 1..Len(order)
      /\ \/ Len(order) > 1 /\ \A q \in match + 1..Len(answer) : ~IsHeader(q)
         \/ Len(order) = 1 /\ perComment = [k \in Number |-> NoPiece]
  BY <1>1 DEF BatchInv, Routing
<1>3. /\ Len(order) \in Nat /\ Len(answer) \in Nat /\ match \in Nat /\ match <= Len(answer)
      /\ c \in Comment /\ Whole \in Piece
      /\ \A i, k \in 1..Len(order) : order[i] = order[k] => i = k
  BY <1>1, <1>2, BatchFacts
<1>4. /\ sent \in [Comment -> Piece \cup {NoPiece}] /\ answer \in Seq(Line)
      /\ perComment \in [Number -> Piece \cup {NoPiece}]
  BY <1>1 DEF TypeOK
<1>5. Response \in Piece
  BY <1>3, <1>4 DEF Response
<1>6. /\ sent' \in [Comment -> Piece \cup {NoPiece}]
      /\ sent'[c] = Response
      /\ \A d \in Comment : d # c => sent'[d] = sent[d]
  BY <1>1, <1>3, <1>4, <1>5
<1>7. Whole' = Whole
  BY <1>1 DEF Whole
<1>8. \A q \in 1..Len(answer) : answer[q] \in Line
  BY <1>4
<1>9. \/ /\ Response = Whole
         /\ \A k \in 1..Len(prompt) :
              HasNumber(c, k) => \A q \in 1..Len(answer) : answer[q] # k
      \/ \E k \in 1..Len(prompt), j \in 1..Len(answer) :
           HasNumber(c, k) /\ LastHeader(k, j) /\ IsSection(Response, j)
  <2>1. CASE Len(order) = 1 /\ perComment = [k \in Number |-> NoPiece]
    <3>1. Response = Whole
      BY <2>1 DEF Response
    <3>2. Len(prompt) = 0
      BY <2>1, <1>1
    <3>. QED BY <3>1, <3>2, SMT
  <2>2. CASE Len(order) > 1 /\ \A q \in match + 1..Len(answer) : ~IsHeader(q)
    <3>1. prompt = order
      BY <2>2, <1>1
    <3>2. \A k \in 1..Len(prompt) : HasNumber(c, k) => k = turn
      BY <3>1, <1>2, <1>3 DEF HasNumber
    <3>3. turn \in 1..Len(prompt) /\ HasNumber(c, turn)
      BY <3>1, <1>2 DEF HasNumber
    <3>4. ASSUME turn \in Number, perComment[turn] # NoPiece
          PROVE  \E j \in 1..Len(answer) : LastHeader(turn, j) /\ IsSection(Response, j)
      <4>1. SectionOfNumber(turn)
        BY <3>4, <1>1 DEF Parsed
      <4>2. PICK j \in 1..match :
               /\ answer[j] = turn /\ \A q \in j + 1..match : answer[q] # turn
               /\ IsSection(perComment[turn], j)
        BY <4>1, <3>4 DEF SectionOfNumber
      <4>3. \A q \in match + 1..Len(answer) : answer[q] # turn
        BY <2>2, <3>4 DEF IsHeader, Header
      <4>4. j \in 1..Len(answer) /\ \A q \in j + 1..Len(answer) : answer[q] # turn
        BY <4>2, <4>3, <1>3, SMT
      <4>. QED BY <4>2, <4>4, <3>4 DEF LastHeader, Response
    <3>5. ASSUME ~(turn \in Number /\ perComment[turn] # NoPiece)
          PROVE  Response = Whole /\ \A q \in 1..Len(answer) : answer[q] # turn
      <4>1. Response = Whole
        BY <3>5 DEF Response
      <4>2. CASE turn \notin Number
        <5>1. turn \in Nat
          BY <1>2, <1>3, SMT
        <5>2. turn \notin Line
          BY <5>1, <4>2 DEF Line, Header
        <5>. QED BY <4>1, <5>2, <1>8
      <4>3. CASE turn \in Number /\ perComment[turn] = NoPiece
        <5>1. \A q \in 1..match : answer[q] # turn
          BY <4>3, <1>1 DEF Parsed, SectionOfNumber, Piece
        <5>2. \A q \in match + 1..Len(answer) : answer[q] # turn
          BY <2>2, <4>3 DEF IsHeader, Header
        <5>3. \A q \in 1..Len(answer) : q \in 1..match \/ q \in match + 1..Len(answer)
          BY <1>3, SMT
        <5>. QED BY <4>1, <5>1, <5>2, <5>3
      <4>. QED BY <4>2, <4>3, <3>5
    <3>6. CASE turn \in Number /\ perComment[turn] # NoPiece
      BY <3>6, <3>3, <3>4
    <3>7. CASE ~(turn \in Number /\ perComment[turn] # NoPiece)
      BY <3>7, <3>2, <3>5
    <3>. QED BY <3>6, <3>7
  <2>. QED BY <1>2, <2>1, <2>2
<1>10. AnsweredWithOwnSection'
  <2> SUFFICES ASSUME NEW d \in Comment, sent'[d] # NoPiece
      PROVE  \/ /\ sent'[d] = Whole
                /\ \A k \in 1..Len(prompt) :
                     HasNumber(d, k) => \A q \in 1..Len(answer) : answer[q] # k
             \/ \E k \in 1..Len(prompt), j \in 1..Len(answer) :
                  HasNumber(d, k) /\ LastHeader(k, j) /\ IsSection(sent'[d], j)
    <3>1. \A d \in Comment, k \in 1..Len(prompt) : HasNumber(d, k)' <=> HasNumber(d, k)
      BY <1>1 DEF HasNumber
    <3>2. \A k \in 1..Len(prompt), j \in 1..Len(answer) : LastHeader(k, j)' <=> LastHeader(k, j)
      BY <1>1 DEF LastHeader
    <3>3. \A d \in Comment, j \in 1..Len(answer) : IsSection(sent[d], j)' <=> IsSection(sent'[d], j)
      BY <1>1 DEF IsSection, IsHeader
    <3>. QED BY <1>1, <1>7, <3>1, <3>2, <3>3 DEF AnsweredWithOwnSection
  <2>1. CASE d = c
    BY <2>1, <1>6, <1>9
  <2>2. CASE d # c
    BY <2>2, <1>6, <1>1 DEF AnsweredWithOwnSection
  <2>. QED BY <2>1, <2>2
<1>. QED BY <1>6, <1>10

\* The sections, and what was sent, stay right if the answer, the prompt and the
\* sections do not change.
LEMMA SameAnswer ==
  ASSUME BatchInv, UNCHANGED <<answer, prompt, match, perComment>>
  PROVE  /\ Parsed'
         /\ sent' = sent => AnsweredWithOwnSection'
<1>1. Parsed /\ AnsweredWithOwnSection
  BY DEF BatchInv
<1>2. \A k \in Number : SectionOfNumber(k)' <=> SectionOfNumber(k)
  BY DEF SectionOfNumber, IsSection, IsHeader
<1>3. ASSUME sent' = sent PROVE AnsweredWithOwnSection'
  BY <1>1, <1>3 DEF AnsweredWithOwnSection, HasNumber, LastHeader, IsSection, IsHeader, Whole
<1>. QED BY <1>1, <1>2, <1>3 DEF Parsed

\* A batch of no more than one task has one.
LEMMA OneOrMore == \A n \in Nat : n > 0 /\ ~(n > 1) => n = 1
  BY SMT

\* Every step preserves the invariant.
LEMMA BatchInvStep == BatchInv /\ [Next]_vars => BatchInv'
<1> SUFFICES ASSUME BatchInv, [Next]_vars PROVE BatchInv'
  OBVIOUS
<1> USE ReviewBatchAssumption
<1>1. TypeOK /\ Untouched /\ Numbered /\ Parsed /\ Routing /\ Alone /\ AnsweredWithOwnSection
  BY DEF BatchInv
<1>2. /\ order \in Batches /\ Len(order) \in Nat /\ Len(order) > 0 /\ Len(answer) \in Nat
      /\ match \in Nat /\ match <= Len(answer) /\ turn \in Nat /\ turn > 0
      /\ \A i \in 1..Len(order) : order[i] \in Comment
      /\ Whole \in Piece
  BY <1>1, BatchFacts DEF Numbered
<1>3. NoPiece \notin Piece
  BY DEF Piece
<1>4. perComment \in [Number -> Piece \cup {NoPiece}] /\ result \in [Comment -> Piece \cup {NoPiece}]
  BY <1>1 DEF TypeOK
<1>5. ASSUME NEW c \in Comment, NEW r \in Piece, Save(c, r) \/ SaveFails(c, r)
      PROVE  result' \in [Comment -> Piece \cup {NoPiece}] /\ failedUpdates' \in 0..MaxFailedUpdates
  <2>1. failedUpdates \in 0..MaxFailedUpdates
    BY <1>1 DEF TypeOK
  <2>2. result' \in {result, [result EXCEPT ![c] = r]}
    BY <1>5 DEF Save, SaveFails
  <2>3. failedUpdates' \in 0..MaxFailedUpdates
    BY <1>5, <2>1, SMT DEF Save, SaveFails
  <2>. QED BY <2>2, <2>3, <1>4
<1>6. CASE BuildMergedReviewInput
  <2>1. Untouched' /\ Numbered' /\ Routing' /\ Alone'
    BY <1>6, <1>1 DEF BuildMergedReviewInput, Untouched, Numbered, Routing, Alone
  <2>2. TypeOK'
    <3>1. prompt' \in Seq(Comment)
      BY <1>6, <1>1 DEF BuildMergedReviewInput, TypeOK
    <3>. QED BY <3>1, <1>6, <1>1 DEF BuildMergedReviewInput, TypeOK
  <2>3. Parsed'
    BY <1>6, <1>1 DEF BuildMergedReviewInput, Parsed, SectionOfNumber, IsSection, IsHeader
  <2>4. AnsweredWithOwnSection'
    BY <2>1, <1>6 DEF BuildMergedReviewInput, Untouched, AnsweredWithOwnSection
  <2>. QED BY <2>1, <2>2, <2>3, <2>4 DEF BatchInv
<1>7. CASE Execute
  <2>1. Untouched' /\ Numbered' /\ Routing' /\ Alone' /\ match' = 0
    BY <1>7, <1>1 DEF Execute, Untouched, Numbered, Routing, Alone
  <2>2. TypeOK'
    <3>1. answer' \in Seq(Line)
      BY <1>7 DEF Execute
    <3>2. match' \in 0..Len(answer')
      BY <3>1, <2>1, SMT
    <3>. QED BY <3>1, <3>2, <1>7, <1>1 DEF Execute, TypeOK
  <2>3. Parsed'
    <3> SUFFICES ASSUME NEW k \in Number PROVE SectionOfNumber(k)'
      BY DEF Parsed
    <3>1. perComment'[k] = NoPiece
      BY <2>1, <1>7 DEF Execute, Untouched
    <3>2. \A q \in 1..match' : FALSE
      BY <2>1, SMT
    <3>. QED BY <3>1, <3>2 DEF SectionOfNumber
  <2>4. AnsweredWithOwnSection'
    BY <2>1, <1>7 DEF Execute, Untouched, AnsweredWithOwnSection
  <2>. QED BY <2>1, <2>2, <2>3, <2>4 DEF BatchInv
<1>8. CASE SavePrimary
  <2>1. Parsed' /\ AnsweredWithOwnSection'
    BY <1>8, SameAnswer DEF SavePrimary
  <2>2. /\ order[1] \in Comment /\ turn = 1
        /\ perComment = [k \in Number |-> NoPiece]
    BY <1>8, <1>2, <1>1, SMT DEF SavePrimary, Untouched
  <2>3. Untouched' /\ Numbered' /\ Alone'
    BY <1>8, <1>1, <2>2 DEF SavePrimary, Untouched, Numbered, Alone
  <2>4. Routing'
    <3>1. ~(Len(order) > 1) => Len(order) = 1
      BY <1>2, OneOrMore
    <3>3. bpc' = "route" => ~(Len(order) > 1)
      BY <1>8 DEF SavePrimary
    <3>2. bpc' # "update"
      BY <1>8 DEF SavePrimary
    <3>. QED BY <3>1, <3>2, <3>3, <2>2, <1>8, <1>2, SMT DEF SavePrimary, Routing
  <2>5. result' \in [Comment -> Piece \cup {NoPiece}] /\ failedUpdates' \in 0..MaxFailedUpdates
    BY <1>8, <2>2, <1>2, <1>5 DEF SavePrimary
  <2>6. TypeOK'
    BY <2>5, <1>8, <1>1 DEF SavePrimary, TypeOK
  <2>. QED BY <2>1, <2>3, <2>4, <2>6 DEF BatchInv
<1>9. CASE ParseCommentResponses
  <2>1. /\ Parsed' /\ match' \in 0..Len(answer)
        /\ perComment' \in [Number -> Piece \cup {NoPiece}]
    BY <1>9, ParseStep
  <2>2. TypeOK'
    BY <2>1, <1>9, <1>1 DEF ParseCommentResponses, TypeOK
  <2>3. Untouched' /\ Numbered' /\ Routing' /\ Alone'
    BY <1>9, <1>1 DEF ParseCommentResponses, Untouched, Numbered, Routing, Alone
  <2>4. AnsweredWithOwnSection'
    <3>1. sent' = sent /\ prompt' = prompt /\ answer' = answer
      BY <1>9 DEF ParseCommentResponses
    <3>. QED BY <3>1, <1>1 DEF AnsweredWithOwnSection, HasNumber, LastHeader, IsSection, IsHeader, Whole
  <2>. QED BY <2>1, <2>2, <2>3, <2>4 DEF BatchInv
<1>10. CASE ParseDone
  <2>1. Parsed' /\ AnsweredWithOwnSection'
    BY <1>10, SameAnswer DEF ParseDone
  <2>2. Untouched' /\ Numbered' /\ Alone' /\ TypeOK'
    BY <1>10, <1>1 DEF ParseDone, Untouched, Numbered, Alone, TypeOK
  <2>3. Routing'
    <3>1. Len(order) > 1 /\ turn = 1
      BY <1>10, <1>1 DEF ParseDone, Alone
    <3>. QED BY <3>1, <1>10, <1>2, SMT DEF ParseDone, Routing, EndsAt, IsHeader
  <2>. QED BY <2>1, <2>2, <2>3 DEF BatchInv
<1>11. CASE UpdateAbsorbed
  <2>1. Parsed' /\ AnsweredWithOwnSection'
    BY <1>11, SameAnswer DEF UpdateAbsorbed
  <2>2. Untouched' /\ Numbered' /\ Alone'
    BY <1>11, <1>1 DEF UpdateAbsorbed, Untouched, Numbered, Alone
  <2>3. Routing'
    BY <1>11, <1>1 DEF UpdateAbsorbed, Routing, IsHeader
  <2>4. Response \in Piece
    BY <1>2, <1>4 DEF Response
  <2>5. order[turn] \in Comment
    BY <1>11, <1>1, <1>2 DEF UpdateAbsorbed, Routing
  <2>6. result' \in [Comment -> Piece \cup {NoPiece}] /\ failedUpdates' \in 0..MaxFailedUpdates
    BY <1>11, <2>4, <2>5, <1>5 DEF UpdateAbsorbed
  <2>7. TypeOK'
    BY <2>6, <1>11, <1>1 DEF UpdateAbsorbed, TypeOK
  <2>. QED BY <2>1, <2>2, <2>3, <2>7 DEF BatchInv
<1>12. CASE RouteResponse
  <2>1. AnsweredWithOwnSection' /\ sent' \in [Comment -> Piece \cup {NoPiece}]
    BY <1>12, RouteStep
  <2>2. Parsed'
    BY <1>12, SameAnswer DEF RouteResponse
  <2>3. /\ turn \in 1..Len(order)
        /\ \/ Len(order) > 1 /\ \A q \in match + 1..Len(answer) : ~IsHeader(q)
           \/ Len(order) = 1 /\ perComment = [k \in Number |-> NoPiece]
    BY <1>12, <1>1 DEF RouteResponse, Routing
  <2>4. turn' \in 1..Len(order) + 1 /\ (bpc' = "update" => turn' \in 1..Len(order) /\ Len(order) > 1)
    BY <1>12, <2>3, <1>2, SMT DEF RouteResponse
  <2>5. TypeOK'
    BY <2>1, <2>4, <1>12, <1>1 DEF RouteResponse, TypeOK
  <2>6. Untouched' /\ Numbered' /\ Alone'
    BY <2>4, <1>12, <1>1 DEF RouteResponse, Untouched, Numbered, Alone
  <2>7. Routing'
    BY <2>3, <2>4, <1>12 DEF RouteResponse, Routing, IsHeader
  <2>. QED BY <2>1, <2>2, <2>5, <2>6, <2>7 DEF BatchInv
<1>13. CASE UNCHANGED vars
  <2>1. Parsed' /\ AnsweredWithOwnSection'
    BY <1>13, SameAnswer DEF vars
  <2>2. TypeOK' /\ Untouched' /\ Numbered' /\ Routing' /\ Alone'
    BY <1>13, <1>1 DEF vars, TypeOK, Untouched, Numbered, Routing, Alone, IsHeader
  <2>. QED BY <2>1, <2>2 DEF BatchInv
<1>. QED
  BY <1>6, <1>7, <1>8, <1>9, <1>10, <1>11, <1>12, <1>13 DEF Next

-----------------------------------------------------------------------------
\* BatchInv is an invariant of the end of processTask.
THEOREM BatchInvariance == Spec => []BatchInv
<1>. QED BY BatchInvInit, BatchInvStep, PTL DEF Spec

\* Whatever the executor answers, a comment gets the last section under its own number,
\* or the whole answer if there is none (parseCommentResponses and
\* routeBatchedResponses).
THEOREM SectionsReachTheirComment == Spec => []AnsweredWithOwnSection
<1>1. BatchInv => AnsweredWithOwnSection
  BY DEF BatchInv
<1>. QED BY <1>1, BatchInvariance, PTL

\* Two comments that are answered with sections share no line of the answer.
THEOREM NoLineIsSharedByTwo == Spec => []SectionsAreDisjoint
<1>1. BatchInv => SectionsAreDisjoint
  <2> SUFFICES ASSUME BatchInv, NEW c \in Comment, NEW d \in Comment, c # d,
                      sent[c] \notin {NoPiece, Whole}, sent[d] \notin {NoPiece, Whole},
                      NEW q \in 1..Len(answer),
                      q \in sent[c].from..sent[c].to, q \in sent[d].from..sent[d].to
               PROVE  FALSE
    BY DEF SectionsAreDisjoint
  <2>1. AnsweredWithOwnSection /\ TypeOK
    BY DEF BatchInv
  <2>2. PICK k \in 1..Len(prompt), j \in 1..Len(answer) :
          HasNumber(c, k) /\ LastHeader(k, j) /\ IsSection(sent[c], j)
    BY <2>1 DEF AnsweredWithOwnSection
  <2>3. PICK l \in 1..Len(prompt), i \in 1..Len(answer) :
          HasNumber(d, l) /\ LastHeader(l, i) /\ IsSection(sent[d], i)
    BY <2>1 DEF AnsweredWithOwnSection
  <2>4. answer[j] = k /\ answer[i] = l /\ k # l
    BY <2>2, <2>3 DEF HasNumber, LastHeader
  <2>5. /\ q \in j + 1..Len(answer) /\ \A h \in j + 1..q : ~IsHeader(h)
        /\ q \in i + 1..Len(answer) /\ \A h \in i + 1..q : ~IsHeader(h)
    BY <2>2, <2>3 DEF IsSection
  <2>6. answer \in Seq(Line) /\ Len(answer) \in Nat
    BY <2>1 DEF TypeOK
  <2>7. IsHeader(j) /\ IsHeader(i)
    <3>1. k \in Nat /\ l \in Nat /\ answer[j] \in Line /\ answer[i] \in Line
      BY <2>2, <2>3, <2>6
    <3>. QED BY <3>1, <2>4, ReviewBatchAssumption DEF IsHeader, Line
  <2>8. i # j
    BY <2>4
  <2>9. i < j \/ j < i
    BY <2>8, <2>2, <2>3, <2>6, SMT
  <2>10. (i < j => j \in i + 1..q) /\ (j < i => i \in j + 1..q)
    BY <2>5, <2>2, <2>3, <2>6, SMT
  <2>. QED BY <2>5, <2>7, <2>9, <2>10
<1>. QED BY <1>1, BatchInvariance, PTL

\* The end of processTask stays within its types: a match is a line of the answer, a turn
\* one of the order, and what is recorded or sent a piece of the answer.
THEOREM BatchTypes == Spec => []TypeOK
<1>1. BatchInv => TypeOK
  BY DEF BatchInv
<1>. QED BY <1>1, BatchInvariance, PTL

-----------------------------------------------------------------------------
(* All of the batch is answered, or none of it *)

\* A comment is answered when its turn has been.
Answered == \A i \in 1..Len(order) : sent[order[i]] # NoPiece <=> i < turn

\* The end comes before the first turn or after the last one.
Ended == bpc = "done" => turn = 1 \/ turn = Len(order) + 1

\* An absorbed task whose turn has been, or whose reply is next, is saved with its reply.
SavedFirst ==
  failedUpdates = 0 =>
    /\ \A i \in 2..Len(order) : i < turn => result[order[i]] = sent[order[i]]
    /\ bpc = "route" /\ turn > 1 => result[order[turn]] = Response

AnswerInv == Answered /\ Ended /\ SavedFirst

\* In the beginning nothing is answered.
LEMMA AnswerInvInit == Init => AnswerInv
<1> SUFFICES ASSUME Init PROVE AnswerInv
  OBVIOUS
<1>1. /\ order \in Seq(Comment) /\ \A i \in 1..Len(order) : order[i] \in Comment /\ ~(i < 1)
      /\ turn = 1 /\ sent = [c \in Comment |-> NoPiece] /\ bpc = "prompt"
  BY ReviewBatchAssumption DEF Init
<1>2. \A i \in 2..Len(order) : ~(i < 1)
  OBVIOUS
<1> QED BY <1>1, <1>2 DEF AnswerInv, Answered, Ended, SavedFirst

\* A reply is what was saved, and none is sent twice.
LEMMA AnswerRoute ==
  ASSUME BatchInv, AnswerInv, RouteResponse
  PROVE  AnswerInv'
<1>1. TypeOK /\ Numbered /\ Routing /\ Answered /\ SavedFirst
  BY DEF BatchInv, AnswerInv
<1>2. /\ Len(order) \in Nat /\ turn \in 1..Len(order)
      /\ \A i \in 1..Len(order) : order[i] \in Comment
      /\ \A i, k \in 1..Len(order) : order[i] = order[k] => i = k
      /\ Whole \in Piece
  BY <1>1, BatchFacts DEF RouteResponse, Routing, Numbered
<1>3. /\ sent \in [Comment -> Piece \cup {NoPiece}] /\ perComment \in [Number -> Piece \cup {NoPiece}]
      /\ sent' = [sent EXCEPT ![order[turn]] = Response] /\ turn' = turn + 1
      /\ bpc = "route" /\ bpc' \in {"done", "update"} /\ (bpc' = "done" => turn = Len(order))
      /\ UNCHANGED <<order, result, failedUpdates>>
  BY <1>1 DEF TypeOK, RouteResponse
<1>4. Response \in Piece /\ Response # NoPiece
  BY <1>2, <1>3, ReviewBatchAssumption DEF Response, Piece
<1>5. /\ sent'[order[turn]] = Response
      /\ \A i \in 1..Len(order) : i # turn => sent'[order[i]] = sent[order[i]]
  BY <1>2, <1>3
<1>6. Answered'
  <2> SUFFICES ASSUME NEW i \in 1..Len(order) PROVE sent'[order[i]] # NoPiece <=> i < turn + 1
    BY <1>3 DEF Answered
  <2>1. CASE i = turn
    BY <1>2, <1>4, <1>5, <2>1
  <2>2. CASE i # turn
    <3>1. i < turn + 1 <=> i < turn
      BY <1>2, <2>2
    <3> QED BY <1>1, <1>5, <2>2, <3>1 DEF Answered
  <2> QED BY <2>1, <2>2
<1>7. Ended'
  BY <1>3 DEF Ended
<1>8. SavedFirst'
  <2> SUFFICES ASSUME failedUpdates = 0, NEW i \in 2..Len(order), i < turn + 1
               PROVE  result[order[i]] = sent'[order[i]]
    BY <1>3 DEF SavedFirst
  <2>1. CASE i = turn
    BY <1>1, <1>3, <1>5, <2>1 DEF SavedFirst
  <2>2. CASE i # turn
    <3>1. i < turn /\ i \in 1..Len(order)
      BY <1>2, <2>2
    <3> QED BY <1>1, <1>5, <2>2, <3>1 DEF SavedFirst
  <2> QED BY <2>1, <2>2
<1> QED BY <1>6, <1>7, <1>8 DEF AnswerInv

\* An absorbed task is saved with its reply unless the update fails, and no other one is
\* saved again.
LEMMA AnswerUpdate ==
  ASSUME BatchInv, AnswerInv, UpdateAbsorbed
  PROVE  AnswerInv'
<1>1. TypeOK /\ Numbered /\ Routing /\ Answered /\ SavedFirst
  BY DEF BatchInv, AnswerInv
<1>2. /\ Len(order) \in Nat /\ turn \in 1..Len(order)
      /\ \A i \in 1..Len(order) : order[i] \in Comment
      /\ \A i, k \in 1..Len(order) : order[i] = order[k] => i = k
  BY <1>1, BatchFacts DEF UpdateAbsorbed, Routing, Numbered
<1>3. /\ UNCHANGED <<order, perComment, answer, turn, sent>> /\ bpc' = "route"
      /\ failedUpdates \in Nat /\ result \in [Comment -> Piece \cup {NoPiece}]
  BY <1>1, ReviewBatchAssumption DEF TypeOK, UpdateAbsorbed
<1>4. Response' = Response
  BY <1>3 DEF Response, Whole
<1>5. Answered' /\ Ended'
  BY <1>1, <1>3 DEF Answered, Ended
<1>6. SavedFirst'
  <2> SUFFICES ASSUME failedUpdates' = 0
               PROVE  /\ \A i \in 2..Len(order) : i < turn => result'[order[i]] = sent[order[i]]
                      /\ result'[order[turn]] = Response
    BY <1>3, <1>4 DEF SavedFirst
  <2>1. failedUpdates = 0 /\ result' = [result EXCEPT ![order[turn]] = Response]
    BY <1>3 DEF UpdateAbsorbed, Save, SaveFails
  <2>2. result'[order[turn]] = Response
    BY <1>2, <1>3, <2>1
  <2>3. ASSUME NEW i \in 2..Len(order), i < turn PROVE result'[order[i]] = sent[order[i]]
    <3>1. i \in 1..Len(order) /\ i # turn
      BY <1>2, <2>3
    <3>2. result'[order[i]] = result[order[i]]
      BY <1>2, <1>3, <2>1, <3>1
    <3> QED BY <1>1, <2>1, <2>3, <3>2 DEF SavedFirst
  <2> QED BY <2>2, <2>3
<1> QED BY <1>5, <1>6 DEF AnswerInv

\* Every step keeps it; before the first turn there is nothing to keep.
LEMMA AnswerStep == BatchInv /\ AnswerInv /\ [Next]_vars => AnswerInv'
<1> SUFFICES ASSUME BatchInv, AnswerInv, [Next]_vars PROVE AnswerInv'
  OBVIOUS
<1>1. Untouched /\ Routing /\ Alone /\ Answered /\ Ended /\ SavedFirst /\ failedUpdates \in Nat
  BY ReviewBatchAssumption DEF BatchInv, AnswerInv, TypeOK
<1>2. CASE BuildMergedReviewInput \/ Execute \/ ParseCommentResponses \/ ParseDone \/ SavePrimary
  <2>1. turn = 1 /\ UNCHANGED <<order, sent, turn>>
    BY <1>1, <1>2 DEF BuildMergedReviewInput, Execute, ParseCommentResponses, ParseDone, SavePrimary,
       Untouched, Alone
  <2>2. \A i \in 2..Len(order) : ~(i < 1)
    OBVIOUS
  <2> QED BY <1>1, <2>1, <2>2 DEF AnswerInv, Answered, Ended, SavedFirst
<1>3. CASE UNCHANGED vars
  BY <1>1, <1>3 DEF vars, AnswerInv, Answered, Ended, SavedFirst, Response, Whole
<1> QED BY <1>2, <1>3, AnswerRoute, AnswerUpdate DEF Next

\* When processTask is done, every comment of the batch was answered or none was: an
\* update of an absorbed task that fails does not end the replies halfway.
AllOrNone ==
  bpc = "done" =>
    \/ \A i \in 1..Len(order) : sent[order[i]] # NoPiece
    \/ \A i \in 1..Len(order) : sent[order[i]] = NoPiece

\* The replies to a review do not end halfway (routeBatchedResponses goes on after an
\* update that failed).
THEOREM RepliesAreAllOrNone == Spec => []AllOrNone
<1>1. BatchInv /\ AnswerInv => AllOrNone
  <2> SUFFICES ASSUME BatchInv, AnswerInv, bpc = "done" PROVE AllOrNone
    BY DEF AllOrNone
  <2>1. Len(order) \in Nat
    BY BatchFacts DEF BatchInv, Numbered
  <2>2. /\ \A i \in 1..Len(order) : ~(i < 1) /\ i < Len(order) + 1
        /\ turn = 1 \/ turn = Len(order) + 1
    BY <2>1 DEF AnswerInv, Ended
  <2> QED BY <2>2 DEF AllOrNone, AnswerInv, Answered
<1> QED BY <1>1, BatchInvariance, AnswerInvInit, AnswerStep, PTL DEF Spec

\* If no update fails, the reply to an absorbed comment is what its task was saved with.
RepliesAreSaved ==
  failedUpdates = 0 =>
    \A i \in 2..Len(order) : sent[order[i]] # NoPiece => result[order[i]] = sent[order[i]]

\* What a user reads in reply to an absorbed comment is what the store has of its task:
\* routeBatchedResponses saves it before it is sent, and nothing saves it again.
THEOREM RepliesMatchTheStore == Spec => []RepliesAreSaved
<1>1. BatchInv /\ AnswerInv => RepliesAreSaved
  <2>1. \A i \in 2..Len(order) : i \in 1..Len(order)
    OBVIOUS
  <2> QED BY <2>1 DEF AnswerInv, Answered, SavedFirst, RepliesAreSaved
<1> QED BY <1>1, BatchInvariance, AnswerInvInit, AnswerStep, PTL DEF Spec
-----------------------------------------------------------------------------
(* The loops end *)

\* How many steps are left at most once the answer is there: a header per line, two steps
\* per reply, and those before.
Rank ==
  (Len(answer) - match) + 2 * (Len(order) + 1 - turn)
    + (IF bpc = "save" THEN 2 ELSE IF bpc \in {"parse", "update"} THEN 1 ELSE 0)

\* After the execution every step of processTask is one of a number that was fixed with the
\* answer: no sequence of headers, repeated, unreadable or without text, keeps the loop of
\* parseCommentResponses going, and no failed update the one of routeBatchedResponses.
RankFalls == [][bpc \notin {"prompt", "execute"} => Rank' \in Nat /\ Rank' < Rank]_vars

\* What comes after the execution ends, in at most Rank steps.
THEOREM LoopsEnd == Spec => RankFalls
<1>1. BatchInv /\ BatchInv' /\ [Next]_vars =>
        [bpc \notin {"prompt", "execute"} => Rank' \in Nat /\ Rank' < Rank]_vars
  <2> SUFFICES ASSUME BatchInv, BatchInv', Next, bpc \notin {"prompt", "execute"}
               PROVE  Rank' \in Nat /\ Rank' < Rank
    OBVIOUS
  <2>1. /\ Len(order) \in Nat /\ Len(answer) \in Nat /\ match \in 0..Len(answer)
        /\ turn \in 1..Len(order) + 1
    BY BatchFacts DEF BatchInv, TypeOK, Numbered
  <2>2. /\ Len(order') \in Nat /\ Len(answer') \in Nat /\ match' \in 0..Len(answer')
        /\ turn' \in 1..Len(order') + 1
    BY BatchFacts DEF BatchInv, TypeOK, Numbered
  <2>3. CASE SavePrimary \/ ParseDone \/ UpdateAbsorbed
    <3>1. /\ UNCHANGED <<order, answer, match, turn>>
          /\ \/ bpc = "save" /\ bpc' \in {"parse", "route", "done"}
             \/ bpc \in {"parse", "update"} /\ bpc' = "route"
      BY <2>3 DEF SavePrimary, ParseDone, UpdateAbsorbed
    <3> QED BY <2>1, <3>1 DEF Rank
  <2>4. CASE ParseCommentResponses
    <3>1. UNCHANGED <<order, answer, turn, bpc>> /\ match' > match
      BY <2>1, <2>4 DEF ParseCommentResponses, EndsAt
    <3> QED BY <2>1, <2>2, <3>1 DEF Rank
  <2>5. CASE RouteResponse
    <3>1. /\ UNCHANGED <<order, answer, match>> /\ turn' = turn + 1
          /\ bpc = "route" /\ bpc' \in {"update", "done"}
      BY <2>5 DEF RouteResponse
    <3> QED BY <2>1, <2>2, <3>1 DEF Rank
  <2>6. ~BuildMergedReviewInput /\ ~Execute
    BY DEF BuildMergedReviewInput, Execute
  <2> QED BY <2>3, <2>4, <2>5, <2>6 DEF Next
<1> QED BY <1>1, BatchInvariance, PTL DEF Spec, RankFalls
=============================================================================

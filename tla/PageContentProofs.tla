-------------------------- MODULE PageContentProofs --------------------------
(***************************************************************************)
(* Proofs about what PageWriter puts on the pages: contents are sequences   *)
(* of pieces, and closing tags, and with them headers, do not pile up.      *)
(***************************************************************************)
EXTENDS PageWriterProofs, FiniteSetTheorems, WellFoundedInduction

-----------------------------------------------------------------------------
(* Where the header ends.                                                   *)

LEMMA LeastIndex ==
    ASSUME NEW I \in SUBSET Nat, I # {}
    PROVE  Min(I) \in I /\ \A i \in I : Min(I) <= i
  <1> DEFINE R == {p \in Nat \X Nat : p[1] < p[2]}
  <1>1. OpToRel(<, Nat) = R
    BY Zenon DEF OpToRel
  <1>2. IsWellFoundedOn(R, Nat)
    BY <1>1, NatLessThanWellFounded, Zenon
  <1>0. \A i, j \in Nat : i < j => <<i, j>> \in R
    OBVIOUS
  <1> HIDE DEF R
  <1>3. PICK m \in I : \A i \in I : ~ (<<i, m>> \in R)
    BY <1>2, WFMin, Zenon
  <1>4. ASSUME NEW i \in I PROVE m <= i
    <2>1. ~ (i < m)
      BY <1>0, <1>3
    <2> QED
      BY <2>1
  <1> QED
    BY <1>4 DEF Min

LEMMA FirstCloseIsFirst ==
    ASSUME NEW c \in Seq(Pieces)
    PROVE  /\ FirstClose(c) \in 0..Len(c)
           /\ FirstClose(c) = 0 => Closes(c) = {}
           /\ FirstClose(c) # 0 =>
                FirstClose(c) \in Closes(c) /\ \A i \in Closes(c) : FirstClose(c) <= i
  <1>1. Closes(c) = {i \in 1..Len(c) : c[i] = "close"} /\ Closes(c) \in SUBSET Nat
    BY DEF Closes
  <1>2. FirstClose(c) = IF Closes(c) # {} THEN Min(Closes(c)) ELSE 0
    <2>1. FirstClose(c) = IF {i \in 1..Len(c) : c[i] = "close"} # {}
                          THEN Min({i \in 1..Len(c) : c[i] = "close"}) ELSE 0
      BY Zenon DEF FirstClose, SelectInSeq
    <2> QED
      BY <1>1, <2>1, Zenon
  <1>3. CASE Closes(c) = {}
    BY <1>2, <1>3
  <1>4. CASE Closes(c) # {}
    <2>1. FirstClose(c) \in Closes(c) /\ \A i \in Closes(c) : FirstClose(c) <= i
      BY <1>1, <1>2, <1>4, LeastIndex, Zenon
    <2> QED
      BY <1>1, <1>4, <2>1
  <1> QED
    BY <1>3, <1>4

-----------------------------------------------------------------------------
(* How many closing tags a content has.                                     *)

Count(c) == Cardinality(Closes(c))

LEMMA CountType ==
    ASSUME NEW c \in Seq(Pieces)
    PROVE  IsFiniteSet(Closes(c)) /\ Count(c) \in Nat
  <1>1. IsFiniteSet(1..Len(c)) /\ Closes(c) \in SUBSET (1..Len(c))
    BY FS_Interval DEF Closes
  <1>2. IsFiniteSet(Closes(c))
    BY <1>1, FS_Subset
  <1> QED
    BY <1>2, FS_CardinalityType DEF Count

(* If the closing tags S of one content are in another, all shifted alike.  *)
LEMMA CountShifted ==
    ASSUME NEW c \in Seq(Pieces), NEW S \in SUBSET Nat, NEW d \in Int,
           \A i \in S : i + d \in Closes(c)
    PROVE  IsFiniteSet(S) /\ Cardinality(S) <= Count(c)
  <1> DEFINE f == [i \in S |-> i + d]
  <1>1. f \in Injection(S, Closes(c))
    <2>1. f \in [S -> Closes(c)]
      OBVIOUS
    <2>2. \A i, j \in S : f[i] = f[j] => i = j
      OBVIOUS
    <2> QED
      BY <2>1, <2>2, Zenon DEF Injection, IsInjective
  <1>2. IsFiniteSet(Closes(c))
    BY CountType
  <1> HIDE DEF f
  <1> QED
    BY <1>1, <1>2, FS_Injection DEF Count

(* At most one closing tag goes with a header.                              *)
LEMMA BodyCount ==
    ASSUME NEW c \in Seq(Pieces)
    PROVE  /\ Body(c) \in Seq(Pieces)
           /\ Count(Body(c)) <= Count(c)
           /\ Count(c) <= Count(Body(c)) + 1
  <1> DEFINE n == FirstClose(c)
             rest == SubSeq(c, n + 1, Len(c))
  <1>1. Body(c) = c \/ (n # 0 /\ Body(c) = rest)
    BY DEF Body
  <1>2. CASE Body(c) = c
    BY <1>2, CountType
  <1>3. CASE n # 0 /\ Body(c) = rest
    <2>1. n \in Closes(c) /\ n \in 1..Len(c) /\ \A i \in Closes(c) : n <= i
      BY <1>3, FirstCloseIsFirst DEF Closes
    <2> HIDE DEF n
    <2>2. /\ rest \in Seq(Pieces) /\ Len(rest) = Len(c) - n
          /\ \A i \in 1..Len(c) - n : rest[i] = c[i + n]
      BY <2>1
    <2> HIDE DEF rest
    <2>3. \A i \in Closes(rest) : i + n \in Closes(c)
      BY <2>1, <2>2 DEF Closes
    <2>4. \A i \in Closes(c) \ {n} : i + (0 - n) \in Closes(rest)
      BY <2>1, <2>2 DEF Closes
    <2>5. Count(rest) <= Count(c)
      <3>1. Closes(rest) \in SUBSET Nat /\ n \in Int
        BY <2>1, <2>2 DEF Closes
      <3> QED
        BY <2>3, <3>1, CountShifted DEF Count
    <2>6. Cardinality(Closes(c) \ {n}) <= Count(rest)
      <3>1. Closes(c) \ {n} \in SUBSET Nat /\ 0 - n \in Int
        BY <2>1 DEF Closes
      <3> QED
        BY <2>2, <2>4, <3>1, CountShifted
    <2>7. Cardinality(Closes(c) \ {n}) = Count(c) - 1
      BY <2>1, CountType, FS_RemoveElement DEF Count
    <2> QED
      BY <1>3, <2>2, <2>5, <2>6, <2>7, CountType
  <1> QED
    BY <1>1, <1>2, <1>3

(* The body under a header that the bot wrote.                              *)
LEMMA BodyUnderHeader ==
    ASSUME NEW s \in Statuses, NEW b \in Seq(Pieces)
    PROVE  /\ Header(s) \o b \in Seq(Pieces)
           /\ Body(Header(s) \o b) = b
  <1> DEFINE c == Header(s) \o b
  <1>1. s # "close"
    BY PageWriterAssumption DEF Statuses
  <1>2. /\ c \in Seq(Pieces) /\ Len(c) = Len(b) + 3
        /\ c[1] = "open" /\ c[2] = s /\ c[3] = "close"
        /\ \A i \in 1..Len(b) : c[i + 3] = b[i]
    BY DEF Header, Pieces
  <1> HIDE DEF c
  <1>3. FirstClose(c) = 3
    <2>1. 3 \in Closes(c) /\ 1 \notin Closes(c) /\ 2 \notin Closes(c)
      BY <1>1, <1>2 DEF Closes
    <2>2. FirstClose(c) \in Nat /\ FirstClose(c) # 0
      BY <1>2, <2>1, FirstCloseIsFirst
    <2>3. FirstClose(c) \in Closes(c) /\ FirstClose(c) <= 3
      BY <1>2, <2>1, <2>2, FirstCloseIsFirst
    <2> QED
      BY <2>1, <2>2, <2>3
  <1>4. SelectInSeq(c, LAMBDA piece : piece # "space") = 1
    <2> DEFINE I == {i \in 1..Len(c) : c[i] # "space"}
    <2>1. SelectInSeq(c, LAMBDA piece : piece # "space") = IF I # {} THEN Min(I) ELSE 0
      BY Zenon DEF SelectInSeq
    <2>2. 1 \in I /\ I \in SUBSET Nat /\ \A i \in I : 1 <= i
      BY <1>2
    <2> HIDE DEF I
    <2>3. Min(I) \in I /\ Min(I) <= 1
      BY <2>2, LeastIndex
    <2>4. Min(I) = 1
      <3>1. Min(I) \in Nat /\ 1 <= Min(I)
        BY <2>2, <2>3
      <3> QED
        BY <2>3, <3>1
    <2> QED
      BY <2>1, <2>2, <2>4, Zenon
  <1>5. Body(c) = SubSeq(c, 4, Len(c))
    <2>1. 1 # 0 /\ 3 # 0 /\ 3 + 1 = 4
      OBVIOUS
    <2>2. Body(c) = SubSeq(c, FirstClose(c) + 1, Len(c))
      BY <1>2, <1>3, <1>4, <2>1, Zenon DEF Body
    <2> QED
      BY <1>3, <2>1, <2>2, Zenon
  <1>6. SubSeq(c, 4, Len(c)) = b
    BY <1>2
  <1> QED
    BY <1>2, <1>5, <1>6 DEF c

-----------------------------------------------------------------------------
(* What editors do to a content adds no closing tag to it.                  *)
LEMMA NoTags ==
    ASSUME NEW c \in Seq(Pieces), \A i \in 1..Len(c) : c[i] # "close"
    PROVE  Count(c) = 0
  <1>1. Closes(c) = {}
    BY DEF Closes
  <1> QED
    BY <1>1, FS_EmptySet DEF Count

LEMMA WithoutCloseCount ==
    ASSUME NEW c \in Seq(Pieces)
    PROVE  WithoutClose(c) \in Seq(Pieces) /\ Count(WithoutClose(c)) <= Count(c)
  <1> DEFINE n == FirstClose(c)
             rest == RemoveAt(c, n)
  <1>1. CASE n = 0
    BY <1>1, CountType DEF WithoutClose
  <1>2. CASE n # 0
    <2>1. n \in 1..Len(c) /\ \A i \in Closes(c) : n <= i
      BY <1>2, FirstCloseIsFirst
    <2>2. WithoutClose(c) = rest
      BY <1>2 DEF WithoutClose
    <2> HIDE DEF n
    <2>3. /\ rest \in Seq(Pieces) /\ Len(rest) = Len(c) - 1
          /\ \A i \in 1..n - 1 : rest[i] = c[i]
          /\ \A i \in n..Len(c) - 1 : rest[i] = c[i + 1]
      <3> DEFINE a == SubSeq(c, 1, n - 1)
                 b == SubSeq(c, n + 1, Len(c))
      <3>1. /\ a \in Seq(Pieces) /\ Len(a) = n - 1
            /\ \A i \in 1..n - 1 : a[i] = c[i]
        BY <2>1
      <3>2. /\ b \in Seq(Pieces) /\ Len(b) = Len(c) - n
            /\ \A i \in 1..Len(c) - n : b[i] = c[i + n]
        BY <2>1
      <3>3. rest = a \o b
        BY DEF RemoveAt
      <3> HIDE DEF a, b, rest
      <3>4. /\ rest \in Seq(Pieces) /\ Len(rest) = Len(c) - 1
            /\ \A i \in 1..n - 1 : rest[i] = a[i]
            /\ \A i \in n..Len(c) - 1 : rest[i] = b[i - (n - 1)]
        <4>0. a \in Seq(Pieces) /\ b \in Seq(Pieces) /\ rest = a \o b
          BY <3>1, <3>2, <3>3
        <4>1. rest \in Seq(Pieces) /\ Len(rest) = Len(a) + Len(b)
          BY <4>0
        <4>2. \A i \in 1..Len(a) : rest[i] = a[i]
          BY <4>0
        <4>3. \A i \in Len(a) + 1..Len(a) + Len(b) : rest[i] = b[i - Len(a)]
          BY <4>0
        <4> QED
          BY <2>1, <3>1, <3>2, <4>1, <4>2, <4>3
      <3> QED
        BY <2>1, <3>1, <3>2, <3>4
    <2> HIDE DEF rest
    <2>4. \A i \in Closes(rest) : i + 1 \in Closes(c)
      BY <2>1, <2>3 DEF Closes
    <2>5. Closes(rest) \in SUBSET Nat /\ 1 \in Int
      BY <2>3 DEF Closes
    <2> QED
      BY <2>2, <2>3, <2>4, <2>5, CountShifted DEF Count
  <1> QED
    BY <1>1, <1>2

LEMMA RewritesCount ==
    ASSUME NEW c \in Content, NEW d \in Rewrites(c)
    PROVE  \/ d = Missing
           \/ d \in Seq(Pieces) /\ Count(d) = 0
           \/ c # Missing /\ d \in Seq(Pieces) /\ Count(d) <= Count(c)
  <1>1. CASE d = Missing
    BY <1>1
  <1>2. CASE d \in {<<"redirect">>, <<"text">>}
    <2>1. PICK s \in {"redirect", "text"} : d = <<s>>
      BY <1>2
    <2>2. s \in Pieces /\ s # "close"
      BY DEF Pieces
    <2>3. d \in Seq(Pieces) /\ \A i \in 1..Len(d) : d[i] # "close"
      BY <2>1, <2>2
    <2> QED
      BY <2>3, NoTags
  <1>3. ASSUME NEW s \in {"space", "text"}, c # Missing, d = <<s>> \o c
        PROVE  d \in Seq(Pieces) /\ Count(d) <= Count(c)
    <2>1. c \in Seq(Pieces) /\ s \in Pieces /\ s # "close"
      BY <1>3 DEF Content, Pieces
    <2>2. /\ d \in Seq(Pieces) /\ Len(d) = Len(c) + 1 /\ d[1] = s
          /\ \A i \in 2..Len(d) : d[i] = c[i - 1]
      <3>1. <<s>> \in Seq(Pieces) /\ Len(<<s>>) = 1 /\ <<s>>[1] = s
        BY <2>1
      <3> QED
        BY <1>3, <2>1, <3>1
    <2>3. Closes(d) \in SUBSET Nat /\ (0 - 1) \in Int
      BY <2>2 DEF Closes
    <2>4. \A i \in Closes(d) : i + (0 - 1) \in Closes(c)
      BY <2>1, <2>2 DEF Closes
    <2> QED
      BY <2>1, <2>2, <2>3, <2>4, CountShifted DEF Count
  <1>4. ASSUME c # Missing, d = c \o <<"text">>
        PROVE  d \in Seq(Pieces) /\ Count(d) <= Count(c)
    <2>1. c \in Seq(Pieces) /\ "text" \in Pieces
      BY <1>4 DEF Content, Pieces
    <2>2. /\ d \in Seq(Pieces) /\ Len(d) = Len(c) + 1 /\ d[Len(d)] = "text"
          /\ \A i \in 1..Len(c) : d[i] = c[i]
      BY <1>4, <2>1
    <2>3. Closes(d) \in SUBSET Nat /\ 0 \in Int
      BY <2>2 DEF Closes
    <2>4. \A i \in Closes(d) : i + 0 \in Closes(c)
      BY <2>1, <2>2 DEF Closes
    <2> QED
      BY <2>1, <2>2, <2>3, <2>4, CountShifted DEF Count
  <1>5. CASE c # Missing /\ d = WithoutClose(c)
    BY <1>5, WithoutCloseCount DEF Content
  <1> QED
    BY <1>1, <1>2, <1>3, <1>4, <1>5 DEF Rewrites

-----------------------------------------------------------------------------
(* The invariant.                                                           *)

(* What TypeOK says of contents.                                            *)
Contents ==
    /\ page \in [Targets -> Content]
    /\ past \in [Targets -> SUBSET Seq(Pieces)]
    /\ inflight \subseteq Edits
    /\ faults \in Nat
    /\ eager \in [Writers -> BOOLEAN]
    /\ original \in [Writers -> Seq(Pieces)]

(* Below a header, if there is one, are at most k closing tags.             *)
Few(c, k) == Count(Body(c)) <= k

(* Every editor action may have cost the bot one header it did not          *)
(* recognise: on the pages, in what a run fetched, and in edits on the way. *)
FewHeaders ==
    /\ edits <= MaxEdits
    /\ \A t \in Targets : page[t] # Missing => Few(page[t], MaxEdits - edits)
    /\ \A w \in Writers : Few(original[w], MaxEdits - edits)
    /\ \A e \in inflight : Few(e.content, MaxEdits - edits)

PagesInv == Inv /\ Contents /\ FewHeaders

(* What a run may do to contents.                                           *)
LEMMA ResultsAreContents ==
    ASSUME NEW res \in Outcomes \cup {Pending}
    PROVE  /\ res \in Results
           /\ res.body \in Seq(Pieces) /\ Count(res.body) = 0
  <1>1. CASE res = Pending
    <2>1. res.body = <<>> /\ res \in Results
      BY <1>1 DEF Pending, Results
    <2>2. <<>> \in Seq(Pieces) /\ \A i \in 1..Len(<<>>) : <<>>[i] # "close"
      OBVIOUS
    <2> QED
      BY <2>1, <2>2, NoTags
  <1>2. ASSUME res \in Outcomes
        PROVE  \E x \in Pieces \ {"close"} : res.body = <<x>> /\ res.status \in Statuses
    <2>1. CASE res.status = "success" /\ \E list \in Lists : res.body = <<list>>
      <3>1. PICK list \in Lists : res.body = <<list>>
        BY <2>1
      <3>2. list \in Pieces \ {"close"} /\ res.status \in Statuses
        BY <2>1, PageWriterAssumption DEF Lists, EmptyText, Pieces, Statuses
      <3> QED
        BY <3>1, <3>2
    <2>2. CASE res.status \in Failures /\ res.body = <<FailureText>>
      BY <2>2 DEF FailureText, Pieces, Statuses
    <2> QED
      BY <1>2, <2>1, <2>2, OutcomeShape
  <1>3. CASE res \in Outcomes
    <2>1. PICK x \in Pieces \ {"close"} : res.body = <<x>> /\ res.status \in Statuses
      BY <1>2, <1>3
    <2>2. <<x>> \in Seq(Pieces) /\ \A i \in 1..Len(<<x>>) : <<x>>[i] # "close"
      OBVIOUS
    <2>3. res = [status |-> res.status, body |-> res.body]
      BY <1>3 DEF Outcomes
    <2> QED
      BY <2>1, <2>2, <2>3, NoTags DEF Results
  <1> QED
    BY <1>1, <1>3

LEMMA ThisEditFew ==
    ASSUME PagesInv, NEW w \in Writers, pc[w] = "edit"
    PROVE  ThisEdit(w) \in Edits /\ Few(ThisEdit(w).content, MaxEdits - edits)
  <1> DEFINE res == result[w]
             k == MaxEdits - edits
  <1>1. res \in Outcomes /\ run[w] \in Nat
    BY DEF PagesInv, Inv, Types, WriterAllowed
  <1>2. Target(w) \in Targets
    BY TargetIsTarget DEF PagesInv, Inv
  <1>3. original[w] \in Seq(Pieces) /\ Few(original[w], k) /\ k \in Nat
    BY PageWriterAssumption DEF PagesInv, Inv, Types, Contents, FewHeaders
  <1>4. res \in Results /\ res.body \in Seq(Pieces) /\ Count(res.body) = 0
    BY <1>1, ResultsAreContents
  <1>5. NewBody(w) \in Seq(Pieces) /\ Count(NewBody(w)) <= k
    BY <1>3, <1>4, BodyCount DEF NewBody, Few
  <1>6. res.status \in Statuses
    BY <1>1 DEF Outcomes, Statuses
  <1>7. /\ Header(res.status) \o NewBody(w) \in Seq(Pieces)
        /\ Few(Header(res.status) \o NewBody(w), k)
    BY <1>5, <1>6, BodyUnderHeader DEF Few
  <1> DEFINE content == Header(res.status) \o NewBody(w)
  <1>8. ThisEdit(w).content = content
    BY DEF ThisEdit
  <1>9. ThisEdit(w) = [writer |-> w, run |-> run[w], target |-> Target(w), result |-> res,
                       content |-> content]
    BY DEF ThisEdit
  <1>10. content \in Seq(Pieces)
    BY <1>7
  <1> HIDE DEF content, res
  <1>11. ThisEdit(w) \in Edits
    BY <1>1, <1>2, <1>4, <1>9, <1>10 DEF Edits
  <1> QED
    BY <1>7, <1>8, <1>11 DEF content, res

LEMMA FewMore ==
    ASSUME NEW c \in Seq(Pieces), NEW k \in Int, NEW m \in Int, k <= m, Few(c, k)
    PROVE  Few(c, m)
  <1>1. Count(Body(c)) \in Nat
    BY BodyCount, CountType
  <1> QED
    BY <1>1 DEF Few

(* Steps leave contents as they are, or replace them by few headers.        *)
LEMMA StepKeepsFew ==
    ASSUME Contents, FewHeaders, Contents', edits \in Nat, edits' \in Nat, edits' <= edits,
           \A t \in Targets : \/ page'[t] = Missing \/ page'[t] = page[t]
                               \/ Few(page'[t], MaxEdits - edits'),
           \A w \in Writers : original'[w] = original[w] \/ Few(original'[w], MaxEdits - edits),
           \A e \in inflight' : e \in inflight \/ Few(e.content, MaxEdits - edits)
    PROVE  FewHeaders'
  <1> DEFINE k == MaxEdits - edits
             m == MaxEdits - edits'
  <1>1. k \in Int /\ m \in Int /\ k <= m /\ edits' <= MaxEdits
    BY PageWriterAssumption DEF FewHeaders
  <1> HIDE DEF k, m
  <1>2. ASSUME NEW t \in Targets, page'[t] # Missing PROVE Few(page'[t], m)
    <2>1. page'[t] \in Seq(Pieces)
      BY <1>2 DEF Contents, Content
    <2>2. CASE page'[t] = page[t]
      <3>1. Few(page[t], k)
        BY <1>2, <2>2 DEF FewHeaders, k
      <3> QED
        BY <1>1, <2>1, <2>2, <3>1, FewMore
    <2> QED
      BY <1>2, <2>2 DEF m
  <1>3. ASSUME NEW w \in Writers PROVE Few(original'[w], m)
    <2>1. original'[w] \in Seq(Pieces) /\ Few(original'[w], k)
      BY DEF Contents, FewHeaders, k
    <2> QED
      BY <1>1, <2>1, FewMore
  <1>4. ASSUME NEW e \in inflight' PROVE Few(e.content, m)
    <2>1. e.content \in Seq(Pieces) /\ Few(e.content, k)
      BY DEF Contents, Edits, FewHeaders, k
    <2> QED
      BY <1>1, <2>1, FewMore
  <1> QED
    BY <1>1, <1>2, <1>3, <1>4 DEF FewHeaders, Few, m

-----------------------------------------------------------------------------
(* The steps.                                                               *)

LEMMA BodiesAreContents ==
    ASSUME NEW c \in Content
    PROVE  BodiesOf(c) \subseteq Seq(Pieces)
  BY BodyCount DEF BodiesOf, Content

LEMMA BecomesContents ==
    ASSUME Contents, NEW t \in Targets, NEW c \in Content, Becomes(t, c)
    PROVE  /\ page' \in [Targets -> Content] /\ past' \in [Targets -> SUBSET Seq(Pieces)]
           /\ page'[t] = c /\ \A u \in Targets \ {t} : page'[u] = page[u]
  <1>1. BodiesOf(c) \subseteq Seq(Pieces)
    BY BodiesAreContents
  <1> QED
    BY <1>1 DEF Contents, Becomes

(* A content without tags counts for nothing.                               *)
LEMMA FewWithoutTags ==
    ASSUME NEW c \in Seq(Pieces), Count(c) = 0, NEW k \in Nat
    PROVE  Few(c, k)
  <1>1. Count(Body(c)) <= 0 /\ Count(Body(c)) \in Nat
    BY BodyCount, CountType
  <1> QED
    BY <1>1 DEF Few

LEMMA EmptyAndText ==
    \A c \in {<<"text">>, <<>>} : c \in Seq(Pieces) /\ Count(c) = 0
  <1>1. "text" \in Pieces
    BY DEF Pieces
  <1>2. <<"text">> \in Seq(Pieces) /\ \A i \in 1..Len(<<"text">>) : <<"text">>[i] # "close"
    BY <1>1
  <1>3. <<>> \in Seq(Pieces) /\ \A i \in 1..Len(<<>>) : <<>>[i] # "close"
    OBVIOUS
  <1>4. Count(<<"text">>) = 0 /\ Count(<<>>) = 0
    BY <1>2, <1>3, NoTags
  <1> QED
    BY <1>2, <1>3, <1>4

LEMMA PagesInit == Init => Contents /\ FewHeaders
  <1> SUFFICES ASSUME Init PROVE Contents /\ FewHeaders
    OBVIOUS
  <1>1. \A c \in {<<"text">>, <<>>} : c \in Seq(Pieces)
    BY EmptyAndText
  <1>2. \A c \in {<<"text">>, <<>>} : Few(c, 0)
    BY EmptyAndText, FewWithoutTags
  <1>3. Contents
    <2>1. page \in [Targets -> Content]
      BY <1>1 DEF Init, Content
    <2>2. past \in [Targets -> SUBSET Seq(Pieces)]
      BY <2>1, BodiesAreContents DEF Init
    <2> QED
      BY <1>1, <2>1, <2>2, PageWriterAssumption DEF Init, Contents
  <1>4. MaxEdits \in Nat /\ edits = MaxEdits /\ MaxEdits - edits = 0
    BY PageWriterAssumption DEF Init
  <1>5. ASSUME NEW t \in Targets, page[t] # Missing PROVE page[t] = <<"text">>
    BY <1>5 DEF Init
  <1>6. ASSUME NEW w \in Writers PROVE original[w] = <<>>
    BY DEF Init
  <1>7. inflight = {}
    BY DEF Init
  <1> HIDE DEF Init
  <1> QED
    BY <1>2, <1>3, <1>4, <1>5, <1>6, <1>7 DEF FewHeaders

LEMMA EditorKeeps ==
    ASSUME PagesInv, NEW t \in Targets, EditorActs(t)
    PROVE  Contents' /\ FewHeaders'
  <1>1. /\ Contents /\ FewHeaders /\ edits \in Nat /\ MaxEdits \in Nat
        /\ page[t] \in Content
    BY PageWriterAssumption DEF PagesInv, Inv, Types, Contents
  <1>2. edits' \in Nat /\ edits' <= edits /\ MaxEdits - edits' = (MaxEdits - edits) + 1
        /\ edits <= MaxEdits
    BY <1>1 DEF EditorActs, FewHeaders
  <1>3. PICK c \in Rewrites(page[t]) : Becomes(t, c)
    BY DEF EditorActs
  <1>4. c = Missing \/ (c \in Seq(Pieces) /\ Few(c, MaxEdits - edits'))
    <2>1. CASE c = Missing
      BY <2>1
    <2>2. CASE c \in Seq(Pieces) /\ Count(c) = 0
      <3> DEFINE m == edits'
      <3>1. m \in Nat /\ m <= edits /\ edits <= MaxEdits
        BY <1>2
      <3> HIDE DEF m
      <3>2. MaxEdits - m \in Nat
        BY <1>1, <3>1
      <3> QED
        BY <2>2, <3>2, FewWithoutTags DEF m
    <2>3. CASE page[t] # Missing /\ c \in Seq(Pieces) /\ Count(c) <= Count(page[t])
      <3>1. page[t] \in Seq(Pieces) /\ Count(Body(page[t])) <= MaxEdits - edits
        BY <1>1, <2>3 DEF Content, FewHeaders, Few
      <3>2. /\ Count(Body(c)) <= Count(c)
            /\ Count(page[t]) <= Count(Body(page[t])) + 1
        BY <2>3, <3>1, BodyCount
      <3>3. /\ Count(Body(c)) \in Nat /\ Count(c) \in Nat
            /\ Count(page[t]) \in Nat /\ Count(Body(page[t])) \in Nat
        BY <2>3, <3>1, BodyCount, CountType
      <3>4. Count(Body(c)) <= (MaxEdits - edits) + 1
        BY <1>1, <2>3, <3>1, <3>2, <3>3
      <3> QED
        BY <1>2, <2>3, <3>4 DEF Few
    <2> QED
      BY <1>1, <2>1, <2>2, <2>3, RewritesCount
  <1>5. /\ page' \in [Targets -> Content] /\ past' \in [Targets -> SUBSET Seq(Pieces)]
        /\ page'[t] = c /\ \A u \in Targets \ {t} : page'[u] = page[u]
    BY <1>1, <1>3, <1>4, BecomesContents DEF Content
  <1>6. UNCHANGED <<inflight, faults, eager, original>>
    BY DEF EditorActs, writers
  <1>7. Contents'
    BY <1>1, <1>5, <1>6 DEF Contents
  <1> QED
    BY <1>1, <1>2, <1>4, <1>5, <1>6, <1>7, StepKeepsFew

LEMMA ServerKeeps ==
    ASSUME PagesInv, NEW e \in inflight, HandleEdit(e) \/ DropEdit(e)
    PROVE  Contents' /\ FewHeaders'
  <1>1. /\ Contents /\ FewHeaders /\ edits \in Nat
        /\ e.target \in Targets /\ e.content \in Seq(Pieces)
        /\ Few(e.content, MaxEdits - edits)
    BY DEF PagesInv, Inv, Types, Contents, Edits, FewHeaders
  <1>2. UNCHANGED <<edits, faults, eager, original>> /\ inflight' \subseteq inflight
    BY DEF HandleEdit, DropEdit, writers
  <1>3. /\ page' \in [Targets -> Content] /\ past' \in [Targets -> SUBSET Seq(Pieces)]
        /\ \A u \in Targets : page'[u] = page[u] \/ page'[u] = e.content
    <2>1. CASE UNCHANGED <<page, past>>
      BY <1>1, <2>1 DEF Contents
    <2>2. CASE Becomes(e.target, e.content)
      <3>1. e.content \in Content
        BY <1>1 DEF Content
      <3> QED
        BY <1>1, <2>2, <3>1, BecomesContents
    <2> QED
      BY <2>1, <2>2 DEF HandleEdit, DropEdit
  <1>4. Contents'
    BY <1>1, <1>2, <1>3 DEF Contents
  <1>5. edits' \in Nat /\ edits' <= edits /\ MaxEdits - edits' = MaxEdits - edits
    BY <1>1, <1>2
  <1> QED
    BY <1>1, <1>2, <1>3, <1>4, <1>5, StepKeepsFew

(* Nothing but the original content, or an edit, comes of a writer's step.  *)
LEMMA WriterKeeps ==
    ASSUME PagesInv, NEW w \in Writers, WriterStep(w)
    PROVE  Contents' /\ FewHeaders'
  <1>1. Contents /\ FewHeaders /\ edits \in Nat /\ MaxEdits \in Nat
    BY PageWriterAssumption DEF PagesInv, Inv, Types
  <1>2. UNCHANGED <<page, past, edits>>
    BY DEF WriterStep, Start, SkipTarget, UseTarget, Execute, FetchOriginal,
       FetchOriginalFails, SendEdit, EditReply, Abort, wiki
  <1>3. faults' \in Nat
    BY <1>1 DEF WriterStep, Start, SkipTarget, UseTarget, Execute, FetchOriginal,
       FetchOriginalFails, SendEdit, EditReply, Abort, Outage, Contents
  <1>4. eager' \in [Writers -> BOOLEAN]
    BY <1>1 DEF WriterStep, Start, SkipTarget, UseTarget, Execute, FetchOriginal,
       FetchOriginalFails, SendEdit, EditReply, Abort, NextOutput, Ends, Contents
  <1>5. \/ inflight' = inflight
        \/ inflight' = inflight \cup {ThisEdit(w)} /\ pc[w] = "edit"
    BY DEF WriterStep, Start, SkipTarget, UseTarget, Execute, FetchOriginal,
       FetchOriginalFails, SendEdit, EditReply, Abort, wiki, At
  <1> DEFINE k == MaxEdits - edits
  <1>6. k \in Nat
    BY <1>1 DEF FewHeaders
  <1>7. \E c \in Seq(Pieces) : /\ c = original[w] \/ Few(c, k)
                              /\ original' = [original EXCEPT ![w] = c]
    <2>1. CASE UNCHANGED original
      BY <1>1, <2>1 DEF Contents
    <2>2. CASE NextOutput(w) \/ Ends(w)
      <3>1. <<>> \in Seq(Pieces) /\ Few(<<>>, k)
        BY <1>6, EmptyAndText, FewWithoutTags
      <3>2. original' = [original EXCEPT ![w] = <<>>]
        BY <2>2 DEF NextOutput, Ends
      <3> QED
        BY <3>1, <3>2
    <2>3. CASE FetchOriginal(w)
      <3>1. Target(w) \in Targets /\ page[Target(w)] # Missing
        BY <2>3, TargetIsTarget DEF FetchOriginal, At, PagesInv, Inv
      <3>2. page[Target(w)] \in Seq(Pieces) /\ Few(page[Target(w)], k)
        BY <1>1, <3>1 DEF Contents, Content, FewHeaders
      <3> QED
        BY <2>3, <3>2 DEF FetchOriginal
    <2> QED
      BY <2>1, <2>2, <2>3 DEF WriterStep, Start, SkipTarget, UseTarget, Execute,
         FetchOriginalFails, SendEdit, EditReply, Abort
  <1>8. /\ original' \in [Writers -> Seq(Pieces)]
        /\ \A v \in Writers : original'[v] = original[v] \/ Few(original'[v], k)
    BY <1>1, <1>7 DEF Contents
  <1>9. pc[w] = "edit" => ThisEdit(w) \in Edits /\ Few(ThisEdit(w).content, k)
    BY ThisEditFew
  <1>10. /\ inflight' \subseteq Edits
         /\ \A e \in inflight' : e \in inflight \/ Few(e.content, k)
    BY <1>1, <1>5, <1>9 DEF Contents
  <1>11. Contents'
    BY <1>1, <1>2, <1>3, <1>4, <1>8, <1>10 DEF Contents
  <1>12. edits' \in Nat /\ edits' <= edits
    BY <1>1, <1>2
  <1> QED
    BY <1>1, <1>2, <1>8, <1>10, <1>11, <1>12, StepKeepsFew

LEMMA PagesNext == PagesInv /\ [Next]_vars => PagesInv'
  <1> SUFFICES ASSUME PagesInv, [Next]_vars PROVE PagesInv'
    OBVIOUS
  <1>1. Inv'
    BY InductiveStep DEF PagesInv
  <1>2. CASE Next
    BY <1>1, <1>2, EditorKeeps, ServerKeeps, WriterKeeps DEF Next, PagesInv
  <1>3. CASE UNCHANGED vars
    BY <1>1, <1>3 DEF PagesInv, Contents, FewHeaders, vars, wiki, writers
  <1> QED
    BY <1>2, <1>3

THEOREM PagesInvariance == Spec => []PagesInv
  <1>1. Init => PagesInv
    BY Initially, PagesInit DEF PagesInv
  <1> QED
    BY <1>1, PagesNext, PTL DEF Spec

(* Type correctness of the wiki's pages and edits and of the writers.       *)
THEOREM TypeCorrect == Spec => []TypeOK
  <1>1. PagesInv => TypeOK
    <2> SUFFICES ASSUME PagesInv PROVE TypeOK
      OBVIOUS
    <2>1. result \in [Writers -> Results]
      BY ResultsAreContents DEF PagesInv, Inv, Types
    <2>2. \A w \in Writers : pc[w] # "idle" => out[w] \in DOMAIN Output[w]
      BY PageWriterAssumption DEF PagesInv, Inv, Types
    <2> QED
      BY <2>1, <2>2 DEF PagesInv, Inv, Types, Contents, Places, TypeOK
  <1> QED
    BY <1>1, PagesInvariance, PTL

(* However often a query fails, a page never has more headers than one and  *)
(* one for every editor action.                                             *)
THEOREM HeadersKeptFew == Spec => []HeadersDoNotPileUp
  <1>1. PagesInv => HeadersDoNotPileUp
    <2> SUFFICES ASSUME PagesInv, NEW t \in Targets, page[t] # Missing
                 PROVE  Count(page[t]) <= 1 + (MaxEdits - edits)
      BY DEF HeadersDoNotPileUp, Count
    <2>1. /\ page[t] \in Seq(Pieces) /\ Few(page[t], MaxEdits - edits)
          /\ MaxEdits \in Nat /\ edits \in Nat
      BY PageWriterAssumption DEF PagesInv, Inv, Types, Contents, Content, FewHeaders
    <2>2. Count(page[t]) <= Count(Body(page[t])) + 1
      BY <2>1, BodyCount
    <2>3. Count(page[t]) \in Nat /\ Count(Body(page[t])) \in Nat
      BY <2>1, BodyCount, CountType
    <2> QED
      BY <2>1, <2>2, <2>3 DEF Few
  <1> QED
    BY <1>1, PagesInvariance, PTL
===============================================================================

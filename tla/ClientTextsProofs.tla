------------------------- MODULE ClientTextsProofs -------------------------
(***************************************************************************)
(* Proofs about ClientTexts, for texts of any length.                      *)
(***************************************************************************)
EXTENDS ClientTexts, SequenceTheorems, WellFoundedInduction, TLAPS

-----------------------------------------------------------------------------
(* Positions. *)

\* A set of positions has a first one and a last one.
LEMMA SomeIsLeast ==
    ASSUME NEW S, S \subseteq Nat, S # {}
    PROVE  \E x \in S : \A y \in S : x <= y
<1> DEFINE Less == OpToRel(<, Nat)
<1>1. \A m, n \in Nat : m < n => <<m, n>> \in Less
  BY DEF OpToRel
<1>2. IsWellFoundedOn(Less, Nat)
  BY NatLessThanWellFounded
<1> HIDE DEF Less
<1>3. PICK x \in S : \A y \in S : ~ (<<y, x>> \in Less)
  BY <1>2, WFMin
<1>4. \A y \in S : ~ (y < x)
  BY <1>1, <1>3
<1>5. QED
  BY <1>4

LEMMA FirstOfIsFirst ==
    ASSUME NEW n \in Nat, NEW S \in SUBSET (1..n)
    PROVE  \/ S = {} /\ FirstOf(S) = 0
           \/ /\ FirstOf(S) \in S
              /\ \A y \in S : FirstOf(S) <= y
<1>1. CASE S = {}
  BY <1>1 DEF FirstOf, npos
<1>2. CASE S # {}
  <2>1. \E x \in S : \A y \in S : x <= y
    <3>1. S \subseteq Nat
      OBVIOUS
    <3>2. QED
      BY <1>2, <3>1, SomeIsLeast
  <2>2. Min(S) \in S /\ \A y \in S : Min(S) <= y
    BY <2>1, Zenon DEF Min
  <2>3. QED
    BY <1>2, <2>2 DEF FirstOf
<1>3. QED
  BY <1>1, <1>2

LEMMA LastOfIsLast ==
    ASSUME NEW n \in Nat, NEW S \in SUBSET (1..n)
    PROVE  \/ S = {} /\ LastOf(S) = 0
           \/ /\ LastOf(S) \in S
              /\ \A y \in S : y <= LastOf(S)
<1>1. CASE S = {}
  BY <1>1 DEF LastOf, npos
<1>2. CASE S # {}
  <2> DEFINE FromEnd == {n - x : x \in S}
  <2>1. FromEnd \subseteq Nat /\ FromEnd # {}
    <3>1. \A x \in S : x \in Nat /\ x <= n /\ n - x \in Nat
      OBVIOUS
    <3>2. QED
      BY <1>2, <3>1
  <2>2. \E d \in FromEnd : \A e \in FromEnd : d <= e
    <3> HIDE DEF FromEnd
    <3>1. QED
      BY <2>1, SomeIsLeast
  <2>3. PICK x \in S : \A e \in FromEnd : n - x <= e
    BY <2>2
  <2>4. \A y \in S : n - x <= n - y
    BY <2>3
  <2>5. \A y \in S : x >= y
    BY <2>4
  <2>6. \E z \in S : \A y \in S : z >= y
    BY <2>5
  <2>7. Max(S) \in S /\ \A y \in S : Max(S) >= y
    BY <2>6, Zenon DEF Max
  <2>8. \A y \in S : y <= Max(S)
    BY <2>7
  <2>9. QED
    BY <1>2, <2>7, <2>8 DEF LastOf
<1>3. QED
  BY <1>1, <1>2

-----------------------------------------------------------------------------
(* Parts of a text. *)

\* A position in a text splits it.
LEMMA SplitAt ==
    ASSUME NEW t \in Seq(Characters), NEW i \in 1..Len(t)
    PROVE  /\ SubSeq(t, 1, i - 1) \in Seq(Characters)
           /\ Len(SubSeq(t, 1, i - 1)) = i - 1
           /\ \A j \in 1..(i - 1) : SubSeq(t, 1, i - 1)[j] = t[j]
           /\ Head(SubSeq(t, i, Len(t))) = t[i]
           /\ Tail(SubSeq(t, i, Len(t))) = SubSeq(t, i + 1, Len(t))
           /\ <<SubSeq(t, 1, i - 1), SubSeq(t, i, Len(t))>> \in Splits(t)
<1>1. Len(t) \in Nat /\ \A j \in 1..Len(t) : t[j] \in Characters
  OBVIOUS
<1>2. 1 \in Int /\ i - 1 \in Int /\ \A j \in 1..(i - 1) : t[j] \in Characters
  BY <1>1
<1>3. /\ SubSeq(t, 1, i - 1) \in Seq(Characters)
      /\ Len(SubSeq(t, 1, i - 1)) = i - 1
      /\ \A j \in 1..(i - 1) : SubSeq(t, 1, i - 1)[j] = t[j]
  OBVIOUS
<1>4. Len(t) \in i..Len(t)
  BY <1>1
<1>5. /\ Head(SubSeq(t, i, Len(t))) = t[i]
      /\ Tail(SubSeq(t, i, Len(t))) = SubSeq(t, i + 1, Len(t))
  BY <1>4, HeadTailOfSubSeq
<1>6. <<SubSeq(t, 1, i - 1), SubSeq(t, i, Len(t))>> \in Splits(t)
  <2>1. DOMAIN t = 1..Len(t)
    OBVIOUS
  <2>2. QED
    BY <2>1, Zenon DEF Splits
<1>7. QED
  BY <1>3, <1>5, <1>6

\* Every split is at a position.
LEMMA SplitsArePositions ==
    ASSUME NEW t \in Seq(Characters), NEW pair \in Splits(t)
    PROVE  \E i \in 1..Len(t) :
              /\ pair[1] = SubSeq(t, 1, i - 1)
              /\ pair[2] = SubSeq(t, i, Len(t))
<1>1. PICK i \in DOMAIN t : pair = <<SubSeq(t, 1, i - 1), SubSeq(t, i, Len(t))>>
  BY Zenon DEF Splits
<1>2. i \in 1..Len(t)
  OBVIOUS
<1>3. QED
  BY <1>1, <1>2

\* What is found is the first of its kind.
LEMMA FindIsFirst ==
    ASSUME NEW t \in Seq(Characters), NEW c
    PROVE  \/ Find(t, c) = 0 /\ \A i \in 1..Len(t) : t[i] # c
           \/ /\ Find(t, c) \in 1..Len(t)
              /\ t[Find(t, c)] = c
              /\ \A i \in 1..Len(t) : t[i] = c => Find(t, c) <= i
<1> DEFINE S == {i \in 1..Len(t) : t[i] = c}
<1>1. Find(t, c) = FirstOf(S)
  <2>1. DOMAIN t = 1..Len(t)
    OBVIOUS
  <2>2. QED
    BY <2>1, Zenon DEF Find
<1>2. Len(t) \in Nat /\ S \in SUBSET (1..Len(t))
  OBVIOUS
<1>3. \/ S = {} /\ FirstOf(S) = 0
      \/ FirstOf(S) \in S /\ \A y \in S : FirstOf(S) <= y
  <2> HIDE DEF S
  <2>1. QED
    BY <1>2, FirstOfIsFirst
<1>4. QED
  BY <1>1, <1>3

-----------------------------------------------------------------------------
(* The stream url. *)

\* The url is all path: it has no query, or begins with it.
AllPath(t) == Find(t, "?") \in {0, 1}

\* The last slash is that of the path.
LEMMA SlashIsLast ==
    ASSUME NEW t \in Seq(Characters)
    PROVE  LET InPath(i) == t[i] = "/" /\ (AllPath(t) \/ i < Find(t, "?")) IN
           \/ SlashPosition(t) = 0 /\ \A i \in 1..Len(t) : ~InPath(i)
           \/ /\ SlashPosition(t) \in 1..Len(t)
              /\ InPath(SlashPosition(t))
              /\ \A i \in 1..Len(t) : InPath(i) => i <= SlashPosition(t)
<1> DEFINE S == {i \in 1..Len(t) :
                    t[i] = "/" /\ (EndPosition(t) = 0 \/ i <= EndPosition(t))}
<1>1. SlashPosition(t) = LastOf(S)
  <2>1. DOMAIN t = 1..Len(t)
    OBVIOUS
  <2>2. QED
    BY <2>1, Zenon DEF SlashPosition, FindLastOf, npos
<1>2. Len(t) \in Nat /\ S \in SUBSET (1..Len(t))
  OBVIOUS
<1>3. \/ S = {} /\ LastOf(S) = 0
      \/ LastOf(S) \in S /\ \A y \in S : y <= LastOf(S)
  <2> HIDE DEF S
  <2>1. QED
    BY <1>2, LastOfIsLast
<1>4. Find(t, "?") \in 0..Len(t)
  BY <1>2, FindIsFirst
<1>5. ASSUME NEW i \in 1..Len(t)
      PROVE  (EndPosition(t) = 0 \/ i <= EndPosition(t))
                <=> (AllPath(t) \/ i < Find(t, "?"))
  BY <1>2, <1>4 DEF EndPosition, AllPath, npos
<1>6. QED
  BY <1>1, <1>3, <1>5

\* substr, by the last position instead of the length.
LEMMA SubstrIs ==
    ASSUME NEW t, NEW from, NEW length, NEW last,
           \/ /\ length < 0 \/ from + length - 1 > Len(t)
              /\ last = Len(t)
           \/ /\ ~(length < 0 \/ from + length - 1 > Len(t))
              /\ last = from + length - 1
    PROVE  Substr(t, from, length) = SubSeq(t, from, last)
  BY Zenon DEF Substr

\* The stream id is what is between that slash and the query.
LEMMA IdIsBetween ==
    ASSUME NEW t \in Seq(Characters), ~Exits(t)
    PROVE  LET slash == SlashPosition(t)
               path == IF AllPath(t) THEN Len(t) ELSE Find(t, "?") - 1 IN
           /\ slash \in 1..path
           /\ path <= Len(t)
           /\ StreamId(t) = SubSeq(t, slash + 1, path)
<1> DEFINE slash == SlashPosition(t)
           q == Find(t, "?")
           path == IF AllPath(t) THEN Len(t) ELSE q - 1
           start == slash + 1
           length == EndPosition(t) - start + 1
<1>1. Len(t) \in Nat /\ q \in 0..Len(t)
  BY FindIsFirst
<1>2. slash \in 1..Len(t) /\ slash < Len(t) /\ (AllPath(t) \/ slash < q)
  BY SlashIsLast DEF Exits, npos
<1>3. StreamId(t) = Substr(t, start, length)
  BY Zenon DEF StreamId
<1> HIDE DEF slash, q
<1>4. AllPath(t) <=> q \in {0, 1}
  BY Zenon DEF AllPath, q
<1>5. EndPosition(t) = IF q # 0 THEN q - 1 ELSE Len(t) + 1
  BY DEF EndPosition, npos, q
<1> HIDE DEF start, length, path
<1>6. start = slash + 1 /\ start \in Int
  BY <1>2 DEF start
<1>7. EndPosition(t) \in Int /\ length = EndPosition(t) - start + 1
  BY <1>1, <1>5 DEF length
<1>8. path = IF q \in {0, 1} THEN Len(t) ELSE q - 1
  BY <1>4, Zenon DEF path, q
<1>9. slash \in 1..path /\ path <= Len(t)
  BY <1>1, <1>2, <1>4, <1>8
<1>10. ASSUME q = 0
       PROVE  Substr(t, start, length) = SubSeq(t, start, path)
  <2>1. path = Len(t) /\ length = Len(t) - slash + 1
    BY <1>1, <1>2, <1>5, <1>6, <1>7, <1>8, <1>10
  <2>2. start + length - 1 > Len(t)
    BY <1>1, <1>2, <1>6, <2>1
  <2>3. QED
    BY <2>1, <2>2, SubstrIs, Zenon
<1>11. ASSUME q = 1
       PROVE  Substr(t, start, length) = SubSeq(t, start, path)
  <2>1. path = Len(t) /\ length = 0 - slash
    BY <1>1, <1>2, <1>5, <1>6, <1>7, <1>8, <1>11
  <2>2. length < 0
    BY <1>2, <2>1
  <2>3. QED
    BY <2>1, <2>2, SubstrIs, Zenon
<1>12. ASSUME q \notin {0, 1}
       PROVE  Substr(t, start, length) = SubSeq(t, start, path)
  <2>1. path = q - 1 /\ length = q - 1 - slash
    BY <1>1, <1>2, <1>5, <1>6, <1>7, <1>8, <1>12
  <2>2. /\ start + length - 1 = path
        /\ ~(length < 0 \/ start + length - 1 > Len(t))
    BY <1>1, <1>2, <1>6, <1>9, <2>1
  <2>3. QED
    BY <2>2, SubstrIs, Zenon
<1>13. StreamId(t) = SubSeq(t, start, path)
  <2>1. Substr(t, start, length) = SubSeq(t, start, path)
    BY <1>10, <1>11, <1>12
  <2>2. QED
    BY <1>3, <2>1, Zenon
<1>14. QED
  BY <1>6, <1>9, <1>13 DEF path, slash, q

\* What a part of a text is, and that texts which agree there have it in common.
LEMMA PartIs ==
    ASSUME NEW s \in Seq(Characters), NEW t \in Seq(Characters),
           NEW m \in Nat \ {0}, NEW n \in Nat,
           m <= n + 1, n <= Len(s), n <= Len(t),
           \A i \in m..n : s[i] = t[i]
    PROVE  /\ SubSeq(s, m, n) \in Seq(Characters)
           /\ Len(SubSeq(s, m, n)) = n + 1 - m
           /\ \A i \in 1..(n + 1 - m) : SubSeq(s, m, n)[i] = s[m - 1 + i]
           /\ SubSeq(s, m, n) = SubSeq(t, m, n)
<1>1. \A i \in m..n : s[i] \in Characters /\ t[i] \in Characters
  OBVIOUS
<1>2. m \in Int /\ n \in Int
  OBVIOUS
<1>3. /\ SubSeq(s, m, n) \in Seq(Characters)
      /\ Len(SubSeq(s, m, n)) = n + 1 - m
      /\ \A i \in 1..(n - m + 1) : SubSeq(s, m, n)[i] = s[m + i - 1]
  BY <1>1, <1>2, SubSeqProperties
<1>4. /\ SubSeq(t, m, n) \in Seq(Characters)
      /\ Len(SubSeq(t, m, n)) = n + 1 - m
      /\ \A i \in 1..(n - m + 1) : SubSeq(t, m, n)[i] = t[m + i - 1]
  BY <1>1, <1>2, SubSeqProperties
<1>5. \A i \in 1..(n + 1 - m) : SubSeq(s, m, n)[i] = SubSeq(t, m, n)[i]
  BY <1>3, <1>4
<1>6. SubSeq(s, m, n) = SubSeq(t, m, n)
  BY <1>3, <1>4, <1>5, SeqEqual
<1>7. QED
  <2>1. \A i \in 1..(n + 1 - m) : SubSeq(s, m, n)[i] = s[m - 1 + i]
    <3>1. SUFFICES ASSUME NEW i \in 1..(n + 1 - m)
                   PROVE  SubSeq(s, m, n)[i] = s[m - 1 + i]
      OBVIOUS
    <3>2. i \in 1..(n - m + 1) /\ m + i - 1 = m - 1 + i
      OBVIOUS
    <3>3. SubSeq(s, m, n)[i] = s[m + i - 1]
      BY <1>3, <3>2, Zenon
    <3>4. QED
      BY <3>2, <3>3, Zenon
  <2>2. QED
    BY <1>3, <1>6, <2>1, Zenon

LEMMA QuerylessIsAllPath ==
    ASSUME NEW t \in Seq(Characters), Len(t) # 0
    PROVE  (\A i \in DOMAIN t : t[i] # "?" \/ t[1] = "?") <=> AllPath(t)
<1>1. Len(t) \in Nat /\ DOMAIN t = 1..Len(t)
  OBVIOUS
<1>2. 1 \in 1..Len(t)
  BY <1>1
<1>3. \/ Find(t, "?") = 0 /\ \A i \in 1..Len(t) : t[i] # "?"
      \/ /\ Find(t, "?") \in 1..Len(t)
         /\ t[Find(t, "?")] = "?"
         /\ \A i \in 1..Len(t) : t[i] = "?" => Find(t, "?") <= i
  BY FindIsFirst
<1>4. QED
  BY <1>1, <1>2, <1>3 DEF AllPath

LEMMA LastSegment ==
    ASSUME text \in Seq(Characters)
    PROVE  IdIsLastSegment
<1> DEFINE queryless == \A i \in DOMAIN text : text[i] # "?" \/ text[1] = "?"
           path == IF queryless THEN text
                   ELSE SubSeq(text, 1, Find(text, "?") - 1)
           slash == SlashPosition(text)
           end == IF AllPath(text) THEN Len(text) ELSE Find(text, "?") - 1
<1>1. SUFFICES ASSUME ~Exits(text)
               PROVE  \E pair \in Splits(path) :
                         /\ Head(pair[2]) = "/"
                         /\ StreamId(text) = Tail(pair[2])
                         /\ ~Has(StreamId(text), "/")
  BY DEF IdIsLastSegment
<1>2. /\ slash \in 1..end /\ end \in 1..Len(text) /\ Len(text) \in Nat
      /\ StreamId(text) = SubSeq(text, slash + 1, end)
  <2>1. Len(text) \in Nat /\ Find(text, "?") \in 0..Len(text)
    BY FindIsFirst
  <2>2. QED
    BY <1>1, <2>1, IdIsBetween
<1>3. /\ text[slash] = "/"
      /\ \A i \in (slash + 1)..end : text[i] # "/"
  <2>1. Find(text, "?") \in 0..Len(text)
    BY <1>2, FindIsFirst
  <2>2. QED
    BY <1>2, <2>1, SlashIsLast
<1>4. /\ path \in Seq(Characters) /\ Len(path) = end
      /\ \A i \in 1..end : path[i] = text[i]
  <2>1. queryless <=> AllPath(text)
    BY <1>2, QuerylessIsAllPath
  <2>2. CASE AllPath(text)
    BY <1>2, <2>1, <2>2
  <2>3. CASE ~AllPath(text)
    <3>1. path = SubSeq(text, 1, Find(text, "?") - 1) /\ end = Find(text, "?") - 1
      BY <2>1, <2>3
    <3>2. Find(text, "?") \in 1..Len(text)
      BY <2>3, FindIsFirst DEF AllPath
    <3> HIDE DEF path, end
    <3>3. \A q \in 1..Len(text) :
             /\ SubSeq(text, 1, q - 1) \in Seq(Characters)
             /\ Len(SubSeq(text, 1, q - 1)) = q - 1
             /\ \A j \in 1..(q - 1) : SubSeq(text, 1, q - 1)[j] = text[j]
      BY SplitAt
    <3>4. QED
      BY <3>1, <3>2, <3>3
  <2>4. QED
    BY <2>2, <2>3
<1>5. StreamId(text) = SubSeq(path, slash + 1, end)
  <2> DEFINE start == slash + 1
  <2> HIDE DEF path, slash, end
  <2>1. /\ start \in Nat \ {0} /\ end \in Nat /\ start <= end + 1
        /\ end <= Len(text) /\ end <= Len(path)
    BY <1>2, <1>4
  <2>2. \A i \in start..end : text[i] = path[i]
    BY <1>2, <1>4
  <2> HIDE DEF start
  <2>3. SubSeq(text, start, end) = SubSeq(path, start, end)
    BY <1>4, <2>1, <2>2, PartIs
  <2>4. QED
    BY <1>2, <2>3 DEF start
<1>6. ~Has(StreamId(text), "/")
  <2> HIDE DEF end
  <2>1. /\ StreamId(text) \in Seq(Characters)
        /\ Len(StreamId(text)) = end - slash
        /\ \A i \in 1..(end - slash) : StreamId(text)[i] = text[slash + i]
    BY <1>2, PartIs
  <2>2. \A i \in 1..(end - slash) : slash + i \in (slash + 1)..end
    BY <1>2
  <2>3. DOMAIN StreamId(text) = 1..(end - slash)
    BY <2>1
  <2>4. QED
    BY <1>3, <2>1, <2>2, <2>3 DEF Has
<1>7. QED
  <2> HIDE DEF path, end
  <2>1. /\ Head(SubSeq(path, slash, end)) = path[slash]
        /\ Tail(SubSeq(path, slash, end)) = SubSeq(path, slash + 1, end)
        /\ <<SubSeq(path, 1, slash - 1), SubSeq(path, slash, end)>> \in Splits(path)
    BY <1>2, <1>4, SplitAt
  <2>2. QED
    BY <1>2, <1>3, <1>4, <1>5, <1>6, <2>1

\* A part that begins a text has its characters where the text has them.
LEMMA HasBefore ==
    ASSUME NEW t \in Seq(Characters), NEW i \in 1..Len(t), NEW c
    PROVE  Has(SubSeq(t, 1, i - 1), c) <=> \E j \in 1..(i - 1) : t[j] = c
<1>1. DOMAIN SubSeq(t, 1, i - 1) = 1..(i - 1)
  BY SplitAt
<1>2. \A j \in 1..(i - 1) : SubSeq(t, 1, i - 1)[j] = t[j]
  BY SplitAt
<1>3. QED
  BY <1>1, <1>2 DEF Has

LEMMA NoSegment ==
    ASSUME text \in Seq(Characters)
    PROVE  ExitsWithoutSegment
<1> DEFINE slash == SlashPosition(text)
           q == Find(text, "?")
           Misplaced == \A pair \in Splits(text) :
               Head(pair[2]) = "/" => Has(pair[1], "?") /\ text[1] # "?"
           EndsInSlash == /\ text[Len(text)] = "/"
                          /\ ~Has(text, "?") \/ text[1] = "?"
<1>1. /\ Len(text) \in Nat /\ DOMAIN text = 1..Len(text)
      /\ slash \in 0..Len(text) /\ q \in 0..Len(text)
  BY FindIsFirst, SlashIsLast
<1>2. \/ q = 0 /\ \A i \in 1..Len(text) : text[i] # "?"
      \/ /\ q \in 1..Len(text) /\ text[q] = "?"
         /\ \A i \in 1..Len(text) : text[i] = "?" => q <= i
  BY FindIsFirst
<1>3. slash = 0 <=> Misplaced
  <2>1. slash = 0 <=> \A i \in 1..Len(text) :
                          text[i] = "/" => ~AllPath(text) /\ ~(i < q)
    BY <1>1, SlashIsLast
  <2>2. ASSUME NEW i \in 1..Len(text), text[i] = "/"
        PROVE  ~AllPath(text) /\ ~(i < q)
                  <=> (\E j \in 1..(i - 1) : text[j] = "?") /\ text[1] # "?"
    BY <1>1, <1>2, <2>2 DEF AllPath
  <2>3. Misplaced <=> \A i \in 1..Len(text) : text[i] = "/" =>
                          /\ \E j \in 1..(i - 1) : text[j] = "?"
                          /\ text[1] # "?"
    <3>1. ASSUME NEW i \in 1..Len(text)
          PROVE  /\ <<SubSeq(text, 1, i - 1), SubSeq(text, i, Len(text))>>
                        \in Splits(text)
                 /\ Head(SubSeq(text, i, Len(text))) = text[i]
                 /\ Has(SubSeq(text, 1, i - 1), "?")
                        <=> \E j \in 1..(i - 1) : text[j] = "?"
      <4>1. /\ <<SubSeq(text, 1, i - 1), SubSeq(text, i, Len(text))>> \in Splits(text)
            /\ Head(SubSeq(text, i, Len(text))) = text[i]
        BY SplitAt, Zenon
      <4>2. Has(SubSeq(text, 1, i - 1), "?") <=> \E j \in 1..(i - 1) : text[j] = "?"
        BY HasBefore, Zenon
      <4>3. QED
        BY <4>1, <4>2, Zenon
    <3>2. \A pair \in Splits(text) : \E i \in 1..Len(text) :
              pair[1] = SubSeq(text, 1, i - 1) /\ pair[2] = SubSeq(text, i, Len(text))
      BY SplitsArePositions
    <3>3. ASSUME Misplaced, NEW i \in 1..Len(text), text[i] = "/"
          PROVE  (\E j \in 1..(i - 1) : text[j] = "?") /\ text[1] # "?"
      <4> DEFINE pair == <<SubSeq(text, 1, i - 1), SubSeq(text, i, Len(text))>>
      <4>1. pair \in Splits(text) /\ Head(pair[2]) = "/"
        BY <3>1, <3>3
      <4>2. Has(pair[1], "?") /\ text[1] # "?"
        BY <3>3, <4>1, Zenon
      <4>3. QED
        BY <3>1, <4>2
    <3>4. ASSUME \A i \in 1..Len(text) : text[i] = "/" =>
                    (\E j \in 1..(i - 1) : text[j] = "?") /\ text[1] # "?",
                 NEW pair \in Splits(text), Head(pair[2]) = "/"
          PROVE  Has(pair[1], "?") /\ text[1] # "?"
      <4>1. PICK i \in 1..Len(text) : /\ pair[1] = SubSeq(text, 1, i - 1)
                                      /\ pair[2] = SubSeq(text, i, Len(text))
        BY <3>2
      <4>2. QED
        BY <3>1, <3>4, <4>1
    <3>5. QED
      BY <3>3, <3>4
  <2>4. QED
    BY <2>1, <2>2, <2>3
<1>4. Len(text) # 0 => (slash = Len(text) <=> EndsInSlash)
  <2>1. SUFFICES ASSUME Len(text) # 0 PROVE slash = Len(text) <=> EndsInSlash
    OBVIOUS
  <2>2. Len(text) \in 1..Len(text) /\ 1 \in 1..Len(text)
    BY <1>1, <2>1
  <2>3. slash = Len(text) <=>
            text[Len(text)] = "/" /\ (AllPath(text) \/ Len(text) < q)
    BY <1>1, <2>2, SlashIsLast
  <2>4. AllPath(text) \/ Len(text) < q <=> ~Has(text, "?") \/ text[1] = "?"
    BY <1>1, <1>2, <2>2 DEF AllPath, Has
  <2>5. QED
    BY <2>3, <2>4
<1>5. Exits(text) <=> slash = 0 \/ slash = Len(text)
  BY <1>1 DEF Exits, npos
<1>6. CASE Len(text) = 0
  <2>1. slash = 0
    BY <1>1, <1>6
  <2>2. QED
    BY <1>3, <1>5, <2>1 DEF ExitsWithoutSegment
<1>7. QED
  BY <1>3, <1>4, <1>5, <1>6 DEF ExitsWithoutSegment

\* Where a query is cut off, the path keeps its last slash.
LEMMA SlashWithoutQuery ==
    ASSUME NEW t \in Seq(Characters), NEW i \in 1..Len(t),
           t[i] = "?", t[1] # "?"
    PROVE  LET part == SubSeq(t, 1, i - 1) IN
           /\ ~AllPath(t)
           /\ SlashPosition(part) = SlashPosition(t)
           /\ (IF AllPath(part) THEN Len(part) ELSE Find(part, "?") - 1)
                    = Find(t, "?") - 1
           /\ Find(t, "?") \in 2..i
<1> DEFINE part == SubSeq(t, 1, i - 1)
           q == Find(t, "?")
<1>1. Len(t) \in Nat /\ i \in Nat /\ 1 \in 1..Len(t)
  OBVIOUS
<1>2. /\ q \in 1..Len(t) /\ t[q] = "?" /\ q <= i
      /\ \A j \in 1..Len(t) : t[j] = "?" => q <= j
  BY FindIsFirst
<1>3. q \in 2..i /\ ~AllPath(t)
  BY <1>1, <1>2 DEF AllPath
<1>4. /\ part \in Seq(Characters) /\ Len(part) = i - 1
      /\ \A j \in 1..(i - 1) : part[j] = t[j]
  BY SplitAt
<1>5. Find(part, "?") = IF q = i THEN 0 ELSE q
  <2> HIDE DEF part, q
  <2>1. \/ Find(part, "?") = 0 /\ \A j \in 1..(i - 1) : t[j] # "?"
        \/ /\ Find(part, "?") \in 1..(i - 1)
           /\ t[Find(part, "?")] = "?"
           /\ \A j \in 1..(i - 1) : t[j] = "?" => Find(part, "?") <= j
    BY <1>4, FindIsFirst
  <2>2. QED
    BY <1>1, <1>2, <1>3, <2>1
<1>6. (IF AllPath(part) THEN Len(part) ELSE Find(part, "?") - 1) = q - 1
  BY <1>1, <1>3, <1>4, <1>5 DEF AllPath
<1>7. SlashPosition(part) = SlashPosition(t)
  <2> HIDE DEF part
  <2>1. \A j \in 1..(i - 1) :
            (AllPath(part) \/ j < Find(part, "?")) <=> j < q
    BY <1>1, <1>3, <1>5 DEF AllPath
  <2>2. \/ /\ SlashPosition(part) = 0
           /\ \A j \in 1..(i - 1) : ~(t[j] = "/" /\ j < q)
        \/ /\ SlashPosition(part) \in 1..(i - 1)
           /\ t[SlashPosition(part)] = "/" /\ SlashPosition(part) < q
           /\ \A j \in 1..(i - 1) :
                  t[j] = "/" /\ j < q => j <= SlashPosition(part)
    BY <1>4, <2>1, SlashIsLast
  <2>3. \/ /\ SlashPosition(t) = 0
           /\ \A j \in 1..Len(t) : ~(t[j] = "/" /\ j < q)
        \/ /\ SlashPosition(t) \in 1..Len(t)
           /\ t[SlashPosition(t)] = "/" /\ SlashPosition(t) < q
           /\ \A j \in 1..Len(t) :
                  t[j] = "/" /\ j < q => j <= SlashPosition(t)
    BY <1>3, SlashIsLast
  <2>4. \A j \in 1..Len(t) : j < q => j \in 1..(i - 1)
    BY <1>1, <1>3
  <2>5. QED
    <3> HIDE DEF q
    <3>1. QED
      BY <1>1, <1>3, <2>2, <2>3, <2>4
<1>8. QED
  BY <1>3, <1>6, <1>7

LEMMA QueryIsNoMatter ==
    ASSUME text \in Seq(Characters)
    PROVE  QueryDoesNotMatter
<1>1. SUFFICES ASSUME NEW i \in 1..Len(text),
                      text[i] = "?", text[1] # "?",
                      ~Exits(SubSeq(text, 1, i - 1))
               PROVE  /\ ~Exits(text)
                      /\ StreamId(text) = StreamId(SubSeq(text, 1, i - 1))
  <2>1. SUFFICES ASSUME NEW pair \in Splits(text),
                        Head(pair[2]) = "?", text[1] # "?", ~Exits(pair[1])
                 PROVE  ~Exits(text) /\ StreamId(text) = StreamId(pair[1])
    BY DEF QueryDoesNotMatter
  <2>2. PICK i \in 1..Len(text) : /\ pair[1] = SubSeq(text, 1, i - 1)
                                  /\ pair[2] = SubSeq(text, i, Len(text))
    BY SplitsArePositions
  <2>3. text[i] = "?"
    BY <2>1, <2>2, SplitAt
  <2>4. QED
    BY <1>1, <2>1, <2>2, <2>3
<1> DEFINE part == SubSeq(text, 1, i - 1)
           q == Find(text, "?")
           slash == SlashPosition(text)
<1>2. /\ part \in Seq(Characters) /\ Len(part) = i - 1
      /\ \A j \in 1..(i - 1) : part[j] = text[j]
      /\ Len(text) \in Nat
  BY SplitAt
<1>3. /\ ~AllPath(text)
      /\ SlashPosition(part) = slash
      /\ (IF AllPath(part) THEN Len(part) ELSE Find(part, "?") - 1) = q - 1
      /\ q \in 2..i
  BY <1>1, SlashWithoutQuery
<1>4. slash \in 1..(q - 1) /\ StreamId(part) = SubSeq(part, slash + 1, q - 1)
  <2> HIDE DEF part, q, slash
  <2>1. ~Exits(part)
    BY <1>1 DEF part
  <2>2. QED
    BY <1>2, <1>3, <2>1, IdIsBetween
<1>5. ~Exits(text)
  BY <1>2, <1>3, <1>4 DEF Exits, npos
<1>6. StreamId(text) = SubSeq(text, slash + 1, q - 1)
  BY <1>3, <1>5, IdIsBetween
<1>7. SubSeq(text, slash + 1, q - 1) = SubSeq(part, slash + 1, q - 1)
  <2> HIDE DEF part, q, slash
  <2>1. QED
    BY <1>2, <1>3, <1>4, PartIs
<1>8. QED
  BY <1>4, <1>5, <1>6, <1>7


-----------------------------------------------------------------------------
(* The SDP. *)

LineEndAt(t, i) == t[i] = "CR" /\ t[i + 1] = "LF"

LEMMA LineEndIsFirst ==
    ASSUME NEW t \in Seq(Characters), NEW from \in Nat
    PROVE  \/ /\ FindLineEnd(t, from) = 0
              /\ \A i \in 1..(Len(t) - 1) : from <= i => ~LineEndAt(t, i)
           \/ /\ FindLineEnd(t, from) \in 1..(Len(t) - 1)
              /\ from <= FindLineEnd(t, from)
              /\ LineEndAt(t, FindLineEnd(t, from))
              /\ \A i \in 1..(Len(t) - 1) :
                    from <= i /\ LineEndAt(t, i) => FindLineEnd(t, from) <= i
<1> DEFINE S == {i \in 1..Len(t) : /\ from <= i /\ i < Len(t)
                                   /\ t[i] = "CR" /\ t[i + 1] = "LF"}
<1>1. FindLineEnd(t, from) = FirstOf(S)
  <2>1. DOMAIN t = 1..Len(t)
    OBVIOUS
  <2>2. QED
    BY <2>1, Zenon DEF FindLineEnd
<1>2. Len(t) \in Nat /\ S \in SUBSET (1..Len(t))
  OBVIOUS
<1>3. \/ S = {} /\ FirstOf(S) = 0
      \/ FirstOf(S) \in S /\ \A y \in S : FirstOf(S) <= y
  <2> HIDE DEF S
  <2>1. QED
    BY <1>2, FirstOfIsFirst
<1>4. \A i \in 1..(Len(t) - 1) : i \in S <=> from <= i /\ LineEndAt(t, i)
  BY <1>2 DEF LineEndAt
<1>5. \A i \in S : i \in 1..(Len(t) - 1)
  BY <1>2
<1>6. QED
  <2> HIDE DEF S
  <2>1. QED
    BY <1>1, <1>3, <1>4, <1>5

\* The name is what is between the first of its kind and the next line end.
LEMMA UfragIsBetween ==
    ASSUME NEW t \in Seq(Characters), HasUfrag(t)
    PROVE  LET name == Find(t, "ufrag")
               end == FindLineEnd(t, name + 1) IN
           /\ name \in 1..Len(t) /\ t[name] = "ufrag"
           /\ \A i \in 1..Len(t) : t[i] = "ufrag" => name <= i
           /\ end \in (name + 1)..(Len(t) - 1) /\ LineEndAt(t, end)
           /\ \A i \in (name + 1)..(end - 1) : ~LineEndAt(t, i)
           /\ Ufrag(t) = SubSeq(t, name + 1, end - 1)
<1> DEFINE name == Find(t, "ufrag")
           end == FindLineEnd(t, name + 1)
<1>1. /\ name \in 1..Len(t) /\ t[name] = "ufrag"
      /\ \A i \in 1..Len(t) : t[i] = "ufrag" => name <= i
  BY FindIsFirst DEF HasUfrag, npos
<1>2. name + 1 \in Nat /\ Len(t) \in Nat
  BY <1>1
<1>3. /\ end \in 1..(Len(t) - 1) /\ name + 1 <= end /\ LineEndAt(t, end)
      /\ \A i \in 1..(Len(t) - 1) : name + 1 <= i /\ LineEndAt(t, i) => end <= i
  <2> HIDE DEF name
  <2>1. end # 0
    BY DEF HasUfrag, NamePosition, npos, name
  <2>2. QED
    BY <1>2, <2>1, LineEndIsFirst
<1>4. Ufrag(t) = Substr(t, name + 1, end - (name + 1))
  BY DEF Ufrag, NamePosition
<1>5. Ufrag(t) = SubSeq(t, name + 1, end - 1)
  <2> HIDE DEF name, end
  <2>1. SUFFICES ASSUME NEW start, start = name + 1,
                        NEW length, length = end - (name + 1),
                        NEW last, last = end - 1
                 PROVE  Substr(t, start, length) = SubSeq(t, start, last)
    BY <1>4
  <2>2. /\ ~(length < 0 \/ start + length - 1 > Len(t))
        /\ last = start + length - 1
    BY <1>2, <1>3, <2>1
  <2>3. QED
    BY <2>2, SubstrIs, Zenon
<1>6. QED
  <2> HIDE DEF name, end
  <2>1. end \in (name + 1)..(Len(t) - 1)
    BY <1>1, <1>2, <1>3
  <2>2. \A i \in (name + 1)..(end - 1) : ~LineEndAt(t, i)
    BY <1>1, <1>2, <1>3
  <2>3. QED
    BY <1>1, <1>3, <1>5, <2>1, <2>2 DEF name, end

\* A part that begins the SDP and has a name has that of the SDP.
LEMMA NameOfPart ==
    ASSUME NEW t \in Seq(Characters), NEW i \in 1..Len(t),
           HasUfrag(SubSeq(t, 1, i - 1))
    PROVE  HasUfrag(t) /\ Ufrag(t) = Ufrag(SubSeq(t, 1, i - 1))
<1> DEFINE part == SubSeq(t, 1, i - 1)
           name == Find(part, "ufrag")
           end == FindLineEnd(part, name + 1)
<1>1. /\ part \in Seq(Characters) /\ Len(part) = i - 1
      /\ \A j \in 1..(i - 1) : part[j] = t[j]
      /\ Len(t) \in Nat /\ i \in Nat
  BY SplitAt
<1>2. /\ name \in 1..(i - 1) /\ t[name] = "ufrag"
      /\ \A j \in 1..(i - 1) : t[j] = "ufrag" => name <= j
      /\ end \in (name + 1)..(i - 2) /\ LineEndAt(t, end)
      /\ \A j \in (name + 1)..(end - 1) : ~LineEndAt(t, j)
      /\ Ufrag(part) = SubSeq(part, name + 1, end - 1)
  <2> HIDE DEF part
  <2>1. HasUfrag(part)
    BY DEF part
  <2>2. /\ name \in 1..(i - 1) /\ part[name] = "ufrag"
        /\ \A j \in 1..(i - 1) : part[j] = "ufrag" => name <= j
        /\ end \in (name + 1)..(i - 1 - 1) /\ LineEndAt(part, end)
        /\ \A j \in (name + 1)..(end - 1) : ~LineEndAt(part, j)
        /\ Ufrag(part) = SubSeq(part, name + 1, end - 1)
    BY <1>1, <2>1, UfragIsBetween
  <2> HIDE DEF name, end
  <2>3. \A j \in 1..(i - 2) : LineEndAt(part, j) <=> LineEndAt(t, j)
    BY <1>1 DEF LineEndAt
  <2>4. name \in 1..(i - 1) /\ end \in (name + 1)..(i - 2) /\ i - 1 - 1 = i - 2
    BY <1>1, <2>2
  <2>5. t[name] = "ufrag" /\ \A j \in 1..(i - 1) : t[j] = "ufrag" => name <= j
    BY <1>1, <2>2
  <2>6. \A j \in (name + 1)..end : j \in 1..(i - 2)
    BY <1>1, <2>4
  <2>7. end \in (name + 1)..end /\ \A j \in (name + 1)..(end - 1) : j \in (name + 1)..end
    BY <1>1, <2>4
  <2>8. LineEndAt(t, end) /\ \A j \in (name + 1)..(end - 1) : ~LineEndAt(t, j)
    BY <2>2, <2>3, <2>6, <2>7, Zenon
  <2>9. QED
    BY <2>2, <2>4, <2>5, <2>8, Zenon
<1>3. Find(t, "ufrag") = name
  <2> HIDE DEF part, name, end
  <2>1. name \in 1..Len(t) /\ \A j \in 1..Len(t) : t[j] = "ufrag" => name <= j
    BY <1>1, <1>2
  <2>2. /\ Find(t, "ufrag") \in 1..Len(t)
        /\ t[Find(t, "ufrag")] = "ufrag"
        /\ Find(t, "ufrag") <= name
    BY <1>2, <2>1, FindIsFirst
  <2>3. name <= Find(t, "ufrag")
    BY <2>1, <2>2
  <2>4. QED
    BY <1>1, <2>1, <2>2, <2>3
<1>4. FindLineEnd(t, name + 1) = end
  <2> HIDE DEF part, name, end
  <2>1. /\ end \in 1..(Len(t) - 1) /\ name + 1 <= end /\ name + 1 \in Nat
        /\ \A j \in 1..(Len(t) - 1) :
              name + 1 <= j /\ LineEndAt(t, j) => end <= j
    BY <1>1, <1>2
  <2> DEFINE inText == FindLineEnd(t, name + 1)
  <2>2. \/ /\ inText = 0
           /\ \A j \in 1..(Len(t) - 1) : name + 1 <= j => ~LineEndAt(t, j)
        \/ /\ inText \in 1..(Len(t) - 1)
           /\ name + 1 <= inText
           /\ LineEndAt(t, inText)
           /\ \A j \in 1..(Len(t) - 1) :
                 name + 1 <= j /\ LineEndAt(t, j) => inText <= j
    BY <2>1, LineEndIsFirst
  <2> HIDE DEF inText
  <2>3. inText \in Nat /\ inText <= end /\ end <= inText
    BY <1>2, <2>1, <2>2
  <2>4. inText = end
    BY <2>1, <2>3
  <2>5. QED
    BY <2>4 DEF inText
<1>5. HasUfrag(t)
  <2> HIDE DEF part, name, end
  <2>1. name # 0 /\ end # 0
    BY <1>1, <1>2
  <2>2. QED
    BY <1>3, <1>4, <2>1 DEF HasUfrag, NamePosition, npos
<1>6. Ufrag(t) = SubSeq(t, name + 1, end - 1)
  BY <1>3, <1>4, <1>5, UfragIsBetween
<1>7. SubSeq(t, name + 1, end - 1) = SubSeq(part, name + 1, end - 1)
  <2> HIDE DEF part, name, end
  <2> DEFINE first == name + 1
             last == end - 1
  <2>1. \A j \in (name + 1)..(end - 1) : j \in 1..(i - 1)
    BY <1>1, <1>2
  <2>2. \A j \in (name + 1)..(end - 1) : t[j] = part[j]
    BY <1>1, <2>1
  <2>3. /\ first \in Nat \ {0} /\ last \in Nat /\ first <= last + 1
        /\ last <= Len(t) /\ last <= Len(part)
    BY <1>1, <1>2
  <2>4. \A j \in first..last : t[j] = part[j]
    BY <2>2
  <2>5. SubSeq(t, first, last) = SubSeq(part, first, last)
    <3> HIDE DEF first, last
    <3>1. QED
      BY <1>1, <2>3, <2>4, PartIs, Zenon
  <2>6. QED
    BY <2>5
<1>8. QED
  BY <1>2, <1>5, <1>6, <1>7

\* The name ends where its line ends, and comes after the first "ice-ufrag".
LEMMA NameEndsItsLine ==
    ASSUME NEW t \in Seq(Characters), HasUfrag(t)
    PROVE  /\ FindLineEnd(Ufrag(t), 1) = npos
           /\ \E pair \in Splits(t) :
                 /\ Head(pair[2]) = "ufrag" /\ ~Has(pair[1], "ufrag")
                 /\ IsPrefix(Ufrag(t) \o <<"CR", "LF">>, Tail(pair[2]))
<1> DEFINE name == Find(t, "ufrag")
           end == FindLineEnd(t, name + 1)
           found == Ufrag(t)
           rest == SubSeq(t, name + 1, Len(t))
<1>1. /\ name \in 1..Len(t) /\ t[name] = "ufrag"
      /\ \A i \in 1..Len(t) : t[i] = "ufrag" => name <= i
      /\ end \in (name + 1)..(Len(t) - 1) /\ LineEndAt(t, end)
      /\ \A i \in (name + 1)..(end - 1) : ~LineEndAt(t, i)
      /\ found = SubSeq(t, name + 1, end - 1)
  BY UfragIsBetween
<1>2. Len(t) \in Nat
  OBVIOUS
<1> HIDE DEF name, end, found, rest
<1>3. /\ found \in Seq(Characters)
      /\ Len(found) = end - 1 - name
      /\ \A i \in 1..(end - 1 - name) : found[i] = t[name + i]
  BY <1>1, <1>2, PartIs
<1>4. /\ rest \in Seq(Characters)
      /\ Len(rest) = Len(t) - name
      /\ \A i \in 1..(Len(t) - name) : rest[i] = t[name + i]
  BY <1>1, <1>2, PartIs DEF rest
<1>5. FindLineEnd(found, 1) = 0
  <2>1. \A i \in 1..(Len(found) - 1) : ~LineEndAt(found, i)
    <3>1. SUFFICES ASSUME NEW i \in 1..(Len(found) - 1) PROVE ~LineEndAt(found, i)
      OBVIOUS
    <3>2. /\ found[i] = t[name + i] /\ found[i + 1] = t[name + i + 1]
          /\ name + i \in (name + 1)..(end - 1)
      BY <1>1, <1>2, <1>3
    <3>3. QED
      BY <1>1, <3>2 DEF LineEndAt
  <2>2. QED
    BY <1>3, <2>1, LineEndIsFirst
<1>6. IsPrefix(found \o <<"CR", "LF">>, rest)
  <2> DEFINE line == found \o <<"CR", "LF">>
  <2>1. <<"CR", "LF">> \in Seq(Characters) /\ Len(<<"CR", "LF">>) = 2
    BY DEF Characters
  <2>2. /\ line \in Seq(Characters) /\ Len(line) = end + 1 - name
        /\ \A i \in 1..(end - 1 - name) : line[i] = found[i]
        /\ line[end - name] = "CR" /\ line[end + 1 - name] = "LF"
    BY <1>1, <1>2, <1>3, <2>1
  <2>3. t[end] = "CR" /\ t[end + 1] = "LF"
    BY <1>1 DEF LineEndAt
  <2>4. \A i \in 1..(end + 1 - name) : line[i] = rest[i]
    <3>1. SUFFICES ASSUME NEW i \in 1..(end + 1 - name) PROVE line[i] = rest[i]
      OBVIOUS
    <3>2. rest[i] = t[name + i]
      BY <1>1, <1>2, <1>4
    <3>3. CASE i <= end - 1 - name
      <4>1. i \in 1..(end - 1 - name)
        BY <1>1, <1>2, <3>3
      <4>2. QED
        BY <1>3, <2>2, <3>2, <4>1, Zenon
    <3>4. CASE i = end - name
      <4>1. name + i = end
        BY <1>1, <1>2, <3>4
      <4>2. QED
        BY <2>2, <2>3, <3>2, <3>4, <4>1, Zenon
    <3>5. CASE i = end + 1 - name
      <4>1. name + i = end + 1
        BY <1>1, <1>2, <3>5
      <4>2. QED
        BY <2>2, <2>3, <3>2, <3>5, <4>1, Zenon
    <3>6. i <= end - 1 - name \/ i = end - name \/ i = end + 1 - name
      BY <1>1, <1>2
    <3>7. QED
      BY <3>3, <3>4, <3>5, <3>6, Zenon
  <2> HIDE DEF line
  <2>5. Len(line) \in Nat /\ Len(line) <= Len(rest)
    BY <1>1, <1>2, <1>4, <2>2
  <2>6. SubSeq(line, 1, Len(line)) = SubSeq(rest, 1, Len(line))
    BY <1>4, <2>2, <2>4, <2>5, PartIs
  <2>7. QED
    BY <2>5, <2>6 DEF IsPrefix, line
<1>7. /\ <<SubSeq(t, 1, name - 1), SubSeq(t, name, Len(t))>> \in Splits(t)
      /\ Head(SubSeq(t, name, Len(t))) = "ufrag"
      /\ Tail(SubSeq(t, name, Len(t))) = rest
  BY <1>1, SplitAt DEF rest
<1>8. ~Has(SubSeq(t, 1, name - 1), "ufrag")
  <2>1. \A j \in 1..(name - 1) : t[j] # "ufrag"
    BY <1>1, <1>2
  <2>2. QED
    BY <1>1, <2>1, HasBefore
<1>9. QED
  BY <1>5, <1>6, <1>7, <1>8 DEF npos, found

LEMMA FirstName ==
    ASSUME text \in Seq(Characters)
    PROVE  NameIsFirst
<1>1. ASSUME NEW pair \in Splits(text), HasUfrag(pair[1])
      PROVE  HasUfrag(text) /\ Ufrag(text) = Ufrag(pair[1])
  <2>1. PICK i \in 1..Len(text) : pair[1] = SubSeq(text, 1, i - 1)
    BY SplitsArePositions
  <2>2. QED
    BY <1>1, <2>1, NameOfPart
<1>2. QED
  BY <1>1, NameEndsItsLine, Zenon DEF NameIsFirst

-----------------------------------------------------------------------------
(* The theorems. *)

\* A text that grows is a text of characters.
THEOREM TextsAreTexts == Spec => [](text \in Seq(Characters))
<1>1. Init => text \in Seq(Characters)
  BY DEF Init
<1>2. text \in Seq(Characters) /\ [Next]_text => (text \in Seq(Characters))'
  BY DEF Next, Type
<1>3. QED
  BY <1>1, <1>2, PTL DEF Spec

\* The stream id is the last segment of the path of any url
\* (rtc_peer.cpp:123-141).
THEOREM IdsAreLastSegments == Spec => []IdIsLastSegment
<1>1. text \in Seq(Characters) => IdIsLastSegment
  BY LastSegment
<1>2. QED
  BY <1>1, TextsAreTexts, PTL

\* The process exits for urls that have no segment to take, and for no others
\* (rtc_peer.cpp:133).
THEOREM ExitsAreKnown == Spec => []ExitsWithoutSegment
<1>1. text \in Seq(Characters) => ExitsWithoutSegment
  BY NoSegment
<1>2. QED
  BY <1>1, TextsAreTexts, PTL

\* A query does not change which stream a url leads to (rtc_peer.cpp:123).
THEOREM QueriesDoNotMatter == Spec => []QueryDoesNotMatter
<1>1. text \in Seq(Characters) => QueryDoesNotMatter
  BY QueryIsNoMatter
<1>2. QED
  BY <1>1, TextsAreTexts, PTL

\* The ICE name is the first of the SDP, to the end of its line
\* (rtc_server.cpp:17-25).
THEOREM NamesAreFirst == Spec => []NameIsFirst
<1>1. text \in Seq(Characters) => NameIsFirst
  BY FirstName
<1>2. QED
  BY <1>1, TextsAreTexts, PTL


=============================================================================

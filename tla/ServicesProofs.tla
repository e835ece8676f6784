--------------------------- MODULE ServicesProofs ---------------------------
(***************************************************************************)
(* Proofs about the other components, each under its own specification:    *)
(* chunker, rate limiter, sessions and start; and the proof that Services, *)
(* which runs all of them, is a behaviour of each and keeps every type.    *)
(***************************************************************************)
EXTENDS Services, AnsweringProofs, FactProofs

(***************************************************************************)
(* Chunker.  Every line of the text is in one section, every section is    *)
(* cut into pieces without loss, and the page of a piece follows the       *)
(* markers.                                                                *)
(***************************************************************************)
LineKinds == {"page", "dieu", "chuong", "text"}
MarkerAt(i) == KindAt(i) = "page"

\* A parsed document: the pages of its markers never go back.
TextInv ==
  /\ md \in Seq([kind : LineKinds, page : Nat])
  /\ \A i, j \in Lines : i < j /\ MarkerAt(i) /\ MarkerAt(j) => md[i].page <= md[j].page

\* Where the k-th section begins and ends, its headings included.
StartOf(k) == IF IsLegal /\ k # 1 THEN Dieu(k) ELSE 1
EndOf(k) == IF IsLegal /\ k # Sections THEN Dieu(k + 1) - 1 ELSE Len(md)
SkippedIn(k) == IF IsLegal THEN Dieu(k) ELSE 0

\* The lines s .. e but one, which may be an article's own, in their order.
Fills(body, s, e, skipped) ==
  /\ body \in Seq(s .. e) /\ Len(body) >= 1
  /\ \A i, j \in 1 .. Len(body) : i < j => body[i] < body[j]
  /\ \A l \in s .. e : l = skipped \/ \E i \in 1 .. Len(body) : body[i] = l

LEMMA SameText ==
  ASSUME md' = md
  PROVE  /\ Lines' = Lines /\ IsLegal' = IsLegal /\ Sections' = Sections
         /\ \A i : KindAt(i)' = KindAt(i) /\ MarkerAt(i)' = MarkerAt(i) /\ PageOf(i)' = PageOf(i)
         /\ \A k : BodyOf(k)' = BodyOf(k) /\ StartOf(k)' = StartOf(k) /\ EndOf(k)' = EndOf(k)
         /\ \A k : HeadingOf(k)' = HeadingOf(k)
         /\ TextInv' = TextInv
<1>1. /\ Lines' = Lines
      /\ \A i : KindAt(i)' = KindAt(i) /\ MarkerAt(i)' = MarkerAt(i)
  BY DEF Lines, KindAt, MarkerAt
<1>2. \A i : PageOf(i)' = PageOf(i)
  BY DEF PageOf, Lines, KindAt, Greatest
<1>3. Headings("dieu")' = Headings("dieu") /\ Headings("chuong")' = Headings("chuong")
  BY DEF Headings, Lines, KindAt
<1>4. IsLegal' = IsLegal /\ Sections' = Sections /\ \A k : Dieu(k)' = Dieu(k)
  BY <1>3 DEF IsLegal, Sections, Dieu
<1>5. \A k : BodyOf(k)' = BodyOf(k) /\ StartOf(k)' = StartOf(k) /\ EndOf(k)' = EndOf(k)
  BY <1>4 DEF BodyOf, StartOf, EndOf
<1>6. ASSUME NEW k PROVE HeadingOf(k)' = HeadingOf(k)
  <2>1. {i \in Headings("chuong") : i < Dieu(k)}' = {i \in Headings("chuong") : i < Dieu(k)}
    BY <1>3, <1>4
  <2>2. ChuongAt(k)' = ChuongAt(k)
    BY <2>1 DEF ChuongAt
  <2> QED BY <1>4, <2>2 DEF HeadingOf
<1>7. TextInv' = TextInv
  BY DEF TextInv, Lines, KindAt, MarkerAt
<1> QED BY <1>1, <1>2, <1>4, <1>5, <1>6, <1>7

LEMMA LinesAreNumbers ==
  ASSUME TextInv
  PROVE  /\ Len(md) \in Nat /\ Lines = 1 .. Len(md)
         /\ \A i \in Lines : KindAt(i) \in LineKinds /\ md[i].page \in Nat
<1> DEFINE lines == [kind : LineKinds, page : Nat]
<1>1. md \in Seq(lines)
  BY DEF TextInv
<1>2. \A e \in lines : e.kind \in LineKinds /\ e.page \in Nat
  OBVIOUS
<1> HIDE DEF lines
<1>3. Len(md) \in Nat /\ DOMAIN md = 1 .. Len(md) /\ \A i \in DOMAIN md : md[i] \in lines
  BY <1>1
<1> QED BY <1>2, <1>3 DEF Lines, KindAt

\* A legal document has at least three sections, any other one.
LEMMA SectionsAreFew ==
  ASSUME TextInv
  PROVE  /\ Sections \in Nat /\ Sections >= 1
         /\ IsLegal => Sections >= 3 /\ Sections <= Len(md) /\ Sections = Cardinality(Headings("dieu"))
         /\ ~IsLegal => Sections = 1
<1>1. Headings("dieu") \in SUBSET DOMAIN md
  BY DEF Headings, Lines
<1>2. Cardinality(Headings("dieu")) \in Nat /\ Cardinality(Headings("dieu")) <= Len(md)
  BY <1>1, PlacesAreFew DEF TextInv
<1> QED BY <1>2 DEF IsLegal, Sections

LEMMA Articles ==
  ASSUME TextInv, IsLegal
  PROVE  /\ \A k \in 1 .. Sections : Dieu(k) \in Lines /\ KindAt(Dieu(k)) = "dieu"
         /\ \A k, l \in 1 .. Sections : k < l => Dieu(k) < Dieu(l)
<1> DEFINE H == Headings("dieu")
<1>1. H \in SUBSET DOMAIN md /\ \A i \in H : i \in Lines /\ KindAt(i) = "dieu"
  BY DEF Headings, Lines
<1>2. IsFiniteSet(H)
  BY <1>1, PlacesAreFew DEF TextInv
<1>3. H \in SUBSET Int
  BY <1>1, LinesAreNumbers
<1>4. Sections = Cardinality(H)
  BY DEF Sections
<1> HIDE DEF H
<1>5. /\ Cardinality(H) \in Nat /\ Ascending(H) \in [1 .. Cardinality(H) -> H]
      /\ \A k, l \in 1 .. Cardinality(H) : k < l <=> Ascending(H)[k] < Ascending(H)[l]
  BY <1>2, <1>3, NumbersSort
<1>6. \A k : Dieu(k) = Ascending(H)[k]
  BY DEF Dieu, H
<1> QED BY <1>1, <1>4, <1>5, <1>6

LEMMA Spans ==
  ASSUME NEW a \in Int, NEW b \in Int, a <= b + 1
  PROVE  /\ Span(a, b) \in Seq(Int) /\ Len(Span(a, b)) = b - a + 1
         /\ \A i \in 1 .. b - a + 1 : Span(a, b)[i] = a + i - 1
<1>1. b - a + 1 \in Nat
  OBVIOUS
<1> DEFINE n == b - a + 1
<1>2. Span(a, b) = [i \in 1 .. n |-> a + i - 1]
  BY DEF Span
<1>3. \A i \in 1 .. n : a + i - 1 \in Int
  OBVIOUS
<1> HIDE DEF n
<1>4. Span(a, b) \in Seq(Int) /\ Len(Span(a, b)) = n
  BY <1>1, <1>2, <1>3 DEF n
<1> QED BY <1>2, <1>4 DEF n

LEMMA SectionBounds ==
  ASSUME TextInv, NEW k \in 1 .. Sections
  PROVE  /\ StartOf(k) \in Nat /\ EndOf(k) \in Nat /\ StartOf(1) = 1 /\ EndOf(Sections) = Len(md)
         /\ 1 <= StartOf(k) /\ EndOf(k) <= Len(md)
         /\ k # Sections => EndOf(k) = StartOf(k + 1) - 1
         /\ IsLegal => Dieu(k) \in StartOf(k) .. EndOf(k)
<1>1. /\ Len(md) \in Nat /\ Lines = 1 .. Len(md)
      /\ Sections \in Nat /\ Sections >= 1 /\ (~IsLegal => Sections = 1)
  BY LinesAreNumbers, SectionsAreFew
<1>2. CASE ~IsLegal
  BY <1>1, <1>2 DEF StartOf, EndOf
<1>3. CASE IsLegal
  <2>1. Dieu(k) \in 1 .. Len(md)
    BY <1>1, <1>3, Articles
  <2>2. CASE k = Sections
    BY <1>1, <1>3, <2>1, <2>2 DEF StartOf, EndOf
  <2>3. CASE k # Sections
    <3>1. k + 1 \in 1 .. Sections /\ k < k + 1 /\ k + 1 # 1
      BY <1>1, <2>3
    <3>2. Dieu(k + 1) \in 1 .. Len(md) /\ Dieu(k) < Dieu(k + 1)
      BY <1>1, <1>3, <3>1, Articles
    <3> QED BY <1>1, <1>3, <2>1, <2>3, <3>1, <3>2 DEF StartOf, EndOf
  <2> QED BY <2>2, <2>3
<1> QED BY <1>2, <1>3

\* The body of a section holds its lines in order, all but the article's own.
LEMMA BodiesFill ==
  ASSUME TextInv, NEW k \in 1 .. Sections, md # <<>>
  PROVE  Fills(BodyOf(k), StartOf(k), EndOf(k), SkippedIn(k))
<1>1. /\ Len(md) \in Nat /\ Lines = 1 .. Len(md)
      /\ Sections \in Nat /\ Sections >= 1 /\ (~IsLegal => Sections = 1)
  BY LinesAreNumbers, SectionsAreFew
<1>2. Len(md) >= 1
  BY <1>1 DEF TextInv
<1>3. CASE ~IsLegal
  <2>1. k = 1 /\ BodyOf(k) = Span(1, Len(md)) /\ StartOf(k) = 1 /\ EndOf(k) = Len(md)
    BY <1>1, <1>3 DEF BodyOf, StartOf, EndOf
  <2>2. 1 \in Int /\ Len(md) \in Int /\ 1 <= Len(md) + 1 /\ Len(md) - 1 + 1 = Len(md)
    BY <1>1
  <2> DEFINE body == Span(1, Len(md))
  <2>3. body \in Seq(Int) /\ Len(body) = Len(md) /\ \A i \in 1 .. Len(md) : body[i] = 1 + i - 1
    BY <2>2, Spans
  <2> HIDE DEF body
  <2>4. \A i \in 1 .. Len(md) : body[i] = i
    BY <1>1, <2>3
  <2>5. body \in Seq(1 .. Len(md))
    BY <1>1, <2>3, <2>4
  <2>6. Fills(body, 1, Len(md), SkippedIn(k))
    BY <1>1, <1>2, <2>3, <2>4, <2>5 DEF Fills
  <2> QED BY <2>1, <2>6 DEF body
<1>4. CASE IsLegal
  <2> DEFINE d == Dieu(k)
             e == EndOf(k)
             rest == Span(d + 1, e)
             body == IF k = 1 THEN Span(1, d - 1) \o rest ELSE rest
  <2>1. e \in Nat /\ e <= Len(md) /\ d \in Nat /\ d <= e /\ d >= 1 /\ (k # 1 => StartOf(k) = d) /\ (k = 1 => StartOf(k) = 1)
    <3>1. d \in StartOf(k) .. e /\ StartOf(k) \in Nat /\ e \in Nat /\ 1 <= StartOf(k) /\ e <= Len(md)
      BY <1>4, SectionBounds
    <3>2. (k # 1 => StartOf(k) = d) /\ (k = 1 => StartOf(k) = 1)
      BY <1>4 DEF StartOf
    <3> QED BY <3>1, <3>2
  <2>2. BodyOf(k) = IF body = <<>> THEN <<d>> ELSE body
    BY <1>4 DEF BodyOf, EndOf
  <2> HIDE DEF d, e
  <2>3. rest \in Seq(Int) /\ Len(rest) = e - d /\ \A i \in 1 .. e - d : rest[i] = d + i
    <3>1. d + 1 \in Int /\ e \in Int /\ d + 1 <= e + 1 /\ e - (d + 1) + 1 = e - d /\ \A i \in Int : d + 1 + i - 1 = d + i
      BY <2>1
    <3>2. /\ rest \in Seq(Int) /\ Len(rest) = e - (d + 1) + 1
          /\ \A i \in 1 .. e - (d + 1) + 1 : rest[i] = d + 1 + i - 1
      BY <3>1, Spans
    <3> HIDE DEF rest
    <3> QED BY <3>1, <3>2
  <2>4. CASE k = 1
    <3> DEFINE front == Span(1, d - 1)
    <3>1. front \in Seq(Int) /\ Len(front) = d - 1 /\ \A i \in 1 .. d - 1 : front[i] = i
      <4>1. 1 \in Int /\ d - 1 \in Int /\ 1 <= (d - 1) + 1 /\ (d - 1) - 1 + 1 = d - 1 /\ \A i \in Int : 1 + i - 1 = i
        BY <2>1
      <4>2. /\ front \in Seq(Int) /\ Len(front) = (d - 1) - 1 + 1
            /\ \A i \in 1 .. (d - 1) - 1 + 1 : front[i] = 1 + i - 1
        BY <4>1, Spans
      <4> HIDE DEF front
      <4> QED BY <4>1, <4>2
    <3>2. body = front \o rest
      BY <2>4
    <3> HIDE DEF front, rest, body
    <3>3. body \in Seq(Int) /\ Len(body) = e - 1
      <4>1. front \o rest \in Seq(Int) /\ Len(front \o rest) = Len(front) + Len(rest)
        BY <2>3, <3>1, Joined
      <4>2. (d - 1) + (e - d) = e - 1
        BY <2>1
      <4> QED BY <2>3, <3>1, <3>2, <4>1, <4>2
    <3>4. \A i \in 1 .. e - 1 : body[i] = IF i <= d - 1 THEN i ELSE i + 1
      <4> SUFFICES ASSUME NEW i \in 1 .. e - 1 PROVE body[i] = IF i <= d - 1 THEN i ELSE i + 1
        OBVIOUS
      <4>1. CASE i <= d - 1
        BY <2>1, <2>3, <3>1, <3>2, <4>1
      <4>2. CASE ~(i <= d - 1)
        <5>1. i - (d - 1) \in 1 .. e - d /\ d + (i - (d - 1)) = i + 1
          BY <2>1, <4>2
        <5>2. body[i] = rest[i - (d - 1)]
          BY <2>1, <2>3, <3>1, <3>2, <4>2
        <5>3. rest[i - (d - 1)] = d + (i - (d - 1))
          BY <5>1, <2>3
        <5> QED BY <5>1, <5>2, <5>3, <4>2
      <4> QED BY <4>1, <4>2
    <3>5. CASE e = 1
      <4>1. body = <<>> /\ d = 1
        BY <2>1, <3>3, <3>5
      <4>2. Fills(<<d>>, 1, e, d)
        BY <2>1, <3>5, <4>1 DEF Fills
      <4> QED BY <1>4, <2>1, <2>2, <2>4, <4>1, <4>2 DEF SkippedIn, d, e
    <3>6. CASE e # 1
      <4>1. body # <<>>
        BY <2>1, <3>3, <3>6
      <4>2. \A i \in 1 .. e - 1 : body[i] \in 1 .. e
        BY <2>1, <3>4
      <4>3. body \in Seq(1 .. e)
        BY <3>3, <4>2, Retyped
      <4>4. \A i, j \in 1 .. e - 1 : i < j => body[i] < body[j]
        BY <2>1, <3>4
      <4>5. ASSUME NEW l \in 1 .. e, l # d PROVE \E i \in 1 .. e - 1 : body[i] = l
        <5>1. CASE l < d
          <6>1. l \in 1 .. e - 1 /\ l <= d - 1
            BY <2>1, <5>1
          <6> QED BY <3>4, <6>1
        <5>2. CASE l > d
          <6>1. l - 1 \in 1 .. e - 1 /\ ~(l - 1 <= d - 1) /\ (l - 1) + 1 = l
            BY <2>1, <5>2
          <6> QED BY <3>4, <6>1
        <5> QED BY <2>1, <4>5, <5>1, <5>2
      <4>6. Fills(body, 1, e, d)
        BY <2>1, <3>3, <3>6, <4>3, <4>4, <4>5 DEF Fills
      <4> QED BY <1>4, <2>1, <2>2, <2>4, <4>1, <4>6 DEF SkippedIn, d, e
    <3> QED BY <3>5, <3>6
  <2>5. CASE k # 1
    <3>1. body = rest
      BY <2>5
    <3> HIDE DEF rest, body
    <3>2. CASE e = d
      <4>1. body = <<>>
        BY <2>1, <2>3, <3>1, <3>2
      <4>2. Fills(<<d>>, d, e, d)
        BY <2>1, <3>2 DEF Fills
      <4> QED BY <1>4, <2>1, <2>2, <2>5, <4>1, <4>2 DEF SkippedIn, d, e
    <3>3. CASE e # d
      <4>1. body # <<>> /\ Len(body) >= 1
        BY <2>1, <2>3, <3>1, <3>3
      <4>2. body \in Seq(d .. e)
        <5>1. \A i \in 1 .. e - d : body[i] \in d .. e
          BY <2>1, <2>3, <3>1
        <5> QED BY <2>3, <3>1, <5>1, Retyped
      <4>3. \A i, j \in 1 .. e - d : i < j => body[i] < body[j]
        BY <2>1, <2>3, <3>1
      <4>4. ASSUME NEW l \in d .. e, l # d PROVE \E i \in 1 .. e - d : body[i] = l
        <5>1. l - d \in 1 .. e - d /\ d + (l - d) = l
          BY <2>1, <4>4
        <5> QED BY <5>1, <2>3, <3>1
      <4>5. Fills(body, d, e, d)
        BY <2>3, <3>1, <4>1, <4>2, <4>3, <4>4 DEF Fills
      <4> QED BY <1>4, <2>1, <2>2, <2>5, <4>1, <4>5 DEF SkippedIn, d, e
    <3> QED BY <3>2, <3>3
  <2> QED BY <2>4, <2>5
<1> QED BY <1>3, <1>4

\* What precedes an article is its chapter, if it has one.
LEMMA HeadingsAreLines ==
  ASSUME TextInv, NEW k \in 1 .. Sections
  PROVE  /\ HeadingOf(k) \in Seq(Lines)
         /\ IsLegal => Dieu(k) \in ToSet(HeadingOf(k))
<1>1. CASE ~IsLegal
  BY <1>1 DEF HeadingOf
<1>2. CASE IsLegal
  <2>1. Dieu(k) \in Lines
    BY <1>2, Articles
  <2> DEFINE above == {i \in Headings("chuong") : i < Dieu(k)}
  <2>2. above \in SUBSET Lines
    BY DEF Headings
  <2>3. above # {} => Greatest(above) \in above
    <3> SUFFICES ASSUME above # {} PROVE Greatest(above) \in above
      OBVIOUS
    <3>1. above \in SUBSET Nat /\ Len(md) \in Nat /\ \A x \in above : x <= Len(md)
      BY <2>2, LinesAreNumbers
    <3>2. PICK x \in above : \A y \in above : y <= x
      BY <3>1, GreatestNumber
    <3>3. \A y \in above : x >= y
      BY <3>1, <3>2
    <3> HIDE DEF above
    <3> QED BY <3>3 DEF Greatest
  <2>4. ChuongAt(k) = IF above = {} THEN <<>> ELSE <<Greatest(above)>>
    BY DEF ChuongAt
  <2> HIDE DEF above
  <2>5. ChuongAt(k) \in Seq(Lines)
    BY <2>2, <2>3, <2>4
  <2>6. HeadingOf(k) = Append(ChuongAt(k), Dieu(k))
    BY <1>2 DEF HeadingOf
  <2>7. Len(HeadingOf(k)) = Len(ChuongAt(k)) + 1 /\ HeadingOf(k)[Len(ChuongAt(k)) + 1] = Dieu(k)
        /\ HeadingOf(k) \in Seq(Lines) /\ Len(ChuongAt(k)) \in Nat
    BY <2>1, <2>5, <2>6
  <2>8. Len(ChuongAt(k)) + 1 \in DOMAIN HeadingOf(k)
    BY <2>7
  <2> QED BY <2>7, <2>8 DEF ToSet
<1> QED BY <1>1, <1>2

LEMMA GreatestIs ==
  ASSUME NEW S \in SUBSET Nat, NEW x \in S, \A y \in S : y <= x
  PROVE  Greatest(S) = x
<1>1. \A y \in S : x >= y
  OBVIOUS
<1>2. Greatest(S) \in S /\ \A y \in S : Greatest(S) >= y
  BY <1>1 DEF Greatest
<1>3. Greatest(S) >= x /\ x >= Greatest(S)
  BY <1>1, <1>2
<1>4. \A g, n \in Nat : g >= n /\ n >= g => g = n
  OBVIOUS
<1>5. x \in Nat
  OBVIOUS
<1>6. Greatest(S) \in Nat
  BY <1>2
<1> QED BY <1>3, <1>4, <1>5, <1>6

LEMMA LeastIsLeast ==
  ASSUME NEW S \in SUBSET Nat, S # {}
  PROVE  Least(S) \in S /\ \A y \in S : Least(S) <= y
BY LeastNumber DEF Least

MarkersTo(i) == {k \in Lines : k <= i /\ KindAt(k) = "page"}

LEMMA PageByMarkers ==
  ASSUME TextInv, NEW p, NEW q, MarkersTo(p) = MarkersTo(q)
  PROVE  PageOf(p) = PageOf(q)
<1>1. \A i : PageOf(i) = IF {md[j].page : j \in MarkersTo(i)} = {} THEN 0
                       ELSE Greatest({md[j].page : j \in MarkersTo(i)})
  BY DEF PageOf, MarkersTo
<1> QED BY <1>1

LEMMA SamePage ==
  ASSUME TextInv, NEW p \in Int, NEW q \in Int, p <= q,
         \A m \in Lines : p < m /\ m <= q => ~MarkerAt(m)
  PROVE  PageOf(p) = PageOf(q)
<1>1. MarkersTo(p) = MarkersTo(q)
  BY LinesAreNumbers DEF MarkersTo, MarkerAt
<1> QED BY <1>1, PageByMarkers

LEMMA PagesAreNumbers ==
  ASSUME TextInv, NEW p
  PROVE  PageOf(p) \in Nat
<1> DEFINE S == {md[j].page : j \in MarkersTo(p)}
<1>1. CASE MarkersTo(p) = {}
  BY <1>1 DEF PageOf, MarkersTo
<1>2. CASE MarkersTo(p) # {}
  <2>1. MarkersTo(p) \in SUBSET Nat /\ MarkersTo(p) \in SUBSET Lines /\ Len(md) \in Nat
        /\ \A m \in MarkersTo(p) : m <= Len(md)
    BY LinesAreNumbers DEF MarkersTo
  <2>2. PICK g \in MarkersTo(p) : \A m \in MarkersTo(p) : m <= g
    BY <1>2, <2>1, GreatestNumber
  <2>3. \A m \in MarkersTo(p) : md[m].page <= md[g].page
    <3> SUFFICES ASSUME NEW m \in MarkersTo(p) PROVE md[m].page <= md[g].page
      OBVIOUS
    <3>1. MarkerAt(m) /\ MarkerAt(g) /\ m \in Lines /\ g \in Lines /\ m <= g
      BY <2>1, <2>2 DEF MarkersTo, MarkerAt
    <3>2. md[m].page \in Nat /\ m \in Nat /\ g \in Nat
      BY <2>1, <3>1, LinesAreNumbers
    <3> QED BY <3>1, <3>2 DEF TextInv
  <2>4. S \in SUBSET Nat /\ md[g].page \in S /\ \A y \in S : y <= md[g].page
    BY <2>1, <2>3, LinesAreNumbers
  <2>5. PageOf(p) = Greatest(S)
    BY <2>4 DEF PageOf, MarkersTo
  <2> HIDE DEF S
  <2> QED BY <2>4, <2>5, GreatestIs
<1> QED BY <1>1, <1>2

\* The page that is open at the end of a piece L, when all markers after p and
\* all markers after its first line are in it.
LEMMA PageAfter ==
  ASSUME TextInv, NEW L \in SUBSET Lines, NEW last \in L, \A l \in L : l <= last,
         NEW p \in Int, p <= last,
         \A m \in Lines : MarkerAt(m) /\ m <= last /\ (m > p \/ \E l \in L : l <= m) => m \in L,
         NEW pages, pages = {md[i].page : i \in {j \in L : KindAt(j) = "page"}}
  PROVE  /\ pages = {} => PageOf(last) = PageOf(p)
         /\ pages # {} => /\ PageOf(last) = Greatest(pages)
                          /\ Least(pages) \in Nat /\ Least(pages) <= Greatest(pages)
<1> DEFINE T == {j \in L : KindAt(j) = "page"}
<1>1. /\ L \in SUBSET Nat /\ last \in Nat /\ Len(md) \in Nat /\ Lines = 1 .. Len(md)
      /\ \A x \in L : x \in Nat /\ x <= Len(md)
  BY LinesAreNumbers
<1>2. CASE pages = {}
  <2>1. \A j \in L : ~MarkerAt(j)
    BY <1>2 DEF MarkerAt
  <2>2. \A m \in Lines : p < m /\ m <= last => ~MarkerAt(m)
    BY <1>1, <2>1
  <2>3. p \in Int /\ last \in Int /\ p <= last
    BY <1>1
  <2>4. PageOf(p) = PageOf(last)
    BY <2>2, <2>3, SamePage
  <2> QED BY <1>2, <2>4
<1>3. CASE pages # {}
  <2>1. T # {} /\ T \in SUBSET Nat /\ \A x \in T : x <= Len(md)
    <3>1. T # {}
      BY <1>3
    <3>2. \A x \in T : x \in L
      OBVIOUS
    <3> HIDE DEF T
    <3>3. \A x \in T : x \in Nat /\ x <= Len(md)
      BY <1>1, <3>2
    <3> QED BY <3>1, <3>3
  <2>2. PICK g \in T : \A m \in T : m <= g
    BY <1>1, <2>1, GreatestNumber
  <2>3. g \in L /\ g \in Lines /\ MarkerAt(g) /\ g \in Nat /\ g <= last
    BY <1>1, <2>2 DEF MarkerAt
  <2>4. \A m \in Lines : MarkerAt(m) /\ m <= last => md[m].page <= md[g].page
    <3> SUFFICES ASSUME NEW m \in Lines, MarkerAt(m), m <= last PROVE md[m].page <= md[g].page
      OBVIOUS
    <3>1. m \in Nat /\ md[m].page \in Nat
      BY <1>1, LinesAreNumbers
    <3>2. CASE m > g
      <4>1. m \in L
        BY <2>3, <3>1, <3>2
      <4> QED BY <2>2, <2>3, <3>1, <3>2, <4>1 DEF MarkerAt
    <3>3. CASE m < g
      BY <2>3, <3>3 DEF TextInv
    <3>4. CASE m = g
      BY <3>1, <3>4
    <3> QED BY <2>3, <3>1, <3>2, <3>3, <3>4
  <2>5. pages \in SUBSET Nat /\ md[g].page \in pages /\ \A y \in pages : y <= md[g].page
    <3>1. md[g].page \in pages
      BY <2>2
    <3>2. ASSUME NEW y \in pages PROVE y \in Nat /\ y <= md[g].page
      <4>1. PICK i \in L : KindAt(i) = "page" /\ y = md[i].page
        OBVIOUS
      <4> QED BY <2>4, <4>1, LinesAreNumbers DEF MarkerAt
    <3> QED BY <3>1, <3>2
  <2>6. Greatest(pages) = md[g].page
    BY <2>5, GreatestIs
  <2> DEFINE S == {md[j].page : j \in MarkersTo(last)}
  <2>7. S \in SUBSET Nat /\ md[g].page \in S /\ \A y \in S : y <= md[g].page
    <3>1. md[g].page \in S
      BY <2>3 DEF MarkersTo, MarkerAt
    <3>2. ASSUME NEW y \in S PROVE y \in Nat /\ y <= md[g].page
      <4>1. PICK i \in Lines : i <= last /\ KindAt(i) = "page" /\ y = md[i].page
        BY DEF MarkersTo
      <4> QED BY <2>4, <4>1, LinesAreNumbers DEF MarkerAt
    <3> QED BY <3>1, <3>2
  <2>8. PageOf(last) = Greatest(S)
    BY <2>7 DEF PageOf, MarkersTo
  <2> HIDE DEF S
  <2>9. PageOf(last) = md[g].page
    BY <2>7, <2>8, GreatestIs
  <2>10. Least(pages) \in pages /\ \A y \in pages : Least(pages) <= y
    BY <2>5, LeastIsLeast
  <2> QED BY <1>3, <2>5, <2>6, <2>9, <2>10
<1> QED BY <1>2, <1>3

-----------------------------------------------------------------------------
Upto == IF section = 0 THEN 0 ELSE EndOf(section)
Reached == IF window = <<>> THEN 0 ELSE window[2]
EndLine == IF window = <<>> THEN Upto ELSE BodyOf(Section)[window[2]]

Covers(list, l) ==
  \E n \in 1 .. Len(list) : l \in ToSet(list[n].heading) \/ l \in ToSet(list[n].lines)

Pieces == [heading : Seq(Lines), lines : Seq(Lines), from : Nat, to : Nat]

PieceOk(c) == Len(c.lines) >= 1 /\ c.to = PageOf(c.lines[Len(c.lines)]) /\ c.from <= c.to

PiecesInv == chunks \in Seq(Pieces) /\ \A n \in 1 .. Len(chunks) : PieceOk(chunks[n])

PlaceInv ==
  /\ section \in 0 .. Sections /\ (section # 0 => md # <<>>)
  /\ window # <<>> =>
       /\ section < Sections /\ ~Fits /\ md # <<>>
       /\ window \in Seq(Nat) /\ Len(window) = 2
       /\ 1 <= window[1] /\ window[1] <= window[2] /\ window[2] < Len(BodyOf(Section))

CoverInv ==
  /\ \A l \in Lines : l <= Upto /\ ~MarkerAt(l) => Covers(chunks, l)
  /\ window # <<>> =>
       \A i \in 1 .. window[2] : ~MarkerAt(BodyOf(Section)[i]) => Covers(chunks, BodyOf(Section)[i])

PageInv == lastPage = PageOf(EndLine)

UnparsedInv ==
  ~parsed => md = <<>> /\ section = 0 /\ window = <<>> /\ lastPage = 0 /\ chunks = <<>>

\* What has been cut so far is covered, and lastPage is the page where it ends.
ChunkInv ==
  parsed \in BOOLEAN /\ TextInv /\ PiecesInv /\ PlaceInv /\ CoverInv /\ PageInv /\ UnparsedInv

LEMMA UptoIsBefore ==
  ASSUME TextInv, section \in 0 .. Sections, section < Sections
  PROVE  Section \in 1 .. Sections /\ Upto = StartOf(Section) - 1 /\ Upto \in Nat
<1>1. Sections \in Nat /\ Sections >= 1
  BY SectionsAreFew
<1>2. Section \in 1 .. Sections /\ 1 \in 1 .. Sections /\ Section = section + 1
  BY <1>1 DEF Section
<1>3. StartOf(Section) \in Nat /\ 1 <= StartOf(Section) /\ StartOf(1) = 1
  BY <1>2, SectionBounds
<1>4. CASE section = 0
  BY <1>2, <1>3, <1>4 DEF Upto
<1>5. CASE section # 0
  <2>1. section \in 1 .. Sections /\ section # Sections
    BY <1>1, <1>5
  <2>2. EndOf(section) = StartOf(section + 1) - 1 /\ EndOf(section) \in Nat
    BY <2>1, SectionBounds
  <2> QED BY <1>2, <1>5, <2>2 DEF Upto
<1> QED BY <1>2, <1>4, <1>5

\* What a step that adds a piece of a section's body leaves.
Added(b) ==
  /\ PiecesInv' /\ lastPage' = PageOf(BodyOf(Section)[b])
  /\ \A l \in Lines : Covers(chunks, l) => Covers(chunks', l)
  /\ IsLegal => Covers(chunks', Dieu(Section))
  /\ \A i \in 1 .. b : i > Reached /\ ~MarkerAt(BodyOf(Section)[i]) => Covers(chunks', BodyOf(Section)[i])

LEMMA PieceAdds ==
  ASSUME ChunkInv, section < Sections, md' = md,
         NEW a \in Nat, NEW b \in Nat, 1 <= a, a <= b, b <= Len(BodyOf(Section)),
         a <= Reached + 1, Reached < b,
         NEW lines, lines \in Seq(Lines), Len(lines) = b - a + 1,
         \A i \in 1 .. b - a + 1 : lines[i] = BodyOf(Section)[a + i - 1],
         Emit(HeadingOf(Section), lines)
  PROVE  md # <<>> /\ Added(b)
<1> DEFINE body == BodyOf(Section)
           s == StartOf(Section)
           e == EndOf(Section)
           L == ToSet(lines)
           pages == Markers(lines)
           heading == HeadingOf(Section)
           new == [heading |-> heading, lines |-> lines,
                   from |-> IF pages = {} THEN lastPage ELSE Least(pages), to |-> lastPage']
<1>1. /\ Section \in 1 .. Sections /\ Upto = s - 1 /\ Upto \in Nat /\ s \in Nat /\ e \in Nat
      /\ 1 <= s /\ e <= Len(md) /\ Len(md) \in Nat /\ Lines = 1 .. Len(md)
  BY UptoIsBefore, SectionBounds, LinesAreNumbers DEF ChunkInv, PlaceInv
<1>2. md # <<>>
  <2> SUFFICES ASSUME md = <<>> PROVE FALSE
    OBVIOUS
  <2>1. Len(md) = 0 /\ ~IsLegal
    BY SectionsAreFew DEF ChunkInv
  <2>2. body = [i \in 1 .. 0 |-> 1 + i - 1]
    BY <2>1 DEF BodyOf, Span
  <2>3. Len(body) = 0
    BY <2>2
  <2> QED BY <2>3
<1>3. Fills(body, s, e, SkippedIn(Section))
  BY <1>1, <1>2, BodiesFill DEF ChunkInv
<1>4. /\ body \in Seq(s .. e) /\ Len(body) \in Nat
      /\ \A i, j \in 1 .. Len(body) : i < j => body[i] < body[j]
      /\ \A l \in s .. e : l = SkippedIn(Section) \/ \E i \in 1 .. Len(body) : body[i] = l
      /\ \A i \in 1 .. Len(body) : body[i] \in s .. e
      /\ \A i \in 1 .. Len(body) : body[i] \in Int /\ s <= body[i] /\ body[i] <= e
  <2>1. /\ body \in Seq(s .. e)
        /\ \A i, j \in 1 .. Len(body) : i < j => body[i] < body[j]
        /\ \A l \in s .. e : l = SkippedIn(Section) \/ \E i \in 1 .. Len(body) : body[i] = l
    BY <1>3 DEF Fills
  <2> HIDE DEF body, s, e
  <2>2. Len(body) \in Nat /\ \A i \in 1 .. Len(body) : body[i] \in s .. e
    BY <2>1, Elements
  <2>3. \A l \in s .. e : l \in Int /\ s <= l /\ l <= e
    BY <1>1
  <2> QED BY <2>1, <2>2, <2>3
<1>5. Reached \in Nat /\ EndLine = IF Reached = 0 THEN s - 1 ELSE body[Reached]
  <2>1. CASE window = <<>>
    BY <1>1, <2>1 DEF Reached, EndLine
  <2>2. CASE window # <<>>
    <3>1. window \in Seq(Nat) /\ Len(window) = 2 /\ 1 <= window[1] /\ window[1] <= window[2]
      BY <2>2 DEF ChunkInv, PlaceInv
    <3>2. window[1] \in Nat /\ window[2] \in Nat
      BY <3>1, PairOfNumbers
    <3> QED BY <2>2, <3>1, <3>2 DEF Reached, EndLine
  <2> QED BY <2>1, <2>2
<1>6. heading \in Seq(Lines) /\ (IsLegal => Dieu(Section) \in ToSet(heading))
  BY <1>1, HeadingsAreLines DEF ChunkInv
<1>7. /\ chunks' = (IF heading = <<>> /\ \A i \in L : KindAt(i) = "page" THEN chunks ELSE Append(chunks, new))
      /\ lastPage' = IF pages = {} THEN lastPage ELSE Greatest(pages)
  BY DEF Emit, AddChunk
<1>8. pages = {md[i].page : i \in {j \in L : KindAt(j) = "page"}}
  BY DEF Markers
<1> HIDE DEF body, s, e, L, pages, heading, new
<1>9. L \in SUBSET Lines /\ \A l : l \in L <=> \E i \in a .. b : l = body[i]
  <2>1. \A l : l \in L <=> \E i \in 1 .. b - a + 1 : l = lines[i]
    <3>1. DOMAIN lines = 1 .. b - a + 1
      BY Elements
    <3>2. L = {lines[i] : i \in DOMAIN lines}
      BY Zenon DEF L, ToSet
    <3> QED BY <3>1, <3>2
  <2>2. \A i \in 1 .. b - a + 1 : a + i - 1 \in a .. b
    OBVIOUS
  <2>3. \A i \in a .. b : i - a + 1 \in 1 .. b - a + 1 /\ a + (i - a + 1) - 1 = i
    OBVIOUS
  <2>4. \A i \in 1 .. b - a + 1 : lines[i] \in Lines /\ lines[i] = body[a + i - 1]
    BY DEF body
  <2>5. ASSUME NEW l \in L PROVE l \in Lines /\ \E i \in a .. b : l = body[i]
    <3>1. PICK i \in 1 .. b - a + 1 : l = lines[i]
      BY <2>1
    <3> QED BY <2>2, <2>4, <3>1
  <2>6. ASSUME NEW i \in a .. b PROVE body[i] \in L
    <3>1. i - a + 1 \in 1 .. b - a + 1 /\ lines[i - a + 1] = body[i]
      BY <2>3, <2>4
    <3> QED BY <2>1, <3>1
  <2> QED BY <2>5, <2>6
<1>10. b <= Len(body) /\ \A i \in a .. b : i \in 1 .. Len(body)
  BY <1>4 DEF body
<1>11. body[b] \in L /\ \A l \in L : l <= body[b]
  <2>1. b \in a .. b
    OBVIOUS
  <2>2. \A i \in a .. b : body[i] <= body[b]
    <3>1. \A i \in a .. b : body[i] \in Int /\ body[b] \in Int /\ (i < b => body[i] < body[b]) /\ (i < b \/ i = b)
      BY <1>4, <1>10, <2>1
    <3> QED BY <3>1
  <2> QED BY <1>9, <2>1, <2>2
<1>12. EndLine \in Int /\ EndLine <= body[b]
  <2>1. b \in 1 .. Len(body) /\ body[b] \in s .. e
    BY <1>4, <1>10
  <2>2. CASE Reached = 0
    BY <1>1, <1>5, <2>1, <2>2
  <2>3. CASE Reached # 0
    <3>1. Reached \in 1 .. Len(body) /\ Reached < b
      BY <1>4, <1>5, <1>10, <2>3
    <3>2. body[Reached] \in Int /\ body[b] \in Int /\ body[Reached] < body[b]
      BY <1>4, <2>1, <3>1
    <3> QED BY <1>5, <2>3, <3>2
  <2> QED BY <2>2, <2>3
<1>13. \A m \in Lines : MarkerAt(m) /\ m <= body[b] /\ (m > EndLine \/ \E l \in L : l <= m) => m \in L
  <2> SUFFICES ASSUME NEW m \in Lines, MarkerAt(m), m <= body[b], m > EndLine \/ \E l \in L : l <= m
               PROVE  m \in L
    OBVIOUS
  <2>1. b \in 1 .. Len(body) /\ body[b] \in s .. e
    BY <1>4, <1>10
  <2>2. m >= s
    <3>1. CASE \E l \in L : l <= m
      <4>1. PICK i \in a .. b : body[i] <= m
        BY <1>9, <3>1
      <4>2. i \in 1 .. Len(body)
        BY <1>10
      <4>3. body[i] \in Int /\ s <= body[i]
        BY <1>4, <4>2
      <4>4. s \in Int /\ m \in Int
        BY <1>1
      <4> QED BY <4>1, <4>3, <4>4
    <3>2. CASE m > EndLine /\ Reached = 0
      BY <1>1, <1>5, <3>2
    <3>3. CASE m > EndLine /\ Reached # 0
      <4>1. Reached \in 1 .. Len(body)
        BY <1>4, <1>5, <1>10, <3>3
      <4>2. body[Reached] \in s .. e
        BY <1>4, <4>1
      <4> QED BY <1>1, <1>5, <3>3, <4>2
    <3> QED BY <3>1, <3>2, <3>3
  <2>3. m \in s .. e /\ m \in Int
    <3>1. \A x, y \in Int : x \in s .. e /\ y <= x /\ y >= s => y \in s .. e
      BY <1>1
    <3>2. m \in Int /\ body[b] \in Int
      BY <1>1, <2>1
    <3> QED BY <2>1, <2>2, <3>1, <3>2
  <2>4. m # SkippedIn(Section)
    <3>1. CASE IsLegal
      <4>1. KindAt(Dieu(Section)) = "dieu"
        BY <1>1, <3>1, Articles DEF ChunkInv
      <4> QED BY <3>1, <4>1 DEF SkippedIn, MarkerAt
    <3>2. CASE ~IsLegal
      BY <1>1, <3>2 DEF SkippedIn
    <3> QED BY <3>1, <3>2
  <2>5. PICK i \in 1 .. Len(body) : body[i] = m
    BY <1>4, <2>3, <2>4
  <2>6. i <= b
    <3> SUFFICES ASSUME b < i PROVE FALSE
      BY <1>4
    <3>1. body[b] < m
      BY <1>4, <2>1, <2>5
    <3> QED BY <1>1, <2>1, <2>3, <3>1
  <2>7. a <= i
    <3>1. CASE \E l \in L : l <= m
      <4>1. PICK j \in a .. b : body[j] <= m
        BY <1>9, <3>1
      <4>2. j \in 1 .. Len(body) /\ body[j] \in s .. e
        BY <1>4, <1>10
      <4>3. body[j] \in Int /\ (i < j => m < body[j]) /\ m \in Int /\ i \in Int /\ j \in Int
        BY <1>4, <2>3, <2>5, <4>2
      <4> QED BY <4>1, <4>3
    <3>2. CASE m > EndLine /\ Reached = 0
      BY <1>4, <3>2
    <3>3. CASE m > EndLine /\ Reached # 0
      <4>1. Reached \in 1 .. Len(body)
        BY <1>4, <1>5, <1>10, <3>3
      <4>2. body[Reached] \in Int /\ body[i] \in Int /\ body[Reached] < body[i]
        BY <1>4, <1>5, <2>3, <2>5, <3>3, <4>1
      <4>3. ~(i < Reached) /\ i # Reached /\ i \in Int /\ Reached \in Int
        BY <1>4, <4>1, <4>2
      <4> QED BY <4>3
    <3> QED BY <3>1, <3>2, <3>3
  <2> QED BY <1>9, <2>5, <2>6, <2>7
<1>14. /\ pages = {} => PageOf(body[b]) = PageOf(EndLine)
       /\ pages # {} => /\ PageOf(body[b]) = Greatest(pages)
                        /\ Least(pages) \in Nat /\ Least(pages) <= Greatest(pages)
  <2>1. TextInv
    BY DEF ChunkInv
  <2> QED BY <1>8, <1>9, <1>11, <1>12, <1>13, <2>1, PageAfter
<1>15. lastPage' = PageOf(body[b])
  BY <1>7, <1>14 DEF ChunkInv, PageInv
<1>16. lastPage \in Nat /\ PageOf(body[b]) \in Nat
  BY PagesAreNumbers DEF ChunkInv, PageInv
<1>17. new \in Pieces /\ PieceOk(new)
  <2>1. /\ new.heading = heading /\ new.lines = lines /\ new.to = lastPage'
        /\ new.from = IF pages = {} THEN lastPage ELSE Least(pages)
    BY DEF new
  <2>2. new.from \in Nat /\ new.to \in Nat /\ new.from <= new.to
    BY <1>7, <1>14, <1>15, <1>16, <2>1
  <2>3. new \in Pieces
    BY <1>6, <2>1, <2>2 DEF new, Pieces
  <2>4. lines[Len(lines)] = body[b] /\ Len(lines) >= 1
    <3>1. b - a + 1 \in 1 .. b - a + 1 /\ a + (b - a + 1) - 1 = b /\ b - a + 1 >= 1
      OBVIOUS
    <3> QED BY <3>1 DEF body
  <2> QED BY <1>15, <2>1, <2>2, <2>3, <2>4 DEF PieceOk
<1>18. /\ chunks \in Seq(Pieces) /\ Len(chunks) \in Nat
       /\ \A n \in 1 .. Len(chunks) : PieceOk(chunks[n])
  BY DEF ChunkInv, PiecesInv
<1>19. Pieces' = Pieces /\ \A c : PieceOk(c)' = PieceOk(c)
  BY SameText DEF Pieces, PieceOk
<1>20. /\ Len(chunks') \in Nat /\ Len(chunks') >= Len(chunks) /\ chunks' \in Seq(Pieces)
       /\ \A n \in 1 .. Len(chunks) : chunks'[n] = chunks[n]
       /\ \A n \in 1 .. Len(chunks') : PieceOk(chunks'[n])
       /\ (heading # <<>> \/ \E i \in L : KindAt(i) # "page") => chunks'[Len(chunks')] = new /\ Len(chunks') >= 1
  <2>1. CASE heading = <<>> /\ \A i \in L : KindAt(i) = "page"
    BY <1>7, <1>18, <2>1
  <2>2. CASE ~(heading = <<>> /\ \A i \in L : KindAt(i) = "page")
    <3>1. chunks' = Append(chunks, new)
      BY <1>7, <2>2
    <3>2. Len(chunks') = Len(chunks) + 1 /\ chunks' \in Seq(Pieces) /\ chunks'[Len(chunks) + 1] = new
          /\ \A n \in 1 .. Len(chunks) : chunks'[n] = chunks[n]
      BY <1>17, <1>18, <3>1
    <3>3. \A n \in 1 .. Len(chunks) + 1 : n \in 1 .. Len(chunks) \/ n = Len(chunks) + 1
      BY <1>18
    <3>4. \A n \in 1 .. Len(chunks') : PieceOk(chunks'[n])
      BY <1>17, <1>18, <3>2, <3>3
    <3>5. Len(chunks') \in Nat /\ Len(chunks') >= Len(chunks) /\ chunks'[Len(chunks')] = new /\ Len(chunks') >= 1
      BY <1>18, <3>2
    <3> QED BY <3>2, <3>4, <3>5
  <2> QED BY <2>1, <2>2
<1>21. PiecesInv'
  BY <1>19, <1>20 DEF PiecesInv
<1>22. \A l \in Lines : Covers(chunks, l) => Covers(chunks', l)
  BY <1>18, <1>20 DEF Covers
<1>23. ASSUME heading # <<>> \/ \E i \in L : KindAt(i) # "page",
              NEW l, l \in ToSet(heading) \/ l \in L
       PROVE  Covers(chunks', l)
  <2>1. chunks'[Len(chunks')] = new /\ Len(chunks') \in 1 .. Len(chunks')
    BY <1>20, <1>23
  <2>2. new.heading = heading /\ ToSet(new.lines) = L
    BY DEF new, L
  <2> QED BY <1>23, <2>1, <2>2 DEF Covers
<1>24. IsLegal => Covers(chunks', Dieu(Section))
  <2> SUFFICES ASSUME IsLegal PROVE Covers(chunks', Dieu(Section))
    OBVIOUS
  <2>1. heading # <<>>
    BY <1>6 DEF ToSet
  <2>2. \A l : l \in ToSet(heading) => Covers(chunks', l)
    BY <1>23, <2>1
  <2>3. (Dieu(Section) \in ToSet(heading))
    BY <1>6
  <2> QED BY <2>2, <2>3
<1>25. ASSUME NEW i \in 1 .. b, i > Reached, ~MarkerAt(body[i])
       PROVE  Covers(chunks', body[i])
  <2>1. i \in a .. b
    BY <1>5, <1>25
  <2>2. body[i] \in L
    BY <1>9, <2>1
  <2> QED BY <1>23, <1>25, <2>2 DEF MarkerAt
<1> QED BY <1>2, <1>15, <1>21, <1>22, <1>24, <1>25 DEF Added, body

\* The last piece of a section's body ends the section.
LEMMA SectionEnds ==
  ASSUME ChunkInv, section < Sections, md # <<>>, md' = md, parsed' = parsed, parsed,
         Added(Len(BodyOf(Section))), section' = section + 1, window' = <<>>
  PROVE  ChunkInv'
<1> DEFINE body == BodyOf(Section)
           s == StartOf(Section)
           e == EndOf(Section)
           n == Len(body)
<1>1. /\ Section \in 1 .. Sections /\ Upto = s - 1 /\ s \in Nat /\ e \in Nat
      /\ 1 <= s /\ e <= Len(md) /\ Len(md) \in Nat /\ Lines = 1 .. Len(md)
      /\ Sections \in Nat /\ section \in Nat /\ Section = section + 1
  BY UptoIsBefore, SectionBounds, LinesAreNumbers, SectionsAreFew DEF ChunkInv, PlaceInv, Section
<1>2. Fills(body, s, e, SkippedIn(Section))
  BY <1>1, BodiesFill DEF ChunkInv
<1>3. PiecesInv' /\ TextInv' /\ UnparsedInv' /\ parsed' \in BOOLEAN
  BY SameText DEF Added, ChunkInv, UnparsedInv
<1>4. PlaceInv'
  <2>1. Sections' = Sections
    BY SameText
  <2> QED BY <1>1, <2>1 DEF PlaceInv
<1>5. Upto' = e
  <2>1. EndOf(section)' = EndOf(section + 1)
    BY SameText
  <2> QED BY <1>1, <2>1 DEF Upto
<1>6. EndLine' = e
  BY <1>5 DEF EndLine
<1> HIDE DEF body, s, e, n
<1>7. /\ body \in Seq(s .. e) /\ n >= 1
      /\ \A i, j \in 1 .. n : i < j => body[i] < body[j]
      /\ \A l \in s .. e : l = SkippedIn(Section) \/ \E i \in 1 .. n : body[i] = l
  BY <1>2 DEF Fills, n
<1>8. n \in Nat /\ \A i \in 1 .. n : body[i] \in s .. e
  BY <1>7, Elements DEF n
<1>9. PageInv'
  <2>1. body[n] \in s .. e /\ n \in 1 .. n
    BY <1>7, <1>8
  <2>2. ASSUME NEW m \in Lines, body[n] < m, m <= e PROVE ~MarkerAt(m)
    <3>1. m \in s .. e
      BY <1>1, <2>1, <2>2
    <3>2. CASE m = SkippedIn(Section)
      <4>1. CASE IsLegal
        <5>1. KindAt(Dieu(Section)) = "dieu"
          BY <1>1, <4>1, Articles DEF ChunkInv
        <5> QED BY <3>2, <4>1, <5>1 DEF SkippedIn, MarkerAt
      <4>2. CASE ~IsLegal
        BY <1>1, <3>2, <4>2 DEF SkippedIn
      <4> QED BY <4>1, <4>2
    <3>3. CASE \E i \in 1 .. n : body[i] = m
      <4>1. PICK i \in 1 .. n : body[i] = m
        BY <3>3
      <4>2. i < n => m < body[n]
        BY <1>7, <2>1, <4>1
      <4>3. i = n => m = body[n]
        BY <4>1
      <4>4. i < n \/ i = n
        BY <1>8
      <4> QED BY <1>1, <2>1, <2>2, <4>2, <4>3, <4>4
    <3> QED BY <1>7, <3>1, <3>2, <3>3
  <2>3. body[n] \in Int /\ e \in Int /\ body[n] <= e
    BY <1>1, <2>1
  <2>4. TextInv
    BY DEF ChunkInv
  <2>5. PageOf(body[n]) = PageOf(e)
    BY <2>2, <2>3, <2>4, SamePage
  <2>6. lastPage' = PageOf(body[n])
    BY DEF Added, body, n
  <2>7. PageOf(EndLine)' = PageOf(e)
    BY <1>6, SameText
  <2> QED BY <2>5, <2>6, <2>7 DEF PageInv
<1>10. CoverInv'
  <2>1. ASSUME NEW l \in Lines, l <= e, ~MarkerAt(l) PROVE Covers(chunks', l)
    <3>1. CASE l <= Upto
      BY <2>1, <3>1 DEF ChunkInv, CoverInv, Added
    <3>2. CASE l > Upto
      <4>1. l \in s .. e
        BY <1>1, <2>1, <3>2
      <4>2. CASE l = SkippedIn(Section)
        <5>1. IsLegal
          BY <1>1, <4>2 DEF SkippedIn
        <5> QED BY <4>2, <5>1 DEF SkippedIn, Added
      <4>3. CASE \E i \in 1 .. n : body[i] = l
        <5>1. PICK i \in 1 .. n : body[i] = l
          BY <4>3
        <5>2. CASE i > Reached
          BY <2>1, <5>1, <5>2 DEF Added, body, n
        <5>3. CASE ~(i > Reached)
          <6>1. window # <<>> /\ i \in 1 .. window[2]
            <7>1. window # <<>>
              BY <1>8, <5>3 DEF Reached
            <7>2. window[2] \in Nat
              BY <7>1, PairOfNumbers DEF ChunkInv, PlaceInv
            <7> QED BY <1>8, <5>3, <7>1, <7>2 DEF Reached
          <6>2. Covers(chunks, l)
            BY <2>1, <5>1, <6>1 DEF ChunkInv, CoverInv, body
          <6> QED BY <6>2 DEF Added
        <5> QED BY <5>2, <5>3
      <4> QED BY <1>7, <4>1, <4>2, <4>3
    <3>3. l \in Int /\ Upto \in Int
      BY <1>1
    <3> QED BY <3>1, <3>2, <3>3
  <2>2. \A l \in Lines' : l <= Upto' /\ ~MarkerAt(l)' => Covers(chunks', l)
    BY <1>5, <2>1, SameText
  <2> QED BY <2>2 DEF CoverInv
<1> QED BY <1>3, <1>4, <1>9, <1>10 DEF ChunkInv

\* A piece that is not the last of its section.
LEMMA SectionGoesOn ==
  ASSUME ChunkInv, section < Sections, md # <<>>, md' = md, parsed' = parsed, parsed, ~Fits,
         NEW a \in Nat, NEW b \in Nat, 1 <= a, a <= b, b < Len(BodyOf(Section)),
         Added(b), section' = section, window' = <<a, b>>
  PROVE  ChunkInv'
<1> DEFINE body == BodyOf(Section)
<1>1. Section' = Section /\ BodyOf(Section)' = body /\ Fits' = Fits /\ Sections' = Sections /\ Upto' = Upto
  <2>1. Section' = Section
    BY DEF Section
  <2>2. BodyOf(Section)' = body /\ HeadingOf(Section)' = HeadingOf(Section)
    BY <2>1, SameText
  <2>3. IsLegal' = IsLegal /\ Sections' = Sections /\ EndOf(section)' = EndOf(section)
    BY SameText
  <2> HIDE DEF body
  <2>4. Fits' = Fits
    BY <2>2, <2>3 DEF Fits, body
  <2> QED BY <2>1, <2>2, <2>3, <2>4 DEF Upto
<1>2. window' # <<>> /\ window' \in Seq(Nat) /\ Len(window') = 2 /\ window'[1] = a /\ window'[2] = b
  OBVIOUS
<1> HIDE DEF body
<1>3. PiecesInv' /\ TextInv' /\ UnparsedInv' /\ parsed' \in BOOLEAN
  BY SameText DEF Added, ChunkInv, UnparsedInv
<1>4. PlaceInv'
  BY <1>1, <1>2 DEF PlaceInv, ChunkInv, body
<1>5. EndLine' = body[b]
  BY <1>1, <1>2 DEF EndLine
<1>6. PageInv'
  <2>1. PageOf(EndLine)' = PageOf(body[b])
    BY <1>5, SameText
  <2> QED BY <2>1 DEF PageInv, Added, body
<1>7. CoverInv'
  <2>1. \A l \in Lines : l <= Upto /\ ~MarkerAt(l) => Covers(chunks', l)
    BY DEF ChunkInv, CoverInv, Added
  <2>2. ASSUME NEW i \in 1 .. b, ~MarkerAt(body[i]) PROVE Covers(chunks', body[i])
    <3>1. CASE i > Reached
      BY <2>2, <3>1 DEF Added, body
    <3>2. CASE ~(i > Reached)
      <4>1. window # <<>> /\ i \in 1 .. window[2] /\ window[2] < Len(body)
        <5>1. window # <<>>
          BY <3>2 DEF Reached
        <5>2. window[2] \in Nat /\ window[2] < Len(body)
          BY <5>1, PairOfNumbers DEF ChunkInv, PlaceInv, body
        <5> QED BY <3>2, <5>1, <5>2 DEF Reached
      <4>2. Covers(chunks, body[i])
        BY <2>2, <4>1 DEF ChunkInv, CoverInv, body
      <4>3. body[i] \in Lines
        <5>1. /\ Section \in 1 .. Sections /\ StartOf(Section) \in Nat /\ EndOf(Section) \in Nat
              /\ 1 <= StartOf(Section) /\ EndOf(Section) <= Len(md) /\ Len(md) \in Nat /\ Lines = 1 .. Len(md)
          BY UptoIsBefore, SectionBounds, LinesAreNumbers DEF ChunkInv, PlaceInv
        <5>2. body \in Seq(StartOf(Section) .. EndOf(Section))
          BY <5>1, BodiesFill DEF ChunkInv, Fills, body
        <5>3. i \in 1 .. Len(body)
          BY <5>2, Elements DEF body
        <5>4. body[i] \in StartOf(Section) .. EndOf(Section)
          BY <5>2, <5>3, Elements
        <5> QED BY <5>1, <5>4
      <4> QED BY <4>2, <4>3 DEF Added
    <3> QED BY <3>1, <3>2
  <2>3. \A l \in Lines' : l <= Upto' /\ ~MarkerAt(l)' => Covers(chunks', l)
    BY <1>1, <2>1, SameText
  <2>4. \A i \in 1 .. window'[2] : ~MarkerAt(BodyOf(Section)[i])' => Covers(chunks', BodyOf(Section)'[i])
    <3>1. \A i : MarkerAt(BodyOf(Section)[i])' <=> MarkerAt(body[i])
      BY <1>1, SameText
    <3> QED BY <1>1, <1>2, <2>2, <3>1
  <2> QED BY <2>3, <2>4 DEF CoverInv
<1> QED BY <1>3, <1>4, <1>6, <1>7 DEF ChunkInv

-----------------------------------------------------------------------------
Counted(breaks, i) == Cardinality({b \in breaks : b <= i})

LEMMA CountsGrow ==
  ASSUME NEW breaks \in SUBSET Int, IsFiniteSet(breaks), NEW i \in Int, NEW j \in Int, i <= j
  PROVE  Counted(breaks, i) \in Nat /\ Counted(breaks, j) \in Nat /\ Counted(breaks, i) <= Counted(breaks, j)
<1>1. {b \in breaks : b <= j} \subseteq breaks /\ {b \in breaks : b <= i} \subseteq {b \in breaks : b <= j}
  <2>1. \A b \in breaks : b <= i => b <= j
    <3>1. \A b \in Int : b <= i => b <= j
      OBVIOUS
    <3> QED BY <3>1
  <2> QED BY <2>1
<1>2. IsFiniteSet({b \in breaks : b <= j})
  BY <1>1, FS_Subset
<1> QED BY <1>1, <1>2, FS_Subset, FS_CardinalityType DEF Counted

LEMMA Halves ==
  /\ \A n, p \in Nat : p \in 1 .. 2 * n /\ p % 2 = 0 => p \div 2 \in 1 .. n
  /\ \A p, q \in Nat : p <= q => (p + 1) \div 2 <= (q + 1) \div 2
  /\ \A p \in Nat : (p + 1) \div 2 \in Nat
OBVIOUS

\* The parser's markers are numbered in the order of the text.
LEMMA ParsedIsText ==
  ASSUME NEW content \in Seq({"dieu", "chuong", "text"}),
         NEW breaks \in SUBSET (DOMAIN content), NEW isPdf \in BOOLEAN
  PROVE  /\ Parsed(content, breaks, isPdf) \in Seq([kind : LineKinds, page : Nat])
         /\ \A i, j \in DOMAIN Parsed(content, breaks, isPdf) :
              /\ i < j
              /\ Parsed(content, breaks, isPdf)[i].kind = "page"
              /\ Parsed(content, breaks, isPdf)[j].kind = "page"
              => Parsed(content, breaks, isPdf)[i].page <= Parsed(content, breaks, isPdf)[j].page
<1> DEFINE n == Len(content)
           lines == [kind : LineKinds, page : Nat]
           Line(i) == [kind |-> content[i], page |-> 0]
           Marker(i) == [kind |-> "page", page |-> Counted(breaks, i)]
           all == [p \in 1 .. 2 * n |-> IF p % 2 = 0 THEN Line(p \div 2) ELSE Marker((p + 1) \div 2)]
           places == {p \in DOMAIN all : p % 2 = 0 \/ (isPdf /\ (p + 1) \div 2 \in breaks)}
           list == Parsed(content, breaks, isPdf)
<1>1. n \in Nat /\ \A i \in 1 .. n : content[i] \in {"dieu", "chuong", "text"}
  BY Elements
<1>2. breaks \in SUBSET Int /\ IsFiniteSet(breaks)
  <2>1. breaks \in SUBSET (1 .. n)
    BY Elements
  <2> QED BY <2>1, PlacesAreFew
<1>3. list = AtPlaces(all, places)
  BY DEF Parsed, Counted
<1>4. \A p, q \in 1 .. 2 * n : p <= q => Counted(breaks, (p + 1) \div 2) <= Counted(breaks, (q + 1) \div 2)
  <2> SUFFICES ASSUME NEW p \in 1 .. 2 * n, NEW q \in 1 .. 2 * n, p <= q
               PROVE  Counted(breaks, (p + 1) \div 2) <= Counted(breaks, (q + 1) \div 2)
    OBVIOUS
  <2>1. p \in Nat /\ q \in Nat
    BY <1>1
  <2>2. (p + 1) \div 2 \in Int /\ (q + 1) \div 2 \in Int /\ (p + 1) \div 2 <= (q + 1) \div 2
    BY <2>1, Halves
  <2> QED BY <1>2, <2>2, CountsGrow
<1>5. ASSUME NEW p \in 1 .. 2 * n
      PROVE  /\ all[p] \in lines
             /\ all[p].kind = "page" => all[p].page = Counted(breaks, (p + 1) \div 2)
  <2>1. p \in Nat
    BY <1>1
  <2>2. CASE p % 2 = 0
    <3>1. p \div 2 \in 1 .. n
      BY <1>1, <2>1, <2>2, Halves
    <3>2. all[p] = Line(p \div 2) /\ content[p \div 2] \in {"dieu", "chuong", "text"}
      BY <1>1, <2>2, <3>1
    <3> QED BY <3>2 DEF LineKinds
  <2>3. CASE p % 2 # 0
    <3>1. (p + 1) \div 2 \in Int
      BY <2>1, Halves
    <3>2. Counted(breaks, (p + 1) \div 2) \in Nat
      BY <1>2, <3>1, CountsGrow
    <3>3. all[p] = Marker((p + 1) \div 2)
      BY <2>3
    <3> QED BY <3>2, <3>3 DEF LineKinds
  <2> QED BY <2>2, <2>3
<1>6. all \in Seq(lines) /\ Len(all) = 2 * n /\ DOMAIN all = 1 .. 2 * n
  <2>1. 2 * n \in Nat /\ DOMAIN all = 1 .. 2 * n
    BY <1>1
  <2>2. \A p \in 1 .. 2 * n : all[p] \in lines
    BY <1>5
  <2> DEFINE m == 2 * n
  <2> HIDE DEF m, lines
  <2>3. all = [p \in 1 .. m |-> all[p]]
    BY DEF m
  <2> HIDE DEF all
  <2>4. all \in Seq(lines) /\ Len(all) = m
    BY <2>1, <2>2, <2>3 DEF m
  <2> QED BY <2>1, <2>4 DEF m
<1>7. places \in SUBSET (DOMAIN all)
  OBVIOUS
<1> HIDE DEF all, places, lines, list
<1>8. list \in Seq(lines) /\ Sublist(list, all)
  BY <1>3, <1>6, <1>7, PlacesAreSublist
<1>9. PICK g \in [DOMAIN list -> DOMAIN all] :
        /\ \A i \in DOMAIN list : list[i] = all[g[i]]
        /\ \A i, j \in DOMAIN list : i < j => g[i] < g[j]
  BY <1>8 DEF Sublist
<1>10. ASSUME NEW i \in DOMAIN list, NEW j \in DOMAIN list, i < j, list[i].kind = "page", list[j].kind = "page"
       PROVE  list[i].page <= list[j].page
  <2>1. g[i] \in 1 .. 2 * n /\ g[j] \in 1 .. 2 * n /\ g[i] < g[j]
    BY <1>6, <1>9, <1>10
  <2>2. list[i] = all[g[i]] /\ list[j] = all[g[j]]
    BY <1>9
  <2>3. g[i] <= g[j]
    BY <1>1, <2>1
  <2> QED BY <1>4, <1>5, <1>10, <2>1, <2>2, <2>3
<1> QED BY <1>8, <1>10 DEF list, lines

LEMMA InitChunker == ChunkerInit => ChunkInv
<1> SUFFICES ASSUME ChunkerInit PROVE ChunkInv
  OBVIOUS
<1>1. md = <<>> /\ section = 0 /\ window = <<>> /\ lastPage = 0 /\ chunks = <<>> /\ parsed = FALSE
  BY DEF ChunkerInit
<1>2. Lines = {} /\ Len(md) = 0
  BY <1>1 DEF Lines
<1>3. TextInv
  BY <1>1, <1>2 DEF TextInv
<1>4. PiecesInv
  BY <1>1 DEF PiecesInv
<1>5. PlaceInv
  BY <1>1, <1>3, SectionsAreFew DEF PlaceInv
<1>6. CoverInv
  BY <1>1, <1>2 DEF CoverInv
<1>7. PageInv
  BY <1>1, <1>2 DEF PageInv, PageOf, EndLine, Upto
<1> QED BY <1>1, <1>3, <1>4, <1>5, <1>6, <1>7 DEF ChunkInv, UnparsedInv

LEMMA ParseKeeps ==
  ASSUME ChunkInv, Parse
  PROVE  ChunkInv'
<1>1. /\ section' = 0 /\ window' = <<>> /\ lastPage' = 0 /\ chunks' = <<>> /\ parsed' = TRUE
  BY DEF Parse, ChunkInv, UnparsedInv
<1>2. PICK content \in Contents, isPdf \in BOOLEAN : \E breaks \in SUBSET (DOMAIN content) :
        md' = Parsed(content, breaks, isPdf)
  BY DEF Parse
<1>3. PICK breaks \in SUBSET (DOMAIN content) : md' = Parsed(content, breaks, isPdf)
  BY <1>2
<1>4. content \in Seq({"dieu", "chuong", "text"})
  BY ChunkerAssumption DEF ChunkerAssumption
<1>5. /\ md' \in Seq([kind : LineKinds, page : Nat])
      /\ \A i, j \in DOMAIN md' : i < j /\ md'[i].kind = "page" /\ md'[j].kind = "page" => md'[i].page <= md'[j].page
  BY <1>3, <1>4, ParsedIsText
<1>6. TextInv'
  BY <1>5 DEF TextInv, Lines, MarkerAt, KindAt
<1>7. PiecesInv'
  BY <1>1 DEF PiecesInv
<1>8. Sections' \in Nat /\ 0 \in 0 .. Sections'
  <2>1. TextInv' => Sections' \in Nat
    <3>1. Headings("dieu")' \in SUBSET DOMAIN md'
      BY DEF Headings, Lines
    <3>2. Cardinality(Headings("dieu")') \in Nat
      BY <1>5, <3>1, PlacesAreFew
    <3> QED BY <3>2 DEF Sections
  <2> QED BY <1>6, <2>1
<1>9. PlaceInv'
  BY <1>1, <1>8 DEF PlaceInv
<1>10. \A l \in Lines' : ~(l <= 0)
  BY <1>5, Elements DEF Lines
<1>11. CoverInv'
  BY <1>1, <1>10 DEF CoverInv, Upto
<1>12. PageInv'
  <2>1. EndLine' = 0
    BY <1>1 DEF EndLine, Upto
  <2>2. {md'[j].page : j \in {k \in Lines' : k <= 0 /\ KindAt(k)' = "page"}} = {}
    BY <1>10
  <2>3. PageOf(EndLine)' = 0
    BY <2>1, <2>2 DEF PageOf
  <2> QED BY <1>1, <2>3 DEF PageInv
<1> QED BY <1>1, <1>6, <1>7, <1>9, <1>11, <1>12 DEF ChunkInv, UnparsedInv

LEMMA EmitSectionKeeps ==
  ASSUME ChunkInv, EmitSection
  PROVE  ChunkInv'
<1> DEFINE body == BodyOf(Section)
           n == Len(body)
<1>1. /\ parsed /\ section < Sections /\ Fits /\ Emit(HeadingOf(Section), body)
      /\ section' = section + 1 /\ window' = window /\ md' = md /\ parsed' = parsed
  BY DEF EmitSection
<1>2. window = <<>>
  BY <1>1 DEF ChunkInv, PlaceInv
<1>3. md # <<>>
  <2>1. IsLegal
    BY <1>1 DEF Fits
  <2> QED BY <2>1, SectionsAreFew DEF ChunkInv
<1>4. /\ Section \in 1 .. Sections /\ StartOf(Section) \in Nat /\ EndOf(Section) \in Nat
      /\ 1 <= StartOf(Section) /\ EndOf(Section) <= Len(md) /\ Len(md) \in Nat /\ Lines = 1 .. Len(md)
  BY <1>1, UptoIsBefore, SectionBounds, LinesAreNumbers DEF ChunkInv, PlaceInv
<1>5. body \in Seq(StartOf(Section) .. EndOf(Section)) /\ n >= 1
  BY <1>3, <1>4, BodiesFill DEF ChunkInv, Fills
<1> HIDE DEF body, n
<1>6. n \in Nat /\ Len(body) = n /\ \A i \in 1 .. n : body[i] \in StartOf(Section) .. EndOf(Section)
  BY <1>5, Elements DEF n
<1>7. body \in Seq(Lines)
  <2>1. \A i \in 1 .. Len(body) : body[i] \in Lines
    BY <1>4, <1>6
  <2> QED BY <1>5, <2>1, Retyped
<1>8. /\ 1 \in Nat /\ n \in Nat /\ 1 <= n /\ n <= Len(body) /\ 1 <= Reached + 1 /\ Reached < n
      /\ Len(body) = n - 1 + 1 /\ \A i \in 1 .. n - 1 + 1 : body[i] = body[1 + i - 1]
  <2>1. Reached = 0
    BY <1>2 DEF Reached
  <2>2. \A i \in 1 .. n - 1 + 1 : 1 + i - 1 = i
    BY <1>6
  <2> QED BY <1>5, <1>6, <2>1, <2>2
<1>9. Added(n)
  BY <1>1, <1>7, <1>8, PieceAdds DEF body
<1> QED BY <1>1, <1>2, <1>3, <1>9, SectionEnds DEF body, n

LEMMA EmitPieceKeeps ==
  ASSUME ChunkInv, EmitPiece
  PROVE  ChunkInv'
<1> DEFINE body == BodyOf(Section)
           last == IF window = <<>> THEN <<0, 0>> ELSE window
<1>1. /\ parsed /\ section < Sections /\ ~Fits /\ md' = md /\ parsed' = parsed
  BY DEF EmitPiece
<1>2. PICK a \in last[1] + 1 .. last[2] + 1 : \E b \in last[2] + 1 .. Len(body) :
           /\ Emit(HeadingOf(Section), SubSeq(body, a, b))
           /\ IF b = Len(body) THEN section' = section + 1 /\ window' = <<>>
                               ELSE section' = section /\ window' = <<a, b>>
  BY DEF EmitPiece
<1>3. PICK b \in last[2] + 1 .. Len(body) :
           /\ Emit(HeadingOf(Section), SubSeq(body, a, b))
           /\ IF b = Len(body) THEN section' = section + 1 /\ window' = <<>>
                               ELSE section' = section /\ window' = <<a, b>>
  BY <1>2
<1>4. last[1] \in Nat /\ last[2] \in Nat /\ last[2] = Reached
  <2>1. CASE window = <<>>
    BY <2>1 DEF Reached
  <2>2. CASE window # <<>>
    BY <2>2, PairOfNumbers DEF ChunkInv, PlaceInv, Reached
  <2> QED BY <2>1, <2>2
<1> HIDE DEF last
<1>5. md # <<>>
  <2> SUFFICES ASSUME md = <<>> PROVE FALSE
    OBVIOUS
  <2>1. Len(md) = 0 /\ ~IsLegal
    BY SectionsAreFew DEF ChunkInv
  <2>2. body = [i \in 1 .. 0 |-> 1 + i - 1]
    BY <2>1 DEF BodyOf, Span
  <2>3. Len(body) = 0
    BY <2>2
  <2> QED BY <1>3, <1>4, <2>3
<1>6. /\ Section \in 1 .. Sections /\ StartOf(Section) \in Nat /\ EndOf(Section) \in Nat
      /\ 1 <= StartOf(Section) /\ EndOf(Section) <= Len(md) /\ Len(md) \in Nat /\ Lines = 1 .. Len(md)
  BY <1>1, UptoIsBefore, SectionBounds, LinesAreNumbers DEF ChunkInv, PlaceInv
<1>7. body \in Seq(StartOf(Section) .. EndOf(Section))
  BY <1>5, <1>6, BodiesFill DEF ChunkInv, Fills
<1> HIDE DEF body
<1>8. Len(body) \in Nat /\ \A i \in 1 .. Len(body) : body[i] \in StartOf(Section) .. EndOf(Section)
  BY <1>7, Elements
<1>9. body \in Seq(Lines)
  <2>1. \A i \in 1 .. Len(body) : body[i] \in Lines
    BY <1>6, <1>8
  <2> QED BY <1>7, <2>1, Retyped
<1>10. a \in Nat /\ b \in Nat /\ 1 <= a /\ a <= b /\ b <= Len(body) /\ a <= Reached + 1 /\ Reached < b
  BY <1>3, <1>4, <1>8
<1> DEFINE lines == SubSeq(body, a, b)
<1>11. /\ lines \in Seq(Lines) /\ Len(lines) = b - a + 1
       /\ \A i \in 1 .. b - a + 1 : lines[i] = body[a + i - 1]
  BY <1>8, <1>9, <1>10
<1> HIDE DEF lines
<1>12. Emit(HeadingOf(Section), lines)
  BY <1>3 DEF lines
<1>13. Added(b)
  BY <1>1, <1>10, <1>11, <1>12, PieceAdds DEF body
<1>14. CASE b = Len(body)
  BY <1>1, <1>3, <1>5, <1>13, <1>14, SectionEnds DEF body
<1>15. CASE b # Len(body)
  <2>1. b < Len(body)
    BY <1>8, <1>10, <1>15
  <2> QED BY <1>1, <1>3, <1>5, <1>10, <1>13, <1>15, <2>1, SectionGoesOn DEF body
<1> QED BY <1>14, <1>15

LEMMA StutterKeepsChunks ==
  ASSUME ChunkInv, UNCHANGED chunkVars
  PROVE  ChunkInv'
<1>1. UNCHANGED <<parsed, md, section, window, lastPage, chunks>>
  BY DEF chunkVars
<1>2. /\ Lines' = Lines /\ IsLegal' = IsLegal /\ Sections' = Sections /\ TextInv' = TextInv
      /\ \A i : MarkerAt(i)' = MarkerAt(i) /\ PageOf(i)' = PageOf(i)
      /\ \A k : BodyOf(k)' = BodyOf(k) /\ EndOf(k)' = EndOf(k) /\ HeadingOf(k)' = HeadingOf(k)
  BY <1>1, SameText
<1>3. Section' = Section /\ Upto' = Upto /\ EndLine' = EndLine /\ Fits' = Fits
  BY <1>1, <1>2 DEF Section, Upto, EndLine, Fits
<1>4. PiecesInv'
  BY <1>1, <1>2 DEF ChunkInv, PiecesInv, Pieces, PieceOk
<1>5. PlaceInv'
  BY <1>1, <1>2, <1>3 DEF ChunkInv, PlaceInv
<1>6. CoverInv'
  BY <1>1, <1>2, <1>3 DEF ChunkInv, CoverInv
<1>7. PageInv'
  BY <1>1, <1>2, <1>3 DEF ChunkInv, PageInv
<1> QED BY <1>1, <1>2, <1>4, <1>5, <1>6, <1>7 DEF ChunkInv, UnparsedInv

\* What has been cut so far is covered by the chunks, the window stays inside
\* its section's body, and lastPage is the page where the last piece ended
\* (base.py:131-178), for every document, splitter and overlap.
THEOREM ChunkerIsInductive == ChunkerSpec => []ChunkInv
<1>1. ChunkerInit => ChunkInv
  BY InitChunker
<1>2. ChunkInv /\ [ChunkerNext]_chunkVars => ChunkInv'
  BY ParseKeeps, EmitSectionKeeps, EmitPieceKeeps, StutterKeepsChunks DEF ChunkerNext
<1> QED BY <1>1, <1>2, PTL DEF ChunkerSpec

\* No line of text or heading is lost, whatever the document (base.py:62-99).
THEOREM TextIsKept == ChunkerSpec => []NoTextIsLost
<1>1. ChunkInv => NoTextIsLost
  <2> SUFFICES ASSUME ChunkInv, section = Sections \/ md = <<>>, NEW i \in Lines, KindAt(i) # "page"
               PROVE  \E c \in ToSet(chunks) : i \in ToSet(c.heading) \cup ToSet(c.lines)
    BY DEF NoTextIsLost
  <2>1. Lines = 1 .. Len(md) /\ Len(md) \in Nat /\ Sections \in Nat /\ Sections >= 1
    BY LinesAreNumbers, SectionsAreFew DEF ChunkInv
  <2>2. section = Sections
    BY <2>1 DEF Lines
  <2>3. Sections \in 1 .. Sections
    BY <2>1
  <2>4. EndOf(Sections) = Len(md)
    BY <2>3, SectionBounds DEF ChunkInv
  <2>5. i <= Upto /\ ~MarkerAt(i)
    BY <2>1, <2>2, <2>4 DEF Upto, MarkerAt
  <2>6. PICK n \in 1 .. Len(chunks) : i \in ToSet(chunks[n].heading) \/ i \in ToSet(chunks[n].lines)
    BY <2>5 DEF ChunkInv, CoverInv, Covers
  <2>7. chunks[n] \in ToSet(chunks)
    BY Elements DEF ToSet, ChunkInv, PiecesInv
  <2> QED BY <2>6, <2>7
<1> QED BY <1>1, ChunkerIsInductive, PTL

\* A chunk ends on the page that is open at the end of its text, also when that
\* page's marker fell into a piece or a section of its own (base.py:133-146).
THEOREM ChunksEndOnTheirPage == ChunkerSpec => []PagesAreFollowed
<1>1. ChunkInv => PagesAreFollowed
  <2> SUFFICES ASSUME ChunkInv, NEW c \in ToSet(chunks)
               PROVE  c.to = PageOf(Last(c.lines)) /\ c.from <= c.to
    BY DEF PagesAreFollowed
  <2>1. PICK n \in 1 .. Len(chunks) : c = chunks[n]
    BY Elements DEF ToSet, ChunkInv, PiecesInv
  <2> QED BY <2>1 DEF ChunkInv, PiecesInv, PieceOk, Last
<1> QED BY <1>1, ChunkerIsInductive, PTL

\* The records of the chunker have their types, for every document.
THEOREM ChunkerTyped == ChunkerSpec => []ChunkerTypeOK
<1>1. ChunkInv => ChunkerTypeOK
  <2> SUFFICES ASSUME ChunkInv PROVE ChunkerTypeOK
    OBVIOUS
  <2>1. \A i \in Lines : KindAt(i) \in {"page", "dieu", "chuong", "text"} /\ md[i].page \in Nat
    BY LinesAreNumbers DEF ChunkInv, LineKinds
  <2>2. section \in 0 .. Len(md)
    <3>1. /\ Len(md) \in Nat /\ Sections \in Nat /\ (IsLegal => Sections <= Len(md)) /\ (~IsLegal => Sections = 1)
      BY LinesAreNumbers, SectionsAreFew DEF ChunkInv
    <3>2. md # <<>> => Len(md) >= 1
      BY <3>1 DEF ChunkInv, TextInv
    <3> QED BY <3>1, <3>2 DEF ChunkInv, PlaceInv
  <2>3. window \in Seq(Nat) /\ Len(window) \in {0, 2}
    <3>1. CASE window = <<>>
      BY <3>1
    <3>2. CASE window # <<>>
      BY <3>2 DEF ChunkInv, PlaceInv
    <3> QED BY <3>1, <3>2
  <2>4. lastPage \in Nat
    BY PagesAreNumbers DEF ChunkInv, PageInv
  <2>5. ASSUME NEW c \in ToSet(chunks) PROVE ToSet(c.heading) \cup ToSet(c.lines) \subseteq Lines
    <3>1. PICK n \in 1 .. Len(chunks) : c = chunks[n]
      BY Elements DEF ToSet, ChunkInv, PiecesInv
    <3>2. c \in Pieces
      BY <3>1, Elements DEF ChunkInv, PiecesInv
    <3>3. c.heading \in Seq(Lines) /\ c.lines \in Seq(Lines)
      BY <3>2 DEF Pieces
    <3> QED BY <3>3, Elements DEF ToSet
  <2> QED BY <2>1, <2>2, <2>3, <2>4, <2>5 DEF ChunkerTypeOK, ChunkInv
<1> QED BY <1>1, ChunkerIsInductive, PTL

-----------------------------------------------------------------------------
(***************************************************************************)
(* RateLimit.  For any number of calls, limit, window, delay and grace, a  *)
(* window holds at most Limit admitted calls that were counted in time and *)
(* whose member nobody erased, and no call is refused without cause.       *)
(***************************************************************************)
Called == {q \in Calls : lpc[q] # "new"}

ClockInv == \A r \in Calls : stamp[r] <= clock

\* A member is in the set until a call of a later window is counted or the key
\* expires, unless a rollback erased it.
StillSeen(q) ==
  \/ q \in entries
  \/ \E p \in Calls : InRedis(p) /\ stamp[p] >= stamp[q] + Window
  \/ clock >= stamp[q] + Window + Grace

\* What is counted was admitted or is not taken back, and the key lives as long
\* as its members matter.
EntryInv ==
  /\ IsFiniteSet(Called)
  /\ \A q \in entries : /\ lpc[q] \in {"admitted", "over", "stuck"}
                        /\ deadline >= stamp[q] + Window + Grace
  /\ \A q \in Calls : lpc[q] = "admitted" /\ q \notin erased => StillSeen(q)

\* The admitted calls that were counted in time and are not erased.
InTime(t) == LetIn(t) \ (late \cup erased)

WindowInv == \A t \in Nat : Cardinality(InTime(t)) <= Limit

LimiterInv == LimiterTypeOK /\ ClockInv /\ EntryInv /\ WindowInv

-----------------------------------------------------------------------------
LEMMA InitLimiter == LimiterInit => LimiterInv
<1> SUFFICES ASSUME LimiterInit PROVE LimiterInv
  OBVIOUS
<1> USE DEF LimiterInit
<1>1. LimiterTypeOK
  BY LimiterAssumption DEF LimiterTypeOK, LimiterPc, LimiterAssumption
<1>2. ClockInv
  BY DEF ClockInv
<1>3. EntryInv
  <2>1. Called = {}
    BY DEF Called
  <2> QED BY <2>1, FS_EmptySet DEF EntryInv
<1>4. WindowInv
  <2>1. ASSUME NEW t \in Nat PROVE Cardinality(InTime(t)) = 0
    <3>1. InTime(t) = {}
      BY DEF InTime, LetIn
    <3> QED BY <3>1, FS_EmptySet
  <2> QED BY <2>1, LimiterAssumption DEF WindowInv, LimiterAssumption
<1> QED BY <1>1, <1>2, <1>3, <1>4 DEF LimiterInv

LEMMA LimiterTypes ==
  ASSUME LimiterInv, LimiterNext
  PROVE  LimiterTypeOK'
<1> USE DEF LimiterInv, LimiterTypeOK, LimiterPc, Go, historyVars
<1>1. CASE Tick
  BY <1>1, LimiterAssumption DEF Tick, LimiterAssumption
<1>2. ASSUME NEW r \in Calls, ReadClock(r) PROVE LimiterTypeOK'
  BY <1>2 DEF ReadClock
<1>3. ASSUME NEW r \in Calls, Count(r) PROVE LimiterTypeOK'
  <2>1. deadline' \in Nat
    BY <1>3, LimiterAssumption DEF Count, LimiterAssumption
  <2>2. lpc' \in [Calls -> LimiterPc]
    BY <1>3 DEF Count
  <2>3. entries' \in SUBSET Calls /\ late' \in SUBSET Calls
    BY <1>3 DEF Count, Recent
  <2> QED BY <1>3, <2>1, <2>2, <2>3 DEF Count
<1>4. ASSUME NEW r \in Calls, Rollback(r) PROVE LimiterTypeOK'
  BY <1>4 DEF Rollback
<1>5. ASSUME NEW r \in Calls, Break(r) PROVE LimiterTypeOK'
  <2>1. lpc' \in [Calls -> LimiterPc]
    BY <1>5 DEF Break
  <2> QED BY <1>5, <2>1 DEF Break
<1> QED BY <1>1, <1>2, <1>3, <1>4, <1>5 DEF LimiterNext, CallStep

\* What a step leaves alone: the place and the stamp of every other call, the
\* stamp of a counted call, the history, and the time, which only goes on.
LEMMA LimiterFrame ==
  ASSUME LimiterInv, LimiterNext
  PROVE  /\ clock' \in Nat /\ clock <= clock'
         /\ late \subseteq late' /\ erased \subseteq erased'
         /\ \A q \in Calls : InRedis(q) => InRedis(q)' /\ stamp'[q] = stamp[q]
         /\ \A q \in Calls : lpc[q] # "new" => stamp'[q] = stamp[q]
<1> USE DEF LimiterInv, LimiterTypeOK, Go, historyVars, InRedis
<1>1. CASE Tick
  BY <1>1 DEF Tick
<1>2. ASSUME NEW r \in Calls, CallStep(r)
      PROVE  /\ clock' = clock /\ late \subseteq late' /\ erased \subseteq erased'
             /\ \A q \in Calls : InRedis(q) => InRedis(q)' /\ stamp'[q] = stamp[q]
             /\ \A q \in Calls : lpc[q] # "new" => stamp'[q] = stamp[q]
  <2>1. CASE ReadClock(r)
    BY <2>1 DEF ReadClock
  <2>2. CASE Count(r)
    BY <2>2 DEF Count
  <2>3. CASE Rollback(r)
    BY <2>3 DEF Rollback
  <2>4. CASE Break(r)
    BY <2>4 DEF Break
  <2> QED BY <1>2, <2>1, <2>2, <2>3, <2>4 DEF CallStep
<1> QED BY <1>1, <1>2 DEF LimiterNext

LEMMA LimiterClock ==
  ASSUME LimiterInv, LimiterNext
  PROVE  ClockInv'
<1> USE DEF LimiterInv, LimiterTypeOK, ClockInv, Go
<1>1. CASE Tick
  BY <1>1 DEF Tick
<1>2. ASSUME NEW r \in Calls, ReadClock(r) PROVE ClockInv'
  BY <1>2 DEF ReadClock
<1>3. ASSUME NEW r \in Calls, Count(r) \/ Rollback(r) \/ Break(r) PROVE ClockInv'
  BY <1>3 DEF Count, Rollback, Break
<1> QED BY <1>1, <1>2, <1>3 DEF LimiterNext, CallStep

LEMMA LimiterMembers ==
  ASSUME LimiterInv, LimiterNext
  PROVE  /\ IsFiniteSet(Called')
         /\ \A q \in entries' : /\ lpc'[q] \in {"admitted", "over", "stuck"}
                                /\ deadline' >= stamp'[q] + Window + Grace
<1> USE DEF LimiterInv, LimiterTypeOK, EntryInv, Go
<1> DEFINE Good(q) == /\ lpc'[q] \in {"admitted", "over", "stuck"}
                      /\ deadline' >= stamp'[q] + Window + Grace
<1>1. IsFiniteSet(Called')
  <2>1. CASE Tick
    BY <2>1 DEF Tick, Called
  <2>2. ASSUME NEW r \in Calls, CallStep(r) PROVE IsFiniteSet(Called')
    <3>1. Called' \subseteq Called \cup {r}
      BY <2>2 DEF CallStep, ReadClock, Count, Rollback, Break, Called
    <3>2. IsFiniteSet(Called \cup {r})
      BY FS_AddElement
    <3> QED BY <3>1, <3>2, FS_Subset
  <2> QED BY <2>1, <2>2 DEF LimiterNext
<1>2. CASE Tick
  BY <1>1, <1>2 DEF Tick
<1>3. ASSUME NEW r \in Calls, ReadClock(r) PROVE \A q \in entries' : Good(q)
  BY <1>3 DEF ReadClock
<1>4. ASSUME NEW r \in Calls, Count(r) PROVE \A q \in entries' : Good(q)
  <2>1. /\ stamp' = stamp /\ deadline' = clock + Window + Grace
        /\ lpc'[r] \in {"over", "admitted"} /\ \A q \in Calls : q # r => lpc'[q] = lpc[q]
    BY <1>4 DEF Count
  <2>2. \A q \in Calls : deadline' >= stamp'[q] + Window + Grace
    BY <2>1, LimiterAssumption DEF ClockInv, LimiterAssumption
  <2>3. \A q \in entries' : lpc'[q] \in {"admitted", "over", "stuck"}
    BY <1>4, <2>1 DEF Count, Recent
  <2>4. entries' \in SUBSET Calls
    BY <1>4 DEF Count, Recent
  <2> QED BY <2>2, <2>3, <2>4
<1>5. ASSUME NEW r \in Calls, Rollback(r) PROVE \A q \in entries' : Good(q)
  BY <1>5 DEF Rollback
<1>6. ASSUME NEW r \in Calls, Break(r) PROVE \A q \in entries' : Good(q)
  BY <1>6 DEF Break
<1> QED BY <1>1, <1>2, <1>3, <1>4, <1>5, <1>6 DEF LimiterNext, CallStep

\* An admitted call that leaves the set is trimmed, expired or erased.
LEMMA LimiterEntries ==
  ASSUME LimiterInv, LimiterNext
  PROVE  EntryInv'
<1> USE LimiterAssumption DEF LimiterInv, LimiterTypeOK, Go, LimiterAssumption
<1>1. ASSUME NEW q \in Calls, lpc'[q] = "admitted", q \notin erased' PROVE StillSeen(q)'
  <2>1. ASSUME lpc[q] = "admitted", q \in entries \/ ~StillSeen(q) => q \in entries'
        PROVE  StillSeen(q)'
    <3>1. InRedis(q) /\ stamp'[q] = stamp[q] /\ q \notin erased
      BY <1>1, <2>1, LimiterFrame DEF InRedis
    <3>2. StillSeen(q)
      BY <2>1, <3>1 DEF EntryInv
    <3>3. CASE q \in entries
      BY <2>1, <3>3 DEF StillSeen
    <3>4. CASE \E p \in Calls : InRedis(p) /\ stamp[p] >= stamp[q] + Window
      BY <3>1, <3>4, LimiterFrame DEF StillSeen
    <3>5. CASE clock >= stamp[q] + Window + Grace
      BY <3>1, <3>5, LimiterFrame DEF StillSeen
    <3> QED BY <3>2, <3>3, <3>4, <3>5 DEF StillSeen
  <2>2. CASE Tick
    <3>1. clock' = clock + 1 /\ lpc' = lpc /\ stamp' = stamp
      BY <2>2 DEF Tick
    <3>2. CASE entries' = entries \/ q \notin entries
      <4>1. lpc[q] = "admitted" /\ q \notin erased
        BY <1>1, <3>1, LimiterFrame
      <4>2. StillSeen(q)
        BY <4>1 DEF EntryInv
      <4> QED BY <3>1, <3>2, <4>2 DEF StillSeen, InRedis
    <3>3. CASE entries' # entries /\ q \in entries
      <4>1. clock' >= deadline /\ deadline >= stamp[q] + Window + Grace
        BY <2>2, <3>3 DEF Tick, EntryInv
      <4> QED BY <3>1, <4>1 DEF StillSeen
    <3> QED BY <3>2, <3>3
  <2>3. ASSUME NEW r \in Calls, ReadClock(r) PROVE StillSeen(q)'
    <3>1. lpc[q] = "admitted" /\ entries' = entries
      BY <1>1, <2>3 DEF ReadClock
    <3>2. q \notin erased
      BY <1>1, LimiterFrame
    <3> QED BY <2>1, <3>1, <3>2 DEF EntryInv
  <2>4. ASSUME NEW r \in Calls, Count(r) PROVE StillSeen(q)'
    <3>1. CASE q = r
      BY <2>4, <3>1 DEF Count, StillSeen
    <3>2. CASE q # r
      <4>1. lpc[q] = "admitted" /\ stamp' = stamp
        BY <1>1, <2>4, <3>2 DEF Count
      <4>2. CASE q \in entries /\ ~(stamp[q] > stamp[r] - Window)
        <5>1. InRedis(r)' /\ stamp'[r] >= stamp'[q] + Window
          BY <2>4, <4>1, <4>2 DEF Count, InRedis
        <5> QED BY <5>1 DEF StillSeen
      <4>3. CASE ~(q \in entries /\ ~(stamp[q] > stamp[r] - Window))
        <5>1. q \in entries => q \in entries'
          BY <2>4, <4>3 DEF Count, Recent
        <5>2. q \notin erased
          BY <1>1, LimiterFrame
        <5> QED BY <2>1, <4>1, <5>1, <5>2 DEF EntryInv
      <4> QED BY <4>2, <4>3
    <3> QED BY <3>1, <3>2
  <2>5. ASSUME NEW r \in Calls, Rollback(r) PROVE StillSeen(q)'
    <3>1. q # r /\ lpc[q] = "admitted"
      BY <1>1, <2>5 DEF Rollback
    <3>2. q \in entries => q \in entries'
      BY <1>1, <2>5, <3>1 DEF Rollback
    <3>3. q \notin erased
      BY <1>1, LimiterFrame
    <3> QED BY <2>1, <3>1, <3>2, <3>3 DEF EntryInv
  <2>6. ASSUME NEW r \in Calls, Break(r) PROVE StillSeen(q)'
    <3>1. lpc[q] = "admitted" /\ entries' = entries
      BY <1>1, <2>6 DEF Break
    <3>2. q \notin erased
      BY <1>1, LimiterFrame
    <3> QED BY <2>1, <3>1, <3>2 DEF EntryInv
  <2> QED BY <2>2, <2>3, <2>4, <2>5, <2>6 DEF LimiterNext, CallStep
<1> QED BY <1>1, LimiterMembers DEF EntryInv

LEMMA InTimeIsFinite ==
  ASSUME LimiterInv, NEW t
  PROVE  IsFiniteSet(InTime(t)) /\ Cardinality(InTime(t)) \in Nat
<1>1. InTime(t) \subseteq Called
  BY DEF InTime, LetIn, Called
<1> QED BY <1>1, FS_Subset, FS_CardinalityType DEF LimiterInv, EntryInv

\* A step that admits no call in time leaves no more of them than before.
LEMMA WindowShrinks ==
  ASSUME LimiterInv, LimiterNext, NEW t \in Nat,
         \A q \in InTime(t)' : lpc[q] = "admitted"
  PROVE  Cardinality(InTime(t)') <= Limit
<1>1. InTime(t)' \subseteq InTime(t)
  <2> SUFFICES ASSUME NEW q \in InTime(t)' PROVE q \in InTime(t)
    OBVIOUS
  <2>1. q \in Calls /\ lpc[q] = "admitted" /\ t - Window < stamp'[q] /\ stamp'[q] <= t
        /\ q \notin late' /\ q \notin erased'
    BY DEF InTime, LetIn
  <2>2. stamp'[q] = stamp[q] /\ q \notin late /\ q \notin erased
    BY <2>1, LimiterFrame
  <2> QED BY <2>1, <2>2 DEF InTime, LetIn
<1>2. IsFiniteSet(InTime(t)) /\ Cardinality(InTime(t)) \in Nat
  BY InTimeIsFinite
<1>3. IsFiniteSet(InTime(t)') /\ Cardinality(InTime(t)') <= Cardinality(InTime(t))
  BY <1>1, <1>2, FS_Subset
<1>4. Cardinality(InTime(t)') \in Nat
  BY <1>3, FS_CardinalityType
<1> QED BY <1>2, <1>3, <1>4, LimiterAssumption DEF LimiterInv, WindowInv, LimiterAssumption

\* A call that is admitted in time has found all the others of its window.
LEMMA OthersAreFound ==
  ASSUME LimiterInv, NEW t \in Nat, NEW r \in Calls, Count(r), r \in InTime(t)',
         NEW q \in InTime(t)', q # r
  PROVE  q \in Recent(r)
<1> USE LimiterAssumption DEF LimiterInv, LimiterTypeOK, Go, LimiterAssumption
<1>1. /\ stamp' = stamp /\ clock' = clock /\ erased' = erased
      /\ \A p \in Calls : p # r => lpc'[p] = lpc[p]
  BY DEF Count
<1>2. /\ q \in Calls /\ lpc[q] = "admitted" /\ q \notin erased /\ t - Window < stamp[q]
      /\ stamp[q] \in Nat
  BY <1>1 DEF InTime, LetIn
<1>3. stamp[r] <= t /\ stamp[r] \in Nat /\ ~IsLate(r)
  BY <1>1 DEF InTime, LetIn, Count
<1>4. stamp[q] > stamp[r] - Window
  BY <1>2, <1>3
<1>5. ~(\E p \in Calls : InRedis(p) /\ stamp[p] >= stamp[q] + Window)
  BY <1>2, <1>3, <1>4 DEF IsLate
<1>6. ~(clock >= stamp[q] + Window + Grace)
  BY <1>2, <1>3, <1>4 DEF IsLate
<1>7. q \in entries
  BY <1>2, <1>5, <1>6 DEF EntryInv, StillSeen
<1> QED BY <1>4, <1>7 DEF Recent

LEMMA LimiterWindows ==
  ASSUME LimiterInv, LimiterNext
  PROVE  WindowInv'
<1> SUFFICES ASSUME NEW t \in Nat PROVE Cardinality(InTime(t)') <= Limit
  BY DEF WindowInv
<1> USE DEF Go
<1>1. CASE Tick
  BY <1>1, WindowShrinks DEF Tick, InTime, LetIn
<1>2. ASSUME NEW r \in Calls, ReadClock(r) \/ Rollback(r) \/ Break(r)
      PROVE  Cardinality(InTime(t)') <= Limit
  <2>1. \A q \in Calls : lpc'[q] = "admitted" => lpc[q] = "admitted"
    BY <1>2 DEF ReadClock, Rollback, Break, LimiterInv, LimiterTypeOK
  <2> QED BY <2>1, WindowShrinks DEF InTime, LetIn
<1>3. ASSUME NEW r \in Calls, Count(r) PROVE Cardinality(InTime(t)') <= Limit
  <2>1. /\ lpc'[r] = IF Full(r) THEN "over" ELSE "admitted"
        /\ \A q \in Calls : q # r => lpc'[q] = lpc[q]
    BY <1>3 DEF Count, LimiterInv, LimiterTypeOK
  <2>2. CASE r \in InTime(t)'
    <3>1. ~Full(r)
      BY <2>1, <2>2 DEF InTime, LetIn
    <3>2. InTime(t)' \subseteq Recent(r) \cup {r}
      BY <1>3, <2>2, OthersAreFound
    <3>3. IsFiniteSet(Recent(r)) /\ Cardinality(Recent(r)) \in Nat
      <4>1. Recent(r) \subseteq Called
        BY DEF Recent, Called, LimiterInv, EntryInv, LimiterTypeOK
      <4> QED BY <4>1, FS_Subset, FS_CardinalityType DEF LimiterInv, EntryInv
    <3>4. Cardinality(Recent(r)) + 1 <= Limit
      BY <3>1, <3>3, LimiterAssumption DEF Full, LimiterAssumption
    <3>5. /\ IsFiniteSet(Recent(r) \cup {r})
          /\ \/ Cardinality(Recent(r) \cup {r}) = Cardinality(Recent(r))
             \/ Cardinality(Recent(r) \cup {r}) = Cardinality(Recent(r)) + 1
      BY <3>3, FS_AddElement
    <3>6. IsFiniteSet(InTime(t)') /\ Cardinality(InTime(t)') <= Cardinality(Recent(r) \cup {r})
      BY <3>2, <3>5, FS_Subset
    <3>7. Cardinality(InTime(t)') \in Nat
      BY <3>6, FS_CardinalityType
    <3> QED BY <3>3, <3>4, <3>5, <3>6, <3>7, LimiterAssumption DEF LimiterAssumption
  <2>3. CASE r \notin InTime(t)'
    <3>1. \A q \in InTime(t)' : lpc[q] = "admitted"
      BY <2>1, <2>3 DEF InTime, LetIn
    <3> QED BY <3>1, WindowShrinks
  <2> QED BY <2>2, <2>3
<1> QED BY <1>1, <1>2, <1>3 DEF LimiterNext, CallStep

LEMMA NextLimiter == LimiterInv /\ [LimiterNext]_limiterVars => LimiterInv'
<1> SUFFICES ASSUME LimiterInv, [LimiterNext]_limiterVars PROVE LimiterInv'
  OBVIOUS
<1>1. CASE LimiterNext
  BY <1>1, LimiterTypes, LimiterClock, LimiterEntries, LimiterWindows DEF LimiterInv
<1>2. CASE UNCHANGED limiterVars
  <2> USE <1>2 DEF limiterVars, historyVars, LimiterInv
  <2>1. LimiterTypeOK'
    BY DEF LimiterTypeOK
  <2>2. ClockInv'
    BY DEF ClockInv
  <2>3. EntryInv'
    BY DEF EntryInv, Called, StillSeen, InRedis
  <2>4. WindowInv'
    BY DEF WindowInv, InTime, LetIn
  <2> QED BY <2>1, <2>2, <2>3, <2>4
<1> QED BY <1>1, <1>2

\* The strengthened invariant: what the limiter counts is what it admitted, as
\* far as no rollback, later window or expiry has taken it away.
THEOREM LimiterIsInductive == LimiterSpec => []LimiterInv
BY InitLimiter, NextLimiter, PTL DEF LimiterSpec

\* In every window, for any limit, window, delay and grace, at most Limit calls
\* were admitted in time and not erased by a rollback: each admission beyond the
\* limit has a call that was counted late, or erased, to account for it.
THEOREM AdmissionsStayBounded == LimiterSpec => []AdmissionsBounded
<1>1. LimiterInv => AdmissionsBounded
  BY LimiterAssumption DEF LimiterInv, WindowInv, InTime, AdmissionsBounded, LimiterAssumption
<1> QED BY LimiterIsInductive, <1>1, PTL

\* A refused call has found Limit others in its window that were admitted or
\* are not taken back.
LEMMA StepRefusals ==
  LimiterInv /\ [LimiterNext]_limiterVars =>
    [\A r \in Calls : (lpc[r] = "timed" /\ lpc'[r] = "over") =>
       Cardinality({q \in Calls : lpc[q] \in {"admitted", "over", "stuck"}
                                  /\ stamp[q] > stamp[r] - Window}) >= Limit
    ]_limiterVars
<1> SUFFICES ASSUME LimiterInv, LimiterNext, NEW r \in Calls, lpc[r] = "timed", lpc'[r] = "over"
             PROVE  Cardinality({q \in Calls : lpc[q] \in {"admitted", "over", "stuck"}
                                               /\ stamp[q] > stamp[r] - Window}) >= Limit
  BY DEF limiterVars
<1> DEFINE Others == {q \in Calls : lpc[q] \in {"admitted", "over", "stuck"}
                                    /\ stamp[q] > stamp[r] - Window}
<1>1. Count(r) /\ Full(r)
  BY DEF LimiterNext, Tick, CallStep, ReadClock, Count, Rollback, Break, Go, LimiterInv, LimiterTypeOK
<1>2. Recent(r) \subseteq Others /\ Others \subseteq Called
  BY DEF Recent, Called, LimiterInv, EntryInv, LimiterTypeOK
<1> HIDE DEF Others
<1>3. IsFiniteSet(Others) /\ IsFiniteSet(Recent(r)) /\ Cardinality(Recent(r)) <= Cardinality(Others)
  BY <1>2, FS_Subset DEF LimiterInv, EntryInv
<1>4. Cardinality(Others) \in Nat /\ Cardinality(Recent(r)) \in Nat
  BY <1>3, FS_CardinalityType
<1>5. Cardinality(Others) >= Limit
  BY <1>1, <1>3, <1>4, LimiterAssumption DEF Full, LimiterAssumption
<1> QED BY <1>5 DEF Others

\* A refusal has its cause, in every step of the limiter.
THEOREM RefusalsHaveCause == LimiterSpec => RefusalsAreDue
BY LimiterIsInductive, StepRefusals, PTL DEF LimiterSpec, RefusalsAreDue

-----------------------------------------------------------------------------
(***************************************************************************)
(* Sessions.  For any number of requests, accounts and tokens, accounts    *)
(* stay whole and a token that was rotated or logged out is never rotated  *)
(* again by a request that began to read it afterwards.                    *)
(***************************************************************************)
Presents(r) == kind[r] \in {"refresh", "logout"}
HasSpent(r) == Presents(r) /\ apc[r] \in {"rotated", "logged_out"}

\* A request issues one token, at its end; it presents one that was issued
\* before; what it has rotated or logged out is revoked, and it read its token
\* after no request that has spent the same one.
TokenInv ==
  \A r \in AuthRequests :
    /\ tokens[r] # "none" => apc[r] \in {"logged_in", "rotated"}
    /\ Presents(r) => tokens[presented[r]] # "none"
    /\ apc[r] \in {"read_token", "rotate", "commit_rotation", "revoke", "rotated", "logged_out"}
         => Presents(r)
    /\ HasSpent(r) => tokens[presented[r]] = "revoked"
    /\ apc[r] = "new" => before[r] = {}
    /\ \A s \in before[r] : apc[s] \in Ended /\ (HasSpent(s) => presented[s] # presented[r])

HasTenant(r) == \E t \in tenants : t[1] = Slug(r)
HasUser(r) == \E u \in users : <<u[1], u[2]>> = account[r]

\* A tenant that is not committed is the only one with its slug; a request past
\* the tenant has one, its own or a committed one; an address that is about to
\* be committed is nobody else's.
AccountInv ==
  /\ AccountsAreWhole
  /\ \A r \in AuthRequests :
       /\ ownTenant[r] => ~HasTenant(r) /\ apc[r] \in {"find_user", "insert_user", "commit_user"}
       /\ apc[r] \in {"find_user", "insert_user", "commit_user"} => ownTenant[r] \/ HasTenant(r)
       /\ apc[r] = "commit_user" => ~HasUser(r)
       /\ \A q \in AuthRequests :
            /\ ownTenant[q] /\ ownTenant[r] /\ Slug(q) = Slug(r) => q = r
            /\ apc[q] = "commit_user" /\ apc[r] = "commit_user" /\ account[q] = account[r] => q = r

SessionInv == SessionsTypeOK /\ TokenInv /\ AccountInv

SessionStep(r) == Start(r) \/ Present(r) \/ AuthStep(r) \/ AuthFails(r)

\* Every step keeps the types.
LEMMA TypeKeeps ==
  ASSUME SessionInv, NEW r \in AuthRequests, SessionStep(r)
  PROVE  SessionsTypeOK'
<1> USE DEF SessionInv, SessionsTypeOK, Move, Close, rowVars, bodyVars, Open, Ended, Post
<1>1. CASE Start(r)
  <2>1. PICK body \in Bodies[r] : Post(r, body)
    BY <1>1 DEF Start
  <2>2. body[1] \in Routes /\ body[2] \in Slugs \X Emails
    BY SessionsAssumption DEF SessionsAssumption
  <2>3. kind' \in [AuthRequests -> Routes \cup {"none"}] /\ account' \in [AuthRequests -> Slugs \X Emails]
    BY <2>1, <2>2
  <2> QED BY <1>1, <2>3 DEF Start
<1>2. CASE Present(r)
  <2>1. PICK body \in Bodies[r] : Post(r, body)
    BY <1>2 DEF Present
  <2>2. body[1] \in Routes /\ body[2] \in Slugs \X Emails
    BY SessionsAssumption DEF SessionsAssumption
  <2>3. kind' \in [AuthRequests -> Routes \cup {"none"}] /\ account' \in [AuthRequests -> Slugs \X Emails]
    BY <2>1, <2>2
  <2> QED BY <1>2, <2>3 DEF Present
<1>3. CASE FindTenant(r)
  BY <1>3 DEF FindTenant
<1>4. CASE InsertTenant(r)
  BY <1>4 DEF InsertTenant
<1>5. CASE TenantConflict(r)
  BY <1>5 DEF TenantConflict
<1>6. CASE FindUser(r)
  <2>1. apc' \in [AuthRequests -> {"new"} \cup Open \cup Ended]
    <3>1. CASE Move(r, "find_user", "insert_user")
      BY <3>1
    <3>2. CASE Move(r, "find_user", "commit_login")
      BY <3>2
    <3> QED BY <1>6, <3>1, <3>2 DEF FindUser
  <2> QED BY <1>6, <2>1 DEF FindUser
<1>7. CASE RefuseUser(r)
  BY <1>7 DEF RefuseUser
<1>8. CASE InsertUser(r)
  BY <1>8 DEF InsertUser
<1>9. CASE UserConflict(r)
  BY <1>9 DEF UserConflict
<1>10. CASE CommitUser(r)
  <2>1. account[r] \in Slugs \X Emails
    OBVIOUS
  <2>2. tenants' \in SUBSET (Slugs \X AuthRequests) /\ users' \in SUBSET (Slugs \X Emails \X AuthRequests)
    BY <1>10, <2>1 DEF CommitUser, Slug
  <2>3. apc' \in [AuthRequests -> {"new"} \cup Open \cup Ended]
    BY <1>10 DEF CommitUser
  <2>4. ownTenant' \in [AuthRequests -> BOOLEAN]
    BY <1>10 DEF CommitUser
  <2> QED BY <1>10, <2>2, <2>3, <2>4 DEF CommitUser
<1>11. CASE CommitLogin(r)
  BY <1>11 DEF CommitLogin
<1>12. CASE ReadToken(r)
  BY <1>12 DEF ReadToken
<1>13. CASE RefuseToken(r)
  BY <1>13 DEF RefuseToken
<1>14. CASE Rotate(r)
  BY <1>14 DEF Rotate
<1>15. CASE CommitRotation(r)
  BY <1>15 DEF CommitRotation
<1>16. CASE Revoke(r)
  BY <1>16 DEF Revoke
<1>17. CASE AuthFails(r)
  <2>1. authFaults' \in 0 .. MaxAuthFaults
    BY <1>17, SessionsAssumption DEF AuthFails, SessionsAssumption
  <2>2. apc' \in [AuthRequests -> {"new"} \cup Open \cup Ended]
    BY <1>17 DEF AuthFails
  <2>3. ownTenant' \in [AuthRequests -> BOOLEAN]
    BY <1>17 DEF AuthFails
  <2> QED BY <1>17, <2>1, <2>2, <2>3 DEF AuthFails
<1> QED BY <1>1, <1>2, <1>3, <1>4, <1>5, <1>6, <1>7, <1>8, <1>9, <1>10, <1>11, <1>12, <1>13,
           <1>14, <1>15, <1>16, <1>17 DEF SessionStep, AuthStep

\* What a step does to tokens.
LEMMA TokensKeep ==
  ASSUME SessionInv, NEW r \in AuthRequests, SessionStep(r)
  PROVE  TokenInv'
<1> USE DEF SessionInv, SessionsTypeOK, TokenInv, Presents, HasSpent, Move, Close, rowVars, bodyVars, Open, Ended, Post
<1>1. CASE Start(r)
  BY <1>1 DEF Start
<1>2. CASE Present(r)
  BY <1>2 DEF Present
<1>3. CASE FindTenant(r)
  BY <1>3 DEF FindTenant
<1>4. CASE InsertTenant(r)
  BY <1>4 DEF InsertTenant
<1>5. CASE TenantConflict(r)
  BY <1>5 DEF TenantConflict
<1>6. CASE FindUser(r)
  <2>1. CASE Move(r, "find_user", "insert_user")
    BY <1>6, <2>1 DEF FindUser
  <2>2. CASE Move(r, "find_user", "commit_login")
    BY <1>6, <2>2 DEF FindUser
  <2> QED BY <1>6, <2>1, <2>2 DEF FindUser
<1>7. CASE RefuseUser(r)
  BY <1>7 DEF RefuseUser
<1>8. CASE InsertUser(r)
  BY <1>8 DEF InsertUser
<1>9. CASE UserConflict(r)
  BY <1>9 DEF UserConflict
<1>10. CASE CommitUser(r)
  BY <1>10 DEF CommitUser
<1>11. CASE CommitLogin(r)
  BY <1>11 DEF CommitLogin
<1>12. CASE ReadToken(r)
  BY <1>12 DEF ReadToken
<1>13. CASE RefuseToken(r)
  BY <1>13 DEF RefuseToken
<1>14. CASE Rotate(r)
  BY <1>14 DEF Rotate
<1>15. CASE CommitRotation(r)
  BY <1>15 DEF CommitRotation
<1>16. CASE Revoke(r)
  BY <1>16 DEF Revoke
<1>17. CASE AuthFails(r)
  BY <1>17 DEF AuthFails
<1> QED BY <1>1, <1>2, <1>3, <1>4, <1>5, <1>6, <1>7, <1>8, <1>9, <1>10, <1>11, <1>12, <1>13,
           <1>14, <1>15, <1>16, <1>17 DEF SessionStep, AuthStep

\* The rows a request looks up, as predicates.
LEMMA RowsFound ==
  ASSUME NEW r \in AuthRequests
  PROVE  (TenantRows(r) = {} <=> ~HasTenant(r)) /\ (UserRows(r) = {} <=> ~HasUser(r))
BY DEF TenantRows, UserRows, HasTenant, HasUser

LEMMA UsersHaveTenants ==
  ASSUME SessionInv, NEW r \in AuthRequests, HasUser(r)
  PROVE  HasTenant(r)
<1>1. PICK u \in users : <<u[1], u[2]>> = account[r]
  BY DEF HasUser
<1>2. u[1] = Slug(r)
  BY <1>1 DEF Slug
<1>3. u[1] \in {t[1] : t \in tenants}
  BY DEF SessionInv, AccountInv, AccountsAreWhole
<1> QED BY <1>2, <1>3 DEF HasTenant

\* Nothing a request looks up changes while rows and its body do not.
LEMMA SameRows ==
  ASSUME UNCHANGED <<tenants, users>>, NEW q \in AuthRequests, account'[q] = account[q]
  PROVE  /\ HasTenant(q)' <=> HasTenant(q)
         /\ HasUser(q)' <=> HasUser(q)
         /\ Slug(q)' = Slug(q)
BY DEF HasTenant, HasUser, Slug

\* A step that commits no row.
LEMMA AccountsKeepOpen ==
  ASSUME SessionInv, NEW r \in AuthRequests, SessionStep(r), ~CommitUser(r)
  PROVE  AccountInv'
<1> DEFINE RowsRest == /\ UNCHANGED <<tenants, users>>
                   /\ \A q \in AuthRequests : q # r => account'[q] = account[q]
<1>0. RowsRest /\ AccountsAreWhole'
  <2>1. UNCHANGED <<tenants, users>>
    BY DEF SessionStep, AuthStep, Start, Present, FindTenant, InsertTenant, TenantConflict, FindUser,
       RefuseUser, InsertUser, UserConflict, CommitLogin, ReadToken, RefuseToken, Rotate,
       CommitRotation, Revoke, AuthFails, rowVars
  <2>2. \A q \in AuthRequests : q # r => account'[q] = account[q]
    BY DEF SessionStep, AuthStep, Start, Present, FindTenant, InsertTenant, TenantConflict, FindUser,
       RefuseUser, InsertUser, UserConflict, CommitLogin, ReadToken, RefuseToken, Rotate,
       CommitRotation, Revoke, AuthFails, bodyVars, Post, SessionInv, SessionsTypeOK
  <2> QED BY <2>1, <2>2 DEF SessionInv, AccountInv, AccountsAreWhole
<1>1. \A q \in AuthRequests : account'[q] = account[q] =>
        /\ HasTenant(q)' <=> HasTenant(q)
        /\ HasUser(q)' <=> HasUser(q)
        /\ Slug(q)' = Slug(q)
  BY <1>0, SameRows
<1>2. TenantRows(r) = {} <=> ~HasTenant(r)
  BY RowsFound
<1>3. UserRows(r) = {} <=> ~HasUser(r)
  BY RowsFound
<1> USE DEF SessionInv, SessionsTypeOK, AccountInv, Move, Close, rowVars, bodyVars, Open
<1>4. CASE Start(r) \/ Present(r)
  <2>1. apc[r] = "new" /\ ownTenant' = ownTenant
    BY <1>4 DEF Start, Present
  <2>2. apc'[r] \in {"find_tenant", "read_token"} /\ \A q \in AuthRequests : q # r => apc'[q] = apc[q]
    BY <1>4 DEF Start, Present
  <2>3. ~ownTenant'[r] /\ apc'[r] \notin {"find_user", "insert_user", "commit_user"}
    BY <2>1, <2>2
  <2>4. ASSUME NEW p \in AuthRequests, p # r
        PROVE  /\ apc'[p] = apc[p] /\ ownTenant'[p] = ownTenant[p] /\ account'[p] = account[p]
               /\ HasTenant(p)' <=> HasTenant(p)
               /\ HasUser(p)' <=> HasUser(p)
               /\ Slug(p)' = Slug(p)
    BY <1>0, <1>1, <2>1, <2>2, <2>4
  <2>5. ASSUME NEW p \in AuthRequests
        PROVE /\ ownTenant'[p] => ~HasTenant(p)' /\ apc'[p] \in {"find_user", "insert_user", "commit_user"}
              /\ apc'[p] \in {"find_user", "insert_user", "commit_user"} => ownTenant'[p] \/ HasTenant(p)'
              /\ apc'[p] = "commit_user" => ~HasUser(p)'
    <3>1. CASE p = r
      BY <2>3, <3>1
    <3>2. CASE p # r
      BY <2>4, <3>2
    <3> QED BY <3>1, <3>2
  <2>6. ASSUME NEW p \in AuthRequests, NEW q \in AuthRequests
        PROVE /\ ownTenant'[q] /\ ownTenant'[p] /\ Slug(q)' = Slug(p)' => q = p
              /\ apc'[q] = "commit_user" /\ apc'[p] = "commit_user" /\ account'[q] = account'[p] => q = p
    <3>1. CASE p = r \/ q = r
      BY <2>3, <3>1
    <3>2. CASE p # r /\ q # r
      BY <2>4, <3>2
    <3> QED BY <3>1, <3>2
  <2> QED BY <1>0, <2>5, <2>6
<1>5. CASE FindTenant(r)
  BY <1>0, <1>1, <1>2, <1>3, <1>5 DEF FindTenant
<1>6. CASE InsertTenant(r)
  BY <1>0, <1>1, <1>2, <1>3, <1>6 DEF InsertTenant, SlugIsFree
<1>7. CASE TenantConflict(r)
  BY <1>0, <1>1, <1>2, <1>3, <1>7 DEF TenantConflict
<1>8. CASE FindUser(r)
  <2>1. CASE UserRows(r) = {} /\ Move(r, "find_user", "insert_user")
    BY <1>0, <1>1, <1>8, <2>1 DEF FindUser
  <2>2. CASE UserRows(r) # {} /\ Move(r, "find_user", "commit_login")
    <3>1. HasTenant(r)
      BY <1>3, <2>2, UsersHaveTenants
    <3> QED BY <1>0, <1>1, <1>8, <2>2, <3>1 DEF FindUser
  <2> QED BY <1>8, <2>1, <2>2 DEF FindUser
<1>9. CASE RefuseUser(r)
  BY <1>0, <1>1, <1>2, <1>3, <1>9 DEF RefuseUser
<1>10. CASE InsertUser(r)
  BY <1>0, <1>1, <1>2, <1>3, <1>10 DEF InsertUser, AddressIsFree
<1>11. CASE UserConflict(r)
  BY <1>0, <1>1, <1>2, <1>3, <1>11 DEF UserConflict
<1>12. CASE CommitLogin(r)
  BY <1>0, <1>1, <1>2, <1>3, <1>12 DEF CommitLogin
<1>13. CASE ReadToken(r)
  BY <1>0, <1>1, <1>2, <1>3, <1>13 DEF ReadToken
<1>14. CASE RefuseToken(r)
  BY <1>0, <1>1, <1>2, <1>3, <1>14 DEF RefuseToken
<1>15. CASE Rotate(r)
  BY <1>0, <1>1, <1>2, <1>3, <1>15 DEF Rotate
<1>16. CASE CommitRotation(r)
  BY <1>0, <1>1, <1>2, <1>3, <1>16 DEF CommitRotation
<1>17. CASE Revoke(r)
  BY <1>0, <1>1, <1>2, <1>3, <1>17 DEF Revoke
<1>18. CASE AuthFails(r)
  BY <1>0, <1>1, <1>2, <1>3, <1>18 DEF AuthFails
<1> QED BY <1>4, <1>5, <1>6, <1>7, <1>8, <1>9, <1>10, <1>11, <1>12, <1>13, <1>14, <1>15, <1>16,
           <1>17, <1>18 DEF SessionStep, AuthStep

\* A registration commits its user, and its tenant if that is its own.
LEMMA AccountsKeepCommit ==
  ASSUME SessionInv, NEW r \in AuthRequests, CommitUser(r)
  PROVE  AccountInv'
<1> DEFINE u0 == <<Slug(r), account[r][2], r>>
<1> DEFINE t0 == <<Slug(r), r>>
<1>1. /\ apc[r] = "commit_user" /\ ~HasUser(r) /\ (ownTenant[r] \/ HasTenant(r))
      /\ ownTenant[r] => ~HasTenant(r)
  BY DEF CommitUser, Move, SessionInv, AccountInv
<1>2. users' = users \cup {u0} /\ tenants' = (IF ownTenant[r] THEN tenants \cup {t0} ELSE tenants)
  BY DEF CommitUser
<1>3. account' = account /\ \A q \in AuthRequests : Slug(q)' = Slug(q)
  BY DEF CommitUser, bodyVars, Slug
<1>4. <<u0[1], u0[2]>> = account[r] /\ t0[1] = Slug(r) /\ u0[1] = Slug(r)
  BY DEF SessionInv, SessionsTypeOK, Slug
<1>5. \A t, u \in users' : <<t[1], t[2]>> = <<u[1], u[2]>> => t = u
  BY <1>1, <1>2, <1>4 DEF SessionInv, AccountInv, AccountsAreWhole, HasUser
<1>6. \A t, u \in tenants' : t[1] = u[1] => t = u
  BY <1>1, <1>2, <1>4 DEF SessionInv, AccountInv, AccountsAreWhole, HasTenant
<1>7. {t[1] : t \in tenants'} = {u[1] : u \in users'}
  <2>1. {t[1] : t \in tenants} = {u[1] : u \in users}
    BY DEF SessionInv, AccountInv, AccountsAreWhole
  <2>2. {u[1] : u \in users'} = {u[1] : u \in users} \cup {Slug(r)}
    BY <1>2, <1>4
  <2>3. CASE ownTenant[r]
    <3>1. {t[1] : t \in tenants'} = {t[1] : t \in tenants} \cup {Slug(r)}
      BY <1>2, <1>4, <2>3
    <3> QED BY <2>1, <2>2, <3>1
  <2>4. CASE ~ownTenant[r]
    <3>1. tenants' = tenants /\ Slug(r) \in {t[1] : t \in tenants}
      BY <1>1, <1>2, <2>4 DEF HasTenant
    <3> QED BY <2>1, <2>2, <3>1
  <2> QED BY <2>3, <2>4
<1>8. \A q \in AuthRequests : HasTenant(q)' <=> HasTenant(q) \/ (ownTenant[r] /\ Slug(q) = Slug(r))
  BY <1>2, <1>3, <1>4 DEF HasTenant
<1>9. \A q \in AuthRequests : HasUser(q)' <=> HasUser(q) \/ account[q] = account[r]
  BY <1>2, <1>3, <1>4 DEF HasUser
<1>10. \A q \in AuthRequests :
         /\ q # r => apc'[q] = apc[q] /\ ownTenant'[q] = ownTenant[q]
         /\ apc'[r] = "created" /\ ~ownTenant'[r]
  BY DEF CommitUser, Move, Close, SessionInv, SessionsTypeOK
<1>11. ASSUME NEW p \in AuthRequests
       PROVE /\ ownTenant'[p] => ~HasTenant(p)' /\ apc'[p] \in {"find_user", "insert_user", "commit_user"}
             /\ apc'[p] \in {"find_user", "insert_user", "commit_user"} => ownTenant'[p] \/ HasTenant(p)'
             /\ apc'[p] = "commit_user" => ~HasUser(p)'
             /\ \A q \in AuthRequests :
                  /\ ownTenant'[q] /\ ownTenant'[p] /\ Slug(q)' = Slug(p)' => q = p
                  /\ apc'[q] = "commit_user" /\ apc'[p] = "commit_user" /\ account'[q] = account'[p] => q = p
  BY <1>1, <1>3, <1>8, <1>9, <1>10 DEF SessionInv, AccountInv
<1> QED BY <1>5, <1>6, <1>7, <1>11 DEF AccountInv, AccountsAreWhole


LEMMA InitSessions == SessionsInit => SessionInv
<1> SUFFICES ASSUME SessionsInit PROVE SessionInv
  OBVIOUS
<1>1. SessionsTypeOK
  <2>1. (CHOOSE e \in Slugs \X Emails : TRUE) \in Slugs \X Emails
    <3>1. PICK a \in Slugs, b \in Emails : TRUE
      BY SessionsAssumption DEF SessionsAssumption
    <3>2. <<a, b>> \in Slugs \X Emails
      BY <3>1
    <3> QED BY <3>2
  <2>2. authFaults \in 0 .. MaxAuthFaults
    BY SessionsAssumption DEF SessionsAssumption, SessionsInit
  <2>3. ownTenant \in [AuthRequests -> BOOLEAN]
    BY DEF SessionsInit
  <2> QED BY <2>1, <2>2, <2>3 DEF SessionsInit, SessionsTypeOK
<1>2. TokenInv
  BY DEF SessionsInit, TokenInv, Presents, HasSpent
<1>3. AccountInv
  BY DEF SessionsInit, AccountInv, AccountsAreWhole, HasTenant
<1> QED BY <1>1, <1>2, <1>3 DEF SessionInv

LEMMA NextSessions == SessionInv /\ [SessionsNext]_sessionVars => SessionInv'
<1> SUFFICES ASSUME SessionInv, [SessionsNext]_sessionVars PROVE SessionInv'
  OBVIOUS
<1>1. ASSUME NEW r \in AuthRequests, SessionStep(r) PROVE SessionInv'
  BY <1>1, TypeKeeps, TokensKeep, AccountsKeepOpen, AccountsKeepCommit DEF SessionInv
<1>2. CASE UNCHANGED sessionVars
  <2>1. SessionsTypeOK' /\ TokenInv'
    BY <1>2 DEF sessionVars, rowVars, bodyVars, SessionInv, SessionsTypeOK, TokenInv, Presents, HasSpent
  <2>2. ASSUME NEW q \in AuthRequests
        PROVE  /\ HasTenant(q)' <=> HasTenant(q)
               /\ HasUser(q)' <=> HasUser(q)
               /\ Slug(q)' = Slug(q)
    <3>1. UNCHANGED <<tenants, users>> /\ account'[q] = account[q]
      BY <1>2 DEF sessionVars, rowVars, bodyVars
    <3> QED BY <3>1, SameRows
  <2>3. UNCHANGED <<tenants, users, account, apc, ownTenant>>
    BY <1>2 DEF sessionVars, rowVars, bodyVars
  <2>4. AccountInv'
    <3>1. AccountsAreWhole'
      BY <2>3 DEF SessionInv, AccountInv, AccountsAreWhole
    <3>2. ASSUME NEW p \in AuthRequests
          PROVE /\ ownTenant'[p] => ~HasTenant(p)' /\ apc'[p] \in {"find_user", "insert_user", "commit_user"}
                /\ apc'[p] \in {"find_user", "insert_user", "commit_user"} => ownTenant'[p] \/ HasTenant(p)'
                /\ apc'[p] = "commit_user" => ~HasUser(p)'
      BY <2>2, <2>3 DEF SessionInv, AccountInv
    <3>3. ASSUME NEW p \in AuthRequests, NEW q \in AuthRequests
          PROVE /\ ownTenant'[q] /\ ownTenant'[p] /\ Slug(q)' = Slug(p)' => q = p
                /\ apc'[q] = "commit_user" /\ apc'[p] = "commit_user" /\ account'[q] = account'[p] => q = p
      BY <2>2, <2>3 DEF SessionInv, AccountInv
    <3> QED BY <3>1, <3>2, <3>3 DEF AccountInv
  <2> QED BY <2>1, <2>4 DEF SessionInv
<1> QED BY <1>1, <1>2 DEF SessionsNext, SessionStep

\* The places of the requests of auth.py, their open transactions, the
\* committed rows and the tokens always stand as SessionInv says.
THEOREM SessionsAreInductive == SessionsSpec => []SessionInv
BY InitSessions, NextSessions, PTL DEF SessionsSpec

\* One tenant per slug, one user per address, no user without its tenant and no
\* tenant without a user, for any number of registrations and logins at once.
THEOREM AccountsStayWhole == SessionsSpec => []AccountsAreWhole
<1>1. SessionInv => AccountsAreWhole
  BY DEF SessionInv, AccountInv
<1> QED BY SessionsAreInductive, <1>1, PTL

\* A refresh that gave out a token had read its own before any request that
\* spent the same token ended.
THEOREM TokensAreSpentOnce == SessionsSpec => []TokensAreSpent
<1>1. SessionInv => TokensAreSpent
  BY DEF SessionInv, TokenInv, TokensAreSpent, Presents, HasSpent
<1> QED BY SessionsAreInductive, <1>1, PTL

-----------------------------------------------------------------------------
(***************************************************************************)
(* Startup.  However many containers and processes start, die and start    *)
(* again, the schema is migrated once and a process serves only over       *)
(* complete stores.                                                        *)
(***************************************************************************)
\* Only an API container upgrades, one at a time and before the schema is
\* there; one that has booted has seen the schema.
MigrationInv ==
  /\ MigratedOnce
  /\ \A c \in Containers :
       /\ cpc[c] \in {"upgrade", "commit"} => c \in ApiContainers
       /\ cpc[c] = "commit" => ~schema /\ \A d \in Containers : cpc[d] = "commit" => d = c
       /\ cpc[c] = "booted" /\ c \in ApiContainers => schema

Ready(col) == col \in collections /\ (swallowed \/ col \in indexes)

\* What a process has behind it at each place of its boot.
BootInv(p) ==
  /\ ppc[p] # "off" => cpc[p[1]] = "booted"
  /\ ppc[p] \in {"look", "create", "index", "serving"} /\ p[1] \in ApiContainers => bucket
  /\ nth[p] = 2 => Ready("documents")
  /\ ppc[p] = "index" => At(p) \in collections
  /\ ppc[p] = "serving" => Ready("documents") /\ Ready("memory")

StartupInv == StartupTypeOK /\ MigrationInv /\ \A p \in Boots : BootInv(p)

\* Every process belongs to a container.
LEMMA BootsHaveContainers == \A p \in Boots : p[1] \in Containers
BY StartupAssumption DEF StartupAssumption, Containers

LEMMA InitStartup == StartupInit => StartupInv
<1> SUFFICES ASSUME StartupInit PROVE StartupInv
  OBVIOUS
<1>1. StartupTypeOK
  <2>1. schema \in BOOLEAN /\ bucket \in BOOLEAN /\ swallowed \in BOOLEAN
    BY DEF StartupInit
  <2>2. applied \in Nat /\ startFaults \in 0 .. MaxStartFaults
    BY StartupAssumption DEF StartupAssumption, StartupInit
  <2>3. /\ collections \in SUBSET {"documents", "memory"} /\ indexes \in SUBSET {"documents", "memory"}
        /\ cpc \in [Containers -> {"start", "upgrade", "commit", "booted", "down"}]
        /\ ppc \in [Boots -> {"off", "bucket", "make", "look", "create", "index", "serving"}]
        /\ nth \in [Boots -> 1 .. 2]
    BY DEF StartupInit
  <2> QED BY <2>1, <2>2, <2>3 DEF StartupTypeOK
<1>2. MigrationInv
  BY DEF StartupInit, MigrationInv, MigratedOnce
<1>3. ASSUME NEW p \in Boots PROVE BootInv(p)
  BY BootsHaveContainers DEF StartupInit, BootInv
<1> QED BY <1>1, <1>2, <1>3 DEF StartupInv

\* A step of a container, or its death, keeps the invariant.
LEMMA ContainerKeeps ==
  ASSUME StartupInv, NEW c \in Containers, ContainerStep(c) \/ ContainerDies(c)
  PROVE  StartupInv'
<1> USE StartupAssumption, BootsHaveContainers DEF StartupAssumption
<1>1. CASE ReadVersion(c)
  <2>1. StartupTypeOK'
    BY <1>1 DEF StartupInv, StartupTypeOK, ReadVersion, Boot, To, AllOf, stores
  <2>2. MigrationInv'
    BY <1>1 DEF StartupInv, StartupTypeOK, MigrationInv, MigratedOnce, ReadVersion, Boot, To,
       AllOf, stores
  <2>3. ASSUME NEW p \in Boots PROVE BootInv(p)'
    BY <1>1 DEF StartupInv, StartupTypeOK, MigrationInv, BootInv, Ready, At, Collections,
       ReadVersion, Boot, To, AllOf, stores
  <2> QED BY <2>1, <2>2, <2>3 DEF StartupInv
<1>2. CASE StartWorker(c)
  <2>1. StartupTypeOK'
    BY <1>2 DEF StartupInv, StartupTypeOK, StartWorker, Boot, To, AllOf, stores
  <2>2. MigrationInv'
    BY <1>2 DEF StartupInv, StartupTypeOK, MigrationInv, MigratedOnce, StartWorker, Boot, To,
       AllOf, stores
  <2>3. ASSUME NEW p \in Boots PROVE BootInv(p)'
    BY <1>2 DEF StartupInv, StartupTypeOK, MigrationInv, BootInv, Ready, At, Collections,
       StartWorker, Boot, To, AllOf, stores
  <2> QED BY <2>1, <2>2, <2>3 DEF StartupInv
<1>3. CASE Upgrade(c)
  <2>1. StartupTypeOK'
    BY <1>3 DEF StartupInv, StartupTypeOK, Upgrade, NobodyUpgrades, To, stores
  <2>2. MigrationInv'
    BY <1>3 DEF StartupInv, StartupTypeOK, MigrationInv, MigratedOnce, Upgrade, NobodyUpgrades,
       To, stores
  <2>3. ASSUME NEW p \in Boots PROVE BootInv(p)'
    BY <1>3 DEF StartupInv, StartupTypeOK, MigrationInv, BootInv, Ready, At, Collections,
       Upgrade, NobodyUpgrades, To, stores
  <2> QED BY <2>1, <2>2, <2>3 DEF StartupInv
<1>4. CASE UpgradeConflict(c)
  <2>1. StartupTypeOK'
    BY <1>4 DEF StartupInv, StartupTypeOK, UpgradeConflict, Down, To, AllOf, FirstOf, stores
  <2>2. MigrationInv'
    BY <1>4 DEF StartupInv, StartupTypeOK, MigrationInv, MigratedOnce, UpgradeConflict, Down, To,
       AllOf, FirstOf, stores
  <2>3. ASSUME NEW p \in Boots PROVE BootInv(p)'
    BY <1>4 DEF StartupInv, StartupTypeOK, MigrationInv, BootInv, Ready, At, Collections,
       UpgradeConflict, Down, To, AllOf, FirstOf, stores
  <2> QED BY <2>1, <2>2, <2>3 DEF StartupInv
<1>5. CASE CommitUpgrade(c)
  <2>1. StartupTypeOK'
    BY <1>5 DEF StartupInv, StartupTypeOK, CommitUpgrade, Boot, To, AllOf
  <2>2. MigrationInv'
    BY <1>5 DEF StartupInv, StartupTypeOK, MigrationInv, MigratedOnce, CommitUpgrade, Boot, To, AllOf
  <2>3. ASSUME NEW p \in Boots PROVE BootInv(p)'
    BY <1>5 DEF StartupInv, StartupTypeOK, MigrationInv, BootInv, Ready, At, Collections,
       CommitUpgrade, Boot, To, AllOf
  <2> QED BY <2>1, <2>2, <2>3 DEF StartupInv
<1>6. CASE Restart(c)
  <2>1. StartupTypeOK'
    BY <1>6 DEF StartupInv, StartupTypeOK, Restart, To, stores
  <2>2. MigrationInv'
    BY <1>6 DEF StartupInv, StartupTypeOK, MigrationInv, MigratedOnce, Restart, To, stores
  <2>3. ASSUME NEW p \in Boots PROVE BootInv(p)'
    BY <1>6 DEF StartupInv, StartupTypeOK, MigrationInv, BootInv, Ready, At, Collections,
       Restart, To, stores
  <2> QED BY <2>1, <2>2, <2>3 DEF StartupInv
<1>7. CASE ContainerDies(c)
  <2>1. StartupTypeOK'
    BY <1>7 DEF StartupInv, StartupTypeOK, ContainerDies, Down, To, AllOf, FirstOf, stores
  <2>2. MigrationInv'
    BY <1>7 DEF StartupInv, StartupTypeOK, MigrationInv, MigratedOnce, ContainerDies, Down, To,
       AllOf, FirstOf, stores
  <2>3. ASSUME NEW p \in Boots PROVE BootInv(p)'
    BY <1>7 DEF StartupInv, StartupTypeOK, MigrationInv, BootInv, Ready, At, Collections,
       ContainerDies, Down, To, AllOf, FirstOf, stores
  <2> QED BY <2>1, <2>2, <2>3 DEF StartupInv
<1> QED BY <1>1, <1>2, <1>3, <1>4, <1>5, <1>6, <1>7 DEF ContainerStep

\* A container that goes down takes nothing of the stores with it.
LEMMA DownKeeps ==
  ASSUME StartupInv, NEW c \in Containers, Down(c), UNCHANGED <<stores, swallowed>>,
         startFaults' \in 0 .. MaxStartFaults
  PROVE  StartupInv'
<1>1. StartupTypeOK' /\ MigrationInv'
  BY DEF StartupInv, StartupTypeOK, MigrationInv, MigratedOnce, Down, To, AllOf, FirstOf, stores
<1>2. ASSUME NEW p \in Boots PROVE BootInv(p)'
  BY BootsHaveContainers DEF StartupInv, StartupTypeOK, MigrationInv, MigratedOnce, BootInv,
     Ready, At, Collections,
     Down, To, AllOf, FirstOf, stores
<1> QED BY <1>1, <1>2 DEF StartupInv

\* A step of a process that boots keeps the invariant.
LEMMA BootKeeps ==
  ASSUME StartupInv, NEW q \in Boots, BootStep(q)
  PROVE  StartupInv'
<1> USE StartupAssumption, BootsHaveContainers DEF StartupAssumption
<1>1. CASE CheckBucket(q)
  <2>1. StartupTypeOK'
    BY <1>1 DEF StartupInv, StartupTypeOK, CheckBucket, Goes, stores
  <2>2. MigrationInv'
    BY <1>1 DEF StartupInv, StartupTypeOK, MigrationInv, MigratedOnce, CheckBucket, Goes, stores
  <2>3. ASSUME NEW p \in Boots PROVE BootInv(p)'
    BY <1>1 DEF StartupInv, StartupTypeOK, MigrationInv, BootInv, Ready, At, Collections,
       CheckBucket, Goes, stores
  <2> QED BY <2>1, <2>2, <2>3 DEF StartupInv
<1>2. CASE MakeBucket(q)
  <2>1. CASE ~bucket /\ bucket' = TRUE /\ Goes(q, "make", "look") /\ UNCHANGED <<cpc, nth>>
    <3>1. StartupTypeOK'
      BY <1>2, <2>1 DEF StartupInv, StartupTypeOK, MakeBucket, Goes
    <3>2. MigrationInv'
      BY <1>2, <2>1 DEF StartupInv, StartupTypeOK, MigrationInv, MigratedOnce, MakeBucket, Goes
    <3>3. ASSUME NEW p \in Boots PROVE BootInv(p)'
      BY <1>2, <2>1 DEF StartupInv, StartupTypeOK, MigrationInv, BootInv, Ready, At, Collections,
         MakeBucket, Goes
    <3> QED BY <3>1, <3>2, <3>3 DEF StartupInv
  <2>2. CASE bucket /\ Down(q[1]) /\ UNCHANGED bucket
    BY <1>2, <2>2, DownKeeps DEF MakeBucket, stores, StartupInv, StartupTypeOK
  <2> QED BY <1>2, <2>1, <2>2 DEF MakeBucket
<1>3. CASE LookForCollection(q)
  <2>1. StartupTypeOK'
    BY <1>3 DEF StartupInv, StartupTypeOK, LookForCollection, Goes, stores
  <2>2. MigrationInv'
    BY <1>3 DEF StartupInv, StartupTypeOK, MigrationInv, MigratedOnce, LookForCollection, Goes, stores
  <2>3. ASSUME NEW p \in Boots PROVE BootInv(p)'
    BY <1>3 DEF StartupInv, StartupTypeOK, MigrationInv, BootInv, Ready, At, Collections,
       LookForCollection, Goes, stores
  <2> QED BY <2>1, <2>2, <2>3 DEF StartupInv
<1>4. CASE CreateCollection(q)
  <2>1. CASE /\ At(q) \notin collections /\ collections' = collections \cup {At(q)}
             /\ Goes(q, "create", "index") /\ UNCHANGED <<cpc, nth>>
    <3>1. StartupTypeOK'
      <4>1. At(q) \in {"documents", "memory"}
        BY DEF StartupInv, StartupTypeOK, At, Collections
      <4>2. collections' \in SUBSET {"documents", "memory"}
        BY <2>1, <4>1 DEF StartupInv, StartupTypeOK
      <4> QED BY <1>4, <2>1, <4>2 DEF StartupInv, StartupTypeOK, CreateCollection, Goes
    <3>2. MigrationInv'
      BY <1>4, <2>1 DEF StartupInv, StartupTypeOK, MigrationInv, MigratedOnce, CreateCollection, Goes
    <3>3. ASSUME NEW p \in Boots PROVE BootInv(p)'
      BY <1>4, <2>1 DEF StartupInv, StartupTypeOK, MigrationInv, BootInv, Ready, At, Collections,
         CreateCollection, Goes
    <3> QED BY <3>1, <3>2, <3>3 DEF StartupInv
  <2>2. CASE Down(q[1]) /\ UNCHANGED collections
    BY <1>4, <2>2, DownKeeps DEF CreateCollection, stores, StartupInv, StartupTypeOK
  <2> QED BY <1>4, <2>1, <2>2 DEF CreateCollection
<1>5. CASE IndexCollection(q)
  <2>0. At(q) \in {"documents", "memory"}
    BY DEF StartupInv, StartupTypeOK, At, Collections
  <2>1. StartupTypeOK' /\ MigrationInv'
    <3>1. StartupTypeOK'
      <4>1. swallowed' \in BOOLEAN /\ schema' \in BOOLEAN /\ bucket' \in BOOLEAN
        BY <1>5 DEF StartupInv, StartupTypeOK, IndexCollection
      <4>2. startFaults' \in 0 .. MaxStartFaults
        BY <1>5 DEF StartupInv, StartupTypeOK, IndexCollection
      <4>3. indexes' \in SUBSET {"documents", "memory"}
        BY <1>5, <2>0 DEF StartupInv, StartupTypeOK, IndexCollection
      <4> QED BY <1>5, <4>1, <4>2, <4>3 DEF StartupInv, StartupTypeOK, IndexCollection, Goes
    <3>2. MigrationInv'
      BY <1>5 DEF StartupInv, MigrationInv, MigratedOnce, IndexCollection, Goes
    <3> QED BY <3>1, <3>2
  <2>2. At(q) \in collections /\ (swallowed' \/ At(q) \in indexes')
    BY <1>5 DEF StartupInv, BootInv, IndexCollection, Goes
  <2>3. ASSUME NEW p \in Boots PROVE BootInv(p)'
    <3>1. CASE p = q /\ nth[q] = 1
      BY <1>5, <2>2, <3>1 DEF StartupInv, StartupTypeOK, MigrationInv, MigratedOnce, BootInv,
         Ready, At, Collections,
         IndexCollection, Goes
    <3>2. CASE p = q /\ nth[q] = 2
      BY <1>5, <2>2, <3>2 DEF StartupInv, StartupTypeOK, MigrationInv, MigratedOnce, BootInv,
         Ready, At, Collections,
         IndexCollection, Goes
    <3>3. CASE p # q
      BY <1>5, <3>3 DEF StartupInv, StartupTypeOK, MigrationInv, MigratedOnce, BootInv, Ready,
         At, Collections,
         IndexCollection, Goes
    <3> QED BY <3>1, <3>2, <3>3 DEF StartupInv, StartupTypeOK
  <2> QED BY <2>1, <2>3 DEF StartupInv
<1> QED BY <1>1, <1>2, <1>3, <1>4, <1>5 DEF BootStep

LEMMA NextStartup == StartupInv /\ [StartupNext]_startupVars => StartupInv'
<1> SUFFICES ASSUME StartupInv, [StartupNext]_startupVars PROVE StartupInv'
  OBVIOUS
<1>1. CASE InitMinio
  <2>1. StartupTypeOK'
    BY <1>1 DEF StartupInv, StartupTypeOK, InitMinio
  <2>2. MigrationInv'
    BY <1>1 DEF StartupInv, StartupTypeOK, MigrationInv, MigratedOnce, InitMinio
  <2>3. ASSUME NEW p \in Boots PROVE BootInv(p)'
    BY <1>1 DEF StartupInv, StartupTypeOK, MigrationInv, BootInv, Ready, At, Collections, InitMinio
  <2> QED BY <2>1, <2>2, <2>3 DEF StartupInv
<1>2. ASSUME NEW c \in Containers, ContainerStep(c) \/ ContainerDies(c) PROVE StartupInv'
  BY <1>2, ContainerKeeps
<1>3. ASSUME NEW p \in Boots, BootStep(p) PROVE StartupInv'
  BY <1>3, BootKeeps
<1>4. CASE UNCHANGED startupVars
  <2>1. StartupTypeOK'
    BY <1>4 DEF StartupInv, StartupTypeOK, startupVars, stores
  <2>2. MigrationInv'
    BY <1>4 DEF StartupInv, StartupTypeOK, MigrationInv, MigratedOnce, startupVars, stores
  <2>3. ASSUME NEW p \in Boots PROVE BootInv(p)'
    BY <1>4 DEF StartupInv, StartupTypeOK, MigrationInv, BootInv, Ready, At, Collections,
       startupVars, stores
  <2> QED BY <2>1, <2>2, <2>3 DEF StartupInv
<1> QED BY <1>1, <1>2, <1>3, <1>4 DEF StartupNext

\* The places of the containers and their processes always agree with the
\* schema, the bucket and the collections as StartupInv says.
THEOREM StartupIsInductive == StartupSpec => []StartupInv
BY InitStartup, NextStartup, PTL DEF StartupSpec

\* However many containers find no schema, and although nothing locks them out,
\* the migration is committed once.
THEOREM MigrationsAreCommittedOnce == StartupSpec => []MigratedOnce
<1>1. StartupInv => MigratedOnce
  BY DEF StartupInv, MigrationInv
<1> QED BY StartupIsInductive, <1>1, PTL

\* A process serves only over complete stores, whatever raced or died before.
THEOREM ServingProcessesAreReady == StartupSpec => []ServingIsReady
<1>1. StartupInv => ServingIsReady
  <2> SUFFICES ASSUME StartupInv, NEW p \in Boots, ppc[p] = "serving"
               PROVE  /\ collections = {"documents", "memory"}
                      /\ swallowed \/ indexes = collections
                      /\ p[1] \in ApiContainers => schema /\ bucket
    BY DEF ServingIsReady
  <2>1. Ready("documents") /\ Ready("memory")
    BY DEF StartupInv, BootInv
  <2>2. collections = {"documents", "memory"} /\ (swallowed \/ indexes = collections)
    <3>1. collections \subseteq {"documents", "memory"} /\ indexes \subseteq {"documents", "memory"}
      BY DEF StartupInv, StartupTypeOK
    <3>2. "documents" \in collections /\ "memory" \in collections
      BY <2>1 DEF Ready
    <3>3. collections = {"documents", "memory"}
      BY <3>1, <3>2
    <3>4. ASSUME ~swallowed PROVE indexes = {"documents", "memory"}
      <4>1. "documents" \in indexes /\ "memory" \in indexes
        BY <2>1, <3>4 DEF Ready
      <4> QED BY <3>1, <4>1
    <3> QED BY <3>3, <3>4, Zenon
  <2>3. p[1] \in ApiContainers => schema /\ bucket
    BY BootsHaveContainers DEF StartupInv, MigrationInv, BootInv
  <2> QED BY <2>2, <2>3
<1> QED BY StartupIsInductive, <1>1, PTL

-----------------------------------------------------------------------------
(***************************************************************************)
(* Services.  A step of one part leaves the variables of the others alone, *)
(* so a behaviour of Services is a behaviour of every component, and what  *)
(* is proved of a component holds of Services.                             *)
(***************************************************************************)
LEMMA InitOfServices ==
  ServicesInit => /\ LimiterInit /\ SessionsInit /\ StartupInit /\ FactsInit
                  /\ ProviderInit /\ RetrievalInit /\ ChunkerInit /\ AnswerInit
BY DEF ServicesInit

LEMMA StepOfServices ==
  [ServicesNext]_servicesVars =>
    /\ [LimiterNext]_limiterVars
    /\ [SessionsNext]_sessionVars
    /\ [StartupNext]_startupVars
    /\ [FactsNext]_factVars
    /\ [ProviderNext]_providerVars
    /\ [RetrievalNext]_retrievalVars
    /\ [ChunkerNext]_chunkVars
    /\ [AnswerNext]_streamVars
<1>1. CASE UNCHANGED servicesVars
  BY <1>1 DEF servicesVars
<1>2. CASE Rest("limiter") /\ LimiterNext
  BY <1>2 DEF Rest
<1>3. CASE Rest("sessions") /\ SessionsNext
  BY <1>3 DEF Rest
<1>4. CASE Rest("startup") /\ StartupNext
  BY <1>4 DEF Rest
<1>5. CASE Rest("provider") /\ ProviderNext
  BY <1>5 DEF Rest
<1>6. CASE Rest("retrieval") /\ RetrievalNext
  BY <1>6 DEF Rest
<1>7. CASE Rest("chunker") /\ ChunkerNext
  BY <1>7 DEF Rest
<1>8. CASE Rest("answer") /\ AnswerNext
  BY <1>8 DEF Rest
<1>9. CASE Rest("facts") /\ FactsNext
  BY <1>9 DEF Rest
<1> QED BY <1>1, <1>2, <1>3, <1>4, <1>5, <1>6, <1>7, <1>8, <1>9 DEF ServicesNext

PartOK == part \in Parts

LEMMA PartStays ==
  /\ ServicesInit => PartOK
  /\ PartOK /\ [ServicesNext]_servicesVars => PartOK'
BY DEF PartOK, Parts, ServicesInit, ServicesNext, Rest, servicesVars

\* Every behaviour of Services is a behaviour of each component that it runs.
THEOREM ServicesIsEachPart ==
  ServicesSpec => /\ LimiterSpec /\ SessionsSpec /\ StartupSpec /\ FactsSpec
                  /\ ProviderSpec /\ RetrievalSpec /\ ChunkerSpec /\ AnswerSpec
BY InitOfServices, StepOfServices, PTL
   DEF ServicesSpec, LimiterSpec, SessionsSpec, StartupSpec, FactsSpec, ProviderSpec,
       RetrievalSpec, ChunkerSpec, AnswerSpec

\* Whichever part runs, every variable of every component keeps its type.
THEOREM ServicesTyped == ServicesSpec => []ServicesTypeOK
<1>1. ServicesSpec => []PartOK
  BY PartStays, PTL DEF ServicesSpec
<1>2. ServicesSpec => [](LimiterInv /\ SessionInv /\ StartupInv /\ FactInv /\ AnswerInv)
  BY ServicesIsEachPart, LimiterIsInductive, SessionsAreInductive,
     StartupIsInductive, FactsAreInductive, AnswerIsInductive, PTL
<1>3. ServicesSpec => [](ProviderTypeOK /\ RetrievalTypeOK /\ ChunkerTypeOK)
  BY ServicesIsEachPart, ProviderTyped, RetrievalTyped, ChunkerTyped, PTL
<1>4. /\ PartOK
      /\ LimiterInv /\ SessionInv /\ StartupInv /\ FactInv /\ AnswerInv
      /\ ProviderTypeOK /\ RetrievalTypeOK /\ ChunkerTypeOK
      => ServicesTypeOK
  BY DEF PartOK, ServicesTypeOK, LimiterInv, SessionInv, StartupInv, FactInv, AnswerInv
<1> QED BY <1>1, <1>2, <1>3, <1>4, PTL
=============================================================================

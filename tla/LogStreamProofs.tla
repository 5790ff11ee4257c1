---------------------------- MODULE LogStreamProofs ----------------------------
(* Proofs about module LogStream, for every program text, pattern and      *)
(* bound.                                                                  *)
EXTENDS LogStream, SequenceTheorems, FiniteSetTheorems, WellFoundedInduction, TLAPS

--------------------------------------------------------------------------------
(* Numbers and sequences. *)

LEMMA LeastExists ==
  ASSUME NEW T \in SUBSET Nat, T # {}
  PROVE  \E x \in T : \A y \in T : x <= y
<1>1. PICK x \in T : \A y \in T : ~(<<y, x>> \in OpToRel(<, Nat))
  BY WFMin, NatLessThanWellFounded, Zenon
<1>2. \A y \in T : ~(y < x)
  BY <1>1, Zenon DEF OpToRel
<1> QED BY <1>2

LEMMA MinIs ==
  ASSUME NEW T \in SUBSET Nat, T # {}
  PROVE  Min(T) \in T /\ \A y \in T : Min(T) <= y
BY LeastExists DEF Min

LEMMA MaxIs ==
  ASSUME NEW T \in SUBSET Nat, T # {}, NEW b \in Nat, \A y \in T : y <= b
  PROVE  Max(T) \in T /\ \A y \in T : Max(T) >= y
<1> DEFINE U == {n \in Nat : \E y \in T : n = b - y}
<1>1. \A y \in T : b - y \in U
  OBVIOUS
<1>2. U \in SUBSET Nat /\ U # {}
  BY <1>1
<1>3. PICK n \in U : \A m \in U : n <= m
  BY <1>2, LeastExists
<1>4. PICK x \in T : n = b - x
  BY <1>3
<1>5. \A y \in T : x >= y
  BY <1>1, <1>3, <1>4
<1> QED BY <1>5 DEF Max

\* The symbols of s behind m, up to n.
LEMMA Slice ==
  ASSUME NEW S, NEW s \in Seq(S), NEW m \in Nat, NEW n \in Nat, n <= Len(s)
  PROVE  /\ SubSeq(s, m + 1, n) \in Seq(S)
         /\ Len(SubSeq(s, m + 1, n)) = IF m <= n THEN n - m ELSE 0
         /\ \A j \in 1 .. n - m : SubSeq(s, m + 1, n)[j] = s[m + j]
<1>1. Len(s) \in Nat
  BY LenProperties
<1>2. \A i \in m + 1 .. n : s[i] \in S
  BY <1>1, ElementOfSeq
<1>3. /\ SubSeq(s, m + 1, n) \in Seq(S)
      /\ Len(SubSeq(s, m + 1, n)) = IF m + 1 <= n THEN n - (m + 1) + 1 ELSE 0
      /\ \A j \in 1 .. n - (m + 1) + 1 : SubSeq(s, m + 1, n)[j] = s[m + 1 + j - 1]
  BY <1>2, SubSeqProperties
<1>4. \A j \in 1 .. n - m : m + 1 + j - 1 = m + j /\ j \in 1 .. n - (m + 1) + 1
  OBVIOUS
<1>5. n - (m + 1) + 1 = n - m /\ (m <= n <=> (m + 1 <= n \/ m = n))
  OBVIOUS
<1> QED BY <1>3, <1>4, <1>5

\* A slice is the same in a sequence that has grown.
LEMMA SliceStays ==
  ASSUME NEW S, NEW s \in Seq(S), NEW t \in Seq(S), Len(s) <= Len(t),
         \A j \in 1..Len(s) : t[j] = s[j],
         NEW m \in Nat, NEW n \in Nat, n <= Len(s)
  PROVE  SubSeq(t, m + 1, n) = SubSeq(s, m + 1, n)
<1>1. Len(s) \in Nat /\ Len(t) \in Nat
  BY LenProperties
<1>2. n <= Len(t)
  BY <1>1
<1> DEFINE a == SubSeq(s, m + 1, n)
           b == SubSeq(t, m + 1, n)
<1>3. /\ a \in Seq(S) /\ Len(a) = IF m <= n THEN n - m ELSE 0
      /\ \A j \in 1 .. n - m : a[j] = s[m + j]
  BY Slice
<1>4. /\ b \in Seq(S) /\ Len(b) = IF m <= n THEN n - m ELSE 0
      /\ \A j \in 1 .. n - m : b[j] = t[m + j]
  BY <1>2, Slice
<1> HIDE DEF a, b
<1>5. ASSUME NEW j \in 1..Len(a) PROVE b[j] = a[j]
  <2>1. j \in 1 .. n - m /\ m + j \in 1..Len(s)
    BY <1>1, <1>3
  <2> QED BY <1>3, <1>4, <2>1
<1>6. b = a
  BY <1>3, <1>4, <1>5, SeqEqual
<1> QED BY <1>6 DEF a, b

\* A text occurs where it is a part.
LEMMA OccursIsPart ==
  ASSUME NEW S, NEW p \in Seq(S), NEW t \in Seq(S)
  PROVE  Occurs(p, t) <=> \E o \in 0..Len(t) : PartOf(p, t, o)
<1>1. Len(p) \in Nat /\ Len(t) \in Nat
  BY LenProperties
<1>2. ASSUME NEW o \in Nat, o + Len(p) <= Len(t)
      PROVE  SubSeq(t, o + 1, o + Len(p)) = p <=> PartOf(p, t, o)
  <2> DEFINE a == SubSeq(t, o + 1, o + Len(p))
             n == o + Len(p)
  <2>1. n \in Nat /\ n <= Len(t) /\ o <= n /\ n - o = Len(p)
    BY <1>1, <1>2
  <2> HIDE DEF n
  <2>2. /\ SubSeq(t, o + 1, n) \in Seq(S)
        /\ Len(SubSeq(t, o + 1, n)) = IF o <= n THEN n - o ELSE 0
        /\ \A j \in 1 .. n - o : SubSeq(t, o + 1, n)[j] = t[o + j]
    BY <2>1, Slice
  <2>3. a \in Seq(S) /\ Len(a) = Len(p) /\ \A j \in 1..Len(p) : a[j] = t[o + j]
    BY <2>1, <2>2 DEF n
  <2> HIDE DEF a
  <2>4. a = p <=> \A j \in 1..Len(p) : p[j] = t[o + j]
    BY <2>3, SeqEqual
  <2> QED BY <1>2, <2>4 DEF a, PartOf
<1>3. ASSUME Occurs(p, t) PROVE \E o \in 0..Len(t) : PartOf(p, t, o)
  <2>1. PICK o \in 0..Len(t) - Len(p) : SubSeq(t, o + 1, o + Len(p)) = p
    BY <1>3 DEF Occurs
  <2>2. o \in Nat /\ o + Len(p) <= Len(t) /\ o \in 0..Len(t)
    BY <1>1
  <2> QED BY <1>2, <2>1, <2>2
<1>4. ASSUME NEW o \in 0..Len(t), PartOf(p, t, o) PROVE Occurs(p, t)
  <2>1. o \in Nat /\ o + Len(p) <= Len(t) /\ o \in 0..Len(t) - Len(p)
    BY <1>1, <1>4 DEF PartOf
  <2> QED BY <1>2, <1>4, <2>1 DEF Occurs
<1> QED BY <1>3, <1>4

\* A part of a part is a part.
LEMMA PartOfPart ==
  ASSUME NEW S, NEW p \in Seq(S), NEW t \in Seq(S), NEW l \in Seq(S),
         NEW a \in Nat, NEW b \in Nat, PartOf(p, t, a), PartOf(t, l, b)
  PROVE  PartOf(p, l, b + a) /\ b + a \in 0..Len(l)
<1>1. Len(p) \in Nat /\ Len(t) \in Nat /\ Len(l) \in Nat
  BY LenProperties
<1>2. ASSUME NEW j \in 1..Len(p) PROVE p[j] = l[b + a + j]
  <2>1. a + j \in 1..Len(t) /\ b + (a + j) = b + a + j
    BY <1>1 DEF PartOf
  <2> QED BY <2>1 DEF PartOf
<1> QED BY <1>1, <1>2 DEF PartOf

--------------------------------------------------------------------------------
(* Matchers. *)

\* A prefix begins a text, a suffix ends it.
LEMMA PrefixIsPart ==
  ASSUME NEW S, NEW p \in Seq(S), NEW t \in Seq(S), IsPrefix(p, t)
  PROVE  PartOf(p, t, 0)
<1>1. Len(p) \in Nat /\ Len(t) \in Nat /\ Len(p) <= Len(t)
  BY LenProperties DEF IsPrefix
<1>2. SubSeq(p, 0 + 1, Len(p)) = SubSeq(t, 0 + 1, Len(p))
  BY DEF IsPrefix
<1>3. /\ \A j \in 1 .. Len(p) - 0 : SubSeq(p, 0 + 1, Len(p))[j] = p[0 + j]
      /\ \A j \in 1 .. Len(p) - 0 : SubSeq(t, 0 + 1, Len(p))[j] = t[0 + j]
  BY <1>1, Slice
<1>4. \A j \in 1..Len(p) : p[j] = t[j]
  BY <1>1, <1>2, <1>3
<1> QED BY <1>1, <1>4 DEF PartOf

LEMMA ReverseIs ==
  ASSUME NEW S, NEW s \in Seq(S)
  PROVE  /\ Reverse(s) \in Seq(S) /\ Len(Reverse(s)) = Len(s)
         /\ \A j \in 1..Len(s) : Reverse(s)[j] = s[Len(s) - j + 1]
<1>1. Len(s) \in Nat
  BY LenProperties
<1>2. \A j \in 1..Len(s) : s[Len(s) - j + 1] \in S
  BY <1>1, ElementOfSeq
<1>3. Reverse(s) \in [1..Len(s) -> S]
  BY <1>2 DEF Reverse
<1>4. Reverse(s) \in Seq(S)
  BY <1>1, <1>3, SeqDef
<1>5. DOMAIN Reverse(s) = 1..Len(s) /\ DOMAIN Reverse(s) = 1..Len(Reverse(s))
      /\ Len(Reverse(s)) \in Nat
  BY <1>3, <1>4, LenProperties
<1> QED BY <1>1, <1>4, <1>5 DEF Reverse

LEMMA SuffixIsPart ==
  ASSUME NEW S, NEW p \in Seq(S), NEW t \in Seq(S), IsSuffix(p, t)
  PROVE  Len(t) - Len(p) \in 0..Len(t) /\ PartOf(p, t, Len(t) - Len(p))
<1> DEFINE k == Len(p)
           m == Len(t)
<1>1. k \in Nat /\ m \in Nat
  BY LenProperties
<1>2. /\ Reverse(p) \in Seq(S) /\ Len(Reverse(p)) = k
      /\ \A j \in 1..k : Reverse(p)[j] = p[k - j + 1]
  BY ReverseIs
<1>3. /\ Reverse(t) \in Seq(S) /\ Len(Reverse(t)) = m
      /\ \A j \in 1..m : Reverse(t)[j] = t[m - j + 1]
  BY ReverseIs
<1>4. PartOf(Reverse(p), Reverse(t), 0)
  BY <1>2, <1>3, PrefixIsPart DEF IsSuffix
<1>5. k <= m /\ \A j \in 1..k : Reverse(p)[j] = Reverse(t)[j]
  BY <1>1, <1>2, <1>3, <1>4 DEF PartOf
<1>6. ASSUME NEW j \in 1..k PROVE p[j] = t[m - k + j]
  <2>0. k - j + 1 \in 1..k
    BY <1>1
  <2>1. PICK i \in 1..k : i = k - j + 1
    BY <2>0
  <2>2. i \in 1..m
    BY <1>1, <1>5
  <2>3. p[k - i + 1] = t[m - i + 1]
    BY <1>2, <1>3, <1>5, <2>2
  <2>4. k - i + 1 = j /\ m - i + 1 = m - k + j
    BY <1>1, <2>1
  <2> QED BY <2>3, <2>4
<1> QED BY <1>1, <1>5, <1>6 DEF PartOf

\* Trimming takes a slice.
LEMMA TrimIsPart ==
  ASSUME NEW S, NEW t \in Seq(S)
  PROVE  \E o \in 0..Len(t) : PartOf(TrimSpace(t), t, o)
<1> DEFINE solid == {n \in DOMAIN t : t[n] # "sp"}
<1>1. Len(t) \in Nat /\ DOMAIN t = 1..Len(t)
  BY LenProperties
<1>2. CASE solid = {}
  <2>1. TrimSpace(t) = <<>>
    BY <1>2 DEF TrimSpace
  <2> QED BY <1>1, <2>1 DEF PartOf
<1>3. CASE solid # {}
  <2>1. solid \in SUBSET Nat /\ \A n \in solid : n <= Len(t)
    BY <1>1
  <2>2. /\ Min(solid) \in solid /\ Max(solid) \in solid
        /\ Min(solid) <= Max(solid)
    BY <1>1, <1>3, <2>1, MinIs, MaxIs
  <2>3. TrimSpace(t) = SubSeq(t, Min(solid), Max(solid))
    BY <1>3 DEF TrimSpace
  <2> DEFINE m == Min(solid) - 1
             n == Max(solid)
  <2>4. m \in Nat /\ n \in Nat /\ n <= Len(t) /\ m < n /\ Min(solid) = m + 1
    BY <1>1, <2>2
  <2>5. TrimSpace(t) = SubSeq(t, m + 1, n)
    BY <2>3, <2>4
  <2> HIDE DEF m, n, solid
  <2>6. /\ Len(SubSeq(t, m + 1, n)) = n - m
        /\ \A j \in 1 .. n - m : SubSeq(t, m + 1, n)[j] = t[m + j]
    BY <2>4, Slice
  <2>7. m \in 0..Len(t)
    BY <1>1, <2>4
  <2>8. /\ Len(TrimSpace(t)) = n - m
        /\ \A j \in 1 .. n - m : TrimSpace(t)[j] = t[m + j]
    BY <2>5, <2>6, Zenon
  <2>9. m + (n - m) <= Len(t)
    BY <1>1, <2>4
  <2>10. PartOf(TrimSpace(t), t, m)
    BY <2>8, <2>9 DEF PartOf
  <2> QED BY <2>7, <2>10
<1> QED BY <1>2, <1>3

\* The text before the last symbol.
LEMMA FrontIsPart ==
  ASSUME NEW S, NEW p \in Seq(S), NEW t \in Seq(S), t # <<>>, Occurs(p, Front(t))
  PROVE  \E o \in 0..Len(t) : PartOf(p, t, o)
<1>0. Len(t) \in Nat /\ Len(p) \in Nat
  BY LenProperties
<1>1. Len(t) - 1 \in Nat
  <2>1. Len(t) \in Nat \ {0}
    BY EmptySeq
  <2> QED BY <2>1
<1>2. PICK n \in Nat : n = Len(t) - 1 /\ n <= Len(t)
  <2>1. Len(t) - 1 = Len(t) - 1 /\ Len(t) - 1 <= Len(t)
    BY <1>0
  <2> QED BY <1>1, <2>1
<1>3. Front(t) = SubSeq(t, 0 + 1, n)
  BY <1>2 DEF Front
<1>4. /\ Front(t) \in Seq(S) /\ Len(Front(t)) = n
      /\ \A j \in 1..n : Front(t)[j] = t[0 + j]
  <2>1. /\ SubSeq(t, 0 + 1, n) \in Seq(S)
        /\ Len(SubSeq(t, 0 + 1, n)) = IF 0 <= n THEN n - 0 ELSE 0
        /\ \A j \in 1 .. n - 0 : SubSeq(t, 0 + 1, n)[j] = t[0 + j]
    BY <1>2, Slice
  <2> QED BY <1>2, <1>3, <2>1
<1>5. PICK o \in 0..Len(Front(t)) : PartOf(p, Front(t), o)
  BY <1>4, OccursIsPart
<1>6. PartOf(Front(t), t, 0)
  BY <1>2, <1>4 DEF PartOf
<1>7. PartOf(p, t, 0 + o) /\ 0 + o \in 0..Len(t)
  BY <1>4, <1>5, <1>6, PartOfPart
<1> QED BY <1>7

\* A symbol of a text is a part of it.
LEMMA SymbolIsPart ==
  ASSUME NEW S, NEW t \in Seq(S), NEW i \in DOMAIN t
  PROVE  \E o \in 0..Len(t) : PartOf(<<t[i]>>, t, o)
<1>1. Len(t) \in Nat /\ DOMAIN t = 1..Len(t)
  BY LenProperties
<1>2. PICK o \in Nat : i = o + 1 /\ o \in 0..Len(t)
  <2>1. i - 1 \in Nat /\ i = (i - 1) + 1 /\ i - 1 \in 0..Len(t)
    BY <1>1
  <2> QED BY <2>1
<1>3. PartOf(<<t[i]>>, t, o)
  BY <1>1, <1>2 DEF PartOf
<1> QED BY <1>2, <1>3

\* Whatever AwaitOutput's matcher accepts has its literal texts (matcher.go).
LEMMA MatchesOccurs ==
  ASSUME NEW S, Pattern \in Seq(S), NEW line \in Seq(S), NEW k \in Kinds, Matches(k, line),
         NEW p \in Literals(k), p \in Seq(S)
  PROVE  Occurs(p, line)
<1>1. \E o \in 0..Len(line) : PartOf(p, line, o)
  <2>1. Len(line) \in Nat
    BY LenProperties
  <2>2. k # "gap" => p = Pattern
    BY DEF Literals
  <2>3. CASE k = "substring"
    BY <2>2, <2>3, OccursIsPart DEF Matches
  <2>4. CASE k = "exact"
    BY <2>2, <2>4, TrimIsPart DEF Matches
  <2>5. CASE k = "prefix"
    BY <2>1, <2>2, <2>5, PrefixIsPart DEF Matches
  <2>6. CASE k = "suffix"
    BY <2>2, <2>6, SuffixIsPart DEF Matches
  <2>7. CASE k = "capture"
    BY <2>2, <2>7, FrontIsPart DEF Matches
  <2>8. CASE k = "gap"
    <3>1. \E i \in DOMAIN line : p = <<line[i]>>
      BY <2>8 DEF Matches, Literals
    <3> QED BY <3>1, SymbolIsPart
  <2> QED BY <2>3, <2>4, <2>5, <2>6, <2>7, <2>8, LogStreamAssumption
<1> QED BY <1>1, OccursIsPart

--------------------------------------------------------------------------------
(* The invariants hold at first, and every step keeps them. *)

Typed == LogTypeOK /\ matchers = <<"every", kind>>

\* t is s and n times x behind it.
Extends(t, s, x, n) ==
  /\ Len(t) = Len(s) + n
  /\ \A j \in 1 .. Len(s) : t[j] = s[j]
  /\ \A j \in Len(s) + 1 .. Len(s) + n : t[j] = x

LEMMA CopiesAppended ==
  ASSUME NEW S, NEW s \in Seq(S), NEW x \in S, NEW n \in Nat
  PROVE  s \o Copies(x, n) \in Seq(S) /\ Extends(s \o Copies(x, n), s, x, n)
<1> DEFINE c == Copies(x, n)
<1>1. c \in [1..n -> S]
  BY DEF Copies
<1>2. c \in Seq(S) /\ Len(c) = n
  BY <1>1, SeqDef, LenProperties
<1>3. \A j \in 1..n : c[j] = x
  BY DEF Copies
<1> HIDE DEF c
<1>4. /\ s \o c \in Seq(S) /\ Len(s \o c) = Len(s) + Len(c)
      /\ \A i \in 1 .. Len(s) + Len(c) :
            (s \o c)[i] = IF i <= Len(s) THEN s[i] ELSE c[i - Len(s)]
  BY <1>2, ConcatProperties
<1>5. Len(s) \in Nat
  BY LenProperties
<1>6. ASSUME NEW j \in Len(s) + 1 .. Len(s) + n PROVE (s \o c)[j] = x
  <2>1. ~(j <= Len(s)) /\ j - Len(s) \in 1..n /\ j \in 1 .. Len(s) + Len(c)
    BY <1>2, <1>5
  <2> QED BY <1>3, <1>4, <2>1
<1>7. ASSUME NEW j \in 1 .. Len(s) PROVE (s \o c)[j] = s[j]
  <2>1. j <= Len(s) /\ j \in 1 .. Len(s) + Len(c)
    BY <1>2, <1>5
  <2> QED BY <1>4, <2>1
<1>8. Len(s \o c) = Len(s) + n
  BY <1>2, <1>4
<1> QED BY <1>4, <1>6, <1>7, <1>8 DEF c, Extends

\* A log with one more frame.
LEMMA FrameAppended ==
  ASSUME NEW l \in Seq(Symbols), NEW f \in Seq(Pieces \union {"nl"}), NEW g,
         g = l \o Header(f) \o f
  PROVE  /\ g \in Seq(Symbols) /\ Len(l) + Len(f) < Len(g)
         /\ \A j \in 1 .. Len(l) : g[j] = l[j]
         /\ g[Len(l) + 1] \in {"hd", "hdr"}
         /\ \A j \in Len(l) + 1 .. Len(g) - Len(f) : g[j] \in {"hd", "hdr", "nl"}
         /\ PartOf(f, g, Len(g) - Len(f))
<1> DEFINE h == Header(f)
           k == l \o h
<1>1. h \in Seq(Symbols) /\ Len(h) \in 1..2 /\ h[1] \in {"hd", "hdr"}
      /\ \A j \in 1..Len(h) : h[j] \in {"hd", "hdr", "nl"}
  <2>1. CASE f \in Ten
    <3>1. h = <<"hd", "nl">>
      BY <2>1 DEF Header
    <3> QED BY <3>1 DEF Symbols
  <2>2. CASE f \notin Ten
    <3>1. h = <<"hdr">>
      BY <2>2 DEF Header
    <3> QED BY <3>1 DEF Symbols
  <2> QED BY <2>1, <2>2
<1>2. Len(l) \in Nat /\ Len(f) \in Nat /\ f \in Seq(Symbols)
  <2>1. Pieces \union {"nl"} \subseteq Symbols
    BY DEF Symbols
  <2>2. \A i \in 1..Len(f) : f[i] \in Symbols
    BY <2>1, ElementOfSeq
  <2> QED BY <2>1, <2>2, LenProperties, SeqDef
<1> HIDE DEF h
<1>3. /\ k \in Seq(Symbols) /\ Len(k) = Len(l) + Len(h)
      /\ \A i \in 1 .. Len(l) + Len(h) :
            k[i] = IF i <= Len(l) THEN l[i] ELSE h[i - Len(l)]
  BY <1>1, ConcatProperties
<1>4. \A i \in 1..Len(l) : k[i] = l[i]
  BY <1>1, <1>2, <1>3
<1>5. ASSUME NEW i \in Len(l) + 1 .. Len(k)
      PROVE  k[i] = h[i - Len(l)] /\ i - Len(l) \in 1..Len(h)
  BY <1>1, <1>2, <1>3
<1>6. Len(l) + 1 \in Len(l) + 1 .. Len(k) /\ Len(l) + 1 - Len(l) = 1
  BY <1>1, <1>2, <1>3
<1>a. k \in Seq(Symbols) /\ f \in Seq(Symbols)
  BY <1>2, <1>3
<1> HIDE DEF k
<1>7. /\ k \o f \in Seq(Symbols) /\ Len(k \o f) = Len(k) + Len(f)
      /\ \A i \in 1 .. Len(k) + Len(f) :
            (k \o f)[i] = IF i <= Len(k) THEN k[i] ELSE f[i - Len(k)]
  BY <1>a, ConcatProperties
<1>8. g = k \o f
  BY DEF k, h
<1>9. Len(k) \in Nat /\ Len(g) = Len(k) + Len(f) /\ Len(k) = Len(l) + Len(h)
  BY <1>3, <1>7, <1>8, LenProperties
<1>10. \A i \in 1..Len(k) : g[i] = k[i]
  BY <1>2, <1>7, <1>8, <1>9
<1>11. ASSUME NEW j \in 1..Len(f) PROVE f[j] = g[Len(k) + j]
  <2>1. Len(k) + j \in 1 .. Len(k) + Len(f) /\ ~(Len(k) + j <= Len(k))
        /\ Len(k) + j - Len(k) = j
    BY <1>2, <1>9
  <2> QED BY <1>7, <1>8, <2>1
<1>12. Len(g) - Len(f) = Len(k) /\ Len(l) + Len(f) < Len(g) /\ Len(l) <= Len(k)
  BY <1>1, <1>2, <1>9
<1>13. g[Len(l) + 1] \in {"hd", "hdr"}
  <2>1. Len(l) + 1 \in 1..Len(k)
    BY <1>1, <1>2, <1>9
  <2>2. g[Len(l) + 1] = k[Len(l) + 1]
    BY <1>10, <2>1
  <2>3. k[Len(l) + 1] = h[1]
    BY <1>5, <1>6
  <2> QED BY <1>1, <2>2, <2>3
<1>14. ASSUME NEW j \in Len(l) + 1 .. Len(k) PROVE g[j] \in {"hd", "hdr", "nl"}
  <2>1. j \in 1..Len(k)
    BY <1>2
  <2> QED BY <1>1, <1>5, <1>10, <2>1
<1>15. ASSUME NEW j \in 1..Len(l) PROVE g[j] = l[j]
  <2>1. j \in 1..Len(k)
    BY <1>2, <1>12, <1>9
  <2> QED BY <1>4, <1>10, <2>1
<1>16. PartOf(f, g, Len(k))
  BY <1>2, <1>9, <1>11 DEF PartOf
<1> QED BY <1>7, <1>8, <1>12, <1>13, <1>14, <1>15, <1>16

\* A frame is a piece of a line, and what is left of the line follows it.
LEMMA WritesWhat ==
  ASSUME LogTypeOK, NEW s \in Streams, NEW text \in Seq(Pieces \union {"nl"}),
         Writes(s, text)
  PROVE  \E n \in 0..Len(text) :
            /\ Emit(SubSeq(text, 1, n))
            /\ rest' = [rest EXCEPT ![s] = SubSeq(text, n + 1, Len(text))]
            /\ SubSeq(text, 1, n) \in Seq(Pieces \union {"nl"})
            /\ SubSeq(text, n + 1, Len(text)) \in Seq(Pieces \union {"nl"})
            /\ Len(SubSeq(text, 1, n)) = n
            /\ PartOf(SubSeq(text, 1, n), text, 0)
            /\ PartOf(SubSeq(text, n + 1, Len(text)), text, n)
            /\ n + Len(SubSeq(text, n + 1, Len(text))) = Len(text)
            /\ text # <<>> => n # 0
<1> DEFINE n == IF Len(text) <= Chunk THEN Len(text) ELSE Chunk
<1>1. Len(text) \in Nat /\ Chunk \in Nat /\ Chunk # 0
  BY LenProperties, LogStreamAssumption
<1>2. n \in 0..Len(text) /\ (Len(text) # 0 => n # 0)
  BY <1>1
<1>3. text # <<>> => Len(text) # 0
  BY EmptySeq
<1>4. Emit(SubSeq(text, 1, n)) /\ rest' = [rest EXCEPT ![s] = SubSeq(text, n + 1, Len(text))]
  BY DEF Writes
<1> HIDE DEF n
<1>5. n \in Nat /\ n <= Len(text)
  BY <1>1, <1>2
<1> DEFINE a == SubSeq(text, 1, n)
           b == SubSeq(text, n + 1, Len(text))
<1>6. /\ a \in Seq(Pieces \union {"nl"}) /\ Len(a) = n
      /\ \A j \in 1..n : a[j] = text[j]
  <2>1. /\ SubSeq(text, 0 + 1, n) \in Seq(Pieces \union {"nl"})
        /\ Len(SubSeq(text, 0 + 1, n)) = IF 0 <= n THEN n - 0 ELSE 0
        /\ \A j \in 1 .. n - 0 : SubSeq(text, 0 + 1, n)[j] = text[0 + j]
    BY <1>5, Slice
  <2> QED BY <1>5, <2>1
<1>7. /\ b \in Seq(Pieces \union {"nl"}) /\ n + Len(b) = Len(text)
      /\ \A j \in 1 .. Len(b) : b[j] = text[n + j]
  <2>1. /\ b \in Seq(Pieces \union {"nl"})
        /\ Len(b) = IF n <= Len(text) THEN Len(text) - n ELSE 0
        /\ \A j \in 1 .. Len(text) - n : b[j] = text[n + j]
    BY <1>1, <1>5, Slice
  <2>2. Len(b) = Len(text) - n
    BY <1>5, <2>1
  <2> QED BY <1>1, <1>5, <2>1, <2>2
<1> HIDE DEF a, b
<1>8. PartOf(a, text, 0)
  BY <1>1, <1>5, <1>6 DEF PartOf
<1>9. PartOf(b, text, n)
  BY <1>1, <1>7 DEF PartOf
<1> QED BY <1>2, <1>3, <1>4, <1>6, <1>7, <1>8, <1>9 DEF a, b

\* What a stream writes next is a piece of a line of the program.
LEMMA WriteWhat ==
  ASSUME LogTypeOK, RestSaid, NEW s \in Streams, Write(s)
  PROVE  /\ said' \subseteq Lines /\ said \subseteq said'
         /\ \E text \in Seq(Pieces \union {"nl"}), l \in said' : \E o \in 0..Len(l) :
               /\ Writes(s, text) /\ text # <<>>
               /\ PartOf(text, l, o) /\ o + Len(text) = Len(l)
<1>1. CASE \E l \in Lines : rest[s] = <<>> /\ Writes(s, l) /\ said' = said \union {l}
  <2>1. PICK l \in Lines : Writes(s, l) /\ said' = said \union {l}
    BY <1>1
  <2>2. l \in Seq(Pieces \union {"nl"}) /\ l # <<>>
    BY LogStreamAssumption
  <2>3. Len(l) \in Nat
    BY <2>2, LenProperties
  <2>4. 0 \in 0..Len(l) /\ PartOf(l, l, 0) /\ 0 + Len(l) = Len(l)
    BY <2>3 DEF PartOf
  <2> QED BY <2>1, <2>2, <2>4 DEF LogTypeOK
<1>2. CASE rest[s] # <<>> /\ Writes(s, rest[s]) /\ UNCHANGED said
  <2>1. rest[s] \in Seq(Pieces \union {"nl"})
    BY DEF LogTypeOK
  <2> QED BY <1>2, <2>1 DEF RestSaid, LogTypeOK
<1> QED BY <1>1, <1>2 DEF Write

LEMMA TypeAtFirst == Init => Typed
<1> SUFFICES ASSUME Init PROVE Typed
  OBVIOUS
<1>1. \A S : <<>> \in Seq(S) /\ Len(<<>>) = 0
  OBVIOUS
<1>2. /\ rest \in [Streams -> Seq(Pieces \union {"nl"})]
      /\ log \in Seq(Symbols) /\ Len(log) = 0
      /\ out \in Seq(Seq(Symbols)) /\ ends \in Seq(Nat) /\ hit \in Seq(Symbols)
      /\ frames \in Seq([text : Seq(Pieces \union {"nl"}), end : Nat])
  BY <1>1 DEF Init
<1>3. /\ result \in [Readers -> Results] /\ result["GetOutput"] = "none"
      /\ pos \in [Readers -> Nat] /\ pos["AwaitOutput"] = 0 /\ pos["GetOutput"] = 0
  BY DEF Init, Readers, Results
<1>4. pos["AwaitOutput"] <= Len(log) /\ pos["GetOutput"] <= upto /\ upto <= Len(log)
  BY <1>2, <1>3 DEF Init
<1>5. /\ exited \in BOOLEAN /\ kind \in Kinds /\ upto \in Nat
      /\ said \subseteq Lines /\ done \in BOOLEAN /\ matchers = <<"every", kind>>
  BY DEF Init
<1> QED BY <1>2, <1>3, <1>4, <1>5 DEF LogTypeOK, Typed

\* The line a reader scans next lies between two ends of lines.
LEMMA TheLine ==
  ASSUME Typed, NEW r \in Readers, HasLine(r)
  PROVE  /\ pos[r] \in Nat /\ LineEnd(r) \in 1..Len(log)
         /\ pos[r] < LineEnd(r) /\ LineEnd(r) <= Limit(r)
         /\ Limit(r) \in Nat /\ Limit(r) <= Len(log)
         /\ \A n \in pos[r] + 1 .. LineEnd(r) - 1 : log[n] # "nl"
         /\ log[LineEnd(r)] = "nl" \/ (Complete(r) /\ LineEnd(r) = Limit(r))
         /\ Line(r) = Text(pos[r], LineEnd(r))
         /\ Line(r) \in Seq(Symbols)
<1>1. /\ pos[r] \in Nat /\ Limit(r) \in Nat /\ Limit(r) <= Len(log)
      /\ Len(log) \in Nat /\ log \in Seq(Symbols)
  BY LenProperties DEF Typed, LogTypeOK, Limit, Follows
<1> DEFINE T == Newlines(r)
<1>2. T \in SUBSET Nat /\ \A n \in T : n \in pos[r] + 1 .. Limit(r) /\ log[n] = "nl"
  BY <1>1 DEF Newlines
<1>3. \A n \in pos[r] + 1 .. Limit(r) : log[n] = "nl" => n \in T
  BY DEF Newlines
<1>4. CASE T = {}
  <2>1. Complete(r) /\ pos[r] < Limit(r) /\ LineEnd(r) = Limit(r)
    BY <1>4 DEF HasLine, LineEnd
  <2>2. Line(r) = SubSeq(log, pos[r] + 1, Limit(r))
    BY <1>4 DEF Line
  <2>3. Limit(r) \in pos[r] + 1 .. Limit(r) /\ Limit(r) \in 1..Len(log)
    BY <1>1, <2>1
  <2>4. \A n \in pos[r] + 1 .. Limit(r) : log[n] # "nl"
    BY <1>3, <1>4
  <2>5. Line(r) = Text(pos[r], LineEnd(r))
    BY <2>1, <2>2, <2>3, <2>4 DEF Text
  <2>6. Line(r) \in Seq(Symbols)
    BY <1>1, <2>2, Slice
  <2>7. \A n \in pos[r] + 1 .. LineEnd(r) - 1 : n \in pos[r] + 1 .. Limit(r)
    BY <1>1, <2>1
  <2> QED BY <1>1, <2>1, <2>3, <2>4, <2>5, <2>6, <2>7
<1>5. CASE T # {}
  <2> DEFINE e == Min(T)
  <2>1. e \in T /\ \A y \in T : e <= y
    BY <1>2, <1>5, MinIs
  <2>2. LineEnd(r) = e /\ Line(r) = SubSeq(log, pos[r] + 1, e - 1)
    BY <1>5 DEF LineEnd, Line
  <2> HIDE DEF e, T
  <2>3. e \in pos[r] + 1 .. Limit(r) /\ log[e] = "nl" /\ e \in Nat
    BY <1>2, <2>1
  <2>4. ASSUME NEW n \in pos[r] + 1 .. e - 1 PROVE log[n] # "nl"
    <3>1. n \in pos[r] + 1 .. Limit(r) /\ ~(e <= n)
      BY <1>1, <2>3
    <3> QED BY <1>3, <2>1, <3>1
  <2>5. Line(r) = Text(pos[r], LineEnd(r))
    BY <2>2, <2>3 DEF Text
  <2>6. e - 1 \in Nat /\ e - 1 <= Len(log) /\ e \in 1..Len(log)
    BY <1>1, <2>3
  <2>7. Line(r) \in Seq(Symbols)
    <3>1. PICK n \in Nat : n = e - 1 /\ n <= Len(log)
      BY <2>6
    <3>2. SubSeq(log, pos[r] + 1, n) \in Seq(Symbols)
      BY <1>1, <3>1, Slice
    <3> QED BY <2>2, <3>1, <3>2
  <2>8. \A n \in pos[r] + 1 .. LineEnd(r) - 1 : log[n] # "nl"
    BY <2>2, <2>4
  <2>9. /\ LineEnd(r) \in 1..Len(log) /\ log[LineEnd(r)] = "nl"
        /\ pos[r] < LineEnd(r) /\ LineEnd(r) <= Limit(r)
    BY <1>1, <2>2, <2>3, <2>6
  <2> QED BY <1>1, <2>5, <2>7, <2>8, <2>9
<1> QED BY <1>4, <1>5

\* A line is collected at least once: the first matcher of GetOutput accepts
\* all.
LEMMA Accepted ==
  ASSUME Typed, NEW line
  PROVE  Accepting(line) \in Nat /\ Accepting(line) # 0
<1> DEFINE A == {n \in DOMAIN matchers : Matches(matchers[n], line)}
<1>1. DOMAIN matchers = 1..2 /\ matchers[1] = "every"
  BY DEF Typed
<1>2. 1 \in A /\ A \subseteq 1..2
  BY <1>1 DEF Matches
<1>0. 1 \in Int /\ 2 \in Int
  OBVIOUS
<1>3. IsFiniteSet(1..2)
  BY <1>0, FS_Interval, Zenon
<1>4. IsFiniteSet(A)
  BY <1>2, <1>3, FS_Subset
<1>5. Cardinality(A) \in Nat /\ Cardinality(A) # 0
  BY <1>2, <1>4, FS_CardinalityType, FS_EmptySet
<1> QED BY <1>5 DEF Accepting

\* What one more frame does to the log.
LEMMA EmitWhat ==
  ASSUME LogTypeOK, NEW f \in Seq(Pieces \union {"nl"}), Emit(f)
  PROVE  /\ log' \in Seq(Symbols) /\ Len(log) + Len(f) < Len(log')
         /\ Len(log) \in Nat /\ Len(log') \in Nat /\ Len(f) \in Nat
         /\ \A j \in 1 .. Len(log) : log'[j] = log[j]
         /\ log'[Len(log) + 1] \in {"hd", "hdr"}
         /\ \A j \in Len(log) + 1 .. Len(log') - Len(f) : log'[j] \in {"hd", "hdr", "nl"}
         /\ PartOf(f, log', Len(log') - Len(f))
         /\ frames' \in Seq([text : Seq(Pieces \union {"nl"}), end : Nat])
         /\ Len(frames) \in Nat /\ DOMAIN frames = 1..Len(frames)
         /\ DOMAIN frames' = 1 .. Len(frames) + 1
         /\ \A n \in 1..Len(frames) : frames'[n] = frames[n]
         /\ frames'[Len(frames) + 1] = [text |-> f, end |-> Len(log')]
<1>1. log \in Seq(Symbols) /\ frames \in Seq([text : Seq(Pieces \union {"nl"}), end : Nat])
  BY DEF LogTypeOK
<1>2. PICK g : g = log' /\ g = log \o Header(f) \o f
  BY DEF Emit
<1>a. /\ g \in Seq(Symbols) /\ Len(log) + Len(f) < Len(g)
      /\ \A j \in 1 .. Len(log) : g[j] = log[j]
      /\ g[Len(log) + 1] \in {"hd", "hdr"}
      /\ \A j \in Len(log) + 1 .. Len(g) - Len(f) : g[j] \in {"hd", "hdr", "nl"}
      /\ PartOf(f, g, Len(g) - Len(f))
  BY <1>1, <1>2, FrameAppended
<1>3. /\ log' \in Seq(Symbols) /\ Len(log) + Len(f) < Len(log')
      /\ \A j \in 1 .. Len(log) : log'[j] = log[j]
      /\ log'[Len(log) + 1] \in {"hd", "hdr"}
      /\ \A j \in Len(log) + 1 .. Len(log') - Len(f) : log'[j] \in {"hd", "hdr", "nl"}
      /\ PartOf(f, log', Len(log') - Len(f))
  BY <1>2, <1>a
<1>4. Len(log) \in Nat /\ Len(log') \in Nat /\ Len(f) \in Nat /\ Len(frames) \in Nat
      /\ DOMAIN frames = 1..Len(frames)
  BY <1>1, <1>3, LenProperties
<1> DEFINE x == [text |-> f, end |-> Len(log')]
<1>5. x \in [text : Seq(Pieces \union {"nl"}), end : Nat]
  BY <1>4
<1>6. frames' = Append(frames, x)
  BY DEF Emit
<1> HIDE DEF x
<1>7. /\ frames' \in Seq([text : Seq(Pieces \union {"nl"}), end : Nat])
      /\ Len(frames') = Len(frames) + 1
      /\ \A i \in 1..Len(frames) : frames'[i] = frames[i]
      /\ frames'[Len(frames) + 1] = x
  BY <1>1, <1>5, <1>6, AppendProperties
<1>8. DOMAIN frames' = 1 .. Len(frames) + 1
  BY <1>7, LenProperties
<1> QED BY <1>3, <1>4, <1>7, <1>8 DEF x

\* A program writes frames, and nobody else does anything to the log.
LEMMA Steps ==
  ASSUME LogTypeOK, [Next]_logVars
  PROVE  \/ \E s \in Streams : Write(s)
         \/ /\ UNCHANGED <<rest, log, frames, said>>
            /\ exited' = exited \/ exited' = TRUE
<1>1. CASE \E s \in Streams : Write(s)
  BY <1>1
<1>2. CASE Exit \/ CtxEnds
  BY <1>2 DEF Exit, CtxEnds, programVars
<1>3. CASE \E r \in Readers : Open(r) \/ ReaderStep(r) \/ Break(r)
  BY <1>3 DEF Open, ReaderStep, ScanAwait, ScanGet, Stop, Break, programVars
<1>4. CASE UNCHANGED logVars
  BY <1>4 DEF logVars, programVars
<1> QED BY <1>1, <1>2, <1>3, <1>4 DEF Next

\* The log only grows.
LEMMA Grows ==
  ASSUME LogTypeOK, RestSaid, [Next]_logVars
  PROVE  /\ log' \in Seq(Symbols) /\ Len(log) <= Len(log')
         /\ Len(log) \in Nat /\ Len(log') \in Nat
         /\ \A j \in 1 .. Len(log) : log'[j] = log[j]
         /\ said \subseteq said' /\ said' \subseteq Lines
<1>1. log \in Seq(Symbols) /\ said \subseteq Lines
  BY DEF LogTypeOK
<1>2. ASSUME NEW s \in Streams, Write(s)
      PROVE  /\ log' \in Seq(Symbols) /\ Len(log) <= Len(log')
             /\ Len(log) \in Nat /\ Len(log') \in Nat
             /\ \A j \in 1 .. Len(log) : log'[j] = log[j]
             /\ said \subseteq said' /\ said' \subseteq Lines
  <2>1. said \subseteq said' /\ said' \subseteq Lines
    BY <1>2, WriteWhat
  <2>2. PICK text \in Seq(Pieces \union {"nl"}) : Writes(s, text)
    BY <1>2, WriteWhat
  <2>3. PICK n \in 0..Len(text) :
          Emit(SubSeq(text, 1, n)) /\ SubSeq(text, 1, n) \in Seq(Pieces \union {"nl"})
    BY <2>2, WritesWhat
  <2> DEFINE f == SubSeq(text, 1, n)
  <2> HIDE DEF f
  <2>4. Emit(f) /\ f \in Seq(Pieces \union {"nl"})
    BY <2>3 DEF f
  <2>5. /\ log' \in Seq(Symbols) /\ Len(log) + Len(f) < Len(log')
        /\ Len(log) \in Nat /\ Len(log') \in Nat /\ Len(f) \in Nat
        /\ \A j \in 1 .. Len(log) : log'[j] = log[j]
    BY <2>4, EmitWhat
  <2> QED BY <2>1, <2>5
<1>3. CASE UNCHANGED <<rest, log, frames, said>>
  BY <1>1, <1>3, LenProperties
<1> QED BY <1>2, <1>3, Steps

\* What has come of a line when the connection breaks is a part of the log.
LEMMA BreakWhat ==
  ASSUME LogTypeOK, NEW r \in Readers, Break(r)
  PROVE  \E came \in Seq(Symbols) :
            /\ PartOf(came, log, pos[r])
            /\ \/ Finish(r, "ctx") /\ UNCHANGED hit
               \/ /\ r = "AwaitOutput" /\ Finish(r, "rest") /\ hit' = came
                  /\ came # <<>> /\ Matches(kind, came)
               \/ Finish(r, "broken") /\ UNCHANGED hit
<1>1. PICK e \in pos[r] .. Limit(r) :
         LET came    == SubSeq(log, pos[r] + 1, e)
             accepts == r = "AwaitOutput" /\ came # <<>> /\ Matches(kind, came)
         IN  \/ done /\ Finish(r, "ctx") /\ UNCHANGED hit
             \/ ~done /\ accepts /\ Finish(r, "rest") /\ hit' = came
             \/ ~done /\ ~accepts /\ Finish(r, "broken") /\ UNCHANGED hit
  BY DEF Break
<1>2. pos[r] \in Nat /\ log \in Seq(Symbols) /\ Len(log) \in Nat /\ upto \in Nat
      /\ upto <= Len(log)
  BY LenProperties DEF LogTypeOK
<1>3. PICK p, limit : p = pos[r] /\ limit = Limit(r)
  OBVIOUS
<1>4. p \in Nat /\ e \in Nat /\ p <= e /\ e <= Len(log)
  <2>1. limit \in Nat /\ limit <= Len(log)
    BY <1>2, <1>3 DEF Limit
  <2>2. e \in p..limit /\ p \in Nat
    BY <1>2, <1>3
  <2> QED BY <1>2, <2>1, <2>2
<1>5. PICK came : came = SubSeq(log, p + 1, e)
  OBVIOUS
<1>6. /\ came \in Seq(Symbols) /\ Len(came) = e - p
      /\ \A j \in 1 .. e - p : came[j] = log[p + j]
  BY <1>2, <1>4, <1>5, Slice
<1>7. PartOf(came, log, p)
  BY <1>4, <1>6 DEF PartOf
<1>8. \/ Finish(r, "ctx") /\ UNCHANGED hit
      \/ /\ r = "AwaitOutput" /\ Finish(r, "rest") /\ hit' = came
         /\ came # <<>> /\ Matches(kind, came)
      \/ Finish(r, "broken") /\ UNCHANGED hit
  BY <1>1, <1>3, <1>5
<1> QED BY <1>3, <1>6, <1>7, <1>8

\* Every step keeps the types.
LEMMA TypeKept ==
  ASSUME Typed, RestSaid, [Next]_logVars
  PROVE  Typed'
<1> USE DEF Typed
<1>1. ASSUME NEW s \in Streams, Write(s) PROVE Typed'
  <2>1. PICK text \in Seq(Pieces \union {"nl"}) : Writes(s, text)
    BY <1>1, WriteWhat
  <2>2. PICK n \in 0..Len(text) :
          /\ Emit(SubSeq(text, 1, n)) /\ SubSeq(text, 1, n) \in Seq(Pieces \union {"nl"})
          /\ rest' = [rest EXCEPT ![s] = SubSeq(text, n + 1, Len(text))]
          /\ SubSeq(text, n + 1, Len(text)) \in Seq(Pieces \union {"nl"})
    BY <2>1, WritesWhat
  <2> DEFINE f == SubSeq(text, 1, n)
             b == SubSeq(text, n + 1, Len(text))
  <2> HIDE DEF f, b
  <2>3. Emit(f) /\ f \in Seq(Pieces \union {"nl"})
    BY <2>2 DEF f
  <2>4. b \in Seq(Pieces \union {"nl"}) /\ rest' = [rest EXCEPT ![s] = b]
    BY <2>2 DEF b
  <2>5. rest' \in [Streams -> Seq(Pieces \union {"nl"})]
    BY <2>4 DEF LogTypeOK
  <2>6. frames' \in Seq([text : Seq(Pieces \union {"nl"}), end : Nat])
    BY <2>3, EmitWhat
  <2>7. /\ log' \in Seq(Symbols) /\ Len(log) <= Len(log') /\ said' \subseteq Lines
        /\ Len(log) \in Nat /\ Len(log') \in Nat
    BY <1>1, Grows DEF Next
  <2>8. UNCHANGED <<exited, result, pos, upto, out, hit, ends, kind, matchers, done>>
    BY <1>1 DEF Write, readerVars, choiceVars
  <2>9. /\ pos["AwaitOutput"] \in Nat /\ upto \in Nat
        /\ pos["AwaitOutput"] <= Len(log) /\ upto <= Len(log)
    BY DEF LogTypeOK, Readers
  <2>10. pos["AwaitOutput"] <= Len(log') /\ upto <= Len(log')
    BY <2>7, <2>9
  <2> QED BY <2>5, <2>6, <2>7, <2>8, <2>10 DEF LogTypeOK
<1>2. CASE Exit \/ CtxEnds
  BY <1>2 DEF Exit, CtxEnds, programVars, readerVars, choiceVars, LogTypeOK
<1>3. ASSUME NEW r \in Readers, Open(r) PROVE Typed'
  <2>1. result' \in [Readers -> Results] /\ result'["GetOutput"] \notin {"matched", "rest"}
    BY <1>3 DEF Open, LogTypeOK, Readers, Results
  <2>2. Len(log) \in Nat /\ pos["GetOutput"] \in Nat /\ upto \in Nat
    BY LenProperties DEF LogTypeOK, Readers
  <2>3. upto' \in Nat /\ upto <= upto' /\ upto' <= Len(log) /\ pos["GetOutput"] <= upto'
    BY <1>3, <2>2 DEF Open, LogTypeOK
  <2> QED BY <1>3, <2>1, <2>3 DEF Open, programVars, choiceVars, LogTypeOK
<1>4. CASE result["AwaitOutput"] = "reading" /\ ScanAwait
  <2> DEFINE r == "AwaitOutput"
             e == LineEnd("AwaitOutput")
  <2>1. HasLine(r) /\ pos' = [pos EXCEPT ![r] = LineEnd(r)]
    BY <1>4 DEF ScanAwait, Scan
  <2>2. /\ LineEnd(r) \in 1..Len(log) /\ LineEnd(r) <= Limit(r) /\ Line(r) \in Seq(Symbols)
        /\ Limit(r) <= Len(log) /\ Len(log) \in Nat
    BY <2>1, TheLine, LenProperties DEF Readers, LogTypeOK
  <2> HIDE DEF e
  <2>3. e \in Nat /\ e <= Len(log) /\ pos' = [pos EXCEPT ![r] = e]
    BY <2>1, <2>2 DEF e
  <2>4. pos' \in [Readers -> Nat] /\ pos'["AwaitOutput"] <= Len(log)
        /\ pos'["GetOutput"] = pos["GetOutput"]
    BY <2>3 DEF LogTypeOK, Readers
  <2>5. hit' \in Seq(Symbols)
    BY <1>4, <2>2 DEF ScanAwait, LogTypeOK
  <2>6. result' \in [Readers -> Results] /\ result'["GetOutput"] \notin {"matched", "rest"}
    BY <1>4 DEF ScanAwait, Finish, LogTypeOK, Readers, Results
  <2> QED BY <1>4, <2>4, <2>5, <2>6 DEF ScanAwait, programVars, choiceVars, LogTypeOK
<1>5. CASE result["GetOutput"] = "reading" /\ ScanGet
  <2> DEFINE r == "GetOutput"
             e == LineEnd("GetOutput")
             n == Accepting(Line("GetOutput"))
             x == Line("GetOutput")
  <2>1. HasLine(r) /\ pos' = [pos EXCEPT ![r] = LineEnd(r)]
    BY <1>5 DEF ScanGet, Scan
  <2>2. /\ LineEnd(r) \in 1..Len(log) /\ LineEnd(r) <= Limit(r) /\ Line(r) \in Seq(Symbols)
        /\ Limit(r) = upto
    BY <2>1, TheLine DEF Readers, Limit, Follows
  <2>3. n \in Nat
    BY Accepted
  <2>4. out' = out \o Copies(x, n) /\ ends' = ends \o Copies(e, n)
    BY <1>5 DEF ScanGet
  <2>5. e \in Nat /\ e <= upto /\ x \in Seq(Symbols) /\ pos' = [pos EXCEPT ![r] = e]
    BY <2>1, <2>2
  <2> HIDE DEF e, n, x
  <2>6. out' \in Seq(Seq(Symbols))
    BY <2>3, <2>4, <2>5, CopiesAppended DEF LogTypeOK
  <2>7. ends' \in Seq(Nat)
    BY <2>3, <2>4, <2>5, CopiesAppended DEF LogTypeOK
  <2>8. pos' \in [Readers -> Nat] /\ pos'["GetOutput"] <= upto
        /\ pos'["AwaitOutput"] = pos["AwaitOutput"]
    BY <2>5 DEF LogTypeOK, Readers
  <2> QED BY <1>5, <2>6, <2>7, <2>8 DEF ScanGet, programVars, choiceVars, LogTypeOK
<1>6. ASSUME NEW r \in Readers, Stop(r) PROVE Typed'
  <2>1. result' \in [Readers -> Results] /\ result'["GetOutput"] \notin {"matched", "rest"}
    BY <1>6 DEF Stop, Finish, LogTypeOK, Readers, Results
  <2> QED BY <1>6, <2>1 DEF Stop, programVars, choiceVars, LogTypeOK
<1>10. ASSUME NEW r \in Readers, Break(r) PROVE Typed'
  <2>1. PICK came \in Seq(Symbols) :
           \/ Finish(r, "ctx") /\ UNCHANGED hit
           \/ r = "AwaitOutput" /\ Finish(r, "rest") /\ hit' = came
           \/ Finish(r, "broken") /\ UNCHANGED hit
    BY <1>10, BreakWhat
  <2>2. result' \in [Readers -> Results] /\ result'["GetOutput"] \notin {"matched", "rest"}
    BY <2>1 DEF Finish, LogTypeOK, Readers, Results
  <2>3. hit' \in Seq(Symbols)
    BY <2>1 DEF LogTypeOK
  <2> QED BY <1>10, <2>2, <2>3 DEF Break, programVars, choiceVars, LogTypeOK
<1>7. CASE UNCHANGED logVars
  BY <1>7 DEF logVars, programVars, readerVars, choiceVars, LogTypeOK
<1>8. ScanAwait => result["AwaitOutput"] = "reading"
  BY DEF ScanAwait
<1>9. ScanGet => result["GetOutput"] = "reading"
  BY DEF ScanGet
<1> QED BY <1>1, <1>2, <1>3, <1>4, <1>5, <1>6, <1>7, <1>8, <1>9, <1>10 DEF Next, ReaderStep

\* A part of the log is a part of the longer log.
LEMMA PartStays ==
  ASSUME NEW f, Len(f) \in Nat, NEW k \in Seq(Symbols), NEW g \in Seq(Symbols), NEW o \in Nat,
         PartOf(f, k, o), Len(k) <= Len(g), \A j \in 1..Len(k) : g[j] = k[j]
  PROVE  PartOf(f, g, o)
<1>1. Len(k) \in Nat /\ Len(g) \in Nat
  BY LenProperties
<1>2. \A j \in 1..Len(f) : o + j \in 1..Len(k)
  BY <1>1 DEF PartOf
<1> QED BY <1>1, <1>2 DEF PartOf

\* A frame more keeps the log in its frames.
LEMMA EmitFramed ==
  ASSUME LogTypeOK, Framed, said \subseteq said', said' \subseteq Lines,
         NEW f \in Seq(Pieces \union {"nl"}), Emit(f), f # <<>>,
         NEW l \in said', NEW o \in 0..Len(l), PartOf(f, l, o)
  PROVE  Framed'
<1> DEFINE k == Len(frames)
           new == [text |-> f, end |-> Len(log')]
<1>1. /\ log' \in Seq(Symbols) /\ Len(log) + Len(f) < Len(log')
      /\ Len(log) \in Nat /\ Len(log') \in Nat /\ Len(f) \in Nat
      /\ \A j \in 1 .. Len(log) : log'[j] = log[j]
      /\ log'[Len(log) + 1] \in {"hd", "hdr"}
      /\ \A j \in Len(log) + 1 .. Len(log') - Len(f) : log'[j] \in {"hd", "hdr", "nl"}
      /\ PartOf(f, log', Len(log') - Len(f))
  BY EmitWhat
<1>2. /\ k \in Nat /\ DOMAIN frames = 1..k /\ DOMAIN frames' = 1 .. k + 1
      /\ \A n \in 1..k : frames'[n] = frames[n]
      /\ frames'[k + 1] = new
  BY EmitWhat
<1>3. \A n \in 1..k : /\ frames[n].end \in Nat /\ Len(frames[n].text) \in Nat
  <2>1. frames \in Seq([text : Seq(Pieces \union {"nl"}), end : Nat])
    BY DEF LogTypeOK
  <2>2. \A n \in 1..k : frames[n] \in [text : Seq(Pieces \union {"nl"}), end : Nat]
    BY <2>1, ElementOfSeq
  <2> QED BY <2>2, LenProperties
<1> HIDE DEF k
<1>4. log \in Seq(Symbols) /\ DOMAIN log = 1..Len(log) /\ DOMAIN log' = 1..Len(log')
  BY <1>1, LenProperties DEF LogTypeOK
<1>5. ASSUME NEW n \in 1..k
      PROVE  /\ \E l1 \in said' : \E o1 \in 0..Len(l1) : PartOf(frames[n].text, l1, o1)
             /\ frames[n].text # <<>> /\ Len(frames[n].text) < frames[n].end
             /\ PartOf(frames[n].text, log', frames[n].end - Len(frames[n].text))
             /\ frames[n].end < Len(log') => log'[frames[n].end + 1] \in {"hd", "hdr"}
  <2> DEFINE t == frames[n].text
             e == frames[n].end
  <2>1. /\ \E l1 \in said : \E o1 \in 0..Len(l1) : PartOf(t, l1, o1)
        /\ t # <<>> /\ Len(t) < e
        /\ PartOf(t, log, e - Len(t))
        /\ e < Len(log) => log[e + 1] \in {"hd", "hdr"}
    BY <1>2 DEF Framed
  <2>2. e \in Nat /\ Len(t) \in Nat
    BY <1>3
  <2> HIDE DEF t, e
  <2>3. e - Len(t) \in Nat /\ e <= Len(log) /\ Len(log) <= Len(log')
    BY <1>1, <2>1, <2>2 DEF PartOf
  <2>4. PartOf(t, log', e - Len(t))
    BY <1>1, <1>4, <2>1, <2>2, <2>3, PartStays
  <2>5. e < Len(log') => log'[e + 1] \in {"hd", "hdr"}
    <3>1. CASE e < Len(log)
      <4>1. e + 1 \in 1..Len(log)
        BY <1>1, <2>2, <3>1
      <4>2. log'[e + 1] = log[e + 1]
        BY <1>1, <4>1
      <4> QED BY <2>1, <3>1, <4>2
    <3>2. CASE e = Len(log)
      BY <1>1, <3>2
    <3> QED BY <1>1, <2>2, <2>3, <3>1, <3>2
  <2> QED BY <2>1, <2>4, <2>5 DEF t, e
<1>6. ASSUME NEW n \in DOMAIN frames'
      PROVE  /\ \E l1 \in said' : \E o1 \in 0..Len(l1) : PartOf(frames'[n].text, l1, o1)
             /\ frames'[n].text # <<>> /\ Len(frames'[n].text) < frames'[n].end
             /\ PartOf(frames'[n].text, log', frames'[n].end - Len(frames'[n].text))
             /\ frames'[n].end < Len(log') => log'[frames'[n].end + 1] \in {"hd", "hdr"}
  <2>1. CASE n \in 1..k
    BY <1>2, <1>5, <2>1
  <2>2. CASE n = k + 1
    <3>1. frames'[n].text = f /\ frames'[n].end = Len(log')
      BY <1>2, <2>2
    <3>2. Len(f) < Len(log') /\ ~(Len(log') < Len(log'))
      BY <1>1
    <3> QED BY <1>1, <3>1, <3>2
  <2> QED BY <1>2, <2>1, <2>2
<1>7. ASSUME NEW i \in DOMAIN log'
      PROVE  \/ log'[i] \in {"hd", "hdr", "nl"}
             \/ \E n \in DOMAIN frames' :
                   i \in frames'[n].end - Len(frames'[n].text) + 1 .. frames'[n].end
  <2>1. CASE i \in 1..Len(log)
    <3>1. CASE log[i] \in {"hd", "hdr", "nl"}
      BY <1>1, <2>1, <3>1
    <3>2. CASE \E n \in DOMAIN frames :
                   i \in frames[n].end - Len(frames[n].text) + 1 .. frames[n].end
      <4>1. PICK n \in 1..k : i \in frames[n].end - Len(frames[n].text) + 1 .. frames[n].end
        BY <1>2, <3>2
      <4>2. n \in DOMAIN frames' /\ frames'[n] = frames[n]
        BY <1>2
      <4> QED BY <4>1, <4>2
    <3> QED BY <1>4, <2>1, <3>1, <3>2 DEF Framed
  <2>2. CASE i \in Len(log) + 1 .. Len(log') - Len(f)
    BY <1>1, <2>2
  <2>3. CASE i \in Len(log') - Len(f) + 1 .. Len(log')
    <3>1. frames'[k + 1].text = f /\ frames'[k + 1].end = Len(log') /\ k + 1 \in DOMAIN frames'
      BY <1>2
    <3> QED BY <2>3, <3>1
  <2> QED BY <1>1, <1>4, <2>1, <2>2, <2>3
<1>8. said' # {}
  OBVIOUS
<1> QED BY <1>6, <1>7, <1>8 DEF Framed

LEMMA ProgramKept ==
  ASSUME LogTypeOK, RestSaid, Framed, [Next]_logVars
  PROVE  RestSaid' /\ Framed'
<1>1. ASSUME NEW s \in Streams, Write(s) PROVE RestSaid' /\ Framed'
  <2>1. said' \subseteq Lines /\ said \subseteq said'
    BY <1>1, WriteWhat
  <2>2. PICK text \in Seq(Pieces \union {"nl"}), l \in said' : \E o \in 0..Len(l) :
               /\ Writes(s, text) /\ text # <<>>
               /\ PartOf(text, l, o) /\ o + Len(text) = Len(l)
    BY <1>1, WriteWhat
  <2>3. PICK o \in 0..Len(l) :
               /\ Writes(s, text) /\ text # <<>>
               /\ PartOf(text, l, o) /\ o + Len(text) = Len(l)
    BY <2>2
  <2>4. PICK n \in 0..Len(text) :
            /\ Emit(SubSeq(text, 1, n))
            /\ rest' = [rest EXCEPT ![s] = SubSeq(text, n + 1, Len(text))]
            /\ SubSeq(text, 1, n) \in Seq(Pieces \union {"nl"})
            /\ SubSeq(text, n + 1, Len(text)) \in Seq(Pieces \union {"nl"})
            /\ Len(SubSeq(text, 1, n)) = n
            /\ PartOf(SubSeq(text, 1, n), text, 0)
            /\ PartOf(SubSeq(text, n + 1, Len(text)), text, n)
            /\ n + Len(SubSeq(text, n + 1, Len(text))) = Len(text)
            /\ text # <<>> => n # 0
    BY <2>3, WritesWhat
  <2> DEFINE f == SubSeq(text, 1, n)
             b == SubSeq(text, n + 1, Len(text))
  <2> HIDE DEF f, b
  <2>5. /\ Emit(f) /\ f \in Seq(Pieces \union {"nl"}) /\ Len(f) = n /\ PartOf(f, text, 0)
        /\ n \in Nat /\ n # 0
    BY <2>3, <2>4, LenProperties DEF f
  <2>6. /\ rest' = [rest EXCEPT ![s] = b] /\ b \in Seq(Pieces \union {"nl"})
        /\ PartOf(b, text, n) /\ n + Len(b) = Len(text)
    BY <2>4 DEF b
  <2>7. l \in Seq(Pieces \union {"nl"}) /\ o \in Nat
    BY <2>1, LogStreamAssumption, LenProperties
  <2>8. f # <<>>
    BY <2>5
  <2>9. o + 0 \in 0..Len(l) /\ PartOf(f, l, o + 0)
    BY <2>3, <2>5, <2>7, PartOfPart
  <2>10. Framed'
    BY <2>1, <2>5, <2>8, <2>9, EmitFramed
  <2>11. o + n \in 0..Len(l) /\ PartOf(b, l, o + n)
    BY <2>3, <2>5, <2>6, <2>7, PartOfPart
  <2>12. o + n + Len(b) = Len(l)
    <3>1. Len(b) \in Nat /\ Len(text) \in Nat /\ Len(l) \in Nat
      BY <2>6, <2>7, LenProperties
    <3>2. o + Len(text) = Len(l) /\ n + Len(b) = Len(text) /\ o \in Nat /\ n \in Nat
      BY <2>3, <2>5, <2>6, <2>7
    <3> QED BY <3>1, <3>2
  <2>13. RestSaid'
    <3>1. ASSUME NEW q \in Streams, rest'[q] # <<>>
          PROVE  \E l1 \in said' : \E o1 \in 0..Len(l1) :
                    PartOf(rest'[q], l1, o1) /\ o1 + Len(rest'[q]) = Len(l1)
      <4>1. CASE q = s
        <5>1. rest'[q] = b
          BY <2>6, <4>1 DEF LogTypeOK
        <5> QED BY <2>11, <2>12, <5>1
      <4>2. CASE q # s
        <5>1. rest'[q] = rest[q]
          BY <2>6, <4>2 DEF LogTypeOK
        <5> QED BY <2>1, <3>1, <5>1 DEF RestSaid
      <4> QED BY <4>1, <4>2
    <3> QED BY <3>1 DEF RestSaid
  <2> QED BY <2>10, <2>13
<1>2. CASE UNCHANGED <<rest, log, frames, said>>
  BY <1>2 DEF RestSaid, Framed
<1> QED BY <1>1, <1>2, Steps

Placed ==
  /\ \A r \in Readers : Between(r) /\ (result[r] = "none" => pos[r] = 0)
  /\ result["GetOutput"] = "end" => pos["GetOutput"] = upto

\* The lines of the log stay where they are.
LEMMA LinesStay ==
  ASSUME LogTypeOK, RestSaid, [Next]_logVars, NEW e \in 1..Len(log), NEW i \in 0..e - 1
  PROVE  log'[e] = log[e] /\ (Begins(i, e)' <=> Begins(i, e)) /\ Text(i, e)' = Text(i, e)
<1>1. /\ log' \in Seq(Symbols) /\ Len(log) <= Len(log')
      /\ Len(log) \in Nat /\ Len(log') \in Nat
      /\ \A j \in 1 .. Len(log) : log'[j] = log[j]
  BY Grows
<1>2. log \in Seq(Symbols) /\ i \in Nat /\ e \in Nat /\ e <= Len(log)
  BY <1>1 DEF LogTypeOK
<1>3. log'[e] = log[e] /\ \A n \in i + 1 .. e - 1 : log'[n] = log[n]
  BY <1>1, <1>2
<1>4. i # 0 => log'[i] = log[i]
  <2>1. i # 0 => i \in 1..Len(log)
    BY <1>1, <1>2
  <2> QED BY <1>1, <2>1
<1>5. Begins(i, e)' <=> Begins(i, e)
  BY <1>3, <1>4 DEF Begins
<1>6. Text(i, e)' = Text(i, e)
  <2>1. PICK n \in Nat : n = (IF log[e] = "nl" THEN e - 1 ELSE e) /\ n <= Len(log)
    BY <1>1, <1>2
  <2>2. PICK g \in Seq(Symbols) : g = log'
    BY <1>1
  <2>3. SubSeq(g, i + 1, n) = SubSeq(log, i + 1, n)
    BY <1>1, <1>2, <2>1, <2>2, SliceStays
  <2>4. Text(i, e) = SubSeq(log, i + 1, n) /\ Text(i, e)' = SubSeq(g, i + 1, n)
    BY <1>3, <2>1, <2>2 DEF Text
  <2> QED BY <2>3, <2>4
<1> QED BY <1>3, <1>5, <1>6

\* A line begins in one place.
LEMMA BeginsOnce ==
  ASSUME NEW e \in Nat, NEW i, NEW j, Begins(i, e), Begins(j, e)
  PROVE  i = j
<1>1. i \in 0..e - 1 /\ j \in 0..e - 1
  BY DEF Begins
<1>2. ~(i < j)
  <2> SUFFICES ASSUME i < j PROVE FALSE
    OBVIOUS
  <2>1. j \in i + 1 .. e - 1 /\ j # 0
    BY <1>1
  <2> QED BY <2>1 DEF Begins
<1>3. ~(j < i)
  <2> SUFFICES ASSUME j < i PROVE FALSE
    OBVIOUS
  <2>1. i \in j + 1 .. e - 1 /\ i # 0
    BY <1>1
  <2> QED BY <2>1 DEF Begins
<1> QED BY <1>1, <1>2, <1>3

\* The next line begins where the reader stands.
LEMMA NextBegins ==
  ASSUME Typed, Placed, NEW r \in Readers, HasLine(r)
  PROVE  /\ Begins(pos[r], LineEnd(r))
         /\ pos[r] = 0 \/ (pos[r] \in DOMAIN log /\ log[pos[r]] = "nl")
<1>1. /\ pos[r] \in Nat /\ LineEnd(r) \in 1..Len(log)
      /\ pos[r] < LineEnd(r) /\ LineEnd(r) <= Limit(r)
      /\ Limit(r) \in Nat
      /\ \A n \in pos[r] + 1 .. LineEnd(r) - 1 : log[n] # "nl"
  BY TheLine
<1>2. pos[r] # Limit(r) /\ pos[r] \in 0 .. LineEnd(r) - 1
  BY <1>1
<1>3. pos[r] = 0 \/ (pos[r] \in DOMAIN log /\ log[pos[r]] = "nl")
  BY <1>2 DEF Placed, Between
<1> QED BY <1>1, <1>2, <1>3 DEF Begins

\* Scanning takes a reader from the end of a line to the end of the next.
LEMMA PlacedKept ==
  ASSUME Typed, RestSaid, Placed, [Next]_logVars
  PROVE  Placed'
<1>1. pos \in [Readers -> Nat] /\ Len(log) \in Nat /\ log \in Seq(Symbols)
      /\ DOMAIN log = 1..Len(log)
  BY LenProperties DEF Typed, LogTypeOK
<1>2. ASSUME NEW s \in Streams, Write(s) PROVE Placed'
  <2>1. UNCHANGED <<exited, result, pos, upto>> /\ ~exited
    BY <1>2 DEF Write, readerVars
  <2>2. /\ log' \in Seq(Symbols) /\ Len(log) <= Len(log')
        /\ Len(log) \in Nat /\ Len(log') \in Nat
        /\ \A j \in 1 .. Len(log) : log'[j] = log[j]
    BY Grows DEF Typed
  <2>3. \A p \in DOMAIN log : p \in DOMAIN log' /\ log'[p] = log[p]
    BY <1>1, <2>2, LenProperties
  <2>4. ASSUME NEW r \in Readers PROVE Between(r)'
    BY <2>1, <2>3 DEF Placed, Between, Complete, Follows, Limit
  <2> QED BY <2>1, <2>4 DEF Placed
<1>3. CASE Exit
  BY <1>3 DEF Exit, readerVars, Placed, Between, Complete, Limit
<1>4. CASE CtxEnds \/ UNCHANGED logVars
  BY <1>4 DEF CtxEnds, logVars, programVars, readerVars, Placed, Between, Complete, Limit
<1>5. ASSUME NEW r \in Readers, Open(r) PROVE Placed'
  <2>1. UNCHANGED <<log, exited, pos>> /\ result[r] = "none" /\ pos[r] = 0
    BY <1>5 DEF Open, programVars, Placed
  <2>2. result' = [result EXCEPT ![r] = IF done THEN "ctx" ELSE "reading"]
        /\ (r # "GetOutput" => upto' = upto)
    BY <1>5 DEF Open
  <2>3. ASSUME NEW q \in Readers PROVE Between(q)' /\ (result'[q] = "none" => pos'[q] = 0)
    <3>1. CASE q = r
      BY <2>1, <3>1 DEF Between
    <3>2. CASE q # r
      <4>1. result'[q] = result[q] /\ (~Follows(q) => upto' = upto)
        BY <2>2, <3>2 DEF Typed, LogTypeOK, Readers, Follows
      <4> QED BY <2>1, <4>1 DEF Placed, Between, Complete, Limit
    <3> QED BY <3>1, <3>2
  <2>4. result'["GetOutput"] = "end" => pos'["GetOutput"] = upto'
    BY <2>1, <2>2 DEF Typed, LogTypeOK, Readers, Placed
  <2> QED BY <2>3, <2>4 DEF Placed
<1>6. ASSUME NEW r \in Readers, result[r] = "reading", HasLine(r),
             pos' = [pos EXCEPT ![r] = LineEnd(r)], UNCHANGED <<log, exited, upto>>,
             \A q \in Readers : result'[q] = "none" => result[q] = "none",
             result'["GetOutput"] = result["GetOutput"]
      PROVE  Placed'
  <2>1. /\ LineEnd(r) \in 1..Len(log)
        /\ log[LineEnd(r)] = "nl" \/ (Complete(r) /\ LineEnd(r) = Limit(r))
    BY <1>6, TheLine
  <2> DEFINE e == LineEnd(r)
  <2> HIDE DEF e
  <2>2. /\ pos' = [pos EXCEPT ![r] = e] /\ e \in DOMAIN log
        /\ log[e] = "nl" \/ (Complete(r) /\ e = Limit(r))
    BY <1>1, <1>6, <2>1 DEF e
  <2>3. ASSUME NEW q \in Readers PROVE Between(q)' /\ (result'[q] = "none" => pos'[q] = 0)
    <3>1. CASE q = r
      <4>1. pos'[q] = e
        BY <1>1, <2>2, <3>1
      <4> QED BY <1>6, <2>2, <3>1, <4>1 DEF Between, Complete, Limit
    <3>2. CASE q # r
      <4>1. pos'[q] = pos[q]
        BY <1>1, <2>2, <3>2
      <4> QED BY <1>6, <4>1 DEF Placed, Between, Complete, Limit
    <3> QED BY <3>1, <3>2
  <2>4. result'["GetOutput"] = "end" => pos'["GetOutput"] = upto'
    BY <1>1, <1>6, <2>2 DEF Placed, Readers
  <2> QED BY <2>3, <2>4 DEF Placed
<1>7. CASE ScanAwait
  <2>1. \A q \in Readers : result'[q] = "none" => result[q] = "none"
    BY <1>7 DEF ScanAwait, Finish, Typed, LogTypeOK, Readers
  <2>2. result'["GetOutput"] = result["GetOutput"]
    BY <1>7 DEF ScanAwait, Finish, Typed, LogTypeOK, Readers
  <2>3. /\ result["AwaitOutput"] = "reading" /\ HasLine("AwaitOutput")
        /\ pos' = [pos EXCEPT !["AwaitOutput"] = LineEnd("AwaitOutput")]
        /\ UNCHANGED <<log, exited, upto>> /\ "AwaitOutput" \in Readers
    BY <1>7 DEF ScanAwait, Scan, programVars, Readers
  <2> QED BY <1>6, <2>1, <2>2, <2>3
<1>8. CASE ScanGet
  <2>1. /\ result["GetOutput"] = "reading" /\ HasLine("GetOutput")
        /\ pos' = [pos EXCEPT !["GetOutput"] = LineEnd("GetOutput")]
        /\ UNCHANGED <<log, exited, upto, result>> /\ "GetOutput" \in Readers
    BY <1>8 DEF ScanGet, Scan, programVars, Readers
  <2> QED BY <1>6, <2>1
<1>9. ASSUME NEW r \in Readers, Stop(r) PROVE Placed'
  <2>1. UNCHANGED <<log, exited, pos, upto>> /\ result[r] = "reading"
    BY <1>9 DEF Stop, programVars
  <2>2. \/ Complete(r) /\ pos[r] = Limit(r) /\ result' = [result EXCEPT ![r] = "end"]
        \/ result' = [result EXCEPT ![r] = "toolong"]
        \/ result' = [result EXCEPT ![r] = "ctx"]
    BY <1>9 DEF Stop, Finish
  <2>3. \A q \in Readers : result'[q] = "none" => result[q] = "none"
    BY <2>2 DEF Typed, LogTypeOK
  <2>4. result'["GetOutput"] = "end" => pos["GetOutput"] = upto
    <3>1. CASE r = "GetOutput"
      BY <2>2, <3>1 DEF Typed, LogTypeOK, Readers, Limit, Follows
    <3>2. CASE r # "GetOutput"
      BY <2>2, <3>2 DEF Typed, LogTypeOK, Readers, Placed
    <3> QED BY <3>1, <3>2
  <2> QED BY <2>1, <2>3, <2>4 DEF Placed, Between, Complete, Limit
<1>10. ASSUME NEW r \in Readers, Break(r) PROVE Placed'
  <2>1. UNCHANGED <<log, exited, pos, upto>> /\ result[r] = "reading"
    BY <1>10 DEF Break, programVars
  <2>2. \E why \in {"ctx", "rest", "broken"} : result' = [result EXCEPT ![r] = why]
    BY <1>10, BreakWhat DEF Finish, Typed
  <2>3. \A q \in Readers : result'[q] = "none" => result[q] = "none"
    BY <2>2 DEF Typed, LogTypeOK
  <2>4. result'["GetOutput"] = "end" => pos["GetOutput"] = upto
    BY <2>2 DEF Typed, LogTypeOK, Readers, Placed
  <2> QED BY <2>1, <2>3, <2>4 DEF Placed, Between, Complete, Limit
<1> QED BY <1>2, <1>3, <1>4, <1>5, <1>7, <1>8, <1>9, <1>10 DEF Next, ReaderStep

\* AwaitOutput accepts what has come before the connection broke.
RestAccepted ==
  /\ UNCHANGED <<log, kind, pos, frames>>
  /\ result["AwaitOutput"] = "reading" /\ result'["AwaitOutput"] = "rest"
  /\ hit' # <<>> /\ Matches(kind, hit') /\ PartOf(hit', log, pos["AwaitOutput"])

\* Only a scan moves a reader.
LEMMA AwaitSteps ==
  ASSUME LogTypeOK, [Next]_logVars
  PROVE  \/ ScanAwait \/ RestAccepted
         \/ /\ pos'["AwaitOutput"] = pos["AwaitOutput"] /\ UNCHANGED <<hit, kind>>
            /\ \/ result'["AwaitOutput"] = result["AwaitOutput"]
               \/ result["AwaitOutput"] = "none" /\ result'["AwaitOutput"] \in {"reading", "ctx"}
               \/ /\ result["AwaitOutput"] = "reading"
                  /\ result'["AwaitOutput"] \in {"end", "toolong", "ctx", "broken"}
<1> USE DEF readerVars, choiceVars
<1>1. CASE \E s \in Streams : Write(s)
  BY <1>1 DEF Write
<1>2. CASE Exit \/ CtxEnds \/ UNCHANGED logVars
  BY <1>2 DEF Exit, CtxEnds, logVars
<1>3. CASE ScanGet
  BY <1>3 DEF ScanGet, Scan, LogTypeOK, Readers
<1>4. ASSUME NEW r \in Readers, Open(r)
      PROVE  /\ pos'["AwaitOutput"] = pos["AwaitOutput"] /\ UNCHANGED <<hit, kind>>
             /\ \/ result'["AwaitOutput"] = result["AwaitOutput"]
                \/ result["AwaitOutput"] = "none" /\ result'["AwaitOutput"] \in {"reading", "ctx"}
                \/ /\ result["AwaitOutput"] = "reading"
                   /\ result'["AwaitOutput"] \in {"end", "toolong", "ctx", "broken"}
  BY <1>4 DEF Open, LogTypeOK, Readers
<1>5. ASSUME NEW r \in Readers, Stop(r)
      PROVE  /\ pos'["AwaitOutput"] = pos["AwaitOutput"] /\ UNCHANGED <<hit, kind>>
             /\ \/ result'["AwaitOutput"] = result["AwaitOutput"]
                \/ /\ result["AwaitOutput"] = "reading"
                   /\ result'["AwaitOutput"] \in {"end", "toolong", "ctx", "broken"}
  BY <1>5 DEF Stop, Finish, LogTypeOK, Readers
<1>6. ASSUME NEW r \in Readers, Break(r), ~RestAccepted
      PROVE  /\ pos'["AwaitOutput"] = pos["AwaitOutput"] /\ UNCHANGED <<hit, kind>>
             /\ \/ result'["AwaitOutput"] = result["AwaitOutput"]
                \/ /\ result["AwaitOutput"] = "reading"
                   /\ result'["AwaitOutput"] \in {"end", "toolong", "ctx", "broken"}
  <2>1. UNCHANGED <<log, kind, pos, frames>> /\ result[r] = "reading"
    BY <1>6 DEF Break, programVars
  <2>2. \/ Finish(r, "ctx") /\ UNCHANGED hit
        \/ /\ r = "AwaitOutput" /\ Finish(r, "rest") /\ hit' # <<>>
           /\ Matches(kind, hit') /\ PartOf(hit', log, pos[r])
        \/ Finish(r, "broken") /\ UNCHANGED hit
    BY <1>6, BreakWhat
  <2>3. CASE r = "AwaitOutput" /\ Finish(r, "rest") /\ hit' # <<>>
             /\ Matches(kind, hit') /\ PartOf(hit', log, pos[r])
    <3>1. result'["AwaitOutput"] = "rest"
      BY <2>3 DEF Finish, LogTypeOK, Readers
    <3> QED BY <1>6, <2>1, <2>3, <3>1 DEF RestAccepted
  <2>4. CASE Finish(r, "ctx") /\ UNCHANGED hit
    BY <2>1, <2>4 DEF Finish, LogTypeOK, Readers
  <2>5. CASE Finish(r, "broken") /\ UNCHANGED hit
    BY <2>1, <2>5 DEF Finish, LogTypeOK, Readers
  <2> QED BY <2>2, <2>3, <2>4, <2>5
<1> QED BY <1>1, <1>2, <1>3, <1>4, <1>5, <1>6 DEF Next, ReaderStep

LEMMA GetSteps ==
  ASSUME LogTypeOK, [Next]_logVars
  PROVE  \/ ScanGet
         \/ pos'["GetOutput"] = pos["GetOutput"] /\ UNCHANGED <<out, ends>>
<1> USE DEF readerVars, choiceVars
<1>1. CASE \E s \in Streams : Write(s)
  BY <1>1 DEF Write
<1>2. CASE Exit \/ CtxEnds \/ UNCHANGED logVars
  BY <1>2 DEF Exit, CtxEnds, logVars
<1>3. CASE ScanAwait
  BY <1>3 DEF ScanAwait, Scan, LogTypeOK, Readers
<1>4. ASSUME NEW r \in Readers, Open(r) \/ Stop(r) \/ Break(r)
      PROVE  pos'["GetOutput"] = pos["GetOutput"] /\ UNCHANGED <<out, ends>>
  BY <1>4 DEF Open, Stop, Break
<1> QED BY <1>1, <1>2, <1>3, <1>4 DEF Next, ReaderStep

\* A matcher is a function of its kind and the line.
LEMMA MatchesPrimed ==
  ASSUME UNCHANGED kind, NEW e, NEW i
  PROVE  Matches(kind, Text(i, e))' <=> Matches(kind, Text(i, e)')
BY DEF Matches, Occurs, TrimSpace

\* Lines that were passed stay passed.
LEMMA PassedStays ==
  ASSUME LogTypeOK, RestSaid, [Next]_logVars, UNCHANGED kind,
         NEW p \in Nat, p <= Len(log), PassedNone(p)
  PROVE  PassedNone(p)'
<1>1. Len(log) \in Nat
  BY LenProperties DEF LogTypeOK
<1>2. ASSUME NEW e \in 1..p, NEW i \in 0..p, log'[e] = "nl", Begins(i, e)'
      PROVE  ~Matches(kind, Text(i, e)')
  <2>1. e \in 1..Len(log)
    BY <1>1
  <2>2. i \in 0..e - 1
    BY <1>2 DEF Begins
  <2>3. log'[e] = log[e] /\ (Begins(i, e)' <=> Begins(i, e)) /\ Text(i, e)' = Text(i, e)
    BY <2>1, <2>2, LinesStay
  <2>4. e \in 1..p /\ i \in 0..p /\ log[e] = "nl" /\ Begins(i, e)
    BY <1>2, <2>3
  <2>5. ~Matches(kind, Text(i, e))
    BY <2>4 DEF PassedNone
  <2>6. Text(i, e)' = Text(i, e)
    BY <2>3
  <2> QED BY <2>5, <2>6, Zenon
<1>3. ASSUME NEW e \in 1..p, NEW i \in 0..p, (log[e] = "nl" /\ Begins(i, e))'
      PROVE  ~(Matches(kind, Text(i, e)))'
  BY <1>2, <1>3, MatchesPrimed
<1> QED BY <1>3 DEF PassedNone

\* AwaitOutput's scan passes one line, or accepts it.
LEMMA AwaitedKept ==
  ASSUME Typed, RestSaid, Placed, Awaited, [Next]_logVars
  PROVE  Awaited'
<1>0. PICK p, e : p = pos["AwaitOutput"] /\ e = LineEnd("AwaitOutput")
  OBVIOUS
<1>1. p \in Nat /\ p <= Len(log) /\ Len(log) \in Nat /\ DOMAIN log = 1..Len(log)
  BY <1>0, LenProperties DEF Typed, LogTypeOK, Readers
<1>2. CASE ScanAwait
  <2>1. /\ result["AwaitOutput"] = "reading" /\ HasLine("AwaitOutput")
        /\ pos' = [pos EXCEPT !["AwaitOutput"] = e]
        /\ UNCHANGED <<log, kind>> /\ "AwaitOutput" \in Readers
    BY <1>0, <1>2 DEF ScanAwait, Scan, programVars, choiceVars, Readers
  <2>2. /\ e \in 1..Len(log) /\ p < e
        /\ \A n \in p + 1 .. e - 1 : log[n] # "nl"
        /\ Line("AwaitOutput") = Text(p, e)
    BY <1>0, <2>1, TheLine
  <2>3. Begins(p, e)
    BY <1>0, <2>1, NextBegins
  <2>4. PassedNone(p)
    BY <1>0, <2>1 DEF Awaited
  <2>5. \/ result'["AwaitOutput"] = "ctx"
        \/ /\ result'["AwaitOutput"] = "matched" /\ Matches(kind, Text(p, e))
           /\ hit' = Text(p, e)
        \/ /\ result'["AwaitOutput"] = "reading" /\ ~Matches(kind, Text(p, e))
    BY <1>2, <2>1, <2>2 DEF ScanAwait, Finish, Typed, LogTypeOK
  <2>6. pos'["AwaitOutput"] = e
    BY <2>1 DEF Typed, LogTypeOK
  <2>7. ASSUME NEW e2 \in 1 .. e - 1, NEW i \in 0..e, log[e2] = "nl", Begins(i, e2)
        PROVE  ~Matches(kind, Text(i, e2))
    <3>1. e2 \in 1..p
      BY <1>1, <2>2, <2>7
    <3>2. i \in 0..e2 - 1
      BY <2>7 DEF Begins
    <3>3. i \in 0..p
      BY <1>1, <3>1, <3>2
    <3> QED BY <2>4, <2>7, <3>1, <3>3 DEF PassedNone
  <2>8. PassedNone(e - 1)
    <3>1. \A i \in 0 .. e - 1 : i \in 0..e
      BY <2>2
    <3> QED BY <2>7, <3>1 DEF PassedNone
  <2>9. ASSUME ~Matches(kind, Text(p, e)) PROVE PassedNone(e)
    <3>1. ASSUME NEW e2 \in 1..e, NEW i \in 0..e, log[e2] = "nl", Begins(i, e2)
          PROVE  ~Matches(kind, Text(i, e2))
      <4>1. CASE e2 = e
        <5>1. i = p
          BY <2>2, <2>3, <3>1, <4>1, BeginsOnce
        <5> QED BY <2>9, <4>1, <5>1
      <4>2. CASE e2 # e
        <5>1. e2 \in 1 .. e - 1
          BY <2>2, <4>2
        <5> QED BY <2>7, <3>1, <5>1
      <4> QED BY <4>1, <4>2
    <3> QED BY <3>1 DEF PassedNone
  <2>10. \A n \in Nat : PassedNone(n)' <=> PassedNone(n)
    BY <2>1 DEF PassedNone, Begins, Text, Matches, Occurs, TrimSpace
  <2>11. CASE result'["AwaitOutput"] = "ctx"
    BY <2>11 DEF Awaited
  <2>12. CASE /\ result'["AwaitOutput"] = "matched" /\ Matches(kind, Text(p, e))
              /\ hit' = Text(p, e)
    <3>1. PassedNone(e - 1)' /\ e \in DOMAIN log'
      BY <1>1, <2>1, <2>2, <2>8, <2>10
    <3>2. Matches(kind, hit)'
      <4>1. kind' = kind /\ hit' = Text(p, e) /\ Matches(kind, Text(p, e))
        BY <2>1, <2>12
      <4> QED BY <4>1 DEF Matches, Occurs, TrimSpace
    <3>3. p \in 0 .. e - 1 /\ Begins(p, e)' /\ hit' = Text(p, e)'
      BY <1>1, <2>1, <2>2, <2>3, <2>12 DEF Begins, Text
    <3> QED BY <2>6, <2>12, <3>1, <3>2, <3>3 DEF Awaited
  <2>13. CASE result'["AwaitOutput"] = "reading" /\ ~Matches(kind, Text(p, e))
    <3>1. e \in Nat
      BY <2>2
    <3>2. PassedNone(e)'
      BY <2>9, <2>10, <2>13, <3>1
    <3> QED BY <2>6, <2>13, <3>2 DEF Awaited
  <2> QED BY <2>5, <2>11, <2>12, <2>13
<1>3. CASE /\ pos'["AwaitOutput"] = pos["AwaitOutput"] /\ UNCHANGED <<hit, kind>>
           /\ \/ result'["AwaitOutput"] = result["AwaitOutput"]
              \/ result["AwaitOutput"] = "none" /\ result'["AwaitOutput"] \in {"reading", "ctx"}
              \/ /\ result["AwaitOutput"] = "reading"
                 /\ result'["AwaitOutput"] \in {"end", "toolong", "ctx", "broken"}
  <2>1. pos'["AwaitOutput"] = p /\ kind' = kind /\ hit' = hit
    BY <1>0, <1>3
  <2>2. ASSUME result'["AwaitOutput"] \in {"none", "reading"} PROVE PassedNone(p)'
    <3>1. PassedNone(p)
      BY <1>0, <1>3, <2>2 DEF Awaited
    <3> QED BY <1>1, <2>1, <3>1, PassedStays DEF Typed
  <2>3. ASSUME result'["AwaitOutput"] = "matched"
        PROVE  /\ PassedNone(p - 1)' /\ p \in DOMAIN log'
               /\ Matches(kind, hit)'
               /\ \E i \in 0..p - 1 : Begins(i, p)' /\ hit' = Text(i, p)'
    <3>1. result["AwaitOutput"] = "matched"
      BY <1>3, <2>3
    <3>2. PICK i \in 0..p - 1 : Begins(i, p) /\ hit = Text(i, p)
      BY <1>0, <3>1 DEF Awaited
    <3>3. PassedNone(p - 1) /\ p \in DOMAIN log /\ Matches(kind, hit)
      BY <1>0, <3>1 DEF Awaited
    <3>4. p \in 1..Len(log) /\ p - 1 \in Nat /\ p - 1 <= Len(log)
      BY <1>1, <3>3
    <3>5. PassedNone(p - 1)'
      BY <2>1, <3>3, <3>4, PassedStays DEF Typed
    <3>6. Begins(i, p)' /\ Text(i, p)' = Text(i, p)
      BY <3>2, <3>4, LinesStay DEF Typed
    <3>7. p \in DOMAIN log'
      BY <1>1, <3>4, Grows, LenProperties DEF Typed
    <3>8. Matches(kind, hit)'
      BY <2>1, <3>3 DEF Matches, Occurs, TrimSpace
    <3> QED BY <2>1, <3>2, <3>5, <3>6, <3>7, <3>8
  <2>4. ASSUME result'["AwaitOutput"] = "rest"
        PROVE  hit # <<>> /\ Matches(kind, hit)' /\ PartOf(hit, log', p)
    <3>1. hit # <<>> /\ Matches(kind, hit) /\ PartOf(hit, log, p)
      BY <1>0, <1>3, <2>4 DEF Awaited
    <3>2. Matches(kind, hit)'
      BY <2>1, <3>1 DEF Matches, Occurs, TrimSpace
    <3>3. PartOf(hit, log', p)
      <4>1. /\ hit \in Seq(Symbols) /\ Len(hit) \in Nat
            /\ log \in Seq(Symbols) /\ log' \in Seq(Symbols) /\ Len(log) <= Len(log')
            /\ \A j \in 1..Len(log) : log'[j] = log[j]
        BY Grows, LenProperties DEF Typed, LogTypeOK
      <4> QED BY <1>1, <3>1, <4>1, PartStays
    <3> QED BY <3>1, <3>2, <3>3
  <2>5. PartOf(hit, log', p) <=> PartOf(hit, log, pos["AwaitOutput"])'
    BY <2>1 DEF PartOf
  <2> QED BY <2>1, <2>2, <2>3, <2>4, <2>5 DEF Awaited
<1>4. CASE RestAccepted
  <2>1. Matches(kind, hit)'
    BY <1>4 DEF RestAccepted, Matches, Occurs, TrimSpace
  <2>2. PartOf(hit, log, pos["AwaitOutput"])'
    BY <1>4 DEF RestAccepted, PartOf
  <2>3. hit' # <<>> /\ result'["AwaitOutput"] = "rest"
    BY <1>4 DEF RestAccepted
  <2> QED BY <2>1, <2>2, <2>3 DEF Awaited
<1> QED BY <1>2, <1>3, <1>4, AwaitSteps DEF Typed

\* GetOutput's scan collects the line it passes.
LEMMA GotKept ==
  ASSUME Typed, RestSaid, Placed, Got, [Next]_logVars
  PROVE  Got'
<1>0. PICK p, e, x, k : /\ p = pos["GetOutput"] /\ e = LineEnd("GetOutput")
                        /\ x = Line("GetOutput") /\ k = Accepting(Line("GetOutput"))
  OBVIOUS
<1>1. p \in Nat /\ p <= Len(log) /\ Len(log) \in Nat /\ DOMAIN log = 1..Len(log)
  BY <1>0, LenProperties DEF Typed, LogTypeOK, Readers
<1>2. /\ out \in Seq(Seq(Symbols)) /\ ends \in Seq(Nat) /\ Len(out) \in Nat
      /\ DOMAIN out = 1..Len(out) /\ Len(ends) = Len(out)
  BY LenProperties DEF Typed, LogTypeOK, Got
<1>3. /\ \A n \in DOMAIN out :
            /\ ends[n] \in 1..p
            /\ ends[n] = p \/ log[ends[n]] = "nl"
            /\ \E i \in 0..ends[n] - 1 : Begins(i, ends[n]) /\ out[n] = Text(i, ends[n])
      /\ \A f \in 1..p : (f = p \/ log[f] = "nl") =>
            \E n \in DOMAIN out : ends[n] = f /\ \A m \in 1..n - 1 : ends[m] < f
  BY <1>0 DEF Got
<1>4. CASE ScanGet
  <2>1. /\ HasLine("GetOutput") /\ pos' = [pos EXCEPT !["GetOutput"] = e]
        /\ out' = out \o Copies(x, k) /\ ends' = ends \o Copies(e, k)
        /\ UNCHANGED log /\ "GetOutput" \in Readers
    BY <1>0, <1>4 DEF ScanGet, Scan, programVars, Readers
  <2>2. /\ e \in 1..Len(log) /\ p < e
        /\ \A n \in p + 1 .. e - 1 : log[n] # "nl"
        /\ x = Text(p, e) /\ x \in Seq(Symbols)
    BY <1>0, <2>1, TheLine
  <2>3. Begins(p, e) /\ (p = 0 \/ log[p] = "nl")
    BY <1>0, <2>1, NextBegins
  <2>4. k \in Nat /\ k # 0
    BY <1>0, Accepted
  <2>5. pos'["GetOutput"] = e
    BY <2>1 DEF Typed, LogTypeOK
  <2>6. /\ out' \in Seq(Seq(Symbols)) /\ Len(out') = Len(out) + k
        /\ \A j \in 1 .. Len(out) : out'[j] = out[j]
        /\ \A j \in Len(out) + 1 .. Len(out) + k : out'[j] = x
    <3>1. out \in Seq(Seq(Symbols)) /\ x \in Seq(Symbols) /\ k \in Nat
      BY <1>2, <2>2, <2>4
    <3>2. out \o Copies(x, k) \in Seq(Seq(Symbols)) /\ Extends(out \o Copies(x, k), out, x, k)
      BY <3>1, CopiesAppended
    <3> QED BY <2>1, <3>2 DEF Extends
  <2>7. /\ ends' \in Seq(Nat) /\ Len(ends') = Len(out) + k
        /\ \A j \in 1 .. Len(out) : ends'[j] = ends[j]
        /\ \A j \in Len(out) + 1 .. Len(out) + k : ends'[j] = e
    <3>1. ends \in Seq(Nat) /\ e \in Nat /\ k \in Nat
      BY <1>2, <2>2, <2>4
    <3>2. ends \o Copies(e, k) \in Seq(Nat) /\ Extends(ends \o Copies(e, k), ends, e, k)
      BY <3>1, CopiesAppended
    <3>3. ends' = ends \o Copies(e, k) /\ Len(ends) = Len(out)
      BY <1>2, <2>1
    <3> QED BY <3>2, <3>3 DEF Extends
  <2>8. DOMAIN out' = 1 .. Len(out) + k
    BY <2>6, LenProperties
  <2>9. \A i, f : (Begins(i, f)' <=> Begins(i, f)) /\ Text(i, f)' = Text(i, f)
    BY <2>1 DEF Begins, Text
  <2>10. ASSUME NEW n \in DOMAIN out'
         PROVE  /\ ends'[n] \in 1..e
                /\ ends'[n] = e \/ log[ends'[n]] = "nl"
                /\ \E i \in 0..ends'[n] - 1 :
                      Begins(i, ends'[n]) /\ out'[n] = Text(i, ends'[n])
    <3>1. CASE n \in 1..Len(out)
      <4>1. ends'[n] = ends[n] /\ out'[n] = out[n] /\ n \in DOMAIN out
        BY <1>2, <2>6, <2>7, <3>1
      <4>2. /\ ends[n] \in 1..p
            /\ ends[n] = p \/ log[ends[n]] = "nl"
            /\ \E i \in 0..ends[n] - 1 : Begins(i, ends[n]) /\ out[n] = Text(i, ends[n])
        BY <1>3, <4>1
      <4>3. ends[n] \in 1..e /\ log[ends[n]] = "nl"
        BY <1>1, <2>2, <2>3, <4>2
      <4> QED BY <4>1, <4>2, <4>3
    <3>2. CASE n \in Len(out) + 1 .. Len(out) + k
      <4>1. ends'[n] = e /\ out'[n] = x
        BY <2>6, <2>7, <3>2
      <4>2. e \in 1..e /\ p \in 0 .. e - 1
        BY <1>1, <2>2
      <4> QED BY <2>2, <2>3, <4>1, <4>2
    <3> QED BY <1>2, <2>4, <2>8, <3>1, <3>2
  <2>11. ASSUME NEW f \in 1..e, f = e \/ log[f] = "nl"
         PROVE  \E n \in DOMAIN out' : ends'[n] = f /\ \A m \in 1..n - 1 : ends'[m] < f
    <3>1. CASE f = e
      <4>1. Len(out) + 1 \in DOMAIN out' /\ ends'[Len(out) + 1] = e
        <5>1. Len(out) + 1 \in Len(out) + 1 .. Len(out) + k
          BY <1>2, <2>4
        <5>2. Len(out) + 1 \in 1 .. Len(out) + k
          BY <1>2, <2>4
        <5>3. ends'[Len(out) + 1] = e
          BY <2>7, <5>1, Zenon
        <5> QED BY <2>8, <5>2, <5>3
      <4>2. ASSUME NEW m \in 1 .. Len(out) + 1 - 1 PROVE ends'[m] < f
        <5>1. m \in 1..Len(out)
          BY <1>2
        <5>2. ends'[m] = ends[m] /\ ends[m] \in 1..p
          BY <1>2, <1>3, <2>7, <5>1
        <5> QED BY <1>1, <2>2, <3>1, <5>2
      <4> QED BY <3>1, <4>1, <4>2
    <3>2. CASE f # e
      <4>1. f \in 1..p /\ log[f] = "nl"
        BY <1>1, <2>2, <2>11, <3>2
      <4>2. PICK n \in 1..Len(out) : ends[n] = f /\ \A m \in 1..n - 1 : ends[m] < f
        BY <1>2, <1>3, <4>1
      <4>3. n \in DOMAIN out' /\ ends'[n] = f
        <5>1. ends'[n] = f
          BY <2>7, <4>2
        <5>2. n \in 1 .. Len(out) + k
          BY <1>2, <2>4, <4>2
        <5> QED BY <2>8, <5>1, <5>2
      <4>4. ASSUME NEW m \in 1..n - 1 PROVE ends'[m] < f
        <5>1. m \in 1..Len(out)
          BY <1>2
        <5>2. ends'[m] = ends[m]
          BY <2>7, <5>1
        <5> QED BY <4>2, <5>2
      <4> QED BY <4>3, <4>4
    <3> QED BY <3>1, <3>2
  <2>12. Len(ends') = Len(out')
    BY <2>6, <2>7
  <2>13. log' = log
    BY <2>1
  <2>14. ASSUME NEW n \in DOMAIN out'
         PROVE  (\E i \in 0..ends[n] - 1 : Begins(i, ends[n]) /\ out[n] = Text(i, ends[n]))'
    <3>1. PICK f : f = ends'[n]
      OBVIOUS
    <3>2. PICK i \in 0..f - 1 : Begins(i, f) /\ out'[n] = Text(i, f)
      BY <2>10, <3>1
    <3>3. Begins(i, f)' /\ out'[n] = Text(i, f)'
      BY <2>9, <3>2
    <3> QED BY <3>1, <3>2, <3>3 DEF Begins, Text
  <2> QED BY <2>5, <2>10, <2>11, <2>12, <2>13, <2>14 DEF Got
<1>5. CASE pos'["GetOutput"] = pos["GetOutput"] /\ UNCHANGED <<out, ends>>
  <2>1. pos'["GetOutput"] = p /\ out' = out /\ ends' = ends
    BY <1>0, <1>5
  <2>2. ASSUME NEW n \in DOMAIN out
        PROVE  /\ ends[n] \in 1..p
               /\ ends[n] = p \/ log'[ends[n]] = "nl"
               /\ (\E i \in 0..ends[n] - 1 : Begins(i, ends[n]) /\ out[n] = Text(i, ends[n]))'
    <3>1. PICK f : f = ends[n]
      OBVIOUS
    <3>2. /\ f \in 1..p /\ f \in 1..Len(log)
          /\ f = p \/ log[f] = "nl"
          /\ \E i \in 0..f - 1 : Begins(i, f) /\ out[n] = Text(i, f)
      BY <1>1, <1>3, <3>1
    <3>3. PICK i \in 0..f - 1 : Begins(i, f) /\ out[n] = Text(i, f)
      BY <3>2
    <3>4. log'[f] = log[f] /\ Begins(i, f)' /\ Text(i, f)' = Text(i, f)
      BY <3>2, <3>3, LinesStay DEF Typed
    <3>5. (\E j \in 0..ends[n] - 1 : Begins(j, ends[n]) /\ out[n] = Text(j, ends[n]))'
      <4>1. ends'[n] = f /\ out'[n] = Text(i, f)' /\ Begins(i, f)'
        BY <2>1, <3>1, <3>3, <3>4
      <4> QED BY <3>3, <4>1 DEF Begins, Text
    <3> QED BY <3>1, <3>2, <3>4, <3>5
  <2>3. ASSUME NEW f \in 1..p, f = p \/ log'[f] = "nl"
        PROVE  \E n \in DOMAIN out : ends[n] = f /\ \A m \in 1..n - 1 : ends[m] < f
    <3>1. f \in 1..Len(log)
      BY <1>1
    <3>2. log'[f] = log[f]
      BY <3>1, Grows DEF Typed
    <3> QED BY <1>3, <2>3, <3>2
  <2> QED BY <1>2, <2>1, <2>2, <2>3 DEF Got
<1> QED BY <1>4, <1>5, GetSteps DEF Typed

--------------------------------------------------------------------------------
(* The pattern, the frames and the lines. *)

\* The pattern has no newline and no header in it.
LEMMA PatternIs ==
  /\ Pattern \in Seq(Pieces) /\ Pattern \in Seq(Symbols)
  /\ Len(Pattern) \in Nat
  /\ \A j \in 1..Len(Pattern) : Pattern[j] \notin {"nl", "hd", "hdr"}
<1>1. Pattern \in Seq(Pieces) /\ Len(Pattern) \in Nat
  BY LogStreamAssumption, LenProperties
<1>2. \A j \in 1..Len(Pattern) : Pattern[j] \in Pieces
  BY <1>1, ElementOfSeq
<1>3. Pattern \in Seq(Symbols)
  <2>1. \A j \in 1..Len(Pattern) : Pattern[j] \in Symbols
    BY <1>2 DEF Symbols
  <2> QED BY <1>1, <2>1, SeqDef, LenProperties
<1> QED BY <1>1, <1>2, <1>3, LogStreamAssumption

\* Nor have the literal texts of a matcher.
LEMMA LiteralIs ==
  ASSUME NEW k \in Kinds, NEW p \in Literals(k)
  PROVE  /\ p \in Seq(Symbols) /\ p \in Seq(Pieces \union {"nl"}) /\ Len(p) \in Nat
         /\ \A j \in 1..Len(p) : p[j] \notin {"nl", "hd", "hdr"}
<1>1. CASE k # "gap"
  <2>1. p = Pattern
    BY <1>1 DEF Literals
  <2>2. \A j \in 1..Len(Pattern) : Pattern[j] \in Pieces \union {"nl"}
    BY PatternIs, ElementOfSeq
  <2>3. Pattern \in Seq(Pieces \union {"nl"})
    BY <2>2, PatternIs, SeqDef, LenProperties
  <2> QED BY <2>1, <2>3, PatternIs
<1>2. CASE k = "gap"
  <2>1. Pattern # <<>> /\ Pattern \in Seq(Pieces)
    BY <1>2, LogStreamAssumption
  <2>2. Len(Pattern) \in Nat /\ Len(Pattern) # 0
    BY <2>1, LenProperties, EmptySeq
  <2>3. 1 \in 1..Len(Pattern) /\ Len(Pattern) \in 1..Len(Pattern)
    BY <2>2
  <2>4. PICK x : p = <<x>> /\ x \in Pieces /\ x \notin {"nl", "hd", "hdr"}
    <3>1. \A j \in 1..Len(Pattern) : Pattern[j] \in Pieces
      BY <2>1, ElementOfSeq
    <3> QED BY <1>2, <2>3, <3>1, PatternIs DEF Literals
  <2> QED BY <2>4 DEF Symbols
<1> QED BY <1>1, <1>2

\* Where the log has the pattern, between the ends of a line, the line has it.
LEMMA LineHasPart ==
  ASSUME LogTypeOK, NEW i \in Nat, NEW e \in 1..Len(log), i < e,
         NEW q \in Nat, i <= q, q + Len(Pattern) <= e, PartOf(Pattern, log, q)
  PROVE  Occurs(Pattern, Text(i, e))
<1>1. log \in Seq(Symbols) /\ Len(log) \in Nat
  BY LenProperties DEF LogTypeOK
<1>2. /\ Pattern \in Seq(Symbols) /\ Len(Pattern) \in Nat
      /\ \A j \in 1..Len(Pattern) : Pattern[j] # "nl"
  BY PatternIs
<1>3. PICK m \in Nat : m = (IF log[e] = "nl" THEN e - 1 ELSE e) /\ m <= Len(log) /\ i <= m
  BY <1>1
<1>4. PICK t : t = Text(i, e)
  OBVIOUS
<1>5. t = SubSeq(log, i + 1, m)
  BY <1>3, <1>4 DEF Text
<1>6. /\ t \in Seq(Symbols) /\ Len(t) = m - i
      /\ \A j \in 1 .. m - i : t[j] = log[i + j]
  BY <1>1, <1>3, <1>5, Slice
<1>7. CASE Len(Pattern) = 0
  <2>1. PartOf(Pattern, t, 0) /\ 0 \in 0..Len(t)
    BY <1>3, <1>6, <1>7 DEF PartOf
  <2> QED BY <1>2, <1>4, <1>6, <2>1, OccursIsPart
<1>8. CASE Len(Pattern) # 0
  <2>1. log[e] = "nl" => q + Len(Pattern) # e
    <3>1. Len(Pattern) \in 1..Len(Pattern)
      BY <1>2, <1>8
    <3>2. log[q + Len(Pattern)] = Pattern[Len(Pattern)]
      BY <3>1 DEF PartOf
    <3> QED BY <1>2, <3>1, <3>2
  <2>2. q + Len(Pattern) <= m
    BY <1>2, <1>3, <2>1
  <2>3. PICK a \in Nat : q = i + a
    <3>1. q - i \in Nat /\ q = i + (q - i)
      OBVIOUS
    <3> QED BY <3>1
  <2>4. a + Len(Pattern) <= m - i /\ a \in 0..Len(t)
    BY <1>2, <1>3, <1>6, <2>2, <2>3
  <2>5. ASSUME NEW j \in 1..Len(Pattern) PROVE Pattern[j] = t[a + j]
    <3>1. a + j \in 1 .. m - i /\ i + (a + j) = q + j
      BY <1>2, <1>3, <2>3, <2>4
    <3>2. t[a + j] = log[q + j]
      BY <1>6, <3>1
    <3> QED BY <3>2 DEF PartOf
  <2>6. PartOf(Pattern, t, a)
    BY <1>6, <2>4, <2>5 DEF PartOf
  <2> QED BY <1>2, <1>4, <1>6, <2>4, <2>6, OccursIsPart
<1> QED BY <1>7, <1>8

\* A frame that ends in a line of the log lies in it: only its last symbol
\* may be a newline.
LEMMA FrameInLine ==
  ASSUME Typed, Framed, NEW n \in DOMAIN frames,
         NEW p \in Nat, p = 0 \/ (p \in DOMAIN log /\ log[p] = "nl"),
         p < frames[n].end
  PROVE  p <= frames[n].end - Len(frames[n].text)
<1>1. PICK t, z : t = frames[n].text /\ z = frames[n].end
  OBVIOUS
<1>2. t \in Seq(Pieces \union {"nl"}) /\ Len(t) \in Nat /\ z \in Nat
  <2>1. frames \in Seq([text : Seq(Pieces \union {"nl"}), end : Nat])
        /\ DOMAIN frames = 1..Len(frames)
    BY LenProperties DEF Typed, LogTypeOK
  <2>2. frames[n] \in [text : Seq(Pieces \union {"nl"}), end : Nat]
    BY <2>1, ElementOfSeq
  <2> QED BY <1>1, <2>2, LenProperties
<1>3. PICK l \in said : \E o \in 0..Len(l) : PartOf(t, l, o)
  BY <1>1 DEF Framed
<1>4. PICK o \in 0..Len(l) : PartOf(t, l, o)
  BY <1>3
<1>5. /\ l \in Seq(Pieces \union {"nl"}) /\ Len(l) \in Nat /\ DOMAIN l = 1..Len(l)
      /\ \A k \in DOMAIN l : l[k] = "nl" <=> k = Len(l)
  BY LogStreamAssumption, LenProperties DEF Typed, LogTypeOK
<1>6. Len(t) < z /\ PartOf(t, log, z - Len(t))
  BY <1>1 DEF Framed
<1> SUFFICES ASSUME z - Len(t) < p PROVE FALSE
  BY <1>1, <1>2
<1>7. p # 0
  BY <1>2, <1>6
<1>8. PICK j \in 1..Len(t) : z - Len(t) + j = p /\ j < Len(t)
  <2>1. p < z
    BY <1>1
  <2>2. p - (z - Len(t)) \in 1..Len(t) /\ z - Len(t) + (p - (z - Len(t))) = p
        /\ p - (z - Len(t)) < Len(t)
    BY <1>2, <1>6, <2>1
  <2> QED BY <2>2
<1>9. t[j] = "nl"
  BY <1>6, <1>7, <1>8 DEF PartOf
<1>10. o + Len(t) <= Len(l) /\ t[j] = l[o + j]
  BY <1>4, <1>8 DEF PartOf
<1>11. o + j \in DOMAIN l /\ o + j # Len(l)
  <2>1. o \in Nat /\ Len(l) \in Nat /\ DOMAIN l = 1..Len(l) /\ j < Len(t)
    BY <1>4, <1>5, <1>8
  <2>2. Len(t) \in Nat /\ o + Len(t) <= Len(l) /\ j \in Nat /\ 1 <= j
    BY <1>2, <1>10
  <2>3. 1 <= o + j /\ o + j < Len(l) /\ o + j \in Nat
    BY <2>1, <2>2
  <2>4. o + j # Len(l)
    BY <2>3
  <2>5. \A a, b \in Nat : (1 <= a /\ a < b) => a \in 1..b
    OBVIOUS
  <2>6. Len(l) \in Nat
    BY <2>1
  <2>7. o + j \in 1..Len(l)
    BY <2>3, <2>5, <2>6, Zenon
  <2>8. DOMAIN l = 1..Len(l)
    BY <2>1
  <2> QED BY <2>4, <2>7, <2>8, Zenon
<1> QED BY <1>5, <1>9, <1>10, <1>11

\* The frames stay, and a new one ends behind the log that was.
LEMMA FramesStay ==
  ASSUME LogTypeOK, RestSaid, [Next]_logVars, NEW n \in DOMAIN frames'
  PROVE  \/ n \in DOMAIN frames /\ frames'[n] = frames[n]
         \/ frames'[n].end \in Nat /\ Len(log) < frames'[n].end
<1>1. ASSUME NEW s \in Streams, Write(s)
      PROVE  \/ n \in DOMAIN frames /\ frames'[n] = frames[n]
             \/ frames'[n].end \in Nat /\ Len(log) < frames'[n].end
  <2>1. PICK text \in Seq(Pieces \union {"nl"}) : Writes(s, text)
    BY <1>1, WriteWhat
  <2>2. PICK f \in Seq(Pieces \union {"nl"}) : Emit(f)
    BY <2>1, WritesWhat
  <2>3. /\ Len(log) + Len(f) < Len(log')
        /\ Len(log) \in Nat /\ Len(log') \in Nat /\ Len(f) \in Nat
        /\ Len(frames) \in Nat /\ DOMAIN frames = 1..Len(frames)
        /\ DOMAIN frames' = 1 .. Len(frames) + 1
        /\ \A i \in 1..Len(frames) : frames'[i] = frames[i]
        /\ frames'[Len(frames) + 1] = [text |-> f, end |-> Len(log')]
    BY <2>2, EmitWhat
  <2>4. CASE n \in 1..Len(frames)
    BY <2>3, <2>4
  <2>5. CASE n = Len(frames) + 1
    <3>1. frames'[n].end = Len(log')
      BY <2>3, <2>5
    <3> QED BY <2>3, <3>1
  <2> QED BY <2>3, <2>4, <2>5
<1>2. CASE UNCHANGED <<rest, log, frames, said>>
  BY <1>2
<1> QED BY <1>1, <1>2, Steps

\* AwaitOutput's scan passes a frame with the text only in a line with it.
LEMMA SubstringKept ==
  ASSUME Typed, RestSaid, Framed, Placed, SubstringNeverMissed, [Next]_logVars
  PROVE  SubstringNeverMissed'
<1>0. PICK p, e : p = pos["AwaitOutput"] /\ e = LineEnd("AwaitOutput")
  OBVIOUS
<1>1. /\ p \in Nat /\ p <= Len(log) /\ Len(log) \in Nat /\ log \in Seq(Symbols)
      /\ frames \in Seq([text : Seq(Pieces \union {"nl"}), end : Nat])
      /\ DOMAIN frames = 1..Len(frames)
  BY <1>0, LenProperties DEF Typed, LogTypeOK, Readers
<1>2. \A n \in DOMAIN frames :
        /\ frames[n].text \in Seq(Pieces \union {"nl"}) /\ Len(frames[n].text) \in Nat
        /\ frames[n].end \in Nat
  <2>1. \A n \in DOMAIN frames : frames[n] \in [text : Seq(Pieces \union {"nl"}), end : Nat]
    BY <1>1, ElementOfSeq
  <2> QED BY <2>1, LenProperties
<1>3. CASE ScanAwait
  <2>1. /\ result["AwaitOutput"] = "reading" /\ HasLine("AwaitOutput")
        /\ pos' = [pos EXCEPT !["AwaitOutput"] = e]
        /\ UNCHANGED <<log, kind, frames>> /\ "AwaitOutput" \in Readers
    BY <1>0, <1>3 DEF ScanAwait, Scan, programVars, choiceVars, Readers
  <2>2. e \in 1..Len(log) /\ p < e /\ Line("AwaitOutput") = Text(p, e)
    BY <1>0, <2>1, TheLine
  <2>3. p = 0 \/ (p \in DOMAIN log /\ log[p] = "nl")
    BY <1>0, <2>1, NextBegins
  <2>4. pos'["AwaitOutput"] = e
    BY <2>1 DEF Typed, LogTypeOK
  <2>5. SUFFICES ASSUME kind = "substring", result'["AwaitOutput"] \in {"reading", "end"},
                        NEW n \in DOMAIN frames, frames[n].end <= e
                 PROVE  ~Occurs(Pattern, frames[n].text)
    BY <2>1, <2>4 DEF SubstringNeverMissed, Occurs
  <2>6. ~Matches(kind, Line("AwaitOutput"))
    BY <1>3, <2>5 DEF ScanAwait, Finish, Typed, LogTypeOK, Readers
  <2>7. ~Occurs(Pattern, Text(p, e))
    BY <2>2, <2>5, <2>6 DEF Matches
  <2>8. CASE frames[n].end <= p
    BY <1>0, <2>1, <2>5, <2>8 DEF SubstringNeverMissed
  <2>9. CASE ~(frames[n].end <= p)
    <3>1. PICK t, z : t = frames[n].text /\ z = frames[n].end
      OBVIOUS
    <3>2. t \in Seq(Pieces \union {"nl"}) /\ Len(t) \in Nat /\ z \in Nat /\ z <= e
      BY <1>2, <2>5, <3>1
    <3>3. p <= z - Len(t)
      BY <1>1, <1>2, <2>3, <2>9, <3>1, FrameInLine
    <3>4. Len(t) < z /\ PartOf(t, log, z - Len(t))
      BY <3>1 DEF Framed
    <3>5. t \in Seq(Symbols)
      <4>1. \A j \in 1..Len(t) : t[j] \in Symbols
        BY <3>2, ElementOfSeq DEF Symbols
      <4> QED BY <3>2, <4>1, SeqDef, LenProperties
    <3>6. SUFFICES ASSUME Occurs(Pattern, t) PROVE FALSE
      BY <3>1
    <3>7. PICK a \in 0..Len(t) : PartOf(Pattern, t, a)
      BY <3>5, <3>6, PatternIs, OccursIsPart
    <3>8. PICK b \in Nat : b = z - Len(t)
      <4>1. z - Len(t) \in Nat
        BY <3>2, <3>4
      <4> QED BY <4>1
    <3>9. PartOf(Pattern, log, b + a) /\ b + a \in Nat
      <4>1. PartOf(t, log, b) /\ a \in Nat /\ b \in Nat
        BY <3>2, <3>4, <3>7, <3>8
      <4>2. PartOf(Pattern, log, b + a)
        BY <1>1, <3>5, <3>7, <4>1, PatternIs, PartOfPart
      <4> QED BY <4>1, <4>2
    <3>10. p <= b + a /\ b + a + Len(Pattern) <= e
      <4>1. PICK k : k = Len(Pattern) /\ k \in Nat
        BY PatternIs
      <4>2. a + k <= Len(t) /\ a \in Nat
        BY <3>2, <3>7, <4>1 DEF PartOf
      <4>3. p <= b /\ b + Len(t) = z
        BY <3>2, <3>3, <3>8
      <4>4. p <= b + a /\ b + a + k <= e
        <5>1. p \in Nat /\ e \in Nat /\ z \in Nat /\ z <= e /\ Len(t) \in Nat
          BY <1>1, <2>2, <3>2
        <5> QED BY <4>1, <4>2, <4>3, <5>1
      <4> QED BY <4>1, <4>4
    <3>11. Occurs(Pattern, Text(p, e))
      BY <1>1, <2>2, <3>9, <3>10, LineHasPart DEF Typed
    <3> QED BY <2>7, <3>11
  <2> QED BY <2>8, <2>9
<1>4. CASE /\ pos'["AwaitOutput"] = pos["AwaitOutput"] /\ UNCHANGED <<hit, kind>>
           /\ \/ result'["AwaitOutput"] = result["AwaitOutput"]
              \/ result["AwaitOutput"] = "none" /\ result'["AwaitOutput"] \in {"reading", "ctx"}
              \/ /\ result["AwaitOutput"] = "reading"
                 /\ result'["AwaitOutput"] \in {"end", "toolong", "ctx", "broken"}
  <2>1. SUFFICES ASSUME kind = "substring", result'["AwaitOutput"] \in {"reading", "end"},
                        NEW n \in DOMAIN frames', frames'[n].end <= p
                 PROVE  ~Occurs(Pattern, frames'[n].text)
    BY <1>0, <1>4 DEF SubstringNeverMissed, Occurs
  <2>2. n \in DOMAIN frames /\ frames'[n] = frames[n]
    <3>1. ~(frames'[n].end \in Nat /\ Len(log) < frames'[n].end)
      BY <1>1, <2>1
    <3> QED BY <3>1, FramesStay DEF Typed
  <2>3. CASE result["AwaitOutput"] \in {"reading", "end"}
    BY <1>0, <2>1, <2>2, <2>3 DEF SubstringNeverMissed
  <2>4. CASE result["AwaitOutput"] = "none"
    <3>1. p = 0
      BY <1>0, <2>4 DEF Placed, Readers
    <3>2. Len(frames[n].text) < frames[n].end
      BY <2>2 DEF Framed
    <3> QED BY <1>2, <2>1, <2>2, <3>1, <3>2
  <2> QED BY <1>4, <2>1, <2>3, <2>4
<1>5. CASE RestAccepted
  BY <1>5 DEF RestAccepted, SubstringNeverMissed
<1> QED BY <1>3, <1>4, <1>5, AwaitSteps DEF Typed

--------------------------------------------------------------------------------
(* The theorems. *)

LEMMA InitHolds == Init => LogInv /\ SubstringNeverMissed
<1> SUFFICES ASSUME Init PROVE LogInv /\ SubstringNeverMissed
  OBVIOUS
<1>1. /\ \A s \in Streams : rest[s] = <<>>
      /\ log = <<>> /\ frames = <<>> /\ out = <<>> /\ ends = <<>>
      /\ \A r \in Readers : pos[r] = 0 /\ result[r] = "none"
      /\ matchers = <<"every", kind>>
  BY DEF Init
<1>2. DOMAIN log = {} /\ DOMAIN frames = {} /\ DOMAIN out = {} /\ Len(ends) = Len(out)
  BY <1>1
<1>3. pos["AwaitOutput"] = 0 /\ pos["GetOutput"] = 0
      /\ result["AwaitOutput"] = "none" /\ result["GetOutput"] = "none"
  BY <1>1 DEF Readers
<1>4. RestSaid /\ Framed
  BY <1>1, <1>2 DEF RestSaid, Framed
<1>5. \A r \in Readers : Between(r) /\ (result[r] = "none" => pos[r] = 0)
  BY <1>1 DEF Between
<1>6. 1..0 = {}
  OBVIOUS
<1>7. Awaited
  BY <1>3, <1>6 DEF Awaited, PassedNone
<1>8. Got
  BY <1>2, <1>3, <1>6 DEF Got
<1>9. SubstringNeverMissed
  BY <1>3 DEF SubstringNeverMissed
<1> QED BY <1>1, <1>3, <1>4, <1>5, <1>7, <1>8, <1>9 DEF LogInv

LEMMA InvKept ==
  ASSUME LogTypeOK, LogInv, SubstringNeverMissed, [Next]_logVars
  PROVE  LogTypeOK' /\ LogInv' /\ SubstringNeverMissed'
<1>1. Typed /\ RestSaid /\ Framed /\ Placed /\ Awaited /\ Got
  BY DEF LogInv, Typed, Placed
<1>2. Typed'
  BY <1>1, TypeKept
<1>3. RestSaid' /\ Framed'
  BY <1>1, ProgramKept
<1>4. Placed'
  BY <1>1, PlacedKept
<1>5. Awaited'
  BY <1>1, AwaitedKept
<1>6. Got'
  BY <1>1, GotKept
<1>7. SubstringNeverMissed'
  BY <1>1, SubstringKept
<1> QED BY <1>2, <1>3, <1>4, <1>5, <1>6, <1>7 DEF LogInv, Typed, Placed

\* Everything keeps its type, no reader is beyond the end of the log, and
\* GetOutput not beyond the log it asked for (container.go AwaitOutput,
\* GetOutput).
THEOREM LogTypeCorrect == Spec => []LogTypeOK
<1>1. Init => LogTypeOK /\ LogInv /\ SubstringNeverMissed
  BY TypeAtFirst, InitHolds DEF Typed
<1>2. (LogTypeOK /\ LogInv /\ SubstringNeverMissed) /\ [Next]_logVars
        => (LogTypeOK /\ LogInv /\ SubstringNeverMissed)'
  BY InvKept
<1> QED BY <1>1, <1>2, PTL DEF Spec

\* The frames lie in the log as the daemon sent them, and the readers have
\* taken every line up to where they are (container.go AwaitOutput,
\* GetOutput).
THEOREM LogInductive == Spec => []LogInv
<1>1. Init => LogTypeOK /\ LogInv /\ SubstringNeverMissed
  BY TypeAtFirst, InitHolds DEF Typed
<1>2. (LogTypeOK /\ LogInv /\ SubstringNeverMissed) /\ [Next]_logVars
        => (LogTypeOK /\ LogInv /\ SubstringNeverMissed)'
  BY InvKept
<1> QED BY <1>1, <1>2, PTL DEF Spec

\* AwaitOutput with a substring matcher passes no frame that has the text,
\* whatever header, other stream or unfinished line stands before it
\* (container.go AwaitOutput, matcher.go NewSubstringMatcher).
THEOREM SubstringIsSeen == Spec => []SubstringNeverMissed
<1>1. Init => LogTypeOK /\ LogInv /\ SubstringNeverMissed
  BY TypeAtFirst, InitHolds DEF Typed
<1>2. (LogTypeOK /\ LogInv /\ SubstringNeverMissed) /\ [Next]_logVars
        => (LogTypeOK /\ LogInv /\ SubstringNeverMissed)'
  BY InvKept
<1> QED BY <1>1, <1>2, PTL DEF Spec

\* Every text the matcher of AwaitOutput asks for a line of the program has,
\* and one frame has it: it is not pieced together from the frames of two
\* streams, as headers stand between them.  Nothing is said of what a
\* wildcard stands for, nor that the texts on its two sides are of one line
\* (container.go AwaitOutput, matcher.go NewRegexpMatcher).
THEOREM AcceptedWasSaid == Spec => []MatchedWasSaid
<1>1. LogTypeOK /\ LogInv => MatchedWasSaid
  <2> SUFFICES ASSUME LogTypeOK, LogInv, result["AwaitOutput"] \in {"matched", "rest"},
                      NEW w \in Literals(kind)
               PROVE  \E l \in said : Occurs(w, l)
    BY DEF MatchedWasSaid
  <2>0. PICK p : p = pos["AwaitOutput"]
    OBVIOUS
  <2>1. /\ log \in Seq(Symbols) /\ Len(log) \in Nat /\ DOMAIN log = 1..Len(log)
        /\ hit \in Seq(Symbols) /\ kind \in Kinds
    BY LenProperties DEF LogTypeOK
  <2>2. /\ w \in Seq(Symbols) /\ w \in Seq(Pieces \union {"nl"}) /\ Len(w) \in Nat
        /\ \A j \in 1..Len(w) : w[j] \notin {"nl", "hd", "hdr"}
    BY <2>1, LiteralIs
  <2>3. Matches(kind, hit) /\ \E i \in Nat : PartOf(hit, log, i) /\ log # <<>>
    <3>1. CASE result["AwaitOutput"] = "matched"
      <4>0. p \in DOMAIN log /\ Matches(kind, hit)
        BY <2>0, <3>1 DEF LogInv, Awaited
      <4>1. PICK i \in 0..p - 1 : hit = Text(i, p)
        BY <2>0, <3>1 DEF LogInv, Awaited
      <4>2. PICK m \in Nat : m = (IF log[p] = "nl" THEN p - 1 ELSE p) /\ m <= Len(log) /\ i <= m
        BY <2>1, <4>0
      <4>3. hit = SubSeq(log, i + 1, m)
        BY <4>1, <4>2 DEF Text
      <4>4. Len(hit) = m - i /\ \A j \in 1 .. m - i : hit[j] = log[i + j]
        <5>1. i \in Nat /\ log \in Seq(Symbols) /\ m \in Nat /\ m <= Len(log) /\ i <= m
          BY <2>1, <4>2
        <5>2. /\ Len(SubSeq(log, i + 1, m)) = IF i <= m THEN m - i ELSE 0
              /\ \A j \in 1 .. m - i : SubSeq(log, i + 1, m)[j] = log[i + j]
          BY <5>1, Slice
        <5> QED BY <4>3, <5>1, <5>2
      <4>5. PartOf(hit, log, i) /\ log # <<>>
        BY <2>1, <4>0, <4>2, <4>4 DEF PartOf
      <4> QED BY <4>0, <4>5
    <3>2. CASE result["AwaitOutput"] = "rest"
      <4>1. Matches(kind, hit) /\ hit # <<>> /\ PartOf(hit, log, p) /\ p \in Nat
        BY <2>0, <3>2 DEF LogInv, Awaited, LogTypeOK, Readers
      <4>2. Len(hit) \in Nat /\ Len(hit) # 0
        BY <2>1, <4>1, LenProperties, EmptySeq
      <4>3. Len(log) # 0
        BY <2>1, <4>1, <4>2 DEF PartOf
      <4> QED BY <4>1, <4>3
    <3> QED BY <3>1, <3>2
  <2>4. \A l \in said : l \in Seq(Pieces \union {"nl"}) /\ Len(l) \in Nat
    BY LogStreamAssumption, LenProperties DEF LogTypeOK
  <2>5. ASSUME NEW l \in said, NEW o \in 0..Len(l), PartOf(w, l, o)
        PROVE  Occurs(w, l)
    BY <2>2, <2>4, <2>5, OccursIsPart
  <2>6. CASE Len(w) = 0
    <3>1. log # <<>>
      BY <2>3
    <3>2. PICK l \in said : TRUE
      BY <3>1 DEF LogInv, Framed
    <3>3. 0 \in 0..Len(l) /\ PartOf(w, l, 0)
      BY <2>4, <2>6 DEF PartOf
    <3> QED BY <2>5, <3>3
  <2>7. CASE Len(w) # 0
    <3>1. PICK a \in 0..Len(hit) : PartOf(w, hit, a)
      <4>1. Occurs(w, hit)
        BY <2>1, <2>2, <2>3, PatternIs, MatchesOccurs
      <4> QED BY <2>1, <2>2, <4>1, OccursIsPart
    <3>2. PICK i \in Nat : PartOf(hit, log, i)
      BY <2>3
    <3>3. PICK q \in Nat : PartOf(w, log, q)
      <4>1. i \in Nat /\ a \in Nat
        BY <2>1, LenProperties
      <4>2. PartOf(w, log, i + a) /\ i + a \in Nat
        BY <2>1, <2>2, <3>1, <3>2, <4>1, PartOfPart
      <4> QED BY <4>2
    <3>4. PICK k \in Nat : k = Len(w) /\ k # 0
      BY <2>2, <2>7
    <3>5. q + k <= Len(log) /\ \A j \in 1..k : w[j] = log[q + j]
      BY <3>3, <3>4 DEF PartOf
    <3>6. \A j \in 1..k : log[q + j] \notin {"nl", "hd", "hdr"}
      BY <2>2, <3>4, <3>5
    <3>7. q + 1 \in DOMAIN log /\ log[q + 1] \notin {"nl", "hd", "hdr"}
      BY <2>1, <3>4, <3>5, <3>6
    <3>8. PICK n \in DOMAIN frames : q + 1 \in frames[n].end - Len(frames[n].text) + 1 .. frames[n].end
      BY <3>7 DEF LogInv, Framed
    <3>9. PICK t, z : t = frames[n].text /\ z = frames[n].end
      OBVIOUS
    <3>10. t \in Seq(Pieces \union {"nl"}) /\ Len(t) \in Nat /\ z \in Nat
      <4>1. frames \in Seq([text : Seq(Pieces \union {"nl"}), end : Nat])
            /\ DOMAIN frames = 1..Len(frames)
        BY LenProperties DEF LogTypeOK
      <4>2. frames[n] \in [text : Seq(Pieces \union {"nl"}), end : Nat]
        BY <4>1, ElementOfSeq
      <4> QED BY <3>9, <4>2, LenProperties
    <3>11. /\ \E l \in said : \E o \in 0..Len(l) : PartOf(t, l, o)
           /\ Len(t) < z /\ PartOf(t, log, z - Len(t))
           /\ z < Len(log) => log[z + 1] \in {"hd", "hdr"}
      BY <3>9 DEF LogInv, Framed
    <3>12. q + k <= z
      <4> SUFFICES ASSUME z < q + k PROVE FALSE
        BY <3>4, <3>10
      <4>1. q + 1 <= z /\ z < Len(log)
        BY <2>1, <3>4, <3>5, <3>8, <3>9, <3>10
      <4>2. PICK j \in 1..k : q + j = z + 1
        <5>1. z + 1 - q \in 1..k /\ q + (z + 1 - q) = z + 1
          BY <3>4, <3>10, <4>1
        <5> QED BY <5>1
      <4> QED BY <3>6, <3>11, <4>1, <4>2
    <3>13. PICK b \in Nat : q = z - Len(t) + b
      <4>0. z - Len(t) <= q
        BY <3>8, <3>9, <3>10
      <4>1. q - (z - Len(t)) \in Nat /\ q = z - Len(t) + (q - (z - Len(t)))
        BY <3>10, <4>0
      <4> QED BY <4>1
    <3>14. PartOf(w, t, b)
      <4>1. b + k <= Len(t)
        BY <3>4, <3>10, <3>12, <3>13
      <4>2. ASSUME NEW j \in 1..k PROVE w[j] = t[b + j]
        <5>1. b + j \in 1..Len(t) /\ z - Len(t) + (b + j) = q + j
          BY <3>4, <3>10, <3>13, <4>1
        <5>2. t[b + j] = log[q + j]
          BY <3>11, <5>1 DEF PartOf
        <5> QED BY <3>5, <5>2
      <4> QED BY <3>4, <4>1, <4>2 DEF PartOf
    <3>15. PICK l \in said : \E o \in 0..Len(l) : PartOf(t, l, o)
      BY <3>11
    <3>16. PICK o \in 0..Len(l) : PartOf(t, l, o)
      BY <3>15
    <3>17. PartOf(w, l, o + b) /\ o + b \in 0..Len(l)
      <4>1. l \in Seq(Pieces \union {"nl"}) /\ o \in Nat
        BY <2>4
      <4> QED BY <2>2, <3>10, <3>14, <3>16, <4>1, PartOfPart
    <3> QED BY <2>5, <3>17
  <2> QED BY <2>6, <2>7
<1> QED BY <1>1, LogTypeCorrect, LogInductive, PTL

\* The first line that GetOutput's matcher accepts is the one AwaitOutput
\* accepted, if the log it asked for has it: vault.go GetRootToken takes it
\* for the token (container.go GetOutput).
THEOREM AwaitedFirst == Spec => []AwaitedIsFirst
<1>1. LogTypeOK /\ LogInv => AwaitedIsFirst
  <2> SUFFICES ASSUME LogTypeOK, LogInv,
                      result["AwaitOutput"] = "matched", result["GetOutput"] = "end",
                      upto >= pos["AwaitOutput"]
               PROVE  \E n \in DOMAIN out :
                         /\ out[n] = hit /\ Matches(kind, hit)
                         /\ \A m \in 1..n - 1 : ~Matches(kind, out[m])
    BY DEF AwaitedIsFirst
  <2>0. PICK p : p = pos["AwaitOutput"]
    OBVIOUS
  <2>1. /\ Len(log) \in Nat /\ DOMAIN log = 1..Len(log)
        /\ upto \in Nat /\ upto <= Len(log) /\ pos["GetOutput"] = upto
        /\ DOMAIN out = 1..Len(out) /\ Len(out) \in Nat
    BY LenProperties DEF LogTypeOK, LogInv
  <2>2. PassedNone(p - 1) /\ p \in DOMAIN log /\ Matches(kind, hit)
    BY <2>0 DEF LogInv, Awaited
  <2>3. PICK i \in 0..p - 1 : Begins(i, p) /\ hit = Text(i, p)
    BY <2>0 DEF LogInv, Awaited
  <2>4. p \in 1..upto
    BY <2>0, <2>1, <2>2
  <2>5. p = upto \/ log[p] = "nl"
    <3>1. p = 0 \/ log[p] = "nl" \/ p = Len(log)
      <4>1. Between("AwaitOutput")
        BY DEF LogInv, Readers
      <4> QED BY <2>0, <4>1 DEF Between, Limit, Follows
    <3>2. p \in Nat /\ p <= upto /\ 1 <= p /\ upto <= Len(log) /\ Len(log) \in Nat /\ upto \in Nat
      BY <2>1, <2>4
    <3>3. p = Len(log) => p = upto
      BY <3>2
    <3> QED BY <3>1, <3>2, <3>3
  <2>6. PICK n \in DOMAIN out : ends[n] = p /\ \A m \in 1..n - 1 : ends[m] < p
    BY <2>1, <2>4, <2>5 DEF LogInv, Got
  <2>7. out[n] = hit
    <3>1. PICK j \in 0..p - 1 : Begins(j, p) /\ out[n] = Text(j, p)
      BY <2>6 DEF LogInv, Got
    <3>2. p \in Nat
      BY <2>4
    <3>3. i = j
      BY <2>3, <3>1, <3>2, BeginsOnce
    <3> QED BY <2>3, <3>1, <3>3
  <2>8. ASSUME NEW m \in 1..n - 1 PROVE ~Matches(kind, out[m])
    <3>1. PICK f : f = ends[m]
      OBVIOUS
    <3>2. m \in DOMAIN out
      BY <2>1, <2>6
    <3>3. /\ f \in 1..upto /\ f < p
          /\ f = upto \/ log[f] = "nl"
          /\ \E j \in 0..f - 1 : Begins(j, f) /\ out[m] = Text(j, f)
      BY <2>1, <2>6, <3>1, <3>2 DEF LogInv, Got
    <3>4. PICK j \in 0..f - 1 : Begins(j, f) /\ out[m] = Text(j, f)
      BY <3>3
    <3>5. log[f] = "nl" /\ f \in 1..p - 1 /\ j \in 0..p - 1
      BY <2>4, <3>3
    <3> QED BY <2>2, <3>4, <3>5 DEF PassedNone
  <2> QED BY <2>2, <2>6, <2>7, <2>8
<1> QED BY <1>1, LogTypeCorrect, LogInductive, PTL

================================================================================

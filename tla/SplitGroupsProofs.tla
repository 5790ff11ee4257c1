--------------------------- MODULE SplitGroupsProofs ---------------------------
(* Proofs about module SplitGroups, for every set of layouts.              *)
EXTENDS SplitGroups, SequenceTheorems, FiniteSetTheorems, TLAPS

--------------------------------------------------------------------------------
(* Directories and patterns. *)

Dirs == Seq(Elements)

LEMMA OneElement ==
  ASSUME NEW x \in Elements
  PROVE  <<x>> \in Dirs /\ Len(<<x>>) = 1 /\ <<x>>[1] = x
BY DEF Dirs

\* The first elements of a directory.
LEMMA Beginning ==
  ASSUME NEW d \in Dirs, NEW n \in 1..Len(d)
  PROVE  /\ SubSeq(d, 1, n) \in Dirs /\ Len(SubSeq(d, 1, n)) = n
         /\ \A i \in 1..n : SubSeq(d, 1, n)[i] = d[i]
<1>1. Len(d) \in Nat /\ n \in Int /\ 1 <= n /\ n <= Len(d)
  BY LenProperties DEF Dirs
<1>2. \A i \in 1..n : d[i] \in Elements
  BY <1>1, ElementOfSeq DEF Dirs
<1>3. /\ SubSeq(d, 1, n) \in Seq(Elements)
      /\ Len(SubSeq(d, 1, n)) = IF 1 <= n THEN n - 1 + 1 ELSE 0
      /\ \A i \in 1 .. n - 1 + 1 : SubSeq(d, 1, n)[i] = d[1 + i - 1]
  BY <1>1, <1>2, SubSeqProperties
<1> QED BY <1>1, <1>3 DEF Dirs

\* Two directories begin alike when their elements do.
LEMMA BeginAlike ==
  ASSUME NEW d \in Dirs, NEW e \in Dirs, NEW n \in Nat, 1 <= n, n <= Len(d), n <= Len(e)
  PROVE  SubSeq(d, 1, n) = SubSeq(e, 1, n) <=> \A i \in 1..n : d[i] = e[i]
<1>1. n \in 1..Len(d) /\ n \in 1..Len(e)
  BY LenProperties DEF Dirs
<1>2. /\ SubSeq(d, 1, n) \in Dirs /\ Len(SubSeq(d, 1, n)) = n
      /\ SubSeq(e, 1, n) \in Dirs /\ Len(SubSeq(e, 1, n)) = n
      /\ \A i \in 1..n : SubSeq(d, 1, n)[i] = d[i] /\ SubSeq(e, 1, n)[i] = e[i]
  BY <1>1, Beginning
<1>3. ASSUME \A i \in 1..n : d[i] = e[i] PROVE SubSeq(d, 1, n) = SubSeq(e, 1, n)
  BY <1>2, <1>3, SeqEqual DEF Dirs
<1>4. ASSUME SubSeq(d, 1, n) = SubSeq(e, 1, n), NEW i \in 1..n PROVE d[i] = e[i]
  BY <1>2, <1>4
<1> QED BY <1>3, <1>4

\* The two leading elements of a directory, as commonParent joins them.
Parent(e) == SubSeq(e, 1, 2)

\* The wildcard pattern of a parent (main.go collapse).
LEMMA WildcardMatches ==
  ASSUME NEW d \in Dirs, NEW e \in Dirs, Len(e) >= 3
  PROVE  Matches(Pattern(Parent(e) \o <<"versions">>, TRUE), d)
           <=> Len(d) >= 3 /\ d[1] = e[1] /\ d[2] = e[2] /\ d[3] = "versions"
<1> DEFINE w == Parent(e) \o <<"versions">>
<1>1. Len(d) \in Nat /\ Len(e) \in Nat
  BY LenProperties DEF Dirs
<1>2. Parent(e) \in Dirs /\ Len(Parent(e)) = 2 /\ Parent(e)[1] = e[1] /\ Parent(e)[2] = e[2]
  BY <1>1, Beginning DEF Parent
<1>3. <<"versions">> \in Dirs /\ Len(<<"versions">>) = 1 /\ <<"versions">>[1] = "versions"
  <2>1. "versions" \in Elements
    BY LayoutAssumption
  <2> QED BY <2>1, OneElement, Zenon
<1>4. /\ w \in Dirs /\ Len(w) = 3
      /\ w[1] = e[1] /\ w[2] = e[2] /\ w[3] = "versions"
  <2> DEFINE p == Parent(e)
             v == <<"versions">>
  <2>1. p \in Dirs /\ Len(p) = 2 /\ v \in Dirs /\ Len(v) = 1
    BY <1>2, <1>3
  <2> HIDE DEF p, v
  <2>2. /\ p \o v \in Dirs /\ Len(p \o v) = Len(p) + Len(v)
        /\ \A i \in 1 .. Len(p) + Len(v) :
              (p \o v)[i] = IF i <= Len(p) THEN p[i] ELSE v[i - Len(p)]
    BY <2>1, ConcatProperties DEF Dirs
  <2>3. p \o v \in Dirs /\ Len(p \o v) = 3
        /\ (p \o v)[1] = p[1] /\ (p \o v)[2] = p[2] /\ (p \o v)[3] = v[1]
    BY <2>1, <2>2
  <2> QED BY <1>2, <1>3, <2>3 DEF p, v
<1> HIDE DEF w
<1>5. SubSeq(w, 1, 3) = w
  BY <1>4, SubSeqFull DEF Dirs
<1>6. ASSUME Len(d) >= 3
      PROVE  SubSeq(d, 1, 3) = w <=> d[1] = e[1] /\ d[2] = e[2] /\ d[3] = "versions"
  <2>1. SubSeq(d, 1, 3) = w <=> \A i \in 1..3 : d[i] = w[i]
    BY <1>4, <1>5, <1>6, BeginAlike
  <2>2. (\A i \in 1..3 : d[i] = w[i]) <=> d[1] = w[1] /\ d[2] = w[2] /\ d[3] = w[3]
    OBVIOUS
  <2> QED BY <1>4, <2>1, <2>2
<1>7. Matches(Pattern(w, TRUE), d) <=> Len(d) >= 3 /\ SubSeq(d, 1, 3) = w
  BY <1>4 DEF Matches, Pattern
<1> QED BY <1>6, <1>7 DEF w

\* The core group runs its own and, beside them, ./internal itself.
LEMMA CoreMatches ==
  ASSUME NEW d \in Dirs
  PROVE  (\E p \in Core : Matches(p, d)) <=> (InCore(d) \/ d = <<"internal">>)
<1> DEFINE in == <<"internal">>
<1>1. Len(d) \in Nat /\ in \in Dirs /\ Len(in) = 1 /\ in[1] = "internal"
  <2>1. "internal" \in Elements
    BY LayoutAssumption
  <2>2. in \in Dirs /\ Len(in) = 1 /\ in[1] = "internal"
    BY <2>1, OneElement, Zenon
  <2> HIDE DEF in
  <2> QED BY <2>2, LenProperties DEF Dirs
<1>2. SubSeq(in, 1, 1) = in
  BY <1>1, SubSeqFull DEF Dirs
<1>3. (\E p \in Core : Matches(p, d))
        <=> (d = <<>> \/ (Len(d) >= 1 /\ SubSeq(d, 1, 1) = in))
  BY <1>1 DEF Core, Matches, Pattern
<1>4. ASSUME Len(d) >= 1
      PROVE  SubSeq(d, 1, 1) = in <=> d[1] = "internal"
  <2>1. SubSeq(d, 1, 1) = SubSeq(in, 1, 1)
          <=> \A i \in 1..1 : d[i] = in[i]
    BY <1>1, <1>4, BeginAlike
  <2>2. (\A i \in 1..1 : d[i] = in[i]) <=> d[1] = in[1]
    OBVIOUS
  <2> QED BY <1>1, <1>2, <2>1, <2>2
<1>5. ASSUME Len(d) = 1, d[1] = "internal" PROVE d = in
  <2>1. SubSeq(d, 1, 1) = d
    BY <1>5, SubSeqFull DEF Dirs
  <2> QED BY <1>4, <1>5, <2>1
<1>6. d = in => Len(d) = 1 /\ d[1] = "internal"
  BY <1>1
<1>7. Len(d) >= 1 <=> (Len(d) = 1 \/ Len(d) >= 2)
  <2>1. \A n \in Nat : n >= 1 <=> (n = 1 \/ n >= 2)
    OBVIOUS
  <2> QED BY <1>1, <2>1
<1> QED BY <1>3, <1>4, <1>5, <1>6, <1>7 DEF InCore

--------------------------------------------------------------------------------
(* What collapse makes of the directories of a group. *)

\* The patterns match the directories and, of others, only such as lie below
\* versions/ of the parent of one.
LEMMA CollapseWithin ==
  ASSUME NEW ds \in SUBSET Dirs, NEW p \in collapse(ds), NEW d \in Dirs, Matches(p, d)
  PROVE  d \in ds
           \/ \E e \in ds : Len(e) >= 3 /\ Len(d) >= 3 /\ d[1] = e[1] /\ d[2] = e[2]
<1>1. CASE p \in {Pattern(e, FALSE) : e \in ds}
  BY <1>1 DEF Matches, Pattern
<1>2. CASE p \in {Pattern(q \o <<"versions">>, TRUE) : q \in commonParent(ds)}
  <2>1. PICK q \in commonParent(ds) : p = Pattern(q \o <<"versions">>, TRUE)
    BY <1>2
  <2>2. PICK e \in ds : Len(e) >= 3 /\ q = Parent(e)
    BY DEF commonParent, Sub, Parent
  <2>3. Len(d) >= 3 /\ d[1] = e[1] /\ d[2] = e[2]
    BY <2>1, <2>2, WildcardMatches
  <2> QED BY <2>2, <2>3
<1>3. p \in {Pattern(e, FALSE) : e \in ds}
        \/ p \in {Pattern(q \o <<"versions">>, TRUE) : q \in commonParent(ds)}
  BY DEF collapse
<1> QED BY <1>1, <1>2, <1>3

\* They match every directory when what is deep lies below versions/ of its
\* application, and what is not deep is the application itself.
LEMMA CollapseCovers ==
  ASSUME NEW ds \in SUBSET Dirs, NEW d \in ds,
         \A e \in ds : Len(e) >= 3 =>
            /\ e[3] = "versions"
            /\ Len(d) >= 2 /\ d[1] = e[1] /\ d[2] = e[2]
  PROVE  \E p \in collapse(ds) : Matches(p, d)
<1>1. CASE Cardinality(ds) <= 2 \/ commonParent(ds) = {}
  <2>1. Pattern(d, FALSE) \in collapse(ds)
    BY <1>1 DEF collapse
  <2> QED BY <2>1 DEF Matches, Pattern
<1>2. CASE ~(Cardinality(ds) <= 2) /\ commonParent(ds) # {}
  <2>1. PICK q \in commonParent(ds) : TRUE
    BY <1>2
  <2>2. PICK e \in ds : Len(e) >= 3 /\ q = Parent(e)
    BY <2>1 DEF commonParent, Sub, Parent
  <2>3. d \in Dirs /\ e \in Dirs /\ Len(d) \in Nat /\ Len(e) \in Nat
    BY LenProperties DEF Dirs
  <2>4. Len(d) >= 2 /\ d[1] = e[1] /\ d[2] = e[2]
    BY <2>2
  <2>5. CASE Len(d) >= 3
    <3>1. d[3] = "versions"
      BY <2>5
    <3>2. Matches(Pattern(q \o <<"versions">>, TRUE), d)
      BY <2>2, <2>3, <2>4, <2>5, <3>1, WildcardMatches
    <3>3. Pattern(q \o <<"versions">>, TRUE) \in collapse(ds)
      BY <1>2, <2>1 DEF collapse
    <3> QED BY <3>2, <3>3
  <2>6. CASE Len(d) = 2
    <3>1. \A i \in 1..2 : d[i] = e[i]
      BY <2>4
    <3>2. SubSeq(d, 1, 2) = Parent(e)
      BY <2>2, <2>3, <2>6, <3>1, BeginAlike DEF Parent
    <3>3. d = q
      BY <2>2, <2>3, <2>6, <3>2, SubSeqFull DEF Dirs
    <3>4. Pattern(d, FALSE) \in collapse(ds)
      BY <1>2, <2>1, <3>3 DEF collapse
    <3> QED BY <3>4 DEF Matches, Pattern
  <2>7. \A n \in Nat : n >= 2 => (n = 2 \/ n >= 3)
    OBVIOUS
  <2> QED BY <2>3, <2>4, <2>5, <2>6, <2>7
<1> QED BY <1>1, <1>2

--------------------------------------------------------------------------------
(* The groups. *)

\* The output, once there is one, is what Split makes of the layout.
Output ==
    /\ layout \in Layouts
    /\ matrix = {} \/ matrix = {coreGroup} \union {appGroup(a) : a \in {appName(d) : d \in Rest}}

LEMMA LayoutDirs ==
  ASSUME Output
  PROVE  /\ layout \subseteq Dirs /\ \A d \in layout : Len(d) \in Nat
         /\ \A a : Bucket(a) \in SUBSET Dirs
BY LayoutAssumption, LenProperties DEF Output, Dirs, Bucket, Rest

\* A group of an application runs nothing of the core and no other application.
LEMMA AppGroupRuns ==
  ASSUME Output, NEW a, NEW d \in layout, NEW p \in appGroup(a).packages, Matches(p, d)
  PROVE  ~InCore(d) /\ appName(d) = a
<1>1. p \in collapse(Bucket(a)) /\ Bucket(a) \in SUBSET Dirs /\ d \in Dirs
  BY LayoutDirs DEF appGroup
<1>2. CASE d \in Bucket(a)
  BY <1>2 DEF Bucket, Rest
<1>3. ASSUME NEW e \in Bucket(a), Len(e) >= 3, Len(d) >= 3, d[1] = e[1], d[2] = e[2]
      PROVE  ~InCore(d) /\ appName(d) = a
  <2>1. ~InCore(e) /\ appName(e) = a /\ Len(e) \in Nat /\ Len(d) \in Nat
    BY LayoutDirs DEF Bucket, Rest
  <2>2. Len(e) >= 2 /\ Len(d) >= 2 /\ d # <<>>
    BY <1>1, <1>3, <2>1, EmptySeq DEF Dirs
  <2> QED BY <1>3, <2>1, <2>2 DEF InCore, appName
<1> QED BY <1>1, <1>2, <1>3, CollapseWithin

\* Every group that runs a directory is the one it belongs to.
Home(d) == IF InCore(d) THEN coreGroup ELSE appGroup(appName(d))

LEMMA RunAtHome ==
  ASSUME Output, NEW d \in layout, d # <<"internal">>, NEW g \in RunBy(d)
  PROVE  g = Home(d)
<1>1. PICK p \in g.packages : Matches(p, d)
  BY DEF RunBy
<1>2. CASE g = coreGroup
  <2>1. InCore(d)
    BY <1>1, <1>2, CoreMatches, LayoutDirs DEF coreGroup
  <2> QED BY <1>2, <2>1 DEF Home
<1>3. ASSUME NEW a, g = appGroup(a) PROVE g = Home(d)
  BY <1>1, <1>3, AppGroupRuns DEF Home
<1> QED BY <1>2, <1>3 DEF RunBy, Output

\* No package is run by two jobs, whatever the layout (main.go main).
LEMMA OutputRunsNoneTwice ==
  ASSUME Output PROVE NoneRunsTwice
<1> SUFFICES ASSUME NEW d \in layout \ {<<"internal">>}, NEW g \in RunBy(d)
             PROVE  /\ g.name = IF InCore(d) THEN "core" ELSE appName(d)
                    /\ \A h \in RunBy(d) : h = g
  BY DEF NoneRunsTwice
<1>1. g = Home(d) /\ \A h \in RunBy(d) : h = Home(d)
  BY RunAtHome
<1> QED BY <1>1 DEF Home, coreGroup, appGroup

\* In a regular layout its own group runs a package.
LEMMA HomeRuns ==
  ASSUME Output, matrix # {}, Regular, NEW d \in layout
  PROVE  Home(d) \in RunBy(d)
<1>1. matrix = {coreGroup} \union {appGroup(a) : a \in {appName(e) : e \in Rest}}
  BY DEF Output
<1>2. CASE InCore(d)
  <2>1. \E p \in Core : Matches(p, d)
    BY <1>2, CoreMatches, LayoutDirs
  <2> QED BY <1>1, <1>2, <2>1 DEF Home, RunBy, coreGroup
<1>3. CASE ~InCore(d)
  <2> DEFINE a == appName(d)
  <2>1. d \in Rest /\ d \in Bucket(a) /\ Bucket(a) \in SUBSET Dirs
    BY <1>3, LayoutDirs DEF Rest, Bucket
  <2>2. ASSUME NEW e \in Bucket(a), Len(e) >= 3
        PROVE  e[3] = "versions" /\ Len(d) >= 2 /\ d[1] = e[1] /\ d[2] = e[2]
    <3>1. e \in Rest /\ appName(e) = a /\ Len(e) \in Nat
      BY LayoutDirs DEF Bucket, Rest
    <3>2. e[1] = "applications" /\ e[3] = "versions" /\ e[2] # "misc"
      BY <2>2, <3>1 DEF Regular
    <3>3. appName(e) = e[2]
      BY <2>2, <3>1, <3>2 DEF appName
    <3>4. appName(d) # "misc" /\ appName(d) = e[2]
      BY <3>1, <3>2, <3>3
    <3> QED BY <3>2, <3>4 DEF appName
  <2>3. \E p \in collapse(Bucket(a)) : Matches(p, d)
    BY <2>1, <2>2, CollapseCovers
  <2>4. appGroup(a) \in matrix
    BY <1>1, <2>1
  <2> QED BY <1>3, <2>3, <2>4 DEF Home, RunBy, appGroup
<1> QED BY <1>2, <1>3

\* And so one group does.
LEMMA OutputRunsOnce ==
  ASSUME Output PROVE RegularRunsOnce
<1> SUFFICES ASSUME matrix # {}, Regular, NEW d \in layout
             PROVE  Cardinality(RunBy(d)) = 1
  BY DEF RegularRunsOnce
<1>1. d # <<"internal">>
  <2>1. ASSUME d = <<"internal">> PROVE FALSE
    <3>1. ~InCore(d)
      BY <2>1 DEF InCore
    <3> QED BY <2>1, <3>1 DEF Regular, Rest
  <2> QED BY <2>1
<1>2. RunBy(d) = {Home(d)}
  BY <1>1, RunAtHome, HomeRuns
<1> QED BY <1>2, FS_Singleton

LEMMA OutputHolds == Spec => []Output
<1>1. Init => Output
  BY DEF Init, Output
<1>2. Output /\ [Next]_vars => Output'
  <2>1. ASSUME Output, UNCHANGED layout PROVE Rest' = Rest
    BY <2>1 DEF Rest
  <2>2. ASSUME Output, UNCHANGED layout, NEW a PROVE appGroup(a)' = appGroup(a)
    BY <2>1, <2>2 DEF appGroup, Bucket
  <2> QED BY <2>1, <2>2 DEF Output, Next, Split, vars
<1> QED BY <1>1, <1>2, PTL DEF Spec

\* In a regular layout the jobs run every package exactly once (main.go main,
\* collapse, commonParent).
THEOREM SplitRunsOnce == Spec => []RegularRunsOnce
<1> QED BY OutputHolds, OutputRunsOnce, PTL

\* In any layout no package is run by two jobs.
THEOREM SplitRunsNoneTwice == Spec => []NoneRunsTwice
<1> QED BY OutputHolds, OutputRunsNoneTwice, PTL

================================================================================

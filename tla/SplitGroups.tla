------------------------------ MODULE SplitGroups ------------------------------
(***************************************************************************)
(* tools/cmd/split_test_groups: turns the packages that have tests into    *)
(* groups of go test patterns, one group per application, a CI job each.   *)
(*                                                                         *)
(* A directory is the sequence of its path elements, <<>> the root.  The   *)
(* lists of the program are sorted; nothing depends on their order, so     *)
(* they are sets here.                                                     *)
(***************************************************************************)
EXTENDS Naturals, FiniteSets, Sequences

CONSTANTS
    Elements,  \* the elements of paths
    Layouts    \* the package layouts the tool may be run on, each a set of directories

ASSUME LayoutAssumption ==
    /\ {"applications", "internal", "versions"} \subseteq Elements
    /\ \A L \in Layouts : IsFiniteSet(L) /\ L \subseteq Seq(Elements)

VARIABLES
    layout,   \* what discover finds
    matrix    \* the output: the groups, each a name and its patterns; none before the run

vars == <<layout, matrix>>

Init == layout \in Layouts /\ matrix = {}

\* A pattern "dir", or "dir/..." when it is deep.
Pattern(dir, deep) == [dir |-> dir, deep |-> deep]

InCore(d) == d = <<>> \/ (Len(d) >= 2 /\ d[1] = "internal")

\* The directory below applications/, else misc.
appName(d) == IF Len(d) >= 2 /\ d[1] = "applications" THEN d[2] ELSE "misc"

Sub(dirs) == {d \in dirs : Len(d) >= 3}

\* The two leading elements all deep directories share; none if they
\* differ or are fewer than two.
commonParent(dirs) ==
    {p \in {SubSeq(d, 1, 2) : d \in Sub(dirs)} :
        Cardinality(Sub(dirs)) >= 2 /\ \A d \in Sub(dirs) : SubSeq(d, 1, 2) = p}

\* Faulty variant: the parent itself is left out.
collapseNoParent(dirs) ==
    IF Cardinality(dirs) <= 2 \/ commonParent(dirs) = {}
    THEN {Pattern(d, FALSE) : d \in dirs}
    ELSE {Pattern(p \o <<"versions">>, TRUE) : p \in commonParent(dirs)}

collapse(dirs) ==
    IF Cardinality(dirs) <= 2 \/ commonParent(dirs) = {}
    THEN {Pattern(d, FALSE) : d \in dirs}
    ELSE {Pattern(p, FALSE) : p \in commonParent(dirs) \intersect dirs}
         \union {Pattern(p \o <<"versions">>, TRUE) : p \in commonParent(dirs)}

Core == {Pattern(<<>>, FALSE), Pattern(<<"internal">>, TRUE)}

\* Faulty variant: the packages of the core group are not taken out.
RestAll == layout

Rest == {d \in layout : ~InCore(d)}

Bucket(a) == {d \in Rest : appName(d) = a}

\* The groups are a list: an application called core makes a second "core".
coreGroup == [name |-> "core", packages |-> Core]
appGroup(a) == [name |-> a, packages |-> collapse(Bucket(a))]

Split ==
    /\ matrix = {}
    /\ matrix' = {coreGroup} \union {appGroup(a) : a \in {appName(d) : d \in Rest}}
    /\ UNCHANGED layout

Next == Split

Spec == Init /\ [][Next]_vars

--------------------------------------------------------------------------------
\* go test's reading of a pattern.
Matches(p, d) ==
    IF p.deep THEN Len(d) >= Len(p.dir) /\ SubSeq(d, 1, Len(p.dir)) = p.dir ELSE d = p.dir

RunBy(d) == {g \in matrix : \E p \in g.packages : Matches(p, d)}

--------------------------------------------------------------------------------
\* The layout the repository has: below an application only versions/...,
\* nothing deep outside applications/, and no application called misc with
\* packages below it.
Regular ==
    \A d \in Rest :
        /\ d # <<"internal">>
        /\ Len(d) >= 3 => d[1] = "applications" /\ d[3] = "versions" /\ d[2] # "misc"

\* In a regular layout the jobs together run every package exactly once
\* (main.go main, collapse, commonParent).
RegularRunsOnce ==
    matrix # {} /\ Regular => \A d \in layout : Cardinality(RunBy(d)) = 1

\* In any layout no package is run by two jobs, the package ./internal
\* itself excepted, and no job runs a package of another application.
NoneRunsTwice ==
    \A d \in layout \ {<<"internal">>} : \A g \in RunBy(d) :
        /\ g.name = IF InCore(d) THEN "core" ELSE appName(d)
        /\ \A h \in RunBy(d) : h = g
================================================================================

------------------------------- MODULE LogStream -------------------------------
(***************************************************************************)
(* The log of a container as AwaitOutput and GetOutput of container.go     *)
(* read it, and the matchers of matcher.go.                                *)
(*                                                                         *)
(* A container without a terminal writes two streams.  The daemon cuts     *)
(* their lines into frames and sends them in one stream, each after a      *)
(* header of eight bytes.  The scanner takes that for text and splits it   *)
(* at newlines.  Text is a sequence of symbols: "hdr" is a header, "nl" a  *)
(* newline, "hd" a header up to the newline in it, "sp" a blank, anything  *)
(* else a piece of what a program writes.                                  *)
(***************************************************************************)
EXTENDS Naturals, FiniteSets, SequencesExt

CONSTANTS
    Pieces,      \* what text is made of, newlines and headers aside
    Lines,       \* what a program may write in one go: text that ends in a newline
    Pattern,     \* the text the matchers are made for
    Ten,         \* the frames that are ten bytes long
    Chunk,       \* the longest frame
    MaxToken,    \* the longest line the scanner takes
    MaxFrames,   \* bound on the frames of a run
    Kinds        \* the matchers AwaitOutput is called with

ASSUME LogStreamAssumption ==
    /\ Pieces \intersect {"nl", "hd", "hdr"} = {}
    /\ Pattern \in Seq(Pieces)
    /\ Lines \subseteq Seq(Pieces \union {"nl"})
    /\ \A l \in Lines : l # <<>> /\ \A n \in DOMAIN l : l[n] = "nl" <=> n = Len(l)
    /\ \A f \in Ten : Len(f) <= Chunk
    /\ Chunk \in Nat \ {0} /\ MaxToken \in Nat /\ MaxFrames \in Nat
    /\ Kinds \subseteq {"substring", "exact", "prefix", "suffix", "capture", "gap"}
    /\ "gap" \in Kinds => Pattern # <<>>

Streams == {"stdout", "stderr"}
Readers == {"AwaitOutput", "GetOutput"}

VARIABLES
    rest,      \* rest[s]: what stream s has still to write of its line
    log,       \* the stream of frames the daemon has
    exited,    \* the program is over, and the log with it
    kind,      \* the matcher AwaitOutput waits for
    matchers,  \* the matchers GetOutput is called with
    result,    \* result[r]: "none", "reading", or why reader r returned
    pos,       \* pos[r]: how much of the log reader r has scanned
    upto,      \* the length of the log when GetOutput asked for it
    out,       \* the lines GetOutput has collected
    done       \* the context of the callers is done

VARIABLES
    frames,    \* history: the text of each frame and its end in the log
    said,      \* history: the lines the program began to write
    hit,       \* history: the line AwaitOutput accepted
    ends       \* history: where in the log each line in out ends

programVars == <<rest, log, exited, frames, said>>
readerVars  == <<result, pos, upto, out, hit, ends>>
choiceVars  == <<kind, matchers>>
logVars     == <<programVars, readerVars, choiceVars, done>>

Symbols == Pieces \union {"nl", "hd", "hdr"}

\* "rest": AwaitOutput has accepted what came of a line before the connection broke.
Results == {"none", "reading", "matched", "rest", "end", "ctx", "toolong", "broken"}

LogTypeOK ==
    /\ rest \in [Streams -> Seq(Pieces \union {"nl"})]
    /\ log \in Seq(Symbols) /\ exited \in BOOLEAN
    /\ kind \in Kinds
    /\ result \in [Readers -> Results] /\ result["GetOutput"] \notin {"matched", "rest"}
    /\ pos \in [Readers -> Nat] /\ upto \in Nat
    /\ pos["AwaitOutput"] <= Len(log) /\ pos["GetOutput"] <= upto /\ upto <= Len(log)
    /\ out \in Seq(Seq(Symbols)) /\ ends \in Seq(Nat) /\ hit \in Seq(Symbols)
    /\ frames \in Seq([text : Seq(Pieces \union {"nl"}), end : Nat])
    /\ said \subseteq Lines /\ done \in BOOLEAN

Init ==
    /\ rest = [s \in Streams |-> <<>>]
    /\ log = <<>> /\ exited = FALSE
    /\ kind \in Kinds
    /\ matchers = <<"every", kind>>
    /\ result = [r \in Readers |-> "none"]
    /\ pos = [r \in Readers |-> 0]
    /\ upto = 0 /\ out = <<>> /\ hit = <<>> /\ ends = <<>>
    /\ done = FALSE
    /\ frames = <<>> /\ said = {}

--------------------------------------------------------------------------------
(* Matchers. *)

Occurs(p, text) == \E n \in 0..Len(text) - Len(p) : SubSeq(text, n + 1, n + Len(p)) = p

TrimSpace(text) ==
    LET solid == {n \in DOMAIN text : text[n] # "sp"}
    IN  IF solid = {} THEN <<>> ELSE SubSeq(text, Min(solid), Max(solid))

\* Faulty variant: every matcher trims and compares.
MatchesTrimmed(m, line) == m = "every" \/ TrimSpace(line) = Pattern

\* The last four are regular expressions: ^p, p$, p(.+)$ as in vault.go, and
\* p.*q, where . is any symbol but a newline.  "every" is the substring
\* matcher of the empty string.
Matches(m, line) ==
    \/ m = "every"
    \/ m = "substring" /\ Occurs(Pattern, line)
    \/ m = "exact" /\ TrimSpace(line) = Pattern
    \/ m = "prefix" /\ IsPrefix(Pattern, line)
    \/ m = "suffix" /\ IsSuffix(Pattern, line)
    \/ m = "capture" /\ line # <<>> /\ Occurs(Pattern, Front(line))
    \/ m = "gap" /\ \E i, j \in DOMAIN line :
          i < j /\ line[i] = Pattern[1] /\ line[j] = Pattern[Len(Pattern)]

--------------------------------------------------------------------------------
(* The program and the daemon. *)

\* Faulty variant: the header is taken out of the stream and nothing told
\* the frames apart any more.
HeaderStripped(frame) == <<>>

\* The last byte of the header is the length of the frame: of a frame of
\* ten bytes it is a newline.
Header(frame) == IF frame \in Ten THEN <<"hd", "nl">> ELSE <<"hdr">>

Emit(frame) ==
    /\ Len(frames) < MaxFrames
    /\ log' = log \o Header(frame) \o frame
    /\ frames' = Append(frames, [text |-> frame, end |-> Len(log')])

\* The next frame of a line: all of it, or as much as a frame takes.
Writes(s, text) ==
    LET n == IF Len(text) <= Chunk THEN Len(text) ELSE Chunk
    IN  /\ Emit(SubSeq(text, 1, n))
        /\ rest' = [rest EXCEPT ![s] = SubSeq(text, n + 1, Len(text))]

Write(s) ==
    /\ ~exited
    /\ \/ \E l \in Lines : rest[s] = <<>> /\ Writes(s, l) /\ said' = said \union {l}
       \/ rest[s] # <<>> /\ Writes(s, rest[s]) /\ UNCHANGED said
    /\ UNCHANGED <<exited, readerVars, choiceVars, done>>

\* A program may end in the middle of a line.
Exit ==
    /\ ~exited
    /\ exited' = TRUE
    /\ UNCHANGED <<rest, log, frames, said, readerVars, choiceVars, done>>

CtxEnds ==
    /\ ~done
    /\ done' = TRUE
    /\ UNCHANGED <<programVars, readerVars, choiceVars>>

--------------------------------------------------------------------------------
(* The readers. *)

\* Faulty variant: GetOutput goes on where AwaitOutput is in the log.
OpenShared(r) ==
    /\ result[r] = "none"
    /\ result' = [result EXCEPT ![r] = "reading"]
    /\ pos' = [pos EXCEPT ![r] = pos["AwaitOutput"]]
    /\ upto' = IF r = "GetOutput" THEN Len(log) ELSE upto
    /\ UNCHANGED <<programVars, out, hit, ends, choiceVars, done>>

\* Every reader reads from the beginning of the log.
Open(r) ==
    /\ result[r] = "none"
    /\ result' = [result EXCEPT ![r] = IF done THEN "ctx" ELSE "reading"]
    /\ upto' = IF r = "GetOutput" THEN Len(log) ELSE upto
    /\ UNCHANGED <<programVars, pos, out, hit, ends, choiceVars, done>>

\* AwaitOutput follows the log, GetOutput gets what there is when it asks.
Follows(r) == r = "AwaitOutput"

Limit(r) == IF Follows(r) THEN Len(log) ELSE upto
Complete(r) == ~Follows(r) \/ exited
Newlines(r) == {n \in pos[r] + 1 .. Limit(r) : log[n] = "nl"}

\* Faulty variant: the scanner drops the symbol after a newline.
LineEndPast(r) == IF Newlines(r) = {} THEN Limit(r) ELSE Min(Newlines(r)) + 1

\* The next line, without its newline, or what has come of it.
LineEnd(r) == IF Newlines(r) = {} THEN Limit(r) ELSE Min(Newlines(r))
Line(r) == SubSeq(log, pos[r] + 1, IF Newlines(r) = {} THEN Limit(r) ELSE LineEnd(r) - 1)

TooLong(r) == Len(Line(r)) > MaxToken

\* Faulty variant: the log is read as a whole before it is scanned.
HasLineLate(r) == Complete(r) /\ pos[r] < Limit(r)

HasLine(r) == Newlines(r) # {} \/ (Complete(r) /\ pos[r] < Limit(r))

Scan(r) ==
    /\ HasLine(r) /\ ~TooLong(r)
    /\ pos' = [pos EXCEPT ![r] = LineEnd(r)]

Finish(r, why) == result' = [result EXCEPT ![r] = why]

\* The context is examined before the line.
ScanAwait ==
    LET r == "AwaitOutput" IN
    /\ result[r] = "reading"
    /\ Scan(r)
    /\ \/ done /\ Finish(r, "ctx") /\ UNCHANGED hit
       \/ ~done /\ Matches(kind, Line(r)) /\ Finish(r, "matched") /\ hit' = Line(r)
       \/ ~done /\ ~Matches(kind, Line(r)) /\ UNCHANGED <<result, hit>>
    /\ UNCHANGED <<programVars, upto, out, ends, choiceVars, done>>

\* A line is collected once for every matcher that accepts it.
Accepting(line) == Cardinality({n \in DOMAIN matchers : Matches(matchers[n], line)})
Copies(x, n) == [i \in 1..n |-> x]

ScanGet ==
    LET r == "GetOutput"
        n == Accepting(Line(r))
    IN
    /\ result[r] = "reading"
    /\ Scan(r)
    /\ out' = out \o Copies(Line(r), n)
    /\ ends' = ends \o Copies(LineEnd(r), n)
    /\ UNCHANGED <<programVars, result, upto, hit, choiceVars, done>>

\* The scanner stops: at the end of the log, which is no error, on a line it
\* cannot hold, or because the context ended the transfer.
Stop(r) ==
    /\ result[r] = "reading"
    /\ \/ Complete(r) /\ pos[r] = Limit(r) /\ Finish(r, "end")
       \/ TooLong(r) /\ Finish(r, "toolong")
       \/ done /\ Finish(r, "ctx")
    /\ UNCHANGED <<programVars, pos, upto, out, hit, ends, choiceVars, done>>

\* The connection breaks.  The scanner hands out what has come of a line
\* before it tells of the error, and AwaitOutput may accept that; who calls
\* GetOutput drops the lines that come with an error.
Break(r) ==
    /\ result[r] = "reading"
    /\ \E e \in pos[r] .. Limit(r) :
          LET came    == SubSeq(log, pos[r] + 1, e)
              accepts == r = "AwaitOutput" /\ came # <<>> /\ Matches(kind, came)
          IN  /\ \A n \in pos[r] + 1 .. e : log[n] # "nl"
              /\ Len(came) <= MaxToken
              /\ \/ done /\ Finish(r, "ctx") /\ UNCHANGED hit
                 \/ ~done /\ accepts /\ Finish(r, "rest") /\ hit' = came
                 \/ ~done /\ ~accepts /\ Finish(r, "broken") /\ UNCHANGED hit
    /\ UNCHANGED <<programVars, pos, upto, out, ends, choiceVars, done>>

ReaderStep(r) ==
    \/ r = "AwaitOutput" /\ ScanAwait
    \/ r = "GetOutput" /\ ScanGet
    \/ Stop(r)

Next ==
    \/ \E s \in Streams : Write(s)
    \/ Exit \/ CtxEnds
    \/ \E r \in Readers : Open(r) \/ ReaderStep(r) \/ Break(r)

Spec == Init /\ [][Next]_logVars

\* The readers run on.  Nothing makes a program write or end, or a
\* connection break.
FairSpec == Spec /\ \A r \in Readers : WF_logVars(ReaderStep(r))

--------------------------------------------------------------------------------
(* Properties. *)

\* AwaitOutput with a substring matcher passes no frame that has the text,
\* whatever header, other stream or unfinished line stands before it
\* (container.go AwaitOutput, matcher.go NewSubstringMatcher).
SubstringNeverMissed ==
    kind = "substring" /\ result["AwaitOutput"] \in {"reading", "end"} =>
        \A n \in DOMAIN frames :
            frames[n].end <= pos["AwaitOutput"] => ~Occurs(Pattern, frames[n].text)

\* The texts a matcher asks for, wildcards aside.
Literals(m) ==
    IF m = "gap" THEN {<<Pattern[1]>>, <<Pattern[Len(Pattern)]>>} ELSE {Pattern}

\* Every text a matcher asks for is one the program wrote in one line: it is
\* never pieced together from the frames of two streams.  What a wildcard
\* stands for may be anything, a header and another stream's text too, and
\* the texts on its two sides may come from two lines (container.go
\* AwaitOutput, matcher.go NewRegexpMatcher, vault.go reTokenMatch).
MatchedWasSaid ==
    result["AwaitOutput"] \in {"matched", "rest"} =>
        \A p \in Literals(kind) : \E l \in said : Occurs(p, l)

\* A line AwaitOutput has accepted GetOutput finds with the same matcher, and
\* as the first of its lines: vault.go GetRootToken relies on it, which
\* follows the AwaitOutput of the constructor.  The rest of a broken
\* connection is no such line (container.go GetOutput).
AwaitedIsFirst ==
    result["AwaitOutput"] = "matched" /\ result["GetOutput"] = "end"
    /\ upto >= pos["AwaitOutput"] =>
        \E n \in DOMAIN out :
            /\ out[n] = hit /\ Matches(kind, hit)
            /\ \A m \in 1..n - 1 : ~Matches(kind, out[m])

\* A reader behind a terminated frame with the text comes back, though the
\* context has no end and the program writes nothing more, or writes on for
\* ever (container.go AwaitOutput).
WrittenIsSeen ==
    kind = "substring" /\ result["AwaitOutput"] = "reading"
    /\ (\E n \in DOMAIN frames : Last(frames[n].text) = "nl" /\ Occurs(Pattern, frames[n].text))
    ~> result["AwaitOutput"] # "reading"

\* matcher.go:29: the output is exactly matched, except for space around it.
ExactSeen ==
    kind = "exact" /\ result["AwaitOutput"] \in {"reading", "end"} =>
        \A l \in said : TrimSpace(Front(l)) = Pattern =>
            \E n \in DOMAIN frames : frames[n].text = l /\ frames[n].end > pos["AwaitOutput"]
--------------------------------------------------------------------------------
(* The inductive invariant: how the frames lie in the log, and how far the *)
(* readers have come in its lines.                                         *)

\* text is a part of l, after the first o symbols.
PartOf(text, l, o) ==
    o + Len(text) <= Len(l) /\ \A j \in 1..Len(text) : text[j] = l[o + j]

\* A stream has still to write the end of a line it has begun.
RestSaid ==
    \A s \in Streams : rest[s] # <<>> =>
        \E l \in said : \E o \in 0..Len(l) :
            PartOf(rest[s], l, o) /\ o + Len(rest[s]) = Len(l)

\* The text of a frame is a part of a line, in the log before a header, and
\* the log has nothing but headers between the texts.
Framed ==
    /\ \A n \in DOMAIN frames :
          LET f == frames[n] IN
          /\ \E l \in said : \E o \in 0..Len(l) : PartOf(f.text, l, o)
          /\ f.text # <<>> /\ Len(f.text) < f.end
          /\ PartOf(f.text, log, f.end - Len(f.text))
          /\ f.end < Len(log) => log[f.end + 1] \in {"hd", "hdr"}
    /\ \A i \in DOMAIN log :
          \/ log[i] \in {"hd", "hdr", "nl"}
          \/ \E n \in DOMAIN frames :
                i \in frames[n].end - Len(frames[n].text) + 1 .. frames[n].end
    /\ log # <<>> => said # {}

\* A reader stands behind a newline, or at the end of what it is to read.
Between(r) ==
    \/ pos[r] = 0
    \/ pos[r] \in DOMAIN log /\ log[pos[r]] = "nl"
    \/ Complete(r) /\ pos[r] = Limit(r)

\* The line of the log that ends at e begins after i.
Begins(i, e) ==
    /\ i \in 0..e - 1 /\ (i = 0 \/ log[i] = "nl")
    /\ \A n \in i + 1 .. e - 1 : log[n] # "nl"
Text(i, e) == SubSeq(log, i + 1, IF log[e] = "nl" THEN e - 1 ELSE e)

\* AwaitOutput has passed no line its matcher accepts.
PassedNone(upTo) ==
    \A e \in 1..upTo, i \in 0..upTo :
        log[e] = "nl" /\ Begins(i, e) => ~Matches(kind, Text(i, e))

Awaited ==
    LET p == pos["AwaitOutput"] IN
    /\ result["AwaitOutput"] \in {"none", "reading"} => PassedNone(p)
    /\ result["AwaitOutput"] = "matched" =>
          /\ PassedNone(p - 1) /\ p \in DOMAIN log
          /\ Matches(kind, hit)
          /\ \E i \in 0..p - 1 : Begins(i, p) /\ hit = Text(i, p)
    /\ result["AwaitOutput"] = "rest" =>
          hit # <<>> /\ Matches(kind, hit) /\ PartOf(hit, log, p)

\* GetOutput has collected every line it has passed, in order.
Got ==
    LET p == pos["GetOutput"] IN
    /\ Len(ends) = Len(out)
    /\ \A n \in DOMAIN out :
          /\ ends[n] \in 1..p
          /\ ends[n] = p \/ log[ends[n]] = "nl"
          /\ \E i \in 0..ends[n] - 1 : Begins(i, ends[n]) /\ out[n] = Text(i, ends[n])
    /\ \A e \in 1..p : (e = p \/ log[e] = "nl") =>
          \E n \in DOMAIN out : ends[n] = e /\ \A m \in 1..n - 1 : ends[m] < e

LogInv ==
    /\ RestSaid /\ Framed
    /\ \A r \in Readers : Between(r) /\ (result[r] = "none" => pos[r] = 0)
    /\ Awaited /\ Got
    /\ result["GetOutput"] = "end" => pos["GetOutput"] = upto
    /\ matchers = <<"every", kind>>
================================================================================

------------------------------ MODULE MCLogStream ------------------------------
(* A few lines on two streams for TLC. *)
EXTENDS LogStream

Words == {"wa", "nt", "x", "sp"}

TwoPieces == <<"wa", "nt">>

\* The awaited words as a line of their own, in a frame of ten bytes; a long
\* line whose first frame ends with them, so that a wildcard behind them takes
\* the next header; one whose first frame ends as they begin, and a line that
\* begins as they end.  Two long lines, one on each stream, are
\* together more than the scanner takes.
SomeLines ==
    {<<"wa", "nt", "nl">>, <<"x", "x", "wa", "nt", "nl">>,
     <<"x", "x", "x", "wa", "nl">>, <<"nt", "nl">>}

FewLines == {<<"wa", "nt", "nl">>, <<"sp", "wa", "nt", "nl">>, <<"x", "nl">>}

NoTen == {}
ShortTen == {<<"wa", "nt", "nl">>}

MostKinds == {"substring", "prefix", "suffix", "capture", "gap"}
OnlyExact == {"exact"}
================================================================================

---------------------------- MODULE MCTraceData ----------------------------
(* The readers of a data file for TLC: traces are numbers because their     *)
(* order matters.                                                           *)
EXTENDS Readers

\* One trace is hidden by a built-in suppression, the other by the file's own.
MCMatches == [builtin |-> {1}, embedded |-> {0}]

All == <<<<0, 9>>, {}>>

\* A first file, and one opened with what the filter of another file was.
MCOpenings == {All, <<<<1, 9>>, {}>>}

\* The whole recording, its end, and its beginning, with other suppressions.
MCReparsings == {<<<<0, 9>>, {"builtin"}>>, <<<<1, 9>>, {}>>, <<<<0, 1>>, {"embedded"}>>}

\* Only the whole recording.
Unfiltered == {All}

\* Nothing but the text, and everything.
MCOptionSets == {{}, Outputs}

\* Two sizes beyond the first bucket.
MCLimits == <<1, 2>>
=============================================================================

---------------------------- MODULE MCSummaries ----------------------------
(* Reports of two users, two games: with both statistics, with either, with *)
(* none; with names a colon cuts, and descriptions of one and more lines.   *)
EXTENDS Summaries

CONSTANTS v1, v2

Stats(names, first, second) == (names[1] :> first) @@ (names[2] :> second)

Report(key, first, second, name, description) ==
  [key |-> key, name |-> name, time |-> key[1],
   general |-> Stats(General, first, second),
   teamA |-> Stats(Team, second, first),
   teamB |-> Stats(Team, first, second),
   description |-> description]

SomeText == {"text", "kickoff", "goal", "late", v1, v2}

Line == << <<"text">> >>
Kickoff == <<"kickoff">>

SomeReports ==
  { Report(<<2, 2>>, v1, v2, Kickoff, Line),
    Report(<<2, 2>>, v2, None, <<"goal", "late">>, Line),
    Report(<<2, 2>>, None, v1, Kickoff, Line),
    Report(<<2, 2>>, None, None, Kickoff, Line),
    Report(<<2, 2>>, v2, v1, Kickoff, Line \o Line),
    Report(<<2, 2>>, None, None, Kickoff, Line \o Line \o Line),
    Report(<<2, 2>>, v2, None, Kickoff, Line \o Line),
    Report(<<2, 1>>, v1, None, Kickoff, Line),
    Report(<<1, 3>>, v2, v2, Kickoff, Line) }
=============================================================================

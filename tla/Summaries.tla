----------------------------- MODULE Summaries -----------------------------
(* The summaries of the C++ client: how a report becomes the lines of a     *)
(* SEND frame, how the socket thread of a client reads the lines of the     *)
(* MESSAGE into a map of summaries, and how the keyboard thread copies a    *)
(* summary out of that map, without a lock, and writes it to a file.        *)
EXTENDS Naturals, Sequences, SequencesExt

CONSTANTS
  Text,        \* pieces of text without a colon or a line break
  Reports,     \* what users report: records as in ReportType
  MaxReports,  \* how many of them arrive (a bound)
  MaxCommands, \* how many summaries the user asks for (a bound)
  None         \* an absent value; for a statistic, one the report does not have

ASSUME BoundsAssumption == MaxReports \in Nat /\ MaxCommands \in Nat

(* The statistics a report may have, in the order they are written in.      *)
General == <<"active", "before halftime">>
Team == <<"goals", "possession">>

(* The user and the game of a report, as places in alphabetical order: the  *)
(* map of summaries has the order of Before.                                *)
Keys == {r.key : r \in Reports}
Before(k, l) == k[1] < l[1] \/ (k[1] = l[1] /\ k[2] < l[2])

(* A name is what the colons in it split it into; a description is its      *)
(* lines.                                                                   *)
ReportType(r) ==
  /\ r.key \in Nat \X Nat /\ r.time \in Int
  /\ r.name \in Seq(Text) \ {<<>>} /\ r.description \in Seq(Seq(Text)) \ {<<>>}
  /\ r.general \in [ToSet(General) -> Text \cup {None}]
  /\ r.teamA \in [ToSet(Team) -> Text \cup {None}]
  /\ r.teamB \in [ToSet(Team) -> Text \cup {None}]

ASSUME ReportsAssumption == \A r \in Reports : ReportType(r)

(* What a summary is: the values of the statistics, and the events.         *)
Values == Text \cup {"false", "0", "0%"}
Events == [name : Text, time : Int, description : Seq(Text)]
SummaryType ==
  [general : [ToSet(General) -> Values], teamA : [ToSet(Team) -> Values],
   teamB : [ToSet(Team) -> Values], events : Seq(Events)]

ASSUME NoneAssumption == None \notin SummaryType /\ None # "not found"

VARIABLES
  summaries,   \* the map of summaries
  spc,         \* where the socket thread is in clientResult
  message,     \* the lines of the MESSAGE it has in hand
  crashed,     \* an exception has ended the process
  kpc,         \* what the keyboard thread does next
  wanted,      \* the summary that was asked for
  copy,        \* as much of it as was copied
  file,        \* what the last file says
  (* history *)
  arrived,     \* the reports that have been taken in
  asked,       \* how many summaries were asked for
  answer,      \* what the user was told
  known        \* how many reports were in the summaries when it was asked for

socketThread == <<summaries, spc, message, crashed, arrived>>
keyboardThread == <<kpc, wanted, copy, file, asked, answer, known>>
vars == <<socketThread, keyboardThread>>

(* Summary::Summary.                                                        *)
FreshGeneral == [s \in ToSet(General) |-> "false"]
FreshTeam == [s \in ToSet(Team) |-> IF s = "goals" THEN "0" ELSE "0%"]
Fresh == [general |-> FreshGeneral, teamA |-> FreshTeam, teamB |-> FreshTeam, events |-> <<>>]

Init ==
  /\ summaries = [k \in Keys |-> None]
  /\ spc = "read" /\ message = <<>> /\ crashed = FALSE
  /\ kpc = "line" /\ wanted = None /\ copy = Fresh /\ file = None
  /\ arrived = <<>>
  /\ asked = 0 /\ answer = None /\ known = 0

-----------------------------------------------------------------------------
(* The frames.  A line is what split_str_dots makes of it: a sequence of    *)
(* the parts between colons.  Only the value of a statistic is one part.    *)

StatLine(name, value) == IF value = None THEN <<>> ELSE << <<name, value>> >>

StatLines(names, updates) ==
  StatLine(names[1], updates[names[1]]) \o StatLine(names[2], updates[names[2]])

(* processToServerEvent.                                                    *)
SendFrame(r) ==
  << <<"SEND">>, <<"destination ", r.key[2]>>, <<>>, <<"user", r.key[1]>>,
     <<"team a", r.key[2]>>, <<"team b", r.key[2]>>, <<"event name">> \o r.name,
     <<"time", r.time>>, <<"general game updates">> >>
  \o StatLines(General, r.general)
  \o << <<"team a updates">> >> \o StatLines(Team, r.teamA)
  \o << <<"team b updates">> >> \o StatLines(Team, r.teamB)
  \o << <<"description">> >> \o r.description

(* The server puts four lines and an empty one in front.                    *)
MessageFrame(r) ==
  << <<"MESSAGE">>, <<"subscription ", 0>>, <<"message - id ", 0>>,
     <<"destination ", r.key[2]>>, <<>> >> \o SendFrame(r)

(* clientResult finds the lines by their numbers, from the front and from   *)
(* the end, and the statistics by the lines between them.                   *)
KeyOf(m) == <<m[9][2], m[4][2]>>
EventOf(m) == [name |-> m[12][2], time |-> m[13][2], description |-> m[Len(m)]]

(* Mutant: one line is left out at the end, not two.                        *)
StatisticsToDescription(m) == SubSeq(m, 14, Len(m) - 1)

Statistics(m) == SubSeq(m, 14, Len(m) - 2)

Place(lines, marker) == SelectInSeq(lines, LAMBDA line : line = <<marker>>)

GeneralLines(m) ==
  LET s == Statistics(m) IN SubSeq(s, 2, Place(s, "team a updates") - 1)
TeamALines(m) ==
  LET s == Statistics(m)
  IN SubSeq(s, Place(s, "team a updates") + 1, Place(s, "team b updates") - 1)
TeamBLines(m) ==
  LET s == Statistics(m) IN SubSeq(s, Place(s, "team b updates") + 1, Len(s))

(* Two lines are taken for both statistics, one for the one it names or     *)
(* else the second; more than two are passed over.                          *)
Updated(map, names, lines) ==
  CASE Len(lines) = 2 -> [map EXCEPT ![names[1]] = lines[1][2], ![names[2]] = lines[2][2]]
    [] Len(lines) = 1 ->
         [map EXCEPT ![IF lines[1][1] = names[1] THEN names[1] ELSE names[2]] = lines[1][2]]
    [] OTHER -> map

(* at(1) of a line without a second part.                                   *)
Raises(lines) == Len(lines) \in {1, 2} /\ \E i \in 1 .. Len(lines) : Len(lines[i]) < 2

-----------------------------------------------------------------------------
(* The socket thread: clientResult for a MESSAGE.                           *)

(* isSummaryExisted looks at the first key of the map and no further.       *)
IsSummaryExisted(k) ==
  summaries[k] # None /\ \A l \in Keys : summaries[l] # None => ~Before(l, k)

(* Mutant: addSummary replaces the summary that is there.                   *)
AddSummaryAnew(k) == summaries' = [summaries EXCEPT ![k] = Fresh]

(* map::insert: a summary that is there stays.                              *)
AddSummary(k) ==
  summaries' = [summaries EXCEPT ![k] = IF @ = None THEN Fresh ELSE @]

TakeMessage(r) ==
  /\ spc = "read"
  /\ Len(arrived) < MaxReports
  /\ arrived' = Append(arrived, r)
  /\ message' = MessageFrame(r)
  /\ spc' = "event"
  /\ IF IsSummaryExisted(r.key) THEN UNCHANGED summaries ELSE AddSummary(r.key)
  /\ UNCHANGED <<crashed, keyboardThread>>

Summary == summaries[KeyOf(message)]

AddSummaryEvent ==
  /\ spc = "event"
  /\ spc' = "general"
  /\ summaries' = [summaries EXCEPT ![KeyOf(message)].events = Append(@, EventOf(message))]
  /\ UNCHANGED <<message, crashed, arrived, keyboardThread>>

(* One of the three parts of the summary, or an exception.                  *)
Update(from, to, part, names, lines) ==
  /\ spc = from
  /\ \/ /\ ~Raises(lines)
        /\ summaries' = [summaries EXCEPT ![KeyOf(message)][part] = Updated(@, names, lines)]
        /\ spc' = to
        /\ UNCHANGED crashed
     \/ /\ Raises(lines)
        /\ crashed' = TRUE
        /\ UNCHANGED <<summaries, spc>>
  /\ UNCHANGED <<message, arrived, keyboardThread>>

UpdateGeneral == Update("general", "teamA", "general", General, GeneralLines(message))
UpdateTeamA == Update("teamA", "teamB", "teamA", Team, TeamALines(message))

(* Mutant: the MESSAGE is handled again.                                    *)
UpdateTeamBAgain == Update("teamB", "event", "teamB", Team, TeamBLines(message))

UpdateTeamB == Update("teamB", "read", "teamB", Team, TeamBLines(message))

-----------------------------------------------------------------------------
(* The keyboard thread: the command summary.                                *)

(* How many reports the summaries have in full.                             *)
Done == IF spc = "read" THEN Len(arrived) ELSE Len(arrived) - 1

Ask(k) ==
  /\ kpc = "line"
  /\ asked < MaxCommands
  /\ asked' = asked + 1
  /\ wanted' = k
  /\ known' = Done
  /\ \/ IsSummaryExisted(k) /\ answer' = None /\ kpc' = "general"
     \/ ~IsSummaryExisted(k) /\ answer' = "not found" /\ kpc' = "line"
  /\ UNCHANGED <<copy, file, socketThread>>

(* Mutant: the summary that is copied is the first there is.                *)
CopyOfFirst(part, from, to) ==
  /\ kpc = from
  /\ kpc' = to
  /\ \E k \in Keys : /\ IsSummaryExisted(k)
                     /\ copy' = [copy EXCEPT ![part] = summaries[k][part]]
  /\ UNCHANGED <<wanted, file, asked, answer, known, socketThread>>

(* getSummaryPerUserGame: the members are copied one after the other.       *)
Copy(part, from, to) ==
  /\ kpc = from
  /\ kpc' = to
  /\ copy' = [copy EXCEPT ![part] = summaries[wanted][part]]
  /\ UNCHANGED <<wanted, file, asked, answer, known, socketThread>>

(* createSummaryFile: nothing is written if the file cannot be opened, and  *)
(* the user is told that it was.                                            *)
CreateSummaryFile ==
  /\ kpc = "write"
  /\ kpc' = "line"
  /\ answer' = "created"
  /\ file' = [of |-> wanted, says |-> copy] \/ UNCHANGED file
  /\ UNCHANGED <<wanted, copy, asked, known, socketThread>>

-----------------------------------------------------------------------------
Socket ==
  \/ \E r \in Reports : TakeMessage(r)
  \/ AddSummaryEvent \/ UpdateGeneral \/ UpdateTeamA \/ UpdateTeamB

Keyboard ==
  \/ \E k \in Keys : Ask(k)
  \/ Copy("general", "general", "teamA") \/ Copy("teamA", "teamA", "teamB")
  \/ Copy("teamB", "teamB", "events") \/ Copy("events", "events", "write")
  \/ CreateSummaryFile

Next == ~crashed /\ (Socket \/ Keyboard)

Spec == Init /\ [][Next]_vars
-----------------------------------------------------------------------------
(* Every variable has its type, and no summary has more events than there   *)
(* were reports: a MESSAGE is taken in once.                                *)
TypeOK ==
  /\ summaries \in [Keys -> SummaryType \cup {None}]
  /\ \A k \in Keys : summaries[k] # None => Len(summaries[k].events) <= Len(arrived)
  /\ spc \in {"read", "event", "general", "teamA", "teamB"}
  /\ spc # "read" => KeyOf(message) \in Keys /\ summaries[KeyOf(message)] # None
  /\ crashed \in BOOLEAN
  /\ kpc \in {"line", "general", "teamA", "teamB", "events", "write"}
  /\ kpc # "line" => wanted \in Keys /\ summaries[wanted] # None
  /\ copy \in SummaryType
  /\ file # None => file.of \in Keys /\ file.says \in SummaryType
  /\ arrived \in Seq(Reports) /\ asked \in 0 .. MaxCommands /\ known \in 0 .. MaxReports
  /\ answer \in {None, "not found", "created"}

-----------------------------------------------------------------------------
(* What the summary of some reports should say.                             *)

(* The first n reports on a summary, as places among those that arrived.    *)
ReportsOn(k, n) == {i \in 1 .. n : arrived[i].key = k}

(* The value is that of the last of these reports that has one.             *)
Told(value, k, n, part, s) ==
  LET having == {i \in ReportsOn(k, n) : arrived[i][part][s] # None}
  IN \/ having = {} /\ value = Fresh[part][s]
     \/ \E i \in having : value = arrived[i][part][s] /\ \A j \in having : j <= i

SingleLine(r) == Len(r.description) = 1

(* Reports whose description has one line are read right in every part;     *)
(* another one may hide the statistics that stand just before it.           *)
Reads(part, k, n) == part # "teamB" \/ \A i \in ReportsOn(k, n) : SingleLine(arrived[i])

(* Every report has its event, in order: its time, its name up to the first *)
(* colon, and its description if that is one line.                          *)
EventTells(event, r) ==
  /\ event.time = r.time
  /\ event.name = r.name[1]
  /\ SingleLine(r) => event.description = r.description[1]

EventsTell(events, k, n) ==
  /\ Len(events) = Cardinality(ReportsOn(k, n))
  /\ \A i \in ReportsOn(k, n) : EventTells(events[Cardinality(ReportsOn(k, i))], arrived[i])

Parts == {"general", "teamA", "teamB"}

(* Once a report is taken in, the summary of its user and game has, of each *)
(* statistic, the value reported last, whichever of them a report leaves    *)
(* out, and the events of all reports; there is no other summary.  This is  *)
(* about lines found by their numbers and summaries added twice.            *)
SummaryTells ==
  spc = "read" =>
    \A k \in Keys :
      IF ReportsOn(k, Len(arrived)) = {} THEN summaries[k] = None
      ELSE /\ \A part \in Parts :
                Reads(part, k, Len(arrived)) =>
                  \A s \in DOMAIN Fresh[part] :
                    Told(summaries[k][part][s], k, Len(arrived), part, s)
           /\ EventsTell(summaries[k].events, k, Len(arrived))

(* No report ends the client that takes it in, unless its description has   *)
(* several lines.                                                           *)
SingleLinesSurvive == crashed => ~SingleLine(Last(arrived))

(* What is about to be written: each statistic is one the summary had since *)
(* the command, though other parts may be older or newer; every report      *)
(* taken in before the command has its event, and so has every report a     *)
(* statistic comes from.                                                    *)
FileUpToDate ==
  kpc = "write" =>
    \E last \in known .. Len(arrived) :
      /\ EventsTell(copy.events, wanted, last)
      /\ \A part \in Parts : \A s \in DOMAIN Fresh[part] :
           \E n \in known .. last :
             Reads(part, wanted, n) => Told(copy[part][s], wanted, n, part, s)
=============================================================================

-------------------------- MODULE SummariesProofs --------------------------
(* Theorems about Summaries, for every set of reports and any number of     *)
(* them.                                                                    *)
EXTENDS Summaries, FiniteSetTheorems, TLAPS

-----------------------------------------------------------------------------
(* Sequences: what is where in a concatenation, and in a part of it.        *)

LEMMA ConcatFacts ==
  ASSUME NEW S, NEW s \in Seq(S), NEW t \in Seq(S)
  PROVE  /\ s \o t \in Seq(S) /\ Len(s) \in Nat /\ Len(t) \in Nat
         /\ Len(s \o t) = Len(s) + Len(t)
         /\ \A i \in 1 .. Len(s) : (s \o t)[i] = s[i]
         /\ \A i \in 1 .. Len(t) : (s \o t)[Len(s) + i] = t[i]
OBVIOUS

LEMMA SubSeqFacts ==
  ASSUME NEW S, NEW s \in Seq(S), NEW from \in Nat, NEW to \in Nat, to <= Len(s)
  PROVE  /\ Len(s) \in Nat
         /\ from >= 1 /\ from <= to + 1 =>
              /\ SubSeq(s, from, to) \in Seq(S)
              /\ Len(SubSeq(s, from, to)) = to + 1 - from
              /\ \A i \in 1 .. to + 1 - from : SubSeq(s, from, to)[i] = s[from + i - 1]
OBVIOUS

LEMMA SameSeq ==
  ASSUME NEW S, NEW s \in Seq(S), NEW t \in Seq(S), Len(s) = Len(t),
         \A i \in 1 .. Len(t) : s[i] = t[i]
  PROVE  s = t
OBVIOUS

LEMMA PartIs ==
  ASSUME NEW S, NEW s \in Seq(S), NEW t \in Seq(S), NEW k \in Nat, k + Len(t) <= Len(s),
         \A i \in 1 .. Len(t) : s[k + i] = t[i]
  PROVE  SubSeq(s, k + 1, k + Len(t)) = t
<1>1. Len(t) \in Nat /\ Len(s) \in Nat
  OBVIOUS
<1> DEFINE u == SubSeq(s, k + 1, k + Len(t))
<1>2. /\ u \in Seq(S) /\ Len(u) = Len(t)
      /\ \A i \in 1 .. Len(t) : u[i] = s[k + i]
  BY <1>1, SubSeqFacts
<1> HIDE DEF u
<1>3. u = t
  BY <1>2, SameSeq
<1>4. QED
  BY <1>3 DEF u

(* std::find: the place of the first line there is of this kind.            *)
LEMMA PlaceIs ==
  ASSUME NEW S, NEW lines \in Seq(S), NEW marker, NEW mark, mark = <<marker>>,
         NEW k \in 1 .. Len(lines), lines[k] = mark, \A i \in 1 .. k - 1 : lines[i] # mark
  PROVE  Place(lines, marker) = k
<1> DEFINE I == {i \in 1 .. Len(lines) : lines[i] = <<marker>>}
<1>1. Len(lines) \in Nat /\ k \in I /\ \A i \in I : i \in Nat /\ k <= i
  OBVIOUS
<1>2. Min(I) = k
  BY <1>1 DEF Min
<1>3. QED
  BY <1>1, <1>2 DEF Place, SelectInSeq

-----------------------------------------------------------------------------
(* The lines of a MESSAGE.                                                  *)

Words ==
  {"SEND", "MESSAGE", "subscription ", "message - id ", "destination ", "user", "team a", "team b",
   "event name", "time", "general game updates", "team a updates", "team b updates", "description",
   "active", "before halftime", "goals", "possession"}

(* What the parts of a line are.                                            *)
Pieces == Text \cup Int \cup Words

LEMMA Reported ==
  ASSUME NEW r \in Reports
  PROVE  /\ r.key \in Nat \X Nat /\ r.key \in Keys /\ r.time \in Int
         /\ r.name \in Seq(Text) /\ r.name # <<>>
         /\ r.description \in Seq(Seq(Text)) /\ r.description # <<>>
         /\ r.general \in [ToSet(General) -> Text \cup {None}]
         /\ r.teamA \in [ToSet(Team) -> Text \cup {None}]
         /\ r.teamB \in [ToSet(Team) -> Text \cup {None}]
BY ReportsAssumption DEF ReportType, Keys

LEMMA TwoNames ==
  ASSUME NEW names \in {General, Team}
  PROVE  /\ ToSet(names) = {names[1], names[2]} /\ names[1] # names[2]
         /\ names[1] \in Words /\ names[2] \in Words
<1>1. ASSUME NEW a, NEW b PROVE ToSet(<<a, b>>) = {a, b}
  <2>1. <<a, b>>[1] = a /\ <<a, b>>[2] = b
    OBVIOUS
  <2>2. DOMAIN <<a, b>> = {1, 2}
    OBVIOUS
  <2>3. QED
    BY <2>1, <2>2 DEF ToSet
<1>2. CASE names = General
  <2>1. names[1] = "active" /\ names[2] = "before halftime"
    BY <1>2 DEF General
  <2>2. QED
    BY <1>1, <1>2, <2>1 DEF General, Words
<1>3. CASE names = Team
  <2>1. names[1] = "goals" /\ names[2] = "possession"
    BY <1>3 DEF Team
  <2>2. QED
    BY <1>1, <1>3, <2>1 DEF Team, Words
<1>4. QED
  BY <1>2, <1>3

LEMMA TwoLines ==
  ASSUME NEW x, NEW y
  PROVE  /\ <<>> \o <<>> = <<>>
         /\ <<x>> \o <<>> = <<x>>
         /\ <<>> \o <<y>> = <<y>>
         /\ <<x>> \o <<y>> = <<x, y>>
<1>1. /\ <<>> \o <<>> = <<>>
      /\ <<x>> \o <<>> = <<x>>
      /\ <<>> \o <<y>> = <<y>>
  OBVIOUS
<1>2. <<x>> \o <<y>> = <<x, y>>
  <2> DEFINE s == <<x>>
             t == <<y>>
             u == <<x, y>>
  <2>1. s \in Seq({x, y}) /\ t \in Seq({x, y}) /\ u \in Seq({x, y})
    OBVIOUS
  <2>2. Len(s) = 1 /\ Len(t) = 1 /\ Len(u) = 2 /\ s[1] = x /\ t[1] = y /\ u[1] = x /\ u[2] = y
    OBVIOUS
  <2> HIDE DEF s, t, u
  <2>3. s \o t \in Seq({x, y}) /\ Len(s \o t) = 2 /\ (s \o t)[1] = x /\ (s \o t)[2] = y
    <3>1. 1 \in 1 .. Len(s) /\ 1 \in 1 .. Len(t) /\ Len(s) + 1 = 2
      BY <2>2
    <3>2. (s \o t)[1] = s[1] /\ (s \o t)[Len(s) + 1] = t[1]
      BY <2>1, <3>1, ConcatFacts
    <3>3. s \o t \in Seq({x, y}) /\ Len(s \o t) = 2
      BY <2>1, <2>2, ConcatFacts
    <3>4. QED
      BY <2>2, <3>1, <3>2, <3>3
  <2>4. s \o t = u
    BY <2>1, <2>2, <2>3, SameSeq
  <2>5. QED
    BY <2>4 DEF s, t, u
<1>3. QED
  BY <1>1, <1>2

(* The lines of the statistics that a report has.                           *)
LEMMA StatLinesAre ==
  ASSUME NEW names \in {General, Team}, NEW updates,
         NEW x, x = <<names[1], updates[names[1]]>>, NEW y, y = <<names[2], updates[names[2]]>>
  PROVE  /\ updates[names[1]] = None /\ updates[names[2]] = None =>
              StatLines(names, updates) = <<>>
         /\ updates[names[1]] # None /\ updates[names[2]] = None =>
              StatLines(names, updates) = <<x>>
         /\ updates[names[1]] = None /\ updates[names[2]] # None =>
              StatLines(names, updates) = <<y>>
         /\ updates[names[1]] # None /\ updates[names[2]] # None =>
              StatLines(names, updates) = <<x, y>>
BY TwoLines DEF StatLines, StatLine

LEMMA StatLinesFacts ==
  ASSUME NEW names \in {General, Team}, NEW updates \in [ToSet(names) -> Text \cup {None}]
  PROVE  /\ StatLines(names, updates) \in Seq(Seq(Pieces))
         /\ Len(StatLines(names, updates)) \in 0 .. 2
         /\ \A i \in 1 .. Len(StatLines(names, updates)) : Len(StatLines(names, updates)[i]) = 2
         /\ ~Raises(StatLines(names, updates))
<1> DEFINE x == <<names[1], updates[names[1]]>>
           y == <<names[2], updates[names[2]]>>
           lines == StatLines(names, updates)
<1>1. /\ updates[names[1]] # None => x \in Seq(Pieces)
      /\ updates[names[2]] # None => y \in Seq(Pieces)
      /\ Len(x) = 2 /\ Len(y) = 2
  BY TwoNames DEF Pieces
<1>0. /\ x = <<names[1], updates[names[1]]>> /\ y = <<names[2], updates[names[2]]>>
      /\ lines = StatLines(names, updates)
  OBVIOUS
<1> HIDE DEF x, y, lines
<1> DEFINE Good == /\ lines \in Seq(Seq(Pieces)) /\ Len(lines) \in 0 .. 2
                   /\ \A i \in 1 .. Len(lines) : lines[i] \in {x, y}
<1>2. Good
  <2>1. ASSUME updates[names[1]] = None, updates[names[2]] = None PROVE Good
    <3>1. lines = <<>>
      BY <2>1, StatLinesAre, <1>0
    <3>2. QED
      BY <3>1
  <2>2. ASSUME updates[names[1]] # None, updates[names[2]] = None PROVE Good
    <3>1. lines = <<x>>
      BY <2>2, StatLinesAre, <1>0
    <3>2. QED
      BY <1>1, <2>2, <3>1
  <2>3. ASSUME updates[names[1]] = None, updates[names[2]] # None PROVE Good
    <3>1. lines = <<y>>
      BY <2>3, StatLinesAre, <1>0
    <3>2. QED
      BY <1>1, <2>3, <3>1
  <2>4. ASSUME updates[names[1]] # None, updates[names[2]] # None PROVE Good
    <3>1. lines = <<x, y>>
      BY <2>4, StatLinesAre, <1>0
    <3>2. QED
      BY <1>1, <2>4, <3>1
  <2> HIDE DEF Good
  <2>5. QED
    BY <2>1, <2>2, <2>3, <2>4
<1>3. \A i \in 1 .. Len(lines) : Len(lines[i]) = 2
  BY <1>1, <1>2
<1>4. ~Raises(lines)
  BY <1>3 DEF Raises
<1>5. QED
  BY <1>2, <1>3, <1>4 DEF lines

(* Each statistic that is reported replaces the one that is there.          *)
IsUpdated(new, map, names, updates) ==
  new = [s \in ToSet(names) |-> IF updates[s] = None THEN map[s] ELSE updates[s]]

LEMMA UpdatedBy ==
  ASSUME NEW names \in {General, Team}, NEW updates \in [ToSet(names) -> Text \cup {None}],
         NEW V, NEW map \in [ToSet(names) -> V]
  PROVE  IsUpdated(Updated(map, names, StatLines(names, updates)), map, names, updates)
<1> DEFINE x == <<names[1], updates[names[1]]>>
           y == <<names[2], updates[names[2]]>>
           lines == StatLines(names, updates)
           new == [s \in ToSet(names) |-> IF updates[s] = None THEN map[s] ELSE updates[s]]
<1>1. /\ x[1] = names[1] /\ x[2] = updates[names[1]]
      /\ y[1] = names[2] /\ y[2] = updates[names[2]]
      /\ ToSet(names) = {names[1], names[2]} /\ names[1] # names[2]
  BY TwoNames
<1>0. x = <<names[1], updates[names[1]]>> /\ y = <<names[2], updates[names[2]]>>
  OBVIOUS
<1> HIDE DEF x, y
<1>2. CASE updates[names[1]] = None /\ updates[names[2]] = None
  <2>1. lines = <<>>
    BY <1>2, StatLinesAre, <1>0
  <2>2. Updated(map, names, lines) = map
    BY <2>1 DEF Updated
  <2>3. new = map
    BY <1>1, <1>2
  <2>4. QED
    BY <2>2, <2>3 DEF IsUpdated
<1>3. CASE updates[names[1]] # None /\ updates[names[2]] = None
  <2>1. lines = <<x>>
    BY <1>3, StatLinesAre, <1>0
  <2>2. Len(lines) = 1 /\ lines[1] = x
    BY <2>1
  <2>3. Updated(map, names, lines) = [map EXCEPT ![names[1]] = updates[names[1]]]
    BY <1>1, <2>2 DEF Updated
  <2>4. new = [map EXCEPT ![names[1]] = updates[names[1]]]
    BY <1>1, <1>3
  <2>5. QED
    BY <2>3, <2>4 DEF IsUpdated
<1>4. CASE updates[names[1]] = None /\ updates[names[2]] # None
  <2>1. lines = <<y>>
    BY <1>4, StatLinesAre, <1>0
  <2>2. Len(lines) = 1 /\ lines[1] = y
    BY <2>1
  <2>3. Updated(map, names, lines) = [map EXCEPT ![names[2]] = updates[names[2]]]
    BY <1>1, <2>2 DEF Updated
  <2>4. new = [map EXCEPT ![names[2]] = updates[names[2]]]
    BY <1>1, <1>4
  <2>5. QED
    BY <2>3, <2>4 DEF IsUpdated
<1>5. CASE updates[names[1]] # None /\ updates[names[2]] # None
  <2>1. lines = <<x, y>>
    BY <1>5, StatLinesAre, <1>0
  <2>2. Len(lines) = 2 /\ lines[1] = x /\ lines[2] = y
    BY <2>1
  <2>3. Updated(map, names, lines) =
          [map EXCEPT ![names[1]] = updates[names[1]], ![names[2]] = updates[names[2]]]
    BY <1>1, <2>2 DEF Updated
  <2>4. new = [map EXCEPT ![names[1]] = updates[names[1]], ![names[2]] = updates[names[2]]]
    BY <1>1, <1>5
  <2>5. QED
    BY <2>3, <2>4 DEF IsUpdated
<1>6. QED
  BY <1>2, <1>3, <1>4, <1>5

(* The lines t stand in the lines p behind the first k.                     *)
At(p, k, t) ==
  /\ k \in Nat
  /\ k + Len(t) <= Len(p)
  /\ \A i \in 1 .. Len(t) : p[k + i] = t[i]

LEMMA AtConcat ==
  ASSUME NEW S, NEW p \in Seq(S), NEW u \in Seq(S)
  PROVE  /\ p \o u \in Seq(S) /\ Len(p \o u) = Len(p) + Len(u)
         /\ Len(p) \in Nat /\ Len(u) \in Nat
         /\ At(p \o u, 0, p) /\ At(p \o u, Len(p), u)
BY ConcatFacts DEF At

LEMMA AtAt ==
  ASSUME NEW S, NEW p \in Seq(S), NEW q \in Seq(S), NEW t \in Seq(S), NEW k, NEW j,
         At(p, k, q), At(q, j, t)
  PROVE  At(p, k + j, t)
<1>1. /\ Len(p) \in Nat /\ Len(q) \in Nat /\ Len(t) \in Nat
      /\ k \in Nat /\ j \in Nat /\ k + Len(q) <= Len(p) /\ j + Len(t) <= Len(q)
  BY DEF At
<1>2. ASSUME NEW i \in 1 .. Len(t)
      PROVE  p[k + j + i] = t[i]
  <2>1. j + i \in 1 .. Len(q) /\ k + (j + i) = k + j + i
    BY <1>1
  <2>2. QED
    BY <2>1 DEF At
<1>3. k + j \in Nat /\ k + j + Len(t) <= Len(p)
  BY <1>1
<1>4. QED
  BY <1>2, <1>3 DEF At

LEMMA AtFirst ==
  ASSUME NEW S, NEW p \in Seq(S), NEW q \in Seq(S), At(p, 0, q)
  PROVE  \A t \in Seq(S) : \A k \in Nat : At(q, k, t) => At(p, k, t)
<1> SUFFICES ASSUME NEW t \in Seq(S), NEW k \in Nat, At(q, k, t) PROVE At(p, k, t)
  OBVIOUS
<1>1. At(p, 0 + k, t)
  BY AtAt
<1>2. QED
  BY <1>1

(* What a report is put together from.                                      *)
Assembled(S, m, h, g, x, a, y, b, z, d) ==
  /\ h \in Seq(S) /\ g \in Seq(S) /\ x \in Seq(S) /\ a \in Seq(S)
  /\ y \in Seq(S) /\ b \in Seq(S) /\ z \in Seq(S) /\ d \in Seq(S)
  /\ m = h \o g \o x \o a \o y \o b \o z \o d

(* Where its parts then are.                                                *)
Placed(S, m, h, g, x, a, y, b, z, d) ==
  /\ m \in Seq(S)
  /\ Len(h) \in Nat /\ Len(g) \in Nat /\ Len(x) \in Nat /\ Len(a) \in Nat
  /\ Len(y) \in Nat /\ Len(b) \in Nat /\ Len(z) \in Nat /\ Len(d) \in Nat
  /\ Len(m) = Len(h) + Len(g) + Len(x) + Len(a) + Len(y) + Len(b) + Len(z) + Len(d)
  /\ At(m, 0, h)
  /\ At(m, Len(h), g)
  /\ At(m, Len(h) + Len(g), x)
  /\ At(m, Len(h) + Len(g) + Len(x), a)
  /\ At(m, Len(h) + Len(g) + Len(x) + Len(a), y)
  /\ At(m, Len(h) + Len(g) + Len(x) + Len(a) + Len(y), b)
  /\ At(m, Len(h) + Len(g) + Len(x) + Len(a) + Len(y) + Len(b), z)
  /\ At(m, Len(h) + Len(g) + Len(x) + Len(a) + Len(y) + Len(b) + Len(z), d)

LEMMA AtEight ==
  ASSUME NEW S, NEW m, NEW h, NEW g, NEW x, NEW a, NEW y, NEW b, NEW z, NEW d,
         Assembled(S, m, h, g, x, a, y, b, z, d)
  PROVE  Placed(S, m, h, g, x, a, y, b, z, d)
<1>0. /\ h \in Seq(S) /\ g \in Seq(S) /\ x \in Seq(S) /\ a \in Seq(S)
      /\ y \in Seq(S) /\ b \in Seq(S) /\ z \in Seq(S) /\ d \in Seq(S)
  BY DEF Assembled
<1>1. PICK p2 : p2 = h \o g
  OBVIOUS
<1>2. PICK p3 : p3 = p2 \o x
  OBVIOUS
<1>3. PICK p4 : p4 = p3 \o a
  OBVIOUS
<1>4. PICK p5 : p5 = p4 \o y
  OBVIOUS
<1>5. PICK p6 : p6 = p5 \o b
  OBVIOUS
<1>6. PICK p7 : p7 = p6 \o z
  OBVIOUS
<1>7. PICK p8 : p8 = p7 \o d
  OBVIOUS
<1>8. /\ p2 \in Seq(S) /\ Len(p2) = Len(h) + Len(g) /\ At(p2, 0, h) /\ At(p2, Len(h), g)
      /\ Len(h) \in Nat /\ Len(g) \in Nat
  BY <1>0, <1>1, AtConcat
<1>9. /\ p3 \in Seq(S) /\ Len(p3) = Len(p2) + Len(x) /\ At(p3, 0, p2) /\ At(p3, Len(p2), x)
      /\ Len(x) \in Nat
  BY <1>0, <1>2, <1>8, AtConcat
<1>10. /\ p4 \in Seq(S) /\ Len(p4) = Len(p3) + Len(a) /\ At(p4, 0, p3) /\ At(p4, Len(p3), a)
       /\ Len(a) \in Nat
  BY <1>0, <1>3, <1>9, AtConcat
<1>11. /\ p5 \in Seq(S) /\ Len(p5) = Len(p4) + Len(y) /\ At(p5, 0, p4) /\ At(p5, Len(p4), y)
       /\ Len(y) \in Nat
  BY <1>0, <1>4, <1>10, AtConcat
<1>12. /\ p6 \in Seq(S) /\ Len(p6) = Len(p5) + Len(b) /\ At(p6, 0, p5) /\ At(p6, Len(p5), b)
       /\ Len(b) \in Nat
  BY <1>0, <1>5, <1>11, AtConcat
<1>13. /\ p7 \in Seq(S) /\ Len(p7) = Len(p6) + Len(z) /\ At(p7, 0, p6) /\ At(p7, Len(p6), z)
       /\ Len(z) \in Nat
  BY <1>0, <1>6, <1>12, AtConcat
<1>14. /\ p8 \in Seq(S) /\ Len(p8) = Len(p7) + Len(d) /\ At(p8, 0, p7) /\ At(p8, Len(p7), d)
       /\ Len(d) \in Nat
  BY <1>0, <1>7, <1>13, AtConcat
<1>15. \A t \in Seq(S) : \A k \in Nat : At(p7, k, t) => At(p8, k, t)
  BY <1>0, <1>13, <1>14, AtFirst
<1>16. \A t \in Seq(S) : \A k \in Nat : At(p6, k, t) => At(p8, k, t)
  BY <1>0, <1>12, <1>13, <1>15, AtFirst
<1>17. \A t \in Seq(S) : \A k \in Nat : At(p5, k, t) => At(p8, k, t)
  BY <1>0, <1>11, <1>12, <1>16, AtFirst
<1>18. \A t \in Seq(S) : \A k \in Nat : At(p4, k, t) => At(p8, k, t)
  BY <1>0, <1>10, <1>11, <1>17, AtFirst
<1>19. \A t \in Seq(S) : \A k \in Nat : At(p3, k, t) => At(p8, k, t)
  BY <1>0, <1>9, <1>10, <1>18, AtFirst
<1>20. \A t \in Seq(S) : \A k \in Nat : At(p2, k, t) => At(p8, k, t)
  BY <1>0, <1>8, <1>9, <1>19, AtFirst
<1>21. At(p8, 0, h) /\ At(p8, Len(h), g) /\ At(p8, Len(p2), x) /\ At(p8, Len(p3), a)
  BY <1>0, <1>8, <1>9, <1>10, <1>18, <1>19, <1>20
<1>22. At(p8, Len(p4), y) /\ At(p8, Len(p5), b) /\ At(p8, Len(p6), z) /\ At(p8, Len(p7), d)
  BY <1>0, <1>8, <1>9, <1>10, <1>11, <1>12, <1>13, <1>14, <1>15, <1>16, <1>17
<1>23. /\ Len(p2) = Len(h) + Len(g)
       /\ Len(p3) = Len(h) + Len(g) + Len(x)
       /\ Len(p4) = Len(h) + Len(g) + Len(x) + Len(a)
       /\ Len(p5) = Len(h) + Len(g) + Len(x) + Len(a) + Len(y)
       /\ Len(p6) = Len(h) + Len(g) + Len(x) + Len(a) + Len(y) + Len(b)
       /\ Len(p7) = Len(h) + Len(g) + Len(x) + Len(a) + Len(y) + Len(b) + Len(z)
  BY <1>8, <1>9, <1>10, <1>11, <1>12, <1>13
<1>24. m = p8
  BY <1>1, <1>2, <1>3, <1>4, <1>5, <1>6, <1>7 DEF Assembled
<1>25. QED
  BY <1>24, <1>8, <1>9, <1>10, <1>11, <1>12, <1>13, <1>14, <1>21, <1>22, <1>23 DEF Placed

FrameHead(r) ==
  << <<"MESSAGE">>, <<"subscription ", 0>>, <<"message - id ", 0>>,
     <<"destination ", r.key[2]>>, <<>> >>

SendHead(r) ==
  << <<"SEND">>, <<"destination ", r.key[2]>>, <<>>, <<"user", r.key[1]>>,
     <<"team a", r.key[2]>>, <<"team b", r.key[2]>>, <<"event name">> \o r.name,
     <<"time", r.time>>, <<"general game updates">> >>

LEMMA Single ==
  ASSUME NEW S, NEW a \in S
  PROVE  <<a>> \in Seq(S) /\ Len(<<a>>) = 1 /\ <<a>>[1] = a
OBVIOUS

LEMMA Pair ==
  ASSUME NEW S, NEW a \in S, NEW b \in S
  PROVE  <<a, b>> \in Seq(S) /\ Len(<<a, b>>) = 2 /\ <<a, b>>[2] = b
OBVIOUS

LEMMA Five ==
  ASSUME NEW S, NEW a \in S, NEW b \in S, NEW c \in S, NEW d \in S, NEW e \in S
  PROVE  <<a, b, c, d, e>> \in Seq(S) /\ Len(<<a, b, c, d, e>>) = 5 /\ <<a, b, c, d, e>>[4] = d
OBVIOUS

LEMMA Nine ==
  ASSUME NEW S, NEW a \in S, NEW b \in S, NEW c \in S, NEW d \in S, NEW e \in S,
         NEW f \in S, NEW g \in S, NEW h \in S, NEW i \in S,
         NEW q, q = <<a, b, c, d, e, f, g, h, i>>
  PROVE  /\ q \in Seq(S) /\ Len(q) = 9
         /\ q[4] = d /\ q[7] = g /\ q[8] = h /\ q[9] = i
OBVIOUS

LEMMA SecondOf ==
  ASSUME NEW S, NEW w \in Seq(S), Len(w) = 1, NEW n \in Seq(S), n # <<>>
  PROVE  w \o n \in Seq(S) /\ (w \o n)[2] = n[1]
<1>1. Len(n) \in Nat /\ Len(n) # 0
  OBVIOUS
<1>2. Len(w) + 1 = 2 /\ 1 \in 1 .. Len(n)
  BY <1>1
<1>3. w \o n \in Seq(S) /\ At(w \o n, Len(w), n)
  BY AtConcat
<1>4. (w \o n)[Len(w) + 1] = n[1]
  BY <1>2, <1>3 DEF At
<1>5. QED
  BY <1>2, <1>3, <1>4

LEMMA WordsArePieces == Words \subseteq Pieces
BY DEF Pieces

LEMMA Markers ==
  /\ "SEND" \in Words /\ "MESSAGE" \in Words /\ "subscription " \in Words
  /\ "message - id " \in Words /\ "destination " \in Words /\ "user" \in Words
  /\ "team a" \in Words /\ "team b" \in Words /\ "event name" \in Words /\ "time" \in Words
  /\ "general game updates" \in Words /\ "team a updates" \in Words
  /\ "team b updates" \in Words /\ "description" \in Words
BY DEF Words

(* The lines between the parts.                                             *)
GeneralMark == <<"general game updates">>
TeamAMark == <<"team a updates">>
TeamBMark == <<"team b updates">>
DescriptionMark == <<"description">>

LEMMA Marks ==
  /\ GeneralMark \in Seq(Pieces) /\ TeamAMark \in Seq(Pieces)
  /\ TeamBMark \in Seq(Pieces) /\ DescriptionMark \in Seq(Pieces)
  /\ Len(GeneralMark) = 1 /\ Len(TeamAMark) = 1
  /\ Len(TeamBMark) = 1 /\ Len(DescriptionMark) = 1
  /\ GeneralMark # TeamAMark /\ GeneralMark # TeamBMark /\ TeamAMark # TeamBMark
<1>1. ASSUME NEW a, NEW b, a # b
      PROVE  <<a>> # <<b>>
  BY <1>1
<1>2. PICK a, b, c, d : /\ a = "general game updates" /\ b = "team a updates"
                        /\ c = "team b updates" /\ d = "description"
  OBVIOUS
<1>3. GeneralMark = <<a>> /\ TeamAMark = <<b>> /\ TeamBMark = <<c>> /\ DescriptionMark = <<d>>
  BY <1>2 DEF GeneralMark, TeamAMark, TeamBMark, DescriptionMark
<1>4. a # b /\ a # c /\ b # c
  BY <1>2
<1>5. a \in Pieces /\ b \in Pieces /\ c \in Pieces /\ d \in Pieces
  BY <1>2, Markers, WordsArePieces
<1>6. QED
  BY <1>1, <1>3, <1>4, <1>5, Single

LEMMA HeadFacts ==
  ASSUME NEW r \in Reports
  PROVE  /\ FrameHead(r) \in Seq(Seq(Pieces)) /\ Len(FrameHead(r)) = 5
         /\ FrameHead(r)[4][2] = r.key[2]
         /\ SendHead(r) \in Seq(Seq(Pieces)) /\ Len(SendHead(r)) = 9
         /\ SendHead(r)[4][2] = r.key[1]
         /\ SendHead(r)[7][2] = r.name[1]
         /\ SendHead(r)[8][2] = r.time
         /\ SendHead(r)[9] = GeneralMark
<1>1. /\ r.key[1] \in Pieces /\ r.key[2] \in Pieces /\ r.time \in Pieces /\ 0 \in Pieces
  BY Reported DEF Pieces
<1>2. r.name \in Seq(Pieces) /\ r.name # <<>>
  BY Reported DEF Pieces
<1>3. PICK x : x = <<"event name">> \o r.name
  OBVIOUS
<1>4. x \in Seq(Pieces) /\ x[2] = r.name[1]
  <2>1. PICK w : w = <<"event name">>
    OBVIOUS
  <2>2. w \in Seq(Pieces) /\ Len(w) = 1
    BY <2>1, Single, Markers, WordsArePieces
  <2>3. w \o r.name \in Seq(Pieces) /\ (w \o r.name)[2] = r.name[1]
    BY <1>2, <2>2, SecondOf
  <2>4. QED
    BY <1>3, <2>1, <2>3
<1>5. PICK a1, a2, a3, a4, a5 :
        /\ a1 = <<"MESSAGE">> /\ a2 = <<"subscription ", 0>> /\ a3 = <<"message - id ", 0>>
        /\ a4 = <<"destination ", r.key[2]>> /\ a5 = <<>>
  OBVIOUS
<1>6. /\ a1 \in Seq(Pieces) /\ a2 \in Seq(Pieces) /\ a3 \in Seq(Pieces)
      /\ a4 \in Seq(Pieces) /\ a4[2] = r.key[2] /\ a5 \in Seq(Pieces)
  <2>1. a1 \in Seq(Pieces) /\ a5 \in Seq(Pieces)
    <3>1. <<>> \in Seq(Pieces)
      OBVIOUS
    <3>2. QED
      BY <1>5, <3>1, Single, Markers, WordsArePieces
  <2>2. a2 \in Seq(Pieces) /\ a3 \in Seq(Pieces)
    BY <1>1, <1>5, Pair, Markers, WordsArePieces
  <2>3. a4 \in Seq(Pieces) /\ a4[2] = r.key[2]
    BY <1>1, <1>5, Pair, Markers, WordsArePieces
  <2>4. QED
    BY <2>1, <2>2, <2>3
<1>7. FrameHead(r) = <<a1, a2, a3, a4, a5>>
  BY <1>5 DEF FrameHead
<1>8. FrameHead(r) \in Seq(Seq(Pieces)) /\ Len(FrameHead(r)) = 5 /\ FrameHead(r)[4] = a4
  BY <1>6, <1>7, Five
<1>9. PICK b1, b4, b5, b6, b8, b9 :
        /\ b1 = <<"SEND">> /\ b4 = <<"user", r.key[1]>> /\ b5 = <<"team a", r.key[2]>>
        /\ b6 = <<"team b", r.key[2]>> /\ b8 = <<"time", r.time>>
        /\ b9 = <<"general game updates">>
  OBVIOUS
<1>10. /\ b1 \in Seq(Pieces) /\ b4 \in Seq(Pieces) /\ b4[2] = r.key[1]
       /\ b5 \in Seq(Pieces) /\ b6 \in Seq(Pieces)
       /\ b8 \in Seq(Pieces) /\ b8[2] = r.time /\ b9 \in Seq(Pieces)
  BY <1>1, <1>9, Single, Pair, Markers, WordsArePieces
<1>11. SendHead(r) = <<b1, a4, a5, b4, b5, b6, x, b8, b9>>
  BY <1>3, <1>5, <1>9 DEF SendHead
<1>12. /\ SendHead(r) \in Seq(Seq(Pieces)) /\ Len(SendHead(r)) = 9
       /\ SendHead(r)[4] = b4 /\ SendHead(r)[7] = x /\ SendHead(r)[8] = b8
       /\ SendHead(r)[9] = b9
  BY <1>4, <1>6, <1>10, <1>11, Nine
<1>13. QED
  BY <1>4, <1>6, <1>8, <1>9, <1>10, <1>12 DEF GeneralMark

(* Where the parts of a report stand in the MESSAGE, G, A and B being the   *)
(* lines of its statistics.                                                 *)
LaidOut(m, r, G, A, B) ==
  /\ m \in Seq(Seq(Pieces))
  /\ G \in Seq(Seq(Pieces)) /\ A \in Seq(Seq(Pieces)) /\ B \in Seq(Seq(Pieces))
  /\ Len(G) \in Nat /\ Len(A) \in Nat /\ Len(B) \in Nat /\ Len(r.description) \in Nat
  /\ Len(m) = 17 + Len(G) + Len(A) + Len(B) + Len(r.description)
  /\ At(m, 0, FrameHead(r)) /\ At(m, 5, SendHead(r))
  /\ At(m, 14, G)
  /\ At(m, 14 + Len(G), <<TeamAMark>>)
  /\ At(m, 15 + Len(G), A)
  /\ At(m, 15 + Len(G) + Len(A), <<TeamBMark>>)
  /\ At(m, 16 + Len(G) + Len(A), B)
  /\ At(m, 16 + Len(G) + Len(A) + Len(B), <<DescriptionMark>>)
  /\ At(m, 17 + Len(G) + Len(A) + Len(B), r.description)

LEMMA LinesOfMessage ==
  ASSUME NEW r \in Reports, NEW m, m = MessageFrame(r),
         NEW G, G = StatLines(General, r.general),
         NEW A, A = StatLines(Team, r.teamA),
         NEW B, B = StatLines(Team, r.teamB)
  PROVE  LaidOut(m, r, G, A, B)
<1>0. PICK L : L = Seq(Pieces)
  OBVIOUS
<1>1. PICK x : x = <<TeamAMark>>
  OBVIOUS
<1>2. PICK y : y = <<TeamBMark>>
  OBVIOUS
<1>3. PICK z : z = <<DescriptionMark>>
  OBVIOUS
<1>4. PICK d : d = r.description
  OBVIOUS
<1>5. PICK h : h = SendHead(r)
  OBVIOUS
<1>6. PICK f : f = h \o G \o x \o A \o y \o B \o z \o d
  OBVIOUS
<1>7. m = FrameHead(r) \o f
  BY <1>1, <1>2, <1>3, <1>4, <1>5, <1>6
  DEF MessageFrame, SendFrame, FrameHead, SendHead, TeamAMark, TeamBMark, DescriptionMark
<1>8. G \in Seq(L) /\ A \in Seq(L) /\ B \in Seq(L)
  BY <1>0, Reported, StatLinesFacts
<1>9. x \in Seq(L) /\ y \in Seq(L) /\ z \in Seq(L) /\ Len(x) = 1 /\ Len(y) = 1 /\ Len(z) = 1
  BY <1>0, <1>1, <1>2, <1>3, Single, Marks
<1>10. d \in Seq(L) /\ h \in Seq(L) /\ Len(h) = 9 /\ FrameHead(r) \in Seq(L)
       /\ Len(FrameHead(r)) = 5
  <2>1. r.description \in Seq(Seq(Text)) /\ Seq(Text) \subseteq Seq(Pieces)
    BY Reported DEF Pieces
  <2>2. d \in Seq(L)
    BY <1>0, <1>4, <2>1
  <2>3. QED
    BY <1>0, <1>5, <2>2, HeadFacts
<1>11. /\ f \in Seq(L)
       /\ Len(G) \in Nat /\ Len(A) \in Nat /\ Len(B) \in Nat /\ Len(d) \in Nat
       /\ Len(f) = Len(h) + Len(G) + Len(x) + Len(A) + Len(y) + Len(B) + Len(z) + Len(d)
       /\ At(f, 0, h)
       /\ At(f, Len(h), G)
       /\ At(f, Len(h) + Len(G), x)
       /\ At(f, Len(h) + Len(G) + Len(x), A)
       /\ At(f, Len(h) + Len(G) + Len(x) + Len(A), y)
       /\ At(f, Len(h) + Len(G) + Len(x) + Len(A) + Len(y), B)
       /\ At(f, Len(h) + Len(G) + Len(x) + Len(A) + Len(y) + Len(B), z)
       /\ At(f, Len(h) + Len(G) + Len(x) + Len(A) + Len(y) + Len(B) + Len(z), d)
  <2>1. Assembled(L, f, h, G, x, A, y, B, z, d)
    BY <1>6, <1>8, <1>9, <1>10 DEF Assembled
  <2>2. Placed(L, f, h, G, x, A, y, B, z, d)
    BY <2>1, AtEight
  <2>3. QED
    BY <2>2 DEF Placed
<1>12. /\ Len(f) = 12 + Len(G) + Len(A) + Len(B) + Len(d)
       /\ At(f, 0, h) /\ At(f, 9, G) /\ At(f, 9 + Len(G), x)
       /\ At(f, 10 + Len(G), A)
       /\ At(f, 10 + Len(G) + Len(A), y)
       /\ At(f, 11 + Len(G) + Len(A), B)
       /\ At(f, 11 + Len(G) + Len(A) + Len(B), z)
       /\ At(f, 12 + Len(G) + Len(A) + Len(B), d)
  <2>1. /\ Len(h) = 9 /\ Len(h) + Len(G) = 9 + Len(G)
        /\ Len(h) + Len(G) + Len(x) = 10 + Len(G)
        /\ Len(h) + Len(G) + Len(x) + Len(A) = 10 + Len(G) + Len(A)
        /\ Len(h) + Len(G) + Len(x) + Len(A) + Len(y) = 11 + Len(G) + Len(A)
        /\ Len(h) + Len(G) + Len(x) + Len(A) + Len(y) + Len(B) = 11 + Len(G) + Len(A) + Len(B)
        /\ Len(h) + Len(G) + Len(x) + Len(A) + Len(y) + Len(B) + Len(z)
             = 12 + Len(G) + Len(A) + Len(B)
    BY <1>9, <1>10, <1>11
  <2>2. QED
    BY <1>11, <2>1
<1>13. /\ m \in Seq(L) /\ Len(m) = 5 + Len(f) /\ At(m, 0, FrameHead(r)) /\ At(m, 5, f)
  <2>1. PICK n : n = FrameHead(r) \o f
    OBVIOUS
  <2>2. /\ n \in Seq(L) /\ Len(n) = Len(FrameHead(r)) + Len(f)
        /\ At(n, 0, FrameHead(r)) /\ At(n, Len(FrameHead(r)), f)
    BY <1>10, <1>11, <2>1, AtConcat
  <2>3. QED
    BY <1>7, <1>10, <2>1, <2>2
<1>14. \A t \in Seq(L) : \A k \in Nat : At(f, k, t) => At(m, 5 + k, t)
  BY <1>11, <1>13, AtAt
<1>15. /\ At(m, 5, h) /\ At(m, 14, G) /\ At(m, 14 + Len(G), x)
       /\ At(m, 15 + Len(G), A)
       /\ At(m, 15 + Len(G) + Len(A), y)
       /\ At(m, 16 + Len(G) + Len(A), B)
       /\ At(m, 16 + Len(G) + Len(A) + Len(B), z)
       /\ At(m, 17 + Len(G) + Len(A) + Len(B), d)
  <2>1. /\ 5 + 0 = 5 /\ 5 + 9 = 14 /\ 5 + (9 + Len(G)) = 14 + Len(G)
        /\ 5 + (10 + Len(G)) = 15 + Len(G)
        /\ 5 + (10 + Len(G) + Len(A)) = 15 + Len(G) + Len(A)
        /\ 5 + (11 + Len(G) + Len(A)) = 16 + Len(G) + Len(A)
        /\ 5 + (11 + Len(G) + Len(A) + Len(B)) = 16 + Len(G) + Len(A) + Len(B)
        /\ 5 + (12 + Len(G) + Len(A) + Len(B)) = 17 + Len(G) + Len(A) + Len(B)
    BY <1>11
  <2>2. /\ 0 \in Nat /\ 9 \in Nat /\ 9 + Len(G) \in Nat /\ 10 + Len(G) \in Nat
        /\ 10 + Len(G) + Len(A) \in Nat /\ 11 + Len(G) + Len(A) \in Nat
        /\ 11 + Len(G) + Len(A) + Len(B) \in Nat /\ 12 + Len(G) + Len(A) + Len(B) \in Nat
    BY <1>11
  <2>3. /\ At(m, 5 + 0, h) /\ At(m, 5 + 9, G) /\ At(m, 5 + (9 + Len(G)), x)
        /\ At(m, 5 + (10 + Len(G)), A)
    BY <1>8, <1>9, <1>10, <1>12, <1>14, <2>2
  <2>4. /\ At(m, 5 + (10 + Len(G) + Len(A)), y)
        /\ At(m, 5 + (11 + Len(G) + Len(A)), B)
        /\ At(m, 5 + (11 + Len(G) + Len(A) + Len(B)), z)
        /\ At(m, 5 + (12 + Len(G) + Len(A) + Len(B)), d)
    BY <1>8, <1>9, <1>10, <1>12, <1>14, <2>2
  <2>5. QED
    BY <2>1, <2>3, <2>4
<1>16. Len(m) = 17 + Len(G) + Len(A) + Len(B) + Len(d)
  BY <1>11, <1>12, <1>13
<1>17. QED
  BY <1>1, <1>2, <1>3, <1>4, <1>5, <1>8, <1>11, <1>13, <1>15, <1>16, <1>0
  DEF LaidOut

(* The same in the lines of the statistics, s, which end before the last    *)
(* two lines of the MESSAGE; n is the number of lines of the description.   *)
StatisticsLaidOut(s, r, G, A, B, n) ==
  /\ s \in Seq(Seq(Pieces))
  /\ Len(G) \in Nat /\ Len(A) \in Nat /\ Len(B) \in Nat /\ n \in Nat /\ n >= 1
  /\ Len(s) = 2 + Len(G) + Len(A) + Len(B) + n
  /\ s[1] = GeneralMark
  /\ At(s, 1, G)
  /\ s[2 + Len(G)] = TeamAMark
  /\ At(s, 2 + Len(G), A)
  /\ s[3 + Len(G) + Len(A)] = TeamBMark
  /\ At(s, 3 + Len(G) + Len(A), B)
  /\ n = 1 \/ s[4 + Len(G) + Len(A) + Len(B)] = DescriptionMark

LEMMA LinesOfStatistics ==
  ASSUME NEW r \in Reports, NEW m, m = MessageFrame(r),
         NEW G, G = StatLines(General, r.general),
         NEW A, A = StatLines(Team, r.teamA),
         NEW B, B = StatLines(Team, r.teamB),
         NEW s, s = Statistics(m)
  PROVE  StatisticsLaidOut(s, r, G, A, B, Len(r.description))
<1>0. PICK L : L = Seq(Pieces)
  OBVIOUS
<1>1. PICK d : d = r.description
  OBVIOUS
<1>2. /\ m \in Seq(L)
      /\ Len(G) \in Nat /\ Len(A) \in Nat /\ Len(B) \in Nat /\ Len(d) \in Nat
      /\ Len(m) = 17 + Len(G) + Len(A) + Len(B) + Len(d)
      /\ At(m, 5, SendHead(r))
      /\ At(m, 14, G)
      /\ At(m, 14 + Len(G), <<TeamAMark>>)
      /\ At(m, 15 + Len(G), A)
      /\ At(m, 15 + Len(G) + Len(A), <<TeamBMark>>)
      /\ At(m, 16 + Len(G) + Len(A), B)
      /\ At(m, 16 + Len(G) + Len(A) + Len(B), <<DescriptionMark>>)
  <2>1. LaidOut(m, r, G, A, B)
    BY LinesOfMessage
  <2>2. QED
    BY <1>0, <1>1, <2>1 DEF LaidOut
<1>3. Len(d) # 0
  <2>1. d \in Seq(Seq(Text)) /\ d # <<>>
    BY <1>1, Reported
  <2>2. QED
    BY <2>1
<1>4. /\ s \in Seq(L) /\ Len(s) = 2 + Len(G) + Len(A) + Len(B) + Len(d)
      /\ \A i \in 1 .. Len(s) : s[i] = m[13 + i]
  <2>1. PICK to : to = Len(m) - 2
    OBVIOUS
  <2>2. to \in Nat /\ to <= Len(m) /\ 14 <= to + 1
        /\ to + 1 - 14 = 2 + Len(G) + Len(A) + Len(B) + Len(d)
    BY <1>2, <1>3, <2>1
  <2>3. /\ SubSeq(m, 14, to) \in Seq(L)
        /\ Len(SubSeq(m, 14, to)) = to + 1 - 14
        /\ \A i \in 1 .. to + 1 - 14 : SubSeq(m, 14, to)[i] = m[14 + i - 1]
    BY <1>2, <2>2, SubSeqFacts
  <2>4. s = SubSeq(m, 14, to)
    BY <2>1 DEF Statistics
  <2>5. \A i \in 1 .. Len(s) : 14 + i - 1 = 13 + i
    OBVIOUS
  <2>6. QED
    BY <2>2, <2>3, <2>4, <2>5
<1>5. s[1] = GeneralMark
  <2>1. PICK h : h = SendHead(r)
    OBVIOUS
  <2>2. Len(h) = 9 /\ h[9] = GeneralMark
    BY <2>1, HeadFacts
  <2>3. At(m, 5, h)
    BY <1>2, <2>1
  <2>4. m[5 + 9] = h[9]
    BY <2>2, <2>3 DEF At
  <2>5. 1 \in 1 .. Len(s)
    BY <1>2, <1>4
  <2>6. s[1] = m[13 + 1]
    BY <1>4, <2>5
  <2>7. QED
    BY <2>2, <2>4, <2>6
<1>6. ASSUME NEW t, NEW k \in Nat, NEW j, j = 13 + k, At(m, j, t), Len(t) \in Nat,
             k + Len(t) <= Len(s)
      PROVE  At(s, k, t)
  <2>1. ASSUME NEW i \in 1 .. Len(t)
        PROVE  s[k + i] = t[i]
    <3>1. k + i \in 1 .. Len(s) /\ 13 + (k + i) = j + i
      BY <1>4, <1>6, <1>2
    <3>2. s[k + i] = m[13 + (k + i)]
      BY <1>4, <3>1
    <3>3. QED
      BY <1>6, <3>1, <3>2 DEF At
  <2>2. QED
    BY <1>6, <2>1 DEF At
<1>7. At(s, 1, G)
  BY <1>2, <1>4, <1>6
<1>8. At(s, 2 + Len(G), A)
  <2>1. 2 + Len(G) \in Nat /\ 15 + Len(G) = 13 + (2 + Len(G))
        /\ 2 + Len(G) + Len(A) <= Len(s)
    BY <1>2, <1>4
  <2>2. QED
    BY <1>2, <1>6, <2>1
<1>9. At(s, 3 + Len(G) + Len(A), B)
  <2>1. 3 + Len(G) + Len(A) \in Nat /\ 16 + Len(G) + Len(A) = 13 + (3 + Len(G) + Len(A))
        /\ 3 + Len(G) + Len(A) + Len(B) <= Len(s)
    BY <1>2, <1>3, <1>4
  <2>2. QED
    BY <1>2, <1>6, <2>1
<1>10. ASSUME NEW line, NEW j \in Nat, At(m, j, <<line>>), NEW i \in 1 .. Len(s), j + 1 = 13 + i
       PROVE  s[i] = line
  <2>1. Len(<<line>>) = 1 /\ <<line>>[1] = line
    OBVIOUS
  <2>2. m[j + 1] = line
    BY <1>10, <2>1 DEF At
  <2>3. s[i] = m[13 + i]
    BY <1>4
  <2>4. QED
    BY <1>10, <2>2, <2>3
<1>11. s[2 + Len(G)] = TeamAMark
  <2>1. 14 + Len(G) \in Nat /\ 2 + Len(G) \in 1 .. Len(s)
        /\ 14 + Len(G) + 1 = 13 + (2 + Len(G))
    BY <1>2, <1>4
  <2>2. QED
    BY <1>2, <1>10, <2>1
<1>12. s[3 + Len(G) + Len(A)] = TeamBMark
  <2>1. 15 + Len(G) + Len(A) \in Nat /\ 3 + Len(G) + Len(A) \in 1 .. Len(s)
        /\ 15 + Len(G) + Len(A) + 1 = 13 + (3 + Len(G) + Len(A))
    BY <1>2, <1>3, <1>4
  <2>2. QED
    BY <1>2, <1>10, <2>1
<1>13. ASSUME Len(d) # 1
       PROVE  s[4 + Len(G) + Len(A) + Len(B)] = DescriptionMark
  <2>0. Len(d) >= 2
    <3>1. Len(d) \in Nat
      BY <1>2
    <3>2. PICK n : n = Len(d)
      OBVIOUS
    <3>3. n \in Nat /\ n # 0 /\ n # 1
      BY <1>3, <1>13, <3>1, <3>2
    <3>4. QED
      BY <3>2, <3>3
  <2>1. 16 + Len(G) + Len(A) + Len(B) \in Nat /\ 4 + Len(G) + Len(A) + Len(B) \in 1 .. Len(s)
        /\ 16 + Len(G) + Len(A) + Len(B) + 1 = 13 + (4 + Len(G) + Len(A) + Len(B))
    BY <1>2, <1>4, <2>0
  <2>2. QED
    BY <1>2, <1>10, <2>1
<1>14. QED
  <2>1. Len(d) \in Nat /\ Len(d) >= 1
    BY <1>2, <1>3
  <2>2. StatisticsLaidOut(s, r, G, A, B, Len(d))
    BY <1>0, <1>2, <1>4, <1>5, <1>7, <1>8, <1>9, <1>11, <1>12, <1>13, <2>1
    DEF StatisticsLaidOut
  <2>3. QED
    BY <1>1, <2>2

LEMMA OtherLength ==
  ASSUME NEW x, NEW y, NEW j, NEW k, Len(x) = j, Len(y) = k, j # k
  PROVE  x # y
OBVIOUS

(* The markers are found where they were put.                               *)
MarksAt(s, p, q) == Place(s, "team a updates") = p /\ Place(s, "team b updates") = q

LEMMA PlacesOfMarkers ==
  ASSUME NEW r \in Reports, NEW m, m = MessageFrame(r),
         NEW G, G = StatLines(General, r.general),
         NEW A, A = StatLines(Team, r.teamA),
         NEW s, s = Statistics(m)
  PROVE  MarksAt(s, 2 + Len(G), 3 + Len(G) + Len(A))
<1>0. PICK B : B = StatLines(Team, r.teamB)
  OBVIOUS
<1>1. PICK L, n : L = Seq(Pieces) /\ n = Len(r.description)
  OBVIOUS
<1>2. /\ s \in Seq(L)
      /\ Len(G) \in Nat /\ Len(A) \in Nat /\ Len(B) \in Nat /\ n \in Nat /\ n >= 1
      /\ Len(s) = 2 + Len(G) + Len(A) + Len(B) + n
      /\ s[1] = GeneralMark
      /\ At(s, 1, G)
      /\ s[2 + Len(G)] = TeamAMark
      /\ At(s, 2 + Len(G), A)
      /\ s[3 + Len(G) + Len(A)] = TeamBMark
  <2>1. StatisticsLaidOut(s, r, G, A, B, n)
    BY <1>0, <1>1, LinesOfStatistics
  <2>2. QED
    BY <1>1, <2>1 DEF StatisticsLaidOut
<1>3. /\ \A i \in 1 .. Len(G) : Len(G[i]) = 2
      /\ \A i \in 1 .. Len(A) : Len(A[i]) = 2
  BY Reported, StatLinesFacts
<1>4. /\ \A k \in 1 .. Len(G) : Len(s[1 + k]) = 2
      /\ \A k \in 1 .. Len(A) : Len(s[2 + Len(G) + k]) = 2
  <2>1. ASSUME NEW k \in 1 .. Len(G)
        PROVE  Len(s[1 + k]) = 2
    <3>1. s[1 + k] = G[k]
      BY <1>2 DEF At
    <3>2. QED
      BY <1>3, <3>1
  <2>2. ASSUME NEW k \in 1 .. Len(A)
        PROVE  Len(s[2 + Len(G) + k]) = 2
    <3>1. s[2 + Len(G) + k] = A[k]
      BY <1>2 DEF At
    <3>2. QED
      BY <1>3, <3>1
  <2>3. QED
    BY <2>1, <2>2
<1>5. ASSUME NEW i \in 1 .. 1 + Len(G), NEW mark \in {TeamAMark, TeamBMark}
      PROVE  s[i] # mark
  <2>1. CASE i = 1
    <3>1. s[i] = GeneralMark
      BY <1>2, <2>1
    <3>2. GeneralMark # mark
      BY Marks
    <3>3. QED
      BY <3>1, <3>2
  <2>2. CASE i # 1
    <3>1. PICK k \in 1 .. Len(G) : i = 1 + k
      <4>1. i - 1 \in 1 .. Len(G) /\ i = 1 + (i - 1)
        BY <1>2, <2>2
      <4>2. QED
        BY <4>1
    <3>2. Len(s[i]) = 2
      BY <1>4, <3>1
    <3>3. Len(mark) = 1
      BY Marks
    <3>4. 2 # 1
      OBVIOUS
    <3>5. QED
      BY <3>2, <3>3, <3>4, OtherLength
  <2>3. QED
    BY <2>1, <2>2
<1>6. ASSUME NEW i \in 1 .. 2 + Len(G) + Len(A)
      PROVE  s[i] # TeamBMark
  <2>1. CASE i <= 1 + Len(G)
    <3>1. i \in 1 .. 1 + Len(G)
      BY <1>2, <2>1
    <3>2. QED
      BY <1>5, <3>1
  <2>2. CASE i = 2 + Len(G)
    <3>1. s[i] = TeamAMark
      BY <1>2, <2>2
    <3>2. TeamAMark # TeamBMark
      BY Marks
    <3>3. QED
      BY <3>1, <3>2
  <2>3. CASE i > 2 + Len(G)
    <3>1. PICK k \in 1 .. Len(A) : i = 2 + Len(G) + k
      <4>1. /\ i - 2 - Len(G) \in 1 .. Len(A)
            /\ i = 2 + Len(G) + (i - 2 - Len(G))
        BY <1>2, <2>3
      <4>2. QED
        BY <4>1
    <3>2. Len(s[i]) = 2
      BY <1>4, <3>1
    <3>3. Len(TeamBMark) = 1
      BY Marks
    <3>4. 2 # 1
      OBVIOUS
    <3>5. QED
      BY <3>2, <3>3, <3>4, OtherLength
  <2>4. QED
    BY <1>2, <2>1, <2>2, <2>3
<1>7. Place(s, "team a updates") = 2 + Len(G)
  <2>1. PICK k : k = 2 + Len(G)
    OBVIOUS
  <2>2. k \in 1 .. Len(s) /\ k - 1 = 1 + Len(G)
    BY <1>2, <2>1
  <2>3. s[k] = TeamAMark /\ \A i \in 1 .. k - 1 : s[i] # TeamAMark
    BY <1>2, <1>5, <2>1, <2>2
  <2>4. PICK marker : marker = "team a updates"
    OBVIOUS
  <2>5. TeamAMark = <<marker>>
    BY <2>4 DEF TeamAMark
  <2>6. Place(s, marker) = k
    <3>1. s \in Seq(L)
      BY <1>2
    <3>2. QED
      BY <3>1, <2>2, <2>3, <2>5, PlaceIs
  <2>7. QED
    BY <2>1, <2>4, <2>6
<1>8. Place(s, "team b updates") = 3 + Len(G) + Len(A)
  <2>1. PICK k : k = 3 + Len(G) + Len(A)
    OBVIOUS
  <2>2. k \in 1 .. Len(s) /\ k - 1 = 2 + Len(G) + Len(A)
    BY <1>2, <2>1
  <2>3. s[k] = TeamBMark /\ \A i \in 1 .. k - 1 : s[i] # TeamBMark
    BY <1>2, <1>6, <2>1, <2>2
  <2>4. PICK marker : marker = "team b updates"
    OBVIOUS
  <2>5. TeamBMark = <<marker>>
    BY <2>4 DEF TeamBMark
  <2>6. Place(s, marker) = k
    <3>1. s \in Seq(L)
      BY <1>2
    <3>2. QED
      BY <3>1, <2>2, <2>3, <2>5, PlaceIs
  <2>7. QED
    BY <2>1, <2>4, <2>6
<1>9. QED
  BY <1>7, <1>8 DEF MarksAt

(* clientResult cuts out the lines of the statistics that were reported,    *)
(* but the lines it takes for those of team b are others if the description *)
(* has several lines: then one of them is no statistic.                     *)
LEMMA PartsOfMessage ==
  ASSUME NEW r \in Reports, NEW m, m = MessageFrame(r)
  PROVE  /\ GeneralLines(m) = StatLines(General, r.general)
         /\ TeamALines(m) = StatLines(Team, r.teamA)
         /\ SingleLine(r) => TeamBLines(m) = StatLines(Team, r.teamB)
         /\ ~SingleLine(r) => Raises(TeamBLines(m)) \/ Len(TeamBLines(m)) \notin {1, 2}
<1>0. PICK s : s = Statistics(m)
  OBVIOUS
<1>1. PICK G, A, B : /\ G = StatLines(General, r.general) /\ A = StatLines(Team, r.teamA)
                     /\ B = StatLines(Team, r.teamB)
  OBVIOUS
<1>2. PICK L, n, g, a, b : /\ L = Seq(Pieces) /\ n = Len(r.description)
                           /\ g = Len(G) /\ a = Len(A) /\ b = Len(B)
  OBVIOUS
<1>3. /\ G \in Seq(L) /\ A \in Seq(L) /\ B \in Seq(L)
  BY <1>1, <1>2, Reported, StatLinesFacts
<1>4. StatisticsLaidOut(s, r, G, A, B, n)
  BY <1>0, <1>1, <1>2, LinesOfStatistics
<1>5. /\ s \in Seq(L)
      /\ g \in Nat /\ a \in Nat /\ b \in Nat /\ n \in Nat /\ n >= 1
      /\ Len(s) = 2 + g + a + b + n
      /\ At(s, 1, G) /\ At(s, 2 + g, A) /\ At(s, 3 + g + a, B)
      /\ n = 1 \/ s[4 + g + a + b] = DescriptionMark
  BY <1>2, <1>4 DEF StatisticsLaidOut
<1>6. PICK p, q : p = 2 + Len(G) /\ q = 3 + Len(G) + Len(A)
  OBVIOUS
<1>7. MarksAt(s, p, q) /\ p = 2 + g /\ q = 3 + g + a
  <2>1. MarksAt(s, 2 + Len(G), 3 + Len(G) + Len(A))
    BY <1>0, <1>1, PlacesOfMarkers
  <2>2. QED
    BY <1>2, <1>6, <2>1
<1>8. ASSUME NEW t \in Seq(L), NEW k \in Nat, At(s, k, t)
      PROVE  SubSeq(s, k + 1, k + Len(t)) = t
  BY <1>5, <1>8, PartIs DEF At
<1>9. /\ GeneralLines(m) = SubSeq(s, 2, p - 1)
      /\ TeamALines(m) = SubSeq(s, p + 1, q - 1)
      /\ TeamBLines(m) = SubSeq(s, q + 1, Len(s))
  BY <1>0, <1>7 DEF GeneralLines, TeamALines, TeamBLines, MarksAt
<1>10. GeneralLines(m) = G
  <2>1. 2 = 1 + 1 /\ p - 1 = 1 + Len(G)
    BY <1>2, <1>5, <1>7
  <2>2. SubSeq(s, 1 + 1, 1 + Len(G)) = G
    BY <1>3, <1>5, <1>8
  <2>3. QED
    BY <1>9, <2>1, <2>2
<1>11. TeamALines(m) = A
  <2>1. p \in Nat /\ At(s, p, A) /\ q - 1 = p + Len(A)
    BY <1>2, <1>5, <1>7
  <2>2. SubSeq(s, p + 1, p + Len(A)) = A
    BY <1>3, <1>8, <2>1
  <2>3. QED
    BY <1>9, <2>1, <2>2
<1>12. SingleLine(r) <=> n = 1
  BY <1>2 DEF SingleLine
<1>13. n = 1 => TeamBLines(m) = B
  <2>1. ASSUME n = 1
        PROVE  SubSeq(s, q + 1, Len(s)) = B
    <3>1. q \in Nat /\ At(s, q, B) /\ Len(s) = q + Len(B)
      BY <1>2, <1>5, <1>7, <2>1
    <3>2. SubSeq(s, q + 1, q + Len(B)) = B
      BY <1>3, <1>8, <3>1
    <3>3. QED
      BY <3>1, <3>2
  <2>2. QED
    BY <1>9, <2>1
<1>14. ASSUME n # 1
       PROVE  Raises(TeamBLines(m)) \/ Len(TeamBLines(m)) \notin {1, 2}
  <2>1. PICK t, from, to : t = SubSeq(s, from, to) /\ from = 4 + g + a /\ to = Len(s)
    OBVIOUS
  <2>2. /\ from \in Nat /\ to \in Nat /\ to <= Len(s) /\ from >= 1 /\ from <= to + 1
        /\ to + 1 - from = b + n - 1 /\ b + 1 \in 1 .. to + 1 - from
    BY <1>5, <1>14, <2>1
  <2>3. /\ Len(t) = to + 1 - from
        /\ \A i \in 1 .. to + 1 - from : t[i] = s[from + i - 1]
    BY <1>5, <2>1, <2>2, SubSeqFacts
  <2>4. t[b + 1] = DescriptionMark
    <3>1. from + (b + 1) - 1 = 4 + g + a + b
      BY <1>5, <2>1
    <3>2. t[b + 1] = s[from + (b + 1) - 1]
      BY <2>2, <2>3
    <3>3. QED
      BY <1>5, <1>14, <3>1, <3>2
  <2>5. PICK i \in 1 .. Len(t) : Len(t[i]) < 2
    <3>1. Len(t[b + 1]) = 1
      BY <2>4, Marks
    <3>2. b + 1 \in 1 .. Len(t) /\ Len(t[b + 1]) < 2
      BY <2>2, <2>3, <3>1
    <3>3. QED
      BY <3>2
  <2>6. TeamBLines(m) = t
    <3>1. q + 1 = 4 + g + a
      BY <1>5, <1>7
    <3>2. QED
      BY <1>9, <2>1, <3>1
  <2>7. QED
    BY <2>5, <2>6 DEF Raises
<1>15. QED
  BY <1>1, <1>10, <1>11, <1>12, <1>13, <1>14

(* ... and finds the user, the game and what happened.                      *)
LEMMA HeadOfMessage ==
  ASSUME NEW r \in Reports, NEW m, m = MessageFrame(r)
  PROVE  /\ KeyOf(m) = r.key
         /\ EventOf(m) \in Events /\ EventTells(EventOf(m), r)
<1>1. PICK G, A, B : /\ G = StatLines(General, r.general) /\ A = StatLines(Team, r.teamA)
                     /\ B = StatLines(Team, r.teamB)
  OBVIOUS
<1>2. PICK d, f, h, k : /\ d = r.description /\ f = FrameHead(r) /\ h = SendHead(r)
                        /\ k = 17 + Len(G) + Len(A) + Len(B)
  OBVIOUS
<1>3. LaidOut(m, r, G, A, B)
  BY <1>1, LinesOfMessage
<1>4. /\ At(m, 0, f) /\ At(m, 5, h) /\ At(m, k, d) /\ k \in Nat
      /\ Len(m) = k + Len(d)
  BY <1>2, <1>3 DEF LaidOut
<1>5. /\ Len(f) = 5 /\ f[4][2] = r.key[2]
      /\ Len(h) = 9 /\ h[4][2] = r.key[1] /\ h[7][2] = r.name[1] /\ h[8][2] = r.time
  BY <1>2, HeadFacts
<1>6. d \in Seq(Seq(Text)) /\ d # <<>>
  BY <1>2, Reported
<1>7. Len(d) \in 1 .. Len(d) /\ d[Len(d)] \in Seq(Text)
  BY <1>6
<1>8. m[4] = f[4]
  BY <1>4, <1>5 DEF At
<1>9. m[5 + 4] = h[4] /\ m[5 + 7] = h[7] /\ m[5 + 8] = h[8]
  BY <1>4, <1>5 DEF At
<1>10. m[Len(m)] = d[Len(d)]
  BY <1>4, <1>7 DEF At
<1>11. 5 + 4 = 9 /\ 5 + 7 = 12 /\ 5 + 8 = 13
  OBVIOUS
<1>12. KeyOf(m) = <<r.key[1], r.key[2]>>
  BY <1>5, <1>8, <1>9, <1>11 DEF KeyOf
<1>13. r.key = <<r.key[1], r.key[2]>>
  BY Reported
<1>14. EventOf(m) = [name |-> r.name[1], time |-> r.time, description |-> d[Len(d)]]
  BY <1>5, <1>9, <1>10, <1>11 DEF EventOf
<1>15. r.name[1] \in Text /\ r.time \in Int
  BY Reported
<1>16. EventOf(m) \in Events
  BY <1>7, <1>14, <1>15 DEF Events
<1>17. EventTells(EventOf(m), r)
  BY <1>2, <1>14 DEF EventTells, SingleLine
<1>18. QED
  BY <1>12, <1>13, <1>16, <1>17

-----------------------------------------------------------------------------
(* The inductive invariant.                                                 *)

(* How many of the reports that arrived are in this part of the summaries.  *)
(* While the socket thread is in clientResult the last one is in some of    *)
(* the parts only.                                                          *)
Upto(part) ==
  IF \/ spc = "read"
     \/ part = "events" /\ spc # "event"
     \/ part = "general" /\ spc \in {"teamA", "teamB"}
     \/ part = "teamA" /\ spc = "teamB"
  THEN Len(arrived) ELSE Len(arrived) - 1

AllParts == Parts \cup {"events"}

PartTells(value, part, k, n) ==
  IF part = "events" THEN EventsTell(value, k, n)
  ELSE Reads(part, k, n) => \A s \in DOMAIN Fresh[part] : Told(value[s], k, n, part, s)

(* The MESSAGE in hand is that of the last report.                          *)
Handled ==
  spc # "read" => Len(arrived) >= 1 /\ message = MessageFrame(arrived[Len(arrived)])

(* There is a summary of those a report came of, ...                        *)
SummariesThereAre ==
  \A k \in Keys : summaries[k] = None <=> ReportsOn(k, Len(arrived)) = {}

(* ... and each of its parts tells of the reports that are in it.           *)
SummariesTell ==
  \A k \in Keys : summaries[k] # None =>
    \A part \in AllParts : PartTells(summaries[k][part], part, k, Upto(part))

Counted == Len(arrived) <= MaxReports /\ known <= Done

(* The parts that were copied.                                              *)
Copied(part) ==
  \/ kpc \in {"events", "write"}
  \/ part = "general" /\ kpc \in {"teamA", "teamB"}
  \/ part = "teamA" /\ kpc = "teamB"

(* Each tells of no fewer reports than there were when the command came,    *)
(* and of no more than the events do.                                       *)
CopyTells ==
  \A part \in Parts : Copied(part) =>
    \E n \in known .. Upto("events") : PartTells(copy[part], part, wanted, n)

Inv ==
  /\ TypeOK
  /\ Handled /\ SummariesThereAre /\ SummariesTell /\ Counted
  /\ CopyTells /\ FileUpToDate /\ SingleLinesSurvive

-----------------------------------------------------------------------------
(* The reports on a summary.                                                *)

LEMMA ReportsOnFacts ==
  ASSUME NEW n \in Nat, NEW k
  PROVE  /\ IsFiniteSet(ReportsOn(k, n)) /\ Cardinality(ReportsOn(k, n)) \in 0 .. n
         /\ ReportsOn(k, n) \subseteq 1 .. n
<1>1. ReportsOn(k, n) \subseteq 1 .. n
  BY DEF ReportsOn
<1>2. IsFiniteSet(1 .. n) /\ Cardinality(1 .. n) = n
  BY FS_Interval
<1>3. /\ IsFiniteSet(ReportsOn(k, n)) /\ Cardinality(ReportsOn(k, n)) <= n
  BY <1>1, <1>2, FS_Subset
<1>4. Cardinality(ReportsOn(k, n)) \in Nat
  BY <1>3, FS_CardinalityType
<1>5. QED
  BY <1>1, <1>3, <1>4

LEMMA OneMore ==
  ASSUME NEW n \in Nat, n # 0, NEW k
  PROVE  /\ arrived[n].key # k => ReportsOn(k, n) = ReportsOn(k, n - 1)
         /\ arrived[n].key = k =>
              /\ ReportsOn(k, n) = ReportsOn(k, n - 1) \cup {n}
              /\ Cardinality(ReportsOn(k, n)) = Cardinality(ReportsOn(k, n - 1)) + 1
         /\ n \notin ReportsOn(k, n - 1)
<1>1. n - 1 \in Nat /\ 1 .. n = (1 .. n - 1) \cup {n} /\ n \notin 1 .. n - 1
  OBVIOUS
<1>2. n \notin ReportsOn(k, n - 1)
  BY <1>1 DEF ReportsOn
<1>3. arrived[n].key # k => ReportsOn(k, n) = ReportsOn(k, n - 1)
  BY <1>1 DEF ReportsOn
<1>4. arrived[n].key = k => ReportsOn(k, n) = ReportsOn(k, n - 1) \cup {n}
  BY <1>1 DEF ReportsOn
<1>5. IsFiniteSet(ReportsOn(k, n - 1))
  BY <1>1, ReportsOnFacts
<1>6. Cardinality(ReportsOn(k, n - 1) \cup {n}) = Cardinality(ReportsOn(k, n - 1)) + 1
  BY <1>2, <1>5, FS_AddElement
<1>7. QED
  BY <1>2, <1>3, <1>4, <1>6

(* The event of the next report is put behind the others.                   *)
LEMMA EventsTellMore ==
  ASSUME NEW n \in Nat, n # 0, NEW k, NEW events \in Seq(Events), NEW event \in Events,
         EventsTell(events, k, n - 1), arrived[n].key = k, EventTells(event, arrived[n])
  PROVE  EventsTell(Append(events, event), k, n)
<1> DEFINE new == Append(events, event)
           C(i) == Cardinality(ReportsOn(k, i))
<1>1. n - 1 \in Nat
  OBVIOUS
<1>2. /\ ReportsOn(k, n) = ReportsOn(k, n - 1) \cup {n}
      /\ C(n) = C(n - 1) + 1
  BY OneMore
<1>3. Len(events) = C(n - 1) /\ C(n - 1) \in Nat
  BY <1>1, ReportsOnFacts DEF EventsTell
<1>4. /\ Len(new) = C(n - 1) + 1 /\ new[C(n - 1) + 1] = event
      /\ \A c \in 1 .. C(n - 1) : new[c] = events[c]
  BY <1>3
<1>5. ASSUME NEW i \in ReportsOn(k, n - 1)
      PROVE  EventTells(new[C(i)], arrived[i])
  <2>1. i \in 1 .. n - 1
    BY <1>1, ReportsOnFacts
  <2>2. /\ i \in Nat /\ i # 0 /\ arrived[i].key = k
        /\ ReportsOn(k, i) \subseteq ReportsOn(k, n - 1)
    BY <1>1, <2>1 DEF ReportsOn
  <2>3. C(i) = C(i - 1) + 1 /\ C(i - 1) \in Nat
    <3>1. i - 1 \in Nat
      BY <2>2
    <3>2. C(i - 1) \in Nat
      BY <3>1, ReportsOnFacts
    <3>3. C(i) = C(i - 1) + 1
      BY <2>2, OneMore
    <3>4. QED
      BY <3>2, <3>3
  <2>4. C(i) <= C(n - 1)
    BY <1>1, <2>2, ReportsOnFacts, FS_Subset
  <2>5. C(i) \in 1 .. C(n - 1)
    BY <1>3, <2>3, <2>4
  <2>6. EventTells(events[C(i)], arrived[i])
    BY DEF EventsTell
  <2>7. QED
    BY <1>4, <2>5, <2>6
<1>6. EventTells(new[C(n)], arrived[n])
  BY <1>2, <1>4
<1>7. ASSUME NEW i \in ReportsOn(k, n)
      PROVE  EventTells(new[C(i)], arrived[i])
  BY <1>2, <1>5, <1>6
<1>8. Len(new) = C(n)
  BY <1>2, <1>4
<1>9. QED
  BY <1>7, <1>8 DEF EventsTell

(* A statistic the next report has replaces the one that was told.          *)
LEMMA ToldMore ==
  ASSUME NEW n \in Nat, n # 0, NEW k, NEW part, NEW s, NEW value,
         Told(value, k, n - 1, part, s), arrived[n].key = k
  PROVE  Told(IF arrived[n][part][s] = None THEN value ELSE arrived[n][part][s], k, n, part, s)
<1> DEFINE Having(j) == {i \in ReportsOn(k, j) : arrived[i][part][s] # None}
<1>1. n - 1 \in Nat
  OBVIOUS
<1>2. ReportsOn(k, n) = ReportsOn(k, n - 1) \cup {n}
  BY OneMore
<1>3. CASE arrived[n][part][s] = None
  <2>1. Having(n) = Having(n - 1)
    BY <1>2, <1>3
  <2>2. QED
    BY <1>3, <2>1 DEF Told
<1>4. CASE arrived[n][part][s] # None
  <2>1. n \in Having(n)
    BY <1>2, <1>4
  <2>2. \A j \in Having(n) : j <= n
    <3>1. ReportsOn(k, n) \subseteq 1 .. n
      BY ReportsOnFacts
    <3>2. QED
      BY <3>1
  <2>3. QED
    BY <1>4, <2>1, <2>2 DEF Told
<1>5. QED
  BY <1>3, <1>4

(* What arrived stays.                                                      *)
Grown == arrived' = arrived \/ \E r \in Reports : arrived' = Append(arrived, r)

LEMMA Stable ==
  ASSUME arrived \in Seq(Reports), Grown, NEW n \in 0 .. Len(arrived)
  PROVE  /\ arrived' \in Seq(Reports) /\ Len(arrived) <= Len(arrived')
         /\ \A i \in 1 .. n : arrived'[i] = arrived[i]
         /\ \A k : ReportsOn(k, n)' = ReportsOn(k, n)
<1>1. /\ arrived' \in Seq(Reports) /\ Len(arrived) <= Len(arrived')
      /\ \A i \in 1 .. Len(arrived) : arrived'[i] = arrived[i]
  <2>1. CASE arrived' = arrived
    BY <2>1
  <2>2. CASE \E r \in Reports : arrived' = Append(arrived, r)
    BY <2>2
  <2>3. QED
    BY <2>1, <2>2 DEF Grown
<1>2. \A i \in 1 .. n : arrived'[i] = arrived[i]
  BY <1>1
<1>3. \A k : ReportsOn(k, n)' = ReportsOn(k, n)
  BY <1>2 DEF ReportsOn
<1>4. QED
  BY <1>1, <1>2, <1>3

LEMMA StableTold ==
  ASSUME arrived \in Seq(Reports), Grown, NEW n \in 0 .. Len(arrived),
         NEW value, NEW part, NEW s, NEW k, Reads(part, k, n) => Told(value, k, n, part, s)
  PROVE  (Reads(part, k, n) => Told(value, k, n, part, s))'
<1>1. /\ \A i \in 1 .. n : arrived'[i] = arrived[i]
      /\ ReportsOn(k, n)' = ReportsOn(k, n)
      /\ ReportsOn(k, n) \subseteq 1 .. n
  BY Stable, ReportsOnFacts
<1>2. ASSUME Reads(part, k, n)'
      PROVE  Reads(part, k, n)
  BY <1>1, <1>2 DEF Reads
<1>3. ASSUME Told(value, k, n, part, s)
      PROVE  Told(value, k, n, part, s)'
  BY <1>1, <1>3 DEF Told
<1>4. QED
  BY <1>2, <1>3

LEMMA StableEvents ==
  ASSUME arrived \in Seq(Reports), Grown, NEW n \in 0 .. Len(arrived),
         NEW events, NEW k, EventsTell(events, k, n)
  PROVE  EventsTell(events, k, n)'
<1>1. /\ \A i \in 1 .. n : arrived'[i] = arrived[i]
      /\ ReportsOn(k, n)' = ReportsOn(k, n)
      /\ ReportsOn(k, n) \subseteq 1 .. n
  BY Stable, ReportsOnFacts
<1>2. ASSUME NEW i \in ReportsOn(k, n)
      PROVE  ReportsOn(k, i)' = ReportsOn(k, i) /\ arrived'[i] = arrived[i]
  <2>1. i \in 1 .. n /\ i \in 0 .. Len(arrived)
    BY <1>1
  <2>2. QED
    BY <1>1, <2>1, Stable
<1>3. QED
  BY <1>1, <1>2 DEF EventsTell

LEMMA StableTells ==
  ASSUME arrived \in Seq(Reports), Grown, NEW n \in 0 .. Len(arrived),
         NEW value, NEW part, NEW k, PartTells(value, part, k, n)
  PROVE  PartTells(value, part, k, n)'
<1>1. CASE part = "events"
  BY <1>1, StableEvents DEF PartTells
<1>2. CASE part # "events"
  <2>1. ASSUME NEW s \in DOMAIN Fresh[part]
        PROVE  (Reads(part, k, n) => Told(value[s], k, n, part, s))'
    <3>1. PICK v : v = value[s]
      OBVIOUS
    <3>2. Reads(part, k, n) => Told(v, k, n, part, s)
      BY <1>2, <3>1 DEF PartTells
    <3>3. (Reads(part, k, n) => Told(v, k, n, part, s))'
      BY <3>2, StableTold
    <3>4. QED
      BY <3>1, <3>3
  <2>2. QED
    BY <1>2, <2>1 DEF PartTells
<1>3. QED
  BY <1>1, <1>2

(* The statistics of a part.                                                *)
NamesOf(part) == IF part = "general" THEN General ELSE Team

LEMMA PartFacts ==
  ASSUME NEW part \in Parts
  PROVE  /\ part # "events" /\ NamesOf(part) \in {General, Team}
         /\ Fresh[part] \in [ToSet(NamesOf(part)) -> Values]
         /\ DOMAIN Fresh[part] = ToSet(NamesOf(part))
         /\ \A r \in Reports : r[part] \in [ToSet(NamesOf(part)) -> Text \cup {None}]
         /\ \A s \in SummaryType : s[part] \in [ToSet(NamesOf(part)) -> Values]
<1>1. /\ FreshGeneral \in [ToSet(General) -> Values] /\ FreshTeam \in [ToSet(Team) -> Values]
  BY DEF FreshGeneral, FreshTeam, Values
<1>2. /\ Fresh.general = FreshGeneral /\ Fresh.teamA = FreshTeam /\ Fresh.teamB = FreshTeam
  BY DEF Fresh
<1>3. CASE part = "general"
  BY <1>1, <1>2, <1>3, Reported DEF NamesOf, SummaryType
<1>4. CASE part = "teamA"
  BY <1>1, <1>2, <1>4, Reported DEF NamesOf, SummaryType
<1>5. CASE part = "teamB"
  BY <1>1, <1>2, <1>5, Reported DEF NamesOf, SummaryType
<1>6. QED
  BY <1>3, <1>4, <1>5 DEF Parts

LEMMA FreshFacts == Fresh \in SummaryType /\ Fresh.events = <<>>
<1>1. /\ FreshGeneral \in [ToSet(General) -> Values] /\ FreshTeam \in [ToSet(Team) -> Values]
  BY DEF FreshGeneral, FreshTeam, Values
<1>2. <<>> \in Seq(Events)
  OBVIOUS
<1>3. QED
  BY <1>1, <1>2 DEF Fresh, SummaryType

(* One part of a summary is replaced.                                       *)
IsPart(part, value) ==
  IF part = "events" THEN value \in Seq(Events)
  ELSE value \in [ToSet(NamesOf(part)) -> Values]

IsReplaced(new, summary, part, value) ==
  /\ new \in SummaryType /\ new[part] = value
  /\ \A p \in AllParts \ {part} : new[p] = summary[p]

LEMMA Replaced ==
  ASSUME NEW summary \in SummaryType, NEW part \in AllParts, NEW value, IsPart(part, value),
         NEW new, new = [summary EXCEPT ![part] = value]
  PROVE  IsReplaced(new, summary, part, value)
<1>1. CASE part = "events"
  BY <1>1 DEF IsPart, IsReplaced, SummaryType, AllParts, Parts
<1>2. CASE part = "general"
  BY <1>2 DEF IsPart, IsReplaced, SummaryType, AllParts, Parts, NamesOf
<1>3. CASE part = "teamA"
  BY <1>3 DEF IsPart, IsReplaced, SummaryType, AllParts, Parts, NamesOf
<1>4. CASE part = "teamB"
  BY <1>4 DEF IsPart, IsReplaced, SummaryType, AllParts, Parts, NamesOf
<1>5. QED
  BY <1>1, <1>2, <1>3, <1>4 DEF AllParts, Parts

-----------------------------------------------------------------------------
(* What the steps of the socket thread do to the summaries and their parts. *)

LEMMA UptoFacts ==
  ASSUME TypeOK, Handled
  PROVE  /\ Len(arrived) \in Nat /\ Done \in Nat
         /\ \A part : Upto(part) \in Done .. Len(arrived)
         /\ \A part \in Parts : Upto(part) <= Upto("events")
         /\ Done <= Len(arrived)
<1>1. arrived \in Seq(Reports)
  BY DEF TypeOK
<1>2. PICK n : n = Len(arrived)
  OBVIOUS
<1>3. n \in Nat /\ (spc # "read" => n >= 1)
  BY <1>1, <1>2 DEF Handled
<1>4. Done \in Nat /\ Done <= n /\ \A part : Upto(part) \in Done .. n
  BY <1>2, <1>3 DEF Done, Upto
<1>5. \A part \in Parts : Upto(part) <= Upto("events")
  <2>1. ASSUME NEW part \in Parts
        PROVE  Upto(part) <= Upto("events")
    <3>1. part \in {"general", "teamA", "teamB"}
      BY DEF Parts
    <3>2. spc # "event" => Upto("events") = n
      BY <1>2 DEF Upto
    <3>3. spc = "event" => Upto(part) = n - 1
      BY <1>2, <3>1 DEF Upto
    <3>4. Upto(part) \in Done .. n /\ Upto("events") \in n - 1 .. n
      BY <1>2, <1>3, <1>4 DEF Upto
    <3>5. QED
      BY <1>3, <3>2, <3>3, <3>4
  <2>2. QED
    BY <2>1
<1>6. QED
  BY <1>2, <1>3, <1>4, <1>5

(* Nothing is new to the summaries the last report is not about.            *)
LEMMA OthersTell ==
  ASSUME NEW n \in Nat, n # 0, NEW k, arrived[n].key # k,
         NEW value, NEW part, PartTells(value, part, k, n - 1)
  PROVE  PartTells(value, part, k, n)
<1>1. ReportsOn(k, n) = ReportsOn(k, n - 1)
  BY OneMore
<1>2. QED
  BY <1>1 DEF PartTells, EventsTell, Reads, Told

LEMMA NoneTell ==
  ASSUME NEW n \in Nat, NEW k, ReportsOn(k, n) = {}, NEW part \in AllParts
  PROVE  PartTells(Fresh[part], part, k, n)
<1>1. CASE part = "events"
  <2>1. Len(Fresh[part]) = 0 /\ Cardinality({}) = 0
    BY <1>1, FreshFacts, FS_EmptySet
  <2>2. QED
    BY <1>1, <2>1 DEF PartTells, EventsTell
<1>2. CASE part # "events"
  BY <1>2 DEF PartTells, Told
<1>3. QED
  BY <1>1, <1>2

(* One part of the summary of the last report now tells of it, too.         *)
LEMMA OnePart ==
  ASSUME TypeOK, SummariesThereAre, SummariesTell, arrived' = arrived,
         NEW n, n = Len(arrived), n # 0, NEW k, k = arrived[n].key,
         NEW part \in AllParts, NEW value, IsPart(part, value),
         PartTells(value, part, k, n),
         summaries' = [summaries EXCEPT ![k] = [summaries[k] EXCEPT ![part] = value]],
         Upto(part) = n - 1, Upto(part)' = n,
         \A p \in AllParts \ {part} : Upto(p)' = Upto(p)
  PROVE  /\ summaries' \in [Keys -> SummaryType \cup {None}]
         /\ \A l \in Keys : summaries[l] # None <=> summaries'[l] # None
         /\ SummariesThereAre' /\ SummariesTell'
<1>1. /\ n \in Nat /\ arrived[n] \in Reports /\ k \in Keys
      /\ summaries \in [Keys -> SummaryType \cup {None}]
  <2>1. arrived \in Seq(Reports) /\ summaries \in [Keys -> SummaryType \cup {None}]
    BY DEF TypeOK
  <2>2. n \in Nat /\ arrived[n] \in Reports
    BY <2>1
  <2>3. QED
    BY <2>1, <2>2, Reported
<1>2. summaries[k] # None
  <2>1. n \in ReportsOn(k, n)
    BY <1>1 DEF ReportsOn
  <2>2. QED
    BY <1>1, <2>1 DEF SummariesThereAre
<1>3. PICK old \in SummaryType : old = summaries[k]
  BY <1>1, <1>2
<1>4. PICK new : new = [old EXCEPT ![part] = value]
  OBVIOUS
<1>5. /\ new \in SummaryType /\ new[part] = value
      /\ \A p \in AllParts \ {part} : new[p] = old[p]
  <2>1. IsReplaced(new, old, part, value)
    BY <1>3, <1>4, Replaced
  <2>2. QED
    BY <2>1 DEF IsReplaced
<1>6. summaries' = [summaries EXCEPT ![k] = new]
  BY <1>3, <1>4
<1>7. new # None
  BY <1>5, NoneAssumption
<1>8. /\ summaries' \in [Keys -> SummaryType \cup {None}]
      /\ summaries'[k] = new
      /\ \A l \in Keys \ {k} : summaries'[l] = summaries[l]
  BY <1>1, <1>5, <1>6
<1>9. \A l \in Keys : summaries[l] # None <=> summaries'[l] # None
  BY <1>2, <1>7, <1>8
<1>10. SummariesThereAre'
  BY <1>9 DEF SummariesThereAre, ReportsOn
<1>11. ASSUME NEW l \in Keys, summaries'[l] # None, NEW p \in AllParts, NEW v, v = summaries'[l][p],
              NEW u, u = Upto(p)'
       PROVE  PartTells(v, p, l, u)
  <2>1. summaries[l] # None
    BY <1>9, <1>11
  <2>2. CASE p # part
    <3>1. summaries'[l][p] = summaries[l][p] /\ u = Upto(p)
      BY <1>3, <1>5, <1>8, <1>11, <2>2
    <3>2. QED
      BY <1>11, <2>1, <3>1 DEF SummariesTell
  <2>3. CASE p = part /\ l = k
    BY <1>5, <1>8, <1>11, <2>3
  <2>4. CASE p = part /\ l # k
    <3>1. summaries'[l][p] = summaries[l][p] /\ u = n /\ Upto(p) = n - 1
      BY <1>8, <1>11, <2>4
    <3>2. PartTells(v, p, l, n - 1)
      BY <1>11, <2>1, <3>1 DEF SummariesTell
    <3>3. PartTells(v, p, l, n)
      BY <1>1, <2>4, <3>2, OthersTell
    <3>4. QED
      BY <3>1, <3>3
  <2>5. QED
    BY <2>2, <2>3, <2>4
<1>12. SummariesTell'
  <2>1. ASSUME NEW l \in Keys, summaries'[l] # None, NEW p \in AllParts
        PROVE  PartTells(summaries[l][p], p, l, Upto(p))'
    <3>1. PICK v, u : v = summaries'[l][p] /\ u = Upto(p)'
      OBVIOUS
    <3>2. PartTells(v, p, l, u)
      BY <1>11, <2>1, <3>1
    <3>3. PartTells(v, p, l, u)'
      BY <3>2 DEF PartTells, EventsTell, Reads, Told, ReportsOn
    <3>4. QED
      BY <3>1, <3>3
  <2>2. QED
    BY <2>1 DEF SummariesTell
<1>13. QED
  BY <1>8, <1>9, <1>10, <1>12

LEMMA TextsAreValues == Text \subseteq Values
BY DEF Values

(* The lines of a part bring it up to date, and lines that are passed over  *)
(* are those of a report that has more than one line of description.        *)
LEMMA UpdateTells ==
  ASSUME NEW n \in Nat, n # 0, NEW r \in Reports, r = arrived[n], NEW k, k = r.key,
         NEW part \in Parts, NEW old \in [ToSet(NamesOf(part)) -> Values],
         PartTells(old, part, k, n - 1), NEW lines,
         \/ lines = StatLines(NamesOf(part), r[part])
         \/ part = "teamB" /\ ~SingleLine(r) /\ Len(lines) \notin {1, 2},
         NEW value, value = Updated(old, NamesOf(part), lines)
  PROVE  IsPart(part, value) /\ PartTells(value, part, k, n)
<1>1. PICK names, updates :
        /\ names = NamesOf(part) /\ names \in {General, Team}
        /\ updates = r[part] /\ updates \in [ToSet(names) -> Text \cup {None}]
  BY PartFacts
<1>2. part # "events" /\ DOMAIN Fresh[part] = ToSet(names)
  BY <1>1, PartFacts
<1>3. old \in [ToSet(names) -> Values]
  BY <1>1
<1>4. ReportsOn(k, n) = ReportsOn(k, n - 1) \cup {n}
  BY OneMore
<1>5. CASE lines = StatLines(NamesOf(part), r[part])
  <2>1. value = [s \in ToSet(names) |-> IF updates[s] = None THEN old[s] ELSE updates[s]]
    <3>1. IsUpdated(Updated(old, names, StatLines(names, updates)), old, names, updates)
      BY <1>1, <1>3, UpdatedBy
    <3>2. value = Updated(old, names, StatLines(names, updates))
      BY <1>1, <1>5
    <3>3. QED
      BY <3>1, <3>2 DEF IsUpdated
  <2>2. value \in [ToSet(names) -> Values]
    BY <1>1, <1>3, <2>1, TextsAreValues
  <2>3. ASSUME Reads(part, k, n), NEW s \in ToSet(names)
        PROVE  Told(value[s], k, n, part, s)
    <3>1. Reads(part, k, n - 1)
      BY <1>4, <2>3 DEF Reads
    <3>2. PICK v : v = old[s]
      OBVIOUS
    <3>3. Told(v, k, n - 1, part, s)
      BY <1>2, <3>1, <3>2 DEF PartTells
    <3>4. Told(IF arrived[n][part][s] = None THEN v ELSE arrived[n][part][s], k, n, part, s)
      BY <3>3, ToldMore
    <3>5. value[s] = IF arrived[n][part][s] = None THEN v ELSE arrived[n][part][s]
      BY <1>1, <2>1, <3>2
    <3>6. QED
      BY <3>4, <3>5
  <2>4. PartTells(value, part, k, n)
    BY <1>2, <2>3 DEF PartTells
  <2>5. QED
    BY <1>1, <1>2, <2>2, <2>4 DEF IsPart
<1>6. CASE part = "teamB" /\ ~SingleLine(r) /\ Len(lines) \notin {1, 2}
  <2>1. value = old
    BY <1>6 DEF Updated
  <2>2. ~Reads(part, k, n)
    BY <1>4, <1>6 DEF Reads
  <2>3. QED
    BY <1>2, <2>1, <2>2 DEF IsPart, PartTells
<1>7. QED
  BY <1>5, <1>6

(* The keyboard thread still has what it had.                               *)
LEMMA KeyboardStable ==
  ASSUME TypeOK, Handled, Counted, CopyTells, FileUpToDate, UNCHANGED keyboardThread, Grown,
         NEW upto \in Nat, upto = Upto("events")', Upto("events") <= upto
  PROVE  CopyTells' /\ FileUpToDate'
<1>1. /\ arrived \in Seq(Reports) /\ known \in Nat
  <2>1. arrived \in Seq(Reports) /\ known \in 0 .. MaxReports
    BY DEF TypeOK
  <2>2. QED
    BY <2>1, BoundsAssumption
<1>2. /\ Len(arrived) \in Nat /\ Upto("events") \in 0 .. Len(arrived)
  BY UptoFacts
<1>3. /\ kpc' = kpc /\ wanted' = wanted /\ copy' = copy /\ known' = known
  BY DEF keyboardThread
<1>4. ASSUME NEW part \in Parts, Copied(part)
      PROVE  \E n \in known .. upto : PartTells(copy[part], part, wanted, n)'
  <2>1. PICK n \in known .. Upto("events") : PartTells(copy[part], part, wanted, n)
    BY <1>4 DEF CopyTells
  <2>2. PICK v, k : v = copy[part] /\ k = wanted
    OBVIOUS
  <2>3. n \in 0 .. Len(arrived) /\ n \in known .. upto
    BY <1>1, <1>2
  <2>4. PartTells(v, part, k, n)
    BY <2>1, <2>2
  <2>5. PartTells(v, part, k, n)'
    BY <1>1, <2>3, <2>4, StableTells
  <2>6. PartTells(copy[part], part, wanted, n)'
    BY <1>3, <2>2, <2>5
  <2>7. QED
    BY <2>3, <2>6
<1>5. CopyTells'
  BY <1>3, <1>4 DEF CopyTells, Copied
<1>6. ASSUME kpc = "write"
      PROVE  FileUpToDate'
  <2>1. PICK last \in known .. Len(arrived) :
          /\ EventsTell(copy.events, wanted, last)
          /\ \A part \in Parts : \A s \in DOMAIN Fresh[part] :
               \E n \in known .. last :
                 Reads(part, wanted, n) => Told(copy[part][s], wanted, n, part, s)
    BY <1>6 DEF FileUpToDate
  <2>2. PICK k, e : k = wanted /\ e = copy.events
    OBVIOUS
  <2>3. last \in 0 .. Len(arrived) /\ Len(arrived) <= Len(arrived')
    BY <1>1, <1>2, Stable
  <2>4. arrived' \in Seq(Reports)
    BY <1>1, <2>3, Stable
  <2>5. last \in known' .. Len(arrived')
    BY <1>1, <1>2, <1>3, <2>3, <2>4
  <2>6. EventsTell(e, k, last)
    BY <2>1, <2>2
  <2>7. EventsTell(e, k, last)'
    BY <1>1, <2>3, <2>6, StableEvents
  <2>8. ASSUME NEW part \in Parts, NEW s \in DOMAIN Fresh[part]
        PROVE  \E n \in known .. last :
                 (Reads(part, wanted, n) => Told(copy[part][s], wanted, n, part, s))'
    <3>1. PICK n \in known .. last :
            Reads(part, wanted, n) => Told(copy[part][s], wanted, n, part, s)
      BY <2>1
    <3>2. PICK v : v = copy[part][s]
      OBVIOUS
    <3>3. n \in 0 .. Len(arrived)
      BY <1>1, <1>2, <2>3
    <3>4. Reads(part, k, n) => Told(v, k, n, part, s)
      BY <2>2, <3>1, <3>2
    <3>5. (Reads(part, k, n) => Told(v, k, n, part, s))'
      BY <1>1, <3>3, <3>4, StableTold
    <3>6. QED
      BY <1>3, <2>2, <3>2, <3>5
  <2>9. QED
    BY <1>3, <2>2, <2>5, <2>7, <2>8 DEF FileUpToDate
<1>7. ASSUME kpc # "write"
      PROVE  FileUpToDate'
  BY <1>3, <1>7 DEF FileUpToDate
<1>8. QED
  BY <1>5, <1>6, <1>7

(* A step of the socket thread that ends one part.                          *)
LEMMA OnePartStep ==
  ASSUME Inv, spc # "read",
         NEW n, n = Len(arrived), NEW k, k = arrived[n].key,
         NEW part \in AllParts, NEW value, IsPart(part, value), PartTells(value, part, k, n),
         summaries' = [summaries EXCEPT ![k] = [summaries[k] EXCEPT ![part] = value]],
         UNCHANGED <<message, arrived, crashed, keyboardThread>>,
         spc' \in {"read", "general", "teamA", "teamB"},
         Upto(part) = n - 1, Upto(part)' = n,
         \A p \in AllParts \ {part} : Upto(p)' = Upto(p)
  PROVE  Inv'
<1>1. /\ TypeOK /\ Handled /\ SummariesThereAre /\ SummariesTell /\ Counted
      /\ CopyTells /\ FileUpToDate /\ SingleLinesSurvive
  BY DEF Inv
<1>2. /\ arrived' = arrived /\ message' = message /\ crashed' = crashed
      /\ UNCHANGED keyboardThread
  OBVIOUS
<1>3. /\ kpc' = kpc /\ wanted' = wanted /\ copy' = copy /\ file' = file
      /\ asked' = asked /\ answer' = answer /\ known' = known
  BY DEF keyboardThread
<1>4. n \in Nat /\ n # 0 /\ arrived \in Seq(Reports)
  <2>1. arrived \in Seq(Reports)
    BY <1>1 DEF TypeOK
  <2>2. Len(arrived) >= 1
    BY <1>1 DEF Handled
  <2>3. QED
    BY <2>1, <2>2
<1>5. /\ summaries' \in [Keys -> SummaryType \cup {None}]
      /\ \A l \in Keys : summaries[l] # None <=> summaries'[l] # None
      /\ SummariesThereAre' /\ SummariesTell'
  BY <1>1, <1>2, <1>4, OnePart
<1>6. Handled'
  BY <1>1, <1>2 DEF Handled
<1>7. \A p \in AllParts : Upto(p)' \in 0 .. n /\ Upto(p) <= Upto(p)'
  <2>1. \A p \in AllParts : Upto(p) \in 0 .. n
    BY <1>1, UptoFacts
  <2>2. QED
    BY <1>4, <2>1
<1>8. Counted'
  <2>1. Done = n - 1
    BY DEF Done
  <2>2. Done' \in {n, n - 1}
    BY <1>2 DEF Done
  <2>3. known \in 0 .. MaxReports
    BY <1>1 DEF TypeOK
  <2>4. known <= Done' /\ Len(arrived) <= MaxReports
    BY <1>1, <1>4, <2>1, <2>2, <2>3, BoundsAssumption DEF Counted
  <2>5. QED
    BY <1>2, <1>3, <2>4 DEF Counted
<1>9. CopyTells' /\ FileUpToDate'
  <2>1. "events" \in AllParts
    BY DEF AllParts
  <2>2. PICK upto \in 0 .. n : upto = Upto("events")' /\ Upto("events") <= upto
    BY <1>7, <2>1
  <2>3. upto \in Nat /\ Grown
    BY <1>2, <1>4 DEF Grown
  <2>4. QED
    BY <1>1, <1>2, <2>2, <2>3, KeyboardStable
<1>10. SingleLinesSurvive'
  BY <1>1, <1>2 DEF SingleLinesSurvive
<1>11. ASSUME NEW l \in Keys, summaries'[l] # None
       PROVE  Len(summaries'[l].events) <= Len(arrived')
  <2>1. PICK e, u : e = summaries'[l].events /\ u = Upto("events")'
    OBVIOUS
  <2>2. u \in 0 .. n
    BY <1>7, <2>1 DEF AllParts
  <2>3. PartTells(e, "events", l, u)'
    BY <1>5, <1>11, <2>1 DEF SummariesTell, AllParts
  <2>4. EventsTell(e, l, u)'
    BY <2>3 DEF PartTells
  <2>5. Len(e) = Cardinality(ReportsOn(l, u))
    BY <1>2, <2>4 DEF EventsTell, ReportsOn
  <2>6. Cardinality(ReportsOn(l, u)) \in 0 .. u
    BY <1>4, <2>2, ReportsOnFacts
  <2>7. QED
    BY <1>2, <1>4, <2>1, <2>2, <2>5, <2>6
<1>12. TypeOK'
  <2>1. /\ KeyOf(message) \in Keys /\ summaries[KeyOf(message)] # None
        /\ crashed \in BOOLEAN
        /\ kpc \in {"line", "general", "teamA", "teamB", "events", "write"}
        /\ (kpc # "line" => wanted \in Keys /\ summaries[wanted] # None)
        /\ copy \in SummaryType
        /\ (file # None => file.of \in Keys /\ file.says \in SummaryType)
        /\ arrived \in Seq(Reports) /\ asked \in 0 .. MaxCommands /\ known \in 0 .. MaxReports
        /\ answer \in {None, "not found", "created"}
    BY <1>1 DEF TypeOK
  <2>2. KeyOf(message)' = KeyOf(message)
    BY <1>2 DEF KeyOf
  <2>3. \A l \in Keys : summaries'[l] # None => Len(summaries'[l].events) <= Len(arrived')
    BY <1>11
  <2>4. spc' \in {"read", "event", "general", "teamA", "teamB"}
    OBVIOUS
  <2>5. spc' # "read" => KeyOf(message)' \in Keys /\ summaries'[KeyOf(message)'] # None
    BY <1>5, <2>1, <2>2
  <2>6. kpc' # "line" => wanted' \in Keys /\ summaries'[wanted'] # None
    BY <1>3, <1>5, <2>1
  <2>7. file' # None => file'.of \in Keys /\ file'.says \in SummaryType
    BY <1>3, <2>1
  <2>8. /\ crashed' \in BOOLEAN
        /\ kpc' \in {"line", "general", "teamA", "teamB", "events", "write"}
        /\ copy' \in SummaryType
        /\ arrived' \in Seq(Reports) /\ asked' \in 0 .. MaxCommands /\ known' \in 0 .. MaxReports
        /\ answer' \in {None, "not found", "created"}
    BY <1>2, <1>3, <2>1
  <2>9. QED
    BY <1>5, <2>3, <2>4, <2>5, <2>6, <2>7, <2>8 DEF TypeOK
<1>13. QED
  BY <1>5, <1>6, <1>8, <1>9, <1>10, <1>12 DEF Inv

(* The report in hand.                                                      *)
LEMMA InHand ==
  ASSUME Inv, spc # "read", NEW n, n = Len(arrived), NEW r, r = arrived[n]
  PROVE  /\ n \in Nat /\ n # 0 /\ arrived \in Seq(Reports) /\ r \in Reports
         /\ message = MessageFrame(r)
         /\ KeyOf(message) = r.key /\ r.key \in Keys
         /\ summaries \in [Keys -> SummaryType \cup {None}]
         /\ summaries[r.key] \in SummaryType
         /\ \A part \in AllParts : PartTells(summaries[r.key][part], part, r.key, Upto(part))
<1>1. /\ arrived \in Seq(Reports) /\ summaries \in [Keys -> SummaryType \cup {None}]
      /\ KeyOf(message) \in Keys /\ summaries[KeyOf(message)] # None
  BY DEF Inv, TypeOK
<1>2. n >= 1 /\ message = MessageFrame(r)
  BY DEF Inv, Handled
<1>3. n \in Nat /\ n # 0 /\ r \in Reports
  BY <1>1, <1>2
<1>4. KeyOf(message) = r.key
  BY <1>2, <1>3, HeadOfMessage
<1>5. \A part \in AllParts : PartTells(summaries[r.key][part], part, r.key, Upto(part))
  BY <1>1, <1>4 DEF Inv, SummariesTell
<1>6. QED
  BY <1>1, <1>2, <1>3, <1>4, <1>5

LEMMA EventStep ==
  ASSUME Inv, AddSummaryEvent
  PROVE  Inv'
<1>1. PICK n, r, k, events, value :
        /\ n = Len(arrived) /\ r = arrived[n] /\ k = r.key
        /\ events = summaries[k].events /\ value = Append(events, EventOf(message))
  OBVIOUS
<1>2. /\ spc = "event" /\ spc' = "general"
      /\ summaries' = [summaries EXCEPT ![KeyOf(message)].events = Append(@, EventOf(message))]
      /\ UNCHANGED <<message, crashed, arrived, keyboardThread>>
  BY DEF AddSummaryEvent
<1>3. /\ n \in Nat /\ n # 0 /\ r \in Reports /\ message = MessageFrame(r)
      /\ KeyOf(message) = k /\ k \in Keys
      /\ summaries \in [Keys -> SummaryType \cup {None}] /\ summaries[k] \in SummaryType
      /\ \A part \in AllParts : PartTells(summaries[k][part], part, k, Upto(part))
  BY <1>1, <1>2, InHand
<1>4. EventOf(message) \in Events /\ EventTells(EventOf(message), r)
  BY <1>3, HeadOfMessage
<1>5. PICK part : part = "events"
  OBVIOUS
<1>6. part \in AllParts
  BY <1>5 DEF AllParts
<1>7. Upto(part) = n - 1
  BY <1>1, <1>2, <1>5 DEF Upto
<1>8. events \in Seq(Events) /\ EventsTell(events, k, n - 1)
  <2>1. events \in Seq(Events)
    BY <1>1, <1>3 DEF SummaryType
  <2>2. PartTells(summaries[k][part], part, k, n - 1)
    BY <1>3, <1>6, <1>7
  <2>3. summaries[k][part] = events
    BY <1>1, <1>5
  <2>4. QED
    BY <1>5, <2>1, <2>2, <2>3 DEF PartTells
<1>9. EventsTell(value, k, n)
  BY <1>1, <1>3, <1>4, <1>8, EventsTellMore
<1>10. IsPart(part, value) /\ PartTells(value, part, k, n)
  BY <1>1, <1>4, <1>5, <1>8, <1>9 DEF IsPart, PartTells
<1>11. summaries' = [summaries EXCEPT ![k] = [summaries[k] EXCEPT ![part] = value]]
  BY <1>1, <1>2, <1>3, <1>5
<1>12. Upto(part)' = n
  BY <1>1, <1>2, <1>5 DEF Upto
<1>13. \A p \in AllParts \ {part} : Upto(p)' = Upto(p)
  BY <1>2, <1>5 DEF Upto, AllParts, Parts
<1>14. spc # "read" /\ spc' \in {"read", "general", "teamA", "teamB"} /\ k = arrived[n].key
  BY <1>1, <1>2
<1>15. UNCHANGED <<message, arrived, crashed, keyboardThread>>
  BY <1>2
<1>16. QED
  BY <1>1, <1>6, <1>7, <1>10, <1>11, <1>12, <1>13, <1>14, <1>15, OnePartStep

(* Statistics that are read, or passed over, in the last report.            *)
Reading(from, to, r, names, lines) ==
  /\ \/ from = "general" /\ to = "teamA"
     \/ from = "teamA" /\ to = "teamB"
     \/ from = "teamB" /\ to = "read"
  /\ spc = from /\ spc' = to
  /\ r = arrived[Len(arrived)]
  /\ names = NamesOf(from)
  /\ \/ lines = StatLines(names, r[from])
     \/ from = "teamB" /\ ~SingleLine(r) /\ Len(lines) \notin {1, 2}
  /\ summaries' = [summaries EXCEPT ![KeyOf(message)][from] = Updated(@, names, lines)]
  /\ UNCHANGED <<message, arrived, crashed, keyboardThread>>

LEMMA UpdateStep ==
  ASSUME Inv, NEW from, NEW to, NEW r, NEW names, NEW lines, Reading(from, to, r, names, lines)
  PROVE  Inv'
<1>0. /\ \/ from = "general" /\ to = "teamA"
         \/ from = "teamA" /\ to = "teamB"
         \/ from = "teamB" /\ to = "read"
      /\ from \in {"general", "teamA", "teamB"}
      /\ spc = from /\ spc' = to
      /\ r = arrived[Len(arrived)]
      /\ names = NamesOf(from)
      /\ \/ lines = StatLines(names, r[from])
         \/ from = "teamB" /\ ~SingleLine(r) /\ Len(lines) \notin {1, 2}
      /\ summaries' = [summaries EXCEPT ![KeyOf(message)][from] = Updated(@, names, lines)]
      /\ UNCHANGED <<message, arrived, crashed, keyboardThread>>
  BY DEF Reading
<1>1. PICK n, k, old, value :
        /\ n = Len(arrived) /\ k = r.key /\ old = summaries[k][from]
        /\ value = Updated(old, names, lines)
  OBVIOUS
<1>2. spc # "read" /\ r = arrived[n]
  BY <1>0, <1>1
<1>3. /\ n \in Nat /\ n # 0 /\ r \in Reports
      /\ KeyOf(message) = k /\ k \in Keys
      /\ summaries \in [Keys -> SummaryType \cup {None}] /\ summaries[k] \in SummaryType
      /\ \A part \in AllParts : PartTells(summaries[k][part], part, k, Upto(part))
  BY <1>1, <1>2, InHand
<1>4. from \in Parts /\ from \in AllParts
  BY <1>0 DEF Parts, AllParts
<1>5. Upto(from) = n - 1
  BY <1>0, <1>1 DEF Upto
<1>6. old \in [ToSet(NamesOf(from)) -> Values]
  BY <1>1, <1>3, <1>4, PartFacts
<1>7. PartTells(old, from, k, n - 1)
  BY <1>1, <1>3, <1>4, <1>5
<1>8. IsPart(from, value) /\ PartTells(value, from, k, n)
  BY <1>0, <1>1, <1>2, <1>3, <1>4, <1>6, <1>7, UpdateTells
<1>9. summaries' = [summaries EXCEPT ![k] = [summaries[k] EXCEPT ![from] = value]]
  BY <1>0, <1>1, <1>3
<1>10. Upto(from)' = n
  BY <1>0, <1>1 DEF Upto
<1>11. \A p \in AllParts \ {from} : Upto(p)' = Upto(p)
  BY <1>0 DEF Upto, AllParts, Parts
<1>12. spc' \in {"read", "general", "teamA", "teamB"} /\ k = arrived[n].key
  BY <1>0, <1>1
<1>13. QED
  BY <1>0, <1>1, <1>2, <1>4, <1>5, <1>8, <1>9, <1>10, <1>11, <1>12, OnePartStep

(* A line that is no statistic ends the process.                            *)
LEMMA CrashStep ==
  ASSUME Inv, spc # "read", NEW r, r = arrived[Len(arrived)], ~SingleLine(r),
         crashed' = TRUE, UNCHANGED <<summaries, spc, message, arrived, keyboardThread>>
  PROVE  Inv'
<1>1. PICK n : n = Len(arrived)
  OBVIOUS
<1>2. Last(arrived) = r
  BY DEF Last
<1>3. SingleLinesSurvive'
  BY <1>2 DEF SingleLinesSurvive
<1>4. UNCHANGED <<kpc, wanted, copy, file, asked, answer, known>>
  BY DEF keyboardThread
<1>5. \A part : Upto(part)' = Upto(part)
  BY DEF Upto
<1>6. TypeOK'
  BY <1>4 DEF Inv, TypeOK, KeyOf
<1>7. Handled' /\ SummariesThereAre' /\ Counted'
  BY <1>4 DEF Inv, Handled, SummariesThereAre, ReportsOn, Counted, Done
<1>8. arrived \in Seq(Reports) /\ Grown
  BY DEF Inv, TypeOK, Grown
<1>9. TypeOK /\ Handled /\ Counted /\ CopyTells /\ FileUpToDate /\ SummariesTell
  BY DEF Inv
<1>10. n \in Nat /\ \A part : Upto(part) \in 0 .. n
  BY <1>1, <1>9, UptoFacts
<1>11. SummariesTell'
  <2>1. ASSUME NEW k \in Keys, summaries'[k] # None, NEW part \in AllParts
        PROVE  PartTells(summaries[k][part], part, k, Upto(part))'
    <3>1. PICK v, u : v = summaries[k][part] /\ u = Upto(part)
      OBVIOUS
    <3>2. PartTells(v, part, k, u) /\ u \in 0 .. Len(arrived)
      BY <1>1, <1>9, <1>10, <2>1, <3>1 DEF SummariesTell
    <3>3. PartTells(v, part, k, u)'
      BY <1>8, <3>2, StableTells
    <3>4. summaries'[k][part] = v /\ Upto(part)' = u
      BY <1>5, <3>1
    <3>5. QED
      BY <3>3, <3>4
  <2>2. QED
    BY <2>1 DEF SummariesTell
<1>12. CopyTells' /\ FileUpToDate'
  <2>1. PICK u : u = Upto("events")'
    OBVIOUS
  <2>2. u \in Nat /\ Upto("events") <= u
    BY <1>5, <1>10, <2>1
  <2>3. QED
    BY <1>8, <1>9, <2>1, <2>2, KeyboardStable
<1>13. QED
  BY <1>3, <1>6, <1>7, <1>11, <1>12 DEF Inv

(* The three parts of a MESSAGE in hand.                                    *)
LEMMA GeneralStep ==
  ASSUME Inv, UpdateGeneral
  PROVE  Inv'
<1>1. PICK r, lines : r = arrived[Len(arrived)] /\ lines = GeneralLines(message)
  OBVIOUS
<1>2. spc = "general"
  BY DEF UpdateGeneral, Update
<1>3. r \in Reports /\ message = MessageFrame(r)
  BY <1>1, <1>2, InHand
<1>4. lines = StatLines(General, r.general) /\ ~Raises(lines)
  BY <1>1, <1>3, PartsOfMessage, Reported, StatLinesFacts
<1>5. /\ spc' = "teamA"
      /\ summaries' =
           [summaries EXCEPT ![KeyOf(message)]["general"] = Updated(@, General, lines)]
      /\ UNCHANGED <<message, arrived, crashed, keyboardThread>>
  BY <1>1, <1>4 DEF UpdateGeneral, Update
<1>6. PICK from, to, names : from = "general" /\ to = "teamA" /\ names = NamesOf(from)
  OBVIOUS
<1>7. names = General /\ r[from] = r.general
  BY <1>6 DEF NamesOf
<1>8. Reading(from, to, r, names, lines)
  BY <1>1, <1>2, <1>4, <1>5, <1>6, <1>7 DEF Reading
<1>9. QED
  BY <1>8, UpdateStep

LEMMA TeamAStep ==
  ASSUME Inv, UpdateTeamA
  PROVE  Inv'
<1>1. PICK r, lines : r = arrived[Len(arrived)] /\ lines = TeamALines(message)
  OBVIOUS
<1>2. spc = "teamA"
  BY DEF UpdateTeamA, Update
<1>3. r \in Reports /\ message = MessageFrame(r)
  BY <1>1, <1>2, InHand
<1>4. lines = StatLines(Team, r.teamA) /\ ~Raises(lines)
  BY <1>1, <1>3, PartsOfMessage, Reported, StatLinesFacts
<1>5. /\ spc' = "teamB"
      /\ summaries' =
           [summaries EXCEPT ![KeyOf(message)]["teamA"] = Updated(@, Team, lines)]
      /\ UNCHANGED <<message, arrived, crashed, keyboardThread>>
  BY <1>1, <1>4 DEF UpdateTeamA, Update
<1>6. PICK from, to, names : from = "teamA" /\ to = "teamB" /\ names = NamesOf(from)
  OBVIOUS
<1>7. names = Team /\ r[from] = r.teamA
  BY <1>6 DEF NamesOf
<1>8. Reading(from, to, r, names, lines)
  BY <1>1, <1>2, <1>4, <1>5, <1>6, <1>7 DEF Reading
<1>9. QED
  BY <1>8, UpdateStep

LEMMA TeamBStep ==
  ASSUME Inv, UpdateTeamB
  PROVE  Inv'
<1>1. PICK r, lines : r = arrived[Len(arrived)] /\ lines = TeamBLines(message)
  OBVIOUS
<1>2. spc = "teamB"
  BY DEF UpdateTeamB, Update
<1>3. r \in Reports /\ message = MessageFrame(r)
  BY <1>1, <1>2, InHand
<1>4. /\ SingleLine(r) => lines = StatLines(Team, r.teamB) /\ ~Raises(lines)
      /\ ~SingleLine(r) => Raises(lines) \/ Len(lines) \notin {1, 2}
  BY <1>1, <1>3, PartsOfMessage, Reported, StatLinesFacts
<1>5. CASE Raises(lines)
  <2>1. /\ ~SingleLine(r) /\ crashed' = TRUE
        /\ UNCHANGED <<summaries, spc, message, arrived, keyboardThread>>
    BY <1>1, <1>4, <1>5 DEF UpdateTeamB, Update
  <2>2. QED
    BY <1>1, <1>2, <2>1, CrashStep
<1>6. CASE ~Raises(lines)
  <2>1. /\ spc' = "read"
        /\ summaries' =
             [summaries EXCEPT ![KeyOf(message)]["teamB"] = Updated(@, Team, lines)]
        /\ UNCHANGED <<message, arrived, crashed, keyboardThread>>
    BY <1>1, <1>6 DEF UpdateTeamB, Update
  <2>2. PICK from, to, names : from = "teamB" /\ to = "read" /\ names = NamesOf(from)
    OBVIOUS
  <2>3. names = Team /\ r[from] = r.teamB
    BY <2>2 DEF NamesOf
  <2>4. \/ lines = StatLines(names, r[from])
        \/ from = "teamB" /\ ~SingleLine(r) /\ Len(lines) \notin {1, 2}
    BY <1>4, <1>6, <2>2, <2>3
  <2>5. Reading(from, to, r, names, lines)
    BY <1>1, <1>2, <2>1, <2>2, <2>3, <2>4 DEF Reading
  <2>6. QED
    BY <2>5, UpdateStep
<1>7. QED
  BY <1>5, <1>6

LEMMA TakeStep ==
  ASSUME Inv, ~crashed, NEW r \in Reports, TakeMessage(r)
  PROVE  Inv'
<1>1. /\ TypeOK /\ Handled /\ SummariesThereAre /\ SummariesTell /\ Counted
      /\ CopyTells /\ FileUpToDate /\ SingleLinesSurvive
  BY DEF Inv
<1>2. PICK n : n = Len(arrived)
  OBVIOUS
<1>3. /\ spc = "read" /\ n < MaxReports
      /\ arrived' = Append(arrived, r) /\ message' = MessageFrame(r) /\ spc' = "event"
      /\ crashed' = crashed /\ UNCHANGED keyboardThread
      /\ \/ IsSummaryExisted(r.key) /\ summaries' = summaries
         \/ AddSummary(r.key)
  BY <1>2 DEF TakeMessage
<1>4. /\ kpc' = kpc /\ wanted' = wanted /\ copy' = copy /\ file' = file
      /\ asked' = asked /\ answer' = answer /\ known' = known
  BY <1>3 DEF keyboardThread
<1>5. /\ arrived \in Seq(Reports) /\ n \in Nat /\ r.key \in Keys
      /\ summaries \in [Keys -> SummaryType \cup {None}] /\ Grown
  <2>1. arrived \in Seq(Reports) /\ summaries \in [Keys -> SummaryType \cup {None}]
    BY <1>1 DEF TypeOK
  <2>2. n \in Nat
    BY <1>2, <2>1
  <2>3. r.key \in Keys
    BY Reported
  <2>4. Grown
    BY <1>3 DEF Grown
  <2>5. QED
    BY <2>1, <2>2, <2>3, <2>4
<1>6. /\ arrived' \in Seq(Reports) /\ Len(arrived') = n + 1 /\ arrived'[n + 1] = r
      /\ \A i \in 1 .. n : arrived'[i] = arrived[i]
  BY <1>2, <1>3, <1>5
<1>7. /\ summaries' \in [Keys -> SummaryType \cup {None}]
      /\ summaries'[r.key] # None
      /\ \A k \in Keys : \/ summaries'[k] = summaries[k]
                         \/ k = r.key /\ summaries[k] = None /\ summaries'[k] = Fresh
  <2>1. Fresh \in SummaryType /\ Fresh # None
    BY FreshFacts, NoneAssumption
  <2>2. CASE IsSummaryExisted(r.key) /\ summaries' = summaries
    BY <1>5, <2>2 DEF IsSummaryExisted
  <2>3. CASE AddSummary(r.key)
    BY <1>5, <2>1, <2>3 DEF AddSummary
  <2>4. QED
    BY <1>3, <2>2, <2>3
<1>8. \A part : Upto(part) = n /\ Upto(part)' = n
  BY <1>2, <1>3, <1>5, <1>6 DEF Upto
<1>9. Handled'
  BY <1>3, <1>5, <1>6 DEF Handled
<1>10. SummariesThereAre'
  <2>1. ASSUME NEW k \in Keys
        PROVE  summaries'[k] = None <=> {i \in 1 .. Len(arrived') : arrived'[i].key = k} = {}
    <3>1. CASE k = r.key
      <4>1. n + 1 \in 1 .. Len(arrived') /\ arrived'[n + 1].key = k
        BY <1>5, <1>6, <3>1
      <4>2. QED
        BY <1>7, <3>1, <4>1
    <3>2. CASE k # r.key
      <4>1. 1 .. Len(arrived') = (1 .. n) \cup {n + 1}
        BY <1>5, <1>6
      <4>2. {i \in 1 .. Len(arrived') : arrived'[i].key = k} = {i \in 1 .. n : arrived[i].key = k}
        BY <1>6, <3>2, <4>1
      <4>3. summaries[k] = None <=> {i \in 1 .. n : arrived[i].key = k} = {}
        BY <1>1, <1>2 DEF SummariesThereAre, ReportsOn
      <4>4. summaries'[k] = summaries[k]
        BY <1>7, <3>2
      <4>5. QED
        BY <4>2, <4>3, <4>4
    <3>3. QED
      BY <3>1, <3>2
  <2>2. QED
    BY <2>1 DEF SummariesThereAre, ReportsOn
<1>11. SummariesTell'
  <2>1. ASSUME NEW k \in Keys, summaries'[k] # None, NEW part \in AllParts
        PROVE  PartTells(summaries[k][part], part, k, Upto(part))'
    <3>1. PICK v : v = summaries'[k][part]
      OBVIOUS
    <3>2. CASE summaries'[k] = summaries[k]
      <4>1. PartTells(v, part, k, n)
        BY <1>1, <1>8, <2>1, <3>1, <3>2 DEF SummariesTell
      <4>2. n \in 0 .. Len(arrived)
        BY <1>2, <1>5
      <4>3. PartTells(v, part, k, n)'
        BY <1>5, <4>1, <4>2, StableTells
      <4>4. QED
        BY <1>8, <3>1, <4>3
    <3>3. CASE summaries[k] = None /\ summaries'[k] = Fresh
      <4>1. ReportsOn(k, n) = {}
        BY <1>1, <1>2, <3>3 DEF SummariesThereAre
      <4>2. v = Fresh[part]
        BY <3>1, <3>3
      <4>3. PartTells(v, part, k, n)
        BY <1>5, <4>1, <4>2, NoneTell
      <4>4. n \in 0 .. Len(arrived)
        BY <1>2, <1>5
      <4>5. PartTells(v, part, k, n)'
        BY <1>5, <4>3, <4>4, StableTells
      <4>6. QED
        BY <1>8, <3>1, <4>5
    <3>4. QED
      BY <1>7, <3>2, <3>3
  <2>2. QED
    BY <2>1 DEF SummariesTell
<1>12. Counted'
  <2>1. known <= n
    BY <1>1, <1>2, <1>3 DEF Counted, Done
  <2>2. Done' = n
    BY <1>3, <1>5, <1>6 DEF Done
  <2>3. n + 1 <= MaxReports
    BY <1>3, <1>5, BoundsAssumption
  <2>4. QED
    BY <1>4, <1>6, <2>1, <2>2, <2>3 DEF Counted
<1>13. CopyTells' /\ FileUpToDate'
  <2>1. n = Upto("events")' /\ Upto("events") <= n
    BY <1>5, <1>8
  <2>2. QED
    BY <1>1, <1>3, <1>5, <2>1, KeyboardStable
<1>14. SingleLinesSurvive'
  BY <1>3 DEF SingleLinesSurvive
<1>15. ASSUME NEW k \in Keys, summaries'[k] # None
       PROVE  Len(summaries'[k].events) <= Len(arrived')
  <2>1. CASE summaries'[k] = summaries[k]
    <3>1. Len(summaries[k].events) <= n /\ Len(summaries[k].events) \in Nat
      <4>1. summaries[k] \in SummaryType
        BY <1>5, <1>15, <2>1
      <4>2. Len(summaries[k].events) \in Nat
        BY <4>1 DEF SummaryType
      <4>3. QED
        BY <1>1, <1>2, <1>15, <2>1, <4>2 DEF TypeOK
    <3>2. QED
      BY <1>5, <1>6, <2>1, <3>1
  <2>2. CASE summaries'[k] = Fresh
    <3>1. Len(summaries'[k].events) = 0
      BY <2>2, FreshFacts
    <3>2. QED
      BY <1>5, <1>6, <3>1
  <2>3. QED
    BY <1>7, <2>1, <2>2
<1>16. TypeOK'
  <2>1. /\ crashed \in BOOLEAN
        /\ kpc \in {"line", "general", "teamA", "teamB", "events", "write"}
        /\ (kpc # "line" => wanted \in Keys /\ summaries[wanted] # None)
        /\ copy \in SummaryType
        /\ (file # None => file.of \in Keys /\ file.says \in SummaryType)
        /\ asked \in 0 .. MaxCommands /\ known \in 0 .. MaxReports
        /\ answer \in {None, "not found", "created"}
    BY <1>1 DEF TypeOK
  <2>2. \A k \in Keys : summaries'[k] # None => Len(summaries'[k].events) <= Len(arrived')
    BY <1>15
  <2>3. spc' \in {"read", "event", "general", "teamA", "teamB"}
    BY <1>3
  <2>4. spc' # "read" => KeyOf(message)' \in Keys /\ summaries'[KeyOf(message)'] # None
    <3>1. PICK m : m = message'
      OBVIOUS
    <3>2. KeyOf(m) = r.key
      BY <1>3, <3>1, HeadOfMessage
    <3>3. KeyOf(message)' = KeyOf(m)
      BY <3>1 DEF KeyOf
    <3>4. QED
      BY <1>5, <1>7, <3>2, <3>3
  <2>5. kpc' # "line" => wanted' \in Keys /\ summaries'[wanted'] # None
    <3>1. Fresh # None
      BY FreshFacts, NoneAssumption
    <3>2. QED
      BY <1>4, <1>7, <2>1, <3>1
  <2>6. file' # None => file'.of \in Keys /\ file'.says \in SummaryType
    BY <1>4, <2>1
  <2>7. /\ crashed' \in BOOLEAN
        /\ kpc' \in {"line", "general", "teamA", "teamB", "events", "write"}
        /\ copy' \in SummaryType
        /\ asked' \in 0 .. MaxCommands /\ known' \in 0 .. MaxReports
        /\ answer' \in {None, "not found", "created"}
    BY <1>3, <1>4, <2>1
  <2>8. QED
    BY <1>6, <1>7, <2>2, <2>3, <2>4, <2>5, <2>6, <2>7 DEF TypeOK
<1>17. QED
  BY <1>9, <1>10, <1>11, <1>12, <1>13, <1>14, <1>16 DEF Inv

-----------------------------------------------------------------------------
(* The keyboard thread.                                                     *)

LEMMA SocketStable ==
  ASSUME Inv, UNCHANGED socketThread
  PROVE  /\ UNCHANGED <<summaries, spc, message, crashed, arrived>>
         /\ Handled' /\ SummariesThereAre' /\ SummariesTell' /\ SingleLinesSurvive' /\ Grown
         /\ Upto("events")' = Upto("events") /\ Done' = Done
<1>1. UNCHANGED <<summaries, spc, message, crashed, arrived>>
  BY DEF socketThread
<1>2. /\ arrived \in Seq(Reports) /\ Grown
      /\ TypeOK /\ Handled /\ SummariesTell
  BY <1>1 DEF Inv, TypeOK, Grown
<1>3. \A part : Upto(part)' = Upto(part)
  BY <1>1 DEF Upto
<1>4. SummariesTell'
  <2>1. ASSUME NEW k \in Keys, summaries'[k] # None, NEW part \in AllParts
        PROVE  PartTells(summaries[k][part], part, k, Upto(part))'
    <3>1. PICK v, u : v = summaries[k][part] /\ u = Upto(part)
      OBVIOUS
    <3>2. PartTells(v, part, k, u)
      BY <1>1, <1>2, <2>1, <3>1 DEF SummariesTell
    <3>3. Len(arrived) \in Nat /\ u \in 0 .. Len(arrived)
      BY <1>2, <3>1, UptoFacts
    <3>4. PartTells(v, part, k, u)'
      BY <1>2, <3>2, <3>3, StableTells
    <3>5. summaries'[k][part] = v /\ Upto(part)' = u
      BY <1>1, <1>3, <3>1
    <3>6. QED
      BY <3>4, <3>5
  <2>2. QED
    BY <2>1 DEF SummariesTell
<1>5. Handled' /\ SummariesThereAre' /\ SingleLinesSurvive' /\ Done' = Done
  BY <1>1 DEF Inv, Handled, SummariesThereAre, ReportsOn, SingleLinesSurvive, Done
<1>6. QED
  BY <1>1, <1>2, <1>3, <1>4, <1>5

LEMMA AskStep ==
  ASSUME Inv, NEW k \in Keys, Ask(k)
  PROVE  Inv'
<1>1. /\ kpc = "line" /\ asked < MaxCommands /\ asked' = asked + 1
      /\ wanted' = k /\ known' = Done /\ copy' = copy /\ file' = file
      /\ UNCHANGED socketThread
      /\ answer' \in {None, "not found"} /\ kpc' \in {"general", "line"}
      /\ kpc' = "general" => summaries[k] # None
  BY DEF Ask, IsSummaryExisted
<1>2. /\ UNCHANGED <<summaries, spc, message, crashed, arrived>>
      /\ Handled' /\ SummariesThereAre' /\ SummariesTell' /\ SingleLinesSurvive'
      /\ Done' = Done
  BY <1>1, SocketStable
<1>3. /\ TypeOK /\ Handled /\ Counted
  BY DEF Inv
<1>4. /\ Done \in Nat /\ Done <= Len(arrived) /\ Len(arrived) <= MaxReports
      /\ Len(arrived) \in Nat
  BY <1>3, UptoFacts DEF Counted
<1>5. Counted' /\ known' \in 0 .. MaxReports
  <2>1. PICK d, c : d = Done /\ c = Len(arrived)
    OBVIOUS
  <2>2. d \in Nat /\ c \in Nat /\ d <= c /\ c <= MaxReports
    BY <1>4, <2>1
  <2>3. known' = d /\ Done' = d /\ Len(arrived') = c
    BY <1>1, <1>2, <2>1
  <2>4. known' <= Done' /\ Len(arrived') <= MaxReports
    BY <2>2, <2>3
  <2>5. d \in 0 .. MaxReports
    BY <2>2, BoundsAssumption
  <2>6. QED
    BY <2>3, <2>4, <2>5 DEF Counted
<1>6. CopyTells' /\ FileUpToDate'
  BY <1>1 DEF CopyTells, Copied, FileUpToDate
<1>7. TypeOK'
  <2>1. /\ summaries \in [Keys -> SummaryType \cup {None}]
        /\ \A l \in Keys : summaries[l] # None => Len(summaries[l].events) <= Len(arrived)
        /\ spc \in {"read", "event", "general", "teamA", "teamB"}
        /\ (spc # "read" => KeyOf(message) \in Keys /\ summaries[KeyOf(message)] # None)
        /\ crashed \in BOOLEAN /\ copy \in SummaryType
        /\ (file # None => file.of \in Keys /\ file.says \in SummaryType)
        /\ arrived \in Seq(Reports) /\ asked \in 0 .. MaxCommands
    BY <1>3 DEF TypeOK
  <2>2. asked' \in 0 .. MaxCommands /\ known' \in 0 .. MaxReports
    <3>1. asked \in 0 .. MaxCommands /\ asked < MaxCommands /\ asked' = asked + 1
      BY <1>1, <2>1
    <3>2. asked' \in 0 .. MaxCommands
      BY <3>1, BoundsAssumption
    <3>3. QED
      BY <1>5, <3>2
  <2>3. KeyOf(message)' = KeyOf(message)
    BY <1>2 DEF KeyOf
  <2>4. kpc' \in {"line", "general", "teamA", "teamB", "events", "write"}
    BY <1>1
  <2>5. kpc' # "line" => wanted' \in Keys /\ summaries'[wanted'] # None
    BY <1>1, <1>2
  <2>6. file' # None => file'.of \in Keys /\ file'.says \in SummaryType
    BY <1>1, <2>1
  <2>7. answer' \in {None, "not found", "created"}
    BY <1>1
  <2>8. /\ summaries' \in [Keys -> SummaryType \cup {None}]
        /\ \A l \in Keys : summaries'[l] # None => Len(summaries'[l].events) <= Len(arrived')
        /\ spc' \in {"read", "event", "general", "teamA", "teamB"}
        /\ (spc' # "read" => KeyOf(message)' \in Keys /\ summaries'[KeyOf(message)'] # None)
        /\ crashed' \in BOOLEAN /\ copy' \in SummaryType /\ arrived' \in Seq(Reports)
    BY <1>1, <1>2, <2>1, <2>3
  <2>9. QED
    BY <2>2, <2>4, <2>5, <2>6, <2>7, <2>8 DEF TypeOK
<1>8. QED
  BY <1>2, <1>5, <1>6, <1>7 DEF Inv

LEMMA PartOfSummary ==
  ASSUME NEW summary \in SummaryType, NEW part \in AllParts
  PROVE  IsPart(part, summary[part])
<1>1. CASE part = "events"
  BY <1>1 DEF IsPart, SummaryType
<1>2. CASE part \in Parts
  BY <1>2, PartFacts DEF IsPart
<1>3. QED
  BY <1>1, <1>2 DEF AllParts

LEMMA CopyStep ==
  ASSUME Inv, NEW part \in AllParts, NEW to, Copy(part, part, to),
         \/ part = "general" /\ to = "teamA"
         \/ part = "teamA" /\ to = "teamB"
         \/ part = "teamB" /\ to = "events"
         \/ part = "events" /\ to = "write"
  PROVE  Inv'
<1>1. /\ kpc = part /\ kpc' = to /\ copy' = [copy EXCEPT ![part] = summaries[wanted][part]]
      /\ UNCHANGED <<wanted, file, asked, answer, known>> /\ UNCHANGED socketThread
  BY DEF Copy
<1>2. /\ UNCHANGED <<summaries, spc, message, crashed, arrived>>
      /\ Handled' /\ SummariesThereAre' /\ SummariesTell' /\ SingleLinesSurvive' /\ Grown
      /\ Upto("events")' = Upto("events") /\ Done' = Done
  BY <1>1, SocketStable
<1>3. /\ TypeOK /\ Handled /\ SummariesTell /\ Counted /\ CopyTells
  BY DEF Inv
<1>4. /\ summaries \in [Keys -> SummaryType \cup {None}] /\ copy \in SummaryType
      /\ wanted \in Keys /\ summaries[wanted] # None
      /\ arrived \in Seq(Reports) /\ known \in 0 .. MaxReports
  <2>1. kpc # "line"
    BY <1>1
  <2>2. QED
    BY <1>3, <2>1 DEF TypeOK
<1>5. PICK k, v, upto, n, count :
        /\ k = wanted /\ v = summaries[k][part] /\ upto = Upto("events")
        /\ n = Upto(part) /\ count = Len(arrived)
  OBVIOUS
<1>6. /\ count \in Nat /\ known \in Nat /\ upto \in known .. count /\ n \in known .. upto
  <2>1. known \in Nat
    BY <1>4, BoundsAssumption
  <2>2. /\ count \in Nat /\ Done \in Nat /\ upto \in Done .. count /\ n \in Done .. count
        /\ (part \in Parts => n <= upto) /\ known <= Done
    BY <1>3, <1>5, UptoFacts DEF Counted
  <2>3. n <= upto
    BY <1>5, <2>2 DEF AllParts
  <2>4. QED
    BY <2>1, <2>2, <2>3
<1>7. summaries[k] \in SummaryType /\ IsPart(part, v)
  BY <1>4, <1>5, PartOfSummary
<1>8. PICK new : new = [copy EXCEPT ![part] = v]
  OBVIOUS
<1>9. copy' = new /\ IsReplaced(new, copy, part, v)
  BY <1>1, <1>4, <1>5, <1>7, <1>8, Replaced
<1>10. /\ copy' \in SummaryType /\ copy'[part] = v
       /\ \A p \in AllParts \ {part} : copy'[p] = copy[p]
  BY <1>9 DEF IsReplaced
<1>11. ASSUME NEW x, NEW p, NEW u \in 0 .. count, PartTells(x, p, k, u)
       PROVE  PartTells(x, p, k, u)'
  BY <1>2, <1>4, <1>5, <1>11, StableTells
<1>12. PartTells(v, part, k, n)
  BY <1>3, <1>4, <1>5 DEF SummariesTell
<1>13. \A p \in Parts : Copied(p)' => p = part \/ Copied(p)
  BY <1>1 DEF Copied, Parts
<1>14. ASSUME NEW p \in Parts, Copied(p)'
       PROVE  \E u \in known .. upto : PartTells(copy'[p], p, k, u)
  <2>1. CASE p = part
    BY <1>6, <1>10, <1>12, <2>1
  <2>2. CASE p # part
    <3>1. Copied(p)
      BY <1>13, <1>14, <2>2
    <3>2. PICK u \in known .. upto : PartTells(copy[p], p, k, u)
      BY <1>3, <1>5, <3>1 DEF CopyTells
    <3>3. copy'[p] = copy[p]
      BY <1>10, <2>2 DEF AllParts
    <3>4. QED
      BY <3>2, <3>3
  <2>3. QED
    BY <2>1, <2>2
<1>15. CopyTells'
  <2>1. ASSUME NEW p \in Parts, Copied(p)'
        PROVE  \E u \in known .. upto : PartTells(copy[p], p, wanted, u)'
    <3>1. PICK u \in known .. upto : PartTells(copy'[p], p, k, u)
      BY <1>14, <2>1
    <3>2. PICK x : x = copy'[p]
      OBVIOUS
    <3>3. u \in 0 .. count
      BY <1>6
    <3>4. PartTells(x, p, k, u)'
      BY <1>11, <3>1, <3>2, <3>3
    <3>5. wanted' = k
      BY <1>1, <1>5
    <3>6. QED
      BY <3>2, <3>4, <3>5
  <2>2. Upto("events")' = upto /\ known' = known
    BY <1>1, <1>2, <1>5
  <2>3. QED
    BY <2>1, <2>2 DEF CopyTells
<1>16. ASSUME part = "events"
       PROVE  FileUpToDate'
  <2>1. EventsTell(copy.events, wanted, upto)'
    <3>1. n = upto /\ copy'.events = v
      BY <1>5, <1>10, <1>16
    <3>2. PartTells(v, part, k, n)'
      BY <1>6, <1>11, <1>12
    <3>3. EventsTell(v, k, n)'
      BY <1>16, <3>2 DEF PartTells
    <3>4. wanted' = k
      BY <1>1, <1>5
    <3>5. QED
      BY <3>1, <3>3, <3>4
  <2>2. ASSUME NEW p \in Parts, NEW s \in DOMAIN Fresh[p]
        PROVE  \E u \in known .. upto :
                 (Reads(p, wanted, u) => Told(copy[p][s], wanted, u, p, s))'
    <3>1. Copied(p)'
      BY <1>1, <1>16 DEF Copied
    <3>2. PICK u \in known .. upto : PartTells(copy'[p], p, k, u)
      BY <1>14, <3>1
    <3>3. PICK x : x = copy'[p]
      OBVIOUS
    <3>4. u \in 0 .. count /\ p # "events"
      BY <1>6, PartFacts
    <3>5. PartTells(x, p, k, u)'
      BY <1>11, <3>2, <3>3, <3>4
    <3>6. (Reads(p, k, u) => Told(x[s], k, u, p, s))'
      BY <3>4, <3>5 DEF PartTells
    <3>7. wanted' = k
      BY <1>1, <1>5
    <3>8. QED
      BY <3>3, <3>6, <3>7
  <2>3. known' = known /\ upto \in known' .. Len(arrived')
    BY <1>1, <1>2, <1>5, <1>6
  <2>4. QED
    BY <2>1, <2>2, <2>3 DEF FileUpToDate
<1>17. ASSUME part # "events"
       PROVE  FileUpToDate'
  <2>1. kpc' # "write"
    BY <1>1, <1>17
  <2>2. QED
    BY <2>1 DEF FileUpToDate
<1>18. Counted'
  BY <1>1, <1>2, <1>3 DEF Counted
<1>19. TypeOK'
  <2>1. /\ summaries \in [Keys -> SummaryType \cup {None}]
        /\ \A l \in Keys : summaries[l] # None => Len(summaries[l].events) <= Len(arrived)
        /\ spc \in {"read", "event", "general", "teamA", "teamB"}
        /\ (spc # "read" => KeyOf(message) \in Keys /\ summaries[KeyOf(message)] # None)
        /\ crashed \in BOOLEAN
        /\ (file # None => file.of \in Keys /\ file.says \in SummaryType)
        /\ arrived \in Seq(Reports) /\ asked \in 0 .. MaxCommands /\ known \in 0 .. MaxReports
        /\ answer \in {None, "not found", "created"}
    BY <1>3 DEF TypeOK
  <2>2. KeyOf(message)' = KeyOf(message)
    BY <1>2 DEF KeyOf
  <2>3. kpc' \in {"line", "general", "teamA", "teamB", "events", "write"}
    BY <1>1
  <2>4. wanted' \in Keys /\ summaries'[wanted'] # None
    BY <1>1, <1>2, <1>4
  <2>5. file' # None => file'.of \in Keys /\ file'.says \in SummaryType
    BY <1>1, <2>1
  <2>6. /\ summaries' \in [Keys -> SummaryType \cup {None}]
        /\ \A l \in Keys : summaries'[l] # None => Len(summaries'[l].events) <= Len(arrived')
        /\ spc' \in {"read", "event", "general", "teamA", "teamB"}
        /\ (spc' # "read" => KeyOf(message)' \in Keys /\ summaries'[KeyOf(message)'] # None)
        /\ crashed' \in BOOLEAN /\ arrived' \in Seq(Reports)
        /\ asked' \in 0 .. MaxCommands /\ known' \in 0 .. MaxReports
        /\ answer' \in {None, "not found", "created"}
    BY <1>1, <1>2, <2>1, <2>2
  <2>7. QED
    BY <1>10, <2>3, <2>4, <2>5, <2>6 DEF TypeOK
<1>20. QED
  BY <1>2, <1>15, <1>16, <1>17, <1>18, <1>19 DEF Inv

LEMMA CreateStep ==
  ASSUME Inv, CreateSummaryFile
  PROVE  Inv'
<1>1. /\ kpc = "write" /\ kpc' = "line" /\ answer' = "created"
      /\ (file' = [of |-> wanted, says |-> copy] \/ file' = file)
      /\ wanted' = wanted /\ copy' = copy /\ asked' = asked /\ known' = known
      /\ UNCHANGED socketThread
  BY DEF CreateSummaryFile
<1>2. /\ UNCHANGED <<summaries, spc, message, crashed, arrived>>
      /\ Handled' /\ SummariesThereAre' /\ SummariesTell' /\ SingleLinesSurvive'
      /\ Done' = Done
  BY <1>1, SocketStable
<1>3. TypeOK /\ Counted
  BY DEF Inv
<1>4. Counted'
  BY <1>1, <1>2, <1>3 DEF Counted
<1>5. CopyTells' /\ FileUpToDate'
  BY <1>1 DEF CopyTells, Copied, FileUpToDate
<1>6. TypeOK'
  <2>1. /\ summaries \in [Keys -> SummaryType \cup {None}]
        /\ \A l \in Keys : summaries[l] # None => Len(summaries[l].events) <= Len(arrived)
        /\ spc \in {"read", "event", "general", "teamA", "teamB"}
        /\ (spc # "read" => KeyOf(message) \in Keys /\ summaries[KeyOf(message)] # None)
        /\ crashed \in BOOLEAN /\ copy \in SummaryType
        /\ (file # None => file.of \in Keys /\ file.says \in SummaryType)
        /\ arrived \in Seq(Reports) /\ asked \in 0 .. MaxCommands /\ known \in 0 .. MaxReports
        /\ wanted \in Keys
    BY <1>1, <1>3 DEF TypeOK
  <2>2. KeyOf(message)' = KeyOf(message)
    BY <1>2 DEF KeyOf
  <2>3. file' # None => file'.of \in Keys /\ file'.says \in SummaryType
    <3>1. CASE file' = [of |-> wanted, says |-> copy]
      BY <2>1, <3>1
    <3>2. CASE file' = file
      BY <2>1, <3>2
    <3>3. QED
      BY <1>1, <3>1, <3>2
  <2>4. /\ summaries' \in [Keys -> SummaryType \cup {None}]
        /\ \A l \in Keys : summaries'[l] # None => Len(summaries'[l].events) <= Len(arrived')
        /\ spc' \in {"read", "event", "general", "teamA", "teamB"}
        /\ (spc' # "read" => KeyOf(message)' \in Keys /\ summaries'[KeyOf(message)'] # None)
        /\ crashed' \in BOOLEAN /\ copy' \in SummaryType /\ arrived' \in Seq(Reports)
        /\ asked' \in 0 .. MaxCommands /\ known' \in 0 .. MaxReports
    BY <1>1, <1>2, <2>1, <2>2
  <2>5. kpc' = "line" /\ answer' = "created"
    BY <1>1
  <2>6. QED
    BY <2>3, <2>4, <2>5 DEF TypeOK
<1>7. QED
  BY <1>2, <1>4, <1>5, <1>6 DEF Inv

-----------------------------------------------------------------------------
LEMMA InitInv ==
  ASSUME Init
  PROVE  Inv
<1>1. /\ summaries = [k \in Keys |-> None] /\ spc = "read" /\ crashed = FALSE
      /\ kpc = "line" /\ copy = Fresh /\ file = None /\ arrived = <<>>
      /\ asked = 0 /\ answer = None /\ known = 0
  BY DEF Init
<1>2. Len(arrived) = 0 /\ arrived \in Seq(Reports)
  BY <1>1
<1>3. TypeOK
  <2>1. summaries \in [Keys -> SummaryType \cup {None}] /\ \A k \in Keys : summaries[k] = None
    BY <1>1
  <2>2. /\ spc = "read" /\ crashed \in BOOLEAN /\ kpc = "line" /\ copy \in SummaryType
        /\ file = None
    BY <1>1, FreshFacts
  <2>3. asked \in 0 .. MaxCommands /\ known \in 0 .. MaxReports
    BY <1>1, BoundsAssumption
  <2>4. answer \in {None, "not found", "created"}
    BY <1>1
  <2>5. kpc \in {"line", "general", "teamA", "teamB", "events", "write"}
    BY <2>2
  <2>6. spc \in {"read", "event", "general", "teamA", "teamB"}
    BY <2>2
  <2>7. QED
    BY <1>2, <2>1, <2>2, <2>3, <2>4, <2>5, <2>6 DEF TypeOK
<1>4. Handled /\ SummariesTell /\ CopyTells /\ FileUpToDate /\ SingleLinesSurvive
  BY <1>1 DEF Handled, SummariesTell, CopyTells, Copied, FileUpToDate, SingleLinesSurvive
<1>5. SummariesThereAre
  <2>1. 1 .. 0 = {}
    OBVIOUS
  <2>2. QED
    BY <1>1, <1>2, <2>1 DEF SummariesThereAre, ReportsOn
<1>6. Counted
  BY <1>1, <1>2, BoundsAssumption DEF Counted, Done
<1>7. QED
  BY <1>3, <1>4, <1>5, <1>6 DEF Inv

LEMMA StepInv ==
  ASSUME Inv, [Next]_vars
  PROVE  Inv'
<1>1. CASE UNCHANGED vars
  <2>1. UNCHANGED socketThread /\ UNCHANGED keyboardThread
    BY <1>1 DEF vars
  <2>2. /\ UNCHANGED <<summaries, spc, message, crashed, arrived>>
        /\ Handled' /\ SummariesThereAre' /\ SummariesTell' /\ SingleLinesSurvive' /\ Grown
        /\ Upto("events")' = Upto("events") /\ Done' = Done
    BY <2>1, SocketStable
  <2>3. UNCHANGED <<kpc, wanted, copy, file, asked, answer, known>>
    BY <2>1 DEF keyboardThread
  <2>4. TypeOK /\ Handled /\ Counted /\ CopyTells /\ FileUpToDate
    BY DEF Inv
  <2>5. TypeOK' /\ Counted'
    BY <2>2, <2>3, <2>4 DEF TypeOK, KeyOf, Counted
  <2>6. CopyTells' /\ FileUpToDate'
    <3>1. PICK u : u = Upto("events")
      OBVIOUS
    <3>2. u \in Nat /\ u = Upto("events")' /\ Upto("events") <= u
      BY <2>2, <2>4, <3>1, UptoFacts
    <3>3. QED
      BY <2>1, <2>2, <2>4, <3>2, KeyboardStable
  <2>7. QED
    BY <2>2, <2>5, <2>6 DEF Inv
<1>2. CASE ~crashed /\ Socket
  <2>1. ASSUME NEW r \in Reports, TakeMessage(r)
        PROVE  Inv'
    BY <1>2, <2>1, TakeStep
  <2>2. QED
    BY <1>2, <2>1, EventStep, GeneralStep, TeamAStep, TeamBStep DEF Socket
<1>3. CASE ~crashed /\ Keyboard
  <2>1. ASSUME NEW k \in Keys, Ask(k)
        PROVE  Inv'
    BY <2>1, AskStep
  <2>2. ASSUME Copy("general", "general", "teamA")
        PROVE  Inv'
    BY <2>2, CopyStep DEF AllParts, Parts
  <2>3. ASSUME Copy("teamA", "teamA", "teamB")
        PROVE  Inv'
    BY <2>3, CopyStep DEF AllParts, Parts
  <2>4. ASSUME Copy("teamB", "teamB", "events")
        PROVE  Inv'
    BY <2>4, CopyStep DEF AllParts, Parts
  <2>5. ASSUME Copy("events", "events", "write")
        PROVE  Inv'
    BY <2>5, CopyStep DEF AllParts, Parts
  <2>6. QED
    BY <1>3, <2>1, <2>2, <2>3, <2>4, <2>5, CreateStep DEF Keyboard
<1>4. QED
  BY <1>1, <1>2, <1>3 DEF Next

LEMMA Invariant == Spec => []Inv
<1>1. Init => Inv
  BY InitInv
<1>2. Inv /\ [Next]_vars => Inv'
  BY StepInv
<1>3. QED
  BY <1>1, <1>2, PTL DEF Spec

(* Every variable has its type, and a MESSAGE is taken in once.             *)
THEOREM TypeCorrect == Spec => []TypeOK
<1>1. Inv => TypeOK
  BY DEF Inv
<1>2. QED
  BY <1>1, Invariant, PTL

(* clientResult, for all reports and in every order: the summary of a user  *)
(* and a game has the statistics reported last and all the events.          *)
THEOREM SummariesAreRight == Spec => []SummaryTells
<1>1. ASSUME Inv
      PROVE  SummaryTells
  <2>1. SUFFICES ASSUME spc = "read", NEW k \in Keys
                 PROVE  /\ ReportsOn(k, Len(arrived)) = {} => summaries[k] = None
                        /\ ReportsOn(k, Len(arrived)) # {} =>
                             /\ \A part \in Parts :
                                  Reads(part, k, Len(arrived)) =>
                                    \A s \in DOMAIN Fresh[part] :
                                      Told(summaries[k][part][s], k, Len(arrived), part, s)
                             /\ EventsTell(summaries[k].events, k, Len(arrived))
    BY DEF SummaryTells
  <2>2. summaries[k] = None <=> ReportsOn(k, Len(arrived)) = {}
    BY <1>1 DEF Inv, SummariesThereAre
  <2>3. ASSUME ReportsOn(k, Len(arrived)) # {}, NEW part \in AllParts
        PROVE  PartTells(summaries[k][part], part, k, Len(arrived))
    <3>1. Upto(part) = Len(arrived)
      BY <2>1 DEF Upto
    <3>2. PartTells(summaries[k][part], part, k, Upto(part))
      BY <1>1, <2>2, <2>3 DEF Inv, SummariesTell
    <3>3. QED
      BY <3>1, <3>2
  <2>4. ASSUME ReportsOn(k, Len(arrived)) # {}, NEW part \in Parts
        PROVE  Reads(part, k, Len(arrived)) =>
                 \A s \in DOMAIN Fresh[part] :
                   Told(summaries[k][part][s], k, Len(arrived), part, s)
    <3>1. part # "events" /\ part \in AllParts
      BY PartFacts DEF AllParts
    <3>2. PartTells(summaries[k][part], part, k, Len(arrived))
      BY <2>3, <2>4, <3>1
    <3>3. QED
      BY <3>1, <3>2 DEF PartTells
  <2>5. ASSUME ReportsOn(k, Len(arrived)) # {}
        PROVE  EventsTell(summaries[k].events, k, Len(arrived))
    <3>1. PICK part : part = "events"
      OBVIOUS
    <3>2. PartTells(summaries[k][part], part, k, Len(arrived))
      BY <2>3, <2>5, <3>1 DEF AllParts
    <3>3. QED
      BY <3>1, <3>2 DEF PartTells
  <2>6. QED
    BY <2>2, <2>4, <2>5
<1>2. QED
  BY <1>1, Invariant, PTL

(* A report whose description has one line ends no client.                  *)
THEOREM SingleLinesAreSafe == Spec => []SingleLinesSurvive
<1>1. Inv => SingleLinesSurvive
  BY DEF Inv
<1>2. QED
  BY <1>1, Invariant, PTL

(* createSummaryFile writes what was reported, though the summary is copied *)
(* part by part, without a lock, from a map that changes.                   *)
THEOREM FilesAreUpToDate == Spec => []FileUpToDate
<1>1. Inv => FileUpToDate
  BY DEF Inv
<1>2. QED
  BY <1>1, Invariant, PTL
=============================================================================

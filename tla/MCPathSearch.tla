---------------------------- MODULE MCPathSearch ----------------------------
(* TLC instances of PathSearch: a map of twelve cells with four headings,    *)
(* east, north, west and south, two of which share a bin.                    *)
EXTENDS PathSearch

OffMap == <<-1, -1, 0>>
Map == {<<c[1], c[2], h>> : c \in Cells, h \in 0 .. 3} \cup {OffMap}

MapBin == [p \in Map |-> <<p[1], p[2], p[3] \div 2>>]

\* A tall cell with a slope to its right, and a steep edge at the far right.
MapHeight ==
    LET row == << <<0, 0, 1, 0>>, <<0, 4, 0, 0>>, <<0, 1, 1, 3>> >>
    IN  [c \in Cells |-> row[c[2] + 1][c[1] + 1]]
Stones == {<<3, 2>>}
Points == {<<0, 0>>}

Left == 1
Right == 3
Turns == {0, Left, Right}
Primitives == <<0, Left, Right>>

DX == [h \in 0 .. 3 |-> IF h = 0 THEN 1 ELSE IF h = 2 THEN -1 ELSE 0]
DY == [h \in 0 .. 3 |-> IF h = 1 THEN 1 ELSE IF h = 3 THEN -1 ELSE 0]
OnMap(p) == IF p \in Map THEN p ELSE OffMap

\* On in the old heading, then the turn.
MapMotion ==
    [p \in Map |-> [s \in Turns |->
        IF p = OffMap THEN OffMap
        ELSE OnMap(<<p[1] + DX[p[3]], p[2] + DY[p[3]], (p[3] + s) % 4>>)]]

Tipping == {p \in Map : Cell(p) \in {<<3, 2>>, <<3, 0>>}} \X {Left}
MapEnergy == [p \in Map |-> [s \in Turns |->
    (IF p \in Flat THEN 1 ELSE 2) + (IF s = 0 THEN 0 ELSE 1)]]

From == {<<0, 0, 0>>, <<3, 0, 1>>, <<0, 2, 0>>, <<1, 2, 2>>}
Goals == {<<3, 0, 0>>, <<1, 2, 0>>, <<3, 0, 1>>, <<3, 1, 1>>, <<2, 1, 0>>}
Margin == [o \in Goals |-> {<<o[1], o[2], h>> : h \in {o[3], (o[3] + 1) % 4}}]

Away(a, b) == IF a > b THEN a - b ELSE b - a
Distance(p, o) == Away(p[1], o[1]) + Away(p[2], o[2])
MapEstimate == [p \in Map |-> [o \in Goals |-> 2 * Distance(p, o)]]

\* Along the row, then along the column, then into the heading of the goal.
CurvePose(p, o, i) ==
    LET dx == Away(p[1], o[1])
        x == IF i > dx THEN o[1] ELSE IF p[1] < o[1] THEN p[1] + i ELSE p[1] - i
        dy == IF i > dx THEN i - dx ELSE 0
        y == IF p[2] < o[2] THEN p[2] + dy ELSE p[2] - dy
    IN  <<x, y, IF i <= dx THEN (IF p[1] < o[1] THEN 0 ELSE 2)
                ELSE IF p[2] < o[2] THEN 1 ELSE 3>>
CurveOf(p, o) ==
    LET d == Distance(p, o)
        n == IF d = 0 THEN 1 ELSE d
        pose == [i \in 0 .. n |-> IF i = 0 THEN p ELSE IF i = n THEN o ELSE CurvePose(p, o, i)]
    IN  [i \in 1 .. n |-> [pose |-> pose[i],
                           steer |-> IF pose[i][3] = pose[i - 1][3] THEN 0 ELSE Left]]
MapCurve == [p \in Map |-> [o \in Goals |->
    IF p = OffMap THEN <<[pose |-> o, steer |-> 0]>> ELSE CurveOf(p, o)]]
=============================================================================

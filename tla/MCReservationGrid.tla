-------------------------- MODULE MCReservationGrid --------------------------
(* TLC instances of ReservationGrid. *)
EXTENDS ReservationGrid

Plan(sectors, reservations, sharesTail, havens, hooked, allowance) ==
    LET n == Len(sectors)
        array(seq) == [i \in 0 .. n - 1 |-> seq[i + 1]]
    IN  [count |-> n, sectors |-> array(sectors),
         reservations |-> array(reservations), sharesTail |-> array(sharesTail),
         havens |-> array(havens), hooked |-> array(hooked), allowance |-> allowance]

F == FALSE
T == TRUE

\* Three sectors crossed this way, that way and back.
ThreePlans ==
    { Plan(<<0, 1, 2>>, <<0, 1, 1>>, <<F, T, F>>, <<T, T, F>>, <<T, T, F>>, 6),
      Plan(<<2, 1, 0, 1>>, <<0, 1, 2, 1>>, <<F, F, F, T>>, <<T, T, T, F>>, <<T, F, T, F>>, 6),
      Plan(<<1, 0>>, <<0, 2>>, <<F, F>>, <<T, F>>, <<T, T>>, 6) }

SomeStarts == {0, 1, 3}

\* 0xE8E8E8E8
FarBelow == -387389208
=============================================================================

---------------------------- MODULE MCConnection ----------------------------
(***************************************************************************)
(* Connection with sizes on both sides of the limits of both framings.     *)
(***************************************************************************)
EXTENDS Connection

Msg(more, size) == [more |-> more, body |-> [k \in 1..size |-> size]]
Id(size) == Msg(FALSE, size)
SomeTraffics == {
    [first |-> <<Id(1), Msg(TRUE, 0), Msg(FALSE, Esc + 1)>>, second |-> <<Id(0)>>],
    [first |-> <<Id(Esc - 1), Msg(FALSE, Esc - 1)>>, second |-> <<Id(0), Msg(FALSE, Esc)>>],
    [first |-> <<Id(0)>>, second |-> <<Id(Esc), Msg(TRUE, 0), Msg(FALSE, 1), Msg(FALSE, 0)>>]}
=============================================================================

------------------------------ MODULE FlushQueue ------------------------------
(***************************************************************************)
(* What a ypipe_t promises its two threads: a first-in first-out queue     *)
(* into which the writer puts items that stay invisible until they are     *)
(* flushed, and which knows whether the reader has gone to sleep.          *)
(* Abstract specification; YPipe implements it.                            *)
(***************************************************************************)
EXTENDS Naturals, Sequences

CONSTANT Values

VARIABLES
    pending,   \* items written and not flushed; [v, last] each
    queue,     \* items the reader may take
    asleep     \* the reader found the queue empty and was not woken since

fqVars == <<pending, queue, asleep>>

Items == [v : Values, last : BOOLEAN]

(* Items up to the last complete one: what a flush moves. *)
Complete == {n \in 1..Len(pending) : pending[n].last}

FInit == pending = << >> /\ queue = << >> /\ asleep \in BOOLEAN

Put == \E x \in Items : pending' = Append(pending, x) /\ UNCHANGED <<queue, asleep>>

(* Only the unfinished tail can be taken back. *)
TakeBack ==
    /\ pending # << >>
    /\ ~pending[Len(pending)].last
    /\ pending' = SubSeq(pending, 1, Len(pending) - 1)
    /\ UNCHANGED <<queue, asleep>>

(* A flush makes all complete items visible at once. *)
FFlush ==
    \E n \in Complete :
        /\ \A k \in Complete : k <= n
        /\ queue' = queue \o SubSeq(pending, 1, n)
        /\ pending' = SubSeq(pending, n + 1, Len(pending))
        /\ asleep' = FALSE

Get ==
    /\ queue # << >>
    /\ ~asleep
    /\ queue' = Tail(queue)
    /\ UNCHANGED <<pending, asleep>>

FallAsleep == queue = << >> /\ asleep' = TRUE /\ UNCHANGED <<pending, queue>>

FNext == Put \/ TakeBack \/ FFlush \/ Get \/ FallAsleep

FSpec == FInit /\ [][FNext]_fqVars
===============================================================================

------------------------------ MODULE PipeLists ------------------------------
(***************************************************************************)
(* lb_t and fq_t of 0MQ: the list of pipes a socket sends to, or receives  *)
(* from, in turn. The first "active" pipes of the list can be used, "cur"  *)
(* is the one whose turn it is; pipes that fail are moved behind the       *)
(* active ones until a command activates them again. Pipes are values,     *)
(* positions count from 1.                                                 *)
(***************************************************************************)
EXTENDS Integers, Sequences, SequencesExt

NoPipes == [pipes |-> << >>, active |-> 0, cur |-> 1, more |-> FALSE, dropping |-> FALSE]

Position(l, x) == CHOOSE i \in DOMAIN l.pipes : l.pipes[i] = x
IsActive(l, x) == \E i \in 1..l.active : l.pipes[i] = x
Swap(s, i, j) == [s EXCEPT ![i] = s[j], ![j] = s[i]]

(* array_t::erase: the last item takes the place. *)
Erase(s, i) == Front([s EXCEPT ![i] = Last(s)])

activated(l, x) ==
    [l EXCEPT !.pipes = Swap(@, Position(l, x), l.active + 1), !.active = @ + 1]

attach(l, x) == activated([l EXCEPT !.pipes = Append(@, x)], x)

(* Faulty variant of Deactivate: the last active pipe leaves, whichever failed. *)
DeactivateLast(l, i) == [l EXCEPT !.active = @ - 1, !.cur = IF @ = l.active THEN 1 ELSE @]

(* The pipe at i leaves the active ones. *)
Deactivate(l, i) ==
    [l EXCEPT !.pipes = Swap(@, i, l.active), !.active = @ - 1,
              !.cur = IF @ = l.active THEN 1 ELSE @]

terminated(l, x) ==
    LET i == Position(l, x)
        m == IF i <= l.active THEN Deactivate(l, i) ELSE l
    IN  [m EXCEPT !.pipes = Erase(@, Position(m, x)),
                  !.dropping = @ \/ (l.more /\ i = l.cur)]

(* The loops of lb_t::send and fq_t::recvpipe: past the pipes that fail, to *)
(* one of those that do not, if any is active.                              *)
Pass(l, good) == IF l.active = 0 \/ l.pipes[l.cur] \in good THEN l ELSE Deactivate(l, l.cur)

Skip(l, good) ==
    LET past[n \in 0..l.active] == IF n = 0 THEN l ELSE Pass(past[n - 1], good)
    IN  past[l.active]

(* lb_t::has_out: inside a message there is always room for the rest. *)
has_out(l, good) == IF l.more THEN l ELSE Skip(l, good)

(* A message is complete: the next pipe's turn. *)
Turn(l) == [l EXCEPT !.cur = IF l.active = 0 THEN @ ELSE (@ % l.active) + 1]

(* Faulty variant of Sent: every part passes the turn on. *)
SentTurning(l, more) == Turn([l EXCEPT !.more = more])

(* The current pipe has taken a part. *)
Sent(l, more) == IF more THEN [l EXCEPT !.more = TRUE] ELSE Turn([l EXCEPT !.more = FALSE])
===============================================================================

--------------------------------- MODULE Pipe ---------------------------------
(***************************************************************************)
(* pipe_t: the two ends of a message pipe, owned by two threads. Each end  *)
(* reads one ypipe_t and writes another (here with FlushQueue's meaning),  *)
(* and sends commands to the other through the mailbox of its thread       *)
(* (first in, first out). Flow control, the handshake that ends a pipe and *)
(* the hiccup that replaces an inbound ypipe are all in this class.        *)
(*                                                                         *)
(* A handler is an operator from the state of the pair to its next state,  *)
(* so that a handler that calls another is the composition of the two.     *)
(* State: end[e], the members of pipe_t; yp[i], the i-th ypipe allocated;  *)
(* mail[e], commands on their way to end e; ok, FALSE once an assertion    *)
(* failed, a command reached a deleted end or a deleted ypipe was used.    *)
(***************************************************************************)
EXTENDS Integers, Sequences, SequencesExt

CONSTANT MaxWmDelta   \* max_wm_delta of config.hpp

ASSUME PipeAssumption == MaxWmDelta \in Nat

Ends == {1, 2}
Peer(e) == 3 - e
None == 0   \* a null pointer to a ypipe

(* Faulty variant of compute_lwm: rounded down, so that 1 gives 0. *)
LwmRoundsDown(hwm) == IF hwm > 2 * MaxWmDelta THEN hwm - MaxWmDelta ELSE hwm \div 2

compute_lwm(hwm) == IF hwm > 2 * MaxWmDelta THEN hwm - MaxWmDelta ELSE (hwm + 1) \div 2

NewYPipe == [pending |-> << >>, queue |-> << >>, asleep |-> FALSE, live |-> TRUE]

(* pipepair: ypipe 1 leads to end 1, ypipe 2 to end 2. hwms[e] bounds what *)
(* end e writes.                                                           *)
PipePair(hwms, delays) ==
    [end  |-> [e \in Ends |->
        [state |-> "active", inActive |-> TRUE, outActive |-> TRUE,
         inpipe |-> e, outpipe |-> Peer(e), delay |-> delays[e],
         hwm |-> hwms[e], lwm |-> compute_lwm(hwms[Peer(e)]),
         msgsRead |-> 0, msgsWritten |-> 0, peersMsgsRead |-> 0]],
     yp   |-> <<NewYPipe, NewYPipe>>,
     mail |-> [e \in Ends |-> << >>],
     ok   |-> TRUE]

-------------------------------------------------------------------------------
(* Parts of handlers *)

ZmqAssert(p, cond) == [p EXCEPT !.ok = @ /\ cond]
SendTo(p, e, cmd) == [p EXCEPT !.mail[e] = Append(@, cmd)]
InPipe(p, e) == p.yp[p.end[e].inpipe]
OutPipe(p, e) == p.yp[p.end[e].outpipe]

(* To the terminating state: the outbound ypipe is the peer's from now on. *)
AckTo(p, e, state) ==
    SendTo([p EXCEPT !.end[e].state = state, !.end[e].outpipe = None],
           Peer(e), <<"pipe_term_ack">>)

delimit(p, e) ==
    CASE p.end[e].state = "active"  -> [p EXCEPT !.end[e].state = "delimited"]
      [] p.end[e].state = "pending" -> AckTo(p, e, "terminating")
      [] OTHER -> ZmqAssert(p, FALSE)

(* How many of the items written are complete: ypipe_t's f stands there. *)
Complete(items) == SelectLastInSeq(items, LAMBDA x : x # "more")

(* ypipe_t::unwrite until it fails: what follows the last complete item. *)
RolledBack(y) == [y EXCEPT !.pending = SubSeq(@, 1, Complete(@))]

rollback(p, e) ==
    LET out == p.end[e].outpipe
    IN  IF out = None THEN p ELSE [p EXCEPT !.yp[out] = RolledBack(@)]

(* ypipe_t::flush: the complete items are let through. *)
Flushed(y) ==
    LET items == y.pending
        n == Complete(items)
    IN  [y EXCEPT !.queue = @ \o SubSeq(items, 1, n), !.pending = SubSeq(items, n + 1, Len(items)),
                  !.asleep = FALSE]

(* pipe_t::flush: a sleeping reader is told. *)
flush(p, e) ==
    LET out == p.end[e].outpipe
        moved == [p EXCEPT !.yp[out] = Flushed(@), !.ok = @ /\ p.yp[out].live]
    IN  IF p.end[e].state = "terminating" \/ out = None \/ Complete(p.yp[out].pending) = 0 THEN p
        ELSE IF p.yp[out].asleep THEN SendTo(moved, Peer(e), <<"activate_read">>) ELSE moved

-------------------------------------------------------------------------------
(* What the owner of an end calls *)

Readable(p, e) == p.end[e].inActive /\ p.end[e].state \in {"active", "pending"}

(* Faulty variant of Full: overtaken by a message that is not counted. *)
FullTooLate(end) == end.hwm > 0 /\ end.msgsWritten - end.peersMsgsRead = end.hwm + 1

Full(end) == end.hwm > 0 /\ end.msgsWritten - end.peersMsgsRead = end.hwm

check_write(p, e) == p.end[e].outActive /\ p.end[e].state = "active" /\ ~Full(p.end[e])

(* A write, of a part "more" or of the "last" one, that fails when the      *)
(* window is full.                                                         *)
write(p, e, x) ==
    LET end == p.end[e]
        out == end.outpipe
    IN  IF check_write(p, e)
          THEN [p EXCEPT !.yp[out].pending = Append(@, x),
                         !.end[e].msgsWritten = @ + IF x = "last" THEN 1 ELSE 0]
          ELSE IF end.outActive /\ end.state = "active"
            THEN [p EXCEPT !.end[e].outActive = FALSE]
            ELSE p

Pop(p, e) == [p EXCEPT !.yp[p.end[e].inpipe].queue = Tail(@), !.ok = @ /\ InPipe(p, e).live]

GoToSleep(p, e) ==
    [p EXCEPT !.end[e].inActive = FALSE, !.yp[p.end[e].inpipe].asleep = TRUE,
              !.ok = @ /\ InPipe(p, e).live]

check_read(p, e) ==
    IF ~Readable(p, e) THEN p
    ELSE IF InPipe(p, e).queue = << >> THEN GoToSleep(p, e)
    ELSE IF Head(InPipe(p, e).queue) = "delim" THEN delimit(Pop(p, e), e)
    ELSE p

(* Faulty variant of AfterRead: the writer is not told of what was read. *)
TellsNobody(p, e) == p

(* The peer learns of every lwm-th message that is read. *)
AfterRead(p, e) ==
    LET end == p.end[e]
    IN  IF end.lwm > 0 /\ end.msgsRead % end.lwm = 0
          THEN SendTo(p, Peer(e), <<"activate_write", end.msgsRead>>)
          ELSE p

read(p, e) ==
    IF ~Readable(p, e) THEN p
    ELSE IF InPipe(p, e).queue = << >> THEN GoToSleep(p, e)
    ELSE LET x == Head(InPipe(p, e).queue) IN
         IF x = "delim" THEN delimit(Pop(p, e), e)
         ELSE AfterRead([Pop(p, e) EXCEPT !.end[e].msgsRead = @ + IF x = "last" THEN 1 ELSE 0], e)

(* terminate, up to the command it sends. Nothing follows when the end is   *)
(* already on its way.                                                     *)
TerminateBegin(p, e, delay) ==
    LET s == p.end[e].state
        q == [p EXCEPT !.end[e].delay = delay]
    IN  CASE s \in {"active", "delimited"} ->
                SendTo([q EXCEPT !.end[e].state = "terminated"], Peer(e), <<"pipe_term">>)
          [] s = "pending" /\ ~delay -> AckTo(q, e, "terminating")
          [] OTHER -> q

TerminateGoesOn(p, e) == p.end[e].state \in {"active", "delimited", "pending"}

(* ... and the rest of it: the delimiter, whatever the window. *)
TerminateEnd(p, e) ==
    LET q == rollback([p EXCEPT !.end[e].outActive = FALSE], e)
        out == p.end[e].outpipe
    IN  IF out = None THEN q ELSE flush([q EXCEPT !.yp[out].pending = Append(@, "delim")], e)

terminate(p, e, delay) ==
    IF TerminateGoesOn(p, e) THEN TerminateEnd(TerminateBegin(p, e, delay), e)
    ELSE TerminateBegin(p, e, delay)

NewInPipe(p, e) ==
    LET new == Len(p.yp) + 1
    IN  SendTo([p EXCEPT !.yp = Append(@, NewYPipe), !.end[e].inpipe = new,
                         !.end[e].inActive = TRUE],
               Peer(e), <<"hiccup", new>>)

(* Faulty variant of hiccup: also in the other states. *)
HiccupAlways(p, e) == NewInPipe(p, e)

(* A new inbound ypipe; the old one is left to the peer. *)
hiccup(p, e) == IF p.end[e].state = "active" THEN NewInPipe(p, e) ELSE p

-------------------------------------------------------------------------------
(* Handlers of the commands *)

process_activate_read(p, e) ==
    IF p.end[e].state \in {"active", "pending"} THEN [p EXCEPT !.end[e].inActive = TRUE] ELSE p

process_activate_write(p, e, n) ==
    LET q == [p EXCEPT !.end[e].peersMsgsRead = n]
    IN  IF p.end[e].state = "active" THEN [q EXCEPT !.end[e].outActive = TRUE] ELSE q

process_hiccup(p, e, new) ==
    LET old == p.end[e].outpipe
    IN  IF old = None THEN ZmqAssert(p, FALSE)
        ELSE [p EXCEPT !.yp[old] = [@ EXCEPT !.live = FALSE, !.queue = << >>, !.pending = << >>],
                       !.end[e].outpipe = new, !.end[e].outActive = TRUE,
                       !.ok = @ /\ p.yp[old].live]

(* Faulty variant of process_pipe_term: pending messages are never waited for. *)
TermAlwaysAcks(p, e) ==
    CASE p.end[e].state \in {"active", "delimited"} -> AckTo(p, e, "terminating")
      [] p.end[e].state = "terminated" -> AckTo(p, e, "double_terminated")
      [] OTHER -> ZmqAssert(p, FALSE)

process_pipe_term(p, e) ==
    LET s == p.end[e].state
    IN  CASE s = "active" /\ p.end[e].delay -> [p EXCEPT !.end[e].state = "pending"]
          [] s = "delimited" \/ (s = "active" /\ ~p.end[e].delay) -> AckTo(p, e, "terminating")
          [] s = "terminated" -> AckTo(p, e, "double_terminated")
          [] OTHER -> ZmqAssert(p, FALSE)

(* Faulty variant of LastAck: nobody is told. *)
NoLastAck(p, e) == [p EXCEPT !.end[e].state = "dead"]

(* An end that asked to stop acknowledges before it goes. *)
LastAck(p, e) ==
    IF p.end[e].state = "terminated" THEN AckTo(p, e, "dead")
    ELSE [p EXCEPT !.end[e].state = "dead"]

(* The end deletes its inbound ypipe and itself. *)
process_pipe_term_ack(p, e) ==
    [LastAck(p, e) EXCEPT
        !.yp[p.end[e].inpipe] = [@ EXCEPT !.live = FALSE, !.queue = << >>],
        !.ok = @ /\ p.end[e].state \in {"terminated", "terminating", "double_terminated"}
                 /\ InPipe(p, e).live]

(* object_t::process_command for the commands of pipes *)
process_command(p, e, cmd) ==
    IF p.end[e].state = "dead" THEN ZmqAssert(p, FALSE)
    ELSE CASE cmd[1] = "activate_read"  -> process_activate_read(p, e)
           [] cmd[1] = "activate_write" -> process_activate_write(p, e, cmd[2])
           [] cmd[1] = "hiccup"         -> process_hiccup(p, e, cmd[2])
           [] cmd[1] = "pipe_term"      -> process_pipe_term(p, e)
           [] cmd[1] = "pipe_term_ack"  -> process_pipe_term_ack(p, e)
===============================================================================

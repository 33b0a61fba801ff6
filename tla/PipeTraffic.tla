----------------------------- MODULE PipeTraffic -----------------------------
(***************************************************************************)
(* A pair of pipe_t ends in use: end 1 writes messages of one or two parts *)
(* and flushes, end 2 reads; either owner may terminate its end, with or   *)
(* without waiting for what is pending, and end 2 may hiccup, as a session *)
(* does when its connection breaks. The two directions of a pair are alike *)
(* and meet only in the handshake, so messages flow in one of them.        *)
(***************************************************************************)
EXTENDS Pipe, FiniteSets

CONSTANTS
    Hwms,         \* high watermarks of end 1 to try
    MaxMsgs,      \* bound: messages written more than the high watermark
    TwoParts,     \* the messages that may have two parts, by number
    MaxHiccups    \* bound: hiccups

ASSUME TrafficAssumption == Hwms \subseteq Nat

VARIABLES
    p,            \* the pair
    closing,      \* the ends that are inside terminate, after their command
    partial       \* end 1 has written the first part of a message

tVars == <<p, closing, partial>>

(* delay_on_close and delay_on_disconnect are true and nobody changes them. *)
TInit ==
    /\ \E h \in Hwms : p = PipePair(<<h, 0>>, <<TRUE, TRUE>>)
    /\ closing = {}
    /\ partial = FALSE

Owned(e) == e \notin closing /\ p.end[e].state # "dead"
Hiccups == Len(p.yp) - 2
Only(q) == p' = q /\ UNCHANGED <<closing, partial>>

(* A message is written part by part; a part that is refused leaves the     *)
(* others to be rolled back or finished later.                             *)
WriteMsg(x) ==
    /\ Owned(1) /\ p.end[1].outActive /\ p.end[1].state = "active"
    /\ p.end[1].msgsWritten < p.end[1].hwm + MaxMsgs
    /\ x = "more" => ~partial /\ p.end[1].msgsWritten + 1 \in TwoParts
    /\ p' = write(p, 1, x)
    /\ partial' = IF check_write(p, 1) THEN x = "more" ELSE partial
    /\ UNCHANGED closing

RollbackMsg == Owned(1) /\ partial /\ p' = rollback(p, 1) /\ partial' = FALSE /\ UNCHANGED closing
FlushMsgs == Owned(1) /\ flush(p, 1) # p /\ Only(flush(p, 1))

ReadMsg == Owned(2) /\ Readable(p, 2) /\ Only(read(p, 2))
CheckRead == Owned(1) /\ Readable(p, 1) /\ Only(check_read(p, 1))

(* In the other states terminate does nothing but set delay, which nobody   *)
(* reads there. A pending end writes one delimiter here, however often it   *)
(* is called with delay.                                                    *)
CallTerminate(e, delay) ==
    /\ Owned(e) /\ TerminateGoesOn(p, e)
    /\ p.end[e].state = "pending" => ~delay \/ p.end[e].outActive
    /\ p' = TerminateBegin(p, e, delay)
    /\ closing' = closing \cup {e}
    /\ UNCHANGED partial

EndTerminate(e) ==
    /\ e \in closing
    /\ p' = TerminateEnd(p, e)
    /\ closing' = closing \ {e}
    /\ UNCHANGED partial

CallHiccup == Owned(2) /\ Hiccups < MaxHiccups /\ hiccup(p, 2) # p /\ Only(hiccup(p, 2))

Process(e) ==
    /\ e \notin closing
    /\ p.mail[e] # << >>
    /\ Only(process_command([p EXCEPT !.mail[e] = Tail(@)], e, Head(p.mail[e])))

(* What the threads do of themselves, whatever their owners ask for: commands  *)
(* are processed, terminate returns, what was written is flushed (sockets   *)
(* and sessions do so at the end of a message) and what can be read is read. *)
Thread1 == FlushMsgs \/ CheckRead \/ EndTerminate(1) \/ Process(1)
Thread2 == ReadMsg \/ EndTerminate(2) \/ Process(2)

TNext ==
    \/ Thread1 \/ Thread2
    \/ \E x \in {"more", "last"} : WriteMsg(x)
    \/ RollbackMsg \/ CallHiccup
    \/ \E e \in Ends, delay \in BOOLEAN : CallTerminate(e, delay)

TSpec == TInit /\ [][TNext]_tVars

-------------------------------------------------------------------------------
(* No assertion of pipe.cpp fails in any interleaving of the two ends'      *)
(* closing, hiccups and traffic; no command reaches an end that deleted     *)
(* itself, and no end touches a ypipe that the other one deleted.           *)
PipeSound ==
    /\ p.ok
    /\ \A e \in Ends : p.end[e].state # "dead" =>
        /\ InPipe(p, e).live
        /\ p.end[e].outpipe # None => OutPipe(p, e).live

(* The number of complete messages among items. *)
Messages(items) == Cardinality({i \in DOMAIN items : items[i] = "last"})

(* The number of complete messages that were let through and not read stays *)
(* within the high watermark, a hiccup's fresh ypipe included.              *)
WithinHwm ==
    LET end == p.end[1] IN
    end.hwm > 0 /\ end.state = "active" =>
        Messages(OutPipe(p, 1).queue \o OutPipe(p, 1).pending) <= end.hwm

(* An end that is to wait for pending messages acknowledges the other's     *)
(* termination only after it has read every message the other end wrote,    *)
(* unless it dropped its inbound ypipe itself.                              *)
AllReadBeforeAck ==
    [][ p.end[2].state # "terminating" /\ p'.end[2].state = "terminating"
            /\ p'.end[2].delay /\ Hiccups = 0
        => p.end[2].msgsRead = p.end[1].msgsWritten ]_tVars

(* Neither thread has anything left to do of itself. Every step of Thread1  *)
(* and Thread2 uses up an item, a command or a call, so that unless an owner *)
(* asks for more they come to rest.                                         *)
Quiet ==
    /\ closing = {} /\ p.mail = [e \in Ends |-> << >>]
    /\ ~(p.end[2].state # "dead" /\ Readable(p, 2)) /\ ~(p.end[1].state # "dead" /\ Readable(p, 1))
    /\ p.end[1].state # "dead" => flush(p, 1) = p

(* No wakeup is lost, in either direction: when both threads have come to   *)
(* rest on an active pipe, everything written has been read and a writer    *)
(* that found the window full has been told that it is open again. Messages *)
(* that a hiccup dropped are the exception: the writer goes on counting     *)
(* them.                                                                    *)
RestIsEmpty ==
    Quiet /\ p.end[1].state = "active" /\ p.end[2].state = "active" /\ Hiccups = 0 =>
        p.end[1].outActive /\ p.end[2].msgsRead = p.end[1].msgsWritten

(* Once an owner has asked for it, both ends are deleted: no order of the   *)
(* commands leaves one at rest waiting for an acknowledgement. The one      *)
(* exception is a delimiter that a hiccup took with it: then the end that   *)
(* hiccuped waits for it until its owner gives it up.                       *)
HandshakeEnds ==
    Quiet /\ (\E e \in Ends : p.end[e].state # "active") =>
        \/ \A e \in Ends : p.end[e].state = "dead"
        \/ Hiccups > 0 /\ p.end[2].state = "pending"
===============================================================================

------------------------------ MODULE Connection ------------------------------
(***************************************************************************)
(* Two stream engines at the ends of a TCP connection that delivers bytes  *)
(* in chunks of any size and takes only so many at once. Both are of this  *)
(* version, or the second is of a program that knows the first framing     *)
(* only. Applications send and receive; either side may close.             *)
(***************************************************************************)
EXTENDS StreamEngine

CONSTANTS
    Traffics,    \* what the sides send: sequences of messages, the identity first
    Window,      \* bytes TCP takes at once
    MayClose     \* sides that may close the connection

VARIABLES
    e,          \* the engines, with their sessions
    wire,       \* bytes on their way to a side
    written,    \* how many bytes a side has written
    msgs,       \* the messages of the sides, and how many were sent so far
    sent,
    closed      \* sides that closed the connection, or whose engine is gone

vars == <<e, wire, written, msgs, sent, closed>>

Sides == {1, 2}
Other(i) == 3 - i

(* A peer of an earlier version begins with its identity message. *)
OldPeer(identity) == Start([Plugged(identity) EXCEPT !.outb = << >>], "v0")

Init ==
    /\ \E t \in Traffics : msgs = <<t.first, t.second>>
    /\ \E old \in BOOLEAN :
        e = <<Plugged(msgs[1][1]), IF old THEN OldPeer(msgs[2][1]) ELSE Plugged(msgs[2][1])>>
    /\ wire = <<<< >>, << >>>> /\ written = <<0, 0>> /\ sent = <<1, 1>> /\ closed = {}

(* An engine that goes closes its socket, and so does a process that aborts. *)
Down(new) == new.gone \/ new.failed # {}
Up(i) == i \notin closed
Set(i, new) == e' = [e EXCEPT ![i] = new] /\ closed' = IF Down(new) THEN closed \cup {i} ELSE closed

(* The poller finds bytes, as many as the engine's buffer takes. *)
PollIn(i) ==
    /\ Up(i) /\ e[i].pollin
    /\ \E n \in 1..Len(wire[i]) :
        /\ e[i].hs => n <= GreetingSize - Len(e[i].greet)
        /\ Set(i, InEvent(e[i], SubSeq(wire[i], 1, n)))
        /\ wire' = [wire EXCEPT ![i] = SubSeq(@, n + 1, Len(@))]
    /\ UNCHANGED <<written, msgs, sent>>

PollEnd(i) ==
    /\ Up(i) /\ e[i].pollin /\ wire[i] = << >> /\ Other(i) \in closed
    /\ Set(i, InEnd(e[i]))
    /\ UNCHANGED <<wire, written, msgs, sent>>

PollOut(i) ==
    LET a == Refill(e[i])
        space == Window - Len(wire[Other(i)])
    IN  /\ Up(i) /\ e[i].pollout /\ Other(i) \notin closed /\ (a.outb = << >> \/ space > 0)
        /\ \E n \in 0..Len(a.outb) :
            /\ n <= space /\ (n = 0 => a.outb = << >>)
            /\ Set(i, Wrote(a, n))
            /\ wire' = [wire EXCEPT ![Other(i)] = @ \o SubSeq(a.outb, 1, n)]
            /\ written' = [written EXCEPT ![i] = @ + n]
        /\ UNCHANGED <<msgs, sent>>

(* A write fails when the peer has closed: no more output. *)
PollOutFails(i) ==
    /\ Up(i) /\ e[i].pollout /\ Other(i) \in closed
    /\ Set(i, [Refill(e[i]) EXCEPT !.pollout = FALSE])
    /\ UNCHANGED <<wire, written, msgs, sent>>

(* The session's pipe has a message of one or more parts; an encoder that   *)
(* found none is told.                                                      *)
AppSend(i) ==
    /\ Up(i)
    /\ \E n \in sent[i] + 1..Len(msgs[i]) :
        /\ \A k \in sent[i] + 1..n : msgs[i][k].more <=> k < n
        /\ sent' = [sent EXCEPT ![i] = n]
        /\ LET a == [e[i] EXCEPT !.q = @ \o SubSeq(msgs[i], sent[i] + 1, n)]
           IN  Set(i, IF e[i].asleep THEN ActivateOut(a) ELSE a)
    /\ UNCHANGED <<wire, written, msgs>>

(* A part is read once its message is complete. A decoder that was refused  *)
(* is told after every part, and not only when there is room.               *)
AppRecv(i) ==
    /\ \E k \in DOMAIN e[i].inq : ~e[i].inq[k].more
    /\ LET a == [e[i] EXCEPT !.inq = Tail(@)]
       IN  Set(i, IF e[i].blocked /\ Up(i) THEN ActivateIn(a) ELSE a)
    /\ UNCHANGED <<wire, written, msgs, sent>>

Close(i) ==
    /\ i \in MayClose /\ Up(i)
    /\ closed' = closed \cup {i}
    /\ UNCHANGED <<e, wire, written, msgs, sent>>

Next ==
    \E i \in Sides :
        PollIn(i) \/ PollEnd(i) \/ PollOut(i) \/ PollOutFails(i) \/ AppSend(i) \/ AppRecv(i) \/ Close(i)

Spec == Init /\ [][Next]_vars

-------------------------------------------------------------------------------
(* Two failures this version is known for, after the peer closed while a    *)
(* message waited to be accepted: activate_out asks the poller for the      *)
(* descriptor that was removed; and activate_in asserts that the message is *)
(* accepted now, when the reader has only taken a first part of another     *)
(* and there is no more room than before.                                   *)
KnownFailures == {"poll of a removed descriptor", "stalled again"}

(* No other assertion that StreamEngine represents fails (that the head of  *)
(* the first message to an old peer has header_size bytes), and no decoder  *)
(* meets a malformed message, however bytes are cut into chunks and         *)
(* whichever version the peer has.                                          *)
EngineSound == \A i \in Sides : e[i].failed \subseteq KnownFailures /\ ~e[i].bad

(* Messages arrive as they were sent, in order and with their flags: no     *)
(* chunk, batch, long size, refused message or half-read greeting makes a   *)
(* byte count twice or not at all. (The signature gives an old peer an      *)
(* identity that is flagged.)                                               *)
Received(i) == [k \in 1..Len(e[i].rcvd) |-> IF k = 1 THEN e[i].rcvd[1].body ELSE e[i].rcvd[k]]
Sent(i) == [k \in 1..sent[i] |-> IF k = 1 THEN msgs[i][1].body ELSE msgs[i][k]]
InOrder == \A i \in Sides : IsPrefix(Received(i), Sent(Other(i)))

(* Nobody has anything left to do. *)
AtRest == \A i \in Sides :
    /\ sent[i] = Len(msgs[i]) /\ e[i].inq = << >> /\ Up(i)
    /\ ~(e[i].pollin /\ wire[i] # << >>)
    /\ ~(e[i].pollout /\ (e[i].outb # << >> \/ e[i].proto # "none"))

(* No wakeup is lost: where both engines have come to rest on an open       *)
(* connection, every message has arrived.                                   *)
AllArrive == AtRest => \A i \in Sides : Len(e[i].rcvd) = Len(msgs[Other(i)])

(* The messages a side has written to the last byte, after its greeting.    *)
Prelude(i) ==
    CASE e[i].proto = "v1" -> GreetingSize
      [] e[i].proto = "v0" /\ e[i].greet # << >> -> 4 - (Len(FrameV0(msgs[i][1])) - Len(msgs[i][1].body))
      [] OTHER -> 0
Length(i, k) == FoldLeft(LAMBDA x, m : x + Len(Frame(e[i].proto, m)), Prelude(i), SubSeq(msgs[i], 1, k))
WhollyWritten(i) == {k \in 1..Len(msgs[i]) : e[i].proto # "none" /\ Length(i, k) <= written[i]}

(* A peer that closes in good order, so that TCP still delivers what it     *)
(* took, loses nothing it has written: an engine that goes at the end of    *)
(* the connection has passed on every whole message before it, even one     *)
(* that had to wait for room.                                               *)
EndDelivers == \A i \in Sides :
    e[i].gone /\ e[i].failed = {} => \A k \in WhollyWritten(Other(i)) : k <= Len(e[i].rcvd)
===============================================================================

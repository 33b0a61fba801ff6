------------------------------ MODULE SocketUse ------------------------------
(***************************************************************************)
(* A socket in use: an application thread sends messages, closes the       *)
(* socket and (perhaps in another thread) terminates the context, while    *)
(* the I/O thread connects, loses and regains the connection, and the      *)
(* reaper takes the socket over.                                           *)
(***************************************************************************)
EXTENDS SocketLife

CONSTANTS
    Modes,           \* "connect", "bind"
    MaxMsgs,         \* bound: messages sent
    MaxFails,        \* bound: attempts to connect that fail
    MaxBreaks,       \* bound: connections that break
    Aways            \* the sets of connecters to have in a second I/O thread

ASSUME UseAssumption == MaxMsgs \in Nat /\ MaxFails \in Nat /\ MaxBreaks \in Nat

vars == <<s>>

AllLingers == {-1, 0, 1}   \* infinite, none, some time

(* After zmq_connect, or zmq_bind. *)
Init ==
    \E mode \in Modes, linger \in Lingers, away \in Aways, slow \in BOOLEAN :
        LET bare == [p |-> [PipePair(<<0, 0>>, <<TRUE, TRUE>>) EXCEPT !.mail = [i \in 1..3 |-> << >>]],
                     away |-> away, slow |-> slow, busy |-> {}, rmail |-> << >>, done |-> 0,
                     own |-> [o \in Objs |-> IF o = "sock" THEN [Fresh EXCEPT !.st = "live"] ELSE Fresh],
                     sess |-> [pipe |-> mode = "connect", pending |-> FALSE, timer |-> FALSE,
                               engine |-> FALSE],
                     sock |-> [pipe |-> mode = "connect", destroyed |-> FALSE, thread |-> "app",
                               stopped |-> FALSE],
                     conn |-> [c \in Connecters |-> "idle"], listening |-> FALSE,
                     reaper |-> [sockets |-> 0, terminating |-> FALSE, polled |-> TRUE],
                     ctx |-> "up", mode |-> mode, linger |-> linger, outbuf |-> 0, wire |-> 0,
                     fails |-> 0, breaks |-> 0, sent |-> 0, failed |-> {}]
        IN  s = launch_child(bare, "sock", IF mode = "connect" THEN "sess" ELSE "lst")

Live(o) == s.own[o].st = "live"
InApp == s.sock.thread = "app"

-------------------------------------------------------------------------------
(* The application thread. The first send on a socket always looks at the   *)
(* mailbox first (last_tsc is 0); later ones may be throttled.              *)
AppSend ==
    /\ InApp /\ ~s.sock.stopped /\ s.sock.pipe /\ s.sent < MaxMsgs
    /\ s.p.end[1].state = "active" /\ s.p.end[1].outActive
    /\ s.sent = 0 => s.p.mail[1] = << >>
    /\ s' = [s EXCEPT !.p = flush(write(@, 1, "last"), 1), !.sent = @ + 1]

(* A receive that finds nothing but perhaps a delimiter. *)
AppRecv ==
    /\ InApp /\ s.sock.pipe /\ Readable(s.p, 1)
    /\ s' = [s EXCEPT !.p = check_read(@, 1)]

AppClose ==
    /\ InApp
    /\ s' = [s EXCEPT !.sock.thread = "none", !.rmail = Append(@, "reap")]

(* zmq_term, in three steps: the flag, under the lock; the stop commands,   *)
(* under the lock again; and the wait for the reaper.                       *)
TermBegin == s.ctx = "up" /\ s' = [s EXCEPT !.ctx = "terminating"]

(* Faulty variant of TermStop: the reaper is stopped whatever sockets there are. *)
StopReaperToo ==
    /\ s.ctx = "terminating"
    /\ s' = [s EXCEPT !.ctx = "waiting", !.rmail = Append(@, "stop")]

TermStop ==
    /\ s.ctx = "terminating"
    /\ s' = IF Live("sock") THEN [Post(s, "sock", <<"stop", "sock">>) EXCEPT !.ctx = "waiting"]
            ELSE [s EXCEPT !.ctx = "waiting", !.rmail = Append(@, "stop")]

TermDone == s.ctx = "waiting" /\ s.done > 0 /\ s' = [s EXCEPT !.ctx = "over"]

(* Commands for the socket, in whichever thread has it. *)
SocketCommand ==
    /\ s.sock.thread \in {"app", "reaper"} /\ Live("sock") /\ s.p.mail[1] # << >>
    /\ LET t == ProcessCommand(s, 1)
       IN  s' = IF s.sock.thread = "reaper" /\ t.p.mail[1] = << >> THEN check_destroy(t) ELSE t

(* The reaper; it ends with its mailbox empty, once it is done. *)
ReaperCommand ==
    /\ s.rmail # << >>
    /\ s.reaper.polled \/ s.reaper.terminating
    /\ LET t == [s EXCEPT !.rmail = Tail(@)]
           u == CASE Head(s.rmail) = "reap"   -> ReaperReap(t)
                  [] Head(s.rmail) = "reaped" -> ReaperReaped(t)
                  [] Head(s.rmail) = "stop"   -> ReaperStop(t)
       IN  s' = IF ~u.reaper.polled /\ u.rmail = << >>
                  THEN [u EXCEPT !.reaper.terminating = FALSE] ELSE u

-------------------------------------------------------------------------------
(* The I/O thread *)

IoCommand(e) == s.p.mail[e] # << >> /\ s' = ProcessCommand(s, e)

(* Timers and descriptors are looked at between two loops over the mailbox. *)
Polls(o) == Live(o) /\ Box(s, o) \notin s.busy

ReconnectTimer(c) ==
    /\ Polls(c) /\ s.conn[c] = "timer"
    /\ s' = [s EXCEPT !.conn[c] = "connecting"]

(* out_event of the connecter: the engine goes to the session, the          *)
(* connecter asks to be terminated.                                         *)
Connected(c) ==
    /\ Polls(c) /\ s.conn[c] = "connecting"
    /\ s' = TermReq(PostSeq([s EXCEPT !.conn[c] = "idle"], "sess", <<"attach", "sess">>), c)

ConnectFails(c) ==
    /\ Polls(c) /\ s.conn[c] = "connecting" /\ s.fails < MaxFails
    /\ s' = [s EXCEPT !.conn[c] = "timer", !.fails = @ + 1]

(* tcp_listener_t::in_event; the session is given an extra sequence number  *)
(* for the attach that follows. One connection is accepted.                 *)
Accept ==
    /\ Polls("lst") /\ s.listening /\ s.own["sess"].st = "none"
    /\ LET t == launch_child(s, "lst", "sess")
       IN  s' = PostSeq(t, "sess", <<"attach", "sess">>)

EngineWrite ==
    /\ Polls("sess") /\ s.outbuf > 0
    /\ s' = [s EXCEPT !.wire = @ + s.outbuf, !.outbuf = 0]

EngineFetch ==
    /\ Polls("sess") /\ s.sess.engine /\ s.outbuf = 0 /\ s.sess.pipe /\ Readable(s.p, 2)
    /\ s' = EngineOut(s)

ConnectionBreaks ==
    /\ Polls("sess") /\ s.sess.engine /\ s.breaks < MaxBreaks
    /\ s.mode = "connect" => CanConnect(s)
    /\ s' = [SessionDetach(s) EXCEPT !.breaks = @ + 1]

LingerTimer == s.sess.timer /\ Polls("sess") /\ s' = LingerExpires(s)

-------------------------------------------------------------------------------
Internal ==
    \/ SocketCommand \/ ReaperCommand \/ TermStop \/ TermDone
    \/ EngineWrite \/ EngineFetch \/ LingerTimer
    \/ \E e \in {2, 3} : IoCommand(e)
    \/ \E c \in Connecters : ReconnectTimer(c)

Next ==
    \/ Internal
    \/ AppSend \/ AppRecv \/ AppClose \/ TermBegin \/ Accept \/ ConnectionBreaks
    \/ \E c \in Connecters : Connected(c) \/ ConnectFails(c)

Spec == Init /\ [][Next]_vars

-------------------------------------------------------------------------------
(* Assertions that this version is known to break: that of                  *)
(* session_base_t::timer_event, when the linger timer fires after the pipe  *)
(* has gone and a connecter in another I/O thread has yet to stop; and that *)
(* of epoll_t::rm_fd, when zmq_term and the last socket to be destroyed     *)
(* both stop the reaper.                                                    *)
KnownFailures == {"linger timer without pipe", "mailbox removed from the poller twice"}

(* In every order of closing, terminating, connecting, breaking and         *)
(* lingering no other assertion fails of those that SocketLife and Pipe     *)
(* represent (own.cpp, session_base.cpp, socket_base.cpp, reaper.cpp,       *)
(* ctx.cpp, pipe.cpp), and no command is sent to a deleted object.          *)
LifeSound == s.p.ok /\ s.failed \subseteq KnownFailures

(* When zmq_term returns, nothing that belonged to the socket is left.      *)
NothingLeft ==
    s.done > 0 =>
        /\ \A o \in Objs : ~Live(o)
        /\ ~s.sess.pipe /\ ~s.sock.pipe /\ ~s.sess.engine /\ ~s.listening
        /\ s.p.mail[2] = << >> /\ s.p.mail[3] = << >>

(* With an infinite linger pending messages are not discarded (the default, *)
(* zmq_setsockopt): a message that was sent is gone from memory only once   *)
(* it has been written to the connection, if no connection broke.           *)
NeverDiscarded ==
    s.linger = -1 /\ s.breaks = 0 /\ s.own["sess"].st = "dead" => s.wire = s.sent

(* The same where TCP takes at once what it is given: nothing is lost       *)
(* between the application and the engine, whenever the socket is closed.   *)
LingerKeeps == ~s.slow => NeverDiscarded

(* zmq_term returns once the socket is closed: at rest, it still waits only *)
(* for messages that an infinite linger keeps for a peer that is not there. *)
AtRest ==
    /\ s.p.mail[2] = << >> /\ s.p.mail[3] = << >> /\ (Live("sock") => s.p.mail[1] = << >>) /\ s.rmail = << >>
    /\ s.ctx # "terminating" /\ ~(s.ctx = "waiting" /\ s.done > 0)
    /\ ~(s.sess.timer /\ Live("sess"))
    /\ ~(s.sess.engine /\ (s.outbuf > 0 \/ (s.sess.pipe /\ Readable(s.p, 2))))
    /\ \A c \in Connecters : ~(Live(c) /\ s.conn[c] = "timer")

TermReturns ==
    AtRest /\ s.ctx = "waiting" /\ ~InApp => s.linger = -1 /\ s.wire < s.sent /\ ~s.sess.engine
===============================================================================

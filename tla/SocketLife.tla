------------------------------ MODULE SocketLife ------------------------------
(***************************************************************************)
(* How a 0MQ socket comes to its end. A socket belongs to the thread that  *)
(* opened it until zmq_close hands it to the reaper; its session, and the  *)
(* connecters or the listener, live in the I/O thread; zmq_term waits for  *)
(* all of it. The objects form a tree (own_t): a parent stops after its    *)
(* children acknowledged and after it has processed every command that was *)
(* sent to it with a sequence number. Socket and session are also the two  *)
(* ends of a pipe (module Pipe), which has its own handshake.              *)
(*                                                                         *)
(* One socket with one endpoint, connected or bound. Handlers are          *)
(* operators from state to state, as in Pipe. p.mail[1] is the mailbox of  *)
(* the socket, p.mail[2] that of the session's I/O thread and p.mail[3]    *)
(* that of a second I/O thread, in which a connecter may run; a command    *)
(* names the object it is for, commands of pipes go to the end in that     *)
(* thread.                                                                 *)
(***************************************************************************)
EXTENDS Pipe, FiniteSets

CONSTANTS
    Connecters,    \* bound: connecters a session may launch, as strings
    Lingers,       \* values of ZMQ_LINGER to try: -1, 0 or a time
    Batch          \* messages an engine encodes at a time (out_batch_size)

VARIABLE s

Objs == {"sock", "sess", "lst"} \cup Connecters
Box(t, o) == IF o = "sock" THEN 1 ELSE IF o \in t.away THEN 3 ELSE 2

Fresh == [st |-> "none", owner |-> "none", terminating |-> FALSE,
          sent |-> 0, done |-> 0, acks |-> 0, owned |-> {}]

Check(t, name, cond) == IF cond THEN t ELSE [t EXCEPT !.failed = @ \cup {name}]

(* send_command; a mailbox is gone with its socket. *)
Post(t, o, cmd) ==
    Check([t EXCEPT !.p = SendTo(@, Box(t, o), cmd)], "command to a deleted object", t.own[o].st = "live")

(* ... of the commands that take a sequence number: plug, own, attach, bind *)
PostSeq(t, o, cmd) == Post([t EXCEPT !.own[o].sent = @ + 1], o, cmd)

-------------------------------------------------------------------------------
(* own_t *)

launch_child(t, o, child) ==
    PostSeq(PostSeq([t EXCEPT !.own[child] = [Fresh EXCEPT !.st = "live", !.owner = o]],
                    child, <<"plug", child>>),
            o, <<"own", o, child>>)

(* process_destroy and the destructors. An engine goes at once: that        *)
(* terminate puts it off while the encoder is inside a message (has_data)   *)
(* is left out, as no batch ends inside a message here.                     *)
Destroy(t, o) ==
    CASE o = "sock" -> [t EXCEPT !.sock.destroyed = TRUE]
      [] o = "sess" ->
            Check([t EXCEPT !.own[o].st = "dead", !.sess.timer = FALSE, !.sess.engine = FALSE,
                           !.outbuf = 0],
                  "session has a pipe", ~t.sess.pipe)
      [] o = "lst" -> [t EXCEPT !.own[o].st = "dead"]
      [] OTHER -> Check([t EXCEPT !.own[o].st = "dead"], "connecter is active", t.conn[o] = "idle")

(* Faulty variant of check_term_acks: commands under way are not waited for. *)
AcksOnly(t, o) ==
    LET x == t.own[o] IN
    IF x.terminating /\ x.acks = 0
      THEN Destroy(IF x.owner = "none" THEN t ELSE Post(t, x.owner, <<"term_ack", x.owner>>), o)
      ELSE t

check_term_acks(t, o) ==
    LET x == t.own[o]
        u == Check(t, "object has children", x.owned = {})
    IN  IF x.terminating /\ x.done = x.sent /\ x.acks = 0
          THEN Destroy(IF x.owner = "none" THEN u ELSE Post(u, x.owner, <<"term_ack", x.owner>>), o)
          ELSE t

process_seqnum(t, o) == check_term_acks([t EXCEPT !.own[o].done = @ + 1], o)

unregister_term_ack(t, o) ==
    check_term_acks(Check([t EXCEPT !.own[o].acks = @ - 1], "no ack is due", t.own[o].acks > 0), o)

PostTerms(t, children, linger) ==
    FoldLeft(LAMBDA u, x : Post(u, x, <<"term", x, linger>>), t, SetToSeq(children))

(* process_term of own_t *)
OwnTerm(t, o, linger) ==
    LET x == t.own[o]
        u == Check(PostTerms(t, x.owned, linger), "terminated twice", ~x.terminating)
    IN  check_term_acks([u EXCEPT !.own[o].acks = @ + Cardinality(x.owned),
                                  !.own[o].owned = {}, !.own[o].terminating = TRUE], o)

process_term_req(t, o, child) ==
    IF t.own[o].terminating \/ child \notin t.own[o].owned THEN t
    ELSE Post([t EXCEPT !.own[o].owned = @ \ {child}, !.own[o].acks = @ + 1],
              child, <<"term", child, t.linger>>)

(* A child that arrives late is stopped at once, without linger. *)
process_own(t, o, child) ==
    IF t.own[o].terminating
      THEN Post([t EXCEPT !.own[o].acks = @ + 1], child, <<"term", child, 0>>)
      ELSE [t EXCEPT !.own[o].owned = @ \cup {child}]

(* terminate() of an object that has an owner *)
TermReq(t, o) ==
    IF t.own[o].terminating THEN t
    ELSE Post(t, t.own[o].owner, <<"term_req", t.own[o].owner, o>>)

-------------------------------------------------------------------------------
(* session_base_t *)

(* start_connecting: the connecter waits first when it is a reconnection. *)
StartConnecting(t, wait) ==
    LET free == {c \in Connecters : t.own[c].st = "none"}
        c == CHOOSE x \in free : TRUE
    IN  launch_child([t EXCEPT !.conn[c] = IF wait THEN "delayed" ELSE "new"], "sess", c)

CanConnect(t) == \E c \in Connecters : t.own[c].st = "none"

proceed_with_term(t) == OwnTerm([t EXCEPT !.sess.pending = FALSE], "sess", 0)

(* Faulty variant of SessionTerm: pending messages are dropped. *)
SessionTermNow(t, linger) ==
    IF ~t.sess.pipe THEN proceed_with_term(t)
    ELSE [t EXCEPT !.sess.pending = TRUE, !.p = check_read(terminate(@, 2, FALSE), 2)]

(* process_term: the pipe goes first, and may have messages to be sent. *)
SessionTerm(t, linger) ==
    LET u == Check(t, "terminated twice", ~t.sess.pending) IN
    IF ~t.sess.pipe THEN proceed_with_term(u)
    ELSE [u EXCEPT !.sess.pending = TRUE, !.sess.timer = @ \/ linger > 0,
                   !.p = check_read(terminate(@, 2, linger # 0), 2)]

(* terminated: the pipe is about to delete itself. *)
SessionPipeGone(t) ==
    LET u == [t EXCEPT !.sess.pipe = FALSE]
    IN  IF t.sess.pending THEN proceed_with_term(u) ELSE u

(* Faulty variant of LingerExpires: the pipe is left to its messages. *)
LingerIgnored(t) == [t EXCEPT !.sess.timer = FALSE]

(* timer_event *)
LingerExpires(t) ==
    LET u == Check([t EXCEPT !.sess.timer = FALSE], "linger timer without pipe", t.sess.pipe)
    IN  IF t.sess.pipe THEN [u EXCEPT !.p = terminate(@, 2, FALSE)] ELSE u

(* process_attach; without a pipe one is made and sent to the socket. By   *)
(* then both ends of the one before are deleted.                           *)
SessionAttach(t) ==
    LET fresh == PipePair(<<0, 0>>, <<TRUE, TRUE>>)
        u == IF t.sess.pipe \/ t.own["sess"].terminating THEN t
             ELSE PostSeq([t EXCEPT !.sess.pipe = TRUE, !.p.end = fresh.end, !.p.yp = fresh.yp],
                          "sock", <<"bind", "sock">>)
    IN  Check([u EXCEPT !.sess.engine = TRUE, !.outbuf = 0], "two engines", ~t.sess.engine)

(* The engine's error(): detach. What it had not yet written is gone. *)
SessionDetach(t) ==
    LET u == [t EXCEPT !.sess.engine = FALSE, !.outbuf = 0,
                       !.p = IF t.sess.pipe THEN flush(rollback(@, 2), 2) ELSE @]
        v == IF t.mode = "connect" THEN StartConnecting(u, TRUE) ELSE TermReq(u, "sess")
    IN  [v EXCEPT !.p = IF v.sess.pipe THEN check_read(@, 2) ELSE @]

(* stream_engine_t::out_event: the encoder pulls a batch once TCP has taken *)
(* the one before. The buffer dies with the engine. A slow TCP takes it     *)
(* later.                                                                   *)
EngineOut(t) ==
    LET q == IF t.outbuf > 0 \/ ~t.sess.pipe THEN t.p
             ELSE FoldLeft(LAMBDA p, i : read(p, 2), t.p, [i \in 1..Batch |-> i])
        n == t.outbuf + q.end[2].msgsRead - t.p.end[2].msgsRead
    IN  IF t.slow THEN [t EXCEPT !.p = q, !.outbuf = n]
        ELSE [t EXCEPT !.p = q, !.wire = @ + n]

-------------------------------------------------------------------------------
(* socket_base_t, reaper_t, ctx_t *)

attach_pipe(t) ==
    IF t.own["sock"].terminating
      THEN [t EXCEPT !.sock.pipe = TRUE, !.own["sock"].acks = @ + 1, !.p = terminate(@, 1, FALSE)]
      ELSE [t EXCEPT !.sock.pipe = TRUE]

SocketTerm(t, linger) ==
    OwnTerm(IF t.sock.pipe THEN [t EXCEPT !.p = terminate(@, 1, FALSE), !.own["sock"].acks = @ + 1]
            ELSE t,
            "sock", linger)

SocketPipeGone(t) ==
    LET u == [t EXCEPT !.sock.pipe = FALSE]
    IN  IF t.own["sock"].terminating THEN unregister_term_ack(u, "sock") ELSE u

(* check_destroy with ctx_t::destroy_socket *)
check_destroy(t) ==
    IF ~t.sock.destroyed THEN t
    ELSE [t EXCEPT !.own["sock"].st = "dead", !.p.mail[1] = << >>,
                   !.rmail = @ \o (IF t.ctx # "up" THEN <<"stop">> ELSE << >>) \o <<"reaped">>]

(* The reaper's last act: done, rm_fd of its mailbox, stop. *)
ReaperDone(t) ==
    Check([t EXCEPT !.done = @ + 1, !.reaper.polled = FALSE],
          "mailbox removed from the poller twice", t.reaper.polled)

ReaperStop(t) ==
    LET u == [t EXCEPT !.reaper.terminating = TRUE]
    IN  IF t.reaper.sockets = 0 THEN ReaperDone(u) ELSE u

ReaperReap(t) ==
    LET u == check_destroy(SocketTerm([t EXCEPT !.sock.thread = "reaper"], t.linger))
    IN  [u EXCEPT !.reaper.sockets = @ + 1]

ReaperReaped(t) ==
    LET u == [t EXCEPT !.reaper.sockets = @ - 1]
    IN  IF u.reaper.sockets = 0 /\ u.reaper.terminating THEN ReaperDone(u) ELSE u

-------------------------------------------------------------------------------
(* object_t::process_command *)

PipeCommands == {"activate_read", "activate_write", "hiccup", "pipe_term", "pipe_term_ack"}

(* read_activated: on to the engine, or a look for a delimiter. *)
ReadActivated(t) ==
    IF t.sess.engine THEN EngineOut(t) ELSE [t EXCEPT !.p = check_read(@, 2)]

(* The pipe calls its sink before it deletes itself. *)
PipeCommand(t, e, cmd) ==
    LET u == IF cmd[1] # "pipe_term_ack" THEN t
             ELSE IF e = 1 THEN SocketPipeGone(t) ELSE SessionPipeGone(t)
        v == [u EXCEPT !.p = process_command(@, e, cmd)]
    IN  IF e = 2 /\ cmd[1] = "activate_read" /\ Readable(v.p, 2) /\ ~Readable(u.p, 2)
          THEN ReadActivated(v) ELSE v

Plug(t, o) ==
    CASE o = "sess" -> IF t.mode = "connect" THEN StartConnecting(t, FALSE) ELSE t
      [] o = "lst"  -> [t EXCEPT !.listening = TRUE]
      [] OTHER -> [t EXCEPT !.conn[o] = IF @ = "delayed" THEN "timer" ELSE "connecting"]

Term(t, o, linger) ==
    CASE o = "sess" -> SessionTerm(t, linger)
      [] o = "lst"  -> OwnTerm([t EXCEPT !.listening = FALSE], o, linger)
      [] OTHER -> OwnTerm([t EXCEPT !.conn[o] = "idle"], o, linger)

ObjectCommand(t, cmd) ==
    LET o == cmd[2] IN
    CASE cmd[1] = "plug" -> process_seqnum(Plug(t, o), o)
      [] cmd[1] = "own" -> process_seqnum(process_own(t, o, cmd[3]), o)
      [] cmd[1] = "attach" -> process_seqnum(SessionAttach(t), o)
      [] cmd[1] = "bind" -> process_seqnum(attach_pipe(t), o)
      [] cmd[1] = "term_req" -> process_term_req(t, o, cmd[3])
      [] cmd[1] = "term" -> Term(t, o, cmd[3])
      [] cmd[1] = "term_ack" -> unregister_term_ack(t, o)
      [] cmd[1] = "stop" -> [t EXCEPT !.sock.stopped = TRUE]   \* its calls fail with ETERM

(* The loop of io_thread_t::in_event, or of process_commands, goes on until *)
(* the mailbox is empty: busy are the threads inside theirs.                *)
ProcessCommand(t, e) ==
    LET cmd == Head(t.p.mail[e])
        u == [t EXCEPT !.p.mail[e] = Tail(@)]
        v == IF cmd[1] \in PipeCommands THEN PipeCommand(u, e, cmd)
             ELSE Check(ObjectCommand(u, cmd), "command to a deleted object",
                        u.own[cmd[2]].st = "live")
    IN  [v EXCEPT !.busy = IF v.p.mail[e] = << >> THEN @ \ {e} ELSE @ \cup {e}]
===============================================================================

------------------------------- MODULE RRBroker -------------------------------
(***************************************************************************)
(* rrbroker.lua between the thumbnail servers and the compressors: a       *)
(* ROUTER in front, a DEALER behind, and a poller whose callbacks pass a   *)
(* message on part by part. A client is one socket of a server's           *)
(* sendMessage: it connects, sends one message and closes. A connection of *)
(* a compressor takes messages, one reply each; it may break, and another  *)
(* take its place.                                                         *)
(***************************************************************************)
EXTENDS PipeLists, FiniteSets

CONSTANTS
    Clients,       \* sockets of thumbnail servers
    Identity,      \* function: the identity a client sets
    ReqClients,    \* those of the older server, with REQ sockets
    Compressors,   \* connections of compressors, one after the other or at once
    Hwm,           \* messages a connection holds on their way to a compressor
    ReplyHwm,      \* replies a connection holds
    MaxBreaks,     \* bound: connections that break
    Days           \* the circumstances: who is there, and which clients' messages wait

None == "none"

(* The ROUTER makes up an identity for a REQ socket, which sets none; those  *)
(* of messages that wait are in its table, so they differ.                   *)
ASSUME BrokerAssumption ==
    /\ Hwm \in Nat \ {0} /\ ReplyHwm \in Nat \ {0} /\ MaxBreaks \in Nat
    /\ None \notin Clients /\ ReqClients \subseteq Clients
    /\ \A c \in ReqClients, d \in Clients : Identity[c] = Identity[d] => c = d
    /\ \A d \in Days :
        /\ d.there \subseteq Clients \cup Compressors /\ d.waiting \in Seq(d.there \cap Clients)
        /\ \A i, j \in DOMAIN d.waiting : Identity[d.waiting[i]] = Identity[d.waiting[j]] => i = j

VARIABLES
    client,    \* per client: absent, not there yet, its pipe "up", "left" by the peer, or gone
    in,        \* per client: the parts that wait in its pipe
    ids,       \* the clients in outpipes, the ROUTER's table of identities
    anon,      \* those in anonymous_pipes
    fq,        \* fair queueing over the clients
    curOut,    \* current_out: the client a reply is being written to
    conn,      \* per compressor: absent, none, "up", "down" (not known yet), "closing", gone
    out,       \* per compressor: messages that wait in its pipe
    part,      \* per compressor: parts of a message that is not complete
    rep,       \* per compressor: replies that wait in its pipe
    lb, bfq,   \* load balancing and fair queueing over the compressors
    busy,      \* per compressor: the reply it is about to send
    handled,   \* how often the message of a client was handled
    broker,    \* where the broker is, the parts it passes on, the reply it has fetched
    failed     \* assertions that failed

frontVars == <<client, in, ids, anon, fq, curOut>>
backVars  == <<conn, out, part, rep, lb, bfq, busy>>
vars == <<frontVars, backVars, handled, broker, failed>>

Later == << <<"later">> >>   \* connected, and its message is yet to come

(* A REQ socket puts an empty part before the message. *)
Parts(c) == IF c \in ReqClients THEN << <<"empty">>, <<"body", c>> >> ELSE << <<"body", c>> >>
IdPart(c) == <<"id", Identity[c]>>
Whole(m) == \E c \in Clients : m = <<IdPart(c)>> \o Parts(c)

Init == \E d \in Days :
    LET waits == ToSet(d.waiting) IN
    /\ client = [c \in Clients |-> IF c \in waits THEN "up" ELSE IF c \in d.there THEN None ELSE "absent"]
    /\ in = [c \in Clients |-> IF c \in waits THEN Parts(c) ELSE << >>]
    /\ ids = waits /\ anon = {} /\ curOut = None
    /\ fq = [NoPipes EXCEPT !.pipes = d.waiting, !.active = Len(d.waiting)]   \* attached in turn
    /\ conn = [k \in Compressors |-> IF k \in d.there THEN None ELSE "absent"]
    /\ busy = [k \in Compressors |-> << >>] /\ out = busy /\ part = busy /\ rep = busy
    /\ lb = NoPipes /\ bfq = NoPipes
    /\ handled = [c \in Clients |-> 0]
    /\ broker = [pc |-> "poll", hold |-> << >>, reply |-> << >>]
    /\ failed = {}

Alive == failed = {}
At(pc) == Alive /\ broker.pc = pc
Fails(what, cond) == failed' = IF cond THEN failed \cup {what} ELSE failed

-------------------------------------------------------------------------------
(* Commands that reach the ROUTER. Either callback calls both sockets for  *)
(* every part, and the calls carry out commands.                            *)

(* Faulty variant of ClientConnects: a second peer with an identity is      *)
(* accepted like the first.                                                 *)
ConnectsTwice(c) ==
    /\ Alive /\ client[c] = None
    /\ client' = [client EXCEPT ![c] = "up"] /\ in' = [in EXCEPT ![c] = Later]
    /\ ids' = ids \cup {c} /\ fq' = attach(fq, c)
    /\ UNCHANGED <<anon, curOut, backVars, handled, broker, failed>>

(* xattach_pipe, with the identity that identify_peer reads: a peer whose   *)
(* identity is in the table stays among the anonymous ones.                 *)
ClientConnects(c) ==
    /\ Alive /\ client[c] = None
    /\ client' = [client EXCEPT ![c] = "up"]
    /\ LET dup == c \notin ReqClients /\ \E d \in ids : Identity[d] = Identity[c]
       IN  /\ anon' = IF dup THEN anon \cup {c} ELSE anon
           /\ ids' = IF dup THEN ids ELSE ids \cup {c}
           /\ fq' = IF dup THEN fq ELSE attach(fq, c)
    /\ in' = [in EXCEPT ![c] = Later]
    /\ UNCHANGED <<curOut, backVars, handled, broker, failed>>

(* The message arrives: xread_activated, for a pipe that was found empty.   *)
(* One among the anonymous ones has been read once, and is not found empty  *)
(* as nobody reads it again.                                                *)
MessageArrives(c) ==
    /\ Alive /\ in[c] = Later
    /\ in' = [in EXCEPT ![c] = Parts(c)]
    /\ fq' = IF c \in ids /\ ~IsActive(fq, c) THEN activated(fq, c) ELSE fq
    /\ UNCHANGED <<client, ids, anon, curOut, backVars, handled, broker, failed>>

(* The client has closed its socket: process_pipe_term. Behind its message  *)
(* comes a delimiter, which activates a pipe that was found empty.          *)
ClientLeaves(c) ==
    /\ Alive /\ client[c] = "up" /\ in[c] # Later
    /\ client' = [client EXCEPT ![c] = "left"]
    /\ fq' = IF c \in ids /\ ~IsActive(fq, c) THEN activated(fq, c) ELSE fq
    /\ UNCHANGED <<in, ids, anon, curOut, backVars, handled, broker, failed>>

(* xterminated, after everything in the pipe was read: the poller has come  *)
(* to the delimiter, past which the pipe is not active.                     *)
ClientGone(c) ==
    /\ Alive /\ client[c] = "left" /\ in[c] = << >> /\ ~IsActive(fq, c)
    /\ client' = [client EXCEPT ![c] = "gone"]
    /\ ids' = ids \ {c} /\ fq' = terminated(fq, c)
    /\ curOut' = IF curOut = c THEN None ELSE curOut
    /\ Fails("pipe not in the table", c \notin ids)
    /\ UNCHANGED <<in, anon, backVars, handled, broker>>

-------------------------------------------------------------------------------
(* Commands that reach the DEALER, between any two parts that it sends. *)
CompressorConnects(k) ==
    /\ Alive /\ conn[k] = None
    /\ conn' = [conn EXCEPT ![k] = "up"]
    /\ lb' = attach(lb, k) /\ bfq' = attach(bfq, k)
    /\ UNCHANGED <<frontVars, out, part, rep, busy, handled, broker, failed>>

(* It dies, or its connection does, with what it had. *)
CompressorBreaks(k) ==
    /\ Alive /\ conn[k] = "up" /\ Cardinality({j \in Compressors : conn[j] \in {"down", "closing", "gone"}}) < MaxBreaks
    /\ conn' = [conn EXCEPT ![k] = "down"]
    /\ busy' = [busy EXCEPT ![k] = << >>]
    /\ UNCHANGED <<frontVars, out, part, rep, lb, bfq, handled, broker, failed>>

(* process_pipe_term: the pipe takes no more, and its delimiter is to be read. *)
PipeTerm(k) ==
    /\ Alive /\ conn[k] = "down"
    /\ conn' = [conn EXCEPT ![k] = "closing"]
    /\ bfq' = IF IsActive(bfq, k) THEN bfq ELSE activated(bfq, k)
    /\ UNCHANGED <<frontVars, out, part, rep, lb, busy, handled, broker, failed>>

(* xterminated, after every reply in the pipe and the delimiter were read. *)
PipeGone(k) ==
    /\ Alive /\ conn[k] = "closing" /\ rep[k] = << >> /\ ~IsActive(bfq, k)
    /\ conn' = [conn EXCEPT ![k] = "gone"]
    /\ lb' = terminated(lb, k)
    /\ bfq' = terminated(bfq, k)
    /\ part' = [part EXCEPT ![k] = << >>] /\ out' = [out EXCEPT ![k] = << >>]
    /\ UNCHANGED <<frontVars, rep, busy, handled, broker, failed>>

(* process_activate_write: a pipe that was full has room again. *)
RoomAgain(k) ==
    /\ Alive /\ conn[k] = "up" /\ ~IsActive(lb, k) /\ Len(out[k]) < Hwm
    /\ lb' = activated(lb, k)
    /\ UNCHANGED <<frontVars, conn, out, part, rep, bfq, busy, handled, broker, failed>>

-------------------------------------------------------------------------------
(* The broker. zmq_poll asks both sockets for messages, and each of them    *)
(* fetches one from the pipe whose turn it is (xhas_in); the callbacks pass *)
(* on the two messages, the one from the front first. The DEALER is also    *)
(* asked whether it could send (ZMQ_EVENTS).                                *)
FrontReady == {c \in ids : in[c] \notin {<< >>, Later}}

(* Faulty variant of BackReady: replies wait until no message is in front. *)
BackReadyLast == {k \in Compressors : rep[k] # << >> /\ FrontReady = {}}

BackReady == {k \in Compressors : rep[k] # << >>}

(* The pipes that are up, as far as the broker knows, and have room. *)
Takes == {k \in Compressors : conn[k] \in {"up", "down"} /\ Len(out[k]) < Hwm}

Poll ==
    LET f == Skip(fq, FrontReady)
        b == Skip(bfq, BackReady)
        c == f.pipes[f.cur]
        k == b.pipes[b.cur]
        msg == IF f.active > 0 THEN <<IdPart(c)>> \o in[c] ELSE << >>
        reply == IF b.active > 0 THEN Head(rep[k]) ELSE << >>
    IN  /\ At("poll")
        /\ fq' = Turn(f) /\ in' = IF f.active > 0 THEN [in EXCEPT ![c] = << >>] ELSE in
        /\ lb' = has_out(lb, Takes)
        /\ bfq' = Turn(b) /\ rep' = IF b.active > 0 THEN [rep EXCEPT ![k] = Tail(@)] ELSE rep
        /\ broker' = IF msg # << >> THEN [pc |-> "fwd", hold |-> msg, reply |-> reply]
                     ELSE [pc |-> IF reply # << >> THEN "reply" ELSE "poll", hold |-> reply, reply |-> << >>]
        /\ UNCHANGED <<client, ids, anon, curOut, conn, out, part, busy, handled, failed>>

(* The end of a callback: that of the other socket is next, or the poller. *)
Done ==
    IF broker.reply # << >>
      THEN [pc |-> "reply", hold |-> broker.reply, reply |-> << >>]
      ELSE [broker EXCEPT !.pc = "poll", !.hold = << >>]

(* lb_t::send of the next part, to a pipe that is up and has room. Without  *)
(* one the call waits.                                                      *)
BackSend ==
    LET more == Len(broker.hold) > 1
        l == Skip(lb, Takes)
        k == l.pipes[l.cur]
        msg == Append(part[k], Head(broker.hold))
    IN  /\ At("fwd")
        /\ IF lb.dropping
             THEN /\ lb' = [lb EXCEPT !.more = more, !.dropping = more]
                  /\ UNCHANGED <<out, part, failed>>
             ELSE \/ /\ lb.more /\ lb.active > 0 /\ lb.pipes[lb.cur] \notin Takes
                     /\ Fails("lb: pipe fails inside a message", TRUE)
                     /\ UNCHANGED <<lb, out, part>>
                  \/ /\ l.active > 0 /\ (lb.more => lb.pipes[lb.cur] \in Takes)
                     /\ lb' = Sent(l, more)
                     /\ part' = [part EXCEPT ![k] = IF more THEN msg ELSE << >>]
                     /\ out' = IF more THEN out ELSE [out EXCEPT ![k] = Append(@, msg)]
                     /\ UNCHANGED failed
        /\ broker' = IF more THEN [broker EXCEPT !.hold = Tail(@)] ELSE Done
        /\ UNCHANGED <<frontVars, conn, rep, bfq, busy, handled>>

(* router_t::xsend of the identity: replies to peers that are not in the    *)
(* table, or cannot be written to, are dropped.                             *)
FrontSendId ==
    /\ At("reply")
    /\ \E t \in {c \in ids : IdPart(c) = Head(broker.hold) /\ client[c] = "up"} \cup {None} :
        /\ t = None => \A c \in ids : IdPart(c) = Head(broker.hold) => client[c] # "up"
        /\ curOut' = t
    /\ Fails("router: a reply is under way", curOut # None)
    /\ broker' = [broker EXCEPT !.pc = "body"]
    /\ UNCHANGED <<client, in, ids, anon, fq, backVars, handled>>

(* Faulty variant of FrontSendBody: when the pipe refuses the last part,    *)
(* current_out is kept.                                                     *)
KeepsRefused ==
    /\ At("body")
    /\ curOut' = IF curOut # None /\ client[curOut] # "up" THEN curOut ELSE None
    /\ broker' = Done
    /\ UNCHANGED <<client, in, ids, anon, fq, backVars, handled, failed>>

(* ... and of the last part: a pipe whose peer has closed meanwhile refuses *)
(* it, and it is dropped.                                                   *)
FrontSendBody ==
    /\ At("body")
    /\ curOut' = None
    /\ Fails("router: pipe is deleted", curOut # None /\ client[curOut] = "gone")
    /\ broker' = Done
    /\ UNCHANGED <<client, in, ids, anon, fq, backVars, handled>>

-------------------------------------------------------------------------------
(* compressimage.lua: address and payload are the first two parts. An empty *)
(* payload is ignored; else a reply follows, whatever became of it.         *)
Receive(k) ==
    /\ conn[k] = "up" /\ busy[k] = << >> /\ out[k] # << >>
    /\ out' = [out EXCEPT ![k] = Tail(@)]
    /\ LET m == Head(out[k]) IN
       IF Len(m) > 1 /\ m[2][1] = "body"
         THEN /\ handled' = [handled EXCEPT ![m[2][2]] = @ + 1]
              /\ busy' = [busy EXCEPT ![k] = <<m[1], <<"result">> >>]
         ELSE UNCHANGED <<handled, busy>>
    /\ UNCHANGED <<frontVars, conn, part, rep, lb, bfq, broker, failed>>

(* The reply is in the broker's pipe; the next poll finds it, as the pipe    *)
(* is activated (process_activate_read) when it had been found empty.       *)
Reply(k) ==
    /\ conn[k] = "up" /\ busy[k] # << >> /\ Len(rep[k]) < ReplyHwm
    /\ rep' = [rep EXCEPT ![k] = Append(@, busy[k])]
    /\ busy' = [busy EXCEPT ![k] = << >>]
    /\ bfq' = IF IsActive(bfq, k) THEN bfq ELSE activated(bfq, k)
    /\ UNCHANGED <<frontVars, conn, out, part, lb, handled, broker, failed>>

-------------------------------------------------------------------------------
FrontCommand(c) == ClientConnects(c) \/ MessageArrives(c) \/ ClientLeaves(c) \/ ClientGone(c)
BackCommand(k) == PipeTerm(k) \/ PipeGone(k) \/ RoomAgain(k)
BrokerStep == Poll \/ BackSend \/ FrontSendId \/ FrontSendBody

Next ==
    \/ \E c \in Clients : FrontCommand(c)
    \/ \E k \in Compressors :
        CompressorConnects(k) \/ CompressorBreaks(k) \/ BackCommand(k) \/ Receive(k) \/ Reply(k)
    \/ BrokerStep

Spec == Init /\ [][Next]_vars

-------------------------------------------------------------------------------
(* The one assertion that this version is known to break: lb_t::send, when  *)
(* the connection of the pipe it writes to breaks between two parts of a    *)
(* message (lb_t::terminated provides for the pipe being gone by then, not  *)
(* for its being about to go).                                              *)
KnownFailures == {"lb: pipe fails inside a message"}

(* No other assertion that the module represents fails: a pipe that goes is *)
(* in the table, and no reply begins while one is under way (router.cpp), a *)
(* pipe refuses first parts only (lb.cpp). And no pipe is used after it is  *)
(* deleted, whenever peers come and go.                                     *)
BrokerSound == failed \subseteq KnownFailures

(* zmq_send promises that "peers shall receive either all message parts of  *)
(* a message or none at all": what waits for a compressor are whole         *)
(* messages of one client each.                                             *)
WholeMessages == \A k \in Compressors : \A i \in DOMAIN out[k] : Whole(out[k][i])

(* The ROUTER's table and its fair queueing are about the same pipes, and   *)
(* no two of them have one identity, however identities are reused.         *)
TableConsistent ==
    /\ ToSet(fq.pipes) = ids /\ ids \cap anon = {}
    /\ \A c, d \in ids : Identity[c] = Identity[d] => c = d

(* Nobody has anything left to do, but for connections that come or break.  *)
AtRest ==
    /\ At("poll") /\ Skip(fq, FrontReady).active = 0
    /\ \A c \in Clients : in[c] # Later /\ client[c] # "up" /\ ~(client[c] = "left" /\ in[c] = << >>)
    /\ \A k \in Compressors :
        /\ conn[k] \notin {"down", "closing"}
        /\ conn[k] = "up" => out[k] = << >> /\ busy[k] = << >> /\ rep[k] = << >>

(* A compressor is there, every sender is done, and none of the broker and  *)
(* the compressors can go on.                                               *)
Stuck ==
    /\ Alive /\ \E k \in Compressors : conn[k] = "up"
    /\ \A k \in Compressors : conn[k] \notin {"down", "closing"}
    /\ broker.pc = "fwd" /\ ~lb.dropping
    /\ \A k \in Compressors : conn[k] = "up" =>
        Len(out[k]) = Hwm /\ busy[k] # << >> /\ Len(rep[k]) = ReplyHwm

(* The broker waits in send for a compressor with room while compressors    *)
(* wait in send for the broker to take their replies: all of them at once   *)
(* only if a connection broke, since every round of the poller takes a      *)
(* reply for a message. When one breaks after its reply was taken, its      *)
(* share of the room is gone, and the rest may wait until one more connects. *)
NoStandstill == Stuck => \E k \in Compressors : conn[k] = "gone"

(* At rest, the message of every client has been handled exactly once, or   *)
(* it had an empty part in front, or its sender had an identity that was    *)
(* taken, or a connection broke.                                            *)
HandledOnce ==
    /\ \A c \in Clients : handled[c] <= 1
    /\ AtRest => \A c \in Clients :
        client[c] \notin {None, "absent"} =>
            \/ handled[c] = 1
            \/ c \in ReqClients \cup anon
            \/ \E k \in Compressors : conn[k] = "gone"
===============================================================================

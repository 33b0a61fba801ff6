---------------------------- MODULE MessagePath ----------------------------
(***************************************************************************)
(* How the JSON messages of the image pipeline travel.  Every message is   *)
(* sent on a DEALER socket of its own, which the sender closes at once:    *)
(* the 0MQ context keeps the closed socket, and its place among the        *)
(* context's sockets, until the message has been handed to the peer        *)
(* (0MQ 3.2 lingers without limit).  A worker's messages go to the broker  *)
(* rrbroker.lua, which queues them for the compressors; a compressor's     *)
(* go, through a second broker, to the image monitor.                      *)
(*                                                                         *)
(* Each message comes over a connection of its own, which the ROUTER       *)
(* socket reads in turn, so nothing keeps two messages in order: a queue   *)
(* is a bag, written as a function that counts each message.               *)
(***************************************************************************)
EXTENDS ThumbRequest, Deployment, Functions

CONSTANTS
  MaxSockets,   \* sockets a 0MQ context can hold (ZMQ_MAX_SOCKETS)
  QueueLimit    \* messages the broker queues (its high water marks)

ASSUME PathAssumption == MaxSockets \in Nat /\ QueueLimit \in Nat \ {0}

VARIABLES
  linger,     \* process -> messages in its closed but still lingering sockets
  inbox,      \* messages the broker holds for the compressors
  brokerUp

pathVars == <<linger, inbox, brokerUp>>

(***************************************************************************)
(* type 1  a request was received (no sourceImageName in it)               *)
(* type 2  a thumbnail was generated                                       *)
(* type 3  an image was published (sent by programs outside the repository)*)
(* Only the type and the file a message is about are kept.                 *)
(***************************************************************************)
Messages == [type : {1, 2, 3}, req : Requests]
Message(t, r) == [type |-> t, req |-> r]
NoMessages == [m \in Messages |-> 0]

PathTypeOK ==
  /\ linger \in [Procs -> [Messages -> Nat]]
  /\ inbox \in [Messages -> Nat]
  /\ brokerUp \in BOOLEAN

PathInit ==
  /\ linger = [p \in Procs |-> NoMessages]
  /\ inbox = NoMessages
  /\ brokerUp = TRUE

\* context:socket() returns nil once every socket of the context is taken.
SocketFree(p) == SumFunction(linger[p]) < MaxSockets

\* socket, connect, send and close: none of them waits for the peer.
SendMessage(p, m) ==
  /\ SocketFree(p)
  /\ linger' = [linger EXCEPT ![p][m] = @ + 1]
  /\ UNCHANGED <<inbox, brokerUp>>

\* The I/O thread of p delivers a lingering message to the broker.
Deliver(p, m) ==
  /\ brokerUp
  /\ linger[p][m] > 0
  /\ SumFunction(inbox) < QueueLimit
  /\ linger' = [linger EXCEPT ![p][m] = @ - 1]
  /\ inbox' = [inbox EXCEPT ![m] = @ + 1]
  /\ UNCHANGED brokerUp

\* A program outside the repository publishes an image.
PublishImage(r) ==
  /\ brokerUp
  /\ SumFunction(inbox) < QueueLimit
  /\ inbox' = [inbox EXCEPT ![Message(3, r)] = @ + 1]
  /\ UNCHANGED <<linger, brokerUp>>

\* Faulty variant of Take: a message is handled that is not there.
TakeAnything(m) ==
  /\ inbox' = [inbox EXCEPT ![m] = @ - 1]
  /\ UNCHANGED <<linger, brokerUp>>

\* A compressor receives m.
Take(m) ==
  /\ inbox[m] > 0
  /\ inbox' = [inbox EXCEPT ![m] = @ - 1]
  /\ UNCHANGED <<linger, brokerUp>>

\* Any of the queued messages may be lost.
LoseSomeQueued ==
  \E lost \in SUBSET {m \in Messages : inbox[m] > 0} :
    \E left \in [lost -> 0..(QueueLimit - 1)] :
      /\ \A m \in lost : left[m] < inbox[m]
      /\ inbox' = [m \in Messages |-> IF m \in lost THEN left[m] ELSE inbox[m]]

\* The broker dies with what it queued, except what it has already passed
\* on to a compressor's socket; it is started again by hand.
BrokerCrash ==
  /\ brokerUp
  /\ brokerUp' = FALSE
  /\ LoseSomeQueued
  /\ UNCHANGED linger
BrokerRestart ==
  /\ ~brokerUp
  /\ brokerUp' = TRUE
  /\ UNCHANGED <<linger, inbox>>

\* Process p dies: its 0MQ context, and every lingering message, are gone.
LoseLingering(p) == linger' = [linger EXCEPT ![p] = NoMessages]
=============================================================================

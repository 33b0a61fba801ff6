----------------------------- MODULE StreamEngine -----------------------------
(***************************************************************************)
(* stream_engine_t of 0MQ with its encoders and decoders, as functions on  *)
(* one record: the greeting and the choice of a framing, batches of bytes  *)
(* out of messages, messages out of whatever chunks of bytes arrive, and   *)
(* the flags that say what the poller is asked for. Bytes are numbers up   *)
(* to Esc, which stands for 255; a length of eight bytes takes two here.   *)
(***************************************************************************)
EXTENDS Integers, Sequences, SequencesExt

CONSTANTS
    Esc,       \* the largest byte
    Batch,     \* out_batch_size
    InHwm      \* messages the session's pipe takes, at most 2, for which the low water mark is 1

ASSUME EngineAssumption == Esc \in Nat \ (0..2) /\ Batch \in Nat \ {0} /\ InHwm \in {1, 2}

Flag(m) == IF m.more THEN 1 ELSE 0
Long(n) == <<0, n>>

(* encoder_t: the size counts the byte of flags that follows it. *)
FrameV0(m) ==
    LET size == Len(m.body) + 1
    IN  (IF size < Esc THEN <<size>> ELSE <<Esc>> \o Long(size)) \o <<Flag(m)>> \o m.body

(* v1_encoder_t: flags, of which the second says how long the size is. *)
FrameV1(m) ==
    LET size == Len(m.body)
    IN  (IF size > Esc THEN <<Flag(m) + 2>> \o Long(size) ELSE <<Flag(m), size>>) \o m.body

Frame(proto, m) == IF proto = "v1" THEN FrameV1(m) ELSE FrameV0(m)

(* plug: what looks like the head of an identity message to an old peer. *)
Signature(identity) == <<Esc>> \o Long(Len(identity.body) + 1) \o <<1>>
Rest == <<1, 0>>     \* protocol version and socket type
GreetingSize == 6

Plugged(identity) ==
    [hs |-> TRUE, greet |-> << >>, outb |-> Signature(identity), rest |-> FALSE,
     proto |-> "none", left |-> << >>, q |-> <<identity>>, asleep |-> FALSE,
     step |-> "none", need |-> 0, got |-> << >>, size |-> 0, more |-> FALSE, stall |-> FALSE, bad |-> FALSE,
     inb |-> << >>, inq |-> << >>, rcvd |-> << >>, blocked |-> FALSE,
     pollin |-> TRUE, pollout |-> TRUE, io |-> TRUE, gone |-> FALSE, failed |-> {}]

-------------------------------------------------------------------------------
(* encoder_base_t::get_data: up to "limit" bytes of what is left of a       *)
(* message and of those pull_msg has after it. (A body that fills a batch   *)
(* by itself goes out whole there and in batches here.)                     *)
GetData(e, limit) ==
    LET fill[n \in 0..limit] ==
            IF n = 0 THEN [e EXCEPT !.outb = << >>]
            ELSE LET a == fill[n - 1]
                     b == IF a.left = << >> /\ a.q # << >>
                            THEN [a EXCEPT !.left = Frame(a.proto, Head(a.q)), !.q = Tail(@)]
                            ELSE [a EXCEPT !.asleep = @ \/ a.left = << >>]
                     k == IF Len(b.left) < limit - Len(b.outb) THEN Len(b.left) ELSE limit - Len(b.outb)
                 IN  IF Len(a.outb) = limit THEN a
                     ELSE [b EXCEPT !.outb = @ \o SubSeq(b.left, 1, k), !.left = SubSeq(@, k + 1, Len(@))]
    IN  fill[limit]

-------------------------------------------------------------------------------
NextStep(e, step, need) == [e EXCEPT !.step = step, !.need = need, !.got = << >>]
Bad(e) == [e EXCEPT !.bad = TRUE]
FirstStep(proto) == IF proto = "v1" THEN "flags" ELSE "size"

(* push_msg, and message_ready. The pipe counts messages, not their parts, *)
(* so that it never refuses a part after the first.                        *)
Push(e) ==
    IF Len(SelectSeq(e.inq, LAMBDA m : ~m.more)) < InHwm
      THEN LET m == [more |-> e.more, body |-> e.got]
           IN  NextStep([e EXCEPT !.inq = Append(@, m), !.rcvd = Append(@, m)], FirstStep(e.proto), 1)
      ELSE [e EXCEPT !.stall = TRUE, !.blocked = TRUE]

(* decoder_t *)
StepV0(e) ==
    LET b == e.got[Len(e.got)] IN
    IF e.step = "flags" THEN NextStep([e EXCEPT !.more = b % 2 = 1], "body", e.size)
    ELSE IF e.step = "size" /\ b = Esc THEN NextStep(e, "size8", 2)
    ELSE IF b = 0 THEN Bad(e)
    ELSE NextStep([e EXCEPT !.size = b - 1], "flags", 1)

(* v1_decoder_t *)
StepV1(e) ==
    LET b == e.got[Len(e.got)] IN
    CASE e.step = "flags" /\ b < 2 -> NextStep([e EXCEPT !.more = b % 2 = 1], "size", 1)
      [] e.step = "flags" /\ b >= 2 -> NextStep([e EXCEPT !.more = b % 2 = 1], "size8", 2)
      [] e.step \in {"size", "size8"} -> NextStep(e, "body", b)

Step(e) == IF e.step = "body" THEN Push(e) ELSE IF e.proto = "v1" THEN StepV1(e) ELSE StepV0(e)

(* decoder_base_t: the state machine runs while nothing is to be read. *)
RunSteps(e) ==
    LET r[n \in 0..3] ==
            IF n = 0 THEN [e EXCEPT !.stall = FALSE]
            ELSE LET a == r[n - 1] IN IF a.need > 0 \/ a.bad \/ a.stall THEN a ELSE Step(a)
    IN  r[3]

Copy(e) == [e EXCEPT !.got = Append(@, Head(e.inb)), !.need = @ - 1, !.inb = Tail(@)]

(* process_buffer: until the bytes are used up, or a message is refused. *)
ProcessBuffer(e) ==
    LET p[n \in 0..Len(e.inb)] ==
            IF n = 0 THEN RunSteps(e)
            ELSE LET a == p[n - 1] IN IF a.bad \/ a.stall THEN a ELSE RunSteps(Copy(a))
    IN  p[Len(e.inb)]

-------------------------------------------------------------------------------
Start(e, proto) ==
    NextStep([e EXCEPT !.hs = FALSE, !.proto = proto, !.pollout = @ \/ e.outb = << >>], FirstStep(proto), 1)

(* Faulty variant of HeadSize: the flags are not counted. *)
HeadSizeLess(identity) == IF Len(identity.body) >= Esc THEN 4 ELSE 2

(* header_size *)
HeadSize(identity) == IF Len(identity.body) + 1 >= Esc THEN 4 ELSE 2

(* The old framing from the first byte on: the head of our identity has     *)
(* been sent, so the encoder's is thrown away, and the decoder is shown     *)
(* what was taken for a greeting.                                           *)
StartOld(e) ==
    LET head == HeadSize(Head(e.q))
        a == GetData([e EXCEPT !.proto = "v0"], head)
    IN  Start([a EXCEPT !.outb = e.outb, !.inb = e.greet,
                        !.failed = IF Len(a.outb) = head THEN @ ELSE @ \cup {"header size"}], "v0")

(* handshake, after a chunk of the greeting *)
Handshake(e) ==
    LET versioned == e.greet[1] = Esc /\ (Len(e.greet) >= 4 => e.greet[4] % 2 = 1)
        a == IF e.rest \/ Len(e.greet) < 4 THEN e
             ELSE [e EXCEPT !.rest = TRUE, !.outb = @ \o Rest, !.pollout = TRUE]
    IN  IF ~versioned THEN StartOld(e)
        ELSE IF Len(e.greet) < GreetingSize THEN a
        ELSE Start(a, IF e.greet[5] = 0 THEN "v0" ELSE "v1")

Error(e) == [e EXCEPT !.gone = TRUE]

(* Faulty variant of Settle: the poller is asked for more all the same. *)
SettlePolls(e) == IF e.bad THEN Error(e) ELSE [e EXCEPT !.inb = << >>]

(* The end of in_event: a message was refused, so no more input for now. *)
Settle(e) == IF e.bad THEN Error(e) ELSE [e EXCEPT !.pollin = @ /\ e.inb = << >>]

(* in_event, for a chunk that the socket had *)
InEvent(e, chunk) ==
    IF e.hs
      THEN LET a == Handshake([e EXCEPT !.greet = @ \o chunk]) IN IF a.hs THEN a ELSE Settle(ProcessBuffer(a))
      ELSE Settle(ProcessBuffer([e EXCEPT !.inb = chunk]))

(* Faulty variant of InEnd: a message that waits is lost. *)
InEndAtOnce(e) == Error(e)

(* in_event, when the peer has closed the connection: the engine goes, but  *)
(* stays without its descriptor while a message waits to be accepted.       *)
InEnd(e) ==
    LET a == IF e.hs THEN e ELSE RunSteps(e)
    IN  IF ~e.hs /\ a.stall THEN [a EXCEPT !.io = FALSE, !.pollin = FALSE, !.pollout = FALSE] ELSE Error(a)

(* out_event takes a batch from the encoder when it has written the last. *)
Refill(e) == IF e.outb = << >> /\ e.proto # "none" THEN GetData(e, Batch) ELSE e

(* ... and writes n bytes of it. *)
Wrote(e, n) ==
    LET a == [e EXCEPT !.outb = SubSeq(@, n + 1, Len(@))]
    IN  [a EXCEPT !.pollout = @ /\ ~(a.outb = << >> /\ (a.hs \/ n = 0))]

(* read_activated and activate_out. A descriptor that was removed cannot be *)
(* polled.                                                                  *)
ActivateOut(e) ==
    IF e.io THEN Refill([e EXCEPT !.asleep = FALSE, !.pollout = TRUE])
    ELSE [e EXCEPT !.failed = @ \cup {"poll of a removed descriptor"}]

(* Faulty variant of ActivateIn: bytes that are there wait for others. *)
ActivateInPolls(e) == IF e.io THEN [e EXCEPT !.blocked = FALSE, !.pollin = TRUE] ELSE Error(e)

(* write_activated and activate_in *)
ActivateIn(e) ==
    LET a == ProcessBuffer([e EXCEPT !.blocked = FALSE, !.pollin = e.io])
    IN  IF e.io THEN Settle(a)
        ELSE Error([a EXCEPT !.failed = IF a.stall THEN @ \cup {"stalled again"} ELSE @])
===============================================================================

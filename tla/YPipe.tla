-------------------------------- MODULE YPipe --------------------------------
(***************************************************************************)
(* ypipe_t on yqueue_t: the lock-free queue under every 0MQ pipe and       *)
(* mailbox. One thread writes, one reads; they meet only in the pointer c  *)
(* (and in the spare chunk). A pointer is the address <<chunk, position>>  *)
(* of a slot. Chunks come from malloc, may come back from it after free,   *)
(* and travel through spare_chunk, so addresses are used again. The linked *)
(* list of chunks is the sequence of the chunks on it.                     *)
(*                                                                         *)
(* Each action contains at most one access to what the threads share.      *)
(***************************************************************************)
EXTENDS Integers, Sequences, SequencesExt

CONSTANTS
    Values,    \* what is sent
    Chunks,    \* the addresses malloc can return
    N,         \* granularity: slots per chunk
    Null

ASSUME YPipeAssumption == N \in Nat \ {0} /\ Null \notin Chunks \cup (Chunks \X (0..N - 1))

VARIABLES
    chunks,    \* the chunks from begin_chunk to end_chunk
    val,       \* what each slot holds
    beginPos, back, endPos, spare,   \* of yqueue_t
    w, r, f, c,                      \* of ypipe_t
    wpc,       \* writer: "idle", or "woken" between the two accesses of flush
    rpc        \* reader: "idle", or "avail" after a check_read that said yes

queueVars == <<chunks, val, beginPos, back, endPos, spare>>
ypVars == <<chunks, val, beginPos, back, endPos, spare, w, r, f, c, wpc, rpc>>

Slot == Chunks \X (0..N - 1)
Item == [v : Values, last : BOOLEAN]
Unused == Chunks \ (ToSet(chunks) \cup {spare})

FrontSlot == <<chunks[1], beginPos>>

-------------------------------------------------------------------------------
(* yqueue_t *)

(* The chunk push links behind a full one: the spare one, or malloc's. *)
NewChunk == IF spare # Null THEN {spare} ELSE Unused

(* Faulty variant of Push: the spare chunk is used and stays the spare. *)
PushKeepsSpare ==
    /\ back' = <<Last(chunks), endPos>>
    /\ endPos' = (endPos + 1) % N
    /\ UNCHANGED spare
    /\ \E x \in NewChunk : chunks' = IF endPos + 1 = N THEN Append(chunks, x) ELSE chunks

(* push: the slot at end becomes the back; a chunk that is full gets a      *)
(* successor at once, the spare one if there is one.                        *)
Push ==
    /\ back' = <<Last(chunks), endPos>>
    /\ IF endPos + 1 # N
         THEN endPos' = endPos + 1 /\ UNCHANGED <<chunks, spare>>
         ELSE /\ endPos' = 0
              /\ spare' = Null
              /\ \E x \in NewChunk : chunks' = Append(chunks, x)

(* unpush: back and end move one slot towards the front; an end chunk that *)
(* is left is freed.                                                       *)
Unpush ==
    /\ back' = IF back[2] # 0 THEN <<back[1], back[2] - 1>>
               ELSE LET i == CHOOSE j \in DOMAIN chunks : chunks[j] = back[1]
                    IN  <<chunks[i - 1], N - 1>>
    /\ IF endPos # 0
         THEN endPos' = endPos - 1 /\ UNCHANGED chunks
         ELSE endPos' = N - 1 /\ chunks' = SubSeq(chunks, 1, Len(chunks) - 1)
    /\ UNCHANGED spare

(* pop: a chunk that is used up becomes the spare one; the old spare is    *)
(* freed.                                                                  *)
Pop ==
    IF beginPos + 1 = N
      THEN beginPos' = 0 /\ chunks' = Tail(chunks) /\ spare' = chunks[1]
      ELSE beginPos' = beginPos + 1 /\ UNCHANGED <<chunks, spare>>

-------------------------------------------------------------------------------
(* ypipe_t: the writer *)

(* The constructors: one push for the terminator, all pointers at it. *)
QueueInit ==
    \E x \in Chunks :
        /\ val = [t \in Slot |-> Null]
        /\ beginPos = 0 /\ back = <<x, 0>> /\ spare = Null
        /\ IF N = 1 THEN \E y \in Chunks \ {x} : chunks = <<x, y>> /\ endPos = 0
                    ELSE chunks = <<x>> /\ endPos = 1
PointersInit == w = back /\ r = back /\ f = back /\ wpc = "idle" /\ rpc = "idle"

YPInit == QueueInit /\ PointersInit /\ c = back

(* write: the item goes into the back slot; f moves past a complete item. *)
Write(v, incomplete) ==
    /\ wpc = "idle"
    /\ val' = [val EXCEPT ![back] = [v |-> v, last |-> ~incomplete]]
    /\ Push
    /\ f' = IF incomplete THEN f ELSE back'
    /\ UNCHANGED <<beginPos, w, r, c, wpc, rpc>>

Unwrite ==
    /\ wpc = "idle"
    /\ f # back
    /\ Unpush
    /\ val' = [val EXCEPT ![back'] = Null]
    /\ UNCHANGED <<beginPos, w, r, f, c, wpc, rpc>>

(* Faulty variant of Flush: items that are incomplete are let through. *)
FlushToBack ==
    /\ wpc = "idle" /\ w # f /\ c = w
    /\ c' = back /\ w' = back
    /\ UNCHANGED <<queueVars, r, f, rpc, wpc>>

(* flush, the compare-and-swap. It succeeds while the reader is awake. *)
Flush ==
    /\ wpc = "idle"
    /\ w # f
    /\ IF c = w THEN c' = f /\ w' = f /\ wpc' = "idle"
                ELSE wpc' = "woken" /\ UNCHANGED <<c, w>>
    /\ UNCHANGED <<queueVars, r, f, rpc>>

(* flush returns false: the reader sleeps, c is set plainly. *)
FlushAsleep ==
    /\ wpc = "woken"
    /\ c' = f /\ w' = f /\ wpc' = "idle"
    /\ UNCHANGED <<queueVars, r, f, rpc>>

-------------------------------------------------------------------------------
(* ypipe_t: the reader *)

Prefetched == r # FrontSlot /\ r # Null

(* check_read: go on with what was prefetched, or fetch c and leave Null   *)
(* in it if there is nothing.                                              *)
CheckRead ==
    /\ rpc = "idle"
    /\ IF Prefetched THEN rpc' = "avail" /\ UNCHANGED <<r, c>>
       ELSE /\ r' = c
            /\ c' = IF c = FrontSlot THEN Null ELSE c
            /\ rpc' = IF c \in {FrontSlot, Null} THEN "idle" ELSE "avail"
    /\ UNCHANGED <<queueVars, w, f, wpc>>

(* read, once there is an item. A slot that is given up counts as empty. *)
Read ==
    /\ rpc = "avail"
    /\ rpc' = "idle"
    /\ Pop
    /\ val' = [val EXCEPT ![FrontSlot] = Null]
    /\ UNCHANGED <<back, endPos, w, r, f, c, wpc>>

YPNext(vs) ==
    \/ \E v \in vs, i \in BOOLEAN : Write(v, i)
    \/ Unwrite \/ Flush \/ FlushAsleep
    \/ CheckRead \/ Read

YPSpec == YPInit /\ [][YPNext(Values)]_ypVars

-------------------------------------------------------------------------------
(* On a list of chunks: the distance of a slot from the start of the first  *)
(* chunk, and the slot at a distance.                                       *)
PosIn(cs, s) == (SelectInSeq(cs, LAMBDA x : x = s[1]) - 1) * N + s[2]
SlotIn(cs, p) == <<cs[(p \div N) + 1], p % N>>
Pos(s) == PosIn(chunks, s)
At(p) == val[SlotIn(chunks, p)]
Between(p, q) == [k \in 1..q - p |-> At(p + k - 1)]

Visible == IF c = Null THEN beginPos ELSE Pos(c)

(* The writer's and the reader's view of the queue at the moment: what c    *)
(* lets through, and what lies behind it.                                  *)
FQ == INSTANCE FlushQueue WITH
        pending <- Between(Visible, Pos(back)),
        queue   <- Between(beginPos, Visible),
        asleep  <- c = Null

(* Items come out once, whole and in order, and never before they were     *)
(* flushed as a complete message: the lock-free code of ypipe.hpp behaves  *)
(* as the queue of FlushQueue, although slot addresses are used again.     *)
ImplementsQueue == FQ!FSpec

(* No pointer either thread may follow or compare leads into a chunk that  *)
(* was freed, and the spare chunk is never also on the list (yqueue.hpp).  *)
PointersLive ==
    /\ spare \notin ToSet(chunks)
    /\ IsInjective(chunks)
    /\ {back[1], w[1], f[1]} \subseteq ToSet(chunks)
    /\ c # Null => c[1] \in ToSet(chunks)
    /\ Prefetched => r[1] \in ToSet(chunks)
    /\ rpc = "avail" => Pos(back) > beginPos
===============================================================================

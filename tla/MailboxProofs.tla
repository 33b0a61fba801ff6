---------------------------- MODULE MailboxProofs ----------------------------
(***************************************************************************)
(* Proofs about Mailbox for every number of senders and of commands. The    *)
(* pipe under it is known by what YPipeProofs shows of its steps.           *)
(***************************************************************************)
EXTENDS Mailbox, YPipeProofs

Places == {"idle", "written", "asleep", "ok", "not ok", "signal"}
OwnerPlaces == {"idle", "read", "pop", "reread", "drain", "put back", "wait"}

MBTypeOK ==
    /\ lock \in Senders \cup {Null} /\ snd \in [Senders -> Places]
    /\ sent \in [Senders -> 0..MaxSends] /\ got \in [Senders -> 0..MaxSends]
    /\ signals \in 0..2 /\ active \in BOOLEAN /\ mpc \in OwnerPlaces

(* A sender that has put the reader's pointer back and is yet to signal. *)
OnWay(s) == snd[s] \in {"not ok", "signal"}
SomeOnWay == \E s \in Senders : OnWay(s)

(* The mutex: who holds it, what the holder has done to the pipe, and that   *)
(* nobody else has left anything unflushed.                                  *)
Locking ==
    /\ f = back
    /\ \A s \in Senders : snd[s] \in {"written", "asleep", "ok", "not ok"} <=> lock = s
    /\ \A s \in Senders : snd[s] = "asleep" => wpc = "woken"
    /\ wpc = "woken" => lock # Null /\ snd[lock] = "asleep"
    /\ w # f <=> lock # Null /\ snd[lock] \in {"written", "asleep"}
    /\ \A s, t \in Senders : OnWay(s) /\ OnWay(t) => s = t

(* One signal for each time the reader fell asleep: it is in the eventfd, or  *)
(* a sender is on its way with it, or the owner has yet to take the old one   *)
(* out.                                                                       *)
Waking ==
    /\ mpc \in {"read", "pop", "reread"} => active
    /\ mpc \in {"drain", "put back", "wait"} => ~active
    /\ rpc = "avail" <=> mpc = "pop"
    /\ active => c # Null /\ signals = 1 /\ ~SomeOnWay
    /\ mpc = "reread" \/ (c # Null /\ ~active) => Pos(w) > beginPos
    /\ c = Null => ~SomeOnWay /\ mpc # "put back" /\ signals = (IF mpc = "drain" THEN 1 ELSE 0)
    /\ SomeOnWay => mpc # "put back" /\ signals = (IF mpc = "drain" THEN 1 ELSE 0)
    /\ c # Null /\ ~active /\ ~SomeOnWay =>
         signals = (IF mpc = "drain" THEN 2 ELSE IF mpc = "put back" THEN 0 ELSE 1)

(* The commands in the pipe: of each sender in order, later than the last     *)
(* one received and up to the last one sent. A sender inside send finds its    *)
(* own there.                                                                 *)
Ordered ==
    /\ \A s \in Senders : got[s] <= sent[s]
    /\ \A p \in beginPos..Pos(back) - 1 :
         At(p).v \in Commands /\ got[At(p).v[1]] < At(p).v[2] /\ At(p).v[2] <= sent[At(p).v[1]]
    /\ \A p, q \in beginPos..Pos(back) - 1 :
         p < q /\ At(p).v[1] = At(q).v[1] => At(p).v[2] < At(q).v[2]
    /\ \A s \in Senders : snd[s] \in {"written", "asleep"} => At(Pos(back) - 1).v = <<s, sent[s]>>
    /\ \A s \in Senders : OnWay(s) => \E p \in beginPos..Pos(w) - 1 : At(p).v = <<s, sent[s]>>

MBInv == YPInv /\ MBTypeOK /\ Locking /\ Waking /\ Ordered

-----------------------------------------------------------------------------
\* Every step of a mailbox is one of its pipe or leaves the pipe alone.
LEMMA PipeStep ==
  ASSUME MBTypeOK, [MBNext]_vars
  PROVE  [YPNext(Values)]_ypVars
<1>1. ASSUME NEW s \in Senders, SendWrite(s) PROVE YPNext(Values)
  <2>1. sent[s] + 1 \in 1..MaxSends
    BY <1>1, MailboxAssumption DEF SendWrite, MBTypeOK
  <2>2. <<s, sent[s] + 1>> \in Values /\ Write(<<s, sent[s] + 1>>, FALSE)
    BY <1>1, <2>1, MailboxAssumption DEF SendWrite, Commands
  <2> QED
    BY <2>2 DEF YPNext
<1>2. ASSUME NEW s \in Senders, SendFlush(s) \/ SendWakes(s) PROVE YPNext(Values)
  BY <1>2 DEF SendFlush, SendWakes, YPNext
<1>3. ASSUME RecvCheck \/ RecvPop PROVE YPNext(Values)
  BY <1>3 DEF RecvCheck, RecvPop, YPNext
<1>4. ASSUME NEW s \in Senders, Unlock(s) \/ Signal(s) PROVE UNCHANGED ypVars
  BY <1>4 DEF Unlock, UnlockTo, Signal
<1>5. ASSUME RecvCall \/ Drain \/ PutBack \/ Woken \/ TimedOut \/ UNCHANGED vars PROVE UNCHANGED ypVars
  BY <1>5 DEF RecvCall, Drain, PutBack, Woken, TimedOut, vars
<1> QED
  BY <1>1, <1>2, <1>3, <1>4, <1>5 DEF MBNext, OwnerStep, SenderStep

\* Where the pipe's pointers are.
LEMMA PipeFacts ==
  ASSUME MBInv
  PROVE  /\ Pos(w) \in Nat /\ Pos(back) \in Nat /\ beginPos \in Nat
         /\ beginPos <= Pos(w) /\ Pos(w) <= Pos(back)
         /\ c \in {w, Null} /\ w # Null /\ f # Null
         /\ Pos(w) = Pos(back) <=> w = f
         /\ \A p \in beginPos..Pos(back) - 1 : At(p) \in Item
         /\ c = Null => Pos(w) = beginPos
<1>1. YPInv /\ f = back
  BY DEF MBInv, Locking
<1>2. Queue /\ Pointers /\ Stored
  BY <1>1 DEF YPInv
<1>3. w \in SlotsOf(chunks) /\ f \in SlotsOf(chunks) /\ back \in SlotsOf(chunks)
  BY <1>2 DEF Queue, Pointers
<1>4. w # Null /\ f # Null /\ Pos(w) \in Nat /\ Pos(back) \in Nat /\ beginPos \in Nat
  BY <1>2, <1>3, QueueFacts
<1>5. Pos(w) = Pos(back) <=> w = f
  BY <1>1, <1>2, <1>3, QueueFacts
<1>6. beginPos <= Pos(w) /\ Pos(w) <= Pos(back)
  BY <1>1, <1>2, <1>4 DEF Pointers
<1> QED
  BY <1>2, <1>4, <1>5, <1>6 DEF Pointers, Stored

\* A step that leaves the pipe alone.
LEMMA PipeSame ==
  ASSUME UNCHANGED ypVars
  PROVE  /\ Pos(w)' = Pos(w) /\ Pos(back)' = Pos(back)
         /\ UNCHANGED <<chunks, val, beginPos, back, w, r, f, c, wpc, rpc>>
         /\ \A p : At(p)' = At(p)
BY DEF ypVars, Pos, At

\* What a sender's step does to where the senders are.
LEMMA StepFacts ==
  ASSUME MBTypeOK, NEW s \in Senders, NEW from, NEW to, Step(s, from, to)
  PROVE  snd[s] = from /\ snd'[s] = to /\ \A t \in Senders \ {s} : snd'[t] = snd[t]
BY DEF Step, MBTypeOK

\* write, as a sender calls it.
LEMMA SendWritePipe ==
  ASSUME MBInv, NEW s \in Senders, SendWrite(s)
  PROVE  /\ UNCHANGED <<beginPos, w, r, c, wpc, rpc>> /\ f' = back' /\ w' # f'
         /\ Pos(w)' = Pos(w) /\ Pos(back)' = Pos(back) + 1
         /\ \A p \in beginPos..Pos(back) - 1 : At(p)' = At(p)
         /\ val'[SlotIn(chunks', Pos(back))].v = <<s, sent[s] + 1>>
         /\ sent[s] + 1 \in 1..MaxSends
<1>1. sent[s] + 1 \in 1..MaxSends
  BY MailboxAssumption DEF SendWrite, MBInv, MBTypeOK
<1>2. <<s, sent[s] + 1>> \in Values /\ Write(<<s, sent[s] + 1>>, FALSE)
  BY <1>1, MailboxAssumption DEF SendWrite, Commands
<1>3. /\ PosIn(chunks', back') = Pos(back) + 1 /\ PosIn(chunks', w') = Pos(w)
      /\ \A p \in beginPos..Pos(back) - 1 : val'[SlotIn(chunks', p)] = At(p)
      /\ val'[SlotIn(chunks', Pos(back))] = [v |-> <<s, sent[s] + 1>>, last |-> ~FALSE]
  BY <1>2, WriteItems DEF MBInv
<1>4. UNCHANGED <<beginPos, w, r, c, wpc, rpc>> /\ f' = back'
  BY <1>2 DEF Write
<1>5. w' # f'
  BY <1>3, <1>4, PipeFacts
<1>6. \A p \in beginPos..Pos(back) - 1 : At(p)' = At(p)
  BY <1>3 DEF At
<1> QED
  BY <1>1, <1>3, <1>4, <1>5, <1>6 DEF Pos

\* flush, both ways.
LEMMA SendFlushPipe ==
  ASSUME MBInv, UNCHANGED <<queueVars, r, f, rpc>>
  PROVE  /\ UNCHANGED <<chunks, val, back, beginPos, f, r, rpc>>
         /\ Pos(back)' = Pos(back) /\ \A p : At(p)' = At(p)
         /\ w' = w => Pos(w)' = Pos(w)
         /\ w' = f => Pos(w)' = Pos(back)
BY DEF queueVars, Pos, At, MBInv, Locking

\* read, as the owner calls it: the rest moves d slots towards the front.
LEMMA RecvPopPipe ==
  ASSUME MBInv, RecvPop
  PROVE  /\ UNCHANGED <<back, w, r, f, c, wpc>> /\ rpc' = "idle"
         /\ Pos(w) > beginPos /\ val[FrontSlot] = At(beginPos)
         /\ \E d \in {0, N} :
              /\ beginPos' + d = beginPos + 1 /\ beginPos' \in Nat /\ d \in Nat
              /\ Pos(w)' + d = Pos(w) /\ Pos(back)' + d = Pos(back)
              /\ Pos(w)' \in Nat /\ Pos(back)' \in Nat
              /\ \A p \in beginPos'..Pos(back)' - 1 : At(p)' = At(p + d)
<1>1. Read /\ YPInv
  BY DEF RecvPop, MBInv
<1>2. UNCHANGED <<back, w, r, f, c, wpc>> /\ rpc' = "idle"
  BY <1>1 DEF Read
<1>3. Pos(w) > beginPos
  BY <1>1, ReadItems
<1>4. val[FrontSlot] = At(beginPos)
  BY <1>1, QueueFacts DEF At, YPInv
<1>5. PICK d \in {0, N} :
        /\ beginPos' \in 0..N - 1 /\ beginPos' = beginPos + 1 - d
        /\ PosIn(chunks', w') = Pos(w) - d /\ PosIn(chunks', back') = Pos(back) - d
        /\ \A p \in beginPos'..(Pos(back) - d) - 1 : val'[SlotIn(chunks', p)] = At(p + d)
  BY <1>1, ReadItems
<1>6. Mapped'
  BY <1>1, ReadStep, MappedNext
<1>7. Pos(w)' = Pos(w) - d /\ Pos(back)' = Pos(back) - d
  BY <1>5 DEF Pos
<1>8. Pos(w)' \in Nat /\ Pos(back)' \in Nat /\ d \in Nat /\ beginPos' \in Nat
  BY <1>5, <1>6, YPipeAssumption DEF Mapped
<1>9. beginPos' + d = beginPos + 1 /\ Pos(w)' + d = Pos(w) /\ Pos(back)' + d = Pos(back)
  BY <1>5, <1>7, <1>8, PipeFacts
<1>10. \A p \in beginPos'..Pos(back)' - 1 : At(p)' = At(p + d)
  BY <1>5, <1>7 DEF At
<1> QED
  BY <1>2, <1>3, <1>4, <1>8, <1>9, <1>10

-----------------------------------------------------------------------------
\* Types

LEMMA TypeStep ==
  ASSUME MBInv, [MBNext]_vars
  PROVE  MBTypeOK'
<1>0. MBTypeOK /\ Waking
  BY DEF MBInv
<1>1. ASSUME NEW s \in Senders, SendWrite(s) PROVE MBTypeOK'
  <2>1. sent[s] + 1 \in 0..MaxSends
    BY <1>1, SendWritePipe
  <2> QED
    BY <1>0, <1>1, <2>1 DEF MBTypeOK, SendWrite, Step, ReaderSame, Places
<1>2. ASSUME NEW s \in Senders, SendFlush(s) \/ SendWakes(s) \/ Unlock(s) PROVE MBTypeOK'
  BY <1>0, <1>2 DEF MBTypeOK, SendFlush, SendWakes, Unlock, UnlockTo, Step, ReaderSame, Places
<1>3. ASSUME NEW s \in Senders, Signal(s) PROVE MBTypeOK'
  <2>1. snd[s] = "signal" /\ SomeOnWay
    BY <1>3 DEF Signal, Step, SomeOnWay, OnWay
  <2>2. signals \in {0, 1}
    BY <1>0, <2>1 DEF MBTypeOK, Waking
  <2>3. signals' \in 0..2
    BY <1>3, <2>2 DEF Signal
  <2> QED
    BY <1>0, <1>3, <2>3 DEF MBTypeOK, Signal, Step, Places
<1>4. ASSUME RecvCall \/ Woken \/ TimedOut PROVE MBTypeOK'
  BY <1>0, <1>4 DEF MBTypeOK, RecvCall, Woken, TimedOut, SendersSame, OwnerPlaces
<1>5. ASSUME RecvCheck PROVE MBTypeOK'
  <2>1. mpc' # "abort"
    <3>1. c # Null /\ (mpc = "reread" => Pos(w) > beginPos)
      BY <1>0, <1>5 DEF Waking, RecvCheck
    <3>2. mpc = "reread" => c # FrontSlot
      BY <3>1, PipeFacts, QueueFacts DEF MBInv, YPInv
    <3> QED
      BY <1>5, <3>1, <3>2 DEF RecvCheck, CheckRead
  <2> QED
    BY <1>0, <1>5, <2>1 DEF MBTypeOK, RecvCheck, SendersSame, OwnerPlaces
<1>6. ASSUME RecvPop PROVE MBTypeOK'
  <2>1. val[FrontSlot] = At(beginPos) /\ beginPos \in beginPos..Pos(back) - 1
    BY <1>6, RecvPopPipe, PipeFacts
  <2>2. At(beginPos).v \in Commands
    BY <2>1 DEF MBInv, Ordered
  <2> DEFINE x == val[FrontSlot].v
  <2>3. x[1] \in Senders /\ x[2] \in 0..MaxSends
    BY <2>1, <2>2, MailboxAssumption DEF Commands
  <2>4. got' = [got EXCEPT ![x[1]] = x[2]]
    BY <1>6 DEF RecvPop
  <2> HIDE DEF x
  <2>5. got' \in [Senders -> 0..MaxSends]
    BY <1>0, <2>3, <2>4 DEF MBTypeOK
  <2> QED
    BY <1>0, <1>6, <2>5 DEF MBTypeOK, RecvPop, SendersSame, OwnerPlaces
<1>7. ASSUME Drain PROVE MBTypeOK'
  <2>1. signals = 1 \/ signals = 2
    BY <1>0, <1>7 DEF Waking, Drain, MBTypeOK
  <2>2. mpc' \in {"wait", "put back"}
    BY <1>7, <2>1 DEF Drain
  <2>3. UNCHANGED <<lock, snd, sent, got, active>> /\ signals' = 0
    BY <1>7 DEF Drain, SendersSame
  <2>4. signals' \in 0..2
    BY <2>3
  <2> QED
    BY <1>0, <2>2, <2>3, <2>4 DEF MBTypeOK, OwnerPlaces
<1>8. ASSUME PutBack PROVE MBTypeOK'
  <2>1. signals = 0
    BY <1>0, <1>8 DEF Waking, PutBack, MBTypeOK
  <2>2. UNCHANGED <<lock, snd, sent, got, active>> /\ signals' = signals + 1 /\ mpc' = "wait"
    BY <1>8 DEF PutBack, SendersSame
  <2>3. signals' \in 0..2
    BY <2>1, <2>2
  <2> QED
    BY <1>0, <2>2, <2>3 DEF MBTypeOK, OwnerPlaces
<1>9. ASSUME UNCHANGED vars PROVE MBTypeOK'
  BY <1>0, <1>9 DEF vars, mbVars, MBTypeOK
<1> QED
  BY <1>1, <1>2, <1>3, <1>4, <1>5, <1>6, <1>7, <1>8, <1>9 DEF MBNext, OwnerStep, SenderStep

-----------------------------------------------------------------------------
\* The mutex

LEMMA LockingStep ==
  ASSUME MBInv, [MBNext]_vars
  PROVE  Locking'
<1>0. MBTypeOK /\ Locking /\ Null \notin Senders
  BY MailboxAssumption DEF MBInv
<1>1. ASSUME NEW s \in Senders, SendWrite(s) PROVE Locking'
  <2>1. f' = back' /\ w' # f' /\ wpc' = wpc
    BY <1>1, SendWritePipe
  <2>2. lock = Null /\ lock' = s /\ Step(s, "idle", "written")
    BY <1>1 DEF SendWrite
  <2>3. snd[s] = "idle" /\ snd'[s] = "written" /\ \A t \in Senders \ {s} : snd'[t] = snd[t]
    BY <1>0, <2>2, StepFacts
  <2> QED
    BY <1>0, <2>1, <2>2, <2>3 DEF Locking, OnWay
<1>2. ASSUME NEW s \in Senders, SendFlush(s) PROVE Locking'
  <2>1. Flush /\ lock' = lock /\ Step(s, "written", IF c = w THEN "ok" ELSE "asleep")
    BY <1>2 DEF SendFlush
  <2>2. /\ snd[s] = "written" /\ snd'[s] = (IF c = w THEN "ok" ELSE "asleep")
        /\ \A t \in Senders \ {s} : snd'[t] = snd[t]
    BY <1>0, <2>1, StepFacts
  <2>3. f' = f /\ back' = back /\ w # f /\ wpc = "idle" /\ lock = s
    BY <1>0, <2>1, <2>2 DEF Flush, queueVars, Locking
  <2>4. \A t \in Senders : OnWay(t)' <=> OnWay(t)
    BY <2>2 DEF OnWay
  <2>5. CASE c = w
    <3>1. w' = f /\ wpc' = "idle" /\ snd'[s] = "ok"
      BY <2>1, <2>2, <2>5 DEF Flush
    <3> QED
      BY <1>0, <2>1, <2>2, <2>3, <2>4, <3>1 DEF Locking
  <2>6. CASE c # w
    <3>1. w' = w /\ wpc' = "woken" /\ snd'[s] = "asleep"
      BY <2>1, <2>2, <2>6 DEF Flush
    <3> QED
      BY <1>0, <2>1, <2>2, <2>3, <2>4, <3>1 DEF Locking
  <2> QED
    BY <2>5, <2>6
<1>3. ASSUME NEW s \in Senders, SendWakes(s) PROVE Locking'
  <2>1. FlushAsleep /\ lock' = lock /\ Step(s, "asleep", "not ok")
    BY <1>3 DEF SendWakes
  <2>2. snd[s] = "asleep" /\ snd'[s] = "not ok" /\ \A t \in Senders \ {s} : snd'[t] = snd[t]
    BY <1>0, <2>1, StepFacts
  <2>3. f' = f /\ back' = back /\ w' = f /\ wpc' = "idle" /\ lock = s
    BY <1>0, <2>1, <2>2 DEF FlushAsleep, queueVars, Locking
  <2>4. c = Null
    BY <2>1 DEF FlushAsleep, MBInv, YPInv, Pointers
  <2>5. ~SomeOnWay
    BY <2>4 DEF MBInv, Waking
  <2>6. \A t \in Senders : OnWay(t)' => t = s
    BY <2>2, <2>5 DEF SomeOnWay, OnWay
  <2>7. \A t \in Senders \ {s} : snd[t] \notin {"written", "asleep", "ok", "not ok"}
    BY <1>0, <2>3 DEF Locking
  <2> QED
    BY <1>0, <2>1, <2>2, <2>3, <2>6, <2>7 DEF Locking
<1>4. ASSUME NEW s \in Senders, Unlock(s) PROVE Locking'
  <2>1. lock' = Null /\ UNCHANGED ypVars /\ (Step(s, "ok", "idle") \/ Step(s, "not ok", "signal"))
    BY <1>4 DEF Unlock, UnlockTo
  <2>2. /\ (snd[s] = "ok" /\ snd'[s] = "idle") \/ (snd[s] = "not ok" /\ snd'[s] = "signal")
        /\ \A t \in Senders \ {s} : snd'[t] = snd[t]
    BY <1>0, <2>1, StepFacts
  <2>3. UNCHANGED <<f, back, w, wpc>>
    BY <2>1 DEF ypVars
  <2>4. lock = s /\ w = f /\ wpc # "woken"
    BY <1>0, <2>2 DEF Locking
  <2>5. \A t \in Senders : OnWay(t)' <=> OnWay(t)
    BY <2>2 DEF OnWay
  <2> QED
    BY <1>0, <2>1, <2>2, <2>3, <2>4, <2>5 DEF Locking
<1>5. ASSUME NEW s \in Senders, Signal(s) PROVE Locking'
  <2>1. lock' = lock /\ UNCHANGED ypVars /\ Step(s, "signal", "idle")
    BY <1>5 DEF Signal
  <2>2. snd[s] = "signal" /\ snd'[s] = "idle" /\ \A t \in Senders \ {s} : snd'[t] = snd[t]
    BY <1>0, <2>1, StepFacts
  <2>3. UNCHANGED <<f, back, w, wpc>>
    BY <2>1 DEF ypVars
  <2>4. \A t \in Senders : OnWay(t)' => OnWay(t)
    BY <2>2 DEF OnWay
  <2>5. lock # s
    BY <1>0, <2>2 DEF Locking
  <2> QED
    BY <1>0, <2>1, <2>2, <2>3, <2>4, <2>5 DEF Locking, MBTypeOK
<1>6. ASSUME OwnerStep \/ UNCHANGED vars PROVE Locking'
  <2>1. UNCHANGED <<lock, snd, f, back, w, wpc>>
    BY <1>6 DEF OwnerStep, RecvCall, RecvCheck, RecvPop, Drain, PutBack, Woken, TimedOut, SendersSame,
                CheckRead, Read, ypVars, queueVars, vars, mbVars
  <2> QED
    BY <1>0, <2>1 DEF Locking, OnWay
<1> QED
  BY <1>1, <1>2, <1>3, <1>4, <1>5, <1>6 DEF MBNext, SenderStep

-----------------------------------------------------------------------------
\* The signals

LEMMA WakingStep ==
  ASSUME MBInv, [MBNext]_vars
  PROVE  Waking'
<1>0. MBTypeOK /\ Locking /\ Waking
  BY DEF MBInv
<1>1. ASSUME NEW s \in Senders, SendWrite(s) PROVE Waking'
  <2>1. UNCHANGED <<beginPos, c, rpc>> /\ Pos(w)' = Pos(w)
    BY <1>1, SendWritePipe
  <2>2. Step(s, "idle", "written") /\ UNCHANGED <<signals, active, mpc>>
    BY <1>1 DEF SendWrite, ReaderSame
  <2>3. SomeOnWay' <=> SomeOnWay
    <3>1. snd[s] = "idle" /\ snd'[s] = "written" /\ \A t \in Senders \ {s} : snd'[t] = snd[t]
      BY <1>0, <2>2, StepFacts
    <3> QED
      BY <3>1 DEF SomeOnWay, OnWay
  <2> QED
    BY <1>0, <2>1, <2>2, <2>3 DEF Waking
<1>2. ASSUME NEW s \in Senders, SendFlush(s) PROVE Waking'
  <2>1. Flush /\ UNCHANGED <<signals, active, mpc>> /\ Step(s, "written", IF c = w THEN "ok" ELSE "asleep")
    BY <1>2 DEF SendFlush, ReaderSame
  <2>2. SomeOnWay' <=> SomeOnWay
    <3>1. snd[s] = "written" /\ snd'[s] \in {"ok", "asleep"} /\ \A t \in Senders \ {s} : snd'[t] = snd[t]
      BY <1>0, <2>1, StepFacts
    <3> QED
      BY <3>1 DEF SomeOnWay, OnWay
  <2>3. UNCHANGED <<queueVars, r, f, rpc>>
    BY <2>1 DEF Flush
  <2>4. UNCHANGED <<beginPos, rpc>> /\ (w' = w => Pos(w)' = Pos(w)) /\ (w' = f => Pos(w)' = Pos(back))
    BY <2>3, SendFlushPipe
  <2>5. c' = Null <=> c = Null
    BY <2>1, PipeFacts DEF Flush
  <2>6. Pos(w) > beginPos => Pos(w)' > beginPos
    BY <2>1, <2>4, PipeFacts DEF Flush
  <2> QED
    BY <1>0, <2>1, <2>2, <2>4, <2>5, <2>6 DEF Waking
<1>3. ASSUME NEW s \in Senders, SendWakes(s) PROVE Waking'
  <2>1. FlushAsleep /\ UNCHANGED <<signals, active, mpc>> /\ Step(s, "asleep", "not ok")
    BY <1>3 DEF SendWakes, ReaderSame
  <2>2. c = Null /\ w # f
    BY <2>1 DEF FlushAsleep, MBInv, YPInv, Pointers
  <2>3. SomeOnWay'
    BY <1>0, <2>1, StepFacts DEF SomeOnWay, OnWay
  <2>4. UNCHANGED <<beginPos, rpc>> /\ Pos(w)' = Pos(back)
    BY <2>1, SendFlushPipe DEF FlushAsleep
  <2>5. c' # Null /\ Pos(w)' > beginPos
    <3>1. c' # Null
      BY <2>1, PipeFacts DEF FlushAsleep
    <3> QED
      BY <2>2, <2>4, <3>1, PipeFacts
  <2> QED
    BY <1>0, <2>1, <2>2, <2>3, <2>4, <2>5 DEF Waking
<1>4. ASSUME NEW s \in Senders, Unlock(s) PROVE Waking'
  <2>1. UNCHANGED ypVars /\ UNCHANGED <<signals, active, mpc>>
    BY <1>4 DEF Unlock, UnlockTo, ReaderSame
  <2>2. Step(s, "ok", "idle") \/ Step(s, "not ok", "signal")
    BY <1>4 DEF Unlock, UnlockTo
  <2>3. \A t \in Senders : OnWay(t)' <=> OnWay(t)
    BY <1>0, <2>2, StepFacts DEF OnWay
  <2> QED
    BY <1>0, <2>1, <2>3, PipeSame DEF Waking, SomeOnWay
<1>5. ASSUME NEW s \in Senders, Signal(s) PROVE Waking'
  <2>1. UNCHANGED ypVars /\ UNCHANGED <<active, mpc>> /\ signals' = signals + 1 /\ Step(s, "signal", "idle")
    BY <1>5 DEF Signal
  <2>2. snd[s] = "signal" /\ snd'[s] = "idle" /\ \A t \in Senders \ {s} : snd'[t] = snd[t]
    BY <1>0, <2>1, StepFacts
  <2>3. SomeOnWay /\ \A t \in Senders \ {s} : ~OnWay(t)
    BY <1>0, <2>2 DEF Locking, SomeOnWay, OnWay
  <2>4. ~SomeOnWay'
    BY <2>2, <2>3 DEF SomeOnWay, OnWay
  <2>5. ~active /\ c # Null /\ mpc # "put back" /\ signals = (IF mpc = "drain" THEN 1 ELSE 0)
    BY <1>0, <2>3 DEF Waking
  <2>6. signals' = (IF mpc = "drain" THEN 2 ELSE 1)
    <3>1. signals' = signals + 1
      BY <2>1
    <3>2. CASE mpc = "drain"
      <4>1. signals = 1
        BY <2>5, <3>2
      <4>2. signals' = 2
        BY <3>1, <4>1
      <4> QED
        BY <3>2, <4>2
    <3>3. CASE mpc # "drain"
      <4>1. signals = 0
        BY <2>5, <3>3
      <4>2. signals' = 1
        BY <3>1, <4>1
      <4> QED
        BY <3>3, <4>2
    <3> QED
      BY <3>2, <3>3
  <2> QED
    BY <1>0, <2>1, <2>4, <2>5, <2>6, PipeSame DEF Waking
<1>6. ASSUME RecvCall \/ Drain \/ PutBack \/ Woken \/ TimedOut PROVE Waking'
  <2>1. UNCHANGED ypVars /\ SendersSame
    BY <1>6 DEF RecvCall, Drain, PutBack, Woken, TimedOut
  <2>2. UNCHANGED <<c, rpc, beginPos>> /\ Pos(w)' = Pos(w) /\ (SomeOnWay' <=> SomeOnWay)
    BY <2>1, PipeSame DEF SendersSame, SomeOnWay, OnWay
  <2>3. CASE RecvCall
    BY <1>0, <2>2, <2>3 DEF Waking, RecvCall
  <2>4. CASE Drain
    <3>1. mpc = "drain" /\ signals' = 0 /\ active' = active
      BY <2>4 DEF Drain
    <3>2. /\ ~active /\ signals \in {1, 2} /\ (signals = 2 => ~SomeOnWay /\ c # Null)
          /\ (signals = 1 => SomeOnWay \/ c = Null)
      BY <1>0, <3>1 DEF Waking
    <3>3. mpc' = IF signals = 1 THEN "wait" ELSE "put back"
      BY <2>4, <3>2 DEF Drain
    <3> QED
      BY <1>0, <2>2, <3>1, <3>2, <3>3 DEF Waking
  <2>5. CASE PutBack
    <3>1. mpc = "put back" /\ mpc' = "wait" /\ active' = active
      BY <2>5 DEF PutBack
    <3>2. c # Null /\ ~active /\ ~SomeOnWay /\ signals = 0
      BY <1>0, <3>1 DEF Waking
    <3>3. signals' = 1
      <4>1. signals = 0 /\ signals' = signals + 1
        BY <2>5, <3>2 DEF PutBack
      <4> QED
        BY <4>1
    <3> QED
      BY <1>0, <2>2, <3>1, <3>2, <3>3 DEF Waking
  <2>6. CASE Woken
    <3>1. mpc = "wait" /\ mpc' = "reread" /\ active' /\ signals' = signals /\ signals # 0
      BY <2>6 DEF Woken
    <3>2. c # Null /\ ~active /\ ~SomeOnWay /\ signals = 1 /\ Pos(w) > beginPos
      BY <1>0, <3>1 DEF Waking
    <3> QED
      BY <1>0, <2>2, <3>1, <3>2 DEF Waking
  <2>7. CASE TimedOut
    BY <1>0, <2>2, <2>7 DEF Waking, TimedOut
  <2> QED
    BY <1>6, <2>3, <2>4, <2>5, <2>6, <2>7
<1>7. ASSUME RecvCheck PROVE Waking'
  <2>1. CheckRead /\ SendersSame /\ signals' = signals /\ mpc \in {"read", "reread"}
    BY <1>7 DEF RecvCheck
  <2>2. SomeOnWay' <=> SomeOnWay
    BY <2>1 DEF SendersSame, SomeOnWay, OnWay
  <2>3. active /\ c # Null /\ signals = 1 /\ ~SomeOnWay
    BY <1>0, <2>1 DEF Waking
  <2>4. rpc' = "avail" => c' = c
    BY <2>1 DEF CheckRead
  <2>5. rpc' # "avail" => c = FrontSlot /\ c' = Null
    BY <2>1, <2>3 DEF CheckRead
  <2>6. c = FrontSlot => ~(Pos(w) > beginPos)
    BY <2>3, PipeFacts, QueueFacts DEF MBInv, YPInv
  <2>7. CASE rpc' = "avail"
    <3>1. mpc' = "pop" /\ active'
      BY <1>7, <2>7 DEF RecvCheck
    <3> QED
      BY <2>1, <2>2, <2>3, <2>4, <2>7, <3>1 DEF Waking
  <2>8. CASE rpc' # "avail"
    <3>1. mpc = "read"
      BY <1>0, <2>1, <2>5, <2>6, <2>8 DEF Waking
    <3>2. mpc' = "drain" /\ ~active'
      BY <1>7, <2>8, <3>1 DEF RecvCheck
    <3> QED
      BY <2>1, <2>2, <2>3, <2>5, <2>8, <3>2 DEF Waking
  <2> QED
    BY <2>7, <2>8
<1>8. ASSUME RecvPop PROVE Waking'
  <2>1. SendersSame /\ UNCHANGED <<signals, active>> /\ mpc = "pop" /\ mpc' = "idle"
    BY <1>8 DEF RecvPop
  <2>2. SomeOnWay' <=> SomeOnWay
    BY <2>1 DEF SendersSame, SomeOnWay, OnWay
  <2>3. c' = c /\ rpc' = "idle"
    BY <1>8, RecvPopPipe
  <2> QED
    BY <1>0, <2>1, <2>2, <2>3 DEF Waking
<1>9. ASSUME UNCHANGED vars PROVE Waking'
  <2>1. UNCHANGED <<c, rpc, beginPos, snd, signals, active, mpc>> /\ Pos(w)' = Pos(w)
    BY <1>9, PipeSame DEF vars, mbVars
  <2>2. SomeOnWay' <=> SomeOnWay
    BY <2>1 DEF SomeOnWay, OnWay
  <2> QED
    BY <1>0, <2>1, <2>2 DEF Waking
<1> QED
  BY <1>1, <1>2, <1>3, <1>4, <1>5, <1>6, <1>7, <1>8, <1>9 DEF MBNext, OwnerStep, SenderStep

-----------------------------------------------------------------------------
\* The commands in the pipe

\* A step that leaves the pipe's items and the numbers of sent and received
\* commands alone.
LEMMA OrderedKept ==
  ASSUME MBInv, UNCHANGED <<beginPos, sent, got>>, Pos(back)' = Pos(back), \A p : At(p)' = At(p),
         \A s \in Senders : snd'[s] \in {"written", "asleep"} => snd[s] \in {"written", "asleep"},
         \A s \in Senders : OnWay(s)' => \/ OnWay(s) /\ Pos(w)' >= Pos(w)
                                         \/ snd[s] \in {"written", "asleep"} /\ Pos(w)' = Pos(back),
         Pos(w)' \in Nat
  PROVE  Ordered'
<1>1. Ordered
  BY DEF MBInv
<1>2. /\ beginPos \in Nat /\ Pos(back) \in Nat /\ Pos(w) \in Nat /\ beginPos <= Pos(w)
      /\ \A s \in Senders : snd[s] \in {"written", "asleep"} => Pos(w) < Pos(back)
  <2>1. \A s \in Senders : snd[s] \in {"written", "asleep"} => w # f
    BY MailboxAssumption DEF MBInv, Locking
  <2> QED
    BY <2>1, PipeFacts
<1>3. ASSUME NEW p \in (beginPos..Pos(back) - 1)'
      PROVE  (At(p).v \in Commands /\ got[At(p).v[1]] < At(p).v[2] /\ At(p).v[2] <= sent[At(p).v[1]])'
  BY <1>1 DEF Ordered
<1>4. ASSUME NEW p \in (beginPos..Pos(back) - 1)', NEW q \in (beginPos..Pos(back) - 1)',
             p < q, (At(p).v[1] = At(q).v[1])'
      PROVE  (At(p).v[2] < At(q).v[2])'
  BY <1>1, <1>4 DEF Ordered
<1>5. ASSUME NEW s \in Senders, snd'[s] \in {"written", "asleep"}
      PROVE  (At(Pos(back) - 1).v = <<s, sent[s]>>)'
  BY <1>1, <1>5 DEF Ordered, At
<1>6. ASSUME NEW s \in Senders, OnWay(s)'
      PROVE  \E p \in (beginPos..Pos(w) - 1)' : (At(p).v = <<s, sent[s]>>)'
  <2>1. CASE OnWay(s) /\ Pos(w)' >= Pos(w)
    <3>1. PICK p \in beginPos..Pos(w) - 1 : At(p).v = <<s, sent[s]>>
      BY <1>1, <2>1 DEF Ordered
    <3>2. p \in (beginPos..Pos(w) - 1)'
      BY <1>2, <2>1
    <3> QED
      BY <3>1, <3>2
  <2>2. CASE snd[s] \in {"written", "asleep"} /\ Pos(w)' = Pos(back)
    <3> DEFINE p == Pos(back) - 1
    <3>1. At(p).v = <<s, sent[s]>>
      BY <1>1, <2>2 DEF Ordered
    <3>2. p \in (beginPos..Pos(w) - 1)'
      BY <1>2, <2>2
    <3>3. val'[SlotIn(chunks', p)] = At(p)
      BY DEF At
    <3> HIDE DEF p
    <3> QED
      BY <3>1, <3>2, <3>3 DEF At
  <2> QED
    BY <1>6, <2>1, <2>2
<1>7. (\A s \in Senders : got[s] <= sent[s])'
  BY <1>1 DEF Ordered
<1> QED
  BY <1>3, <1>4, <1>5, <1>6, <1>7 DEF Ordered

\* A command that is sent is the last of its sender.
LEMMA OrderedWrite ==
  ASSUME MBInv, NEW s \in Senders, SendWrite(s)
  PROVE  Ordered'
<1> DEFINE b == Pos(back)
           a == beginPos
           k == sent[s] + 1
           V(p) == val'[SlotIn(chunks', p)].v
<1>1. /\ MBTypeOK /\ Locking /\ Ordered
      /\ a \in Nat /\ b \in Nat /\ Pos(w) \in Nat /\ a <= Pos(w) /\ Pos(w) <= b
  BY PipeFacts DEF MBInv
<1>2. /\ beginPos' = a /\ Pos(w)' = Pos(w) /\ Pos(back)' = b + 1 /\ k \in 1..MaxSends
      /\ \A p \in a..b - 1 : V(p) = At(p).v
      /\ V(b) = <<s, k>>
  <2>1. \A p \in beginPos..Pos(back) - 1 : At(p)' = At(p)
    BY SendWritePipe
  <2>2. \A p \in a..b - 1 : V(p) = At(p).v
    BY <2>1 DEF At
  <2> QED
    BY <2>2, SendWritePipe
<1>3. /\ lock = Null /\ got' = got /\ \A t \in Senders \ {s} : snd'[t] = snd[t] /\ sent'[t] = sent[t]
      /\ sent'[s] = k /\ snd'[s] = "written"
  BY <1>1 DEF SendWrite, ReaderSame, Step, MBTypeOK
<1>4. /\ \A t \in Senders : got[t] \in Nat /\ sent[t] \in Nat /\ sent'[t] \in Nat
      /\ \A t \in Senders : got[t] <= sent'[t] /\ sent[t] <= sent'[t]
      /\ got[s] < k /\ sent[s] < k
  <2>1. sent[s] < k /\ got[s] < k /\ \A t \in Senders : got[t] \in Nat /\ sent[t] \in Nat /\ got[t] <= sent[t]
    BY <1>1 DEF MBTypeOK, Ordered
  <2> QED
    BY <1>2, <1>3, <2>1
<1>5. /\ \A p \in a..b - 1 : V(p) \in Commands /\ got[V(p)[1]] < V(p)[2] /\ V(p)[2] <= sent[V(p)[1]]
      /\ \A p, q \in a..b - 1 : p < q /\ V(p)[1] = V(q)[1] => V(p)[2] < V(q)[2]
  BY <1>1, <1>2 DEF Ordered
<1>6. V(b) \in Commands /\ V(b)[1] = s /\ V(b)[2] = k
  BY <1>2 DEF Commands
<1>7. \A p \in a..b - 1 : V(p) \in Commands /\ V(p)[1] \in Senders /\ V(p)[2] \in Nat
  BY <1>5, MailboxAssumption DEF Commands
<1> HIDE DEF k, b, a, V
<1>8. \A p \in (beginPos..Pos(back) - 1)' : p = b \/ p \in a..b - 1
  BY <1>1, <1>2
<1>9. ASSUME NEW p \in (beginPos..Pos(back) - 1)'
      PROVE  V(p) \in Commands /\ got'[V(p)[1]] < V(p)[2] /\ V(p)[2] <= sent'[V(p)[1]]
  <2>1. CASE p = b
    <3>1. got'[s] < k /\ k <= sent'[s]
      BY <1>3, <1>4
    <3> QED
      BY <1>6, <2>1, <3>1
  <2>2. CASE p \in a..b - 1
    <3>1. V(p) \in Commands /\ V(p)[1] \in Senders /\ V(p)[2] \in Nat
      BY <1>7, <2>2
    <3>2. got[V(p)[1]] < V(p)[2] /\ V(p)[2] <= sent[V(p)[1]]
      BY <1>5, <2>2
    <3>3. sent[V(p)[1]] <= sent'[V(p)[1]] /\ sent[V(p)[1]] \in Nat /\ sent'[V(p)[1]] \in Nat
      BY <1>4, <3>1
    <3>4. V(p)[2] <= sent'[V(p)[1]]
      BY <3>1, <3>2, <3>3
    <3> QED
      BY <1>3, <3>1, <3>2, <3>4
  <2> QED
    BY <1>8, <2>1, <2>2
<1>10. ASSUME NEW p \in (beginPos..Pos(back) - 1)', NEW q \in (beginPos..Pos(back) - 1)',
              p < q, V(p)[1] = V(q)[1]
       PROVE  V(p)[2] < V(q)[2]
  <2>1. p \in a..b - 1
    BY <1>1, <1>2, <1>8, <1>10
  <2>2. CASE q = b
    <3>1. V(p)[2] <= sent[s] /\ V(p)[2] \in Nat
      BY <1>5, <1>6, <1>7, <1>10, <2>1, <2>2
    <3> QED
      BY <1>4, <1>6, <2>2, <3>1 DEF k
  <2>3. CASE q \in a..b - 1
    BY <1>5, <1>10, <2>1, <2>3
  <2> QED
    BY <1>8, <2>2, <2>3
<1>11. ASSUME NEW t \in Senders, snd'[t] \in {"written", "asleep"}
       PROVE  V(Pos(back)' - 1) = <<t, sent'[t]>>
  <2>1. t = s
    BY <1>1, <1>3, <1>11, MailboxAssumption DEF Locking
  <2>2. Pos(back)' - 1 = b
    BY <1>1, <1>2
  <2> QED
    BY <1>2, <1>3, <2>1, <2>2
<1>12. ASSUME NEW t \in Senders, OnWay(t)'
       PROVE  \E p \in (beginPos..Pos(w) - 1)' : V(p) = <<t, sent'[t]>>
  <2>1. t # s /\ OnWay(t) /\ sent'[t] = sent[t]
    BY <1>3, <1>12 DEF OnWay
  <2>2. PICK p \in beginPos..Pos(w) - 1 : At(p).v = <<t, sent[t]>>
    BY <1>1, <2>1 DEF Ordered
  <2>3. p \in a..b - 1 /\ p \in (beginPos..Pos(w) - 1)'
    BY <1>1, <1>2 DEF a
  <2> QED
    BY <1>2, <2>1, <2>2, <2>3
<1> QED
  BY <1>3, <1>4, <1>9, <1>10, <1>11, <1>12 DEF Ordered, At, V

\* A command that is received is the first of its sender in the pipe.
LEMMA OrderedPop ==
  ASSUME MBInv, RecvPop
  PROVE  Ordered'
<1> DEFINE b == Pos(back)
           a == beginPos
           x == At(beginPos).v
           V(p) == val'[SlotIn(chunks', p)].v
<1>1. /\ MBTypeOK /\ Locking /\ Waking /\ Ordered
      /\ a \in Nat /\ b \in Nat /\ Pos(w) \in Nat /\ a <= Pos(w) /\ Pos(w) <= b
      /\ Pos(w) = b <=> w = f
  BY PipeFacts DEF MBInv
<1>2. Pos(w) > a /\ UNCHANGED <<lock, snd, sent>> /\ got' = [got EXCEPT ![x[1]] = x[2]]
  BY RecvPopPipe DEF RecvPop, SendersSame
<1>3. PICK d \in Nat :
        /\ beginPos' + d = a + 1 /\ beginPos' \in Nat
        /\ Pos(w)' + d = Pos(w) /\ Pos(back)' + d = b
        /\ Pos(w)' \in Nat /\ Pos(back)' \in Nat
        /\ \A p \in beginPos'..Pos(back)' - 1 : V(p) = At(p + d).v
  <2>1. PICK d \in {0, N} :
        /\ beginPos' + d = beginPos + 1 /\ beginPos' \in Nat /\ d \in Nat
        /\ Pos(w)' + d = Pos(w) /\ Pos(back)' + d = Pos(back)
        /\ Pos(w)' \in Nat /\ Pos(back)' \in Nat
        /\ \A p \in beginPos'..Pos(back)' - 1 : At(p)' = At(p + d)
    BY RecvPopPipe
  <2>2. \A p \in beginPos'..Pos(back)' - 1 : V(p) = At(p + d).v
    BY <2>1 DEF At
  <2> HIDE DEF V
  <2> QED
    BY <2>1, <2>2
<1>4. /\ \A p \in (beginPos..Pos(back) - 1)' : p + d \in a..b - 1 /\ p + d > a
      /\ b > a + 1 => Pos(back)' - 1 \in (beginPos..Pos(back) - 1)' /\ (Pos(back)' - 1) + d = b - 1
  <2> DEFINE a1 == beginPos'
             b1 == Pos(back)'
  <2>1. a1 + d = a + 1 /\ a1 \in Nat /\ b1 + d = b /\ b1 \in Nat /\ a \in Nat /\ b \in Nat
    BY <1>1, <1>3
  <2> HIDE DEF a1, b1, a, b
  <2>2. /\ \A p \in a1..b1 - 1 : p + d \in a..b - 1 /\ p + d > a
        /\ b > a + 1 => b1 - 1 \in a1..b1 - 1 /\ (b1 - 1) + d = b - 1
    BY <2>1
  <2> QED
    BY <2>2 DEF a1, b1
<1>5. a \in a..b - 1
  BY <1>1, <1>2
<1>6. x \in Commands /\ x[1] \in Senders /\ x[2] \in Nat /\ x[2] <= sent[x[1]]
  BY <1>1, <1>5, MailboxAssumption DEF Ordered, Commands
<1>7. \A t \in Senders : got'[t] = IF t = x[1] THEN x[2] ELSE got[t]
  BY <1>1, <1>2, <1>6 DEF MBTypeOK
<1>8. \A t \in Senders : got'[t] <= sent'[t]
  BY <1>1, <1>2, <1>6, <1>7 DEF Ordered
<1> HIDE DEF V
<1>9. ASSUME NEW p \in (beginPos..Pos(back) - 1)'
      PROVE  V(p) \in Commands /\ got'[V(p)[1]] < V(p)[2] /\ V(p)[2] <= sent'[V(p)[1]]
  <2>1. V(p) = At(p + d).v /\ p + d \in a..b - 1 /\ p + d > a
    BY <1>3, <1>4
  <2>2. V(p) \in Commands /\ got[V(p)[1]] < V(p)[2] /\ V(p)[2] <= sent[V(p)[1]]
    BY <1>1, <2>1 DEF Ordered
  <2>3. V(p)[1] = x[1] => x[2] < V(p)[2]
    BY <1>1, <1>5, <2>1 DEF Ordered
  <2>4. V(p)[1] \in Senders
    BY <2>2 DEF Commands
  <2> QED
    BY <1>2, <1>7, <2>2, <2>3, <2>4
<1>10. ASSUME NEW p \in (beginPos..Pos(back) - 1)', NEW q \in (beginPos..Pos(back) - 1)',
              p < q, V(p)[1] = V(q)[1]
       PROVE  V(p)[2] < V(q)[2]
  <2>1. p + d \in a..b - 1 /\ q + d \in a..b - 1 /\ p + d < q + d
    BY <1>3, <1>4, <1>10
  <2>2. V(p) = At(p + d).v /\ V(q) = At(q + d).v
    BY <1>3
  <2> QED
    BY <1>1, <1>10, <2>1, <2>2 DEF Ordered
<1>11. ASSUME NEW t \in Senders, snd'[t] \in {"written", "asleep"}
       PROVE  V(Pos(back)' - 1) = <<t, sent'[t]>>
  <2>1. snd[t] \in {"written", "asleep"} /\ w # f
    BY <1>1, <1>2, <1>11, MailboxAssumption DEF Locking
  <2>2. Pos(back)' - 1 \in beginPos'..Pos(back)' - 1 /\ (Pos(back)' - 1) + d = b - 1
    <3>1. b > a + 1
      BY <1>1, <1>2, <2>1
    <3> QED
      BY <1>4, <3>1
  <2>3. At(b - 1).v = <<t, sent[t]>>
    BY <1>1, <2>1 DEF Ordered
  <2> QED
    BY <1>2, <1>3, <2>2, <2>3
<1>12. \A t \in Senders : ~OnWay(t)'
  <2>1. ~SomeOnWay
    BY <1>1 DEF Waking, RecvPop
  <2> QED
    BY <1>2, <2>1 DEF SomeOnWay, OnWay
<1> QED
  BY <1>8, <1>9, <1>10, <1>11, <1>12 DEF Ordered, At, V

LEMMA OrderedStep ==
  ASSUME MBInv, [MBNext]_vars
  PROVE  Ordered'
<1>0. MBTypeOK /\ Pos(w) \in Nat /\ Pos(back) \in Nat /\ Pos(w) <= Pos(back)
  BY PipeFacts DEF MBInv
<1>1. ASSUME NEW s \in Senders, SendFlush(s) PROVE Ordered'
  <2>1. Flush /\ UNCHANGED <<sent, got>> /\ Step(s, "written", IF c = w THEN "ok" ELSE "asleep")
    BY <1>1 DEF SendFlush, ReaderSame
  <2>2. snd[s] = "written" /\ snd'[s] \in {"ok", "asleep"} /\ \A t \in Senders \ {s} : snd'[t] = snd[t]
    BY <1>0, <2>1, StepFacts
  <2>3. /\ beginPos' = beginPos /\ Pos(back)' = Pos(back) /\ (\A p : At(p)' = At(p))
        /\ (w' = w => Pos(w)' = Pos(w)) /\ (w' = f => Pos(w)' = Pos(back))
    BY <2>1, SendFlushPipe DEF Flush
  <2>4. Pos(w)' \in Nat /\ Pos(w)' >= Pos(w)
    BY <1>0, <2>1, <2>3 DEF Flush
  <2>5. \A t \in Senders : OnWay(t)' => OnWay(t)
    BY <2>2 DEF OnWay
  <2>6. \A t \in Senders : snd'[t] \in {"written", "asleep"} => snd[t] \in {"written", "asleep"}
    BY <2>2
  <2> QED
    BY <2>1, <2>3, <2>4, <2>5, <2>6, OrderedKept
<1>2. ASSUME NEW s \in Senders, SendWakes(s) PROVE Ordered'
  <2>1. FlushAsleep /\ UNCHANGED <<sent, got>> /\ Step(s, "asleep", "not ok")
    BY <1>2 DEF SendWakes, ReaderSame
  <2>2. snd[s] = "asleep" /\ snd'[s] = "not ok" /\ \A t \in Senders \ {s} : snd'[t] = snd[t]
    BY <1>0, <2>1, StepFacts
  <2>3. /\ beginPos' = beginPos /\ Pos(back)' = Pos(back) /\ (\A p : At(p)' = At(p))
        /\ Pos(w)' = Pos(back)
    BY <2>1, SendFlushPipe DEF FlushAsleep
  <2>4. Pos(w)' \in Nat /\ Pos(w)' >= Pos(w)
    BY <1>0, <2>3
  <2>5. \A t \in Senders : OnWay(t)' => OnWay(t) \/ snd[t] \in {"written", "asleep"}
    BY <2>2 DEF OnWay
  <2>6. \A t \in Senders : snd'[t] \in {"written", "asleep"} => snd[t] \in {"written", "asleep"}
    BY <2>2
  <2> QED
    BY <2>1, <2>3, <2>4, <2>5, <2>6, OrderedKept
<1>3. ASSUME NEW s \in Senders, Unlock(s) \/ Signal(s) PROVE Ordered'
  <2>1. /\ UNCHANGED ypVars /\ UNCHANGED <<sent, got>>
        /\ Step(s, "ok", "idle") \/ Step(s, "not ok", "signal") \/ Step(s, "signal", "idle")
    BY <1>3 DEF Unlock, UnlockTo, Signal, ReaderSame
  <2>2. /\ \A t \in Senders : OnWay(t)' => OnWay(t)
        /\ \A t \in Senders : snd'[t] \in {"written", "asleep"} => snd[t] \in {"written", "asleep"}
    <3>1. /\ \A t \in Senders \ {s} : snd'[t] = snd[t]
          /\ \/ snd[s] = "ok" /\ snd'[s] = "idle"
             \/ snd[s] = "not ok" /\ snd'[s] = "signal"
             \/ snd[s] = "signal" /\ snd'[s] = "idle"
      BY <1>0, <2>1, StepFacts
    <3> QED
      BY <3>1 DEF OnWay
  <2>3. beginPos' = beginPos /\ Pos(back)' = Pos(back) /\ Pos(w)' = Pos(w) /\ \A p : At(p)' = At(p)
    BY <2>1, PipeSame
  <2>4. Pos(w)' \in Nat /\ Pos(w)' >= Pos(w)
    BY <1>0, <2>3
  <2> QED
    BY <2>1, <2>2, <2>3, <2>4, OrderedKept
<1>4. ASSUME RecvCall \/ RecvCheck \/ Drain \/ PutBack \/ Woken \/ TimedOut \/ UNCHANGED vars PROVE Ordered'
  <2>1. UNCHANGED <<chunks, val, beginPos, back, w>> /\ UNCHANGED <<sent, got, snd>>
    BY <1>4 DEF RecvCall, RecvCheck, Drain, PutBack, Woken, TimedOut, SendersSame, CheckRead, ypVars, queueVars,
                vars, mbVars
  <2>2. beginPos' = beginPos /\ Pos(back)' = Pos(back) /\ Pos(w)' = Pos(w) /\ \A p : At(p)' = At(p)
    BY <2>1 DEF Pos, At
  <2>3. Pos(w)' \in Nat /\ Pos(w)' >= Pos(w)
    BY <1>0, <2>2
  <2>4. /\ \A t \in Senders : OnWay(t)' => OnWay(t)
        /\ \A t \in Senders : snd'[t] \in {"written", "asleep"} => snd[t] \in {"written", "asleep"}
    BY <2>1 DEF OnWay
  <2> QED
    BY <2>1, <2>2, <2>3, <2>4, OrderedKept
<1> QED
  BY <1>1, <1>2, <1>3, <1>4, OrderedWrite, OrderedPop DEF MBNext, OwnerStep, SenderStep

-----------------------------------------------------------------------------
\* The invariant holds of every mailbox.

LEMMA MBInvInit ==
  ASSUME MBInit
  PROVE  MBInv
<1>1. YPInv
  BY YPInvInit DEF MBInit
<1>2. w = back /\ f = back /\ c = Null /\ wpc = "idle" /\ rpc = "idle" /\ back = FrontSlot
  BY DEF MBInit, PointersInit, QueueInit, FrontSlot
<1>3. Pos(back) = beginPos /\ beginPos \in Nat
  BY <1>1, <1>2, QueueFacts DEF YPInv
<1>4. /\ lock = Null /\ snd = [s \in Senders |-> "idle"] /\ sent = [s \in Senders |-> 0]
      /\ signals = 0 /\ active = FALSE /\ mpc = "idle" /\ got = [s \in Senders |-> 0]
  BY DEF MBInit
<1>5. MBTypeOK
  <2>1. 0 \in 0..MaxSends
    BY MailboxAssumption
  <2>2. signals \in 0..2 /\ active \in BOOLEAN /\ mpc \in OwnerPlaces
    <3>1. signals \in 0..2
      BY <1>4
    <3> QED
      BY <1>4, <3>1 DEF OwnerPlaces
  <2>3. snd \in [Senders -> Places] /\ lock \in Senders \cup {Null}
    BY <1>4 DEF Places
  <2>4. sent \in [Senders -> 0..MaxSends] /\ got \in [Senders -> 0..MaxSends]
    BY <1>4, <2>1
  <2> QED
    BY <2>2, <2>3, <2>4 DEF MBTypeOK
<1>6. Locking
  BY <1>2, <1>4, MailboxAssumption DEF Locking, OnWay
<1>7. Waking
  BY <1>2, <1>4 DEF Waking, SomeOnWay, OnWay
<1>8. Ordered
  BY <1>3, <1>4 DEF Ordered, OnWay
<1> QED
  BY <1>1, <1>5, <1>6, <1>7, <1>8 DEF MBInv

LEMMA MBInvStep ==
  ASSUME MBInv, [MBNext]_vars
  PROVE  MBInv'
<1>1. YPInv'
  BY PipeStep, YPInvNext, YPInvStutter DEF MBInv
<1> QED
  BY <1>1, TypeStep, LockingStep, WakingStep, OrderedStep DEF MBInv

\* The pipe, the mutex, the signals and the order of the commands of a mailbox.
THEOREM MailboxInvariance == Spec => []MBInv
BY MBInvInit, MBInvStep, PTL DEF Spec

\* For any number of senders no assertion of recv fails: after a signal there is
\* a command, and the eventfd is never at 0 or above 2 when it is read.
THEOREM MailboxNeverAborts == Spec => []NoAbort
<1>1. MBInv => NoAbort
  BY DEF MBInv, MBTypeOK, OwnerPlaces, NoAbort
<1> QED
  BY <1>1, MailboxInvariance, PTL

\* For any number of senders an owner that waits while a command is ready finds
\* a signal, or a sender is on its way to give it.
THEOREM MailboxWakesOwner == Spec => []NoLostWakeup
<1>1. MBInv => NoLostWakeup
  <2> SUFFICES ASSUME MBInv, mpc \in {"wait", "idle"}, ~active, Visible > beginPos
               PROVE  signals > 0 \/ SomeOnWay
    BY DEF NoLostWakeup, SomeOnWay, OnWay
  <2>1. c # Null
    BY PipeFacts DEF Visible
  <2>2. SomeOnWay \/ signals = 1
    BY <2>1 DEF MBInv, Waking
  <2> QED
    BY <2>2
<1> QED
  BY <1>1, MailboxInvariance, PTL

\* A sender that is yet to signal after its unlock has its command unread, so
\* the owner cannot have run the command that destroys the mailbox.
THEOREM MailboxOutlivesSend == Spec => []SignalerOutlivesSend
<1>1. MBInv => SignalerOutlivesSend
  <2> SUFFICES ASSUME MBInv, NEW s \in Senders, snd[s] = "signal"
               PROVE  got[s] < sent[s]
    BY DEF SignalerOutlivesSend
  <2>1. PICK p \in beginPos..Pos(w) - 1 : At(p).v = <<s, sent[s]>>
    BY DEF MBInv, Ordered, OnWay
  <2>2. p \in beginPos..Pos(back) - 1
    BY PipeFacts
  <2>3. got[At(p).v[1]] < At(p).v[2]
    BY <2>2 DEF MBInv, Ordered
  <2> QED
    BY <2>1, <2>3
<1> QED
  BY <1>1, MailboxInvariance, PTL

\* The pipe of a mailbox, written by many threads under the mutex, is the queue
\* of FlushQueue, and its pointers lead into live chunks.
THEOREM MailboxPipe == Spec => []PointersLive /\ ImplementsQueue
<1>1. MBInit => FQ!FInit
  BY QueueStart DEF MBInit
<1>2. MBInv /\ [MBNext]_vars => [FQ!FNext]_(FQ!fqVars)
  BY PipeStep, QueueStep DEF MBInv
<1>3. MBInv => PointersLive
  BY YPInvLive DEF MBInv
<1> QED
  BY <1>1, <1>2, <1>3, MailboxInvariance, PTL DEF Spec, ImplementsQueue, FQ!FSpec
===============================================================================

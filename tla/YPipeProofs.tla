----------------------------- MODULE YPipeProofs -----------------------------
(***************************************************************************)
(* Proofs about YPipe for every granularity, every set of values and every *)
(* set of addresses malloc may return.                                     *)
(***************************************************************************)
EXTENDS YPipe, SequenceTheorems, TLAPS

-----------------------------------------------------------------------------
\* Arithmetic: the distance of the slots of chunk i from the first slot.

Start(i) == (i - 1) * N

\* Chunks follow each other N slots apart.
LEMMA StartFacts ==
  /\ Start(1) = 0
  /\ \A i \in Nat \ {0} : Start(i) \in Nat /\ Start(i + 1) = Start(i) + N
  /\ \A i, j \in Nat \ {0} : i < j => Start(i) + N <= Start(j)
<1>1. Start(1) = 0
  BY YPipeAssumption DEF Start
<1>2. \A i \in Nat \ {0} : Start(i) \in Nat /\ Start(i + 1) = Start(i) + N
  BY YPipeAssumption DEF Start
<1>3. ASSUME NEW i \in Nat \ {0}, NEW j \in Nat \ {0}, i < j PROVE Start(i) + N <= Start(j)
  <2> DEFINE d == j - i
  <2>1. d \in Nat /\ d >= 1 /\ j - 1 = (i - 1) + d
    BY <1>3
  <2>2. (j - 1) * N = (i - 1) * N + d * N
    BY <2>1, YPipeAssumption
  <2>3. d * N >= N
    BY <2>1, YPipeAssumption
  <2> QED
    BY <2>1, <2>2, <2>3, YPipeAssumption DEF Start
<1> QED
  BY <1>1, <1>2, <1>3

\* A distance is a chunk and a position in it, in one way.
LEMMA DivMod ==
  ASSUME NEW i \in Nat \ {0}, NEW j \in 0..N - 1
  PROVE  (Start(i) + j) \div N = i - 1 /\ (Start(i) + j) % N = j
<1> DEFINE p == Start(i) + j
           q == p \div N
           m == p % N
<1>1. p \in Nat /\ N \in Nat \ {0}
  <2>1. Start(i) \in Nat
    BY StartFacts
  <2> QED
    BY <2>1, YPipeAssumption
<1>2. q \in Nat /\ m \in 0..N - 1 /\ p = N * q + m
  BY <1>1
<1>3. p = Start(q + 1) + m
  BY <1>2, <1>1 DEF Start
<1> HIDE DEF q, m
<1>4. q + 1 = i
  <2>1. CASE q + 1 < i
    <3>1. Start(q + 1) + N <= Start(i)
      BY <2>1, <1>2, StartFacts
    <3> QED
      BY <3>1, <1>1, <1>2, <1>3, StartFacts
  <2>2. CASE i < q + 1
    <3>1. Start(i) + N <= Start(q + 1)
      BY <2>2, <1>2, StartFacts
    <3> QED
      BY <3>1, <1>1, <1>2, <1>3, StartFacts
  <2> QED
    BY <2>1, <2>2, <1>2
<1>5. q = i - 1 /\ m = j
  <2>1. Start(i) \in Nat /\ Start(i) + j = Start(i) + m
    BY <1>3, <1>4, StartFacts
  <2> QED
    BY <2>1, <1>2, <1>4
<1> QED
  BY <1>5 DEF q, m

\* And every distance is one.
LEMMA DivModOf ==
  ASSUME NEW p \in Nat
  PROVE  /\ p \div N \in Nat /\ p % N \in 0..N - 1
         /\ p = Start((p \div N) + 1) + (p % N)
BY YPipeAssumption DEF Start

\* The place of a chunk on the list.
LEMMA IndexFacts ==
  ASSUME NEW cs \in Seq(Chunks), IsInjective(cs), NEW i \in 1..Len(cs)
  PROVE  SelectInSeq(cs, LAMBDA y : y = cs[i]) = i
<1> DEFINE I == {k \in 1..Len(cs) : cs[k] = cs[i]}
<1>1. I = {i}
  BY DEF IsInjective
<1>2. Min(I) = i
  BY <1>1 DEF Min
<1> QED
  BY <1>1, <1>2 DEF SelectInSeq

-----------------------------------------------------------------------------
\* Slots and their distances, on a list of chunks without repetition.

SlotsOf(cs) == ToSet(cs) \X (0..N - 1)
Size(cs) == Start(Len(cs) + 1)
List(cs) == cs \in Seq(Chunks) /\ cs # << >> /\ IsInjective(cs)

\* Position j of the i-th chunk.
LEMMA PosAt ==
  ASSUME NEW cs, List(cs), NEW i \in 1..Len(cs), NEW j \in 0..N - 1
  PROVE  /\ PosIn(cs, <<cs[i], j>>) = Start(i) + j
         /\ SlotIn(cs, Start(i) + j) = <<cs[i], j>>
         /\ Start(i) + j \in 0..Size(cs) - 1
         /\ <<cs[i], j>> \in SlotsOf(cs)
<1>1. i \in Nat \ {0} /\ Len(cs) \in Nat
  BY DEF List
<1>2. SelectInSeq(cs, LAMBDA y : y = cs[i]) = i
  BY IndexFacts DEF List
<1>3. PosIn(cs, <<cs[i], j>>) = Start(i) + j
  BY <1>2 DEF PosIn, Start
<1>4. SlotIn(cs, Start(i) + j) = <<cs[i], j>>
  BY <1>1, DivMod DEF SlotIn
<1>5. Start(i) + N <= Size(cs) /\ Start(i) \in Nat /\ Size(cs) \in Nat
  BY <1>1, StartFacts DEF Size
<1>6. <<cs[i], j>> \in SlotsOf(cs)
  BY DEF SlotsOf, ToSet, List
<1> QED
  BY <1>3, <1>4, <1>5, <1>6, YPipeAssumption

\* Every slot of the list has a distance,
LEMMA PosFacts ==
  ASSUME NEW cs, List(cs), NEW s \in SlotsOf(cs)
  PROVE  PosIn(cs, s) \in 0..Size(cs) - 1 /\ SlotIn(cs, PosIn(cs, s)) = s
<1>1. PICK i \in 1..Len(cs) : s[1] = cs[i]
  BY DEF SlotsOf, ToSet, List
<1>2. s[2] \in 0..N - 1 /\ s = <<cs[i], s[2]>>
  BY <1>1 DEF SlotsOf
<1> QED
  BY <1>1, <1>2, PosAt

\* and every distance within the list a slot.
LEMMA SlotFacts ==
  ASSUME NEW cs, List(cs), NEW p \in 0..Size(cs) - 1
  PROVE  SlotIn(cs, p) \in SlotsOf(cs) /\ PosIn(cs, SlotIn(cs, p)) = p
<1> DEFINE i == (p \div N) + 1
           j == p % N
<1>1. Len(cs) \in Nat /\ p \in Nat
  <2>1. Len(cs) \in Nat
    BY DEF List
  <2>2. Size(cs) \in Nat
    BY <2>1, StartFacts DEF Size
  <2> QED
    BY <2>1, <2>2
<1>2. i \in Nat \ {0} /\ j \in 0..N - 1 /\ p = Start(i) + j
  <2>1. p \div N \in Nat /\ p % N \in 0..N - 1 /\ p = Start((p \div N) + 1) + (p % N)
    BY <1>1, DivModOf
  <2> QED
    BY <2>1
<1>3. SlotIn(cs, p) = <<cs[i], j>>
  BY DEF SlotIn
<1> HIDE DEF i, j
<1>4. i <= Len(cs)
  <2> SUFFICES ASSUME Len(cs) < i PROVE FALSE
    BY <1>1, <1>2
  <2>1. Size(cs) <= Start(i)
    <3>1. CASE Len(cs) + 1 = i
      BY <3>1, <1>2, StartFacts DEF Size
    <3>2. CASE Len(cs) + 1 < i
      <4>1. Start(Len(cs) + 1) + N <= Start(i) /\ Start(Len(cs) + 1) \in Nat /\ Start(i) \in Nat
        BY <3>2, <1>1, <1>2, StartFacts
      <4> QED
        BY <4>1, YPipeAssumption DEF Size
    <3> QED
      BY <3>1, <3>2, <1>1, <1>2
  <2>2. Start(i) \in Nat /\ Size(cs) \in Nat
    BY <1>1, <1>2, StartFacts DEF Size
  <2> QED
    BY <2>1, <2>2, <1>2
<1> QED
  BY <1>1, <1>2, <1>3, <1>4, PosAt

\* A chunk that is linked behind the list leaves the distances on it alone.
LEMMA AppendPos ==
  ASSUME NEW cs, List(cs), NEW x \in Chunks, x \notin ToSet(cs), NEW ds \in Seq(Chunks), ds = Append(cs, x)
  PROVE  /\ List(ds) /\ ToSet(ds) = ToSet(cs) \cup {x} /\ Size(ds) = Size(cs) + N
         /\ \A s \in SlotsOf(cs) : s \in SlotsOf(ds) /\ PosIn(ds, s) = PosIn(cs, s)
         /\ <<x, 0>> \in SlotsOf(ds) /\ PosIn(ds, <<x, 0>>) = Size(cs)
<1>1. Len(cs) \in Nat /\ ds \in Seq(Chunks) /\ Len(ds) = Len(cs) + 1 /\ ds[Len(ds)] = x
      /\ \A i \in 1..Len(cs) : ds[i] = cs[i]
  BY DEF List
<1>2. ToSet(ds) = ToSet(cs) \cup {x}
  BY <1>1 DEF ToSet, List
<1>3. IsInjective(ds)
  BY <1>1 DEF IsInjective, ToSet, List
<1>4. List(ds)
  BY <1>1, <1>3 DEF List
<1>5. Size(ds) = Size(cs) + N
  BY <1>1, StartFacts DEF Size
<1>6. ASSUME NEW s \in SlotsOf(cs) PROVE s \in SlotsOf(ds) /\ PosIn(ds, s) = PosIn(cs, s)
  <2>1. PICK i \in 1..Len(cs) : s[1] = cs[i]
    BY DEF SlotsOf, ToSet, List
  <2>2. s[2] \in 0..N - 1 /\ s = <<cs[i], s[2]>> /\ s = <<ds[i], s[2]>> /\ i \in 1..Len(ds)
    BY <1>1, <2>1 DEF SlotsOf
  <2>3. PosIn(cs, <<cs[i], s[2]>>) = Start(i) + s[2]
    BY <2>2, PosAt
  <2>4. PosIn(ds, <<ds[i], s[2]>>) = Start(i) + s[2] /\ <<ds[i], s[2]>> \in SlotsOf(ds)
    BY <1>4, <2>2, PosAt
  <2> QED
    BY <2>2, <2>3, <2>4
<1>7. <<x, 0>> \in SlotsOf(ds) /\ PosIn(ds, <<x, 0>>) = Size(cs)
  <2>1. 0 \in 0..N - 1 /\ Len(ds) \in 1..Len(ds) /\ Start(Len(ds)) \in Nat
    BY <1>1, YPipeAssumption, StartFacts
  <2>2. PosIn(ds, <<ds[Len(ds)], 0>>) = Start(Len(ds)) + 0 /\ <<ds[Len(ds)], 0>> \in SlotsOf(ds)
    BY <2>1, <1>4, PosAt
  <2> QED
    BY <2>1, <2>2, <1>1 DEF Size
<1> QED
  BY <1>2, <1>4, <1>5, <1>6, <1>7

\* When the first chunk is used up every distance shrinks by a chunk.
LEMMA TailPos ==
  ASSUME NEW cs, List(cs), Len(cs) > 1, NEW ds \in Seq(Chunks), ds = Tail(cs)
  PROVE  /\ List(ds) /\ ToSet(ds) = ToSet(cs) \ {cs[1]} /\ Size(cs) = Size(ds) + N
         /\ \A s \in SlotsOf(cs) : PosIn(cs, s) >= N =>
                s \in SlotsOf(ds) /\ PosIn(ds, s) = PosIn(cs, s) - N
         /\ ds[1] = cs[2] /\ Last(ds) = Last(cs)
<1>1. Len(cs) \in Nat /\ ds \in Seq(Chunks) /\ Len(ds) = Len(cs) - 1 /\ Len(ds) \in Nat
      /\ \A i \in 1..Len(ds) : ds[i] = cs[i + 1]
  BY DEF List
<1>0. DOMAIN ds = 1..Len(ds) /\ Len(ds) >= 1 /\ ds # << >>
  BY <1>1, EmptySeq
<1>2. ToSet(ds) = ToSet(cs) \ {cs[1]}
  <2>1. ASSUME NEW x \in ToSet(ds) PROVE x \in ToSet(cs) \ {cs[1]}
    BY <1>1 DEF ToSet, List, IsInjective
  <2>2. ASSUME NEW x \in ToSet(cs), x # cs[1] PROVE x \in ToSet(ds)
    <3>1. PICK i \in 1..Len(cs) : x = cs[i]
      BY DEF ToSet, List
    <3>2. i - 1 \in 1..Len(ds) /\ ds[i - 1] = x
      BY <1>1, <2>2, <3>1
    <3> QED
      BY <1>0, <3>2 DEF ToSet
  <2> QED
    BY <2>1, <2>2
<1>3. IsInjective(ds)
  BY <1>1 DEF IsInjective, List
<1>4. List(ds)
  BY <1>0, <1>1, <1>3 DEF List
<1>5. Size(cs) = Size(ds) + N /\ Size(ds) \in Nat
  BY <1>1, StartFacts DEF Size
<1>6. ASSUME NEW s \in SlotsOf(cs), PosIn(cs, s) >= N
      PROVE  s \in SlotsOf(ds) /\ PosIn(ds, s) = PosIn(cs, s) - N
  <2>1. PICK i \in 1..Len(cs) : s[1] = cs[i]
    BY DEF SlotsOf, ToSet, List
  <2>2. s[2] \in 0..N - 1 /\ s = <<cs[i], s[2]>>
    BY <2>1 DEF SlotsOf
  <2>3. PosIn(cs, s) = Start(i) + s[2]
    <3>1. PosIn(cs, <<cs[i], s[2]>>) = Start(i) + s[2]
      BY <2>2, PosAt
    <3> QED
      BY <2>2, <3>1
  <2>4. i > 1
    <3> SUFFICES ASSUME i = 1 PROVE FALSE
      BY <1>1
    <3> QED
      BY <1>6, <2>2, <2>3, StartFacts, YPipeAssumption
  <2>5. i - 1 \in 1..Len(ds) /\ ds[i - 1] = cs[i]
    BY <1>1, <2>4
  <2>6. PosIn(ds, s) = Start(i - 1) + s[2] /\ s \in SlotsOf(ds)
    <3>1. PosIn(ds, <<ds[i - 1], s[2]>>) = Start(i - 1) + s[2] /\ <<ds[i - 1], s[2]>> \in SlotsOf(ds)
      BY <1>4, <2>2, <2>5, PosAt
    <3> QED
      BY <2>2, <2>5, <3>1
  <2>7. Start(i) = Start(i - 1) + N /\ Start(i - 1) \in Nat
    <3>1. i - 1 \in Nat \ {0} /\ (i - 1) + 1 = i
      BY <2>4
    <3> QED
      BY <3>1, StartFacts
  <2> QED
    BY <2>2, <2>3, <2>6, <2>7, YPipeAssumption
<1>7. ds[1] = cs[2] /\ Last(ds) = Last(cs)
  BY <1>1 DEF Last
<1> QED
  BY <1>2, <1>4, <1>5, <1>6, <1>7

\* A list without its last chunk.
LEMMA FrontList ==
  ASSUME NEW cs, List(cs), Len(cs) > 1, NEW ds \in Seq(Chunks), ds = SubSeq(cs, 1, Len(cs) - 1)
  PROVE  List(ds) /\ cs = Append(ds, Last(cs)) /\ Last(cs) \in Chunks /\ Last(cs) \notin ToSet(ds)
         /\ Last(ds) = cs[Len(cs) - 1]
<1>1. Len(cs) \in Nat /\ ds \in Seq(Chunks) /\ Len(ds) = Len(cs) - 1 /\ Len(ds) \in Nat
      /\ \A i \in 1..Len(ds) : ds[i] = cs[i]
  BY DEF List
<1>2. IsInjective(ds)
  BY <1>1 DEF IsInjective, List
<1>3. Last(cs) \in Chunks /\ Last(cs) = cs[Len(cs)]
  BY <1>1 DEF List, Last
<1>4. Last(cs) \notin ToSet(ds)
  BY <1>1, <1>3 DEF ToSet, IsInjective, List
<1>5. cs = Append(ds, Last(cs))
  <2>1. Append(ds, Last(cs)) \in Seq(Chunks) /\ cs \in Seq(Chunks) /\ Len(Append(ds, Last(cs))) = Len(cs)
    BY <1>1, <1>3 DEF List
  <2>2. ASSUME NEW i \in 1..Len(cs) PROVE cs[i] = Append(ds, Last(cs))[i]
    BY <1>1, <1>3
  <2> QED
    BY <2>1, <2>2, SeqEqual
<1>6. Last(ds) = cs[Len(cs) - 1]
  BY <1>1 DEF Last
<1> QED
  BY <1>1, <1>2, <1>3, <1>4, <1>5, <1>6 DEF List

\* A slot and the next one in the same chunk.
LEMMA NextSlot ==
  ASSUME NEW cs, List(cs), NEW x \in ToSet(cs), NEW j \in 0..N - 1, NEW k \in 0..N - 1
  PROVE  <<x, j>> \in SlotsOf(cs) /\ PosIn(cs, <<x, j>>) - j = PosIn(cs, <<x, k>>) - k
<1>1. PICK i \in 1..Len(cs) : x = cs[i]
  BY DEF ToSet, List
<1>2. Start(i) \in Nat
  BY StartFacts DEF List
<1>3. PosIn(cs, <<cs[i], j>>) = Start(i) + j /\ <<cs[i], j>> \in SlotsOf(cs)
  BY PosAt
<1>4. PosIn(cs, <<cs[i], k>>) = Start(i) + k
  BY PosAt
<1> QED
  BY <1>1, <1>2, <1>3, <1>4

-----------------------------------------------------------------------------
\* The inductive invariant, in three parts.

(* yqueue_t: the list has no chunk twice, the spare chunk is not on it, and   *)
(* the end is one slot behind the back.                                       *)
Queue ==
    /\ List(chunks) /\ spare \in Chunks \cup {Null} /\ spare \notin ToSet(chunks)
    /\ beginPos \in 0..N - 1 /\ endPos \in 0..N - 1
    /\ val \in [Slot -> Item \cup {Null}]
    /\ back \in SlotsOf(chunks)
    /\ PosIn(chunks, <<Last(chunks), endPos>>) = PosIn(chunks, back) + 1

(* ypipe_t: front <= r <= w <= f <= back on the list, c is w or Null, and a    *)
(* reader that left Null in c has read all that was flushed.                  *)
Pointers ==
    /\ w \in SlotsOf(chunks) /\ f \in SlotsOf(chunks) /\ r \in SlotsOf(chunks) \cup {Null}
    /\ beginPos <= Pos(w) /\ Pos(w) <= Pos(f) /\ Pos(f) <= Pos(back)
    /\ c \in {w, Null}
    /\ r # Null => beginPos <= Pos(r) /\ Pos(r) <= Pos(w)
    /\ c = Null => r \in {FrontSlot, Null} /\ Pos(w) = beginPos
    /\ rpc \in {"idle", "avail"} /\ wpc \in {"idle", "woken"}
    /\ rpc = "avail" => r # Null /\ Pos(r) > beginPos
    /\ wpc = "woken" => c = Null /\ w # f

(* The slots from the front to the back hold items; f stands behind the last  *)
(* complete one.                                                              *)
Stored ==
    /\ \A p \in beginPos..Pos(back) - 1 : At(p) \in Item
    /\ \A p \in Pos(f)..Pos(back) - 1 : ~At(p).last
    /\ Pos(w) < Pos(f) => At(Pos(f) - 1).last

YPInv == Queue /\ Pointers /\ Stored

\* Where the slots are.
LEMMA QueueFacts ==
  ASSUME Queue
  PROVE  /\ Size(chunks) \in Nat /\ N \in Nat \ {0} /\ beginPos \in Nat
         /\ Len(chunks) \in Nat \ {0} /\ chunks[1] \in ToSet(chunks) /\ Last(chunks) \in ToSet(chunks)
         /\ ToSet(chunks) \subseteq Chunks /\ SlotsOf(chunks) \subseteq Slot /\ Null \notin Slot
         /\ FrontSlot \in SlotsOf(chunks) /\ Pos(FrontSlot) = beginPos
         /\ FrontSlot = SlotIn(chunks, beginPos)
         /\ \A s \in SlotsOf(chunks) : Pos(s) \in 0..Size(chunks) - 1 /\ SlotIn(chunks, Pos(s)) = s
         /\ \A s, t \in SlotsOf(chunks) : Pos(s) = Pos(t) => s = t
         /\ Pos(back) + 1 < Size(chunks)
<1>1. Len(chunks) \in Nat \ {0} /\ chunks \in Seq(Chunks) /\ List(chunks) /\ N \in Nat \ {0}
  BY YPipeAssumption, EmptySeq DEF Queue, List
<1>2. chunks[1] \in ToSet(chunks) /\ Last(chunks) \in ToSet(chunks) /\ ToSet(chunks) \subseteq Chunks
  BY <1>1 DEF ToSet, Last
<1>3. Size(chunks) \in Nat
  BY <1>1, StartFacts DEF Size
<1>4. \A s \in SlotsOf(chunks) : Pos(s) \in 0..Size(chunks) - 1 /\ SlotIn(chunks, Pos(s)) = s
  BY <1>1, PosFacts DEF Pos
<1>5. SlotsOf(chunks) \subseteq Slot /\ Null \notin Slot
  BY <1>2, YPipeAssumption DEF SlotsOf, Slot
<1>6. FrontSlot \in SlotsOf(chunks) /\ Pos(FrontSlot) = beginPos /\ FrontSlot = SlotIn(chunks, beginPos)
  <2>1. 1 \in 1..Len(chunks) /\ beginPos \in 0..N - 1 /\ Start(1) + beginPos = beginPos
    BY <1>1, StartFacts, YPipeAssumption DEF Queue
  <2> QED
    BY <1>1, <2>1, PosAt DEF FrontSlot, Pos
<1>7. Pos(back) + 1 < Size(chunks)
  <2>1. <<Last(chunks), endPos>> \in SlotsOf(chunks)
    BY <1>2 DEF SlotsOf, Queue
  <2>2. Pos(<<Last(chunks), endPos>>) = Pos(back) + 1
    BY DEF Queue, Pos
  <2> QED
    BY <1>3, <1>4, <2>1, <2>2
<1> QED
  BY <1>1, <1>2, <1>3, <1>4, <1>5, <1>6, <1>7 DEF Queue

\* push
LEMMA PushEffect ==
  ASSUME Queue, Push
  PROVE  /\ List(chunks') /\ chunks'[1] = chunks[1]
         /\ spare' \in Chunks \cup {Null} /\ spare' \notin ToSet(chunks') /\ endPos' \in 0..N - 1
         /\ back' \in SlotsOf(chunks) /\ Pos(back') = Pos(back) + 1
         /\ \A s \in SlotsOf(chunks) : s \in SlotsOf(chunks') /\ PosIn(chunks', s) = Pos(s)
         /\ PosIn(chunks', <<Last(chunks'), endPos'>>) = PosIn(chunks', back') + 1
<1> DEFINE e == <<Last(chunks), endPos>>
<1>1. e \in SlotsOf(chunks) /\ PosIn(chunks, e) = Pos(back) + 1 /\ back' = e /\ endPos \in 0..N - 1
  BY QueueFacts DEF Queue, SlotsOf, Push, Pos
<1>2. CASE endPos + 1 # N
  <2>1. UNCHANGED <<chunks, spare>> /\ endPos' = endPos + 1 /\ endPos' \in 0..N - 1
    BY <1>1, <1>2, YPipeAssumption DEF Push
  <2>2. PosIn(chunks, <<Last(chunks), endPos + 1>>) = PosIn(chunks, e) + 1
    <3>1. PosIn(chunks, <<Last(chunks), endPos + 1>>) - (endPos + 1) = PosIn(chunks, e) - endPos
      BY <1>1, <2>1, QueueFacts, NextSlot DEF Queue
    <3>2. <<Last(chunks), endPos + 1>> \in SlotsOf(chunks)
      BY <2>1, QueueFacts DEF SlotsOf
    <3>3. PosIn(chunks, <<Last(chunks), endPos + 1>>) \in Nat /\ PosIn(chunks, e) \in Nat /\ endPos \in Nat
      BY <1>1, <3>2, QueueFacts DEF Pos
    <3> QED
      BY <3>1, <3>3
  <2> QED
    BY <1>1, <2>1, <2>2 DEF Queue, Pos
<1>3. CASE endPos + 1 = N
  <2>1. PICK x \in NewChunk : chunks' = Append(chunks, x) /\ spare' = Null /\ endPos' = 0
    BY <1>3 DEF Push
  <2>2. x \in Chunks /\ x \notin ToSet(chunks) /\ x # Null
    BY YPipeAssumption DEF NewChunk, Unused, Queue
  <2>3. /\ List(chunks') /\ ToSet(chunks') = ToSet(chunks) \cup {x}
        /\ \A s \in SlotsOf(chunks) : s \in SlotsOf(chunks') /\ PosIn(chunks', s) = PosIn(chunks, s)
        /\ PosIn(chunks', <<x, 0>>) = Size(chunks)
    <3>1. List(chunks) /\ chunks' = Append(chunks, x) /\ chunks' \in Seq(Chunks)
      BY <2>1, <2>2 DEF Queue, List
    <3>2. List(chunks') /\ ToSet(chunks') = ToSet(chunks) \cup {x}
      BY <3>1, <2>2, AppendPos
    <3>3. \A s \in SlotsOf(chunks) : s \in SlotsOf(chunks') /\ PosIn(chunks', s) = PosIn(chunks, s)
      BY <3>1, <2>2, AppendPos
    <3>4. PosIn(chunks', <<x, 0>>) = Size(chunks)
      BY <3>1, <2>2, AppendPos
    <3> QED
      BY <3>2, <3>3, <3>4
  <2>4. chunks'[1] = chunks[1] /\ Last(chunks') = x
    BY <2>1, <2>2, QueueFacts DEF Last, Queue, List
  <2>5. Pos(back) + 2 = Size(chunks)
    <3>1. Len(chunks) \in 1..Len(chunks) /\ Len(chunks) \in Nat \ {0}
      BY QueueFacts
    <3>2. PosIn(chunks, <<chunks[Len(chunks)], endPos>>) = Start(Len(chunks)) + endPos
      BY <1>1, <3>1, PosAt DEF Queue
    <3>3. Size(chunks) = Start(Len(chunks)) + N /\ Start(Len(chunks)) \in Nat
      BY <3>1, StartFacts DEF Size
    <3>4. Pos(back) \in Nat
      BY QueueFacts DEF Queue
    <3> QED
      BY <1>1, <1>3, <3>2, <3>3, <3>4, YPipeAssumption DEF Last
  <2>6. Null \notin ToSet(chunks')
    BY <2>2, <2>3, QueueFacts, YPipeAssumption
  <2>7. PosIn(chunks', back') = Pos(back) + 1 /\ Pos(back) \in Nat
    BY <1>1, <2>3, QueueFacts DEF Queue
  <2> QED
    BY <1>1, <2>1, <2>3, <2>4, <2>5, <2>6, <2>7, YPipeAssumption DEF Pos
<1> QED
  BY <1>2, <1>3

\* unpush, while there is something in front of the back
LEMMA UnpushEffect ==
  ASSUME Queue, Pos(back) > 0, Unpush
  PROVE  /\ List(chunks') /\ chunks'[1] = chunks[1] /\ chunks' \in Seq(Chunks)
         /\ spare' \in Chunks \cup {Null} /\ spare' \notin ToSet(chunks') /\ endPos' \in 0..N - 1
         /\ back' \in SlotsOf(chunks) /\ Pos(back') = Pos(back) - 1
         /\ \A s \in SlotsOf(chunks) : Pos(s) <= Pos(back) => s \in SlotsOf(chunks') /\ PosIn(chunks', s) = Pos(s)
         /\ PosIn(chunks', <<Last(chunks'), endPos'>>) = PosIn(chunks', back') + 1
<1>1. List(chunks) /\ Len(chunks) \in Nat \ {0} /\ Pos(back) \in Nat /\ N \in Nat \ {0} /\ chunks \in Seq(Chunks)
  BY QueueFacts DEF Queue, List
<1>2. PICK i \in 1..Len(chunks) : back[1] = chunks[i]
  BY DEF Queue, SlotsOf, ToSet, List
<1> DEFINE k == back[2]
           n == Len(chunks)
<1>3. k \in 0..N - 1 /\ back = <<chunks[i], k>> /\ Start(i) \in Nat
  BY <1>2, StartFacts DEF Queue, SlotsOf
<1>4. Pos(back) = Start(i) + k
  <2>1. PosIn(chunks, <<chunks[i], k>>) = Start(i) + k
    BY <1>1, <1>3, PosAt
  <2> QED
    BY <1>3, <2>1 DEF Pos
<1>5. back' \in SlotsOf(chunks) /\ Pos(back') = Pos(back) - 1
  <2>1. CASE k # 0
    <3>1. back' = <<chunks[i], k - 1>> /\ k - 1 \in 0..N - 1
      BY <1>1, <1>2, <1>3, <2>1 DEF Unpush
    <3>2. PosIn(chunks, <<chunks[i], k - 1>>) = Start(i) + (k - 1) /\ <<chunks[i], k - 1>> \in SlotsOf(chunks)
      BY <1>1, <3>1, PosAt
    <3> QED
      BY <1>3, <1>4, <3>1, <3>2 DEF Pos
  <2>2. CASE k = 0
    <3>1. i - 1 \in 1..Len(chunks)
      <4>1. i # 1
        BY <1>1, <1>4, <2>2, StartFacts
      <4> QED
        BY <1>1, <4>1
    <3>2. (CHOOSE j \in DOMAIN chunks : chunks[j] = back[1]) = i
      BY <1>1, <1>2 DEF List, IsInjective
    <3>3. back' = <<chunks[i - 1], N - 1>> /\ N - 1 \in 0..N - 1
      <4>1. N - 1 \in 0..N - 1
        BY <1>1
      <4> QED
        BY <2>2, <3>2, <4>1 DEF Unpush
    <3>4. PosIn(chunks, <<chunks[i - 1], N - 1>>) = Start(i - 1) + (N - 1) /\ <<chunks[i - 1], N - 1>> \in SlotsOf(chunks)
      BY <1>1, <3>1, <3>3, PosAt
    <3>5. Start(i - 1) \in Nat /\ Start(i) = Start(i - 1) + N
      <4>1. i - 1 \in Nat \ {0} /\ (i - 1) + 1 = i
        BY <3>1
      <4> QED
        BY <4>1, StartFacts
    <3> QED
      BY <1>1, <1>4, <2>2, <3>3, <3>4, <3>5 DEF Pos
  <2> QED
    BY <2>1, <2>2
<1>6. n \in 1..Len(chunks) /\ endPos \in 0..N - 1 /\ Last(chunks) = chunks[n] /\ Start(n) \in Nat
      /\ PosIn(chunks, <<chunks[n], endPos>>) = Pos(back) + 1
  BY <1>1, StartFacts DEF Queue, Last, Pos
<1>7. Pos(back) + 1 = Start(n) + endPos
  BY <1>1, <1>6, PosAt
<1>8. CASE endPos # 0
  <2>1. UNCHANGED <<chunks, spare>> /\ endPos' = endPos - 1 /\ endPos - 1 \in 0..N - 1
    BY <1>1, <1>6, <1>8 DEF Unpush
  <2>2. PosIn(chunks, <<chunks[n], endPos - 1>>) = Start(n) + (endPos - 1)
    BY <1>1, <1>6, <2>1, PosAt
  <2>3. PosIn(chunks', <<Last(chunks'), endPos'>>) = PosIn(chunks', back') + 1
    BY <1>1, <1>5, <1>6, <1>7, <2>1, <2>2 DEF Pos, Last
  <2> QED
    BY <1>1, <1>5, <2>1, <2>3 DEF Queue, Pos
<1>9. CASE endPos = 0
  <2> DEFINE ds == SubSeq(chunks, 1, Len(chunks) - 1)
  <2>1. chunks' = ds /\ spare' = spare /\ endPos' = N - 1 /\ N - 1 \in 0..N - 1
    BY <1>1, <1>9 DEF Unpush
  <2>2. n > 1
    <3>1. Start(n) # 0
      BY <1>1, <1>6, <1>7, <1>9
    <3>2. n # 1
      BY <3>1, StartFacts
    <3>3. n \in Nat \ {0}
      BY <1>1
    <3> HIDE DEF n
    <3> QED
      BY <3>2, <3>3
  <2>3. ds \in Seq(Chunks) /\ Len(ds) = n - 1 /\ n - 1 \in Nat \ {0}
    <3>1. n \in Nat
      BY <1>1
    <3>3. \A j \in 1..n : chunks[j] \in Chunks
      BY <1>1
    <3> HIDE DEF n
    <3>2. n - 1 \in Nat \ {0} /\ 1..n - 1 \subseteq 1..n
      BY <2>2, <3>1
    <3>4. \A j \in 1..n - 1 : chunks[j] \in Chunks
      BY <3>2, <3>3
    <3>5. SubSeq(chunks, 1, n - 1) \in Seq(Chunks) /\ Len(SubSeq(chunks, 1, n - 1)) = n - 1
      BY <3>2, <3>4, SubSeqProperties
    <3> QED
      BY <3>2, <3>5 DEF n
  <2>4. List(ds) /\ chunks = Append(ds, Last(chunks)) /\ Last(chunks) \in Chunks /\ Last(chunks) \notin ToSet(ds)
        /\ Last(ds) = chunks[n - 1]
    BY <1>1, <2>2, <2>3, FrontList
  <2> HIDE DEF ds
  <2>5. \A s \in SlotsOf(ds) : s \in SlotsOf(chunks) /\ PosIn(chunks, s) = PosIn(ds, s)
    <3>1. chunks \in Seq(Chunks)
      BY <1>1
    <3> QED
      BY <2>4, <3>1, AppendPos
  <2>6. ToSet(chunks) = ToSet(ds) \cup {Last(chunks)}
    BY <1>1, <2>3, <2>4, AppendPos
  <2>7. ASSUME NEW s \in SlotsOf(chunks), Pos(s) <= Pos(back) PROVE s \in SlotsOf(ds) /\ PosIn(ds, s) = Pos(s)
    <3>1. s[1] # Last(chunks)
      <4> SUFFICES ASSUME s[1] = chunks[n] PROVE FALSE
        BY <1>6
      <4>1. s[2] \in 0..N - 1 /\ s = <<chunks[n], s[2]>>
        BY DEF SlotsOf
      <4>2. PosIn(chunks, <<chunks[n], s[2]>>) = Start(n) + s[2]
        BY <1>1, <1>6, <4>1, PosAt
      <4>3. Pos(s) = Start(n) + s[2]
        BY <4>1, <4>2 DEF Pos
      <4> QED
        BY <1>1, <1>6, <1>7, <1>9, <2>7, <4>1, <4>3
    <3>2. s \in SlotsOf(ds)
      BY <2>6, <3>1 DEF SlotsOf
    <3> QED
      BY <2>5, <3>2 DEF Pos
  <2>8. back' \in SlotsOf(ds) /\ PosIn(ds, back') = Pos(back) - 1
    BY <1>1, <1>5, <2>7
  <2>9. PosIn(ds, <<Last(ds), N - 1>>) = Pos(back)
    <3>1. PosIn(ds, <<ds[n - 1], N - 1>>) = Start(n - 1) + (N - 1)
      <4>1. n - 1 \in 1..Len(ds)
        BY <2>3
      <4> QED
        BY <2>1, <2>4, <4>1, PosAt
    <3>2. Start(n) = Start(n - 1) + N /\ Start(n - 1) \in Nat
      <4>1. (n - 1) + 1 = n
        BY <1>1
      <4> QED
        BY <4>1, <2>3, StartFacts
    <3>3. Last(ds) = ds[n - 1]
      BY <2>3 DEF Last
    <3> QED
      BY <1>1, <1>7, <1>9, <3>1, <3>2, <3>3
  <2>10. ds[1] = chunks[1]
    BY <1>1, <2>2 DEF ds
  <2>11. spare \notin ToSet(ds) /\ spare \in Chunks \cup {Null}
    BY <2>6 DEF Queue
  <2>12. PosIn(chunks', <<Last(chunks'), endPos'>>) = PosIn(chunks', back') + 1
    BY <1>1, <2>1, <2>8, <2>9
  <2> QED
    BY <1>5, <2>1, <2>3, <2>4, <2>7, <2>10, <2>11, <2>12
<1> QED
  BY <1>8, <1>9

\* pop, while there is something in front of the back: distances shrink by a
\* chunk when one is used up
LEMMA PopEffect ==
  ASSUME Queue, Pos(back) > beginPos, Pop, UNCHANGED <<back, endPos>>
  PROVE  \E d \in {0, N} :
         /\ List(chunks') /\ beginPos' \in 0..N - 1 /\ beginPos' = beginPos + 1 - d
         /\ spare' \in Chunks \cup {Null} /\ spare' \notin ToSet(chunks')
         /\ \A s \in SlotsOf(chunks) : Pos(s) >= d => s \in SlotsOf(chunks') /\ PosIn(chunks', s) = Pos(s) - d
         /\ Last(chunks') = Last(chunks) /\ d <= beginPos + 1
<1>1. List(chunks) /\ Len(chunks) \in Nat \ {0} /\ Pos(back) \in Nat /\ N \in Nat \ {0} /\ chunks \in Seq(Chunks)
      /\ beginPos \in 0..N - 1 /\ Size(chunks) \in Nat
  BY QueueFacts DEF Queue, List
<1>2. CASE beginPos + 1 # N
  <2>1. UNCHANGED <<chunks, spare>> /\ beginPos' = beginPos + 1 /\ beginPos + 1 \in 0..N - 1
    BY <1>1, <1>2 DEF Pop
  <2>2. \A s \in SlotsOf(chunks) : PosIn(chunks, s) \in Nat
    BY QueueFacts DEF Pos
  <2> WITNESS 0 \in {0, N}
  <2> QED
    BY <1>1, <2>1, <2>2 DEF Queue, Pos
<1>3. CASE beginPos + 1 = N
  <2>1. beginPos' = 0 /\ chunks' = Tail(chunks) /\ spare' = chunks[1]
    BY <1>3 DEF Pop
  <2>2. Len(chunks) > 1
    <3>1. Size(chunks) # N
      BY <1>1, <1>3, QueueFacts
    <3>2. Start(1 + 1) = N
      BY <1>1, StartFacts
    <3>3. Len(chunks) # 1
      BY <3>1, <3>2 DEF Size
    <3>4. Len(chunks) \in Nat \ {0}
      BY <1>1
    <3> QED
      BY <3>3, <3>4
  <2>3. chunks' \in Seq(Chunks)
    BY <1>1, <2>1, <2>2
  <2>4. /\ List(chunks') /\ ToSet(chunks') = ToSet(chunks) \ {chunks[1]}
        /\ \A s \in SlotsOf(chunks) : PosIn(chunks, s) >= N =>
               s \in SlotsOf(chunks') /\ PosIn(chunks', s) = PosIn(chunks, s) - N
        /\ Last(chunks') = Last(chunks)
    BY <1>1, <2>1, <2>2, <2>3, TailPos
  <2>5. chunks[1] \in Chunks
    BY <1>1
  <2> WITNESS N \in {0, N}
  <2> QED
    BY <1>1, <1>3, <2>1, <2>4, <2>5 DEF Pos
<1> QED
  BY <1>2, <1>3

-----------------------------------------------------------------------------
\* Every step of the two threads keeps the invariant.

\* What a step does not overwrite is found where it was, d slots nearer.
LEMMA ItemsKept ==
  ASSUME Queue, List(chunks'), NEW d \in Nat, NEW p \in Nat, p + d < Size(chunks),
         \A s \in SlotsOf(chunks) : Pos(s) >= d /\ Pos(s) <= Pos(back) =>
             s \in SlotsOf(chunks') /\ PosIn(chunks', s) = Pos(s) - d,
         p + d <= Pos(back),
         NEW t \in SlotsOf(chunks), p + d # Pos(t), NEW y, val' = [val EXCEPT ![t] = y]
  PROVE  val'[SlotIn(chunks', p)] = At(p + d)
<1> DEFINE s == SlotIn(chunks, p + d)
<1>1. p + d \in 0..Size(chunks) - 1
  BY QueueFacts
<1>2. s \in SlotsOf(chunks) /\ PosIn(chunks, s) = p + d
  BY <1>1, SlotFacts DEF Queue
<1>3. At(p + d) = val[s]
  BY DEF At
<1> HIDE DEF s
<1>4. s \in SlotsOf(chunks') /\ PosIn(chunks', s) = p
  <2>1. Pos(s) = p + d
    BY <1>2 DEF Pos
  <2>2. Pos(s) >= d /\ (p + d) - d = p
    BY <2>1
  <2> QED
    BY <1>2, <2>1, <2>2
<1>5. SlotIn(chunks', p) = s
  BY <1>4, PosFacts
<1>6. s # t /\ s \in Slot
  BY <1>2, QueueFacts DEF Pos
<1> QED
  BY <1>3, <1>5, <1>6 DEF Queue

\* write puts the item behind the others.
LEMMA WriteItems ==
  ASSUME YPInv, NEW v \in Values, NEW i \in BOOLEAN, Write(v, i)
  PROVE  /\ PosIn(chunks', back') = Pos(back) + 1 /\ PosIn(chunks', w') = Pos(w)
         /\ \A p \in beginPos..Pos(back) - 1 : val'[SlotIn(chunks', p)] = At(p)
         /\ val'[SlotIn(chunks', Pos(back))] = [v |-> v, last |-> ~i]
<1> DEFINE b == Pos(back)
           y == [v |-> v, last |-> ~i]
<1>1. /\ List(chunks') /\ chunks'[1] = chunks[1]
      /\ spare' \in Chunks \cup {Null} /\ spare' \notin ToSet(chunks') /\ endPos' \in 0..N - 1
      /\ back' \in SlotsOf(chunks) /\ Pos(back') = b + 1
      /\ \A s \in SlotsOf(chunks) : s \in SlotsOf(chunks') /\ PosIn(chunks', s) = Pos(s)
      /\ PosIn(chunks', <<Last(chunks'), endPos'>>) = PosIn(chunks', back') + 1
  BY PushEffect DEF YPInv, Write
<1>2. /\ val' = [val EXCEPT ![back] = y] /\ wpc = "idle" /\ UNCHANGED <<beginPos, w, r, c, wpc, rpc>>
      /\ f' = IF i THEN f ELSE back'
  BY DEF Write
<1>3. /\ b \in Nat /\ beginPos \in Nat /\ b + 1 < Size(chunks) /\ back \in SlotsOf(chunks)
      /\ Size(chunks) \in Nat /\ y \in Item /\ SlotIn(chunks, b) = back /\ back \in Slot
  BY QueueFacts DEF YPInv, Queue, Item
<1>4. ASSUME NEW p \in beginPos..b - 1 PROVE val'[SlotIn(chunks', p)] = At(p)
  <2>1. p \in Nat /\ p + 0 < Size(chunks) /\ p + 0 <= Pos(back) /\ p + 0 # Pos(back) /\ p + 0 = p
    BY <1>3
  <2>2. \A s \in SlotsOf(chunks) : Pos(s) >= 0 /\ Pos(s) <= Pos(back) =>
             s \in SlotsOf(chunks') /\ PosIn(chunks', s) = Pos(s) - 0
    BY <1>1, QueueFacts DEF YPInv
  <2> QED
    BY <1>1, <1>2, <1>3, <2>1, <2>2, ItemsKept DEF YPInv
<1>5. val'[SlotIn(chunks', b)] = y
  <2>1. SlotIn(chunks', b) = back
    <3>1. back \in SlotsOf(chunks') /\ PosIn(chunks', back) = b
      BY <1>1, <1>3
    <3> QED
      BY <1>1, <3>1, PosFacts
  <2> QED
    BY <1>2, <1>3, <2>1 DEF YPInv, Queue
<1> QED
  BY <1>1, <1>2, <1>4, <1>5 DEF YPInv, Pointers

\* write
LEMMA WriteStep ==
  ASSUME YPInv, NEW v \in Values, NEW i \in BOOLEAN, Write(v, i)
  PROVE  YPInv'
<1> DEFINE b == Pos(back)
           y == [v |-> v, last |-> ~i]
<1>1. /\ List(chunks') /\ chunks'[1] = chunks[1]
      /\ spare' \in Chunks \cup {Null} /\ spare' \notin ToSet(chunks') /\ endPos' \in 0..N - 1
      /\ back' \in SlotsOf(chunks) /\ Pos(back') = b + 1
      /\ \A s \in SlotsOf(chunks) : s \in SlotsOf(chunks') /\ PosIn(chunks', s) = Pos(s)
      /\ PosIn(chunks', <<Last(chunks'), endPos'>>) = PosIn(chunks', back') + 1
  BY PushEffect DEF YPInv, Write
<1>2. /\ val' = [val EXCEPT ![back] = y] /\ wpc = "idle" /\ UNCHANGED <<beginPos, w, r, c, wpc, rpc>>
      /\ f' = IF i THEN f ELSE back'
  BY DEF Write
<1>3. /\ b \in Nat /\ beginPos \in Nat /\ b + 1 < Size(chunks) /\ back \in SlotsOf(chunks)
      /\ Size(chunks) \in Nat /\ y \in Item /\ SlotIn(chunks, b) = back /\ back \in Slot
  BY QueueFacts DEF YPInv, Queue, Item
<1>4. Queue'
  BY <1>1, <1>2, <1>3 DEF YPInv, Queue
<1>5. FrontSlot' = FrontSlot
  BY <1>1, <1>2 DEF FrontSlot
<1>6. PosIn(chunks', back') = b + 1
  BY <1>1
<1>7. /\ w \in SlotsOf(chunks) /\ f \in SlotsOf(chunks) /\ Pos(w) \in Nat /\ Pos(f) \in Nat
      /\ r # Null => r \in SlotsOf(chunks)
  BY QueueFacts DEF YPInv, Pointers
<1>8. Pointers'
  BY <1>1, <1>2, <1>3, <1>5, <1>6, <1>7 DEF YPInv, Pointers, Pos
<1>9. \A p \in beginPos..b - 1 : val'[SlotIn(chunks', p)] = At(p)
  BY WriteItems
<1>10. val'[SlotIn(chunks', b)] = y
  BY WriteItems
<1> HIDE DEF b, y
<1>11. Stored'
  <2>1. \A p \in beginPos..b - 1 : val'[SlotIn(chunks', p)] \in Item
    BY <1>9 DEF YPInv, Stored, b
  <2>2. \A p \in beginPos'..PosIn(chunks', back') - 1 : val'[SlotIn(chunks', p)] \in Item
    BY <1>2, <1>3, <1>6, <1>10, <2>1
  <2>3. CASE i
    <3>1. f' = f /\ PosIn(chunks', f') = Pos(f) /\ PosIn(chunks', w') = Pos(w) /\ y.last = FALSE
      BY <1>1, <1>2, <1>7, <2>3 DEF y
    <3>2. \A p \in Pos(f)..b - 1 : ~val'[SlotIn(chunks', p)].last
      BY <1>3, <1>7, <1>9 DEF YPInv, Pointers, Stored, b
    <3>3. \A p \in Pos(f)..(b + 1) - 1 : ~val'[SlotIn(chunks', p)].last
      BY <1>3, <1>7, <1>10, <3>1, <3>2
    <3>4. Pos(w) < Pos(f) => val'[SlotIn(chunks', Pos(f) - 1)].last
      <4> SUFFICES ASSUME Pos(w) < Pos(f) PROVE val'[SlotIn(chunks', Pos(f) - 1)].last
        OBVIOUS
      <4>1. Pos(f) - 1 \in beginPos..b - 1
        BY <1>3, <1>7 DEF YPInv, Pointers, b
      <4> QED
        BY <1>9, <4>1 DEF YPInv, Stored
    <3> QED
      BY <1>6, <2>2, <3>1, <3>3, <3>4 DEF Stored, Pos, At
  <2>4. CASE ~i
    <3>1. f' = back' /\ y.last = TRUE
      BY <1>2, <2>4 DEF y
    <3> QED
      BY <1>3, <1>6, <1>10, <2>2, <3>1 DEF Stored, Pos, At
  <2> QED
    BY <2>3, <2>4
<1> QED
  BY <1>4, <1>8, <1>11 DEF YPInv

\* unwrite takes the last item back.
LEMMA UnwriteItems ==
  ASSUME YPInv, Unwrite
  PROVE  /\ Pos(f) < Pos(back) /\ PosIn(chunks', back') = Pos(back) - 1 /\ PosIn(chunks', w') = Pos(w)
         /\ \A p \in beginPos..Pos(back) - 2 : val'[SlotIn(chunks', p)] = At(p)
<1> DEFINE b == Pos(back)
<1>1. /\ b \in Nat /\ beginPos \in Nat /\ b + 1 < Size(chunks) /\ back \in SlotsOf(chunks)
      /\ Size(chunks) \in Nat /\ SlotIn(chunks, b) = back
      /\ w \in SlotsOf(chunks) /\ f \in SlotsOf(chunks) /\ Pos(w) \in Nat /\ Pos(f) \in Nat
      /\ r # Null => r \in SlotsOf(chunks) /\ Pos(r) \in Nat
  BY QueueFacts DEF YPInv, Queue, Pointers
<1>2. Pos(f) < b
  <2>1. f # back /\ Pos(f) <= b
    BY DEF Unwrite, YPInv, Pointers
  <2>2. Pos(f) # b
    BY <1>1, <2>1, QueueFacts DEF YPInv
  <2> QED
    BY <1>1, <2>1, <2>2
<1>3. /\ List(chunks') /\ chunks'[1] = chunks[1] /\ chunks' \in Seq(Chunks)
      /\ spare' \in Chunks \cup {Null} /\ spare' \notin ToSet(chunks') /\ endPos' \in 0..N - 1
      /\ back' \in SlotsOf(chunks) /\ Pos(back') = b - 1
      /\ \A s \in SlotsOf(chunks) : Pos(s) <= Pos(back) => s \in SlotsOf(chunks') /\ PosIn(chunks', s) = Pos(s)
      /\ PosIn(chunks', <<Last(chunks'), endPos'>>) = PosIn(chunks', back') + 1
  <2>1. Pos(back) > 0
    BY <1>1, <1>2
  <2> QED
    BY <2>1, UnpushEffect DEF YPInv, Unwrite
<1>4. val' = [val EXCEPT ![back'] = Null] /\ wpc = "idle" /\ UNCHANGED <<beginPos, w, r, f, c, wpc, rpc>>
  BY DEF Unwrite
<1>5. PosIn(chunks', back') = b - 1 /\ back' \in SlotsOf(chunks')
  BY <1>1, <1>3
<1>6. PosIn(chunks', w') = Pos(w)
  BY <1>1, <1>2, <1>3, <1>4 DEF YPInv, Pointers
<1>7. ASSUME NEW p \in beginPos..b - 2 PROVE val'[SlotIn(chunks', p)] = At(p)
  <2>1. p \in Nat /\ p + 0 < Size(chunks) /\ p + 0 <= Pos(back) /\ p + 0 # Pos(back') /\ p + 0 = p
    BY <1>1, <1>3
  <2>2. \A s \in SlotsOf(chunks) : Pos(s) >= 0 /\ Pos(s) <= Pos(back) =>
             s \in SlotsOf(chunks') /\ PosIn(chunks', s) = Pos(s) - 0
    BY <1>3, QueueFacts DEF YPInv
  <2> QED
    BY <1>3, <1>4, <2>1, <2>2, ItemsKept DEF YPInv
<1> QED
  BY <1>2, <1>5, <1>6, <1>7

\* unwrite
LEMMA UnwriteStep ==
  ASSUME YPInv, Unwrite
  PROVE  YPInv'
<1> DEFINE b == Pos(back)
<1>1. /\ b \in Nat /\ beginPos \in Nat /\ b + 1 < Size(chunks) /\ back \in SlotsOf(chunks)
      /\ Size(chunks) \in Nat /\ SlotIn(chunks, b) = back
      /\ w \in SlotsOf(chunks) /\ f \in SlotsOf(chunks) /\ Pos(w) \in Nat /\ Pos(f) \in Nat
      /\ r # Null => r \in SlotsOf(chunks) /\ Pos(r) \in Nat
  BY QueueFacts DEF YPInv, Queue, Pointers
<1>2. Pos(f) < b
  <2>1. f # back /\ Pos(f) <= b
    BY DEF Unwrite, YPInv, Pointers
  <2>2. Pos(f) # b
    BY <1>1, <2>1, QueueFacts DEF YPInv
  <2> QED
    BY <1>1, <2>1, <2>2
<1>3. /\ List(chunks') /\ chunks'[1] = chunks[1] /\ chunks' \in Seq(Chunks)
      /\ spare' \in Chunks \cup {Null} /\ spare' \notin ToSet(chunks') /\ endPos' \in 0..N - 1
      /\ back' \in SlotsOf(chunks) /\ Pos(back') = b - 1
      /\ \A s \in SlotsOf(chunks) : Pos(s) <= Pos(back) => s \in SlotsOf(chunks') /\ PosIn(chunks', s) = Pos(s)
      /\ PosIn(chunks', <<Last(chunks'), endPos'>>) = PosIn(chunks', back') + 1
  <2>1. Pos(back) > 0
    BY <1>1, <1>2
  <2> QED
    BY <2>1, UnpushEffect DEF YPInv, Unwrite
<1>4. val' = [val EXCEPT ![back'] = Null] /\ wpc = "idle" /\ UNCHANGED <<beginPos, w, r, f, c, wpc, rpc>>
  BY DEF Unwrite
<1>5. PosIn(chunks', back') = b - 1 /\ back' \in SlotsOf(chunks')
  BY <1>1, <1>3
<1>6. Queue'
  <2>1. val' \in [Slot -> Item \cup {Null}]
    BY <1>4 DEF YPInv, Queue
  <2> QED
    BY <1>3, <1>4, <1>5, <2>1 DEF YPInv, Queue
<1>7. FrontSlot' = FrontSlot
  BY <1>3, <1>4 DEF FrontSlot
<1>8. /\ w \in SlotsOf(chunks') /\ f \in SlotsOf(chunks') /\ PosIn(chunks', w) = Pos(w) /\ PosIn(chunks', f) = Pos(f)
      /\ r # Null => r \in SlotsOf(chunks') /\ PosIn(chunks', r) = Pos(r)
  BY <1>1, <1>2, <1>3 DEF YPInv, Pointers
<1>9. Pointers'
  BY <1>1, <1>2, <1>4, <1>5, <1>7, <1>8 DEF YPInv, Pointers, Pos
<1>10. \A p \in beginPos..b - 2 : val'[SlotIn(chunks', p)] = At(p)
  BY UnwriteItems
<1> HIDE DEF b
<1>11. Stored'
  <2>1. \A p \in beginPos..(b - 1) - 1 : val'[SlotIn(chunks', p)] \in Item
    BY <1>1, <1>10 DEF YPInv, Stored, b
  <2>2. \A p \in Pos(f)..(b - 1) - 1 : ~val'[SlotIn(chunks', p)].last
    BY <1>1, <1>10 DEF YPInv, Pointers, Stored, b
  <2>3. Pos(w) < Pos(f) => val'[SlotIn(chunks', Pos(f) - 1)].last
    <3> SUFFICES ASSUME Pos(w) < Pos(f) PROVE val'[SlotIn(chunks', Pos(f) - 1)].last
      OBVIOUS
    <3>1. Pos(f) - 1 \in beginPos..b - 2
      BY <1>1, <1>2 DEF YPInv, Pointers, b
    <3> QED
      BY <1>10, <3>1 DEF YPInv, Stored
  <2> QED
    BY <1>4, <1>5, <1>8, <2>1, <2>2, <2>3 DEF Stored, Pos, At
<1> QED
  BY <1>6, <1>9, <1>11 DEF YPInv

\* A step that touches only pointers.
LEMMA QueueUnchanged ==
  ASSUME Queue, UNCHANGED queueVars
  PROVE  Queue' /\ FrontSlot' = FrontSlot /\ \A s : PosIn(chunks', s) = Pos(s)
BY DEF Queue, queueVars, FrontSlot, Pos

\* flush
LEMMA FlushStep ==
  ASSUME YPInv, Flush \/ FlushAsleep
  PROVE  YPInv'
<1>1. UNCHANGED queueVars /\ UNCHANGED <<r, f, rpc>> /\ UNCHANGED <<chunks, val, beginPos, back>>
  BY DEF Flush, FlushAsleep, queueVars
<1>2. Queue' /\ FrontSlot' = FrontSlot
  BY <1>1, QueueUnchanged DEF YPInv
<1>3. /\ Pos(w) \in Nat /\ Pos(f) \in Nat /\ beginPos \in Nat /\ w # Null /\ f # Null
      /\ r # Null => Pos(r) \in Nat
  BY QueueFacts DEF YPInv, Pointers
<1>4. \/ c' = f /\ w' = f /\ wpc' = "idle" /\ (c = w \/ wpc = "woken")
      \/ wpc' = "woken" /\ UNCHANGED <<c, w>> /\ w # f /\ c = Null
  BY DEF Flush, FlushAsleep, YPInv, Pointers
<1>5. Pointers'
  BY <1>1, <1>2, <1>3, <1>4 DEF YPInv, Pointers, Pos
<1>6. Stored'
  BY <1>1, <1>3, <1>4 DEF YPInv, Stored, Pos, At
<1> QED
  BY <1>2, <1>5, <1>6 DEF YPInv

\* check_read
LEMMA CheckReadStep ==
  ASSUME YPInv, CheckRead
  PROVE  YPInv'
<1>1. UNCHANGED queueVars /\ UNCHANGED <<w, f, wpc>> /\ UNCHANGED <<chunks, val, beginPos, back>>
  BY DEF CheckRead, queueVars
<1>2. Queue' /\ FrontSlot' = FrontSlot
  BY <1>1, QueueUnchanged DEF YPInv
<1>3. /\ Pos(w) \in Nat /\ Pos(f) \in Nat /\ beginPos \in Nat /\ w # Null
      /\ FrontSlot \in SlotsOf(chunks) /\ FrontSlot # Null /\ Pos(FrontSlot) = beginPos
      /\ r # Null => Pos(r) \in Nat
      /\ Prefetched => Pos(r) # beginPos
      /\ w # FrontSlot => Pos(w) # beginPos
  <2>1. \A s \in SlotsOf(chunks) : Pos(s) = Pos(FrontSlot) => s = FrontSlot
    BY QueueFacts DEF YPInv
  <2> QED
    BY <2>1, QueueFacts DEF YPInv, Pointers, Prefetched
<1>4. \/ Prefetched /\ rpc' = "avail" /\ UNCHANGED <<r, c>>
      \/ c = FrontSlot /\ r' = FrontSlot /\ c' = Null /\ rpc' = "idle" /\ c = w
      \/ c = Null /\ r' = Null /\ c' = Null /\ rpc' = "idle"
      \/ c \notin {FrontSlot, Null} /\ r' = w /\ c' = c /\ rpc' = "avail" /\ c = w
  BY <1>3 DEF CheckRead, YPInv, Pointers
<1>5. wpc = "woken" => c = Null
  BY DEF YPInv, Pointers
<1>6. Pointers'
  <2>1. CASE Prefetched /\ rpc' = "avail" /\ UNCHANGED <<r, c>>
    BY <2>1, <1>1, <1>2, <1>3 DEF YPInv, Pointers, Pos, Prefetched
  <2>2. CASE c = FrontSlot /\ r' = FrontSlot /\ c' = Null /\ rpc' = "idle" /\ c = w
    BY <2>2, <1>1, <1>2, <1>3, <1>5 DEF YPInv, Pointers, Pos
  <2>3. CASE c = Null /\ r' = Null /\ c' = Null /\ rpc' = "idle"
    BY <2>3, <1>1, <1>2, <1>3 DEF YPInv, Pointers, Pos
  <2>4. CASE c \notin {FrontSlot, Null} /\ r' = w /\ c' = c /\ rpc' = "avail" /\ c = w
    BY <2>4, <1>1, <1>2, <1>3, <1>5 DEF YPInv, Pointers, Pos
  <2> QED
    BY <1>4, <2>1, <2>2, <2>3, <2>4
<1>7. Stored'
  BY <1>1 DEF YPInv, Stored, Pos, At
<1> QED
  BY <1>2, <1>6, <1>7 DEF YPInv

\* read gives the first item up, and everything is nearer by it.
LEMMA ReadItems ==
  ASSUME YPInv, Read
  PROVE  /\ Pos(w) > beginPos /\ Pos(back) > beginPos /\ c = w /\ c # Null
         /\ \E d \in {0, N} :
             /\ List(chunks') /\ beginPos' \in 0..N - 1 /\ beginPos' = beginPos + 1 - d
             /\ spare' \in Chunks \cup {Null} /\ spare' \notin ToSet(chunks')
             /\ \A s \in SlotsOf(chunks) : Pos(s) >= d => s \in SlotsOf(chunks') /\ PosIn(chunks', s) = Pos(s) - d
             /\ Last(chunks') = Last(chunks) /\ d <= beginPos + 1
             /\ PosIn(chunks', w') = Pos(w) - d /\ PosIn(chunks', back') = Pos(back) - d
             /\ \A p \in beginPos'..(Pos(back) - d) - 1 : val'[SlotIn(chunks', p)] = At(p + d)
<1> DEFINE b == Pos(back)
<1>1. /\ b \in Nat /\ beginPos \in Nat /\ b + 1 < Size(chunks) /\ back \in SlotsOf(chunks)
      /\ Size(chunks) \in Nat /\ N \in Nat
      /\ w \in SlotsOf(chunks) /\ f \in SlotsOf(chunks) /\ Pos(w) \in Nat /\ Pos(f) \in Nat
      /\ r # Null => r \in SlotsOf(chunks) /\ Pos(r) \in Nat
      /\ FrontSlot \in SlotsOf(chunks) /\ Pos(FrontSlot) = beginPos /\ FrontSlot \in Slot
  BY QueueFacts DEF YPInv, Queue, Pointers
<1>2. rpc = "avail" /\ rpc' = "idle" /\ r # Null /\ Pos(r) > beginPos /\ Pos(r) <= Pos(w)
      /\ Pos(w) <= Pos(f) /\ Pos(f) <= b
  BY DEF Read, YPInv, Pointers
<1>3. Pos(w) > beginPos /\ Pos(f) > beginPos /\ b > beginPos
  BY <1>1, <1>2
<1>4. c # Null /\ wpc = "idle" /\ c = w
  BY <1>1, <1>3 DEF YPInv, Pointers
<1>5. PICK d \in {0, N} :
         /\ List(chunks') /\ beginPos' \in 0..N - 1 /\ beginPos' = beginPos + 1 - d
         /\ spare' \in Chunks \cup {Null} /\ spare' \notin ToSet(chunks')
         /\ \A s \in SlotsOf(chunks) : Pos(s) >= d => s \in SlotsOf(chunks') /\ PosIn(chunks', s) = Pos(s) - d
         /\ Last(chunks') = Last(chunks) /\ d <= beginPos + 1
  BY <1>3, PopEffect DEF YPInv, Read
<1>6. val' = [val EXCEPT ![FrontSlot] = Null] /\ UNCHANGED <<back, endPos, w, r, f, c, wpc>>
  BY DEF Read
<1>7. d \in Nat /\ beginPos' \in Nat
  BY <1>1, <1>5
<1>8. /\ back \in SlotsOf(chunks') /\ PosIn(chunks', back) = b - d
      /\ w \in SlotsOf(chunks') /\ PosIn(chunks', w) = Pos(w) - d
      /\ f \in SlotsOf(chunks') /\ PosIn(chunks', f) = Pos(f) - d
      /\ r \in SlotsOf(chunks') /\ PosIn(chunks', r) = Pos(r) - d
  BY <1>1, <1>2, <1>3, <1>5, <1>7
<1>9. ASSUME NEW p \in beginPos'..(b - d) - 1 PROVE val'[SlotIn(chunks', p)] = At(p + d)
  <2>1. p \in Nat /\ p + d < Size(chunks) /\ p + d <= Pos(back) /\ p + d # Pos(FrontSlot)
    BY <1>1, <1>5, <1>7
  <2>2. \A s \in SlotsOf(chunks) : Pos(s) >= d /\ Pos(s) <= Pos(back) =>
             s \in SlotsOf(chunks') /\ PosIn(chunks', s) = Pos(s) - d
    BY <1>5
  <2> QED
    BY <1>1, <1>5, <1>6, <1>7, <2>1, <2>2, ItemsKept DEF YPInv
<1>10. PosIn(chunks', w') = Pos(w) - d /\ PosIn(chunks', back') = b - d
  BY <1>6, <1>8
<1> QED
  BY <1>3, <1>4, <1>5, <1>9, <1>10

\* read
LEMMA ReadStep ==
  ASSUME YPInv, Read
  PROVE  YPInv'
<1> DEFINE b == Pos(back)
<1>1. /\ b \in Nat /\ beginPos \in Nat /\ b + 1 < Size(chunks) /\ back \in SlotsOf(chunks)
      /\ Size(chunks) \in Nat /\ N \in Nat
      /\ w \in SlotsOf(chunks) /\ f \in SlotsOf(chunks) /\ Pos(w) \in Nat /\ Pos(f) \in Nat
      /\ r # Null => r \in SlotsOf(chunks) /\ Pos(r) \in Nat
      /\ FrontSlot \in SlotsOf(chunks) /\ Pos(FrontSlot) = beginPos /\ FrontSlot \in Slot
  BY QueueFacts DEF YPInv, Queue, Pointers
<1>2. rpc = "avail" /\ rpc' = "idle" /\ r # Null /\ Pos(r) > beginPos /\ Pos(r) <= Pos(w)
      /\ Pos(w) <= Pos(f) /\ Pos(f) <= b
  BY DEF Read, YPInv, Pointers
<1>3. Pos(w) > beginPos /\ Pos(f) > beginPos /\ b > beginPos
  BY <1>1, <1>2
<1>4. c # Null /\ wpc = "idle" /\ c = w
  BY <1>1, <1>3 DEF YPInv, Pointers
<1>5. PICK d \in {0, N} :
         /\ List(chunks') /\ beginPos' \in 0..N - 1 /\ beginPos' = beginPos + 1 - d
         /\ spare' \in Chunks \cup {Null} /\ spare' \notin ToSet(chunks')
         /\ \A s \in SlotsOf(chunks) : Pos(s) >= d => s \in SlotsOf(chunks') /\ PosIn(chunks', s) = Pos(s) - d
         /\ Last(chunks') = Last(chunks) /\ d <= beginPos + 1
         /\ \A p \in beginPos'..(b - d) - 1 : val'[SlotIn(chunks', p)] = At(p + d)
  BY ReadItems
<1>6. val' = [val EXCEPT ![FrontSlot] = Null] /\ UNCHANGED <<back, endPos, w, r, f, c, wpc>>
  BY DEF Read
<1>7. d \in Nat /\ beginPos' \in Nat
  BY <1>1, <1>5
<1>8. /\ back \in SlotsOf(chunks') /\ PosIn(chunks', back) = b - d
      /\ w \in SlotsOf(chunks') /\ PosIn(chunks', w) = Pos(w) - d
      /\ f \in SlotsOf(chunks') /\ PosIn(chunks', f) = Pos(f) - d
      /\ r \in SlotsOf(chunks') /\ PosIn(chunks', r) = Pos(r) - d
  BY <1>1, <1>2, <1>3, <1>5, <1>7
<1>9. Queue'
  <2>1. val' \in [Slot -> Item \cup {Null}]
    BY <1>6 DEF YPInv, Queue
  <2>2. <<Last(chunks), endPos>> \in SlotsOf(chunks) /\ Pos(<<Last(chunks), endPos>>) = b + 1
    BY QueueFacts DEF YPInv, Queue, SlotsOf, Pos
  <2>3. PosIn(chunks', <<Last(chunks'), endPos'>>) = PosIn(chunks', back') + 1
    <3>1. PosIn(chunks', <<Last(chunks), endPos>>) = (b + 1) - d
      BY <1>1, <1>3, <1>5, <1>7, <2>2
    <3> QED
      BY <1>1, <1>5, <1>6, <1>7, <1>8, <3>1
  <2>4. endPos' \in 0..N - 1
    BY <1>6 DEF YPInv, Queue
  <2> QED
    BY <1>5, <1>6, <1>8, <2>1, <2>3, <2>4 DEF Queue
<1>10. Pointers'
  BY <1>1, <1>2, <1>3, <1>4, <1>5, <1>6, <1>7, <1>8 DEF Pointers, Pos
<1>11. \A p \in beginPos'..(b - d) - 1 : val'[SlotIn(chunks', p)] = At(p + d)
  BY <1>5
<1> HIDE DEF b
<1>12. Stored'
  <2>1. \A p \in beginPos'..(b - d) - 1 : p + d \in beginPos..b - 1
    BY <1>1, <1>5, <1>7
  <2>2. \A p \in beginPos'..(b - d) - 1 : val'[SlotIn(chunks', p)] \in Item
    BY <1>11, <2>1 DEF YPInv, Stored, b
  <2>3. ASSUME NEW p \in (Pos(f) - d)..(b - d) - 1 PROVE ~val'[SlotIn(chunks', p)].last
    <3>1. p \in beginPos'..(b - d) - 1 /\ p + d \in Pos(f)..b - 1
      BY <1>1, <1>3, <1>5, <1>7
    <3> QED
      BY <1>11, <3>1 DEF YPInv, Stored, b
  <2>4. ASSUME Pos(w) - d < Pos(f) - d PROVE val'[SlotIn(chunks', (Pos(f) - d) - 1)].last
    <3>1. (Pos(f) - d) - 1 \in beginPos'..(b - d) - 1 /\ ((Pos(f) - d) - 1) + d = Pos(f) - 1 /\ Pos(w) < Pos(f)
      BY <1>1, <1>2, <1>3, <1>5, <1>7, <2>4
    <3>2. val'[SlotIn(chunks', (Pos(f) - d) - 1)] = At(Pos(f) - 1)
      BY <1>11, <3>1
    <3> QED
      BY <3>1, <3>2 DEF YPInv, Stored
  <2> QED
    BY <1>6, <1>8, <2>2, <2>3, <2>4 DEF Stored, Pos, At
<1> QED
  BY <1>9, <1>10, <1>12 DEF YPInv

\* The constructor of ypipe_t, with the reader awake, and that of mailbox_t,
\* which leaves it asleep.
LEMMA YPInvInit ==
  ASSUME QueueInit, PointersInit, c \in {back, Null}
  PROVE  YPInv
<1>1. N \in Nat \ {0}
  BY YPipeAssumption
<1>2. PICK x \in Chunks :
        /\ val = [t \in Slot |-> Null]
        /\ beginPos = 0 /\ back = <<x, 0>> /\ spare = Null
        /\ IF N = 1 THEN \E y \in Chunks \ {x} : chunks = <<x, y>> /\ endPos = 0
                    ELSE chunks = <<x>> /\ endPos = 1
  BY DEF QueueInit
<1>3. List(chunks) /\ chunks[1] = x /\ chunks \in Seq(Chunks)
  <2>1. CASE N = 1
    <3>1. PICK y \in Chunks \ {x} : chunks = <<x, y>>
      BY <1>2, <2>1
    <3>2. chunks \in Seq(Chunks) /\ Len(chunks) = 2 /\ chunks[1] = x /\ chunks[2] = y
      BY <3>1
    <3> QED
      BY <3>2, EmptySeq DEF List, IsInjective
  <2>2. CASE N # 1
    <3>1. chunks \in Seq(Chunks) /\ Len(chunks) = 1 /\ chunks[1] = x
      BY <1>2, <2>2
    <3> QED
      BY <3>1, EmptySeq DEF List, IsInjective
  <2> QED
    BY <2>1, <2>2
<1>4. ToSet(chunks) \subseteq Chunks /\ Null \notin ToSet(chunks)
  BY <1>3, YPipeAssumption DEF ToSet
<1>5. 1 \in 1..Len(chunks) /\ 0 \in 0..N - 1
  BY <1>1, <1>3, EmptySeq DEF List
<1>6. PosIn(chunks, <<chunks[1], 0>>) = Start(1) + 0 /\ <<chunks[1], 0>> \in SlotsOf(chunks)
  BY <1>3, <1>5, PosAt
<1>7. back \in SlotsOf(chunks) /\ PosIn(chunks, back) = 0 /\ back = FrontSlot
  BY <1>2, <1>3, <1>6, StartFacts DEF FrontSlot
<1>8. endPos \in 0..N - 1 /\ PosIn(chunks, <<Last(chunks), endPos>>) = 1
  <2>1. CASE N = 1
    <3>1. PICK y \in Chunks \ {x} : chunks = <<x, y>> /\ endPos = 0
      BY <1>2, <2>1
    <3>2. Len(chunks) = 2
      BY <3>1
    <3>3. PosIn(chunks, <<chunks[2], 0>>) = Start(2) + 0
      BY <1>3, <1>5, <3>2, PosAt
    <3>4. Start(1 + 1) = 0 + N
      BY StartFacts
    <3> QED
      BY <1>5, <2>1, <3>1, <3>2, <3>3, <3>4 DEF Last
  <2>2. CASE N # 1
    <3>1. Len(chunks) = 1 /\ endPos = 1 /\ 1 \in 0..N - 1
      BY <1>1, <1>2, <2>2
    <3>2. PosIn(chunks, <<chunks[1], 1>>) = Start(1) + 1
      BY <1>3, <1>5, <3>1, PosAt
    <3> QED
      BY <3>1, <3>2, StartFacts DEF Last
  <2> QED
    BY <2>1, <2>2
<1>9. Queue
  BY <1>1, <1>2, <1>3, <1>4, <1>5, <1>7, <1>8 DEF Queue
<1>10. back # Null
  BY <1>7, <1>9, QueueFacts
<1>11. Pointers
  BY <1>2, <1>7, <1>10 DEF Pointers, PointersInit, Pos
<1>12. Stored
  BY <1>2, <1>7 DEF Stored, PointersInit, Pos
<1> QED
  BY <1>9, <1>11, <1>12 DEF YPInv

\* What each step may be, for any values that are written.
LEMMA YPInvNext ==
  ASSUME YPInv, YPNext(Values)
  PROVE  YPInv'
BY WriteStep, UnwriteStep, FlushStep, CheckReadStep, ReadStep DEF YPNext

\* The invariant is one of the state only.
LEMMA YPInvStutter ==
  ASSUME YPInv, UNCHANGED ypVars
  PROVE  YPInv'
BY DEF YPInv, ypVars, Queue, Pointers, Stored, Pos, At, FrontSlot

\* No pointer of ypipe_t or yqueue_t is left dangling.
LEMMA YPInvLive ==
  ASSUME YPInv
  PROVE  PointersLive
<1>1. \A s \in SlotsOf(chunks) : s[1] \in ToSet(chunks) /\ Pos(s) \in Nat
  BY QueueFacts DEF YPInv, SlotsOf
<1>2. spare \notin ToSet(chunks) /\ IsInjective(chunks) /\ back \in SlotsOf(chunks) /\ beginPos \in Nat
  BY QueueFacts DEF YPInv, Queue, List
<1>3. rpc = "avail" => Pos(back) > beginPos
  BY <1>1, <1>2 DEF YPInv, Pointers
<1> QED
  BY <1>1, <1>2, <1>3 DEF YPInv, Pointers, PointersLive, Prefetched

\* For every granularity and every way malloc gives addresses out again, the
\* pointers the writer and the reader follow or compare lead into live chunks,
\* and the spare chunk is on the list never.
THEOREM YPipePointersLive == YPSpec => []PointersLive
<1>1. YPInit => YPInv
  BY YPInvInit DEF YPInit
<1>2. YPInv /\ [YPNext(Values)]_ypVars => YPInv'
  BY YPInvNext, YPInvStutter
<1>3. YPInv => PointersLive
  BY YPInvLive
<1> QED
  BY <1>1, <1>2, <1>3, PTL DEF YPSpec

-----------------------------------------------------------------------------
\* ypipe_t implements the queue of FlushQueue.

\* The items from one distance to another.
Run(cs, vl, p, q) == [k \in 1..q - p |-> vl[SlotIn(cs, p + k - 1)]]

\* There are items from one distance to another.
Items(cs, vl, p, q) == p \in Nat /\ q \in Nat /\ p <= q /\ \A x \in p..q - 1 : vl[SlotIn(cs, x)] \in Item

\* They are a sequence of items.
LEMMA RunFacts ==
  ASSUME NEW cs, NEW vl, NEW p, NEW q, Items(cs, vl, p, q)
  PROVE  /\ Run(cs, vl, p, q) \in Seq(Item) /\ Len(Run(cs, vl, p, q)) = q - p
         /\ \A k \in 1..q - p : Run(cs, vl, p, q)[k] = vl[SlotIn(cs, p + k - 1)]
<1> DEFINE g == Run(cs, vl, p, q)
           n == q - p
<1>1. n \in Nat
  BY DEF Items
<1>2. \A k \in 1..n : g[k] = vl[SlotIn(cs, p + k - 1)]
  BY DEF Run
<1>3. ASSUME NEW k \in 1..n PROVE g[k] \in Item
  <2>1. p + k - 1 \in p..q - 1
    BY DEF Items
  <2> QED
    BY <1>2, <2>1 DEF Items
<1>4. g \in [1..n -> Item]
  BY <1>3 DEF Run
<1>5. g \in Seq(Item) /\ Len(g) = n
  <2> HIDE DEF g, n
  <2> QED
    BY <1>1, <1>4
<1> QED
  BY <1>2, <1>5

\* Runs of the same items are the same run, wherever they start.
Shifted(cs, vl, cs1, vl1, p, q, d) ==
    /\ p \in Nat /\ q \in Nat /\ d \in Nat /\ p <= q /\ d <= p
    /\ \A x \in p - d..(q - d) - 1 : vl1[SlotIn(cs1, x)] = vl[SlotIn(cs, x + d)]

LEMMA RunShift ==
  ASSUME NEW cs, NEW vl, NEW cs1, NEW vl1, NEW p, NEW q, NEW d, Shifted(cs, vl, cs1, vl1, p, q, d)
  PROVE  Run(cs1, vl1, p - d, q - d) = Run(cs, vl, p, q)
<1>1. (q - d) - (p - d) = q - p
  BY DEF Shifted
<1>2. ASSUME NEW k \in 1..q - p
      PROVE  vl1[SlotIn(cs1, (p - d) + k - 1)] = vl[SlotIn(cs, p + k - 1)]
  <2>1. (p - d) + k - 1 \in p - d..(q - d) - 1 /\ ((p - d) + k - 1) + d = p + k - 1
    BY DEF Shifted
  <2> QED
    BY <2>1 DEF Shifted
<1> QED
  BY <1>1, <1>2 DEF Run

\* A run that is one item longer.
LEMMA RunAppend ==
  ASSUME NEW cs, NEW vl, NEW p, NEW q, Items(cs, vl, p, q), vl[SlotIn(cs, q)] \in Item
  PROVE  Run(cs, vl, p, q + 1) = Append(Run(cs, vl, p, q), vl[SlotIn(cs, q)])
<1> DEFINE g == Run(cs, vl, p, q)
           h == Run(cs, vl, p, q + 1)
           y == vl[SlotIn(cs, q)]
           n == q - p
<1>1. p \in Nat /\ q \in Nat /\ n \in Nat /\ q + 1 - p = n + 1 /\ y \in Item
  BY DEF Items
<1>2. g \in Seq(Item) /\ Len(g) = n /\ \A k \in 1..n : g[k] = vl[SlotIn(cs, p + k - 1)]
  BY RunFacts
<1>3. h \in Seq(Item) /\ Len(h) = n + 1 /\ \A k \in 1..n + 1 : h[k] = vl[SlotIn(cs, p + k - 1)]
  <2>1. \A x \in p..(q + 1) - 1 : x = q \/ x \in p..q - 1
    BY <1>1
  <2> DEFINE e == q + 1
  <2>2. Items(cs, vl, p, e)
    BY <1>1, <2>1 DEF Items
  <2>3. e - p = n + 1
    BY <1>1
  <2> HIDE DEF e, n
  <2>4. LET hh == Run(cs, vl, p, e)
        IN  hh \in Seq(Item) /\ Len(hh) = e - p /\ \A k \in 1..e - p : hh[k] = vl[SlotIn(cs, p + k - 1)]
    BY <2>2, RunFacts
  <2>5. h = Run(cs, vl, p, e)
    BY DEF e
  <2> HIDE DEF h
  <2> QED
    BY <2>3, <2>4, <2>5
<1>4. p + (n + 1) - 1 = q
  BY <1>1
<1> HIDE DEF g, h, n
<1>5. h[n + 1] = y
  BY <1>1, <1>3, <1>4
<1>6. \A k \in 1..n : h[k] = g[k]
  BY <1>1, <1>2, <1>3
<1> HIDE DEF y
<1>7. Append(g, y) \in Seq(Item) /\ Len(Append(g, y)) = n + 1
  BY <1>1, <1>2
<1>8. ASSUME NEW k \in 1..n + 1 PROVE h[k] = Append(g, y)[k]
  <2>1. CASE k = n + 1
    BY <1>1, <1>2, <1>5, <2>1
  <2>2. CASE k \in 1..n
    BY <1>1, <1>2, <1>6, <2>2
  <2>3. k = n + 1 \/ k \in 1..n
    BY <1>1
  <2> QED
    BY <2>1, <2>2, <2>3
<1>9. h = Append(g, y)
  BY <1>3, <1>7, <1>8, SeqEqual
<1> QED
  BY <1>9 DEF g, h, y

\* A run is cut at any distance.
LEMMA RunCut ==
  ASSUME NEW cs, NEW vl, NEW p, NEW q, Items(cs, vl, p, q), NEW m \in p..q
  PROVE  /\ SubSeq(Run(cs, vl, p, q), 1, m - p) = Run(cs, vl, p, m)
         /\ SubSeq(Run(cs, vl, p, q), (m - p) + 1, Len(Run(cs, vl, p, q))) = Run(cs, vl, m, q)
         /\ Run(cs, vl, p, q) = Run(cs, vl, p, m) \o Run(cs, vl, m, q)
<1> DEFINE g == Run(cs, vl, p, m)
           h == Run(cs, vl, m, q)
           t == Run(cs, vl, p, q)
           a == m - p
           b == q - m
<1>1. p \in Nat /\ q \in Nat /\ m \in Nat /\ a \in Nat /\ b \in Nat /\ q - p = a + b
  BY DEF Items
<1>2. g \in Seq(Item) /\ Len(g) = a /\ \A k \in 1..a : g[k] = vl[SlotIn(cs, p + k - 1)]
  <2>1. Items(cs, vl, p, m)
    BY DEF Items
  <2> QED
    BY <2>1, RunFacts
<1>3. h \in Seq(Item) /\ Len(h) = b /\ \A k \in 1..b : h[k] = vl[SlotIn(cs, m + k - 1)]
  <2>1. Items(cs, vl, m, q)
    BY DEF Items
  <2> QED
    BY <2>1, RunFacts
<1>4. t \in Seq(Item) /\ Len(t) = a + b /\ \A k \in 1..a + b : t[k] = vl[SlotIn(cs, p + k - 1)]
  <2>1. t \in Seq(Item) /\ Len(t) = q - p /\ \A k \in 1..q - p : t[k] = vl[SlotIn(cs, p + k - 1)]
    BY RunFacts
  <2> HIDE DEF t, a, b
  <2> QED
    BY <1>1, <2>1
<1>5. \A k \in 1..a : t[k] = g[k]
  BY <1>1, <1>2, <1>4
<1>6. ASSUME NEW k \in 1..b PROVE t[a + k] = h[k]
  <2>1. a + k \in 1..a + b /\ p + (a + k) - 1 = m + k - 1
    BY <1>1
  <2> QED
    BY <1>3, <1>4, <2>1
<1> HIDE DEF g, h, t, a, b
<1>7. SubSeq(t, 1, a) = g
  <2>1. SubSeq(t, 1, a) \in Seq(Item) /\ Len(SubSeq(t, 1, a)) = a
    BY <1>1, <1>4
  <2>2. ASSUME NEW k \in 1..a PROVE SubSeq(t, 1, a)[k] = t[k]
    BY <1>1, <1>4
  <2> QED
    BY <1>2, <1>5, <2>1, <2>2, SeqEqual
<1>8. SubSeq(t, a + 1, a + b) = h
  <2>1. SubSeq(t, a + 1, a + b) \in Seq(Item) /\ Len(SubSeq(t, a + 1, a + b)) = b
    BY <1>1, <1>4
  <2>2. ASSUME NEW k \in 1..b PROVE SubSeq(t, a + 1, a + b)[k] = t[a + k]
    BY <1>1, <1>4
  <2> QED
    BY <1>3, <1>6, <2>1, <2>2, SeqEqual
<1>9. t = g \o h
  <2>1. g \o h \in Seq(Item) /\ Len(g \o h) = a + b
    BY <1>2, <1>3, ConcatProperties
  <2>2. ASSUME NEW k \in 1..a + b PROVE t[k] = (g \o h)[k]
    <3>1. CASE k \in 1..a
      BY <1>1, <1>2, <1>3, <1>5, <3>1
    <3>2. CASE k \in a + 1..a + b
      <4>1. k - a \in 1..b /\ a + (k - a) = k
        BY <1>1, <3>2
      <4>2. k \in 1..Len(g) + Len(h) /\ ~(k <= Len(g))
        BY <1>1, <1>2, <1>3, <3>2
      <4>3. (g \o h)[k] = h[k - Len(g)]
        BY <1>2, <1>3, <4>2, ConcatProperties
      <4> QED
        BY <1>2, <1>6, <4>1, <4>3
    <3>3. k \in 1..a \/ k \in a + 1..a + b
      BY <1>1
    <3> QED
      BY <3>1, <3>2, <3>3
  <2> QED
    BY <1>4, <2>1, <2>2, SeqEqual
<1> QED
  BY <1>4, <1>7, <1>8, <1>9 DEF g, h, t, a

\* What the two sequences of the queue are.
Mapped ==
    /\ Visible = Pos(w) /\ Pos(w) \in Nat /\ Pos(back) \in Nat /\ Pos(f) \in Nat /\ beginPos \in Nat
    /\ beginPos <= Pos(w) /\ Pos(w) <= Pos(f) /\ Pos(f) <= Pos(back)
    /\ \A x \in beginPos..Pos(back) - 1 : val[SlotIn(chunks, x)] \in Item
    /\ Between(Visible, Pos(back)) = Run(chunks, val, Pos(w), Pos(back))
    /\ Between(beginPos, Visible) = Run(chunks, val, beginPos, Pos(w))

LEMMA MappedFacts == YPInv => Mapped
<1> SUFFICES ASSUME YPInv PROVE Mapped
  OBVIOUS
<1>1. /\ Visible = Pos(w) /\ Pos(w) \in Nat /\ Pos(back) \in Nat /\ Pos(f) \in Nat /\ beginPos \in Nat
      /\ beginPos <= Pos(w) /\ Pos(w) <= Pos(f) /\ Pos(f) <= Pos(back)
      /\ \A x \in beginPos..Pos(back) - 1 : val[SlotIn(chunks, x)] \in Item
  BY QueueFacts DEF YPInv, Pointers, Queue, Visible, Stored, At
<1>2. /\ Between(Visible, Pos(back)) = Run(chunks, val, Pos(w), Pos(back))
      /\ Between(beginPos, Visible) = Run(chunks, val, beginPos, Pos(w))
  BY <1>1 DEF Between, At, Run
<1> QED
  BY <1>1, <1>2 DEF Mapped

LEMMA MappedNext == YPInv' => Mapped'
BY MappedFacts, PTL

\* As above, where they start at the same distance.
LEMMA RunSame ==
  ASSUME NEW cs, NEW vl, NEW cs1, NEW vl1, NEW p \in Nat, NEW q \in Nat, p <= q,
         \A x \in p..q - 1 : vl1[SlotIn(cs1, x)] = vl[SlotIn(cs, x)]
  PROVE  Run(cs1, vl1, p, q) = Run(cs, vl, p, q)
<1>1. ASSUME NEW k \in 1..q - p
      PROVE  vl1[SlotIn(cs1, p + k - 1)] = vl[SlotIn(cs, p + k - 1)]
  <2>1. p + k - 1 \in p..q - 1
    OBVIOUS
  <2> QED
    BY <2>1
<1> QED
  BY <1>1 DEF Run

\* A write puts an item into the queue.
LEMMA WriteRefines ==
  ASSUME YPInv, NEW v \in Values, NEW i \in BOOLEAN, Write(v, i)
  PROVE  FQ!Put
<1> DEFINE y == [v |-> v, last |-> ~i]
           b == Pos(back)
           m == Pos(w)
<1>1. /\ Pos(back)' = b + 1 /\ Pos(w)' = m
      /\ \A p \in beginPos..b - 1 : val'[SlotIn(chunks', p)] = val[SlotIn(chunks, p)]
      /\ val'[SlotIn(chunks', b)] = y
  BY WriteItems DEF Pos, At
<1>2. beginPos' = beginPos /\ c' = c /\ y \in Item
  BY DEF Write, Item
<1>3. Mapped /\ Mapped'
  BY MappedFacts, MappedNext, WriteStep
<1>4. m \in Nat /\ b \in Nat /\ beginPos \in Nat /\ beginPos <= m /\ m <= b
  BY <1>3 DEF Mapped
<1>5. \A p \in m..b : val'[SlotIn(chunks', p)] \in Item
  BY <1>1, <1>2, <1>3, <1>4 DEF Mapped
<1>6. /\ Between(Visible, Pos(back))' = Run(chunks', val', m, b + 1)
      /\ Between(beginPos, Visible)' = Run(chunks', val', beginPos, m)
      /\ Between(Visible, Pos(back)) = Run(chunks, val, m, b)
      /\ Between(beginPos, Visible) = Run(chunks, val, beginPos, m)
  BY <1>1, <1>2, <1>3 DEF Mapped
<1> HIDE DEF b, m, y
<1>7. Run(chunks', val', m, b + 1) = Append(Run(chunks', val', m, b), y)
  <2>1. Items(chunks', val', m, b)
    BY <1>4, <1>5 DEF Items
  <2> QED
    BY <1>1, <1>2, <2>1, RunAppend
<1>8. Run(chunks', val', m, b) = Run(chunks, val, m, b)
  <2>1. \A p \in m..b - 1 : val'[SlotIn(chunks', p)] = val[SlotIn(chunks, p)]
    BY <1>1, <1>4
  <2> QED
    BY <1>4, <2>1, RunSame
<1>9. Run(chunks', val', beginPos, m) = Run(chunks, val, beginPos, m)
  <2>1. \A p \in beginPos..m - 1 : val'[SlotIn(chunks', p)] = val[SlotIn(chunks, p)]
    BY <1>1, <1>4
  <2> QED
    BY <1>4, <2>1, RunSame
<1> QED
  BY <1>2, <1>6, <1>7, <1>8, <1>9 DEF FQ!Put, FQ!Items, Item

\* Only the unfinished tail can be taken back.
LEMMA UnwriteRefines ==
  ASSUME YPInv, Unwrite
  PROVE  FQ!TakeBack
<1> DEFINE b == Pos(back)
           m == Pos(w)
           pd == Run(chunks, val, m, b)
<1>1. /\ Pos(f) < b /\ Pos(back)' = b - 1 /\ Pos(w)' = m
      /\ \A p \in beginPos..b - 2 : val'[SlotIn(chunks', p)] = val[SlotIn(chunks, p)]
  BY UnwriteItems DEF Pos, At
<1>2. beginPos' = beginPos /\ c' = c
  BY DEF Unwrite
<1>3. Mapped /\ Mapped'
  BY MappedFacts, MappedNext, UnwriteStep
<1>4. m \in Nat /\ b \in Nat /\ beginPos \in Nat /\ beginPos <= m /\ m < b
  BY <1>1, <1>3 DEF Mapped
<1>5. \A p \in beginPos..b - 1 : val[SlotIn(chunks, p)] \in Item
  BY <1>3 DEF Mapped
<1>6. /\ Between(Visible, Pos(back))' = Run(chunks', val', m, b - 1)
      /\ Between(beginPos, Visible)' = Run(chunks', val', beginPos, m)
      /\ Between(Visible, Pos(back)) = pd
      /\ Between(beginPos, Visible) = Run(chunks, val, beginPos, m)
  BY <1>1, <1>2, <1>3 DEF Mapped
<1>7. ~val[SlotIn(chunks, b - 1)].last
  <2>1. b - 1 \in Pos(f)..b - 1
    BY <1>1, <1>3, <1>4 DEF Mapped
  <2> QED
    BY <2>1 DEF YPInv, Stored, At
<1> HIDE DEF b, m
<1>8. pd \in Seq(Item) /\ Len(pd) = b - m /\ pd[b - m] = val[SlotIn(chunks, b - 1)]
  <2>1. Items(chunks, val, m, b)
    BY <1>4, <1>5 DEF Items
  <2>2. pd \in Seq(Item) /\ Len(pd) = b - m /\ \A k \in 1..b - m : pd[k] = val[SlotIn(chunks, m + k - 1)]
    BY <2>1, RunFacts
  <2>3. b - m \in 1..b - m /\ m + (b - m) - 1 = b - 1
    BY <1>4
  <2> QED
    BY <2>2, <2>3
<1>9. SubSeq(pd, 1, Len(pd) - 1) = Run(chunks, val, m, b - 1)
  <2>1. Items(chunks, val, m, b)
    BY <1>4, <1>5 DEF Items
  <2> DEFINE e == b - 1
  <2>2. e \in m..b /\ e - m = (b - m) - 1
    BY <1>4
  <2> HIDE DEF e
  <2>3. SubSeq(Run(chunks, val, m, b), 1, e - m) = Run(chunks, val, m, e)
    BY <2>1, <2>2, RunCut
  <2> QED
    BY <1>8, <2>2, <2>3 DEF e
<1>10. Run(chunks', val', m, b - 1) = Run(chunks, val, m, b - 1)
  <2>1. b - 1 \in Nat /\ m <= b - 1
    BY <1>4
  <2>2. \A p \in m..(b - 1) - 1 : val'[SlotIn(chunks', p)] = val[SlotIn(chunks, p)]
    BY <1>1, <1>4
  <2> QED
    BY <1>4, <2>1, <2>2, RunSame
<1>11. Run(chunks', val', beginPos, m) = Run(chunks, val, beginPos, m)
  <2>1. \A p \in beginPos..m - 1 : val'[SlotIn(chunks', p)] = val[SlotIn(chunks, p)]
    BY <1>1, <1>4
  <2> QED
    BY <1>4, <2>1, RunSame
<1>12. pd # << >>
  BY <1>4, <1>8
<1> HIDE DEF pd
<1> QED
  BY <1>2, <1>6, <1>7, <1>8, <1>9, <1>10, <1>11, <1>12 DEF FQ!TakeBack

\* Both ways to flush let all complete items through at once.
LEMMA MoveRefines ==
  ASSUME YPInv, YPInv', w # f, c' = f, w' = f, f' = f, UNCHANGED queueVars
  PROVE  FQ!FFlush
<1> DEFINE b == Pos(back)
           m == Pos(w)
           e == Pos(f)
           pd == Run(chunks, val, m, b)
           n == e - m
<1>1. Mapped /\ Mapped'
  BY MappedFacts, MappedNext
<1>2. Pos(back)' = b /\ Pos(w)' = e /\ beginPos' = beginPos /\ chunks' = chunks /\ val' = val
  BY DEF queueVars, Pos
<1>3. m \in Nat /\ b \in Nat /\ e \in Nat /\ beginPos \in Nat /\ beginPos <= m /\ m <= e /\ e <= b
  BY <1>1 DEF Mapped
<1>4. m # e
  BY QueueFacts DEF YPInv, Pointers
<1>5. c' # Null
  BY QueueFacts DEF YPInv, Pointers
<1>6. \A x \in beginPos..b - 1 : val[SlotIn(chunks, x)] \in Item
  BY <1>1 DEF Mapped
<1>7. /\ Between(Visible, Pos(back))' = Run(chunks, val, e, b)
      /\ Between(beginPos, Visible)' = Run(chunks, val, beginPos, e)
      /\ Between(Visible, Pos(back)) = pd
      /\ Between(beginPos, Visible) = Run(chunks, val, beginPos, m)
  BY <1>1, <1>2 DEF Mapped
<1>8. val[SlotIn(chunks, e - 1)].last /\ \A x \in e..b - 1 : ~val[SlotIn(chunks, x)].last
  <2>1. m < e
    BY <1>3, <1>4
  <2> QED
    BY <2>1 DEF YPInv, Stored, At
<1> HIDE DEF b, m, e
<1>9. Items(chunks, val, m, b) /\ Items(chunks, val, beginPos, e) /\ e \in m..b /\ m \in beginPos..e
  BY <1>3, <1>6 DEF Items
<1>10. pd \in Seq(Item) /\ Len(pd) = b - m /\ \A k \in 1..b - m : pd[k] = val[SlotIn(chunks, m + k - 1)]
  BY <1>9, RunFacts
<1>11. n \in 1..b - m /\ m + n - 1 = e - 1
  BY <1>3, <1>4
<1>12. /\ SubSeq(pd, 1, n) = Run(chunks, val, m, e)
       /\ SubSeq(pd, n + 1, Len(pd)) = Run(chunks, val, e, b)
  BY <1>9, RunCut
<1>13. Run(chunks, val, beginPos, e) = Run(chunks, val, beginPos, m) \o Run(chunks, val, m, e)
  BY <1>9, RunCut
<1>14. \A k \in 1..b - m : k > n => m + k - 1 \in e..b - 1
  BY <1>3
<1> HIDE DEF pd, n
<1>15. n \in 1..Len(pd) /\ pd[n].last
  BY <1>8, <1>10, <1>11
<1>16. ASSUME NEW k \in 1..Len(pd), pd[k].last PROVE k <= n
  <2>1. k \in 1..b - m
    BY <1>10
  <2>2. CASE k > n
    BY <1>8, <1>10, <1>14, <1>16, <2>1, <2>2
  <2>3. k \in Int /\ n \in Int
    BY <2>1, <1>11
  <2> QED
    BY <2>2, <2>3
<1>17. FQ!Complete = {k \in 1..Len(pd) : pd[k].last}
  BY <1>7 DEF FQ!Complete
<1> HIDE DEF FQ!Complete
<1>18. n \in FQ!Complete /\ \A k \in FQ!Complete : k <= n
  BY <1>15, <1>16, <1>17
<1>19. /\ Between(beginPos, Visible)' = Between(beginPos, Visible) \o SubSeq(pd, 1, n)
       /\ Between(Visible, Pos(back))' = SubSeq(pd, n + 1, Len(pd))
  BY <1>7, <1>12, <1>13
<1> QED
  BY <1>5, <1>7, <1>18, <1>19 DEF FQ!FFlush

\* flush, both ways.
LEMMA FlushRefines ==
  ASSUME YPInv, Flush \/ FlushAsleep
  PROVE  FQ!FFlush \/ UNCHANGED FQ!fqVars
<1>1. YPInv'
  BY FlushStep
<1>2. CASE FlushAsleep \/ (Flush /\ c = w)
  <2>1. w # f /\ c' = f /\ w' = f /\ f' = f /\ UNCHANGED queueVars
    BY <1>2 DEF YPInv, Pointers, Flush, FlushAsleep
  <2> QED
    BY <1>1, <2>1, MoveRefines
<1>3. CASE Flush /\ c # w
  BY <1>3 DEF Flush, queueVars, FQ!fqVars, Between, At, Visible, Pos
<1> QED
  BY <1>2, <1>3

\* check_read: the reader falls asleep only when nothing was flushed.
LEMMA CheckReadRefines ==
  ASSUME YPInv, CheckRead
  PROVE  FQ!FallAsleep \/ UNCHANGED FQ!fqVars
<1>1. UNCHANGED <<chunks, val, beginPos, back, w>>
  BY DEF CheckRead, queueVars
<1>2. CASE c' = c
  BY <1>1, <1>2 DEF FQ!fqVars, Between, At, Visible, Pos
<1>3. CASE c' # c
  <2>1. c = FrontSlot /\ c' = Null
    BY <1>3 DEF CheckRead
  <2>2. c # Null /\ Pos(c) = beginPos /\ beginPos \in Nat
    BY <2>1, QueueFacts DEF YPInv
  <2>3. Visible = beginPos /\ Visible' = beginPos
    BY <1>1, <2>1, <2>2 DEF Visible
  <2>4. Between(beginPos, Visible) = << >>
    BY <2>2, <2>3 DEF Between
  <2>5. UNCHANGED <<Between(beginPos, Visible), Between(Visible, Pos(back))>>
    BY <1>1, <2>3 DEF Between, At, Pos
  <2> QED
    BY <2>1, <2>4, <2>5 DEF FQ!FallAsleep
<1> QED
  BY <1>2, <1>3

\* A read takes the first item, and what is behind it stays in order.
LEMMA ReadRefines ==
  ASSUME YPInv, Read
  PROVE  FQ!Get
<1>1. Mapped /\ Mapped'
  BY MappedFacts, MappedNext, ReadStep
<1> DEFINE b == Pos(back)
           m == Pos(w)
           qu == Run(chunks, val, beginPos, m)
           g == beginPos + 1
<1>2. Pos(w) > beginPos /\ c # Null /\ c' = c
  BY ReadItems DEF Read
<1>3. PICK d \in {0, N} :
         /\ beginPos' = g - d /\ d <= g
         /\ Pos(w)' = m - d /\ Pos(back)' = b - d
         /\ \A p \in beginPos'..(b - d) - 1 : val'[SlotIn(chunks', p)] = val[SlotIn(chunks, p + d)]
  <2>1. PICK d \in {0, N} :
         /\ beginPos' = beginPos + 1 - d /\ d <= beginPos + 1
         /\ PosIn(chunks', w') = Pos(w) - d /\ PosIn(chunks', back') = Pos(back) - d
         /\ \A p \in beginPos'..(Pos(back) - d) - 1 : val'[SlotIn(chunks', p)] = At(p + d)
    BY ReadItems
  <2>2. beginPos' = g - d /\ d <= g
    BY <1>1, <2>1, YPipeAssumption DEF Mapped
  <2>3. PosIn(chunks', w') = m - d /\ PosIn(chunks', back') = b - d
    BY <2>1
  <2>4. Pos(w)' = PosIn(chunks', w') /\ Pos(back)' = PosIn(chunks', back')
    BY DEF Pos
  <2>5. \A p \in beginPos'..(b - d) - 1 : val'[SlotIn(chunks', p)] = val[SlotIn(chunks, p + d)]
    BY <2>1 DEF At
  <2> HIDE DEF g, m, b
  <2> QED
    BY <2>2, <2>3, <2>4, <2>5
<1>4. /\ m \in Nat /\ b \in Nat /\ beginPos \in Nat /\ beginPos < m /\ m <= b /\ d \in Nat
      /\ g \in Nat /\ g <= m /\ g = beginPos + 1
  BY <1>1, <1>2, YPipeAssumption DEF Mapped
<1>5. \A x \in beginPos..b - 1 : val[SlotIn(chunks, x)] \in Item
  BY <1>1 DEF Mapped
<1>6. /\ Between(Visible, Pos(back))' = Run(chunks', val', m - d, b - d)
      /\ Between(beginPos, Visible)' = Run(chunks', val', g - d, m - d)
      /\ Between(Visible, Pos(back)) = Run(chunks, val, m, b)
      /\ Between(beginPos, Visible) = qu
  BY <1>1, <1>3 DEF Mapped
<1> HIDE DEF b, m, g
<1>7. Run(chunks', val', g - d, m - d) = Run(chunks, val, g, m)
  <2>1. Shifted(chunks, val, chunks', val', g, m, d)
    BY <1>3, <1>4 DEF Shifted
  <2> QED
    BY <2>1, RunShift
<1>8. Run(chunks', val', m - d, b - d) = Run(chunks, val, m, b)
  <2>1. Shifted(chunks, val, chunks', val', m, b, d)
    BY <1>3, <1>4 DEF Shifted
  <2> QED
    BY <2>1, RunShift
<1>9. Items(chunks, val, beginPos, m) /\ g \in beginPos..m
  BY <1>4, <1>5 DEF Items
<1>10. qu \in Seq(Item) /\ Len(qu) = m - beginPos
  BY <1>9, RunFacts
<1>11. SubSeq(qu, (g - beginPos) + 1, Len(qu)) = Run(chunks, val, g, m)
  BY <1>9, RunCut
<1>12. (g - beginPos) + 1 = 2 /\ Len(qu) > 0
  BY <1>4, <1>10
<1> HIDE DEF qu
<1>13. qu # << >> /\ Tail(qu) = SubSeq(qu, 2, Len(qu))
  BY <1>10, <1>12, HeadTailProperties DEF Tail
<1> QED
  BY <1>2, <1>6, <1>7, <1>8, <1>11, <1>12, <1>13 DEF FQ!Get

\* The queue starts empty, whichever of the two threads is awake,
LEMMA QueueStart ==
  ASSUME QueueInit, PointersInit, c \in {back, Null}
  PROVE  FQ!FInit
<1>1. YPInv
  BY YPInvInit
<1>2. w = back /\ Pos(back) = beginPos
  <2>1. w = back /\ back = FrontSlot
    BY DEF QueueInit, PointersInit, FrontSlot
  <2> QED
    BY <1>1, <2>1, QueueFacts DEF YPInv
<1>3. Mapped
  BY <1>1, MappedFacts
<1>4. Run(chunks, val, beginPos, beginPos) = << >>
  BY <1>3 DEF Mapped, Run
<1> QED
  BY <1>2, <1>3, <1>4 DEF Mapped, FQ!FInit

\* and every step of either thread is one of the queue or leaves it alone.
LEMMA QueueStep ==
  ASSUME YPInv, [YPNext(Values)]_ypVars
  PROVE  [FQ!FNext]_(FQ!fqVars)
<1>1. ASSUME YPNext(Values) PROVE FQ!FNext \/ UNCHANGED FQ!fqVars
  BY <1>1, WriteRefines, UnwriteRefines, FlushRefines, CheckReadRefines, ReadRefines DEF YPNext, FQ!FNext
<1>2. ASSUME UNCHANGED ypVars PROVE UNCHANGED FQ!fqVars
  BY <1>2 DEF ypVars, FQ!fqVars, Between, At, Visible, Pos
<1> QED
  BY <1>1, <1>2

\* The lock-free code behaves as the queue of FlushQueue for every granularity
\* and every use of addresses again: items come out once, whole and in order, and
\* not before they were flushed.
THEOREM YPipeImplementsQueue == YPSpec => ImplementsQueue
<1>1. YPInit => YPInv /\ FQ!FInit
  BY YPInvInit, QueueStart DEF YPInit
<1>2. YPInv /\ [YPNext(Values)]_ypVars => YPInv' /\ [FQ!FNext]_(FQ!fqVars)
  BY YPInvNext, YPInvStutter, QueueStep
<1> QED
  BY <1>1, <1>2, PTL DEF YPSpec, ImplementsQueue, FQ!FSpec
===============================================================================

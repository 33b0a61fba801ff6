-------------------------- MODULE PipeTrafficProofs --------------------------
(***************************************************************************)
(* Theorems about a pair of pipe_t ends in use, for every high watermark,  *)
(* any number of messages and any number of hiccups.                       *)
(***************************************************************************)
EXTENDS PipeTraffic, SequenceTheorems, FiniteSetTheorems, WellFoundedInduction, TLAPS

States == {"active", "delimited", "pending", "terminated", "terminating", "double_terminated", "dead"}
Items == {"more", "last", "delim"}

Term == <<"pipe_term">>
Ack == <<"pipe_term_ack">>
Wake == <<"activate_read">>
Commands == {Term, Ack, Wake} \cup ({"activate_write", "hiccup"} \X Nat)

EndRecords ==
  [state : States, inActive : BOOLEAN, outActive : BOOLEAN, inpipe : Nat, outpipe : Nat,
   delay : BOOLEAN, hwm : Nat, lwm : Nat, msgsRead : Nat, msgsWritten : Nat,
   peersMsgsRead : Nat]
YPipes == [pending : Seq(Items), queue : Seq(Items), asleep : BOOLEAN, live : BOOLEAN]
EndPairs == [Ends -> EndRecords]
MailPairs == [Ends -> Seq(Commands)]
Pairs == [end : EndPairs, yp : Seq(YPipes), mail : MailPairs, ok : BOOLEAN]

Types == p \in Pairs /\ closing \subseteq Ends /\ partial \in BOOLEAN

State(e) == p.end[e].state
Has(m, c) == \E i \in 1..Len(m) : m[i] = c
HiccupAt(m, i) == m[i][1] = "hiccup"

-----------------------------------------------------------------------------
\* Which of the two commands of the handshake are on their way to an end.
Control(m) ==
  IF Has(m, Term) THEN IF Has(m, Ack) THEN "both" ELSE "term"
  ELSE IF Has(m, Ack) THEN "ack" ELSE "none"

\* The handshake: the states of the two ends, each with what is on its way to it.
Rows ==
  {<<"active", "none", "active", "none">>,
   <<"terminated", "none", "active", "term">>,
   <<"terminated", "none", "delimited", "term">>,
   <<"terminated", "none", "pending", "none">>,
   <<"terminated", "term", "terminated", "term">>,
   <<"terminated", "ack", "terminating", "none">>,
   <<"terminated", "both", "double_terminated", "none">>,
   <<"double_terminated", "ack", "double_terminated", "ack">>,
   <<"dead", "none", "terminating", "ack">>,
   <<"dead", "none", "double_terminated", "ack">>,
   <<"dead", "none", "dead", "none">>}

Row(e) == <<State(e), Control(p.mail[e]), State(Peer(e)), Control(p.mail[Peer(e)])>>
Handshake == \E e \in Ends : Row(e) \in Rows

\* The same, seen from one end: its state and mail, the other's state and mail.
Shakes(a, b, c, d) == <<a, b, c, d>> \in Rows \/ <<c, d, a, b>> \in Rows

\* pipe_term is sent once, pipe_term_ack once and as the last command.
MailOrder(m) ==
  /\ \A i, j \in 1..Len(m) : m[i] = Term /\ m[j] = Term => i = j
  /\ \A i \in 1..Len(m) : m[i] = Ack => i = Len(m)

Mails ==
  /\ \A e \in Ends : MailOrder(p.mail[e])
  /\ \A e \in Ends : State(e) = "dead" => p.mail[e] = << >>

-----------------------------------------------------------------------------
\* Who uses which ypipe. The hiccups on their way to end 1 name the ypipes after
\* the one it writes to, in order and up to the one that end 2 reads.
Silent == {"terminating", "double_terminated", "dead"}

Pointers ==
  /\ Len(p.yp) >= 2
  /\ p.end[1].inpipe = 1 /\ p.end[2].inpipe = Len(p.yp)
  /\ \A e \in Ends : p.end[e].outpipe = None <=> State(e) \in Silent
  /\ p.end[2].outpipe \in {None, 1}
  /\ p.end[1].outpipe \in {None} \cup 2..Len(p.yp)

NextOut == IF p.end[1].outpipe = None THEN Len(p.yp) ELSE p.end[1].outpipe

Chain(m, lo, hi) ==
  /\ \A i \in 1..Len(m) : HiccupAt(m, i) => m[i][2] \in lo + 1 .. hi
  /\ \A i, j \in 1..Len(m) : HiccupAt(m, i) /\ HiccupAt(m, j) /\ i < j => m[i][2] < m[j][2]
  /\ \A n \in lo + 1 .. hi : Has(m, <<"hiccup", n>>)
  /\ \A i, j \in 1..Len(m) : HiccupAt(m, i) /\ m[j] \in {Term, Ack} => i < j

HiccupChain ==
  /\ Chain(p.mail[1], NextOut, Len(p.yp))
  /\ State(1) = "pending" => NextOut = Len(p.yp)
  /\ \A i \in 1..Len(p.mail[2]) : ~HiccupAt(p.mail[2], i)

Lives ==
  /\ State(1) # "dead" => p.yp[1].live
  /\ State(2) # "dead" => \A i \in NextOut..Len(p.yp) : p.yp[i].live

-----------------------------------------------------------------------------
\* Everything in a ypipe, let through or not.
ItemsIn(y) == y.queue \o y.pending

\* The ypipes that end 1 is yet to learn of are empty.
Fresh == \A i \in NextOut + 1 .. Len(p.yp) : p.yp[i].queue = << >> /\ p.yp[i].pending = << >>

\* A delimiter is the last thing that an end writes, after it began to terminate.
DelimLast(s) == \A i \in 1..Len(s) : s[i] = "delim" => i = Len(s)

Delimiters ==
  /\ State(2) # "dead" => DelimLast(ItemsIn(p.yp[NextOut]))
  /\ State(2) # "dead" /\ Has(ItemsIn(p.yp[NextOut]), "delim") =>
       /\ State(1) \notin {"active", "delimited"}
       /\ 1 \in closing => State(1) = "terminating"
       /\ State(1) = "pending" => ~p.end[1].outActive
  /\ State(1) # "dead" /\ Has(ItemsIn(p.yp[1]), "delim") => State(2) \notin {"active", "delimited"}

\* An end inside terminate is past the states in which it is open, and until then
\* it means to wait for pending messages.
Leaving ==
  /\ \A e \in closing : State(e) \notin {"active", "delimited"}
  /\ \A e \in Ends : State(e) \in {"active", "delimited"} => p.end[e].delay

\* What end 1 has written and end 2 has not read.
Counts ==
  LET c == Messages(ItemsIn(p.yp[NextOut])) IN
  State(2) # "dead" =>
    /\ c + p.end[2].msgsRead <= p.end[1].msgsWritten
    /\ Len(p.yp) = 2 => c + p.end[2].msgsRead = p.end[1].msgsWritten
    /\ Len(p.yp) = 2 /\ State(2) = "delimited" => c = 0

-----------------------------------------------------------------------------
\* The window: what the writer knows of the reader, and what is on its way to it.
ReportAt(m, i) == m[i][1] = "activate_write"

Rising(m, lo, hi) ==
  /\ lo <= hi
  /\ \A i \in 1..Len(m) : ReportAt(m, i) => lo <= m[i][2] /\ m[i][2] <= hi
  /\ \A i, j \in 1..Len(m) : ReportAt(m, i) /\ ReportAt(m, j) /\ i < j => m[i][2] <= m[j][2]

Window ==
  LET end == p.end[1] IN
  /\ Rising(p.mail[1], end.peersMsgsRead, p.end[2].msgsRead)
  /\ end.hwm > 0 => end.msgsWritten - end.peersMsgsRead <= end.hwm
  /\ end.state = "active" /\ ~end.outActive =>
       end.hwm > 0 /\ end.msgsWritten - end.peersMsgsRead = end.hwm

\* The reader's last report is less than a low watermark old.
Reports ==
  LET m == p.mail[1]
      lwm == p.end[2].lwm
  IN
  /\ lwm = compute_lwm(p.end[1].hwm)
  /\ lwm > 0 => \E n \in Nat :
       /\ n % lwm = 0 /\ n <= p.end[2].msgsRead /\ p.end[2].msgsRead < n + lwm
       /\ n <= p.end[1].peersMsgsRead \/ Has(m, <<"activate_write", n>>)

\* A reader that found nothing is woken by the next flush.
SleepsWell(e) ==
  State(e) \in {"active", "pending"} /\ ~p.end[e].inActive =>
    \/ InPipe(p, e).queue = << >> /\ InPipe(p, e).asleep
    \/ Has(p.mail[e], Wake)

\* Once terminate has returned, its delimiter is on its way, unless a hiccup took it.
IsDelimited(e) ==
  State(e) = "terminated" /\ e \notin closing /\ State(Peer(e)) \in {"active", "pending"}
      /\ (e = 2 \/ Len(p.yp) = 2)
    => Has(InPipe(p, Peer(e)).queue, "delim")

Sleeping == \A e \in Ends : SleepsWell(e)
Delimited == \A e \in Ends : IsDelimited(e)

PipeInv ==
  /\ Types /\ p.ok
  /\ Handshake /\ Mails
  /\ Pointers /\ HiccupChain /\ Lives
  /\ Fresh /\ Delimiters /\ Leaving /\ Counts
  /\ Window /\ Reports
  /\ Sleeping /\ Delimited

-----------------------------------------------------------------------------
LEMMA PeerIs == \A e \in Ends : Peer(e) \in Ends /\ Peer(e) # e /\ Peer(Peer(e)) = e
BY DEF Ends, Peer

\* A bounded set of natural numbers has a largest one.
LEMMA Largest ==
  ASSUME NEW n \in Nat, NEW T, T \subseteq 0..n, T # {}
  PROVE  \E x \in T : \A y \in T : y <= x
<1> DEFINE U == {n - x : x \in T}
           R == OpToRel(<, Nat)
<1>1. U \subseteq Nat /\ U # {}
  <2>1. ASSUME NEW x \in T PROVE n - x \in Nat
    OBVIOUS
  <2> QED
    BY <2>1
<1>2. \E u \in U : \A v \in U : ~(<<v, u>> \in R)
  <2> HIDE DEF R, U
  <2>1. IsWellFoundedOn(R, Nat)
    BY NatLessThanWellFounded DEF R
  <2> QED
    BY <1>1, <2>1, WFMin
<1>3. PICK u \in U : \A v \in U : ~(<<v, u>> \in R)
  BY <1>2
<1>4. PICK x \in T : u = n - x
  OBVIOUS
<1>5. ASSUME NEW y \in T PROVE y <= x
  <2>1. n - y \in U
    OBVIOUS
  <2>2. ~(<<n - y, u>> \in R)
    BY <1>3, <2>1
  <2>3. n - y \in Nat /\ u \in Nat
    BY <1>1, <2>1
  <2>4. n - y < u => <<n - y, u>> \in R
    BY <2>3 DEF OpToRel
  <2> HIDE DEF R, U
  <2>5. ~(n - y < n - x)
    BY <2>2, <2>4, <1>4
  <2> QED
    BY <2>5
<1> QED
  BY <1>5

\* Behind the complete items there are only first parts.
LEMMA CompleteIs ==
  ASSUME NEW s \in Seq(Items)
  PROVE  /\ Complete(s) \in 0..Len(s)
         /\ Complete(s) # 0 => s[Complete(s)] # "more"
         /\ \A i \in 1..Len(s) : i > Complete(s) => s[i] = "more"
<1> DEFINE I == {i \in 1..Len(s) : s[i] # "more"}
<1>1. Complete(s) = IF I # {} THEN Max(I) ELSE 0
  BY DEF Complete, SelectLastInSeq
<1>2. CASE I = {}
  BY <1>1, <1>2
<1>3. CASE I # {}
  <2>1. \E x \in I : \A y \in I : y <= x
    <3>1. I \subseteq 0..Len(s) /\ Len(s) \in Nat
      OBVIOUS
    <3> HIDE DEF I
    <3> QED
      BY <1>3, <3>1, Largest
  <2>2. Max(I) \in I /\ \A y \in I : y <= Max(I)
    <3> HIDE DEF I
    <3> QED
      BY <2>1 DEF Max
  <2>3. Complete(s) \in I /\ \A y \in I : y <= Complete(s)
    BY <1>1, <1>3, <2>2
  <2> QED
    BY <2>3
<1> QED
  BY <1>2, <1>3

\* How many messages there are among items.
LEMMA MessagesNat ==
  ASSUME NEW s \in Seq(Items)
  PROVE  /\ Messages(s) \in Nat
         /\ IsFiniteSet({i \in 1..Len(s) : s[i] = "last"})
         /\ Messages(s) = Cardinality({i \in 1..Len(s) : s[i] = "last"})
<1>1. DOMAIN s = 1..Len(s)
  OBVIOUS
<1>2. IsFiniteSet(1..Len(s))
  BY FS_Interval
<1>3. IsFiniteSet({i \in 1..Len(s) : s[i] = "last"})
  BY <1>2, FS_Subset
<1> QED
  BY <1>1, <1>3, FS_CardinalityType DEF Messages

LEMMA MessagesAppend ==
  ASSUME NEW s \in Seq(Items), NEW x \in Items
  PROVE  Messages(Append(s, x)) = Messages(s) + (IF x = "last" THEN 1 ELSE 0)
<1> DEFINE S(t) == {i \in 1..Len(t) : t[i] = "last"}
           n == Len(s) + 1
<1>1. Append(s, x) \in Seq(Items)
  OBVIOUS
<1>2. CASE x = "last"
  <2>1. S(Append(s, x)) = S(s) \cup {n} /\ n \notin S(s)
    BY <1>2
  <2>2. IsFiniteSet(S(s)) /\ Messages(s) = Cardinality(S(s)) /\ Messages(s) \in Nat
    BY MessagesNat
  <2>3. Messages(Append(s, x)) = Cardinality(S(Append(s, x)))
    BY <1>1, MessagesNat
  <2>4. Cardinality(S(s) \cup {n}) = Cardinality(S(s)) + 1
    <3> HIDE DEF S, n
    <3> QED
      BY <2>1, <2>2, FS_AddElement
  <2> HIDE DEF S, n
  <2> QED
    BY <1>2, <2>1, <2>2, <2>3, <2>4
<1>3. CASE x # "last"
  <2>1. S(Append(s, x)) = S(s)
    BY <1>3
  <2>2. /\ Messages(Append(s, x)) = Cardinality(S(Append(s, x)))
        /\ Messages(s) = Cardinality(S(s)) /\ Messages(s) \in Nat
    BY <1>1, MessagesNat
  <2> HIDE DEF S
  <2> QED
    BY <1>3, <2>1, <2>2
<1> QED
  BY <1>2, <1>3

LEMMA MessagesTail ==
  ASSUME NEW s \in Seq(Items), s # << >>
  PROVE  Messages(s) = Messages(Tail(s)) + (IF Head(s) = "last" THEN 1 ELSE 0)
<1> DEFINE S(t) == {i \in 1..Len(t) : t[i] = "last"}
           f == [i \in S(Tail(s)) |-> i + 1]
<1>1. Tail(s) \in Seq(Items)
  OBVIOUS
<1>2. /\ IsFiniteSet(S(s)) /\ Messages(s) = Cardinality(S(s))
      /\ IsFiniteSet(S(Tail(s))) /\ Messages(Tail(s)) = Cardinality(S(Tail(s)))
      /\ Messages(s) \in Nat /\ Messages(Tail(s)) \in Nat
  BY <1>1, MessagesNat
<1>3. ExistsBijection(S(Tail(s)), S(s) \ {1})
  <2>1. f \in [S(Tail(s)) -> S(s) \ {1}]
    OBVIOUS
  <2>2. \A i, j \in S(Tail(s)) : f[i] = f[j] => i = j
    OBVIOUS
  <2>3. ASSUME NEW k \in S(s) \ {1} PROVE \E i \in S(Tail(s)) : f[i] = k
    <3>1. k - 1 \in S(Tail(s)) /\ f[k - 1] = k
      OBVIOUS
    <3> QED
      BY <3>1
  <2> HIDE DEF f, S
  <2> QED
    BY <2>1, <2>2, <2>3 DEF ExistsBijection, Bijection, Injection, Surjection, IsInjective
<1>4. Cardinality(S(s) \ {1}) = Cardinality(S(Tail(s)))
  <2> HIDE DEF S
  <2> QED
    BY <1>2, <1>3, FS_Bijection
<1>5. 1 \in S(s) <=> Head(s) = "last"
  OBVIOUS
<1>6. Cardinality(S(s) \ {1}) = IF 1 \in S(s) THEN Cardinality(S(s)) - 1 ELSE Cardinality(S(s))
  <2> HIDE DEF S
  <2> QED
    BY <1>2, FS_RemoveElement
<1> HIDE DEF S, f
<1> QED
  BY <1>2, <1>4, <1>5, <1>6

LEMMA MessagesPrefix ==
  ASSUME NEW s \in Seq(Items), NEW n \in 0..Len(s),
         \A i \in 1..Len(s) : i > n => s[i] # "last"
  PROVE  Messages(SubSeq(s, 1, n)) = Messages(s)
<1> DEFINE S(t) == {i \in 1..Len(t) : t[i] = "last"}
<1>1. SubSeq(s, 1, n) \in Seq(Items)
  OBVIOUS
<1>2. S(SubSeq(s, 1, n)) = S(s)
  OBVIOUS
<1> QED
  BY <1>1, <1>2, MessagesNat

LEMMA MessagesNone ==
  ASSUME NEW s \in Seq(Items), \A i \in 1..Len(s) : s[i] # "last"
  PROVE  Messages(s) = 0
<1>1. {i \in 1..Len(s) : s[i] = "last"} = {}
  OBVIOUS
<1> QED
  BY <1>1, MessagesNat, FS_EmptySet

-----------------------------------------------------------------------------
LEMMA Associative ==
  \A q, a, b \in Seq(Items) : (q \o a) \o b = q \o (a \o b)
<1> SUFFICES ASSUME NEW q \in Seq(Items), NEW a \in Seq(Items), NEW b \in Seq(Items)
             PROVE  (q \o a) \o b = q \o (a \o b)
  BY Zenon
<1> QED
  BY ConcatAssociative

\* What flush and rollback do to a ypipe.
LEMMA FlushedIs ==
  ASSUME NEW y \in YPipes
  PROVE  /\ Flushed(y) \in YPipes
         /\ Flushed(y).queue \o Flushed(y).pending = y.queue \o y.pending
         /\ ~Flushed(y).asleep
         /\ Flushed(y).live <=> y.live
         /\ \A x \in Items : Has(y.queue, x) => Has(Flushed(y).queue, x)
         /\ Flushed(y).pending = SubSeq(y.pending, Complete(y.pending) + 1, Len(y.pending))
<1> DEFINE s == y.pending
           n == Complete(s)
           a == SubSeq(s, 1, n)
           b == SubSeq(s, n + 1, Len(s))
<1>1. s \in Seq(Items) /\ y.queue \in Seq(Items)
  BY DEF YPipes
<1>2. n \in 0..Len(s) /\ Len(s) \in Nat
  BY <1>1, CompleteIs
<1> HIDE DEF n, s
<1>3. a \in Seq(Items) /\ b \in Seq(Items) /\ a \o b = s
  <2>1. a \in Seq(Items) /\ b \in Seq(Items)
    BY <1>1, <1>2
  <2>2. a \o b = SubSeq(s, 1, Len(s))
    <3>1. 1 \in 1..Len(s) + 1 /\ n \in 1 - 1..Len(s) /\ Len(s) \in n..Len(s)
      BY <1>2
    <3> QED
      BY <1>1, <3>1, ConcatAdjacentSubSeq, Zenon
  <2>3. SubSeq(s, 1, Len(s)) = s
    BY <1>1, SubSeqFull
  <2> QED
    BY <2>1, <2>2, <2>3
<1>4. Flushed(y) = [y EXCEPT !.queue = y.queue \o a, !.pending = b, !.asleep = FALSE]
  BY DEF Flushed, n, s
<1> HIDE DEF a, b
<1>5. Flushed(y).queue = y.queue \o a /\ Flushed(y).pending = b
  BY <1>4 DEF YPipes
<1>6. (~Flushed(y).asleep) /\ (Flushed(y).live <=> y.live)
  BY <1>4 DEF YPipes
<1>7. y.queue \o a \in Seq(Items)
  BY <1>1, <1>3
<1>8. Flushed(y) \in YPipes
  BY <1>1, <1>3, <1>4, <1>7 DEF YPipes
<1>9. (y.queue \o a) \o b = y.queue \o s
  <2> DEFINE q == y.queue
  <2>1. q \in Seq(Items) /\ a \in Seq(Items) /\ b \in Seq(Items)
    BY <1>1, <1>3
  <2> HIDE DEF q
  <2>2. (q \o a) \o b = q \o (a \o b)
    BY <2>1, Associative
  <2> QED
    BY <1>3, <2>2 DEF q
<1>10. ASSUME NEW x \in Items, Has(y.queue, x) PROVE Has(y.queue \o a, x)
  <2>1. PICK i \in 1..Len(y.queue) : y.queue[i] = x
    BY <1>10 DEF Has
  <2>2. (y.queue \o a)[i] = x /\ i \in 1..Len(y.queue \o a)
    BY <1>1, <1>3, <2>1
  <2> QED
    BY <2>2 DEF Has
<1> QED
  BY <1>5, <1>6, <1>8, <1>9, <1>10 DEF s, n, b

LEMMA RolledBackIs ==
  ASSUME NEW y \in YPipes
  PROVE  /\ RolledBack(y) \in YPipes
         /\ RolledBack(y).queue = y.queue
         /\ RolledBack(y).pending = SubSeq(y.pending, 1, Complete(y.pending))
         /\ RolledBack(y).asleep <=> y.asleep
         /\ RolledBack(y).live <=> y.live
         /\ \E n \in 0..Len(y.queue \o y.pending) :
              /\ RolledBack(y).queue \o RolledBack(y).pending = SubSeq(y.queue \o y.pending, 1, n)
              /\ \A i \in 1..Len(y.queue \o y.pending) : i > n => (y.queue \o y.pending)[i] = "more"
<1> DEFINE s == y.pending
           n == Complete(s)
           a == SubSeq(s, 1, n)
<1>1. s \in Seq(Items) /\ y.queue \in Seq(Items)
  BY DEF YPipes
<1>2. /\ n \in 0..Len(s) /\ Len(s) \in Nat
      /\ \A i \in 1..Len(s) : i > n => s[i] = "more"
  BY <1>1, CompleteIs
<1> HIDE DEF n
<1>3. a \in Seq(Items)
  BY <1>1, <1>2
<1>4. RolledBack(y) = [y EXCEPT !.pending = a]
  BY DEF RolledBack, n
<1>5. RolledBack(y).queue = y.queue /\ RolledBack(y).pending = a
  BY <1>4 DEF YPipes
<1>6. (RolledBack(y).asleep <=> y.asleep) /\ (RolledBack(y).live <=> y.live)
  BY <1>4 DEF YPipes
<1>7. RolledBack(y) \in YPipes
  <2> HIDE DEF a
  <2> QED
    BY <1>3, <1>4 DEF YPipes
<1> HIDE DEF s
<1>8. /\ y.queue \o a = SubSeq(y.queue \o s, 1, Len(y.queue) + n)
      /\ Len(y.queue) + n \in 0..Len(y.queue \o s)
  <2> DEFINE q == y.queue
             k == Len(q) + n
  <2>1. q \o s \in Seq(Items) /\ Len(q \o s) = Len(q) + Len(s) /\ Len(q) \in Nat
    BY <1>1
  <2>2. /\ SubSeq(q \o s, 1, k) \in Seq(Items) /\ Len(SubSeq(q \o s, 1, k)) = k
        /\ \A i \in 1..k : SubSeq(q \o s, 1, k)[i] = (q \o s)[i]
    <3> DEFINE t == q \o s
    <3>1. t \in Seq(Items) /\ k \in 0..Len(t)
      BY <1>2, <2>1
    <3> HIDE DEF t, k
    <3>2. SubSeq(t, 1, k) \in Seq(Items)
      BY <3>1
    <3>3. Len(SubSeq(t, 1, k)) = k /\ \A i \in 1..k : SubSeq(t, 1, k)[i] = t[i]
      BY <3>1
    <3> QED
      BY <3>2, <3>3 DEF t
  <2>3. /\ q \o a \in Seq(Items) /\ Len(q \o a) = k
        /\ \A i \in 1..k : (q \o a)[i] = (q \o s)[i]
    <3>1. Len(a) = n /\ \A i \in 1..n : a[i] = s[i]
      BY <1>1, <1>2
    <3> HIDE DEF a
    <3>2. /\ q \o a \in Seq(Items) /\ Len(q \o a) = Len(q) + Len(a)
          /\ \A i \in 1..Len(q) + Len(a) : (q \o a)[i] = IF i <= Len(q) THEN q[i] ELSE a[i - Len(q)]
      BY <1>1, <1>3, ConcatProperties, Zenon
    <3>3. \A i \in 1..Len(q) + Len(s) : (q \o s)[i] = IF i <= Len(q) THEN q[i] ELSE s[i - Len(q)]
      BY <1>1, ConcatProperties, Zenon
    <3>4. Len(q) \in Nat /\ n \in Nat /\ Len(s) \in Nat /\ n <= Len(s)
      BY <1>2, <2>1
    <3>5. ASSUME NEW i \in 1..k PROVE (q \o a)[i] = (q \o s)[i]
      <4> DEFINE l == Len(q)
      <4>1. i \in 1..l + Len(a) /\ i \in 1..l + Len(s) /\ (i > l => i - l \in 1..n)
        BY <3>1, <3>4
      <4>2. /\ (q \o a)[i] = IF i <= l THEN q[i] ELSE a[i - l]
            /\ (q \o s)[i] = IF i <= l THEN q[i] ELSE s[i - l]
        BY <3>2, <3>3, <4>1
      <4>3. CASE i <= l
        BY <4>2, <4>3
      <4>4. CASE i > l
        <5>1. a[i - l] = s[i - l]
          BY <3>1, <4>1, <4>4
        <5>2. ~(i <= l)
          BY <3>4, <4>4
        <5> HIDE DEF l
        <5> QED
          BY <4>2, <5>1, <5>2
      <4>5. i <= l \/ i > l
        <5>1. i \in Nat /\ l \in Nat
          BY <3>4, <4>1
        <5> HIDE DEF l
        <5> QED
          BY <5>1
      <4> HIDE DEF l
      <4> QED
        BY <4>3, <4>4, <4>5
    <3>6. Len(q \o a) = k
      BY <3>1, <3>2
    <3> QED
      BY <3>2, <3>5, <3>6
  <2>4. q \o a = SubSeq(q \o s, 1, k)
    <3> HIDE DEF a, k, q
    <3> QED
      BY <2>2, <2>3, SeqEqual
  <2>5. k \in 0..Len(q \o s)
    BY <1>2, <2>1
  <2> QED
    BY <2>4, <2>5
<1>9. \A i \in 1..Len(y.queue \o s) : i > Len(y.queue) + n => (y.queue \o s)[i] = "more"
  BY <1>1, <1>2
<1> QED
  BY <1>5, <1>6, <1>7, <1>8, <1>9 DEF s, n

-----------------------------------------------------------------------------
\* One of the ypipes, one of the ends or one of the mails is replaced.
LEMMA MailAppend ==
  ASSUME NEW m \in Seq(Commands), NEW c \in Commands
  PROVE  /\ Append(m, c) \in Seq(Commands)
         /\ Len(Append(m, c)) = Len(m) + 1
         /\ Append(m, c)[Len(m) + 1] = c
         /\ \A i \in 1..Len(m) : Append(m, c)[i] = m[i]
         /\ \A d : Has(Append(m, c), d) <=> Has(m, d) \/ d = c
<1>1. /\ Append(m, c) \in Seq(Commands)
      /\ Len(Append(m, c)) = Len(m) + 1
      /\ Append(m, c)[Len(m) + 1] = c
      /\ \A i \in 1..Len(m) : Append(m, c)[i] = m[i]
      /\ Len(m) \in Nat
  OBVIOUS
<1>2. ASSUME NEW d PROVE Has(Append(m, c), d) <=> Has(m, d) \/ d = c
  BY <1>1 DEF Has
<1> QED
  BY <1>1, <1>2

LEMMA MailTail ==
  ASSUME NEW m \in Seq(Commands), m # << >>
  PROVE  /\ Tail(m) \in Seq(Commands) /\ Head(m) \in Commands
         /\ Len(m) \in Nat /\ Len(m) > 0 /\ Len(Tail(m)) = Len(m) - 1
         /\ \A i \in 1..Len(Tail(m)) : Tail(m)[i] = m[i + 1]
         /\ Head(m) = m[1]
         /\ \A d : Has(m, d) <=> Has(Tail(m), d) \/ d = Head(m)
<1>1. /\ Tail(m) \in Seq(Commands) /\ Head(m) \in Commands
      /\ Len(m) \in Nat /\ Len(m) > 0 /\ Len(Tail(m)) = Len(m) - 1
      /\ \A i \in 1..Len(Tail(m)) : Tail(m)[i] = m[i + 1]
      /\ Head(m) = m[1]
  OBVIOUS
<1>2. ASSUME NEW d, Has(m, d), d # Head(m) PROVE Has(Tail(m), d)
  <2>1. PICK i \in 1..Len(m) : m[i] = d
    BY <1>2 DEF Has
  <2>2. i # 1
    BY <1>1, <1>2, <2>1
  <2>3. i - 1 \in 1..Len(Tail(m)) /\ Tail(m)[i - 1] = d
    BY <1>1, <2>1, <2>2
  <2> QED
    BY <2>3 DEF Has
<1>3. ASSUME NEW d, Has(Tail(m), d) PROVE Has(m, d)
  <2>1. PICK i \in 1..Len(Tail(m)) : Tail(m)[i] = d
    BY <1>3 DEF Has
  <2>2. i + 1 \in 1..Len(m) /\ m[i + 1] = d
    BY <1>1, <2>1
  <2> QED
    BY <2>2 DEF Has
<1>4. Has(m, Head(m))
  BY <1>1 DEF Has
<1> QED
  BY <1>1, <1>2, <1>3, <1>4

-----------------------------------------------------------------------------
\* What the handlers return.
\* (Provers do better with Boolean members whose value is stated by a predicate.)
Holds(k) == k = TRUE
Pair(E, Y, M, k) == [end |-> E, yp |-> Y, mail |-> M, ok |-> k]

LEMMA PairIs ==
  /\ \A E, Y, M, k : /\ Pair(E, Y, M, k).end = E /\ Pair(E, Y, M, k).yp = Y
                     /\ Pair(E, Y, M, k).mail = M /\ Pair(E, Y, M, k).ok = k
  /\ \A E \in EndPairs, Y \in Seq(YPipes), M \in MailPairs, k \in BOOLEAN :
       Pair(E, Y, M, k) \in Pairs
  /\ \A q \in Pairs : /\ q = Pair(q.end, q.yp, q.mail, q.ok) /\ q.end \in EndPairs
                      /\ q.yp \in Seq(YPipes) /\ q.mail \in MailPairs
                      /\ q.ok \in BOOLEAN
BY DEF Pair, Pairs

SetEnd(q, z) == [q EXCEPT !.end = z]
SetYp(q, z) == [q EXCEPT !.yp = z]
SetMail(q, z) == [q EXCEPT !.mail = z]
SetOk(q, z) == [q EXCEPT !.ok = z]

LEMMA Put ==
  ASSUME NEW E, NEW Y, NEW M, NEW k, NEW z
  PROVE  /\ SetEnd(Pair(E, Y, M, k), z) = Pair(z, Y, M, k)
         /\ SetYp(Pair(E, Y, M, k), z) = Pair(E, z, M, k)
         /\ SetMail(Pair(E, Y, M, k), z) = Pair(E, Y, z, k)
         /\ SetOk(Pair(E, Y, M, k), z) = Pair(E, Y, M, z)
<1>1. SetEnd(Pair(E, Y, M, k), z) = Pair(z, Y, M, k)
  BY DEF Pair, SetEnd
<1>2. SetYp(Pair(E, Y, M, k), z) = Pair(E, z, M, k)
  BY DEF Pair, SetYp
<1>3. SetMail(Pair(E, Y, M, k), z) = Pair(E, Y, z, k)
  BY DEF Pair, SetMail
<1>4. SetOk(Pair(E, Y, M, k), z) = Pair(E, Y, M, z)
  BY DEF Pair, SetOk
<1> QED
  BY <1>1, <1>2, <1>3, <1>4


One(x) == IF x = "last" THEN 1 ELSE 0

EndWith(E, e, r) == [E EXCEPT ![e] = r]
YpWith(Y, i, y) == [Y EXCEPT ![i] = y]
Sent(M, f, c) == [M EXCEPT ![f] = Append(M[f], c)]

\* The members of an end that the handlers change, ...
InState(r, s) == [r EXCEPT !.state = s]
Acking(r, s) == [r EXCEPT !.state = s, !.outpipe = None]
Delaying(r, d) == [r EXCEPT !.delay = d]
Awake(r) == [r EXCEPT !.inActive = TRUE]
Asleep(r) == [r EXCEPT !.inActive = FALSE]
Open(r) == [r EXCEPT !.outActive = TRUE]
Blocked(r) == [r EXCEPT !.outActive = FALSE]
HasRead(r, x) == [r EXCEPT !.msgsRead = r.msgsRead + One(x)]
HasWritten(r, x) == [r EXCEPT !.msgsWritten = r.msgsWritten + One(x)]
Reported(r, n) == [r EXCEPT !.peersMsgsRead = n]
Inbound(r, i) == [r EXCEPT !.inpipe = i]
Outbound(r, i) == [r EXCEPT !.outpipe = i]

\* ... and those of a ypipe.
Written(y, x) == [y EXCEPT !.pending = Append(y.pending, x)]
Popped(y) == [y EXCEPT !.queue = Tail(y.queue)]
Slept(y) == [y EXCEPT !.asleep = TRUE]
Dropped(y) == [y EXCEPT !.live = FALSE, !.queue = << >>, !.pending = << >>]
Deleted(y) == [y EXCEPT !.live = FALSE, !.queue = << >>]

LEMMA InStateIs ==
  ASSUME NEW r \in EndRecords, NEW z \in States
  PROVE  LET s == InState(r, z)
         IN  /\ s \in EndRecords
             /\ s.state = z
             /\ s.inActive = r.inActive
             /\ s.outActive = r.outActive
             /\ s.inpipe = r.inpipe
             /\ s.outpipe = r.outpipe
             /\ s.delay = r.delay
             /\ s.hwm = r.hwm
             /\ s.lwm = r.lwm
             /\ s.msgsRead = r.msgsRead
             /\ s.msgsWritten = r.msgsWritten
             /\ s.peersMsgsRead = r.peersMsgsRead
BY DEF InState, EndRecords, States, None

LEMMA AckingIs ==
  ASSUME NEW r \in EndRecords, NEW z \in States
  PROVE  LET s == Acking(r, z)
         IN  /\ s \in EndRecords
             /\ s.state = z
             /\ s.inActive = r.inActive
             /\ s.outActive = r.outActive
             /\ s.inpipe = r.inpipe
             /\ s.outpipe = 0
             /\ s.delay = r.delay
             /\ s.hwm = r.hwm
             /\ s.lwm = r.lwm
             /\ s.msgsRead = r.msgsRead
             /\ s.msgsWritten = r.msgsWritten
             /\ s.peersMsgsRead = r.peersMsgsRead
BY DEF Acking, EndRecords, States, None

LEMMA DelayingIs ==
  ASSUME NEW r \in EndRecords, NEW z \in BOOLEAN
  PROVE  LET s == Delaying(r, z)
         IN  /\ s \in EndRecords
             /\ s.state = r.state
             /\ s.inActive = r.inActive
             /\ s.outActive = r.outActive
             /\ s.inpipe = r.inpipe
             /\ s.outpipe = r.outpipe
             /\ s.delay = z
             /\ s.hwm = r.hwm
             /\ s.lwm = r.lwm
             /\ s.msgsRead = r.msgsRead
             /\ s.msgsWritten = r.msgsWritten
             /\ s.peersMsgsRead = r.peersMsgsRead
BY DEF Delaying, EndRecords

LEMMA AwakeIs ==
  ASSUME NEW r \in EndRecords
  PROVE  LET s == Awake(r)
         IN  /\ s \in EndRecords
             /\ s.state = r.state
             /\ s.inActive
             /\ s.outActive = r.outActive
             /\ s.inpipe = r.inpipe
             /\ s.outpipe = r.outpipe
             /\ s.delay = r.delay
             /\ s.hwm = r.hwm
             /\ s.lwm = r.lwm
             /\ s.msgsRead = r.msgsRead
             /\ s.msgsWritten = r.msgsWritten
             /\ s.peersMsgsRead = r.peersMsgsRead
BY DEF Awake, EndRecords

LEMMA AsleepIs ==
  ASSUME NEW r \in EndRecords
  PROVE  LET s == Asleep(r)
         IN  /\ s \in EndRecords
             /\ s.state = r.state
             /\ ~s.inActive
             /\ s.outActive = r.outActive
             /\ s.inpipe = r.inpipe
             /\ s.outpipe = r.outpipe
             /\ s.delay = r.delay
             /\ s.hwm = r.hwm
             /\ s.lwm = r.lwm
             /\ s.msgsRead = r.msgsRead
             /\ s.msgsWritten = r.msgsWritten
             /\ s.peersMsgsRead = r.peersMsgsRead
BY DEF Asleep, EndRecords

LEMMA OpenIs ==
  ASSUME NEW r \in EndRecords
  PROVE  LET s == Open(r)
         IN  /\ s \in EndRecords
             /\ s.state = r.state
             /\ s.inActive = r.inActive
             /\ s.outActive
             /\ s.inpipe = r.inpipe
             /\ s.outpipe = r.outpipe
             /\ s.delay = r.delay
             /\ s.hwm = r.hwm
             /\ s.lwm = r.lwm
             /\ s.msgsRead = r.msgsRead
             /\ s.msgsWritten = r.msgsWritten
             /\ s.peersMsgsRead = r.peersMsgsRead
BY DEF Open, EndRecords

LEMMA BlockedIs ==
  ASSUME NEW r \in EndRecords
  PROVE  LET s == Blocked(r)
         IN  /\ s \in EndRecords
             /\ s.state = r.state
             /\ s.inActive = r.inActive
             /\ ~s.outActive
             /\ s.inpipe = r.inpipe
             /\ s.outpipe = r.outpipe
             /\ s.delay = r.delay
             /\ s.hwm = r.hwm
             /\ s.lwm = r.lwm
             /\ s.msgsRead = r.msgsRead
             /\ s.msgsWritten = r.msgsWritten
             /\ s.peersMsgsRead = r.peersMsgsRead
BY DEF Blocked, EndRecords

LEMMA HasReadIs ==
  ASSUME NEW r \in EndRecords, NEW z
  PROVE  LET s == HasRead(r, z)
         IN  /\ s \in EndRecords
             /\ s.state = r.state
             /\ s.inActive = r.inActive
             /\ s.outActive = r.outActive
             /\ s.inpipe = r.inpipe
             /\ s.outpipe = r.outpipe
             /\ s.delay = r.delay
             /\ s.hwm = r.hwm
             /\ s.lwm = r.lwm
             /\ s.msgsRead = r.msgsRead + One(z)
             /\ s.msgsWritten = r.msgsWritten
             /\ s.peersMsgsRead = r.peersMsgsRead
<1>1. One(z) \in Nat
  BY DEF One
<1>2. r.msgsRead + One(z) \in Nat
  BY <1>1 DEF EndRecords
<1> HIDE DEF One
<1> QED
  BY <1>2 DEF HasRead, EndRecords

LEMMA HasWrittenIs ==
  ASSUME NEW r \in EndRecords, NEW z
  PROVE  LET s == HasWritten(r, z)
         IN  /\ s \in EndRecords
             /\ s.state = r.state
             /\ s.inActive = r.inActive
             /\ s.outActive = r.outActive
             /\ s.inpipe = r.inpipe
             /\ s.outpipe = r.outpipe
             /\ s.delay = r.delay
             /\ s.hwm = r.hwm
             /\ s.lwm = r.lwm
             /\ s.msgsRead = r.msgsRead
             /\ s.msgsWritten = r.msgsWritten + One(z)
             /\ s.peersMsgsRead = r.peersMsgsRead
<1>1. One(z) \in Nat
  BY DEF One
<1>2. r.msgsWritten + One(z) \in Nat
  BY <1>1 DEF EndRecords
<1> HIDE DEF One
<1> QED
  BY <1>2 DEF HasWritten, EndRecords

LEMMA ReportedIs ==
  ASSUME NEW r \in EndRecords, NEW z \in Nat
  PROVE  LET s == Reported(r, z)
         IN  /\ s \in EndRecords
             /\ s.state = r.state
             /\ s.inActive = r.inActive
             /\ s.outActive = r.outActive
             /\ s.inpipe = r.inpipe
             /\ s.outpipe = r.outpipe
             /\ s.delay = r.delay
             /\ s.hwm = r.hwm
             /\ s.lwm = r.lwm
             /\ s.msgsRead = r.msgsRead
             /\ s.msgsWritten = r.msgsWritten
             /\ s.peersMsgsRead = z
BY DEF Reported, EndRecords

LEMMA InboundIs ==
  ASSUME NEW r \in EndRecords, NEW z \in Nat
  PROVE  LET s == Inbound(r, z)
         IN  /\ s \in EndRecords
             /\ s.state = r.state
             /\ s.inActive = r.inActive
             /\ s.outActive = r.outActive
             /\ s.inpipe = z
             /\ s.outpipe = r.outpipe
             /\ s.delay = r.delay
             /\ s.hwm = r.hwm
             /\ s.lwm = r.lwm
             /\ s.msgsRead = r.msgsRead
             /\ s.msgsWritten = r.msgsWritten
             /\ s.peersMsgsRead = r.peersMsgsRead
BY DEF Inbound, EndRecords, EndPairs

LEMMA OutboundIs ==
  ASSUME NEW r \in EndRecords, NEW z \in Nat
  PROVE  LET s == Outbound(r, z)
         IN  /\ s \in EndRecords
             /\ s.state = r.state
             /\ s.inActive = r.inActive
             /\ s.outActive = r.outActive
             /\ s.inpipe = r.inpipe
             /\ s.outpipe = z
             /\ s.delay = r.delay
             /\ s.hwm = r.hwm
             /\ s.lwm = r.lwm
             /\ s.msgsRead = r.msgsRead
             /\ s.msgsWritten = r.msgsWritten
             /\ s.peersMsgsRead = r.peersMsgsRead
BY DEF Outbound, EndRecords, States, None

LEMMA WrittenIs ==
  ASSUME NEW y \in YPipes, NEW x \in Items
  PROVE  /\ Written(y, x) \in YPipes
         /\ Written(y, x).queue = y.queue /\ Written(y, x).pending = Append(y.pending, x)
         /\ Written(y, x).asleep = y.asleep /\ Written(y, x).live = y.live
BY DEF Written, YPipes

LEMMA PoppedIs ==
  ASSUME NEW y \in YPipes, y.queue # << >>
  PROVE  /\ Popped(y) \in YPipes
         /\ Popped(y).queue = Tail(y.queue) /\ Popped(y).pending = y.pending
         /\ Popped(y).asleep = y.asleep /\ Popped(y).live = y.live
BY DEF Popped, YPipes

LEMMA SleptIs ==
  ASSUME NEW y \in YPipes
  PROVE  /\ Slept(y) \in YPipes
         /\ Slept(y).queue = y.queue /\ Slept(y).pending = y.pending
         /\ Slept(y).asleep = TRUE /\ Slept(y).live = y.live
BY DEF Slept, YPipes

LEMMA DroppedIs ==
  ASSUME NEW y \in YPipes
  PROVE  /\ Dropped(y) \in YPipes
         /\ Dropped(y).queue = << >> /\ Dropped(y).pending = << >>
         /\ Dropped(y).asleep = y.asleep /\ ~Dropped(y).live
<1>1. << >> \in Seq(Items)
  OBVIOUS
<1>2. Dropped(y) \in YPipes
  BY <1>1 DEF Dropped, YPipes
<1>3. Dropped(y).queue = << >> /\ Dropped(y).pending = << >>
  BY DEF Dropped, YPipes
<1>4. Dropped(y).asleep = y.asleep
  BY DEF Dropped, YPipes
<1>5. ~Dropped(y).live
  BY DEF Dropped, YPipes
<1> QED
  BY <1>2, <1>3, <1>4, <1>5

LEMMA DeletedIs ==
  ASSUME NEW y \in YPipes
  PROVE  /\ Deleted(y) \in YPipes
         /\ Deleted(y).queue = << >> /\ Deleted(y).pending = y.pending
         /\ Deleted(y).asleep = y.asleep /\ ~Deleted(y).live
<1>1. << >> \in Seq(Items)
  OBVIOUS
<1>2. Deleted(y) \in YPipes
  BY <1>1 DEF Deleted, YPipes
<1>3. Deleted(y).queue = << >> /\ Deleted(y).pending = y.pending
  BY DEF Deleted, YPipes
<1>4. Deleted(y).asleep = y.asleep
  BY DEF Deleted, YPipes
<1>5. ~Deleted(y).live
  BY DEF Deleted, YPipes
<1> QED
  BY <1>2, <1>3, <1>4, <1>5

LEMMA NewYPipeIs == NewYPipe \in YPipes
BY DEF NewYPipe, YPipes

LEMMA EndWithIs ==
  ASSUME NEW E \in EndPairs, NEW e \in Ends, NEW r \in EndRecords
  PROVE  /\ EndWith(E, e, r) \in EndPairs
         /\ EndWith(E, e, r)[e] = r
         /\ EndWith(E, e, r)[Peer(e)] = E[Peer(e)]
BY PeerIs DEF EndWith, EndPairs

LEMMA YpWithIs ==
  ASSUME NEW Y \in Seq(YPipes), NEW i \in 1..Len(Y), NEW y \in YPipes
  PROVE  /\ YpWith(Y, i, y) \in Seq(YPipes)
         /\ Len(YpWith(Y, i, y)) = Len(Y)
         /\ YpWith(Y, i, y)[i] = y
         /\ \A j \in 1..Len(Y) : j # i => YpWith(Y, i, y)[j] = Y[j]
BY DEF YpWith

LEMMA SentIs ==
  ASSUME NEW M \in MailPairs, NEW f \in Ends, NEW c \in Commands
  PROVE  /\ Sent(M, f, c) \in MailPairs
         /\ Sent(M, f, c)[f] = Append(M[f], c)
         /\ Sent(M, f, c)[Peer(f)] = M[Peer(f)]
<1>1. Append(M[f], c) \in Seq(Commands)
  BY MailAppend DEF MailPairs
<1> QED
  BY <1>1, PeerIs DEF Sent, MailPairs

-----------------------------------------------------------------------------
LEMMA SendToIs ==
  ASSUME NEW E, NEW Y, NEW M \in MailPairs, NEW k, NEW f \in Ends, NEW c
  PROVE  SendTo(Pair(E, Y, M, k), f, c) = Pair(E, Y, Sent(M, f, c), k)
<1> DEFINE q == Pair(E, Y, M, k)
<1>1. q.mail = M
  BY PairIs
<1>2. SendTo(q, f, c) = SetMail(q, Sent(M, f, c))
  BY <1>1 DEF SendTo, SetMail, Sent, MailPairs
<1> QED
  BY <1>2, Put

LEMMA AckToIs ==
  ASSUME NEW E \in EndPairs, NEW Y, NEW M \in MailPairs, NEW k,
         NEW e \in Ends, NEW s
  PROVE  AckTo(Pair(E, Y, M, k), e, s) =
           Pair(EndWith(E, e, Acking(E[e], s)), Y, Sent(M, Peer(e), Ack), k)
<1> DEFINE q == Pair(E, Y, M, k)
           E2 == EndWith(E, e, Acking(E[e], s))
<1>1. q.end = E
  BY PairIs
<1>2. AckTo(q, e, s) = SendTo(SetEnd(q, E2), Peer(e), Ack)
  BY <1>1 DEF AckTo, Ack, SetEnd, EndRecords, EndPairs, EndWith, Acking
<1> QED
  BY <1>2, Put, SendToIs, PeerIs

LEMMA WriteIs ==
  ASSUME NEW E \in EndPairs, NEW Y \in Seq(YPipes), NEW M, NEW k,
         NEW x \in Items, E[1].outpipe \in 1..Len(Y), E[1].outActive, E[1].state = "active"
  PROVE  LET q == Pair(E, Y, M, k)
             o == E[1].outpipe
         IN  /\ ~Full(E[1]) =>
                  /\ check_write(q, 1)
                  /\ write(q, 1, x) = Pair(EndWith(E, 1, HasWritten(E[1], x)),
                                           YpWith(Y, o, Written(Y[o], x)), M, k)
             /\ Full(E[1]) =>
                  /\ ~check_write(q, 1)
                  /\ write(q, 1, x) = Pair(EndWith(E, 1, Blocked(E[1])), Y, M, k)
<1> DEFINE q == Pair(E, Y, M, k)
           o == E[1].outpipe
           E1 == EndWith(E, 1, HasWritten(E[1], x))
           Y1 == YpWith(Y, o, Written(Y[o], x))
           E2 == EndWith(E, 1, Blocked(E[1]))
<1>1. q.end = E /\ q.yp = Y
  BY PairIs
<1>2. check_write(q, 1) <=> ~Full(E[1])
  BY <1>1 DEF check_write
<1>3. CASE ~Full(E[1])
  <2>1. write(q, 1, x) = SetEnd(SetYp(q, Y1), E1)
    BY <1>1, <1>2, <1>3 DEF write, SetEnd, SetYp, YPipes, EndRecords, EndPairs, Ends, EndWith, HasWritten, YpWith, Written, One
  <2>2. write(q, 1, x) = Pair(E1, Y1, M, k)
    BY <2>1, Put
  <2> QED
    BY <1>2, <1>3, <2>2
<1>4. CASE Full(E[1])
  <2>1. write(q, 1, x) = SetEnd(q, E2)
    BY <1>1, <1>2, <1>4 DEF write, SetEnd, EndRecords, EndPairs, Ends, EndWith, Blocked
  <2>2. write(q, 1, x) = Pair(E2, Y, M, k)
    <3> HIDE DEF E2
    <3> QED
      BY <2>1, Put
  <2> QED
    BY <1>2, <1>4, <2>2
<1> QED
  BY <1>3, <1>4

LEMMA RollbackIs ==
  ASSUME NEW E, NEW Y \in Seq(YPipes), NEW M, NEW k, NEW e \in Ends, E[e].outpipe \in 0..Len(Y)
  PROVE  LET q == Pair(E, Y, M, k)
             o == E[e].outpipe
         IN  /\ o = None => rollback(q, e) = q
             /\ o # None => rollback(q, e) = Pair(E, YpWith(Y, o, RolledBack(Y[o])), M, k)
<1> DEFINE q == Pair(E, Y, M, k)
           o == E[e].outpipe
<1>1. q.end = E /\ q.yp = Y
  BY PairIs
<1>2. ASSUME o # None PROVE rollback(q, e) = SetYp(q, YpWith(Y, o, RolledBack(Y[o])))
  BY <1>1, <1>2 DEF rollback, SetYp, YpWith
<1>3. o = None => rollback(q, e) = q
  BY <1>1 DEF rollback
<1> QED
  BY <1>2, <1>3, Put

LEMMA FlushIs ==
  ASSUME NEW E, NEW Y \in Seq(YPipes), NEW M \in MailPairs, NEW k, Holds(k),
         NEW e \in Ends, E[e].outpipe \in 0..Len(Y),
         E[e].outpipe # None => Y[E[e].outpipe].live
  PROVE  LET q == Pair(E, Y, M, k)
             o == E[e].outpipe
             same == E[e].state = "terminating" \/ o = None \/ Complete(Y[o].pending) = 0
             Y1 == YpWith(Y, o, Flushed(Y[o]))
         IN  /\ same => flush(q, e) = q
             /\ ~same /\ Y[o].asleep =>
                  flush(q, e) = Pair(E, Y1, Sent(M, Peer(e), Wake), k)
             /\ ~same /\ ~Y[o].asleep => flush(q, e) = Pair(E, Y1, M, k)
<1> DEFINE q == Pair(E, Y, M, k)
           o == E[e].outpipe
           same == E[e].state = "terminating" \/ o = None \/ Complete(Y[o].pending) = 0
           Y1 == YpWith(Y, o, Flushed(Y[o]))
           live == k /\ Y[o].live
           r == SetOk(SetYp(q, Y1), live)
<1>1. q.end = E /\ q.yp = Y /\ q.ok = k
  BY PairIs
<1>2. same => flush(q, e) = q
  BY <1>1 DEF flush
<1>3. ASSUME ~same PROVE flush(q, e) = IF Y[o].asleep THEN SendTo(r, Peer(e), Wake) ELSE r
  BY <1>1, <1>3 DEF flush, SetYp, SetOk, Wake, YpWith
<1>9. ~same => live = k
  BY DEF Holds
<1> HIDE DEF live, o, same
<1>4. r = Pair(E, Y1, M, live)
  BY Put
<1> HIDE DEF r
<1>5. SendTo(r, Peer(e), Wake) = Pair(E, Y1, Sent(M, Peer(e), Wake), live)
  BY <1>4, SendToIs, PeerIs
<1>6. /\ ~same /\ Y[o].asleep => flush(q, e) = Pair(E, Y1, Sent(M, Peer(e), Wake), live)
      /\ ~same /\ ~Y[o].asleep => flush(q, e) = Pair(E, Y1, M, live)
  BY <1>3, <1>4, <1>5
<1> QED
  BY <1>2, <1>6, <1>9 DEF o, same

LEMMA SleepIs ==
  ASSUME NEW E \in EndPairs, NEW Y \in Seq(YPipes), NEW M, NEW k, Holds(k),
         NEW e \in Ends, E[e].inpipe \in 1..Len(Y), Y[E[e].inpipe].live
  PROVE  LET i == E[e].inpipe
         IN  GoToSleep(Pair(E, Y, M, k), e) =
               Pair(EndWith(E, e, Asleep(E[e])), YpWith(Y, i, Slept(Y[i])), M, k)
<1> DEFINE q == Pair(E, Y, M, k)
           i == E[e].inpipe
           E1 == EndWith(E, e, Asleep(E[e]))
           Y1 == YpWith(Y, i, Slept(Y[i]))
           live == k /\ Y[i].live
<1>1. q.end = E /\ q.yp = Y /\ q.ok = k
  BY PairIs
<1>2. GoToSleep(q, e) = SetOk(SetYp(SetEnd(q, E1), Y1), live)
  BY <1>1 DEF GoToSleep, InPipe, SetOk, SetYp, SetEnd, YPipes, EndRecords, EndPairs, EndWith, Asleep, YpWith, Slept
<1>3. SetOk(SetYp(SetEnd(q, E1), Y1), live) = Pair(E1, Y1, M, live)
  <2> HIDE DEF E1, Y1, live
  <2> QED
    BY Put
<1>9. live = k
  BY DEF Holds
<1> HIDE DEF E1, Y1, live, i
<1>4. GoToSleep(q, e) = Pair(E1, Y1, M, live)
  BY <1>2, <1>3
<1> QED
  BY <1>4, <1>9 DEF E1, Y1, i

LEMMA PopIs ==
  ASSUME NEW E \in EndPairs, NEW Y \in Seq(YPipes), NEW M, NEW k, Holds(k),
         NEW e \in Ends, E[e].inpipe \in 1..Len(Y), Y[E[e].inpipe].live
  PROVE  LET i == E[e].inpipe
         IN  Pop(Pair(E, Y, M, k), e) = Pair(E, YpWith(Y, i, Popped(Y[i])), M, k)
<1> DEFINE q == Pair(E, Y, M, k)
           i == E[e].inpipe
           Y1 == YpWith(Y, i, Popped(Y[i]))
           live == k /\ Y[i].live
<1>1. q.end = E /\ q.yp = Y /\ q.ok = k
  BY PairIs
<1>2. Pop(q, e) = SetOk(SetYp(q, Y1), live)
  BY <1>1 DEF Pop, InPipe, YPipes, SetOk, SetYp, YpWith, Popped
<1>9. live = k
  BY DEF Holds
<1> HIDE DEF live, i
<1>3. SetOk(SetYp(q, Y1), live) = Pair(E, Y1, M, live)
  BY Put
<1> QED
  BY <1>2, <1>3, <1>9 DEF i

LEMMA DelimitIs ==
  ASSUME NEW E \in EndPairs, NEW Y \in Seq(YPipes), NEW M \in MailPairs, NEW k, Holds(k),
         NEW e \in Ends, E[e].inpipe \in 1..Len(Y), Y[E[e].inpipe].live
  PROVE  LET q == Pair(E, Y, M, k)
             i == E[e].inpipe
             Y1 == YpWith(Y, i, Popped(Y[i]))
         IN  /\ E[e].state = "active" => delimit(Pop(q, e), e) =
                  Pair(EndWith(E, e, InState(E[e], "delimited")), Y1, M, k)
             /\ E[e].state = "pending" => delimit(Pop(q, e), e) =
                  Pair(EndWith(E, e, Acking(E[e], "terminating")), Y1,
                       Sent(M, Peer(e), Ack), k)
<1> DEFINE q == Pair(E, Y, M, k)
           i == E[e].inpipe
           Y1 == YpWith(Y, i, Popped(Y[i]))
           r == Pop(q, e)
           E1 == EndWith(E, e, InState(E[e], "delimited"))
<1>1. r = Pair(E, Y1, M, k)
  BY PopIs
<1> HIDE DEF r, i
<1>2. r.end = E
  BY <1>1, PairIs
<1>3. CASE E[e].state = "active"
  <2>1. delimit(r, e) = SetEnd(r, E1)
    BY <1>2, <1>3 DEF delimit, SetEnd, EndRecords, EndPairs, EndWith, InState
  <2>2. SetEnd(r, E1) = Pair(E1, Y1, M, k)
    BY <1>1, Put
  <2> QED
    BY <1>3, <2>1, <2>2 DEF r, i
<1>4. CASE E[e].state = "pending"
  <2>1. delimit(r, e) = AckTo(r, e, "terminating")
    BY <1>2, <1>4 DEF delimit
  <2>2. AckTo(r, e, "terminating") = Pair(EndWith(E, e, Acking(E[e], "terminating")), Y1, Sent(M, Peer(e), Ack), k)
    BY <1>1, AckToIs
  <2> QED
    BY <1>4, <2>1, <2>2 DEF r, i
<1> QED
  BY <1>3, <1>4

LEMMA ReadIs ==
  ASSUME NEW E \in EndPairs, NEW Y \in Seq(YPipes), NEW M \in MailPairs, NEW k, Holds(k),
         E[2].inpipe \in 1..Len(Y), Y[E[2].inpipe].live, E[2].inActive, E[2].state \in {"active", "pending"},
         Y[E[2].inpipe].queue # << >>, Head(Y[E[2].inpipe].queue) # "delim"
  PROVE  LET q == Pair(E, Y, M, k)
             i == E[2].inpipe
             r == HasRead(E[2], Head(Y[i].queue))
             E1 == EndWith(E, 2, r)
             Y1 == YpWith(Y, i, Popped(Y[i]))
             lwm == E[2].lwm
         IN  /\ lwm > 0 /\ r.msgsRead % lwm = 0 =>
                  read(q, 2) = Pair(E1, Y1, Sent(M, 1, <<"activate_write", r.msgsRead>>), k)
             /\ ~(lwm > 0 /\ r.msgsRead % lwm = 0) => read(q, 2) = Pair(E1, Y1, M, k)
<1> DEFINE q == Pair(E, Y, M, k)
           i == E[2].inpipe
           new == HasRead(E[2], Head(Y[i].queue))
           n == new.msgsRead
           E1 == EndWith(E, 2, new)
           Y1 == YpWith(Y, i, Popped(Y[i]))
           lwm == E[2].lwm
           r == Pop(q, 2)
           c == <<"activate_write", n>>
           s == SetEnd(r, E1)
<1>1. q.end = E /\ q.yp = Y /\ InPipe(q, 2) = Y[i]
  BY PairIs DEF InPipe
<1>2. 1 \in Ends /\ 2 \in Ends /\ Peer(2) = 1
  BY DEF Ends, Peer
<1>3. r = Pair(E, Y1, M, k)
  BY <1>2, PopIs
<1>4. r.end = E
  <2> HIDE DEF r, Y1
  <2> QED
    BY <1>3, PairIs
<1>5. E1[2].lwm = lwm /\ E1[2].msgsRead = n
  <2>1. E[2] \in EndRecords
    BY <1>2 DEF EndPairs
  <2>2. new \in EndRecords /\ new.lwm = lwm
    BY <2>1, HasReadIs
  <2> HIDE DEF new
  <2> QED
    BY <1>2, <2>2, EndWithIs
<1>6. read(q, 2) = AfterRead(s, 2)
  <2>1. Readable(q, 2)
    BY <1>1 DEF Readable
  <2> QED
    BY <1>1, <1>4, <2>1 DEF read, SetEnd, Ends, EndRecords, EndPairs, EndWith, HasRead, One
<1>7. s = Pair(E1, Y1, M, k)
  <2> HIDE DEF E1, Y1, r
  <2> QED
    BY <1>3, Put
<1> HIDE DEF E1, Y1, r, s, n, new, lwm, c
<1>8. s.end = E1
  BY <1>7, PairIs
<1>9. AfterRead(s, 2) = IF lwm > 0 /\ n % lwm = 0 THEN SendTo(s, 1, c) ELSE s
  BY <1>2, <1>5, <1>8 DEF AfterRead, c
<1>10. SendTo(s, 1, c) = Pair(E1, Y1, Sent(M, 1, c), k)
  BY <1>2, <1>7, SendToIs
<1>11. /\ lwm > 0 /\ n % lwm = 0 => read(q, 2) = Pair(E1, Y1, Sent(M, 1, c), k)
       /\ ~(lwm > 0 /\ n % lwm = 0) => read(q, 2) = Pair(E1, Y1, M, k)
  BY <1>6, <1>7, <1>9, <1>10
<1> QED
  BY <1>11 DEF E1, Y1, c, n, new, lwm

LEMMA TerminateBeginIs ==
  ASSUME NEW E \in EndPairs, NEW Y, NEW M \in MailPairs, NEW k,
         NEW e \in Ends, NEW d \in BOOLEAN
  PROVE  LET q == Pair(E, Y, M, k)
             r == Delaying(E[e], d)
         IN  /\ E[e].state \in {"active", "delimited"} => TerminateBegin(q, e, d) =
                  Pair(EndWith(E, e, InState(r, "terminated")), Y, Sent(M, Peer(e), Term), k)
             /\ E[e].state = "pending" /\ ~d => TerminateBegin(q, e, d) =
                  Pair(EndWith(E, e, Acking(r, "terminating")), Y, Sent(M, Peer(e), Ack), k)
             /\ E[e].state = "pending" /\ d => TerminateBegin(q, e, d) = Pair(EndWith(E, e, r), Y, M, k)
<1> DEFINE q == Pair(E, Y, M, k)
           r == Delaying(E[e], d)
           E0 == EndWith(E, e, r)
           E1 == EndWith(E, e, InState(r, "terminated"))
           E2 == EndWith(E, e, Acking(r, "terminating"))
           s == SetEnd(q, E0)
<1>1. q.end = E
  BY PairIs
<1>2. r \in EndRecords /\ r.state = E[e].state
  BY DelayingIs DEF EndPairs
<1>3. s = [q EXCEPT !.end[e].delay = d]
  BY <1>1 DEF SetEnd, EndWith, Delaying, EndPairs
<1> HIDE DEF r
<1>4. s = Pair(E0, Y, M, k)
  BY Put
<1>5. E0 \in EndPairs /\ E0[e] = r
  BY <1>2, EndWithIs
<1>6. /\ EndWith(E0, e, InState(r, "terminated")) = E1
      /\ EndWith(E0, e, Acking(r, "terminating")) = E2
  BY DEF EndWith
<1> HIDE DEF s
<1>7. s.end = E0
  BY <1>4, PairIs
<1>8. CASE E[e].state \in {"active", "delimited"}
  <2>1. SetEnd(s, E1) = [s EXCEPT !.end[e].state = "terminated"]
    <3>1. [E0 EXCEPT ![e] = [E0[e] EXCEPT !.state = "terminated"]] = E1
      BY <1>2, <1>5, <1>6 DEF EndWith, InState, EndPairs
    <3> HIDE DEF E0, E1
    <3> QED
      BY <1>5, <1>7, <3>1 DEF SetEnd, EndPairs
  <2>2. TerminateBegin(q, e, d) = SendTo(SetEnd(s, E1), Peer(e), Term)
    <3> HIDE DEF E0, E1
    <3> QED
      BY <1>1, <1>3, <1>8, <2>1 DEF TerminateBegin, Term
  <2>3. SetEnd(s, E1) = Pair(E1, Y, M, k)
    BY <1>4, Put
  <2>4. SendTo(SetEnd(s, E1), Peer(e), Term) = Pair(E1, Y, Sent(M, Peer(e), Term), k)
    BY <2>3, PeerIs, SendToIs
  <2> QED
    BY <1>8, <2>2, <2>4 DEF r
<1>9. CASE E[e].state = "pending" /\ ~d
  <2>1. TerminateBegin(q, e, d) = AckTo(s, e, "terminating")
    <3> HIDE DEF E0, E1
    <3> QED
      BY <1>1, <1>3, <1>9 DEF TerminateBegin
  <2>2. AckTo(s, e, "terminating") = Pair(E2, Y, Sent(M, Peer(e), Ack), k)
    <3> HIDE DEF E0
    <3>1. AckTo(s, e, "terminating") = Pair(EndWith(E0, e, Acking(E0[e], "terminating")), Y, Sent(M, Peer(e), Ack), k)
      BY <1>4, <1>5, AckToIs
    <3> QED
      BY <1>5, <1>6, <3>1
  <2> QED
    BY <1>9, <2>1, <2>2 DEF r
<1>10. CASE E[e].state = "pending" /\ d
  <2>1. TerminateBegin(q, e, d) = s
    <3> HIDE DEF E0, E1
    <3> QED
      BY <1>1, <1>3, <1>10 DEF TerminateBegin
  <2> QED
    BY <1>4, <1>10, <2>1 DEF r
<1> QED
  BY <1>8, <1>9, <1>10

LEMMA TerminateEndIs ==
  ASSUME NEW E \in EndPairs, NEW Y \in Seq(YPipes), NEW M \in MailPairs, NEW k, Holds(k),
         NEW e \in Ends, E[e].outpipe \in 0..Len(Y), E[e].state = "terminating" => E[e].outpipe = None,
         E[e].outpipe # None => Y[E[e].outpipe].live
  PROVE  LET q == Pair(E, Y, M, k)
             o == E[e].outpipe
             E1 == EndWith(E, e, Blocked(E[e]))
             Y1 == YpWith(Y, o, Flushed(Written(RolledBack(Y[o]), "delim")))
         IN  /\ o = None => TerminateEnd(q, e) = Pair(E1, Y, M, k)
             /\ o # None /\ Y[o].asleep =>
                  TerminateEnd(q, e) = Pair(E1, Y1, Sent(M, Peer(e), Wake), k)
             /\ o # None /\ ~Y[o].asleep => TerminateEnd(q, e) = Pair(E1, Y1, M, k)
<1> DEFINE q == Pair(E, Y, M, k)
           o == E[e].outpipe
           E1 == EndWith(E, e, Blocked(E[e]))
           q1 == Pair(E1, Y, M, k)
           y2 == Written(RolledBack(Y[o]), "delim")
           Y0 == YpWith(Y, o, RolledBack(Y[o]))
           Y2 == YpWith(Y, o, y2)
           Y1 == YpWith(Y, o, Flushed(y2))
<1>1. q.end = E
  BY PairIs
<1>2. Blocked(E[e]) \in EndRecords /\ Blocked(E[e]).outpipe = o
      /\ Blocked(E[e]).state = E[e].state
  BY BlockedIs DEF EndPairs
<1>3. /\ E1 \in EndPairs
      /\ E1[e].outpipe = o /\ E1[e].state = E[e].state
  BY <1>2, EndWithIs
<1>4. SetEnd(q, E1) = [q EXCEPT !.end[e].outActive = FALSE]
  BY <1>1 DEF SetEnd, EndWith, Blocked, EndPairs
<1>5. SetEnd(q, E1) = q1
  <2> HIDE DEF E1
  <2> QED
    BY Put
<1> HIDE DEF E1
<1>6. TerminateEnd(q, e) =
        IF o = None THEN rollback(q1, e)
        ELSE flush([rollback(q1, e) EXCEPT !.yp[o].pending = Append(@, "delim")], e)
  <2> HIDE DEF q1
  <2> QED
    BY <1>1, <1>4, <1>5 DEF TerminateEnd
<1>7. CASE o = None
  <2>1. rollback(q1, e) = q1
    BY <1>3, <1>7, RollbackIs
  <2> QED
    BY <1>6, <1>7, <2>1 DEF E1
<1>8. CASE o # None
  <2>1. o \in 1..Len(Y) /\ Y[o] \in YPipes
    BY <1>8 DEF None
  <2>2. RolledBack(Y[o]) \in YPipes /\ (RolledBack(Y[o]).asleep <=> Y[o].asleep) /\ (RolledBack(Y[o]).live <=> Y[o].live)
    BY <2>1, RolledBackIs
  <2>3. /\ y2 \in YPipes /\ (y2.asleep <=> Y[o].asleep) /\ (y2.live <=> Y[o].live)
        /\ y2.pending = Append(RolledBack(Y[o]).pending, "delim")
    <3>1. "delim" \in Items
      BY DEF Items
    <3> QED
      BY <2>2, <3>1, WrittenIs
  <2>4. rollback(q1, e) = Pair(E1, Y0, M, k)
    BY <1>3, <1>8, RollbackIs
  <2>5. Y0 \in Seq(YPipes) /\ Len(Y0) = Len(Y) /\ Y0[o] = RolledBack(Y[o])
    BY <2>1, <2>2, YpWithIs
  <2>6. Y2 \in Seq(YPipes) /\ Len(Y2) = Len(Y) /\ Y2[o] = y2
    BY <2>1, <2>3, YpWithIs
  <2>7. [Pair(E1, Y0, M, k) EXCEPT !.yp[o].pending = Append(@, "delim")] = SetYp(Pair(E1, Y0, M, k), Y2)
    <3>1. Pair(E1, Y0, M, k).yp = Y0
      BY PairIs
    <3> DEFINE z == [Y0[o] EXCEPT !.pending = Append(Y0[o].pending, "delim")]
    <3>2. [Y0 EXCEPT ![o] = z] = Y2
      <4>1. z = y2
        BY <2>5 DEF Written
      <4>2. YpWith(Y0, o, y2) = Y2
        <5> DEFINE y0 == RolledBack(Y[o])
        <5> HIDE DEF y0, y2
        <5> QED
          BY DEF YpWith
      <4>3. [Y0 EXCEPT ![o] = z] = YpWith(Y0, o, z)
        <5> HIDE DEF z, Y0
        <5> QED
          BY DEF YpWith
      <4> HIDE DEF z, y2, Y0, Y2
      <4> QED
        BY <4>1, <4>2, <4>3
    <3> HIDE DEF Y0, Y2
    <3> QED
      BY <2>1, <2>5, <3>1, <3>2 DEF SetYp
  <2>8. SetYp(Pair(E1, Y0, M, k), Y2) = Pair(E1, Y2, M, k)
    BY Put
  <2>9. Complete(y2.pending) # 0
    <3>1. RolledBack(Y[o]).pending \in Seq(Items) /\ y2.pending \in Seq(Items)
      BY <2>2, <2>3 DEF YPipes
    <3>2. /\ Len(y2.pending) \in 1..Len(y2.pending) /\ Len(y2.pending) > 0
          /\ y2.pending[Len(y2.pending)] = "delim"
      BY <2>3, <3>1
    <3> QED
      BY <3>1, <3>2, CompleteIs
  <2>10. YpWith(Y2, o, Flushed(y2)) = Y1
    BY DEF YpWith
  <2> DEFINE q2 == Pair(E1, Y2, M, k)
  <2>11. TerminateEnd(q, e) = flush(q2, e)
    BY <1>6, <1>8, <2>4, <2>7, <2>8
  <2>12. E[e].state # "terminating"
    BY <1>8
  <2> HIDE DEF y2, Y2, Y1
  <2>14. Y2[o].live
    BY <1>8, <2>3, <2>6
  <2>13. /\ y2.asleep => flush(q2, e) = Pair(E1, YpWith(Y2, o, Flushed(Y2[o])), Sent(M, Peer(e), Wake), k)
         /\ ~y2.asleep => flush(q2, e) = Pair(E1, YpWith(Y2, o, Flushed(Y2[o])), M, k)
    BY <1>3, <1>8, <2>6, <2>9, <2>12, <2>14, FlushIs
  <2>15. /\ Y[o].asleep => flush(q2, e) = Pair(E1, Y1, Sent(M, Peer(e), Wake), k)
         /\ ~Y[o].asleep => flush(q2, e) = Pair(E1, Y1, M, k)
    <3> HIDE DEF q2
    <3> QED
      BY <2>3, <2>6, <2>10, <2>13
  <2>16. /\ Y[o].asleep => TerminateEnd(q, e) = Pair(E1, Y1, Sent(M, Peer(e), Wake), k)
         /\ ~Y[o].asleep => TerminateEnd(q, e) = Pair(E1, Y1, M, k)
    <3> HIDE DEF q, q2, o
    <3> QED
      BY <2>11, <2>15
  <2> HIDE DEF q
  <2> QED
    BY <1>8, <2>16 DEF y2, Y1, E1, q
<1> QED
  BY <1>7, <1>8

LEMMA HiccupIs ==
  ASSUME NEW E \in EndPairs, NEW Y \in Seq(YPipes), NEW M \in MailPairs, NEW k
  PROVE  LET new == Len(Y) + 1
         IN  NewInPipe(Pair(E, Y, M, k), 2) =
               Pair(EndWith(E, 2, Awake(Inbound(E[2], new))), Append(Y, NewYPipe),
                    Sent(M, 1, <<"hiccup", new>>), k)
<1> DEFINE q == Pair(E, Y, M, k)
           new == Len(Y) + 1
           E1 == EndWith(E, 2, Awake(Inbound(E[2], new)))
           Y1 == Append(Y, NewYPipe)
           c == <<"hiccup", new>>
<1>1. q.end = E /\ q.yp = Y
  BY PairIs
<1>2. 1 \in Ends /\ 2 \in Ends /\ Peer(2) = 1
  BY DEF Ends, Peer
<1>3. NewInPipe(q, 2) = SendTo(SetEnd(SetYp(q, Y1), E1), 1, c)
  BY <1>1, <1>2 DEF NewInPipe, SetEnd, SetYp, EndWith, Awake, Inbound, EndRecords, EndPairs
<1> HIDE DEF E1, Y1, c
<1>4. SetEnd(SetYp(q, Y1), E1) = Pair(E1, Y1, M, k)
  BY Put
<1>5. NewInPipe(q, 2) = Pair(E1, Y1, Sent(M, 1, c), k)
  BY <1>2, <1>3, <1>4, SendToIs
<1> QED
  BY <1>5 DEF E1, Y1, c

\* Commands: what is left of the mail, and what the handlers make of the pair.
Received(M, e) == [M EXCEPT ![e] = Tail(M[e])]

LEMMA ReceivedIs ==
  ASSUME NEW M \in MailPairs, NEW e \in Ends, M[e] # << >>
  PROVE  /\ Received(M, e) \in MailPairs
         /\ Received(M, e)[e] = Tail(M[e])
         /\ Received(M, e)[Peer(e)] = M[Peer(e)]
         /\ M[e] \in Seq(Commands) /\ Head(M[e]) \in Commands
<1>1. M[e] \in Seq(Commands)
  BY DEF MailPairs
<1>2. Tail(M[e]) \in Seq(Commands) /\ Head(M[e]) \in Commands
  BY <1>1
<1> QED
  BY <1>1, <1>2, PeerIs DEF Received, MailPairs

LEMMA ActivateReadIs ==
  ASSUME NEW E \in EndPairs, NEW Y, NEW M, NEW k, NEW e \in Ends
  PROVE  LET q == Pair(E, Y, M, k)
         IN  /\ E[e].state \in {"active", "pending"} =>
                  process_activate_read(q, e) = Pair(EndWith(E, e, Awake(E[e])), Y, M, k)
             /\ E[e].state \notin {"active", "pending"} => process_activate_read(q, e) = q
<1> DEFINE q == Pair(E, Y, M, k)
           E1 == EndWith(E, e, Awake(E[e]))
<1>1. q.end = E
  BY PairIs
<1>2. /\ E[e].state \in {"active", "pending"} => process_activate_read(q, e) = SetEnd(q, E1)
      /\ E[e].state \notin {"active", "pending"} => process_activate_read(q, e) = q
  BY <1>1 DEF process_activate_read, SetEnd, EndWith, Awake, EndPairs
<1> HIDE DEF E1
<1>3. SetEnd(q, E1) = Pair(E1, Y, M, k)
  BY Put
<1> QED
  BY <1>2, <1>3 DEF E1

LEMMA ActivateWriteIs ==
  ASSUME NEW E \in EndPairs, NEW Y, NEW M, NEW k, NEW e \in Ends, NEW n
  PROVE  LET q == Pair(E, Y, M, k)
         IN  /\ E[e].state = "active" => process_activate_write(q, e, n) =
                  Pair(EndWith(E, e, Open(Reported(E[e], n))), Y, M, k)
             /\ E[e].state # "active" =>
                  process_activate_write(q, e, n) = Pair(EndWith(E, e, Reported(E[e], n)), Y, M, k)
<1> DEFINE q == Pair(E, Y, M, k)
           E2 == EndWith(E, e, Open(Reported(E[e], n)))
           E3 == EndWith(E, e, Reported(E[e], n))
<1>1. q.end = E
  BY PairIs
<1>2. E[e].state = "active" => process_activate_write(q, e, n) = SetEnd(q, E2)
  BY <1>1 DEF process_activate_write, SetEnd, EndWith, Open, Reported, EndPairs, EndRecords
<1>3. E[e].state # "active" => process_activate_write(q, e, n) = SetEnd(q, E3)
  BY <1>1 DEF process_activate_write, SetEnd, EndWith, Reported, EndPairs
<1> HIDE DEF E2, E3
<1>4. SetEnd(q, E2) = Pair(E2, Y, M, k) /\ SetEnd(q, E3) = Pair(E3, Y, M, k)
  BY Put
<1> QED
  BY <1>2, <1>3, <1>4 DEF E2, E3

LEMMA ProcessHiccupIs ==
  ASSUME NEW E \in EndPairs, NEW Y \in Seq(YPipes), NEW M, NEW k, Holds(k), NEW e \in Ends, NEW n,
         E[e].outpipe # None, E[e].outpipe \in 1..Len(Y), Holds(Y[E[e].outpipe].live)
  PROVE  LET o == E[e].outpipe
         IN  process_hiccup(Pair(E, Y, M, k), e, n) =
               Pair(EndWith(E, e, Open(Outbound(E[e], n))), YpWith(Y, o, Dropped(Y[o])), M, k)
<1> DEFINE q == Pair(E, Y, M, k)
           o == E[e].outpipe
           E1 == EndWith(E, e, Open(Outbound(E[e], n)))
           Y1 == YpWith(Y, o, Dropped(Y[o]))
           live == k /\ Y[o].live
<1>1. q.end = E /\ q.yp = Y /\ q.ok = k
  BY PairIs
<1>2. process_hiccup(q, e, n) = SetOk(SetEnd(SetYp(q, Y1), E1), live)
  BY <1>1 DEF process_hiccup, SetOk, SetEnd, SetYp, EndWith, YpWith, Open, Outbound, Dropped, EndPairs, EndRecords, YPipes
<1>9. live = k
  BY DEF Holds
<1> HIDE DEF E1, Y1, live, o
<1>3. process_hiccup(q, e, n) = Pair(E1, Y1, M, live)
  BY <1>2, Put
<1> QED
  BY <1>3, <1>9 DEF E1, Y1, o

LEMMA ProcessTermIs ==
  ASSUME NEW E \in EndPairs, NEW Y, NEW M \in MailPairs, NEW k, NEW e \in Ends
  PROVE  LET q == Pair(E, Y, M, k)
             s == E[e].state
             M1 == Sent(M, Peer(e), Ack)
         IN  /\ s = "active" /\ E[e].delay =>
                  process_pipe_term(q, e) = Pair(EndWith(E, e, InState(E[e], "pending")), Y, M, k)
             /\ (s = "active" /\ ~E[e].delay) \/ s = "delimited" =>
                  process_pipe_term(q, e) = Pair(EndWith(E, e, Acking(E[e], "terminating")), Y, M1, k)
             /\ s = "terminated" =>
                  process_pipe_term(q, e) = Pair(EndWith(E, e, Acking(E[e], "double_terminated")), Y, M1, k)
<1> DEFINE q == Pair(E, Y, M, k)
           s == E[e].state
           E1 == EndWith(E, e, InState(E[e], "pending"))
<1>1. q.end = E
  BY PairIs
<1>2. s = "active" /\ E[e].delay => process_pipe_term(q, e) = SetEnd(q, E1)
  <2>1. s = "active" /\ E[e].delay => process_pipe_term(q, e) = [q EXCEPT !.end[e].state = "pending"]
    BY <1>1 DEF process_pipe_term
  <2>2. [q EXCEPT !.end[e].state = "pending"] = SetEnd(q, E1)
    BY <1>1 DEF SetEnd, EndWith, InState, EndPairs
  <2> HIDE DEF E1
  <2> QED
    BY <2>1, <2>2
<1>3. SetEnd(q, E1) = Pair(E1, Y, M, k)
  <2> HIDE DEF E1
  <2> QED
    BY Put
<1>4. (s = "active" /\ ~E[e].delay) \/ s = "delimited" => process_pipe_term(q, e) = AckTo(q, e, "terminating")
  BY <1>1 DEF process_pipe_term
<1>5. s = "terminated" => process_pipe_term(q, e) = AckTo(q, e, "double_terminated")
  BY <1>1 DEF process_pipe_term
<1>6. /\ AckTo(q, e, "terminating") = Pair(EndWith(E, e, Acking(E[e], "terminating")), Y, Sent(M, Peer(e), Ack), k)
      /\ AckTo(q, e, "double_terminated") = Pair(EndWith(E, e, Acking(E[e], "double_terminated")), Y, Sent(M, Peer(e), Ack), k)
  BY AckToIs
<1> QED
  BY <1>2, <1>3, <1>4, <1>5, <1>6

LEMMA ProcessAckIs ==
  ASSUME NEW E \in EndPairs, NEW Y \in Seq(YPipes), NEW M \in MailPairs, NEW k, Holds(k), NEW e \in Ends,
         E[e].inpipe \in 1..Len(Y), Y[E[e].inpipe].live, E[e].state \in {"terminated", "terminating", "double_terminated"}
  PROVE  LET q == Pair(E, Y, M, k)
             i == E[e].inpipe
             Y1 == YpWith(Y, i, Deleted(Y[i]))
         IN  /\ E[e].state = "terminated" => process_pipe_term_ack(q, e) =
                  Pair(EndWith(E, e, Acking(E[e], "dead")), Y1, Sent(M, Peer(e), Ack), k)
             /\ E[e].state # "terminated" => process_pipe_term_ack(q, e) =
                  Pair(EndWith(E, e, InState(E[e], "dead")), Y1, M, k)
<1> DEFINE q == Pair(E, Y, M, k)
           i == E[e].inpipe
           Y1 == YpWith(Y, i, Deleted(Y[i]))
           live == k /\ Y[i].live
           r == LastAck(q, e)
           E1 == EndWith(E, e, Acking(E[e], "dead"))
           E2 == EndWith(E, e, InState(E[e], "dead"))
           M1 == Sent(M, Peer(e), Ack)
<1>1. q.end = E /\ q.yp = Y
  BY PairIs
<1>2. E[e].state = "terminated" => r = Pair(E1, Y, M1, k)
  <2>1. E[e].state = "terminated" => r = AckTo(q, e, "dead")
    BY <1>1 DEF LastAck
  <2> QED
    BY <2>1, AckToIs
<1>3. E[e].state # "terminated" => r = Pair(E2, Y, M, k)
  <2>1. E[e].state # "terminated" => r = SetEnd(q, E2)
    BY <1>1 DEF LastAck, SetEnd, EndWith, InState, EndPairs
  <2> HIDE DEF E2, r
  <2> QED
    BY <2>1, Put
<1> HIDE DEF E1, E2, M1, r
<1>4. r.yp = Y /\ r.ok = k
  BY <1>2, <1>3, PairIs
<1>5. process_pipe_term_ack(q, e) = SetOk(SetYp(r, Y1), live)
  BY <1>1, <1>4 DEF process_pipe_term_ack, SetOk, SetYp, YpWith, Deleted, InPipe, YPipes, r
<1>9. live = k
  BY DEF Holds
<1> HIDE DEF live, i
<1>6. /\ E[e].state = "terminated" => SetOk(SetYp(r, Y1), live) = Pair(E1, Y1, M1, live)
      /\ E[e].state # "terminated" => SetOk(SetYp(r, Y1), live) = Pair(E2, Y1, M, live)
  BY <1>2, <1>3, Put
<1> QED
  BY <1>5, <1>6, <1>9 DEF E1, E2, M1, i

-----------------------------------------------------------------------------
\* Commands that are neither of the handshake nor a hiccup.
Notes == {Wake} \cup ({"activate_write"} \X Nat)

LEMMA CommandIs ==
  ASSUME NEW c \in Commands
  PROVE  /\ c = Term \/ c = Ack \/ c = Wake \/ (\E n \in Nat : c = <<"activate_write", n>>)
              \/ (\E n \in Nat : c = <<"hiccup", n>>)
         /\ c \in Notes \/ c \in {Term, Ack} \/ c[1] = "hiccup"
         /\ c \in Notes => c # Term /\ c # Ack /\ c[1] # "hiccup"
         /\ c \in {Term, Ack, Wake} => c[1] # "hiccup" /\ c[1] # "activate_write"
         /\ c[1] = "hiccup" => c[2] \in Nat /\ c = <<"hiccup", c[2]>> /\ c # Term /\ c # Ack
         /\ c[1] = "activate_write" => c[2] \in Nat /\ c = <<"activate_write", c[2]>>
         /\ Term # Ack
BY DEF Commands, Notes, Term, Ack, Wake

LEMMA CommandSet ==
  /\ Term \in Commands /\ Ack \in Commands /\ Wake \in Commands /\ Wake \in Notes
  /\ \A n \in Nat : /\ <<"activate_write", n>> \in Commands /\ <<"activate_write", n>> \in Notes
                    /\ <<"hiccup", n>> \in Commands
                    /\ <<"activate_write", n>>[1] = "activate_write" /\ <<"activate_write", n>>[2] = n
                    /\ <<"hiccup", n>>[1] = "hiccup" /\ <<"hiccup", n>>[2] = n
BY DEF Commands, Notes, Term, Ack, Wake

LEMMA ControlAppend ==
  ASSUME NEW m \in Seq(Commands), NEW c \in Commands
  PROVE  /\ c \notin {Term, Ack} => Control(Append(m, c)) = Control(m)
         /\ Control(m) = "none" => /\ Control(Append(m, Term)) = "term"
                                   /\ Control(Append(m, Ack)) = "ack"
         /\ Control(m) = "term" => Control(Append(m, Ack)) = "both"
         /\ Control(m) \in {"none", "term"} <=> ~Has(m, Ack)
         /\ Control(m) \in {"none", "ack"} <=> ~Has(m, Term)
BY MailAppend, CommandSet, CommandIs DEF Control

LEMMA ControlTail ==
  ASSUME NEW m \in Seq(Commands), m # << >>, MailOrder(m)
  PROVE  /\ Head(m) \notin {Term, Ack} => Control(Tail(m)) = Control(m)
         /\ Head(m) = Term => /\ Control(m) \in {"term", "both"}
                              /\ Control(m) = "term" => Control(Tail(m)) = "none"
                              /\ Control(m) = "both" => Control(Tail(m)) = "ack"
         /\ Head(m) = Ack => Control(m) = "ack" /\ Tail(m) = << >> /\ Control(Tail(m)) = "none"
<1>1. Head(m) \notin {Term, Ack} => Control(Tail(m)) = Control(m)
  BY MailTail DEF Control
<1>2. ASSUME Head(m) = Term
      PROVE  ~Has(Tail(m), Term)
  <2> SUFFICES ASSUME NEW i \in 1..Len(Tail(m)), Tail(m)[i] = Term PROVE FALSE
    BY DEF Has
  <2>1. m[i + 1] = Term /\ i + 1 \in 1..Len(m) /\ m[1] = Term /\ 1 \in 1..Len(m) /\ i + 1 # 1
    BY <1>2, MailTail
  <2> QED
    BY <2>1 DEF MailOrder
<1>3. ASSUME Head(m) = Ack
      PROVE  Len(m) = 1 /\ Tail(m) = << >>
  <2>1. m[1] = Ack /\ 1 \in 1..Len(m)
    BY <1>3, MailTail
  <2>2. Len(m) = 1
    BY <2>1 DEF MailOrder
  <2>3. Tail(m) \in Seq(Commands) /\ Len(Tail(m)) = 0
    BY <2>2, MailTail
  <2> QED
    BY <2>2, <2>3, EmptySeq
<1>4. Head(m) = Ack => Control(m) = "ack" /\ Control(Tail(m)) = "none"
  <2> SUFFICES ASSUME Head(m) = Ack PROVE Control(m) = "ack" /\ Control(Tail(m)) = "none"
    OBVIOUS
  <2>1. \A d : ~Has(Tail(m), d)
    BY <1>3 DEF Has
  <2>2. Term # Ack
    BY DEF Term, Ack
  <2> QED
    BY <2>1, <2>2, MailTail DEF Control
<1>5. Term # Ack
  BY DEF Term, Ack
<1> QED
  BY <1>1, <1>2, <1>3, <1>4, <1>5, MailTail DEF Control

LEMMA OrderAppend ==
  ASSUME NEW m \in Seq(Commands), NEW c \in Commands, MailOrder(m), ~Has(m, Ack), c = Term => ~Has(m, Term)
  PROVE  MailOrder(Append(m, c))
BY MailAppend DEF MailOrder, Has

LEMMA OrderTail ==
  ASSUME NEW m \in Seq(Commands), m # << >>, MailOrder(m)
  PROVE  MailOrder(Tail(m))
<1>1. ASSUME NEW i \in 1..Len(Tail(m)), NEW j \in 1..Len(Tail(m)), Tail(m)[i] = Term, Tail(m)[j] = Term
      PROVE  i = j
  <2>1. i + 1 \in 1..Len(m) /\ j + 1 \in 1..Len(m) /\ m[i + 1] = Term /\ m[j + 1] = Term
    BY <1>1, MailTail
  <2>2. i + 1 = j + 1
    BY <2>1 DEF MailOrder
  <2> QED
    BY <2>2
<1>2. ASSUME NEW i \in 1..Len(Tail(m)), Tail(m)[i] = Ack PROVE i = Len(Tail(m))
  <2>1. i + 1 \in 1..Len(m) /\ m[i + 1] = Ack
    BY <1>2, MailTail
  <2>2. i + 1 = Len(m)
    BY <2>1 DEF MailOrder
  <2> DEFINE n == Len(Tail(m))
             l == Len(m)
  <2>3. n = l - 1 /\ l \in Nat /\ i \in Nat /\ i + 1 = l
    BY <2>2, MailTail
  <2> HIDE DEF n, l
  <2> QED
    BY <2>3 DEF n
<1> QED
  BY <1>1, <1>2 DEF MailOrder

LEMMA ChainAppend ==
  ASSUME NEW m \in Seq(Commands), NEW c \in Commands, NEW lo \in Nat, NEW hi \in Nat, Chain(m, lo, hi),
         c[1] # "hiccup"
  PROVE  Chain(Append(m, c), lo, hi)
<1> DEFINE n == Append(m, c)
<1>1. /\ Len(n) = Len(m) + 1 /\ n[Len(m) + 1] = c /\ Len(m) \in Nat
      /\ \A i \in 1..Len(m) : n[i] = m[i]
      /\ \A d : Has(m, d) => Has(n, d)
  BY MailAppend
<1>2. \A i \in 1..Len(n) : HiccupAt(n, i) => i \in 1..Len(m) /\ HiccupAt(m, i) /\ n[i] = m[i]
  BY <1>1 DEF HiccupAt
<1> HIDE DEF n
<1>3. \A i \in 1..Len(n) : HiccupAt(n, i) => n[i][2] \in lo + 1 .. hi
  BY <1>2 DEF Chain
<1>4. \A i, j \in 1..Len(n) : HiccupAt(n, i) /\ HiccupAt(n, j) /\ i < j => n[i][2] < n[j][2]
  BY <1>2 DEF Chain
<1>5. \A i, j \in 1..Len(n) : HiccupAt(n, i) /\ n[j] \in {Term, Ack} => i < j
  <2> SUFFICES ASSUME NEW i \in 1..Len(n), NEW j \in 1..Len(n), HiccupAt(n, i), n[j] \in {Term, Ack}
               PROVE  i < j
    OBVIOUS
  <2>1. CASE j \in 1..Len(m)
    BY <1>1, <1>2, <2>1 DEF Chain
  <2>2. CASE j = Len(m) + 1
    BY <1>1, <1>2, <2>2
  <2> QED
    BY <1>1, <2>1, <2>2
<1> QED
  BY <1>1, <1>3, <1>4, <1>5 DEF Chain, n

LEMMA ChainNew ==
  ASSUME NEW m \in Seq(Commands), NEW lo \in Nat, NEW hi \in Nat, lo <= hi, Chain(m, lo, hi),
         ~Has(m, Term), ~Has(m, Ack)
  PROVE  Chain(Append(m, <<"hiccup", hi + 1>>), lo, hi + 1)
<1> DEFINE c == <<"hiccup", hi + 1>>
           n == Append(m, c)
<1>1. c \in Commands /\ c[1] = "hiccup" /\ c[2] = hi + 1 /\ c # Term /\ c # Ack
  BY DEF Commands, Term, Ack
<1> HIDE DEF c
<1>2. /\ Len(n) = Len(m) + 1 /\ n[Len(m) + 1] = c /\ Len(m) \in Nat
      /\ \A i \in 1..Len(m) : n[i] = m[i]
      /\ \A d : Has(n, d) <=> Has(m, d) \/ d = c
  BY <1>1, MailAppend
<1> HIDE DEF n
<1>3. \A i \in 1..Len(n) : \/ i \in 1..Len(m) /\ n[i] = m[i] /\ (HiccupAt(n, i) <=> HiccupAt(m, i))
                           \/ i = Len(m) + 1 /\ n[i] = c
  BY <1>2 DEF HiccupAt
<1>4. \A i \in 1..Len(n) : HiccupAt(n, i) => n[i][2] \in lo + 1 .. hi + 1
  BY <1>1, <1>3 DEF Chain
<1>5. \A i, j \in 1..Len(n) : HiccupAt(n, i) /\ HiccupAt(n, j) /\ i < j => n[i][2] < n[j][2]
  <2> SUFFICES ASSUME NEW i \in 1..Len(n), NEW j \in 1..Len(n), HiccupAt(n, i), HiccupAt(n, j), i < j
               PROVE  n[i][2] < n[j][2]
    OBVIOUS
  <2>1. i \in 1..Len(m) /\ n[i] = m[i] /\ HiccupAt(m, i)
    BY <1>2, <1>3
  <2>2. m[i][2] \in lo + 1 .. hi
    BY <2>1 DEF Chain
  <2>3. CASE j = Len(m) + 1
    BY <1>1, <1>2, <2>1, <2>2, <2>3
  <2>4. CASE j \in 1..Len(m) /\ n[j] = m[j] /\ HiccupAt(m, j)
    BY <2>1, <2>4 DEF Chain
  <2> QED
    BY <1>3, <2>3, <2>4
<1>6. \A k \in lo + 1 .. hi + 1 : Has(n, <<"hiccup", k>>)
  <2> SUFFICES ASSUME NEW k \in lo + 1 .. hi + 1 PROVE Has(n, <<"hiccup", k>>)
    OBVIOUS
  <2>1. CASE k = hi + 1
    BY <1>2, <2>1 DEF c
  <2>2. CASE k \in lo + 1 .. hi
    BY <1>2, <2>2 DEF Chain
  <2> QED
    BY <2>1, <2>2
<1>7. \A i, j \in 1..Len(n) : HiccupAt(n, i) /\ n[j] \in {Term, Ack} => i < j
  BY <1>1, <1>3 DEF Has
<1> QED
  BY <1>4, <1>5, <1>6, <1>7 DEF Chain, n, c

LEMMA ChainTail ==
  ASSUME NEW m \in Seq(Commands), NEW lo \in Nat, NEW hi \in Nat, lo <= hi, Chain(m, lo, hi), m # << >>
  PROVE  /\ Head(m)[1] # "hiccup" => Chain(Tail(m), lo, hi)
         /\ Head(m)[1] = "hiccup" => Head(m) = <<"hiccup", lo + 1>> /\ lo < hi /\ Chain(Tail(m), lo + 1, hi)
         /\ Head(m) \in {Term, Ack} => lo = hi
<1> DEFINE n == Tail(m)
<1>1. /\ Len(n) = Len(m) - 1 /\ Len(m) \in Nat /\ Len(m) > 0 /\ Head(m) = m[1] /\ Head(m) \in Commands
      /\ \A d : Has(m, d) <=> Has(n, d) \/ d = Head(m)
  BY MailTail
<1>2. \A i \in 1..Len(n) : i + 1 \in 1..Len(m) /\ n[i] = m[i + 1] /\ (HiccupAt(n, i) <=> HiccupAt(m, i + 1))
  BY MailTail DEF HiccupAt
<1> HIDE DEF n
<1>3. \A i \in 1..Len(n) : HiccupAt(n, i) => n[i][2] \in lo + 1 .. hi
  BY <1>2 DEF Chain
<1>4. \A i, j \in 1..Len(n) : HiccupAt(n, i) /\ HiccupAt(n, j) /\ i < j => n[i][2] < n[j][2]
  <2> SUFFICES ASSUME NEW i \in 1..Len(n), NEW j \in 1..Len(n), HiccupAt(n, i), HiccupAt(n, j), i < j
               PROVE  n[i][2] < n[j][2]
    OBVIOUS
  <2>1. i + 1 < j + 1
    OBVIOUS
  <2> QED
    BY <1>2, <2>1 DEF Chain
<1>5. \A i, j \in 1..Len(n) : HiccupAt(n, i) /\ n[j] \in {Term, Ack} => i < j
  <2> SUFFICES ASSUME NEW i \in 1..Len(n), NEW j \in 1..Len(n), HiccupAt(n, i), n[j] \in {Term, Ack}
               PROVE  i < j
    OBVIOUS
  <2>1. i + 1 < j + 1
    BY <1>2 DEF Chain
  <2> QED
    BY <2>1
<1>6. ASSUME Head(m)[1] # "hiccup" PROVE Chain(n, lo, hi)
  <2>1. \A k \in lo + 1 .. hi : <<"hiccup", k>> # Head(m)
    BY <1>6
  <2>2. \A k \in lo + 1 .. hi : Has(n, <<"hiccup", k>>)
    BY <1>1, <2>1 DEF Chain
  <2> QED
    BY <1>3, <1>4, <1>5, <2>2 DEF Chain
<1>7. ASSUME Head(m)[1] = "hiccup"
      PROVE  Head(m) = <<"hiccup", lo + 1>> /\ lo < hi /\ Chain(n, lo + 1, hi)
  <2> DEFINE k == Head(m)[2]
  <2>1. Head(m) = <<"hiccup", k>> /\ k \in Nat
    BY <1>1, <1>7, CommandIs
  <2>2. HiccupAt(m, 1) /\ 1 \in 1..Len(m) /\ m[1][2] = k
    BY <1>1, <1>7 DEF HiccupAt
  <2> HIDE DEF k
  <2>3. k \in lo + 1 .. hi
    BY <2>2 DEF Chain
  <2>4. ASSUME NEW i \in 1..Len(m), i # 1, HiccupAt(m, i) PROVE k < m[i][2]
    BY <1>1, <2>2, <2>4 DEF Chain
  <2>5. ASSUME k # lo + 1 PROVE FALSE
    <3>1. lo + 1 \in lo + 1 .. hi
      BY <2>3
    <3>2. PICK i \in 1..Len(m) : m[i] = <<"hiccup", lo + 1>>
      BY <3>1 DEF Chain, Has
    <3>3. HiccupAt(m, i) /\ m[i][2] = lo + 1
      BY <3>2 DEF HiccupAt
    <3>4. i # 1
      BY <2>2, <2>5, <3>3
    <3> QED
      BY <2>3, <2>4, <3>3, <3>4
  <2>6. \A i \in 1..Len(n) : HiccupAt(n, i) => n[i][2] \in (lo + 1) + 1 .. hi
    <3> SUFFICES ASSUME NEW i \in 1..Len(n), HiccupAt(n, i) PROVE n[i][2] \in (lo + 1) + 1 .. hi
      OBVIOUS
    <3>1. n[i][2] \in lo + 1 .. hi
      BY <1>3
    <3>2. i + 1 \in 1..Len(m) /\ i + 1 # 1 /\ HiccupAt(m, i + 1) /\ n[i] = m[i + 1]
      BY <1>2
    <3>3. k < n[i][2]
      BY <2>4, <3>2
    <3> QED
      BY <2>5, <3>1, <3>3
  <2>7. \A j \in (lo + 1) + 1 .. hi : Has(n, <<"hiccup", j>>)
    <3> SUFFICES ASSUME NEW j \in (lo + 1) + 1 .. hi PROVE Has(n, <<"hiccup", j>>)
      OBVIOUS
    <3>1. Has(m, <<"hiccup", j>>) /\ j # k
      BY <2>5 DEF Chain
    <3>2. <<"hiccup", j>> # Head(m)
      BY <2>1, <3>1
    <3> QED
      BY <1>1, <3>1, <3>2
  <2>8. Chain(n, lo + 1, hi)
    BY <1>4, <1>5, <2>6, <2>7 DEF Chain
  <2> QED
    BY <2>1, <2>3, <2>5, <2>8
<1>8. ASSUME Head(m) \in {Term, Ack} PROVE lo = hi
  <2> SUFFICES ASSUME lo < hi PROVE FALSE
    OBVIOUS
  <2>1. hi \in lo + 1 .. hi
    OBVIOUS
  <2>2. PICK i \in 1..Len(m) : m[i] = <<"hiccup", hi>>
    BY <2>1 DEF Chain, Has
  <2>3. HiccupAt(m, i)
    BY <2>2 DEF HiccupAt
  <2>4. i < 1
    BY <1>1, <1>8, <2>3 DEF Chain
  <2> QED
    BY <2>4
<1> QED
  BY <1>6, <1>7, <1>8 DEF n

\* Reports are read in the order in which they were sent.
LEMMA RisingAppend ==
  ASSUME NEW m \in Seq(Commands), NEW c \in Commands, NEW lo \in Nat, NEW hi \in Nat, Rising(m, lo, hi)
  PROVE  /\ c[1] # "activate_write" => Rising(Append(m, c), lo, hi)
         /\ \A n \in Nat : n >= hi => Rising(m, lo, n)
         /\ c[1] = "activate_write" /\ c[2] = hi => Rising(Append(m, c), lo, hi)
<1> DEFINE n == Append(m, c)
<1>1. /\ Len(n) = Len(m) + 1 /\ n[Len(m) + 1] = c /\ Len(m) \in Nat
      /\ \A i \in 1..Len(m) : n[i] = m[i]
  BY MailAppend
<1>2. \A i \in 1..Len(m) : m[i] \in Commands /\ (ReportAt(m, i) => m[i][2] \in Nat)
  BY CommandIs DEF ReportAt
<1> HIDE DEF n
<1>3. \A i \in 1..Len(n) : \/ i \in 1..Len(m) /\ n[i] = m[i] /\ (ReportAt(n, i) <=> ReportAt(m, i))
                           \/ i = Len(m) + 1 /\ n[i] = c /\ (ReportAt(n, i) <=> c[1] = "activate_write")
  BY <1>1 DEF ReportAt
<1>4. ASSUME c[1] # "activate_write" PROVE Rising(n, lo, hi)
  BY <1>3, <1>4 DEF Rising
<1>5. ASSUME NEW k \in Nat, k >= hi PROVE Rising(m, lo, k)
  BY <1>2, <1>5 DEF Rising
<1>6. ASSUME c[1] = "activate_write", c[2] = hi PROVE Rising(n, lo, hi)
  <2>1. \A i \in 1..Len(n) : ReportAt(n, i) => lo <= n[i][2] /\ n[i][2] <= hi
    BY <1>3, <1>6 DEF Rising
  <2>2. ASSUME NEW i \in 1..Len(n), NEW j \in 1..Len(n), ReportAt(n, i), ReportAt(n, j), i < j
        PROVE  n[i][2] <= n[j][2]
    <3>1. CASE j = Len(m) + 1
      BY <1>1, <1>6, <2>1, <2>2, <3>1
    <3>2. CASE j \in 1..Len(m)
      BY <1>1, <1>3, <2>2, <3>2 DEF Rising
    <3> QED
      BY <1>1, <3>1, <3>2
  <2> QED
    BY <2>1, <2>2 DEF Rising
<1> QED
  BY <1>4, <1>5, <1>6 DEF n

LEMMA RisingTail ==
  ASSUME NEW m \in Seq(Commands), NEW lo \in Nat, NEW hi \in Nat, Rising(m, lo, hi), m # << >>
  PROVE  /\ Rising(Tail(m), lo, hi)
         /\ Head(m)[1] = "activate_write" => lo <= Head(m)[2] /\ Head(m)[2] <= hi /\ Rising(Tail(m), Head(m)[2], hi)
<1> DEFINE n == Tail(m)
<1>1. /\ Len(n) = Len(m) - 1 /\ Len(m) \in Nat /\ Len(m) > 0 /\ Head(m) = m[1]
  BY MailTail
<1>2. \A i \in 1..Len(n) : i + 1 \in 1..Len(m) /\ n[i] = m[i + 1] /\ (ReportAt(n, i) <=> ReportAt(m, i + 1))
  BY MailTail DEF ReportAt
<1> HIDE DEF n
<1>3. \A i \in 1..Len(n) : ReportAt(n, i) => lo <= n[i][2] /\ n[i][2] <= hi
  BY <1>2 DEF Rising
<1>4. ASSUME NEW i \in 1..Len(n), NEW j \in 1..Len(n), ReportAt(n, i), ReportAt(n, j), i < j
      PROVE  n[i][2] <= n[j][2]
  <2>1. i + 1 < j + 1
    BY <1>4
  <2> QED
    BY <1>2, <1>4, <2>1 DEF Rising
<1>5. ASSUME Head(m)[1] = "activate_write"
      PROVE  lo <= Head(m)[2] /\ Head(m)[2] <= hi /\ \A i \in 1..Len(n) : ReportAt(n, i) => Head(m)[2] <= n[i][2]
  <2>1. ReportAt(m, 1) /\ 1 \in 1..Len(m) /\ m[1] = Head(m)
    BY <1>1, <1>5 DEF ReportAt
  <2>2. lo <= Head(m)[2] /\ Head(m)[2] <= hi
    BY <2>1 DEF Rising
  <2>3. ASSUME NEW i \in 1..Len(n), ReportAt(n, i) PROVE Head(m)[2] <= n[i][2]
    <3>1. 1 < i + 1
      OBVIOUS
    <3> QED
      BY <1>2, <2>1, <2>3, <3>1 DEF Rising
  <2> QED
    BY <2>2, <2>3
<1> QED
  BY <1>3, <1>4, <1>5 DEF Rising, n

-----------------------------------------------------------------------------
\* The handshake, seen from either end.
LEMMA HandshakeAt ==
  ASSUME NEW e \in Ends
  PROVE  /\ Handshake <=> Shakes(State(e), Control(p.mail[e]), State(Peer(e)), Control(p.mail[Peer(e)]))
         /\ Handshake' <=> Shakes(State(e)', Control(p'.mail[e]), State(Peer(e))', Control(p'.mail[Peer(e)]))
<1>1. \A f \in Ends : f = e \/ f = Peer(e)
  BY DEF Ends, Peer
<1>2. Handshake <=> Row(e) \in Rows \/ Row(Peer(e)) \in Rows
  BY <1>1, PeerIs DEF Handshake
<1>3. Handshake' <=> Row(e)' \in Rows \/ Row(Peer(e))' \in Rows
  BY <1>1, PeerIs DEF Handshake
<1>4. Row(Peer(e)) = <<State(Peer(e)), Control(p.mail[Peer(e)]), State(e), Control(p.mail[e])>>
  BY PeerIs DEF Row
<1>5. Row(Peer(e))' = <<State(Peer(e))', Control(p'.mail[Peer(e)]), State(e)', Control(p'.mail[e])>>
  BY PeerIs DEF Row
<1>6. Row(e) = <<State(e), Control(p.mail[e]), State(Peer(e)), Control(p.mail[Peer(e)])>>
  BY DEF Row
<1>7. Row(e)' = <<State(e)', Control(p'.mail[e]), State(Peer(e))', Control(p'.mail[Peer(e)])>>
  BY DEF Row
<1> QED
  BY <1>2, <1>3, <1>4, <1>5, <1>6, <1>7 DEF Shakes

\* What each move of the handshake does to the row.
LEMMA Moves ==
  ASSUME NEW a, NEW b, NEW c, NEW d, Shakes(a, b, c, d)
  PROVE  /\ a \notin Silent => c # "dead" /\ d \in {"none", "term"}
         /\ a \in {"active", "delimited"} => d = "none" /\ Shakes("terminated", b, c, "term")
         /\ a \in {"active", "pending"} /\ c \notin {"active", "delimited"} => b \in {"none", "term"}
         /\ a = "active" /\ c \notin {"active", "delimited"} => Shakes("delimited", b, c, d)
         /\ a = "pending" => b = "none" /\ c = "terminated" /\ d = "none" /\ Shakes("terminating", b, c, "ack")
         /\ a = "active" => b \in {"none", "term"}
         /\ b = "term" => a \in {"active", "delimited", "terminated"}
         /\ b = "term" /\ a \in {"active", "delimited"} => c = "terminated" /\ d = "none"
         /\ b = "term" /\ a = "active" => Shakes("pending", "none", c, d) /\ Shakes("terminating", "none", c, "ack")
         /\ b = "term" /\ a = "delimited" => Shakes("terminating", "none", c, "ack")
         /\ b = "both" => a = "terminated" /\ d = "none" /\ Shakes("double_terminated", "ack", c, "ack")
         /\ b = "term" /\ a = "terminated" => d = "term" /\ Shakes("double_terminated", "none", c, "both")
         /\ b = "ack" => a \in {"terminated", "terminating", "double_terminated"}
         /\ b = "ack" /\ a = "terminated" => d = "none" /\ c = "terminating" /\ Shakes("dead", "none", c, "ack")
         /\ b = "ack" /\ a # "terminated" => Shakes("dead", "none", c, d)
         /\ a = "dead" => b = "none"
BY DEF Shakes, Rows, Silent

-----------------------------------------------------------------------------
LEMMA TypesAre ==
  ASSUME Types
  PROVE  /\ \A e \in Ends : /\ p.end[e] \in EndRecords /\ State(e) \in States
                            /\ p.mail[e] \in Seq(Commands) /\ Len(p.mail[e]) \in Nat
                            /\ p.end[e].inpipe \in Nat /\ p.end[e].outpipe \in Nat
                            /\ p.end[e].hwm \in Nat /\ p.end[e].lwm \in Nat
                            /\ p.end[e].msgsRead \in Nat /\ p.end[e].msgsWritten \in Nat
                            /\ p.end[e].peersMsgsRead \in Nat
         /\ p.yp \in Seq(YPipes) /\ Len(p.yp) \in Nat /\ p.end \in EndPairs /\ p.mail \in MailPairs
         /\ p.ok \in BOOLEAN /\ p = Pair(p.end, p.yp, p.mail, p.ok)
         /\ \A i \in 1..Len(p.yp) : /\ p.yp[i] \in YPipes /\ p.yp[i].queue \in Seq(Items)
                                    /\ p.yp[i].pending \in Seq(Items) /\ ItemsIn(p.yp[i]) \in Seq(Items)
                                    /\ Len(p.yp[i].queue) \in Nat /\ Len(ItemsIn(p.yp[i])) \in Nat
<1>1. p \in Pairs
  BY DEF Types
<1>2. /\ p.yp \in Seq(YPipes) /\ p.end \in EndPairs /\ p.mail \in MailPairs
      /\ p.ok \in BOOLEAN /\ p = Pair(p.end, p.yp, p.mail, p.ok)
  BY <1>1, PairIs
<1>3. ASSUME NEW e \in Ends
      PROVE  /\ p.end[e] \in EndRecords /\ State(e) \in States
             /\ p.mail[e] \in Seq(Commands) /\ Len(p.mail[e]) \in Nat
             /\ p.end[e].inpipe \in Nat /\ p.end[e].outpipe \in Nat
             /\ p.end[e].hwm \in Nat /\ p.end[e].lwm \in Nat
             /\ p.end[e].msgsRead \in Nat /\ p.end[e].msgsWritten \in Nat
             /\ p.end[e].peersMsgsRead \in Nat
  <2>1. p.end[e] \in EndRecords
    BY <1>2 DEF EndPairs
  <2>2. p.mail[e] \in Seq(Commands)
    BY <1>2 DEF MailPairs
  <2> QED
    BY <2>1, <2>2 DEF EndRecords, State
<1>4. ASSUME NEW i \in 1..Len(p.yp)
      PROVE  /\ p.yp[i] \in YPipes /\ p.yp[i].queue \in Seq(Items)
             /\ p.yp[i].pending \in Seq(Items) /\ ItemsIn(p.yp[i]) \in Seq(Items)
             /\ Len(p.yp[i].queue) \in Nat /\ Len(ItemsIn(p.yp[i])) \in Nat
  <2>1. p.yp[i] \in YPipes
    BY <1>2
  <2>2. p.yp[i].queue \in Seq(Items) /\ p.yp[i].pending \in Seq(Items)
    BY <2>1 DEF YPipes
  <2>3. ItemsIn(p.yp[i]) \in Seq(Items)
    BY <2>2 DEF ItemsIn
  <2> QED
    BY <2>1, <2>2, <2>3
<1>5. Len(p.yp) \in Nat
  BY <1>2
<1> QED
  BY <1>2, <1>3, <1>4, <1>5

LEMMA OneTwo == 1 \in Ends /\ 2 \in Ends /\ Peer(1) = 2 /\ Peer(2) = 1 /\ \A e \in Ends : e = 1 \/ e = 2
BY DEF Ends, Peer

LEMMA NextOutIs ==
  ASSUME Types, Pointers
  PROVE  NextOut \in 2..Len(p.yp) /\ NextOut \in Nat /\ Len(p.yp) \in Nat /\ NextOut <= Len(p.yp)
BY TypesAre DEF NextOut, Pointers, None

\* A step that sends or processes a note and touches neither the states nor the ypipes in use.
LEMMA ProtocolKeeps ==
  ASSUME Types, Types', Handshake, Mails, Pointers, HiccupChain,
         Len(p'.yp) = Len(p.yp),
         \A e \in Ends : /\ p'.end[e].state = p.end[e].state
                         /\ p'.end[e].inpipe = p.end[e].inpipe /\ p'.end[e].outpipe = p.end[e].outpipe,
         NEW f \in Ends, p'.mail[Peer(f)] = p.mail[Peer(f)],
         \/ p'.mail[f] = p.mail[f]
         \/ State(Peer(f)) \notin Silent /\ \E c \in Notes : p'.mail[f] = Append(p.mail[f], c)
         \/ p.mail[f] # << >> /\ Head(p.mail[f]) \in Notes /\ p'.mail[f] = Tail(p.mail[f])
  PROVE  Handshake' /\ Mails' /\ Pointers' /\ HiccupChain' /\ NextOut' = NextOut
<1> DEFINE g == Peer(f)
           m == p.mail[f]
           n == p'.mail[f]
<1>1. /\ g \in Ends /\ g # f /\ Peer(g) = f /\ m \in Seq(Commands)
      /\ \A e \in Ends : e = f \/ e = g
  BY PeerIs, TypesAre DEF Ends, Peer
<1>2. Shakes(State(f), Control(m), State(g), Control(p.mail[g])) /\ Shakes(State(g), Control(p.mail[g]), State(f), Control(m))
  BY <1>1, HandshakeAt
<1>3. MailOrder(m) /\ (State(f) = "dead" => m = << >>)
  BY DEF Mails
<1>4. ASSUME NEW c \in Notes PROVE c \in Commands /\ c # Term /\ c # Ack /\ c[1] # "hiccup"
  BY CommandIs DEF Notes, Commands
<1>5. NextOut' = NextOut
  BY OneTwo DEF NextOut
<1>6. NextOut \in Nat /\ Len(p.yp) \in Nat /\ NextOut <= Len(p.yp)
  BY NextOutIs
<1>7. Control(n) = Control(m) /\ MailOrder(n) /\ (State(f) = "dead" => n = << >>)
  <2>1. CASE n = m
    BY <1>3, <2>1
  <2>2. CASE State(g) \notin Silent /\ \E c \in Notes : n = Append(m, c)
    <3>1. PICK c \in Notes : n = Append(m, c)
      BY <2>2
    <3>2. State(f) # "dead" /\ Control(m) \in {"none", "term"}
      BY <1>2, <2>2, Moves
    <3>3. c \in Commands /\ c # Term /\ c # Ack
      BY <1>4
    <3>4. ~Has(m, Ack) /\ Control(n) = Control(m)
      BY <1>1, <3>1, <3>2, <3>3, ControlAppend
    <3>5. MailOrder(n)
      BY <1>1, <1>3, <3>1, <3>3, <3>4, OrderAppend
    <3> QED
      BY <3>2, <3>4, <3>5
  <2>3. CASE m # << >> /\ Head(m) \in Notes /\ n = Tail(m)
    <3>1. Head(m) # Term /\ Head(m) # Ack
      BY <1>4, <2>3
    <3>2. MailOrder(n) /\ Control(n) = Control(m)
      BY <1>1, <1>3, <2>3, <3>1, OrderTail, ControlTail
    <3> QED
      BY <1>3, <2>3, <3>2
  <2> QED
    BY <2>1, <2>2, <2>3
<1>8. Handshake'
  <2>1. Shakes(State(f)', Control(n), State(g)', Control(p'.mail[g]))
    BY <1>1, <1>2, <1>7 DEF State
  <2> QED
    BY <2>1, HandshakeAt
<1>9. Mails'
  <2>1. MailOrder(p.mail[g]) /\ (State(g) = "dead" => p.mail[g] = << >>)
    BY <1>1 DEF Mails
  <2>2. \A e \in Ends : MailOrder(p'.mail[e])
    BY <1>1, <1>7, <2>1
  <2>3. \A e \in Ends : p'.end[e].state = "dead" => p'.mail[e] = << >>
    BY <1>1, <1>7, <2>1 DEF State
  <2> QED
    BY <2>2, <2>3 DEF Mails, State
<1>10. Pointers'
  BY OneTwo DEF Pointers, State
<1>11. f = 1 => Chain(n, NextOut, Len(p.yp))
  <2>1. f = 1 => Chain(m, NextOut, Len(p.yp))
    BY DEF HiccupChain
  <2>2. CASE n = m
    BY <2>1, <2>2
  <2>3. CASE \E c \in Notes : n = Append(m, c)
    BY <1>1, <1>4, <1>6, <2>1, <2>3, ChainAppend
  <2>4. CASE m # << >> /\ Head(m) \in Notes /\ n = Tail(m)
    BY <1>1, <1>4, <1>6, <2>1, <2>4, ChainTail
  <2> QED
    BY <2>2, <2>3, <2>4
<1>12. f = 2 => \A i \in 1..Len(n) : ~HiccupAt(n, i)
  <2>1. f = 2 => \A i \in 1..Len(m) : ~HiccupAt(m, i)
    BY DEF HiccupChain
  <2>2. CASE n = m
    BY <2>1, <2>2
  <2>3. CASE \E c \in Notes : n = Append(m, c)
    <3>1. PICK c \in Notes : n = Append(m, c)
      BY <2>3
    <3>2. \A i \in 1..Len(n) : (i \in 1..Len(m) /\ n[i] = m[i]) \/ n[i] = c
      BY <1>1, <1>4, <3>1, MailAppend
    <3> QED
      BY <1>4, <2>1, <3>2 DEF HiccupAt
  <2>4. CASE m # << >> /\ n = Tail(m)
    <3>1. \A i \in 1..Len(n) : i + 1 \in 1..Len(m) /\ n[i] = m[i + 1]
      BY <1>1, <2>4, MailTail
    <3> QED
      BY <2>1, <3>1 DEF HiccupAt
  <2> QED
    BY <2>2, <2>3, <2>4
<1>13. HiccupChain'
  <2>1. Chain(p'.mail[1], NextOut, Len(p.yp))
    <3>1. CASE f = 1
      BY <1>11, <3>1
    <3>2. CASE f = 2
      BY <3>2, OneTwo DEF HiccupChain
    <3> QED
      BY <3>1, <3>2, OneTwo
  <2>2. \A i \in 1..Len(p'.mail[2]) : ~HiccupAt(p'.mail[2], i)
    <3>1. CASE f = 2
      BY <1>12, <3>1
    <3>2. CASE f = 1
      BY <3>2, OneTwo DEF HiccupChain
    <3> QED
      BY <3>1, <3>2, OneTwo
  <2>3. State(1)' = "pending" => NextOut = Len(p.yp)
    BY OneTwo DEF HiccupChain, State
  <2> QED
    BY <1>5, <2>1, <2>2, <2>3 DEF HiccupChain
<1> QED
  BY <1>5, <1>8, <1>9, <1>10, <1>13

\* The window is disturbed only by what is written, read and reported.
Steady(m, n) ==
  \/ n = m
  \/ \E c \in Commands : c[1] # "activate_write" /\ n = Append(m, c)
  \/ m # << >> /\ Head(m)[1] # "activate_write" /\ n = Tail(m)

LEMMA WindowKeeps ==
  ASSUME Types, Window, Reports, Steady(p.mail[1], p'.mail[1]),
         p'.end[1].hwm = p.end[1].hwm, p'.end[2].lwm = p.end[2].lwm,
         p'.end[2].msgsRead = p.end[2].msgsRead, p'.end[1].msgsWritten = p.end[1].msgsWritten,
         p'.end[1].peersMsgsRead = p.end[1].peersMsgsRead,
         p'.end[1].state = "active" /\ ~p'.end[1].outActive =>
           (p.end[1].state = "active" /\ ~p.end[1].outActive) \/ Full(p.end[1])
  PROVE  Window' /\ Reports'
<1> DEFINE m == p.mail[1]
           n == p'.mail[1]
           lo == p.end[1].peersMsgsRead
           hi == p.end[2].msgsRead
<1>1. m \in Seq(Commands) /\ lo \in Nat /\ hi \in Nat
  BY TypesAre, OneTwo
<1>2. Rising(n, lo, hi) /\ \A k \in Nat : Has(m, <<"activate_write", k>>) => Has(n, <<"activate_write", k>>)
  <2>1. Rising(m, lo, hi)
    BY DEF Window
  <2> HIDE DEF m, n, lo, hi
  <2>2. CASE n = m
    BY <2>1, <2>2
  <2>3. CASE \E c \in Commands : c[1] # "activate_write" /\ n = Append(m, c)
    BY <1>1, <2>1, <2>3, RisingAppend, MailAppend
  <2>4. CASE m # << >> /\ Head(m)[1] # "activate_write" /\ n = Tail(m)
    <3>1. Rising(n, lo, hi)
      BY <1>1, <2>1, <2>4, RisingTail
    <3>2. \A k \in Nat : <<"activate_write", k>> # Head(m)
      BY <2>4, CommandSet
    <3> QED
      BY <1>1, <2>4, <3>1, <3>2, MailTail
  <2> QED
    BY <2>2, <2>3, <2>4 DEF Steady, m, n
<1>3. Window'
  BY <1>2 DEF Window, Full
<1>4. Reports'
  BY <1>2 DEF Reports
<1> QED
  BY <1>3, <1>4

-----------------------------------------------------------------------------
\* The steps, one by one. What every one of them may use:
LEMMA Known ==
  ASSUME PipeInv
  PROVE  /\ Types /\ p.ok /\ Handshake /\ Mails /\ Pointers /\ HiccupChain /\ Lives /\ Fresh
         /\ Delimiters /\ Leaving /\ Counts /\ Window /\ Reports /\ Sleeping /\ Delimited
         /\ NextOut \in 2..Len(p.yp) /\ NextOut \in Nat /\ Len(p.yp) \in Nat /\ Len(p.yp) >= 2
         /\ p.end[1].inpipe = 1 /\ p.end[2].inpipe = Len(p.yp)
         /\ p.end[1].outpipe \in 0..Len(p.yp) /\ p.end[2].outpipe \in 0..Len(p.yp)
         /\ p.end[1].outpipe # None => p.end[1].outpipe = NextOut
BY NextOutIs DEF PipeInv, Pointers, NextOut, None

LEMMA Next ==
  ASSUME NEW E \in EndPairs, NEW Y \in Seq(YPipes), NEW M \in MailPairs, NEW k, Holds(k),
         p' = Pair(E, Y, M, k), closing' \subseteq Ends, partial' \in BOOLEAN
  PROVE  Types' /\ p'.end = E /\ p'.yp = Y /\ p'.mail = M /\ p'.ok
<1>1. Pair(E, Y, M, k) \in Pairs
  <2>1. k \in BOOLEAN
    BY DEF Holds
  <2> QED
    BY <2>1 DEF Pair, Pairs
<1>2. p'.end = E /\ p'.yp = Y /\ p'.mail = M /\ p'.ok = k
  BY PairIs
<1>3. p'.ok
  BY <1>2 DEF Holds
<1> QED
  BY <1>1, <1>2, <1>3 DEF Types

LEMMA Typed ==
  ASSUME PipeInv
  PROVE  /\ p.end \in EndPairs /\ p.yp \in Seq(YPipes) /\ p.mail \in MailPairs /\ p.ok = TRUE
         /\ p = Pair(p.end, p.yp, p.mail, p.ok)
         /\ p.end[1] \in EndRecords /\ p.end[2] \in EndRecords
         /\ p.mail[1] \in Seq(Commands) /\ p.mail[2] \in Seq(Commands)
         /\ closing \subseteq Ends /\ partial \in BOOLEAN
BY TypesAre, OneTwo DEF PipeInv, Types

LEMMA Names ==
  ASSUME PipeInv
  PROVE  \E E \in EndPairs, Y \in Seq(YPipes), M \in MailPairs : \E k :
           p = Pair(E, Y, M, k) /\ p.end = E /\ p.yp = Y /\ p.mail = M /\ p.ok = k /\ Holds(k)
<1>1. Holds(p.ok)
  BY Typed DEF Holds
<1> QED
  BY <1>1, Typed

LEMMA Places ==
  ASSUME PipeInv
  PROVE  /\ NextOut \in 2..Len(p.yp) /\ NextOut \in 1..Len(p.yp) /\ NextOut \in Nat /\ Len(p.yp) \in Nat /\ Len(p.yp) >= 2
         /\ p.end[1].inpipe = 1 /\ p.end[2].inpipe = Len(p.yp)
         /\ p.end[1].state \notin Silent => p.end[1].outpipe = NextOut /\ p.end[1].outpipe # None
         /\ p.end[2].state \notin Silent => p.end[2].outpipe = 1 /\ p.end[2].outpipe # None
         /\ p.end[1].state \in Silent => p.end[1].outpipe = None /\ NextOut = Len(p.yp)
         /\ p.end[2].state \in Silent => p.end[2].outpipe = None
<1>1. Types /\ Pointers
  BY DEF PipeInv
<1>2. NextOut \in 2..Len(p.yp) /\ NextOut \in Nat /\ Len(p.yp) \in Nat
  BY <1>1, NextOutIs
<1> QED
  BY <1>1, <1>2, OneTwo DEF Pointers, State, NextOut, None

LEMMA Idle ==
  /\ \A E \in EndPairs : \A e \in Ends : EndWith(E, e, E[e]) = E /\ E[e] \in EndRecords
  /\ \A Y \in Seq(YPipes) : \A i \in 1..Len(Y) : YpWith(Y, i, Y[i]) = Y /\ Y[i] \in YPipes
BY DEF EndWith, YpWith, EndPairs

LEMMA SentTo ==
  ASSUME NEW M \in MailPairs, NEW f \in Ends, NEW c \in Commands
  PROVE  /\ Sent(M, f, c) \in MailPairs /\ Sent(M, f, c)[f] = Append(M[f], c)
         /\ \A g \in Ends : g # f => Sent(M, f, c)[g] = M[g]
<1>1. \A g \in Ends : g # f => g = Peer(f)
  BY DEF Ends, Peer
<1> QED
  BY <1>1, SentIs

\* A wakeup stays in the mail when something is added to it.
LEMMA WakeStays ==
  ASSUME NEW m \in Seq(Commands), NEW c \in Commands
  PROVE  (Has(m, Wake) => Has(Append(m, c), Wake)) /\ Has(Append(m, Wake), Wake)
<1>1. Wake \in Commands
  BY CommandSet
<1> QED
  BY <1>1, MailAppend

LEMMA Basics ==
  ASSUME PipeInv
  PROVE  /\ p.end \in EndPairs /\ p.yp \in Seq(YPipes) /\ p.mail \in MailPairs /\ Holds(p.ok)
         /\ p.end[1] \in EndRecords /\ p.end[2] \in EndRecords
         /\ p.mail[1] \in Seq(Commands) /\ p.mail[2] \in Seq(Commands)
         /\ closing \subseteq Ends /\ partial \in BOOLEAN
         /\ NextOut \in 1..Len(p.yp) /\ NextOut # 1 /\ 1 \in 1..Len(p.yp)
         /\ p.end[1].inpipe = 1 /\ p.end[2].inpipe \in 1..Len(p.yp) /\ p.end[2].inpipe # 1
         /\ \A j \in 1..Len(p.yp) : p.yp[j] \in YPipes
         /\ SleepsWell(1) /\ SleepsWell(2) /\ IsDelimited(1) /\ IsDelimited(2)
<1>1. Holds(p.ok)
  BY Typed DEF Holds
<1>2. p.yp \in Seq(YPipes)
  BY Typed
<1>3. \A j \in 1..Len(p.yp) : p.yp[j] \in YPipes
  BY <1>2
<1>4. SleepsWell(1) /\ SleepsWell(2) /\ IsDelimited(1) /\ IsDelimited(2)
  BY OneTwo DEF PipeInv, Sleeping, Delimited
<1>5. /\ NextOut \in 1..Len(p.yp) /\ NextOut # 1 /\ 1 \in 1..Len(p.yp)
      /\ p.end[1].inpipe = 1 /\ p.end[2].inpipe \in 1..Len(p.yp) /\ p.end[2].inpipe # 1
  BY Places
<1> QED
  BY <1>1, <1>3, <1>4, <1>5, Typed

LEMMA NextIs ==
  ASSUME PipeInv, NEW N \in MailPairs, NEW l, Holds(l),
         NEW e \in Ends, NEW r \in EndRecords, NEW i \in 1..Len(p.yp), NEW y \in YPipes,
         p' = Pair(EndWith(p.end, e, r), YpWith(p.yp, i, y), N, l),
         closing' \subseteq Ends, partial' \in BOOLEAN
  PROVE  /\ Types' /\ p'.ok /\ p'.mail = N
         /\ p'.end[e] = r /\ p'.end[Peer(e)] = p.end[Peer(e)]
         /\ Len(p'.yp) = Len(p.yp) /\ p'.yp[i] = y
         /\ \A j \in 1..Len(p.yp) : j # i => p'.yp[j] = p.yp[j]
<1>1. p.end \in EndPairs /\ p.yp \in Seq(YPipes)
  BY Typed
<1>2. EndWith(p.end, e, r) \in EndPairs /\ EndWith(p.end, e, r)[e] = r /\ EndWith(p.end, e, r)[Peer(e)] = p.end[Peer(e)]
  BY <1>1, EndWithIs
<1>3. /\ YpWith(p.yp, i, y) \in Seq(YPipes)
      /\ Len(YpWith(p.yp, i, y)) = Len(p.yp)
      /\ YpWith(p.yp, i, y)[i] = y
      /\ \A j \in 1..Len(p.yp) : j # i => YpWith(p.yp, i, y)[j] = p.yp[j]
  BY <1>1, YpWithIs
<1>4. Types' /\ p'.end = EndWith(p.end, e, r) /\ p'.yp = YpWith(p.yp, i, y) /\ p'.mail = N /\ p'.ok
  BY <1>2, <1>3, Next
<1>5. /\ Len(p'.yp) = Len(p.yp) /\ p'.yp[i] = y
      /\ \A j \in 1..Len(p.yp) : j # i => p'.yp[j] = p.yp[j]
  BY <1>3, <1>4
<1>6. p'.end[e] = r /\ p'.end[Peer(e)] = p.end[Peer(e)]
  BY <1>2, <1>4
<1>7. p'.ok
  BY <1>4
<1> QED
  BY <1>4, <1>5, <1>6, <1>7

LEMMA ConcatAppend == \A q, s \in Seq(Items) : \A x \in Items : q \o Append(s, x) = Append(q \o s, x)
OBVIOUS

\* What is written to and read from a sequence of items.
LEMMA ItemsEmpty == Messages(<< >>) = 0 /\ DelimLast(<< >>) /\ \A x : ~Has(<< >>, x)
<1> DEFINE s == << >>
<1>1. s \in Seq(Items) /\ Len(s) = 0
  OBVIOUS
<1> HIDE DEF s
<1>2. Messages(s) = 0
  <2>1. \A i \in 1..Len(s) : s[i] # "last"
    BY <1>1
  <2> QED
    BY <1>1, <2>1, MessagesNone
<1> QED
  BY <1>2 DEF DelimLast, Has, s

LEMMA ItemsAppend ==
  ASSUME NEW s \in Seq(Items), NEW x \in Items
  PROVE  /\ Append(s, x) \in Seq(Items)
         /\ \A d : Has(Append(s, x), d) <=> Has(s, d) \/ d = x
         /\ ~Has(s, "delim") => DelimLast(Append(s, x))
         /\ Messages(Append(s, x)) = Messages(s) + One(x) /\ Messages(s) \in Nat
<1>1. /\ Append(s, x) \in Seq(Items) /\ Len(Append(s, x)) = Len(s) + 1 /\ Len(s) \in Nat
      /\ Append(s, x)[Len(s) + 1] = x
      /\ \A i \in 1..Len(s) : Append(s, x)[i] = s[i]
  OBVIOUS
<1>2. Messages(Append(s, x)) = Messages(s) + One(x) /\ Messages(s) \in Nat
  BY MessagesAppend, MessagesNat DEF One
<1>3. \A d : Has(Append(s, x), d) <=> Has(s, d) \/ d = x
  BY <1>1 DEF Has
<1>4. ~Has(s, "delim") => DelimLast(Append(s, x))
  BY <1>1 DEF Has, DelimLast
<1> QED
  BY <1>1, <1>2, <1>3, <1>4

LEMMA ItemsTail ==
  ASSUME NEW s \in Seq(Items), s # << >>
  PROVE  /\ Tail(s) \in Seq(Items) /\ Head(s) \in Items
         /\ \A d : Has(Tail(s), d) => Has(s, d)
         /\ \A d : Has(s, d) /\ d # Head(s) => Has(Tail(s), d)
         /\ DelimLast(s) => DelimLast(Tail(s))
         /\ DelimLast(s) /\ Head(s) = "delim" => Tail(s) = << >>
         /\ Messages(s) = Messages(Tail(s)) + One(Head(s)) /\ Messages(Tail(s)) \in Nat
<1>1. /\ Tail(s) \in Seq(Items) /\ Head(s) \in Items
      /\ Len(s) \in Nat /\ Len(s) > 0 /\ Len(Tail(s)) = Len(s) - 1
      /\ \A i \in 1..Len(Tail(s)) : Tail(s)[i] = s[i + 1]
      /\ Head(s) = s[1]
  OBVIOUS
<1>2. ASSUME NEW d, Has(Tail(s), d) PROVE Has(s, d)
  <2>1. PICK i \in 1..Len(Tail(s)) : Tail(s)[i] = d
    BY <1>2 DEF Has
  <2>2. i + 1 \in 1..Len(s) /\ s[i + 1] = d
    BY <1>1, <2>1
  <2> QED
    BY <2>2 DEF Has
<1>3. ASSUME NEW d, Has(s, d), d # Head(s) PROVE Has(Tail(s), d)
  <2>1. PICK i \in 1..Len(s) : s[i] = d
    BY <1>3 DEF Has
  <2>2. i # 1
    BY <1>1, <1>3, <2>1
  <2>3. i - 1 \in 1..Len(Tail(s)) /\ Tail(s)[i - 1] = d
    BY <1>1, <2>1, <2>2
  <2> QED
    BY <2>3 DEF Has
<1>4. ASSUME DelimLast(s) PROVE DelimLast(Tail(s))
  <2> DEFINE t == Tail(s)
  <2>1. Len(s) \in Nat /\ Len(t) = Len(s) - 1 /\ \A i \in 1..Len(t) : t[i] = s[i + 1]
    BY <1>1
  <2> HIDE DEF t
  <2>2. ASSUME NEW i \in 1..Len(t), t[i] = "delim" PROVE i = Len(t)
    <3>1. i + 1 \in 1..Len(s) /\ s[i + 1] = "delim"
      BY <2>1, <2>2
    <3>2. i + 1 = Len(s)
      BY <1>4, <3>1 DEF DelimLast
    <3> QED
      BY <2>1, <3>2
  <2> QED
    BY <2>2 DEF DelimLast, t
<1>5. ASSUME DelimLast(s), Head(s) = "delim" PROVE Tail(s) = << >>
  <2>1. s[1] = "delim" /\ 1 \in 1..Len(s)
    BY <1>1, <1>5
  <2>2. Len(s) = 1
    BY <1>5, <2>1 DEF DelimLast
  <2>3. Tail(s) \in Seq(Items) /\ Len(Tail(s)) = 0
    BY <1>1, <2>2
  <2> QED
    BY <2>3, EmptySeq
<1>6. Messages(s) = Messages(Tail(s)) + One(Head(s)) /\ Messages(Tail(s)) \in Nat
  BY <1>1, MessagesTail, MessagesNat DEF One
<1> QED
  BY <1>1, <1>2, <1>3, <1>4, <1>5, <1>6

LEMMA ItemsPrefix ==
  ASSUME NEW s \in Seq(Items), NEW n \in 0..Len(s), \A i \in 1..Len(s) : i > n => s[i] = "more"
  PROVE  LET t == SubSeq(s, 1, n)
         IN  /\ t \in Seq(Items) /\ Messages(t) = Messages(s)
             /\ Has(t, "delim") <=> Has(s, "delim")
             /\ DelimLast(s) => DelimLast(t)
<1> DEFINE t == SubSeq(s, 1, n)
<1>1. t \in Seq(Items) /\ Len(t) = n /\ (\A i \in 1..n : t[i] = s[i]) /\ Len(s) \in Nat
  OBVIOUS
<1>2. Messages(t) = Messages(s)
  BY MessagesPrefix
<1> HIDE DEF t
<1>3. Has(t, "delim") => Has(s, "delim")
  BY <1>1 DEF Has
<1>4. Has(s, "delim") => Has(t, "delim")
  <2> SUFFICES ASSUME NEW i \in 1..Len(s), s[i] = "delim" PROVE Has(t, "delim")
    BY DEF Has
  <2>1. i \in 1..n
    OBVIOUS
  <2> QED
    BY <1>1, <2>1 DEF Has
<1>5. ASSUME DelimLast(s) PROVE DelimLast(t)
  <2> SUFFICES ASSUME NEW i \in 1..n, t[i] = "delim" PROVE i = n
    BY <1>1 DEF DelimLast
  <2>1. i = Len(s)
    BY <1>1, <1>5 DEF DelimLast
  <2> QED
    BY <2>1
<1> QED
  BY <1>1, <1>2, <1>3, <1>4, <1>5 DEF t

\* ... and from a ypipe.
LEMMA ItemsIs ==
  ASSUME NEW y \in YPipes
  PROVE  /\ y.queue \in Seq(Items) /\ y.pending \in Seq(Items) /\ ItemsIn(y) \in Seq(Items)
         /\ Messages(ItemsIn(y)) \in Nat
         /\ y.queue = << >> /\ y.pending = << >> => ItemsIn(y) = << >>
<1>1. y.queue \in Seq(Items) /\ y.pending \in Seq(Items)
  BY DEF YPipes
<1>2. ItemsIn(y) \in Seq(Items)
  BY <1>1 DEF ItemsIn
<1>3. y.queue = << >> /\ y.pending = << >> => ItemsIn(y) = << >>
  BY DEF ItemsIn
<1> QED
  BY <1>1, <1>2, <1>3, MessagesNat

LEMMA WrittenItems ==
  ASSUME NEW y \in YPipes, NEW x \in Items
  PROVE  ItemsIn(Written(y, x)) = Append(ItemsIn(y), x)
<1>1. Written(y, x).queue = y.queue /\ Written(y, x).pending = Append(y.pending, x)
  BY WrittenIs
<1>2. y.queue \in Seq(Items) /\ y.pending \in Seq(Items)
  BY ItemsIs
<1> QED
  BY <1>1, <1>2, ConcatAppend DEF ItemsIn

LEMMA PoppedItems ==
  ASSUME NEW y \in YPipes, y.queue # << >>
  PROVE  /\ ItemsIn(y) # << >> /\ Head(ItemsIn(y)) = Head(y.queue)
         /\ ItemsIn(Popped(y)) = Tail(ItemsIn(y))
<1>1. Popped(y).queue = Tail(y.queue) /\ Popped(y).pending = y.pending
  BY PoppedIs
<1>2. y.queue \in Seq(Items) /\ y.pending \in Seq(Items)
  BY ItemsIs
<1>3. ASSUME NEW q \in Seq(Items), NEW s \in Seq(Items), q # << >>
      PROVE  q \o s # << >> /\ Head(q \o s) = Head(q) /\ Tail(q) \o s = Tail(q \o s)
  <2>1. Len(q) > 0 /\ Len(q \o s) = Len(q) + Len(s) /\ Len(q) \in Nat /\ Len(s) \in Nat
    BY <1>3
  <2>2. q \o s # << >> /\ Head(q \o s) = Head(q)
    BY <1>3, <2>1
  <2>3. Tail(q) \o s = Tail(q \o s)
    BY <1>3, <2>1
  <2> QED
    BY <2>2, <2>3
<1> QED
  BY <1>1, <1>2, <1>3 DEF ItemsIn

LEMMA SleptItems ==
  ASSUME NEW y \in YPipes
  PROVE  ItemsIn(Slept(y)) = ItemsIn(y)
BY SleptIs DEF ItemsIn

LEMMA DroppedItems ==
  ASSUME NEW y \in YPipes
  PROVE  ItemsIn(Dropped(y)) = << >>
BY DroppedIs DEF ItemsIn

LEMMA FlushedItems ==
  ASSUME NEW y \in YPipes
  PROVE  ItemsIn(Flushed(y)) = ItemsIn(y)
BY FlushedIs DEF ItemsIn

LEMMA RolledBackItems ==
  ASSUME NEW y \in YPipes
  PROVE  /\ Messages(ItemsIn(RolledBack(y))) = Messages(ItemsIn(y))
         /\ Has(ItemsIn(RolledBack(y)), "delim") <=> Has(ItemsIn(y), "delim")
         /\ DelimLast(ItemsIn(y)) => DelimLast(ItemsIn(RolledBack(y)))
<1> DEFINE s == ItemsIn(y)
           t == ItemsIn(RolledBack(y))
<1>1. s \in Seq(Items)
  BY ItemsIs
<1>2. PICK n \in 0..Len(s) : t = SubSeq(s, 1, n) /\ \A i \in 1..Len(s) : i > n => s[i] = "more"
  BY RolledBackIs DEF ItemsIn
<1> HIDE DEF s, t
<1>3. /\ SubSeq(s, 1, n) \in Seq(Items) /\ Messages(SubSeq(s, 1, n)) = Messages(s)
      /\ Has(SubSeq(s, 1, n), "delim") <=> Has(s, "delim")
      /\ DelimLast(s) => DelimLast(SubSeq(s, 1, n))
  BY <1>1, <1>2, ItemsPrefix
<1> QED
  BY <1>2, <1>3 DEF s, t

\* The delimiter that terminate writes is let through with all that is complete.
Closed(y) == Flushed(Written(RolledBack(y), "delim"))

LEMMA ClosedIs ==
  ASSUME NEW y \in YPipes
  PROVE  /\ Closed(y) \in YPipes /\ ~Closed(y).asleep /\ (Closed(y).live <=> y.live)
         /\ Has(Closed(y).queue, "delim")
         /\ Messages(ItemsIn(Closed(y))) = Messages(ItemsIn(y))
         /\ ~Has(ItemsIn(y), "delim") => DelimLast(ItemsIn(Closed(y)))
<1> DEFINE a == RolledBack(y)
           b == Written(a, "delim")
<1>1. a \in YPipes /\ (a.live <=> y.live)
  BY RolledBackIs
<1>2. "delim" \in Items
  BY DEF Items
<1>3. Messages(ItemsIn(a)) = Messages(ItemsIn(y)) /\ (Has(ItemsIn(a), "delim") <=> Has(ItemsIn(y), "delim"))
  BY RolledBackItems
<1> HIDE DEF a
<1>4. b \in YPipes /\ (b.live <=> a.live) /\ b.pending = Append(a.pending, "delim") /\ b.queue = a.queue
  BY <1>1, <1>2, WrittenIs
<1>5. ItemsIn(b) = Append(ItemsIn(a), "delim")
  BY <1>1, <1>2, WrittenItems
<1>6. ItemsIn(a) \in Seq(Items)
  BY <1>1, ItemsIs
<1>7. /\ Messages(ItemsIn(b)) = Messages(ItemsIn(a))
      /\ ~Has(ItemsIn(a), "delim") => DelimLast(ItemsIn(b))
  <2>1. One("delim") = 0
    BY DEF One
  <2> DEFINE s == ItemsIn(a)
  <2> HIDE DEF b, s
  <2>2. s \in Seq(Items) /\ ItemsIn(b) = Append(s, "delim")
    BY <1>5, <1>6 DEF s
  <2>3. /\ ~Has(s, "delim") => DelimLast(Append(s, "delim"))
        /\ Messages(Append(s, "delim")) = Messages(s) + One("delim") /\ Messages(s) \in Nat
    BY <1>2, <2>2, ItemsAppend
  <2>4. Messages(Append(s, "delim")) = Messages(s)
    BY <2>1, <2>3
  <2> QED
    BY <2>2, <2>3, <2>4 DEF s
<1> HIDE DEF b
<1>8. Flushed(b) \in YPipes /\ ~Flushed(b).asleep /\ (Flushed(b).live <=> b.live)
  BY <1>4, FlushedIs
<1>9. ItemsIn(Flushed(b)) = ItemsIn(b)
  BY <1>4, FlushedItems
<1>10. Has(Flushed(b).queue, "delim")
  <2> DEFINE s == b.pending
             n == Complete(s)
             q == b.queue
             g == SubSeq(s, 1, n)
  <2>0. s \in Seq(Items) /\ q \in Seq(Items)
    BY <1>4, ItemsIs
  <2>1. s \in Seq(Items) /\ q \in Seq(Items) /\ Len(s) \in Nat /\ Len(q) \in Nat
    <3> HIDE DEF s, q
    <3> QED
      BY <2>0
  <2>2. Len(s) > 0 /\ s[Len(s)] = "delim"
    <3>1. a.pending \in Seq(Items)
      BY <1>1, ItemsIs
    <3> QED
      BY <1>4, <3>1
  <2>3. n \in 0..Len(s) /\ \A i \in 1..Len(s) : i > n => s[i] = "more"
    BY <2>1, CompleteIs
  <2>4. n = Len(s)
    BY <2>1, <2>2, <2>3
  <2>5. g = s
    BY <2>1, <2>4, SubSeqFull
  <2>6. Flushed(b).queue = q \o g
    BY <1>4 DEF Flushed, YPipes
  <2> HIDE DEF s, q, n, g
  <2>7. (q \o s)[Len(q) + Len(s)] = "delim" /\ Len(q) + Len(s) \in 1..Len(q \o s)
    BY <2>1, <2>2
  <2> QED
    BY <2>5, <2>6, <2>7 DEF Has
<1> QED
  BY <1>1, <1>3, <1>4, <1>7, <1>8, <1>9, <1>10 DEF Closed, a, b

LEMMA NextMultiple ==
  ASSUME NEW l \in Nat, l > 0, NEW n \in Nat, n % l = 0
  PROVE  (n + l) % l = 0
<1> DEFINE k == n \div l
<1>1. n = l * k + (n % l) /\ k \in Nat
  OBVIOUS
<1>2. \A j \in Nat : (j * l) % l = 0
  OBVIOUS
<1> HIDE DEF k
<1>3. n + l = (k + 1) * l /\ k + 1 \in Nat
  BY <1>1
<1> QED
  BY <1>2, <1>3

-----------------------------------------------------------------------------
\* What steps leave alone.
LEMMA LivesKeep ==
  ASSUME PipeInv, NextOut' = NextOut, Len(p'.yp) = Len(p.yp),
         \A e \in Ends : p'.end[e].state # "dead" => p.end[e].state # "dead",
         \A j \in 1..Len(p.yp) : p'.yp[j].live <=> p.yp[j].live
  PROVE  Lives'
<1>1. NextOut \in 1..Len(p.yp) /\ Len(p.yp) \in Nat /\ Len(p.yp) >= 2
  BY Places
<1>2. /\ p.end[1].state # "dead" => p.yp[1].live
      /\ p.end[2].state # "dead" => \A i \in NextOut..Len(p.yp) : p.yp[i].live
  BY DEF PipeInv, Lives, State
<1>3. 1 \in 1..Len(p.yp) /\ \A i \in NextOut..Len(p.yp) : i \in 1..Len(p.yp)
  BY <1>1
<1>4. p'.end[1].state # "dead" => p'.yp[1].live
  BY <1>2, <1>3, OneTwo
<1>5. p'.end[2].state # "dead" => \A i \in NextOut..Len(p.yp) : p'.yp[i].live
  BY <1>2, <1>3, OneTwo
<1> QED
  BY <1>4, <1>5 DEF Lives, State

LEMMA LeavingKeeps ==
  ASSUME Leaving, closing' \subseteq closing, closing \subseteq Ends,
         \A e \in Ends : /\ p'.end[e].state = p.end[e].state
                         /\ p'.end[e].state \in {"active", "delimited"} => p'.end[e].delay = p.end[e].delay
  PROVE  Leaving'
BY DEF Leaving, State

\* A step that is not of the handshake: it sends or processes a note at most.
LEMMA QuietKeeps ==
  ASSUME PipeInv, Types', Len(p'.yp) = Len(p.yp), closing' \subseteq closing,
         \A e \in Ends : /\ p'.end[e].state = p.end[e].state
                         /\ p'.end[e].inpipe = p.end[e].inpipe /\ p'.end[e].outpipe = p.end[e].outpipe
                         /\ p'.end[e].delay = p.end[e].delay,
         \A j \in 1..Len(p.yp) : p'.yp[j].live <=> p.yp[j].live,
         NEW f \in Ends, p'.mail[Peer(f)] = p.mail[Peer(f)],
         \/ p'.mail[f] = p.mail[f]
         \/ State(Peer(f)) \notin Silent /\ \E c \in Notes : p'.mail[f] = Append(p.mail[f], c)
         \/ p.mail[f] # << >> /\ Head(p.mail[f]) \in Notes /\ p'.mail[f] = Tail(p.mail[f])
  PROVE  Handshake' /\ Mails' /\ Pointers' /\ HiccupChain' /\ NextOut' = NextOut /\ Lives' /\ Leaving'
<1>1. Types /\ Handshake /\ Mails /\ Pointers /\ HiccupChain /\ Leaving
  BY DEF PipeInv
<1>2. closing \subseteq Ends
  BY Typed
<1>3. Handshake' /\ Mails' /\ Pointers' /\ HiccupChain' /\ NextOut' = NextOut
  BY <1>1, ProtocolKeeps
<1>4. Lives'
  BY <1>3, LivesKeep
<1>5. Leaving'
  BY <1>1, <1>2, LeavingKeeps
<1> QED
  BY <1>3, <1>4, <1>5

LEMMA FreshKeeps ==
  ASSUME PipeInv, NextOut' = NextOut, Len(p'.yp) = Len(p.yp),
         \A j \in 1..Len(p.yp) : j > NextOut =>
           p'.yp[j].queue = p.yp[j].queue /\ p'.yp[j].pending = p.yp[j].pending
  PROVE  Fresh'
<1>1. NextOut \in 1..Len(p.yp) /\ Len(p.yp) \in Nat
  BY Places
<1>2. Fresh
  BY DEF PipeInv
<1> QED
  BY <1>1, <1>2 DEF Fresh

\* Nobody reads anything from a ypipe that the writer has yet to learn of.
LEMMA ReadsOut ==
  ASSUME PipeInv, p.yp[p.end[2].inpipe].queue # << >>
  PROVE  p.end[2].inpipe = NextOut /\ NextOut = Len(p.yp)
<1>1. NextOut \in 1..Len(p.yp) /\ Len(p.yp) \in Nat /\ p.end[2].inpipe = Len(p.yp)
  BY Places
<1>2. Fresh
  BY DEF PipeInv
<1> QED
  BY <1>1, <1>2 DEF Fresh

\* A step that leaves the messages counted and their delimiter alone.
LEMMA DelimitersKeep ==
  ASSUME Delimiters, NextOut' = NextOut,
         p'.end[2].state # "dead" => p.end[2].state # "dead",
         p'.end[1].state # "dead" => p.end[1].state # "dead",
         DelimLast(ItemsIn(p.yp[NextOut])) => DelimLast(ItemsIn(p'.yp[NextOut])),
         Has(ItemsIn(p'.yp[NextOut]), "delim") => Has(ItemsIn(p.yp[NextOut]), "delim"),
         Has(ItemsIn(p'.yp[1]), "delim") => Has(ItemsIn(p.yp[1]), "delim"),
         p'.end[1].state \in {"active", "delimited"} => p.end[1].state \in {"active", "delimited"},
         p'.end[2].state \in {"active", "delimited"} => p.end[2].state \in {"active", "delimited"},
         1 \in closing' /\ p'.end[1].state # "terminating" =>
           (1 \in closing /\ p.end[1].state # "terminating") \/ ~Has(ItemsIn(p.yp[NextOut]), "delim"),
         p'.end[1].state = "pending" /\ p'.end[1].outActive =>
           \/ p.end[1].state = "pending" /\ p.end[1].outActive
           \/ p.end[1].state \in {"active", "delimited"}
  PROVE  Delimiters'
BY DEF Delimiters, State

LEMMA CountsKeep ==
  ASSUME Counts, NextOut' = NextOut, Len(p'.yp) = Len(p.yp),
         Messages(ItemsIn(p'.yp[NextOut])) = Messages(ItemsIn(p.yp[NextOut])),
         p'.end[2].msgsRead = p.end[2].msgsRead, p'.end[1].msgsWritten = p.end[1].msgsWritten,
         p'.end[2].state # "dead" => p.end[2].state # "dead",
         p'.end[2].state = "delimited" => p.end[2].state = "delimited"
  PROVE  Counts'
BY DEF Counts, State

LEMMA SleepKeeps ==
  ASSUME NEW e, SleepsWell(e), p'.end[e].inpipe = p.end[e].inpipe,
         p'.end[e].state \in {"active", "pending"} /\ ~p'.end[e].inActive =>
           p.end[e].state \in {"active", "pending"} /\ ~p.end[e].inActive,
         Has(p.mail[e], Wake) => Has(p'.mail[e], Wake),
         p.yp[p.end[e].inpipe].queue = << >> /\ p.yp[p.end[e].inpipe].asleep =>
           \/ p'.yp[p.end[e].inpipe].queue = << >> /\ p'.yp[p.end[e].inpipe].asleep
           \/ Has(p'.mail[e], Wake)
  PROVE  SleepsWell(e)'
BY DEF SleepsWell, State, InPipe

LEMMA DelimitedKeeps ==
  ASSUME NEW e, IsDelimited(e), p'.end[Peer(e)].inpipe = p.end[Peer(e)].inpipe,
         Len(p'.yp) = Len(p.yp),
         p'.end[e].state = "terminated" /\ e \notin closing' => p.end[e].state = "terminated" /\ e \notin closing,
         p'.end[Peer(e)].state \in {"active", "pending"} => p.end[Peer(e)].state \in {"active", "pending"},
         p'.end[Peer(e)].state \in {"active", "pending"} /\ Has(p.yp[p.end[Peer(e)].inpipe].queue, "delim") =>
           Has(p'.yp[p.end[Peer(e)].inpipe].queue, "delim")
  PROVE  IsDelimited(e)'
BY DEF IsDelimited, State, InPipe

LEMMA RowFacts ==
  ASSUME PipeInv
  PROVE  /\ \A e \in Ends : p.end[e].state \notin Silent => p.end[Peer(e)].state # "dead"
         /\ \A e \in Ends : p.end[e].state = "delimited" => p.end[Peer(e)].state = "terminated"
         /\ \A e \in Ends : p.end[e].state = "pending" => p.end[Peer(e)].state = "terminated"
<1>1. ASSUME NEW e \in Ends
      PROVE  Shakes(p.end[e].state, Control(p.mail[e]), p.end[Peer(e)].state, Control(p.mail[Peer(e)]))
  BY HandshakeAt DEF PipeInv, State
<1>2. ASSUME NEW a, NEW b, NEW c, NEW d, Shakes(a, b, c, d)
      PROVE  /\ a \notin Silent => c # "dead"
             /\ a \in {"delimited", "pending"} => c = "terminated"
  BY <1>2 DEF Shakes, Rows, Silent
<1> QED
  BY <1>1, <1>2

\* A step that changes neither a state nor a counter and sends or processes a
\* wakeup at most: what is left to show of it.
LEMMA PlainStep ==
  ASSUME PipeInv, Types', p'.ok, Len(p'.yp) = Len(p.yp), closing' \subseteq closing,
         \A e \in Ends : /\ p'.end[e].state = p.end[e].state
                         /\ p'.end[e].inpipe = p.end[e].inpipe /\ p'.end[e].outpipe = p.end[e].outpipe
                         /\ p'.end[e].delay = p.end[e].delay
                         /\ p'.end[e].hwm = p.end[e].hwm /\ p'.end[e].lwm = p.end[e].lwm
                         /\ p'.end[e].msgsRead = p.end[e].msgsRead /\ p'.end[e].msgsWritten = p.end[e].msgsWritten
                         /\ p'.end[e].peersMsgsRead = p.end[e].peersMsgsRead,
         p.end[1].state = "active" /\ ~p'.end[1].outActive => ~p.end[1].outActive \/ Full(p.end[1]),
         \A j \in 1..Len(p.yp) : p'.yp[j].live <=> p.yp[j].live,
         \A j \in 1..Len(p.yp) : j > NextOut =>
           p'.yp[j].queue = p.yp[j].queue /\ p'.yp[j].pending = p.yp[j].pending,
         Messages(ItemsIn(p'.yp[NextOut])) = Messages(ItemsIn(p.yp[NextOut])),
         NEW f \in Ends, p'.mail[Peer(f)] = p.mail[Peer(f)],
         \/ p'.mail[f] = p.mail[f]
         \/ p.end[Peer(f)].state \notin Silent /\ p'.mail[f] = Append(p.mail[f], Wake)
         \/ p.mail[f] # << >> /\ Head(p.mail[f]) = Wake /\ p'.mail[f] = Tail(p.mail[f])
  PROVE  /\ NextOut' = NextOut
         /\ Delimiters' /\ Sleeping' /\ Delimited' => PipeInv'
<1>1. Handshake' /\ Mails' /\ Pointers' /\ HiccupChain' /\ NextOut' = NextOut /\ Lives' /\ Leaving'
  <2>1. Wake \in Notes
    BY CommandSet
  <2>2. \/ p'.mail[f] = p.mail[f]
        \/ State(Peer(f)) \notin Silent /\ \E c \in Notes : p'.mail[f] = Append(p.mail[f], c)
        \/ p.mail[f] # << >> /\ Head(p.mail[f]) \in Notes /\ p'.mail[f] = Tail(p.mail[f])
    BY <2>1 DEF State
  <2> QED
    BY <2>2, QuietKeeps
<1>2. Fresh'
  BY <1>1, FreshKeeps
<1>3. Counts'
  BY <1>1, CountsKeep, OneTwo DEF PipeInv
<1>4. Window' /\ Reports'
  <2>1. Steady(p.mail[1], p'.mail[1])
    <3>1. Wake \in Commands /\ Wake[1] # "activate_write"
      BY CommandSet DEF Wake
    <3>2. CASE f = 1
      BY <3>1, <3>2 DEF Steady
    <3>3. CASE f = 2
      BY <3>3, OneTwo DEF Steady
    <3> QED
      BY <3>2, <3>3, OneTwo
  <2>2. Types /\ Window /\ Reports
    BY DEF PipeInv
  <2>3. /\ p'.end[1].hwm = p.end[1].hwm /\ p'.end[2].lwm = p.end[2].lwm
        /\ p'.end[2].msgsRead = p.end[2].msgsRead /\ p'.end[1].msgsWritten = p.end[1].msgsWritten
        /\ p'.end[1].peersMsgsRead = p.end[1].peersMsgsRead
        /\ p'.end[1].state = "active" /\ ~p'.end[1].outActive =>
              (p.end[1].state = "active" /\ ~p.end[1].outActive) \/ Full(p.end[1])
    BY OneTwo
  <2> QED
    BY <2>1, <2>2, <2>3, WindowKeeps
<1> QED
  BY <1>1, <1>2, <1>3, <1>4 DEF PipeInv

\* ... such a step of one end and of one ypipe.
Alike(r, s) ==
  /\ r.state = s.state /\ r.inpipe = s.inpipe /\ r.outpipe = s.outpipe /\ r.delay = s.delay
  /\ r.hwm = s.hwm /\ r.lwm = s.lwm /\ r.msgsRead = s.msgsRead /\ r.msgsWritten = s.msgsWritten
  /\ r.peersMsgsRead = s.peersMsgsRead

LEMMA PlainUpdate ==
  ASSUME PipeInv, NEW e \in Ends, NEW r \in EndRecords, Alike(r, p.end[e]),
         NEW i \in 1..Len(p.yp), NEW y \in YPipes, NEW N \in MailPairs,
         p' = Pair(EndWith(p.end, e, r), YpWith(p.yp, i, y), N, p.ok),
         closing' \subseteq closing, partial' \in BOOLEAN,
         e = 1 /\ r.state = "active" /\ ~r.outActive => ~p.end[1].outActive \/ Full(p.end[1]),
         y.live <=> p.yp[i].live,
         i > NextOut => y.queue = p.yp[i].queue /\ y.pending = p.yp[i].pending,
         i = NextOut => Messages(ItemsIn(y)) = Messages(ItemsIn(p.yp[i])),
         NEW f \in Ends, N[Peer(f)] = p.mail[Peer(f)],
         \/ N[f] = p.mail[f]
         \/ p.end[Peer(f)].state \notin Silent /\ N[f] = Append(p.mail[f], Wake)
         \/ p.mail[f] # << >> /\ Head(p.mail[f]) = Wake /\ N[f] = Tail(p.mail[f])
  PROVE  /\ p'.mail = N /\ p'.end[e] = r /\ p'.end[Peer(e)] = p.end[Peer(e)]
         /\ Len(p'.yp) = Len(p.yp) /\ p'.yp[i] = y
         /\ \A j \in 1..Len(p.yp) : j # i => p'.yp[j] = p.yp[j]
         /\ NextOut' = NextOut
         /\ Delimiters' /\ Sleeping' /\ Delimited' => PipeInv'
<1>1. Holds(p.ok) /\ closing' \subseteq Ends
  BY Basics
<1>2. /\ Types' /\ p'.ok /\ p'.mail = N /\ p'.end[e] = r /\ p'.end[Peer(e)] = p.end[Peer(e)]
      /\ Len(p'.yp) = Len(p.yp) /\ p'.yp[i] = y
      /\ \A j \in 1..Len(p.yp) : j # i => p'.yp[j] = p.yp[j]
  BY <1>1, NextIs
<1>3. \A g \in Ends : g = e \/ g = Peer(e)
  BY DEF Ends, Peer
<1>4. \A g \in Ends : Alike(p'.end[g], p.end[g])
  BY <1>2, <1>3 DEF Alike
<1>5. p.end[1].state = "active" /\ ~p'.end[1].outActive => ~p.end[1].outActive \/ Full(p.end[1])
  <2>1. CASE e = 1
    BY <1>2, <2>1 DEF Alike
  <2>2. CASE Peer(e) = 1
    BY <1>2, <2>2
  <2> QED
    BY <1>3, <2>1, <2>2, OneTwo
<1>6. \A j \in 1..Len(p.yp) : p'.yp[j].live <=> p.yp[j].live
  BY <1>2
<1>7. \A j \in 1..Len(p.yp) : j > NextOut => p'.yp[j].queue = p.yp[j].queue /\ p'.yp[j].pending = p.yp[j].pending
  BY <1>2
<1>8. Messages(ItemsIn(p'.yp[NextOut])) = Messages(ItemsIn(p.yp[NextOut]))
  <2>1. NextOut \in 1..Len(p.yp)
    BY Basics
  <2> QED
    BY <1>2, <2>1
<1>9. p'.mail[Peer(f)] = p.mail[Peer(f)] /\
      (\/ p'.mail[f] = p.mail[f]
       \/ p.end[Peer(f)].state \notin Silent /\ p'.mail[f] = Append(p.mail[f], Wake)
       \/ p.mail[f] # << >> /\ Head(p.mail[f]) = Wake /\ p'.mail[f] = Tail(p.mail[f]))
  BY <1>2
<1>10. \A g \in Ends : /\ p'.end[g].state = p.end[g].state
                       /\ p'.end[g].inpipe = p.end[g].inpipe /\ p'.end[g].outpipe = p.end[g].outpipe
                       /\ p'.end[g].delay = p.end[g].delay
                       /\ p'.end[g].hwm = p.end[g].hwm /\ p'.end[g].lwm = p.end[g].lwm
                       /\ p'.end[g].msgsRead = p.end[g].msgsRead /\ p'.end[g].msgsWritten = p.end[g].msgsWritten
                       /\ p'.end[g].peersMsgsRead = p.end[g].peersMsgsRead
  BY <1>4 DEF Alike
<1>11. NextOut' = NextOut /\ (Delimiters' /\ Sleeping' /\ Delimited' => PipeInv')
  BY <1>2, <1>5, <1>6, <1>7, <1>8, <1>9, <1>10, PlainStep
<1> QED
  BY <1>2, <1>11

-----------------------------------------------------------------------------
\* End 1 writes.
LEMMA WriteEffect ==
  ASSUME PipeInv, NEW x \in {"more", "last"}, WriteMsg(x)
  PROVE  LET r == HasWritten(p.end[1], x)
             y == Written(p.yp[NextOut], x)
             w == Blocked(p.end[1])
         IN  /\ ~Full(p.end[1]) => p' = Pair(EndWith(p.end, 1, r), YpWith(p.yp, NextOut, y), p.mail, p.ok)
             /\ Full(p.end[1]) => p' = Pair(EndWith(p.end, 1, w), p.yp, p.mail, p.ok)
<1>1. p.end[1].state = "active" /\ p.end[1].outActive /\ p' = write(p, 1, x) /\ x \in Items
  BY DEF WriteMsg, Items
<1>2. PICK E \in EndPairs, Y \in Seq(YPipes), M \in MailPairs : \E k :
        p = Pair(E, Y, M, k) /\ p.end = E /\ p.yp = Y /\ p.mail = M /\ p.ok = k /\ Holds(k)
  BY Names
<1>7. PICK k : p = Pair(E, Y, M, k) /\ p.end = E /\ p.yp = Y /\ p.mail = M /\ p.ok = k /\ Holds(k)
  BY <1>2
<1>3. E[1].outpipe \in 1..Len(Y) /\ E[1].outActive /\ E[1].state = "active"
  BY <1>1, <1>7, Places DEF Silent
<1>4. x \in Items
  BY DEF Items
<1>5. LET o == E[1].outpipe
      IN  /\ ~Full(E[1]) => write(Pair(E, Y, M, k), 1, x) =
               Pair(EndWith(E, 1, HasWritten(E[1], x)), YpWith(Y, o, Written(Y[o], x)), M, k)
          /\ Full(E[1]) => write(Pair(E, Y, M, k), 1, x) =
               Pair(EndWith(E, 1, Blocked(E[1])), Y, M, k)
  BY <1>3, <1>4, WriteIs
<1>6. E[1].outpipe = NextOut
  BY <1>1, <1>2, Places DEF Silent
<1> QED
  BY <1>1, <1>5, <1>6, <1>7
LEMMA WriteStep ==
  ASSUME PipeInv, NEW x \in {"more", "last"}, WriteMsg(x), ~Full(p.end[1])
  PROVE  PipeInv'
<1> DEFINE r == HasWritten(p.end[1], x)
           y == Written(p.yp[NextOut], x)
           o == NextOut
<1>1. /\ p.end \in EndPairs /\ p.yp \in Seq(YPipes) /\ p.mail \in MailPairs /\ p.end[1] \in EndRecords /\ Holds(p.ok)
      /\ closing \subseteq Ends
  BY Typed DEF Holds
<1>2. o \in 1..Len(p.yp) /\ o # 1 /\ p.yp[o] \in YPipes /\ x \in Items
  BY <1>1, Places DEF Items
<1>3. p' = Pair(EndWith(p.end, 1, r), YpWith(p.yp, o, y), p.mail, p.ok)
  BY WriteEffect
<1>4. r \in EndRecords /\ y \in YPipes
  BY <1>1, <1>2, HasWrittenIs, WrittenIs
<1>5. closing' = closing /\ partial' \in BOOLEAN
  <2>1. partial \in BOOLEAN
    BY Typed
  <2> QED
    BY <2>1 DEF WriteMsg
<1> HIDE DEF r, y, o
<1>6. /\ Types' /\ p'.ok /\ p'.mail = p.mail
      /\ p'.end[1] = r /\ p'.end[Peer(1)] = p.end[Peer(1)]
      /\ Len(p'.yp) = Len(p.yp) /\ p'.yp[o] = y
      /\ \A j \in 1..Len(p.yp) : j # o => p'.yp[j] = p.yp[j]
  BY <1>1, <1>2, <1>3, <1>4, <1>5, OneTwo, NextIs
<1>7. p'.end[2] = p.end[2]
  BY <1>6, OneTwo
<1>8. /\ r.state = p.end[1].state /\ r.inActive = p.end[1].inActive /\ r.outActive = p.end[1].outActive
      /\ r.inpipe = p.end[1].inpipe /\ r.outpipe = p.end[1].outpipe /\ r.delay = p.end[1].delay
      /\ r.hwm = p.end[1].hwm /\ r.peersMsgsRead = p.end[1].peersMsgsRead
      /\ r.msgsWritten = p.end[1].msgsWritten + One(x)
  BY <1>1, HasWrittenIs DEF r
<1>9. y.queue = p.yp[o].queue /\ y.asleep = p.yp[o].asleep /\ y.live = p.yp[o].live
  BY <1>2, WrittenIs DEF y, o
<1>10. ItemsIn(y) = Append(ItemsIn(p.yp[o]), x) /\ ItemsIn(p.yp[o]) \in Seq(Items)
  BY <1>2, WrittenItems, ItemsIs DEF y, o
<1>11. p.end[1].state = "active" /\ p.end[1].outActive
  BY DEF WriteMsg
<1>12. p.end[2].state # "dead" /\ p.end[2].state # "delimited"
  BY <1>11, RowFacts, OneTwo DEF Silent
<1>13. Handshake' /\ Mails' /\ Pointers' /\ HiccupChain' /\ NextOut' = NextOut /\ Lives' /\ Leaving'
  <2>1. \A e \in Ends : /\ p'.end[e].state = p.end[e].state
                         /\ p'.end[e].inpipe = p.end[e].inpipe /\ p'.end[e].outpipe = p.end[e].outpipe
                         /\ p'.end[e].delay = p.end[e].delay
    BY <1>6, <1>7, <1>8, OneTwo
  <2>2. \A j \in 1..Len(p.yp) : p'.yp[j].live <=> p.yp[j].live
    BY <1>6, <1>9
  <2>3. p'.mail[1] = p.mail[1] /\ p'.mail[Peer(1)] = p.mail[Peer(1)] /\ closing' \subseteq closing
    BY <1>5, <1>6
  <2> QED
    BY <1>6, <2>1, <2>2, <2>3, OneTwo, QuietKeeps
<1>14. NextOut' = o /\ NextOut = o
  BY <1>13 DEF o
<1>15. Fresh'
  BY <1>6, <1>13, <1>14, FreshKeeps
<1>16. ~Has(ItemsIn(p.yp[o]), "delim")
  BY <1>11, <1>12, <1>14 DEF PipeInv, Delimiters, State
<1>17. DelimLast(ItemsIn(y)) /\ ~Has(ItemsIn(y), "delim") /\ Messages(ItemsIn(y)) = Messages(ItemsIn(p.yp[o])) + One(x)
       /\ Messages(ItemsIn(p.yp[o])) \in Nat
  BY <1>2, <1>10, <1>16, ItemsAppend
<1>18. Delimiters'
  <2>1. p'.yp[1] = p.yp[1]
    BY <1>2, <1>6, Places
  <2> QED
    BY <1>6, <1>7, <1>8, <1>14, <1>17, <2>1 DEF PipeInv, Delimiters, State
<1>19. Counts'
  <2>1. One(x) \in Nat /\ p.end[2].msgsRead \in Nat /\ p.end[1].msgsWritten \in Nat
    BY TypesAre, OneTwo DEF PipeInv, One
  <2>2. /\ Messages(ItemsIn(p.yp[o])) + p.end[2].msgsRead <= p.end[1].msgsWritten
        /\ Len(p.yp) = 2 => Messages(ItemsIn(p.yp[o])) + p.end[2].msgsRead = p.end[1].msgsWritten
    BY <1>12, <1>14 DEF PipeInv, Counts, State
  <2>3. /\ p'.end[1].msgsWritten = p.end[1].msgsWritten + One(x)
        /\ p'.end[2].msgsRead = p.end[2].msgsRead /\ State(2)' # "delimited"
        /\ p'.yp[o] = y /\ Len(p'.yp) = Len(p.yp)
    BY <1>6, <1>7, <1>8, <1>12 DEF State
  <2> DEFINE c == Messages(ItemsIn(p.yp[o]))
             d == Messages(ItemsIn(y))
             W == p.end[1].msgsWritten
             R == p.end[2].msgsRead
             b == One(x)
             l == Len(p.yp)
  <2>4. d + R <= W + b /\ (l = 2 => d + R = W + b)
    <3>1. d = c + b /\ c \in Nat /\ b \in Nat /\ R \in Nat /\ W \in Nat
      BY <1>17, <2>1
    <3>2. c + R <= W /\ (l = 2 => c + R = W)
      BY <2>2
    <3> HIDE DEF c, d, W, R, b, l
    <3> QED
      BY <3>1, <3>2
  <2> QED
    BY <1>14, <2>3, <2>4 DEF Counts
<1>20. Window' /\ Reports'
  <2>1. p.end[1].peersMsgsRead \in Nat /\ p.end[1].msgsWritten \in Nat /\ p.end[1].hwm \in Nat /\ One(x) \in {0, 1}
    BY TypesAre, OneTwo DEF PipeInv, One
  <2>2. /\ Rising(p.mail[1], p.end[1].peersMsgsRead, p.end[2].msgsRead)
        /\ p.end[1].hwm > 0 => p.end[1].msgsWritten - p.end[1].peersMsgsRead < p.end[1].hwm
    BY <2>1 DEF PipeInv, Window, Full
  <2>4. p.end[1].hwm > 0 => (p.end[1].msgsWritten + One(x)) - p.end[1].peersMsgsRead <= p.end[1].hwm
    BY <2>1, <2>2
  <2>5. Window'
    BY <1>6, <1>7, <1>8, <1>11, <2>2, <2>4 DEF Window
  <2>3. Reports'
    BY <1>6, <1>7, <1>8 DEF PipeInv, Reports
  <2> QED
    BY <2>3, <2>5
<1>21. Sleeping'
  <2>1. SleepsWell(1)'
    BY <1>2, <1>6, <1>8, OneTwo, Places, SleepKeeps DEF PipeInv, Sleeping
  <2>3. \A j \in 1..Len(p.yp) : p'.yp[j].queue = p.yp[j].queue /\ (p'.yp[j].asleep <=> p.yp[j].asleep)
    BY <1>6, <1>9
  <2>4. p.end[2].inpipe \in 1..Len(p.yp)
    BY Places
  <2>5. SleepsWell(2)
    BY OneTwo DEF PipeInv, Sleeping
  <2>2. SleepsWell(2)'
    BY <1>6, <1>7, <2>3, <2>4, <2>5, SleepKeeps
  <2> QED
    BY <2>1, <2>2, OneTwo DEF Sleeping
<1>22. Delimited'
  <2>1. IsDelimited(1)'
    BY <1>11, <1>6, <1>8 DEF IsDelimited, State
  <2>2. IsDelimited(2)'
    BY <1>2, <1>5, <1>6, <1>7, <1>8, OneTwo, Places, DelimitedKeeps DEF PipeInv, Delimited
  <2> QED
    BY <2>1, <2>2, OneTwo DEF Delimited
<1> QED
  BY <1>6, <1>13, <1>15, <1>18, <1>19, <1>20, <1>21, <1>22 DEF PipeInv

LEMMA BlockStep ==
  ASSUME PipeInv, NEW x \in {"more", "last"}, WriteMsg(x), Full(p.end[1])
  PROVE  PipeInv'
<1> DEFINE r == Blocked(p.end[1])
<1>1. /\ p.end \in EndPairs /\ p.yp \in Seq(YPipes) /\ p.mail \in MailPairs /\ p.end[1] \in EndRecords /\ Holds(p.ok)
      /\ closing \subseteq Ends /\ 1 \in 1..Len(p.yp)
  BY Basics
<1>2. p' = Pair(EndWith(p.end, 1, r), YpWith(p.yp, 1, p.yp[1]), p.mail, p.ok) /\ p.yp[1] \in YPipes
  BY <1>1, WriteEffect, Idle
<1>3. r \in EndRecords
  BY <1>1, BlockedIs
<1>4. closing' = closing /\ partial' \in BOOLEAN
  <2>1. partial \in BOOLEAN
    BY Typed
  <2> QED
    BY <2>1 DEF WriteMsg
<1> HIDE DEF r
<1>5. /\ Types' /\ p'.ok /\ p'.mail = p.mail
      /\ p'.end[1] = r /\ p'.end[Peer(1)] = p.end[Peer(1)]
      /\ Len(p'.yp) = Len(p.yp) /\ p'.yp[1] = p.yp[1]
      /\ \A j \in 1..Len(p.yp) : j # 1 => p'.yp[j] = p.yp[j]
  BY <1>1, <1>2, <1>3, <1>4, OneTwo, NextIs
<1>6. p'.end[2] = p.end[2] /\ \A j \in 1..Len(p.yp) : p'.yp[j] = p.yp[j]
  BY <1>5, OneTwo
<1>7. /\ r.state = p.end[1].state /\ r.inActive = p.end[1].inActive
      /\ r.inpipe = p.end[1].inpipe /\ r.outpipe = p.end[1].outpipe /\ r.delay = p.end[1].delay
      /\ r.hwm = p.end[1].hwm /\ r.peersMsgsRead = p.end[1].peersMsgsRead /\ r.lwm = p.end[1].lwm
      /\ r.msgsWritten = p.end[1].msgsWritten /\ r.msgsRead = p.end[1].msgsRead
      /\ ~r.outActive
  BY <1>1, BlockedIs DEF r
<1>8. /\ NextOut' = NextOut
      /\ Delimiters' /\ Sleeping' /\ Delimited' => PipeInv'
  <2>1. \A e \in Ends : /\ p'.end[e].state = p.end[e].state
                         /\ p'.end[e].inpipe = p.end[e].inpipe /\ p'.end[e].outpipe = p.end[e].outpipe
                         /\ p'.end[e].delay = p.end[e].delay
                         /\ p'.end[e].hwm = p.end[e].hwm /\ p'.end[e].lwm = p.end[e].lwm
                         /\ p'.end[e].msgsRead = p.end[e].msgsRead /\ p'.end[e].msgsWritten = p.end[e].msgsWritten
                         /\ p'.end[e].peersMsgsRead = p.end[e].peersMsgsRead
    BY <1>5, <1>6, <1>7, OneTwo
  <2>2. NextOut \in 1..Len(p.yp)
    BY Places
  <2>3. p'.mail[1] = p.mail[1] /\ p'.mail[Peer(1)] = p.mail[Peer(1)] /\ closing' \subseteq closing
    BY <1>4, <1>5
  <2> QED
    BY <1>5, <1>6, <2>1, <2>2, <2>3, OneTwo, PlainStep
<1>9. /\ NextOut \in 1..Len(p.yp) /\ 1 \in 1..Len(p.yp)
      /\ p.end[1].inpipe \in 1..Len(p.yp) /\ p.end[2].inpipe \in 1..Len(p.yp)
  BY Places
<1>10. Delimiters'
  BY <1>4, <1>5, <1>6, <1>7, <1>8, <1>9, DelimitersKeep DEF PipeInv
<1>11. Sleeping'
  <2>1. SleepsWell(1) /\ SleepsWell(2)
    BY OneTwo DEF PipeInv, Sleeping
  <2>2. SleepsWell(1)'
    BY <1>5, <1>6, <1>7, <1>9, <2>1, SleepKeeps
  <2>3. SleepsWell(2)'
    BY <1>5, <1>6, <1>9, <2>1, SleepKeeps
  <2> QED
    BY <2>2, <2>3, OneTwo DEF Sleeping
<1>12. Delimited'
  <2>1. IsDelimited(1) /\ IsDelimited(2)
    BY OneTwo DEF PipeInv, Delimited
  <2>2. IsDelimited(1)'
    BY <1>4, <1>5, <1>6, <1>7, <1>9, <2>1, OneTwo, DelimitedKeeps
  <2>3. IsDelimited(2)'
    BY <1>4, <1>5, <1>6, <1>7, <1>9, <2>1, OneTwo, DelimitedKeeps
  <2> QED
    BY <2>2, <2>3, OneTwo DEF Delimited
<1> QED
  BY <1>8, <1>10, <1>11, <1>12

LEMMA NothingNew ==
  ASSUME PipeInv, p' = p, closing' = closing, partial' \in BOOLEAN
  PROVE  PipeInv'
<1>1. Types' /\ p'.ok
  BY DEF PipeInv, Types
<1>2. Handshake' /\ Mails' /\ Pointers'
  BY DEF PipeInv, Handshake, Row, Mails, Pointers, State
<1>3. HiccupChain' /\ Lives' /\ Fresh'
  BY DEF PipeInv, HiccupChain, Lives, Fresh, NextOut, State
<1>4. Delimiters' /\ Leaving' /\ Counts'
  BY DEF PipeInv, Delimiters, Leaving, Counts, NextOut, State
<1>5. Window' /\ Reports'
  BY DEF PipeInv, Window, Reports
<1>6. Sleeping' /\ Delimited'
  BY DEF PipeInv, Sleeping, SleepsWell, Delimited, IsDelimited, State
<1> QED
  BY <1>1, <1>2, <1>3, <1>4, <1>5, <1>6 DEF PipeInv

LEMMA RollbackEffect ==
  ASSUME PipeInv, NEW e \in Ends
  PROVE  LET o == p.end[e].outpipe
         IN  /\ o = None => rollback(p, e) = p
             /\ o # None => rollback(p, e) = Pair(p.end, YpWith(p.yp, o, RolledBack(p.yp[o])), p.mail, p.ok)
<1>1. PICK E \in EndPairs, Y \in Seq(YPipes), M \in MailPairs : \E k :
        p = Pair(E, Y, M, k) /\ p.end = E /\ p.yp = Y /\ p.mail = M /\ p.ok = k /\ Holds(k)
  BY Names
<1>2. PICK k : p = Pair(E, Y, M, k) /\ p.end = E /\ p.yp = Y /\ p.mail = M /\ p.ok = k /\ Holds(k)
  BY <1>1
<1>3. E[e].outpipe \in 0..Len(Y)
  BY <1>2, OneTwo, Known
<1>4. LET q == Pair(E, Y, M, k)
          o == E[e].outpipe
      IN  /\ o = None => rollback(q, e) = q
          /\ o # None => rollback(q, e) = Pair(E, YpWith(Y, o, RolledBack(Y[o])), M, k)
  BY <1>3, RollbackIs
<1> QED
  BY <1>2, <1>4

LEMMA RollbackStep ==
  ASSUME PipeInv, RollbackMsg
  PROVE  PipeInv'
<1> DEFINE o == NextOut
           r == p.end[1]
           y == RolledBack(p.yp[o])
<1>1. p' = rollback(p, 1) /\ closing' = closing /\ partial' \in BOOLEAN
  BY DEF RollbackMsg
<1>2. CASE p.end[1].outpipe = None
  <2>1. p' = p
    BY <1>1, <1>2, OneTwo, RollbackEffect
  <2> QED
    BY <1>1, <2>1, NothingNew
<1>3. CASE p.end[1].outpipe # None
  <2>1. p.end[1].outpipe = o
    BY <1>3, Known
  <2>2. /\ p.end \in EndPairs /\ p.end[1] \in EndRecords /\ p.mail \in MailPairs /\ o \in 1..Len(p.yp) /\ o # 1
        /\ p.yp[o] \in YPipes
    BY Basics
  <2>3. p' = Pair(EndWith(p.end, 1, r), YpWith(p.yp, o, y), p.mail, p.ok)
    <3>1. p' = Pair(p.end, YpWith(p.yp, o, y), p.mail, p.ok)
      BY <1>1, <1>3, <2>1, OneTwo, RollbackEffect
    <3>2. EndWith(p.end, 1, r) = p.end
      BY <2>2, OneTwo, Idle
    <3> QED
      BY <3>1, <3>2
  <2>4. y \in YPipes /\ y.queue = p.yp[o].queue /\ (y.asleep <=> p.yp[o].asleep) /\ (y.live <=> p.yp[o].live)
    BY <2>2, RolledBackIs
  <2>5. /\ Messages(ItemsIn(y)) = Messages(ItemsIn(p.yp[o]))
        /\ Has(ItemsIn(y), "delim") <=> Has(ItemsIn(p.yp[o]), "delim")
        /\ DelimLast(ItemsIn(p.yp[o])) => DelimLast(ItemsIn(y))
    BY <2>2, RolledBackItems
  <2>6. Alike(r, p.end[1])
    BY DEF Alike
  <2> HIDE DEF y
  <2>7. /\ p'.mail = p.mail /\ p'.end[1] = r /\ p'.end[Peer(1)] = p.end[Peer(1)]
        /\ Len(p'.yp) = Len(p.yp) /\ p'.yp[o] = y
        /\ \A j \in 1..Len(p.yp) : j # o => p'.yp[j] = p.yp[j]
        /\ NextOut' = NextOut
        /\ Delimiters' /\ Sleeping' /\ Delimited' => PipeInv'
    <3>1. o \in Int /\ ~(o > NextOut)
      BY <2>2
    <3>2. closing' \subseteq closing /\ 1 \in Ends
      BY <1>1, OneTwo
    <3> HIDE DEF o, r
    <3> QED
      BY <1>1, <2>2, <2>3, <2>4, <2>5, <2>6, <3>1, <3>2, PlainUpdate DEF o, r
  <2>8. p'.end[2] = p.end[2] /\ p'.yp[1] = p.yp[1]
    BY <2>2, <2>7, Basics, OneTwo
  <2>9. \A j \in 1..Len(p.yp) : p'.yp[j].queue = p.yp[j].queue /\ (p'.yp[j].asleep <=> p.yp[j].asleep)
    BY <2>4, <2>7
  <2>10. Delimiters'
    BY <1>1, <2>5, <2>7, <2>8, DelimitersKeep DEF PipeInv
  <2>11. Sleeping'
    <3>1. SleepsWell(1)' /\ SleepsWell(2)'
      BY <2>7, <2>8, <2>9, Basics, SleepKeeps
    <3> QED
      BY <3>1, OneTwo DEF Sleeping
  <2>12. Delimited'
    <3>1. IsDelimited(1) /\ IsDelimited(2) /\ p.end[1].inpipe \in 1..Len(p.yp) /\ p.end[2].inpipe \in 1..Len(p.yp)
      BY Basics
    <3>2. IsDelimited(1)'
      BY <1>1, <2>7, <2>8, <2>9, <3>1, OneTwo, DelimitedKeeps
    <3>3. IsDelimited(2)'
      BY <1>1, <2>7, <2>8, <2>9, <3>1, OneTwo, DelimitedKeeps
    <3> QED
      BY <3>2, <3>3, OneTwo DEF Delimited
  <2> QED
    BY <2>7, <2>10, <2>11, <2>12
<1> QED
  BY <1>2, <1>3

LEMMA FlushEffect ==
  ASSUME PipeInv, p.end[1].state # "dead", flush(p, 1) # p
  PROVE  LET o == NextOut
             Y1 == YpWith(p.yp, o, Flushed(p.yp[o]))
         IN  /\ p.end[1].state \notin Silent /\ p.end[2].state # "dead"
             /\ p.yp[o].asleep => flush(p, 1) = Pair(p.end, Y1, Sent(p.mail, 2, Wake), p.ok)
             /\ ~p.yp[o].asleep => flush(p, 1) = Pair(p.end, Y1, p.mail, p.ok)
<1>1. PICK E \in EndPairs, Y \in Seq(YPipes), M \in MailPairs : \E k :
        p = Pair(E, Y, M, k) /\ p.end = E /\ p.yp = Y /\ p.mail = M /\ p.ok = k /\ Holds(k)
  BY Names
<1>2. PICK k : p = Pair(E, Y, M, k) /\ p.end = E /\ p.yp = Y /\ p.mail = M /\ p.ok = k /\ Holds(k)
  BY <1>1
<1>3. E[1].outpipe \in 0..Len(Y)
  BY <1>2, Known
<1>4. E[1].outpipe # None =>
        E[1].state \notin Silent /\ p.end[2].state # "dead" /\ Y[E[1].outpipe].live /\ E[1].outpipe = NextOut
  <2>1. E[1].outpipe # None => E[1].state \notin Silent /\ E[1].outpipe = NextOut
    BY <1>2, Places
  <2>2. E[1].state \notin Silent => p.end[2].state # "dead"
    BY <1>2, RowFacts, OneTwo
  <2>3. p.end[2].state # "dead" => p.yp[NextOut].live
    BY Places DEF PipeInv, Lives, State
  <2> QED
    BY <1>2, <2>1, <2>2, <2>3
<1>5. LET q == Pair(E, Y, M, k)
          o == E[1].outpipe
          same == E[1].state = "terminating" \/ o = None \/ Complete(Y[o].pending) = 0
          Y1 == YpWith(Y, o, Flushed(Y[o]))
      IN  /\ same => flush(q, 1) = q
          /\ ~same /\ Y[o].asleep => flush(q, 1) = Pair(E, Y1, Sent(M, Peer(1), Wake), k)
          /\ ~same /\ ~Y[o].asleep => flush(q, 1) = Pair(E, Y1, M, k)
  BY <1>2, <1>3, <1>4, OneTwo, FlushIs
<1> QED
  BY <1>2, <1>4, <1>5, OneTwo

LEMMA FlushStep ==
  ASSUME PipeInv, FlushMsgs
  PROVE  PipeInv'
<1> DEFINE o == NextOut
           r == p.end[1]
           y == Flushed(p.yp[o])
<1>1. p' = flush(p, 1) /\ flush(p, 1) # p /\ closing' = closing /\ partial' \in BOOLEAN /\ p.end[1].state # "dead"
  BY Basics DEF FlushMsgs, Only, Owned
<1>2. /\ p.end \in EndPairs /\ p.end[1] \in EndRecords /\ p.mail \in MailPairs /\ o \in 1..Len(p.yp) /\ o # 1
      /\ p.yp[o] \in YPipes
  BY Basics
<1>3. PICK N \in MailPairs :
        /\ p' = Pair(EndWith(p.end, 1, r), YpWith(p.yp, o, y), N, p.ok)
        /\ N[1] = p.mail[1]
        /\ p.yp[o].asleep => N[2] = Append(p.mail[2], Wake)
        /\ ~p.yp[o].asleep => N[2] = p.mail[2]
  <2>1. EndWith(p.end, 1, r) = p.end
    BY <1>2, OneTwo, Idle
  <2>2. /\ Sent(p.mail, 2, Wake) \in MailPairs /\ Sent(p.mail, 2, Wake)[2] = Append(p.mail[2], Wake)
        /\ Sent(p.mail, 2, Wake)[1] = p.mail[1]
    <3>1. Wake \in Commands
      BY CommandSet
    <3> QED
      BY <1>2, <3>1, OneTwo, SentTo
  <2>3. CASE p.yp[o].asleep
    <3>1. p' = Pair(EndWith(p.end, 1, r), YpWith(p.yp, o, y), Sent(p.mail, 2, Wake), p.ok)
      BY <1>1, <2>1, <2>3, FlushEffect
    <3> QED
      BY <2>2, <2>3, <3>1
  <2>4. CASE ~p.yp[o].asleep
    <3>1. p' = Pair(EndWith(p.end, 1, r), YpWith(p.yp, o, y), p.mail, p.ok)
      BY <1>1, <2>1, <2>4, FlushEffect
    <3> QED
      BY <1>2, <2>4, <3>1
  <2> QED
    BY <2>3, <2>4
<1>4. y \in YPipes /\ (y.live <=> p.yp[o].live) /\ (Has(p.yp[o].queue, "delim") => Has(y.queue, "delim"))
  BY <1>2, FlushedIs DEF Items
<1>5. ItemsIn(y) = ItemsIn(p.yp[o])
  BY <1>2, FlushedItems
<1>6. p.end[1].state \notin Silent
  BY <1>1, FlushEffect
<1>7. Alike(r, p.end[1])
  BY DEF Alike
<1> HIDE DEF y
<1>8. /\ p'.mail = N /\ p'.end[1] = r /\ p'.end[Peer(1)] = p.end[Peer(1)]
      /\ Len(p'.yp) = Len(p.yp) /\ p'.yp[o] = y
      /\ \A j \in 1..Len(p.yp) : j # o => p'.yp[j] = p.yp[j]
      /\ NextOut' = NextOut
      /\ Delimiters' /\ Sleeping' /\ Delimited' => PipeInv'
  <2>1. o \in Int /\ ~(o > NextOut)
    BY <1>2
  <2>2. closing' \subseteq closing /\ 1 \in Ends /\ 2 \in Ends /\ N[Peer(2)] = p.mail[Peer(2)]
    BY <1>1, <1>3, OneTwo
  <2>3. N[2] = p.mail[2] \/ (p.end[Peer(2)].state \notin Silent /\ N[2] = Append(p.mail[2], Wake))
    BY <1>3, <1>6, OneTwo
  <2>4. Messages(ItemsIn(y)) = Messages(ItemsIn(p.yp[o]))
    BY <1>5
  <2> HIDE DEF o, r
  <2> QED
    BY <1>1, <1>2, <1>3, <1>4, <1>7, <2>1, <2>2, <2>3, <2>4, PlainUpdate DEF r
<1>9. p'.end[2] = p.end[2] /\ p'.yp[1] = p.yp[1]
  BY <1>2, <1>8, Basics, OneTwo
<1>10. Delimiters'
  BY <1>1, <1>5, <1>8, <1>9, DelimitersKeep DEF PipeInv
<1>11. Sleeping'
  <2>1. SleepsWell(1)'
    <3>1. SleepsWell(1) /\ p.end[1].inpipe = 1
      BY Basics
    <3>2. p'.mail[1] = p.mail[1] /\ p'.end[1] = p.end[1]
      BY <1>3, <1>8
    <3> QED
      BY <1>9, <3>1, <3>2, SleepKeeps
  <2>2. SleepsWell(2)'
    <3>4. p.mail[2] \in Seq(Commands) /\ Wake \in Commands
      BY Basics, CommandSet
    <3>5. (Has(p.mail[2], Wake) => Has(Append(p.mail[2], Wake), Wake)) /\ Has(Append(p.mail[2], Wake), Wake)
      BY <3>4, WakeStays
    <3>1. Has(p.mail[2], Wake) => Has(p'.mail[2], Wake)
      BY <1>3, <1>8, <3>5
    <3>2. p.yp[o].asleep => Has(p'.mail[2], Wake)
      BY <1>3, <1>8, <3>5
    <3>3. \A j \in 1..Len(p.yp) : p.yp[j].queue = << >> /\ p.yp[j].asleep =>
            \/ p'.yp[j].queue = << >> /\ p'.yp[j].asleep
            \/ Has(p'.mail[2], Wake)
      BY <1>8, <3>2
    <3> QED
      BY <1>8, <1>9, <3>1, <3>3, Basics, SleepKeeps
  <2> QED
    BY <2>1, <2>2, OneTwo DEF Sleeping
<1>12. Delimited'
  <2>1. \A j \in 1..Len(p.yp) : Has(p.yp[j].queue, "delim") => Has(p'.yp[j].queue, "delim")
    BY <1>4, <1>8
  <2>2. IsDelimited(1)' /\ IsDelimited(2)'
    BY <1>1, <1>8, <1>9, <2>1, Basics, OneTwo, DelimitedKeeps
  <2> QED
    BY <2>2, OneTwo DEF Delimited
<1> QED
  BY <1>8, <1>10, <1>11, <1>12

-----------------------------------------------------------------------------
\* An end reads.
LEMMA InPlace ==
  ASSUME PipeInv, NEW e \in Ends
  PROVE  /\ p.end[e].inpipe \in 1..Len(p.yp) /\ p.yp[p.end[e].inpipe] \in YPipes
         /\ p.end[Peer(e)].inpipe \in 1..Len(p.yp)
         /\ p.end[e].inpipe # p.end[Peer(e)].inpipe
         /\ p.end[e] \in EndRecords /\ p.mail[e] \in Seq(Commands) /\ p.mail[Peer(e)] \in Seq(Commands)
         /\ p.end[e].state # "dead" => p.yp[p.end[e].inpipe].live
         /\ SleepsWell(e) /\ SleepsWell(Peer(e)) /\ IsDelimited(e) /\ IsDelimited(Peer(e))
<1>1. /\ p.end[1].inpipe = 1 /\ p.end[2].inpipe = Len(p.yp) /\ NextOut \in 1..Len(p.yp) /\ Len(p.yp) \in Nat
      /\ Len(p.yp) >= 2
  BY Places
<1>2. /\ p.end[1].state # "dead" => p.yp[p.end[1].inpipe].live
      /\ p.end[2].state # "dead" => p.yp[p.end[2].inpipe].live
  BY <1>1 DEF PipeInv, Lives, State
<1>3. CASE e = 1
  BY <1>1, <1>2, <1>3, OneTwo, Basics
<1>4. CASE e = 2
  BY <1>1, <1>2, <1>4, OneTwo, Basics
<1> QED
  BY <1>3, <1>4, OneTwo

LEMMA BothEnds ==
  ASSUME NEW e \in Ends
  PROVE  /\ SleepsWell(e)' /\ SleepsWell(Peer(e))' => Sleeping'
         /\ IsDelimited(e)' /\ IsDelimited(Peer(e))' => Delimited'
<1>1. \A g \in Ends : g = e \/ g = Peer(e)
  BY DEF Ends, Peer
<1>2. SleepsWell(e)' /\ SleepsWell(Peer(e))' => Sleeping'
  BY <1>1 DEF Sleeping
<1>3. IsDelimited(e)' /\ IsDelimited(Peer(e))' => Delimited'
  BY <1>1 DEF Delimited
<1> QED
  BY <1>2, <1>3

LEMMA SleepStep ==
  ASSUME PipeInv, NEW e \in Ends, p.end[e].state # "dead", p.yp[p.end[e].inpipe].queue = << >>,
         p' = GoToSleep(p, e), closing' = closing, partial' = partial
  PROVE  PipeInv'
<1> DEFINE i == p.end[e].inpipe
           r == Asleep(p.end[e])
           y == Slept(p.yp[i])
<1>1. p.end \in EndPairs /\ p.end[e] \in EndRecords /\ i \in 1..Len(p.yp) /\ p.yp[i] \in YPipes /\ p.mail \in MailPairs
      /\ partial \in BOOLEAN
  BY Basics, InPlace
<1>2. p' = Pair(EndWith(p.end, e, r), YpWith(p.yp, i, y), p.mail, p.ok)
  <2>1. PICK E \in EndPairs, Y \in Seq(YPipes), M \in MailPairs : \E k :
          p = Pair(E, Y, M, k) /\ p.end = E /\ p.yp = Y /\ p.mail = M /\ p.ok = k /\ Holds(k)
    BY Names
  <2>2. PICK k : p = Pair(E, Y, M, k) /\ p.end = E /\ p.yp = Y /\ p.mail = M /\ p.ok = k /\ Holds(k)
    BY <2>1
  <2>3. E[e].inpipe \in 1..Len(Y) /\ Y[E[e].inpipe].live
    BY <2>2, InPlace
  <2>4. GoToSleep(Pair(E, Y, M, k), e) =
          Pair(EndWith(E, e, Asleep(E[e])), YpWith(Y, E[e].inpipe, Slept(Y[E[e].inpipe])), M, k)
    BY <2>2, <2>3, SleepIs
  <2> QED
    BY <2>2, <2>4
<1>3. r \in EndRecords /\ Alike(r, p.end[e]) /\ r.outActive = p.end[e].outActive
  BY <1>1, AsleepIs DEF Alike
<1>4. /\ y \in YPipes /\ y.queue = p.yp[i].queue /\ y.pending = p.yp[i].pending /\ (y.live <=> p.yp[i].live)
      /\ y.asleep
  BY <1>1, SleptIs
<1>5. ItemsIn(y) = ItemsIn(p.yp[i])
  BY <1>1, SleptItems
<1> HIDE DEF r, y
<1>6. /\ p'.mail = p.mail /\ p'.end[e] = r /\ p'.end[Peer(e)] = p.end[Peer(e)]
      /\ Len(p'.yp) = Len(p.yp) /\ p'.yp[i] = y
      /\ \A j \in 1..Len(p.yp) : j # i => p'.yp[j] = p.yp[j]
      /\ NextOut' = NextOut
      /\ Delimiters' /\ Sleeping' /\ Delimited' => PipeInv'
  <2>1. e = 1 /\ r.state = "active" /\ ~r.outActive => ~p.end[1].outActive
    BY <1>3
  <2>2. Messages(ItemsIn(y)) = Messages(ItemsIn(p.yp[i]))
    BY <1>5
  <2>3. closing' \subseteq closing /\ partial' \in BOOLEAN
    BY <1>1
  <2> HIDE DEF i
  <2> QED
    BY <1>1, <1>2, <1>3, <1>4, <2>1, <2>2, <2>3, PlainUpdate
<1>7. \A j \in 1..Len(p.yp) : ItemsIn(p'.yp[j]) = ItemsIn(p.yp[j]) /\ p'.yp[j].queue = p.yp[j].queue
  BY <1>4, <1>5, <1>6
<1>8. \A g \in Ends : Alike(p'.end[g], p.end[g]) /\ p'.end[g].outActive = p.end[g].outActive
  <2>1. \A g \in Ends : g = e \/ g = Peer(e)
    BY DEF Ends, Peer
  <2> QED
    BY <1>3, <1>6, <2>1 DEF Alike
<1>9. Delimiters'
  <2>1. NextOut \in 1..Len(p.yp) /\ 1 \in 1..Len(p.yp)
    BY Basics
  <2>2. /\ p'.end[1].state = p.end[1].state /\ p'.end[2].state = p.end[2].state
        /\ p'.end[1].outActive = p.end[1].outActive
    BY <1>8, OneTwo DEF Alike
  <2> QED
    BY <1>6, <1>7, <2>1, <2>2, DelimitersKeep DEF PipeInv
<1>10. Sleeping'
  <2>1. SleepsWell(e)'
    <3>1. p'.end[e].inpipe = i
      BY <1>3, <1>6 DEF Alike
    <3> QED
      BY <1>4, <1>6, <3>1 DEF SleepsWell, InPipe
  <2>2. SleepsWell(Peer(e))'
    <3>1. SleepsWell(Peer(e)) /\ p.end[Peer(e)].inpipe \in 1..Len(p.yp) /\ p.end[Peer(e)].inpipe # i
      BY InPlace
    <3> QED
      BY <1>6, <3>1, SleepKeeps
  <2> QED
    BY <2>1, <2>2, BothEnds
<1>11. Delimited'
  <2>1. ASSUME NEW g \in Ends PROVE IsDelimited(g)'
    <3>1. IsDelimited(g) /\ p.end[Peer(g)].inpipe \in 1..Len(p.yp) /\ Peer(g) \in Ends
      BY InPlace, PeerIs
    <3>2. /\ p'.end[g].state = p.end[g].state /\ p'.end[Peer(g)].state = p.end[Peer(g)].state
          /\ p'.end[Peer(g)].inpipe = p.end[Peer(g)].inpipe
      BY <1>8, <3>1 DEF Alike
    <3> QED
      BY <1>6, <1>7, <3>1, <3>2, DelimitedKeeps
  <2> QED
    BY <2>1 DEF Delimited
<1> QED
  BY <1>6, <1>9, <1>10, <1>11

\* The reader reports every lwm-th message.
Recent(m, lo, hi, l) ==
  l > 0 => \E k \in Nat : /\ k % l = 0 /\ k <= hi /\ hi < k + l
                          /\ (k <= lo \/ Has(m, <<"activate_write", k>>))

LEMMA ReportsGrow ==
  ASSUME NEW m \in Seq(Commands), NEW lo \in Nat, NEW hi \in Nat, NEW l \in Nat, NEW g \in Nat, NEW n,
         g = hi \/ g = hi + 1, Rising(m, lo, hi), Recent(m, lo, hi, l),
         l > 0 /\ g % l = 0 => n = Append(m, <<"activate_write", g>>),
         ~(l > 0 /\ g % l = 0) => n = m
  PROVE  Rising(n, lo, g) /\ Recent(n, lo, g, l)
<1> DEFINE c == <<"activate_write", g>>
<1>1. g >= hi
  OBVIOUS
<1>2. c \in Commands /\ c[1] = "activate_write" /\ c[2] = g
  BY CommandSet
<1> HIDE DEF c
<1>3. Rising(m, lo, g)
  BY <1>1, <1>2, RisingAppend
<1>4. Rising(Append(m, c), lo, g)
  BY <1>2, <1>3, RisingAppend
<1>5. Rising(n, lo, g)
  BY <1>3, <1>4 DEF c
<1>6. ASSUME l > 0, NEW k \in Nat, k % l = 0, k <= hi, hi < k + l,
             k <= lo \/ Has(m, <<"activate_write", k>>)
      PROVE  \E j \in Nat : /\ j % l = 0 /\ j <= g /\ g < j + l
                            /\ (j <= lo \/ Has(n, <<"activate_write", j>>))
  <2>1. CASE g % l = 0
    <3>1. n = Append(m, c)
      BY <1>6, <2>1 DEF c
    <3>2. Has(n, c)
      BY <1>2, <3>1, MailAppend
    <3>3. g <= g /\ g < g + l
      BY <1>6
    <3> QED
      BY <2>1, <3>2, <3>3 DEF c
  <2>2. CASE g % l # 0
    <3>1. n = m
      BY <1>6, <2>2
    <3>2. g # k + l
      <4>1. (k + l) % l = 0
        BY <1>6, NextMultiple
      <4> QED
        BY <2>2, <4>1
    <3>3. k <= g /\ g < k + l
      BY <1>1, <1>6, <3>2
    <3> QED
      BY <1>6, <3>1, <3>3
  <2> QED
    BY <2>1, <2>2
<1>7. Recent(n, lo, g, l)
  BY <1>6 DEF Recent
<1> QED
  BY <1>5, <1>7

LEMMA ReadStep ==
  ASSUME PipeInv, p.end[2].inActive, p.end[2].state \in {"active", "pending"},
         p.yp[p.end[2].inpipe].queue # << >>, Head(p.yp[p.end[2].inpipe].queue) # "delim",
         p' = read(p, 2), closing' = closing, partial' = partial
  PROVE  PipeInv'
<1> DEFINE i == p.end[2].inpipe
           x == Head(p.yp[i].queue)
           r == HasRead(p.end[2], x)
           y == Popped(p.yp[i])
           lwm == p.end[2].lwm
           m == p.mail[1]
           hi == p.end[2].msgsRead
           lo == p.end[1].peersMsgsRead
<1>1. /\ p.end \in EndPairs /\ p.end[2] \in EndRecords /\ i \in 1..Len(p.yp) /\ p.yp[i] \in YPipes /\ p.mail \in MailPairs
      /\ partial \in BOOLEAN /\ closing \subseteq Ends /\ Holds(p.ok) /\ i # 1 /\ 1 \in 1..Len(p.yp)
      /\ p.end[1].inpipe = 1 /\ m \in Seq(Commands)
  BY Basics
<1>2. i = NextOut /\ NextOut = Len(p.yp)
  BY ReadsOut
<1>3. lwm \in Nat /\ hi \in Nat /\ lo \in Nat /\ p.end[1].msgsWritten \in Nat
  BY TypesAre, OneTwo DEF PipeInv
<1>4. /\ r \in EndRecords /\ r.state = p.end[2].state /\ r.inActive = p.end[2].inActive /\ r.inpipe = i
      /\ r.outpipe = p.end[2].outpipe /\ r.delay = p.end[2].delay /\ r.lwm = lwm /\ r.msgsRead = hi + One(x)
  <2> DEFINE b == p.end[2]
  <2>1. b \in EndRecords /\ r = HasRead(b, x)
    BY <1>1
  <2> HIDE DEF b, r, x
  <2>2. /\ r \in EndRecords /\ r.state = b.state /\ r.inActive = b.inActive /\ r.inpipe = b.inpipe
        /\ r.outpipe = b.outpipe /\ r.delay = b.delay /\ r.lwm = b.lwm /\ r.msgsRead = b.msgsRead + One(x)
    BY <2>1, HasReadIs
  <2> QED
    BY <2>2 DEF b
<1>5. One(x) \in {0, 1}
  BY DEF One
<1>20. r.msgsRead \in Nat
  <2> HIDE DEF r, x, hi
  <2> QED
    BY <1>3, <1>4, <1>5
<1>21. <<"activate_write", r.msgsRead>> \in Commands /\ <<"activate_write", r.msgsRead>> \in Notes
  <2> DEFINE n == r.msgsRead
  <2> HIDE DEF n
  <2>1. n \in Nat
    BY <1>20 DEF n
  <2>2. <<"activate_write", n>> \in Commands /\ <<"activate_write", n>> \in Notes
    BY <2>1, CommandSet
  <2> QED
    BY <2>2 DEF n
<1>6. PICK N \in MailPairs :
        /\ p' = Pair(EndWith(p.end, 2, r), YpWith(p.yp, i, y), N, p.ok)
        /\ N[2] = p.mail[2]
        /\ IF lwm > 0 /\ r.msgsRead % lwm = 0 THEN N[1] = Append(m, <<"activate_write", r.msgsRead>>) ELSE N[1] = m
  <2>1. PICK E \in EndPairs, Y \in Seq(YPipes), M \in MailPairs : \E k :
          p = Pair(E, Y, M, k) /\ p.end = E /\ p.yp = Y /\ p.mail = M /\ p.ok = k /\ Holds(k)
    BY Names
  <2>2. PICK k : p = Pair(E, Y, M, k) /\ p.end = E /\ p.yp = Y /\ p.mail = M /\ p.ok = k /\ Holds(k)
    BY <2>1
  <2>3. E[2].inpipe \in 1..Len(Y) /\ Y[E[2].inpipe].live
    BY <2>2, OneTwo, InPlace
  <2>4. /\ E[2].inActive /\ E[2].state \in {"active", "pending"}
        /\ Y[E[2].inpipe].queue # << >> /\ Head(Y[E[2].inpipe].queue) # "delim"
    BY <2>2
  <2> DEFINE q == Pair(E, Y, M, k)
             s == HasRead(E[2], Head(Y[E[2].inpipe].queue))
             E1 == EndWith(E, 2, s)
             Y1 == YpWith(Y, E[2].inpipe, Popped(Y[E[2].inpipe]))
             c == <<"activate_write", s.msgsRead>>
  <2>5. /\ E[2].lwm > 0 /\ s.msgsRead % E[2].lwm = 0 => read(q, 2) = Pair(E1, Y1, Sent(M, 1, c), k)
        /\ ~(E[2].lwm > 0 /\ s.msgsRead % E[2].lwm = 0) => read(q, 2) = Pair(E1, Y1, M, k)
    <3>1. Holds(k)
      BY <2>2
    <3> QED
      BY <2>3, <2>4, <3>1, ReadIs
  <2>6. s = r /\ E[2].lwm = lwm /\ E1 = EndWith(p.end, 2, r) /\ Y1 = YpWith(p.yp, i, y) /\ p' = read(q, 2)
    BY <2>2
  <2>7. c \in Commands
    BY <1>21, <2>6
  <2> HIDE DEF q, s, E1, Y1, c, r, y, i, lwm, m
  <2>8. Sent(M, 1, c) \in MailPairs /\ Sent(M, 1, c)[1] = Append(M[1], c) /\ Sent(M, 1, c)[2] = M[2]
    BY <2>7, OneTwo, SentTo
  <2>9. CASE lwm > 0 /\ r.msgsRead % lwm = 0
    <3>1. p' = Pair(EndWith(p.end, 2, r), YpWith(p.yp, i, y), Sent(M, 1, c), p.ok)
      BY <2>2, <2>5, <2>6, <2>9
    <3> QED
      BY <2>2, <2>6, <2>8, <2>9, <3>1 DEF c, m
  <2>10. CASE ~(lwm > 0 /\ r.msgsRead % lwm = 0)
    <3>1. p' = Pair(EndWith(p.end, 2, r), YpWith(p.yp, i, y), M, p.ok)
      BY <2>2, <2>5, <2>6, <2>10
    <3> QED
      BY <2>2, <2>10, <3>1 DEF m
  <2> QED
    BY <2>9, <2>10
<1>7. y \in YPipes /\ y.queue = Tail(p.yp[i].queue) /\ (y.live <=> p.yp[i].live)
  BY <1>1, PoppedIs
<1>8. ItemsIn(p.yp[i]) # << >> /\ Head(ItemsIn(p.yp[i])) = x /\ ItemsIn(y) = Tail(ItemsIn(p.yp[i]))
  BY <1>1, PoppedItems
<1> HIDE DEF r, y, x
<1>9. /\ Types' /\ p'.ok /\ p'.mail = N
      /\ p'.end[2] = r /\ p'.end[Peer(2)] = p.end[Peer(2)]
      /\ Len(p'.yp) = Len(p.yp) /\ p'.yp[i] = y
      /\ \A j \in 1..Len(p.yp) : j # i => p'.yp[j] = p.yp[j]
  <2>1. closing' \subseteq Ends /\ partial' \in BOOLEAN
    BY <1>1
  <2> HIDE DEF i
  <2> QED
    BY <1>1, <1>4, <1>6, <1>7, <2>1, OneTwo, NextIs
<1>10. p'.end[1] = p.end[1] /\ p'.yp[1] = p.yp[1]
  BY <1>1, <1>9, OneTwo
<1>11. Handshake' /\ Mails' /\ Pointers' /\ HiccupChain' /\ NextOut' = NextOut /\ Lives' /\ Leaving'
  <2>1. \A e \in Ends : /\ p'.end[e].state = p.end[e].state
                        /\ p'.end[e].inpipe = p.end[e].inpipe /\ p'.end[e].outpipe = p.end[e].outpipe
                        /\ p'.end[e].delay = p.end[e].delay
    BY <1>4, <1>9, <1>10, OneTwo
  <2>2. \A j \in 1..Len(p.yp) : p'.yp[j].live <=> p.yp[j].live
    BY <1>7, <1>9
  <2>3. p'.mail[Peer(1)] = p.mail[Peer(1)] /\ closing' \subseteq closing
    BY <1>6, <1>9, OneTwo
  <2>4. p'.mail[1] = p.mail[1] \/ (State(Peer(1)) \notin Silent /\ \E c \in Notes : p'.mail[1] = Append(p.mail[1], c))
    <3>1. State(Peer(1)) \notin Silent
      BY OneTwo DEF State, Silent
    <3> QED
      BY <1>6, <1>9, <1>21, <3>1
  <2> QED
    BY <1>9, <2>1, <2>2, <2>3, <2>4, OneTwo, QuietKeeps
<1>12. Fresh'
  BY <1>2, <1>9, <1>11, FreshKeeps
<1>13. ItemsIn(p.yp[i]) \in Seq(Items)
  BY <1>1, ItemsIs
<1>14. /\ Has(ItemsIn(y), "delim") => Has(ItemsIn(p.yp[i]), "delim")
       /\ DelimLast(ItemsIn(p.yp[i])) => DelimLast(ItemsIn(y))
       /\ Messages(ItemsIn(p.yp[i])) = Messages(ItemsIn(y)) + One(x) /\ Messages(ItemsIn(y)) \in Nat
  BY <1>8, <1>13, ItemsTail
<1>15. Delimiters'
  BY <1>2, <1>4, <1>9, <1>10, <1>11, <1>14, DelimitersKeep DEF PipeInv
<1>16. Counts'
  <2> DEFINE c == Messages(ItemsIn(p.yp[i]))
             d == Messages(ItemsIn(y))
             W == p.end[1].msgsWritten
  <2>1. /\ p.end[2].state # "dead" /\ p.end[2].state # "delimited"
        /\ c + hi <= W /\ (Len(p.yp) = 2 => c + hi = W)
    BY <1>2 DEF PipeInv, Counts, State
  <2>2. /\ Messages(ItemsIn(p'.yp[NextOut'])) = d /\ p'.end[2].msgsRead = hi + One(x) /\ p'.end[1].msgsWritten = W
        /\ p'.end[2].state # "delimited" /\ Len(p'.yp) = Len(p.yp)
    BY <1>2, <1>4, <1>9, <1>10, <1>11, <2>1
  <2>3. d + (hi + One(x)) <= W /\ (Len(p.yp) = 2 => d + (hi + One(x)) = W)
    <3> HIDE DEF c, d, W, hi, x
    <3>1. c = d + One(x) /\ d \in Nat /\ hi \in Nat /\ W \in Nat /\ One(x) \in {0, 1}
      BY <1>3, <1>5, <1>14 DEF c, d, W
    <3> QED
      BY <2>1, <3>1
  <2> HIDE DEF d, W, hi, x
  <2> QED
    BY <2>2, <2>3 DEF Counts, State
<1>17. Window' /\ Reports'
  <2> DEFINE g == r.msgsRead
             n == N[1]
  <2>1. Rising(m, lo, hi) /\ lwm = compute_lwm(p.end[1].hwm) /\ Recent(m, lo, hi, lwm)
    BY DEF PipeInv, Window, Reports, Recent
  <2>2. /\ lwm > 0 /\ g % lwm = 0 => n = Append(m, <<"activate_write", g>>)
        /\ ~(lwm > 0 /\ g % lwm = 0) => n = m
    BY <1>6
  <2>3. g = hi \/ g = hi + 1
    <3> HIDE DEF hi, r, x
    <3> QED
      BY <1>3, <1>4, <1>5
  <2> HIDE DEF g, n, m, lo, hi, lwm
  <2>4. g \in Nat /\ m \in Seq(Commands) /\ lo \in Nat /\ hi \in Nat /\ lwm \in Nat
    BY <1>1, <1>3, <1>20 DEF g
  <2>5. Rising(n, lo, g) /\ Recent(n, lo, g, lwm)
    <3>1. Rising(m, lo, hi) /\ Recent(m, lo, hi, lwm)
      BY <2>1
    <3> QED
      BY <2>2, <2>3, <2>4, <3>1, ReportsGrow
  <2>6. /\ p'.end[1].peersMsgsRead = lo /\ p'.end[2].msgsRead = g /\ p'.mail[1] = n /\ p'.end[2].lwm = lwm
        /\ p'.end[1] = p.end[1]
    BY <1>4, <1>9, <1>10 DEF g, n, lo, lwm
  <2>7. Window'
    BY <2>5, <2>6 DEF PipeInv, Window
  <2>8. Reports'
    BY <2>1, <2>5, <2>6 DEF Reports, Recent
  <2> QED
    BY <2>7, <2>8
<1>18. Sleeping'
  <2>1. SleepsWell(2)'
    BY <1>4, <1>9 DEF SleepsWell
  <2>2. SleepsWell(1)'
    <3>2. Has(p.mail[1], Wake) => Has(p'.mail[1], Wake)
      BY <1>1, <1>6, <1>9, <1>21, WakeStays
    <3>3. SleepsWell(1)
      BY Basics
    <3> QED
      BY <1>1, <1>10, <3>2, <3>3, SleepKeeps
  <2> QED
    BY <2>1, <2>2, OneTwo DEF Sleeping
<1>19. Delimited'
  <2>1. IsDelimited(1) /\ IsDelimited(2)
    BY Basics
  <2>2. Has(p.yp[i].queue, "delim") => Has(y.queue, "delim")
    <3>1. p.yp[i].queue \in Seq(Items)
      BY <1>1, ItemsIs
    <3> QED
      BY <1>7, <3>1, ItemsTail
  <2>3. IsDelimited(1)'
    BY <1>4, <1>9, <1>10, <2>1, <2>2, OneTwo, DelimitedKeeps
  <2>4. IsDelimited(2)'
    BY <1>1, <1>4, <1>9, <1>10, <2>1, OneTwo, DelimitedKeeps
  <2> QED
    BY <2>3, <2>4, OneTwo DEF Delimited
<1> QED
  BY <1>9, <1>11, <1>12, <1>15, <1>16, <1>17, <1>18, <1>19 DEF PipeInv

-----------------------------------------------------------------------------
\* The handshake. What a step of it does to the mail of its end, and of the other.
Receives(m, n) == n = m \/ (m # << >> /\ Head(m) \in {Term, Ack} /\ n = Tail(m))
Sends(m, n) ==
  \/ n = m
  \/ ~Has(m, Term) /\ ~Has(m, Ack) /\ n = Append(m, Term)
  \/ ~Has(m, Ack) /\ n = Append(m, Ack)

LEMMA MailMoves ==
  ASSUME NEW m \in Seq(Commands), NEW n, MailOrder(m), Receives(m, n) \/ Sends(m, n)
  PROVE  /\ MailOrder(n) /\ Steady(m, n)
         /\ Has(m, Wake) => Has(n, Wake)
         /\ \A lo, hi \in Nat : lo <= hi /\ Chain(m, lo, hi) => Chain(n, lo, hi)
         /\ (\A i \in 1..Len(m) : ~HiccupAt(m, i)) => (\A i \in 1..Len(n) : ~HiccupAt(n, i))
<1>1. CASE n = m
  BY <1>1 DEF Steady
<1>2. ASSUME NEW c \in {Term, Ack}, n = Append(m, c), ~Has(m, Ack), c = Term => ~Has(m, Term)
      PROVE  /\ MailOrder(n) /\ Steady(m, n)
             /\ Has(m, Wake) => Has(n, Wake)
             /\ \A lo, hi \in Nat : lo <= hi /\ Chain(m, lo, hi) => Chain(n, lo, hi)
             /\ (\A i \in 1..Len(m) : ~HiccupAt(m, i)) => (\A i \in 1..Len(n) : ~HiccupAt(n, i))
  <2>1. c \in Commands /\ c[1] # "activate_write" /\ c[1] # "hiccup"
    BY CommandSet DEF Term, Ack
  <2>2. MailOrder(n)
    BY <1>2, <2>1, OrderAppend
  <2>3. Steady(m, n)
    BY <1>2, <2>1 DEF Steady
  <2>4. Has(m, Wake) => Has(n, Wake)
    BY <1>2, <2>1, WakeStays
  <2>5. ASSUME NEW lo \in Nat, NEW hi \in Nat, lo <= hi, Chain(m, lo, hi) PROVE Chain(n, lo, hi)
    BY <1>2, <2>1, <2>5, ChainAppend
  <2>6. ASSUME \A i \in 1..Len(m) : ~HiccupAt(m, i) PROVE \A i \in 1..Len(n) : ~HiccupAt(n, i)
    <3>1. \A i \in 1..Len(n) : (i \in 1..Len(m) /\ n[i] = m[i]) \/ n[i] = c
      BY <1>2, <2>1, MailAppend
    <3> QED
      BY <2>1, <2>6, <3>1 DEF HiccupAt
  <2> QED
    BY <2>2, <2>3, <2>4, <2>5, <2>6
<1>3. CASE m # << >> /\ Head(m) \in {Term, Ack} /\ n = Tail(m)
  <2>1. Head(m)[1] # "activate_write" /\ Head(m)[1] # "hiccup" /\ Head(m) # Wake
    BY <1>3 DEF Term, Ack, Wake
  <2>2. MailOrder(n)
    BY <1>3, OrderTail
  <2>3. Steady(m, n)
    BY <1>3, <2>1 DEF Steady
  <2>4. Has(m, Wake) => Has(n, Wake)
    BY <1>3, <2>1, MailTail
  <2>5. ASSUME NEW lo \in Nat, NEW hi \in Nat, lo <= hi, Chain(m, lo, hi) PROVE Chain(n, lo, hi)
    BY <1>3, <2>1, <2>5, ChainTail
  <2>6. ASSUME \A i \in 1..Len(m) : ~HiccupAt(m, i) PROVE \A i \in 1..Len(n) : ~HiccupAt(n, i)
    <3>1. \A i \in 1..Len(n) : i + 1 \in 1..Len(m) /\ n[i] = m[i + 1]
      BY <1>3, MailTail
    <3> QED
      BY <2>6, <3>1 DEF HiccupAt
  <2> QED
    BY <2>2, <2>3, <2>4, <2>5, <2>6
<1>4. n = m \/ (m # << >> /\ Head(m) \in {Term, Ack} /\ n = Tail(m))
        \/ \E c \in {Term, Ack} : n = Append(m, c) /\ ~Has(m, Ack) /\ (c = Term => ~Has(m, Term))
  BY DEF Receives, Sends
<1>5. CASE \E c \in {Term, Ack} : n = Append(m, c) /\ ~Has(m, Ack) /\ (c = Term => ~Has(m, Term))
  <2>1. PICK c \in {Term, Ack} : n = Append(m, c) /\ ~Has(m, Ack) /\ (c = Term => ~Has(m, Term))
    BY <1>5
  <2> HIDE <1>5
  <2> QED
    BY <1>2, <2>1
<1> QED
  BY <1>1, <1>3, <1>4, <1>5

\* A step of the handshake of end e.
LEMMA MoveProtocol ==
  ASSUME PipeInv, Types', Len(p'.yp) = Len(p.yp), NEW e \in Ends,
         p'.end[Peer(e)] = p.end[Peer(e)], p'.end[e].inpipe = p.end[e].inpipe,
         p'.end[e].outpipe = (IF p'.end[e].state \in Silent THEN None ELSE p.end[e].outpipe),
         p.end[e].state \in Silent => p'.end[e].state \in Silent,
         e = 1 /\ p'.end[1].state \in Silent \cup {"pending"} => NextOut = Len(p.yp),
         Receives(p.mail[e], p'.mail[e]), Sends(p.mail[Peer(e)], p'.mail[Peer(e)]),
         p'.end[e].state = "dead" => p'.mail[e] = << >>,
         p.end[Peer(e)].state = "dead" => p'.mail[Peer(e)] = p.mail[Peer(e)],
         Shakes(p'.end[e].state, Control(p'.mail[e]), p.end[Peer(e)].state, Control(p'.mail[Peer(e)]))
  PROVE  /\ Handshake' /\ Mails' /\ Pointers' /\ HiccupChain' /\ NextOut' = NextOut
         /\ Steady(p.mail[1], p'.mail[1])
         /\ \A g \in Ends : Has(p.mail[g], Wake) => Has(p'.mail[g], Wake)
<1> DEFINE f == Peer(e)
<1>1. f \in Ends /\ f # e /\ Peer(f) = e /\ \A g \in Ends : g = e \/ g = f
  BY PeerIs DEF Ends, Peer
<1>2. Types /\ Mails /\ Pointers /\ HiccupChain
  BY DEF PipeInv
<1>3. \A g \in Ends : p.mail[g] \in Seq(Commands) /\ MailOrder(p.mail[g])
  BY <1>2, TypesAre DEF Mails
<1>4. ASSUME NEW g \in Ends
      PROVE  /\ MailOrder(p'.mail[g]) /\ Steady(p.mail[g], p'.mail[g])
             /\ Has(p.mail[g], Wake) => Has(p'.mail[g], Wake)
             /\ \A lo, hi \in Nat : lo <= hi /\ Chain(p.mail[g], lo, hi) => Chain(p'.mail[g], lo, hi)
             /\ (\A i \in 1..Len(p.mail[g]) : ~HiccupAt(p.mail[g], i)) =>
                  (\A i \in 1..Len(p'.mail[g]) : ~HiccupAt(p'.mail[g], i))
  <2>1. Receives(p.mail[g], p'.mail[g]) \/ Sends(p.mail[g], p'.mail[g])
    BY <1>1
  <2>2. p.mail[g] \in Seq(Commands) /\ MailOrder(p.mail[g])
    BY <1>3
  <2> QED
    BY <2>1, <2>2, MailMoves
<1>5. Handshake'
  <2>1. Shakes(State(e)', Control(p'.mail[e]), State(Peer(e))', Control(p'.mail[Peer(e)]))
    BY DEF State
  <2> QED
    BY <2>1, HandshakeAt
<1>6. Mails'
  <2>1. \A g \in Ends : p'.end[g].state = "dead" => p'.mail[g] = << >>
    <3>1. p.end[f].state = "dead" => p.mail[f] = << >>
      BY <1>1, <1>2 DEF Mails, State
    <3> QED
      BY <1>1, <3>1
  <2> QED
    BY <1>4, <2>1 DEF Mails, State
<1>7. /\ \A g \in Ends : p'.end[g].inpipe = p.end[g].inpipe
      /\ \A g \in Ends : p'.end[g].outpipe = p.end[g].outpipe \/ p'.end[g].outpipe = None
      /\ \A g \in Ends : p'.end[g].outpipe = None <=> p'.end[g].state \in Silent
  <2>1. \A g \in Ends : p.end[g].outpipe = None <=> p.end[g].state \in Silent
    BY <1>2 DEF Pointers, State
  <2> QED
    BY <1>1, <2>1
<1>8. Pointers'
  BY <1>2, <1>7, OneTwo DEF Pointers, State
<1>9. NextOut' = NextOut
  <2>1. p'.end[1].outpipe = None => NextOut = Len(p.yp)
    <3>1. CASE e = 1
      <4>1. p'.end[1].outpipe = None => p'.end[1].state \in Silent
        BY <1>7, OneTwo
      <4> QED
        BY <3>1, <4>1
    <3>2. CASE e = 2
      BY <3>2, OneTwo DEF NextOut
    <3> QED
      BY <3>1, <3>2, OneTwo
  <2>2. p'.end[1].outpipe = p.end[1].outpipe \/ p'.end[1].outpipe = None
    BY <1>7, OneTwo
  <2> QED
    BY <2>1, <2>2 DEF NextOut
<1>10. HiccupChain'
  <2>1. NextOut \in Nat /\ Len(p.yp) \in Nat /\ NextOut <= Len(p.yp)
    BY <1>2, NextOutIs
  <2>2. Chain(p.mail[1], NextOut, Len(p.yp)) /\ \A i \in 1..Len(p.mail[2]) : ~HiccupAt(p.mail[2], i)
    BY <1>2 DEF HiccupChain
  <2>3. Chain(p'.mail[1], NextOut, Len(p.yp))
    BY <1>4, <2>1, <2>2, OneTwo
  <2>4. \A i \in 1..Len(p'.mail[2]) : ~HiccupAt(p'.mail[2], i)
    BY <1>4, <2>2, OneTwo
  <2>5. p'.end[1].state = "pending" => NextOut = Len(p.yp)
    <3>1. CASE e = 1
      BY <3>1
    <3>2. CASE e = 2
      BY <1>2, <3>2, OneTwo DEF HiccupChain, State
    <3> QED
      BY <3>1, <3>2, OneTwo
  <2> QED
    BY <1>9, <2>3, <2>4, <2>5 DEF HiccupChain, State
<1> QED
  BY <1>4, <1>5, <1>6, <1>8, <1>9, <1>10, OneTwo

\* What such a step leaves alone of its end ...
Moved(r, s) ==
  /\ r.inpipe = s.inpipe /\ r.inActive = s.inActive /\ r.outActive = s.outActive
  /\ r.hwm = s.hwm /\ r.lwm = s.lwm /\ r.msgsRead = s.msgsRead /\ r.msgsWritten = s.msgsWritten
  /\ r.peersMsgsRead = s.peersMsgsRead
  /\ r.outpipe = (IF r.state \in Silent THEN None ELSE s.outpipe)
  /\ s.state \in Silent => r.state \in Silent

\* ... and of the ypipe that it reads.
Consumed(s, y, z) ==
  \/ y = z
  \/ s = "dead" /\ y = Deleted(z)
  \/ s \in {"delimited", "terminating"} /\ z.queue # << >> /\ Head(z.queue) = "delim" /\ y = Popped(z)

LEMMA ConsumedIs ==
  ASSUME NEW s, NEW z \in YPipes, NEW y, Consumed(s, y, z)
  PROVE  /\ y \in YPipes
         /\ s # "dead" => /\ y.live <=> z.live
                          /\ Has(ItemsIn(y), "delim") => Has(ItemsIn(z), "delim")
                          /\ DelimLast(ItemsIn(z)) => DelimLast(ItemsIn(y))
                          /\ Messages(ItemsIn(y)) = Messages(ItemsIn(z))
         /\ s \in {"active", "pending"} => y = z
         /\ z.queue = << >> => y.queue = << >> /\ y.pending = z.pending
<1>1. CASE y = z
  BY <1>1
<1>2. CASE s = "dead" /\ y = Deleted(z)
  BY <1>2, DeletedIs
<1>3. CASE s \in {"delimited", "terminating"} /\ z.queue # << >> /\ Head(z.queue) = "delim" /\ y = Popped(z)
  <2>1. y \in YPipes /\ (y.live <=> z.live)
    BY <1>3, PoppedIs
  <2>2. ItemsIn(z) # << >> /\ Head(ItemsIn(z)) = "delim" /\ ItemsIn(y) = Tail(ItemsIn(z)) /\ ItemsIn(z) \in Seq(Items)
    BY <1>3, PoppedItems, ItemsIs
  <2>3. One("delim") = 0
    BY DEF One
  <2>4. /\ Has(ItemsIn(y), "delim") => Has(ItemsIn(z), "delim")
        /\ DelimLast(ItemsIn(z)) => DelimLast(ItemsIn(y))
        /\ Messages(ItemsIn(z)) = Messages(ItemsIn(y)) + 0 /\ Messages(ItemsIn(y)) \in Nat
    BY <2>2, <2>3, ItemsTail
  <2> QED
    BY <1>3, <2>1, <2>4
<1> QED
  BY <1>1, <1>2, <1>3 DEF Consumed

\* A step of end e in the handshake: its end becomes r, the ypipe it reads y, the mails N.
IsMove(e, r, y, N) ==
  /\ p' = Pair(EndWith(p.end, e, r), YpWith(p.yp, p.end[e].inpipe, y), N, p.ok)
  /\ Moved(r, p.end[e]) /\ Consumed(r.state, y, p.yp[p.end[e].inpipe])
  /\ closing \subseteq closing' /\ closing' \subseteq closing \cup {e} /\ e \notin closing
  /\ partial' \in BOOLEAN
  /\ e = 1 /\ r.state \in Silent \cup {"pending"} => NextOut = Len(p.yp)
  /\ Receives(p.mail[e], N[e]) /\ Sends(p.mail[Peer(e)], N[Peer(e)])
  /\ r.state = "dead" => N[e] = << >>
  /\ p.end[Peer(e)].state = "dead" => N[Peer(e)] = p.mail[Peer(e)]
  /\ Shakes(r.state, Control(N[e]), p.end[Peer(e)].state, Control(N[Peer(e)]))
  /\ p.end[e].state # "dead" /\ r.state # "active"
  /\ r.state = "delimited" => p.end[e].state = "active" /\ r.delay = p.end[e].delay /\ e \notin closing'
  /\ r.state = "pending" => p.end[e].state \in {"active", "pending"}
  /\ r.state = "terminated" => e \in closing'
  /\ e = 1 /\ 1 \in closing' /\ r.state # "terminating" => ~Has(ItemsIn(p.yp[NextOut]), "delim")
  /\ e = 2 /\ r.state = "delimited" /\ Len(p.yp) = 2 => Messages(ItemsIn(y)) = 0

LEMMA MoveFacts ==
  ASSUME PipeInv, NEW e \in Ends, NEW r \in EndRecords, NEW y, NEW N \in MailPairs, IsMove(e, r, y, N)
  PROVE  /\ Types' /\ p'.ok /\ p'.mail = N /\ p'.end[e] = r /\ p'.end[Peer(e)] = p.end[Peer(e)]
         /\ Len(p'.yp) = Len(p.yp) /\ p'.yp[p.end[e].inpipe] = y
         /\ \A j \in 1..Len(p.yp) : j # p.end[e].inpipe => p'.yp[j] = p.yp[j]
         /\ Handshake' /\ Mails' /\ Pointers' /\ HiccupChain' /\ NextOut' = NextOut
         /\ Steady(p.mail[1], p'.mail[1])
         /\ \A g \in Ends : Has(p.mail[g], Wake) => Has(p'.mail[g], Wake)
<1> DEFINE i == p.end[e].inpipe
<1>1. i \in 1..Len(p.yp) /\ p.yp[i] \in YPipes
  BY InPlace
<1>2. y \in YPipes
  BY <1>1, ConsumedIs DEF IsMove
<1>3. Holds(p.ok) /\ closing' \subseteq Ends
  <2>1. Holds(p.ok) /\ closing \subseteq Ends
    BY Basics
  <2> QED
    BY <2>1 DEF IsMove
<1>4. /\ Types' /\ p'.ok /\ p'.mail = N /\ p'.end[e] = r /\ p'.end[Peer(e)] = p.end[Peer(e)]
      /\ Len(p'.yp) = Len(p.yp) /\ p'.yp[i] = y
      /\ \A j \in 1..Len(p.yp) : j # i => p'.yp[j] = p.yp[j]
  <2> HIDE DEF i
  <2>2. partial' \in BOOLEAN
    BY DEF IsMove
  <2>1. p' = Pair(EndWith(p.end, e, r), YpWith(p.yp, i, y), N, p.ok)
    BY DEF i, IsMove
  <2> QED
    BY <1>1, <1>2, <1>3, <2>1, <2>2, NextIs
<1>5. /\ p'.end[e].inpipe = p.end[e].inpipe
      /\ p'.end[e].outpipe = (IF p'.end[e].state \in Silent THEN None ELSE p.end[e].outpipe)
      /\ p.end[e].state \in Silent => p'.end[e].state \in Silent
  BY <1>4 DEF IsMove, Moved
<1>6. /\ e = 1 /\ p'.end[1].state \in Silent \cup {"pending"} => NextOut = Len(p.yp)
      /\ Receives(p.mail[e], p'.mail[e]) /\ Sends(p.mail[Peer(e)], p'.mail[Peer(e)])
      /\ p'.end[e].state = "dead" => p'.mail[e] = << >>
      /\ p.end[Peer(e)].state = "dead" => p'.mail[Peer(e)] = p.mail[Peer(e)]
      /\ Shakes(p'.end[e].state, Control(p'.mail[e]), p.end[Peer(e)].state, Control(p'.mail[Peer(e)]))
  BY <1>4 DEF IsMove
<1>7. /\ Handshake' /\ Mails' /\ Pointers' /\ HiccupChain' /\ NextOut' = NextOut
      /\ Steady(p.mail[1], p'.mail[1])
      /\ \A g \in Ends : Has(p.mail[g], Wake) => Has(p'.mail[g], Wake)
  BY <1>4, <1>5, <1>6, MoveProtocol
<1> QED
  BY <1>4, <1>7

\* Such a step keeps the invariant.
LEMMA MoveStep ==
  ASSUME PipeInv, NEW e \in Ends, NEW r \in EndRecords, NEW y, NEW N \in MailPairs, IsMove(e, r, y, N)
  PROVE  PipeInv'
<1> DEFINE i == p.end[e].inpipe
           f == Peer(e)
<1>1. /\ Types' /\ p'.ok /\ p'.mail = N /\ p'.end[e] = r /\ p'.end[f] = p.end[f]
      /\ Len(p'.yp) = Len(p.yp) /\ p'.yp[i] = y
      /\ \A j \in 1..Len(p.yp) : j # i => p'.yp[j] = p.yp[j]
      /\ Handshake' /\ Mails' /\ Pointers' /\ HiccupChain' /\ NextOut' = NextOut
      /\ Steady(p.mail[1], p'.mail[1])
      /\ \A g \in Ends : Has(p.mail[g], Wake) => Has(p'.mail[g], Wake)
  BY MoveFacts
<1>2. f \in Ends /\ f # e /\ Peer(f) = e /\ \A g \in Ends : g = e \/ g = f
  BY PeerIs DEF Ends, Peer
<1>3. /\ i \in 1..Len(p.yp) /\ p.yp[i] \in YPipes /\ p.end[f].inpipe \in 1..Len(p.yp) /\ p.end[f].inpipe # i
      /\ SleepsWell(e) /\ SleepsWell(f) /\ IsDelimited(e) /\ IsDelimited(f)
  BY InPlace
<1>4. /\ r.inpipe = i /\ r.inActive = p.end[e].inActive /\ r.outActive = p.end[e].outActive
      /\ r.hwm = p.end[e].hwm /\ r.lwm = p.end[e].lwm /\ r.msgsRead = p.end[e].msgsRead
      /\ r.msgsWritten = p.end[e].msgsWritten /\ r.peersMsgsRead = p.end[e].peersMsgsRead
  BY DEF IsMove, Moved
<1>5. NextOut \in 1..Len(p.yp) /\ NextOut # 1 /\ 1 \in 1..Len(p.yp) /\ p.end[1].inpipe = 1 /\ p.end[2].inpipe = Len(p.yp)
  BY Basics, Places
<1>6. /\ r.state # "dead" => /\ y.live <=> p.yp[i].live
                             /\ Has(ItemsIn(y), "delim") => Has(ItemsIn(p.yp[i]), "delim")
                             /\ DelimLast(ItemsIn(p.yp[i])) => DelimLast(ItemsIn(y))
                             /\ Messages(ItemsIn(y)) = Messages(ItemsIn(p.yp[i]))
      /\ r.state \in {"active", "pending"} => y = p.yp[i]
      /\ p.yp[i].queue = << >> => y.queue = << >> /\ y.pending = p.yp[i].pending
  BY <1>3, ConsumedIs DEF IsMove
<1>15. /\ closing \subseteq closing' /\ closing' \subseteq closing \cup {e} /\ e \notin closing
       /\ p.end[e].state # "dead" /\ r.state # "active"
       /\ r.state = "delimited" => p.end[e].state = "active" /\ r.delay = p.end[e].delay /\ e \notin closing'
       /\ r.state = "pending" => p.end[e].state \in {"active", "pending"}
       /\ r.state = "terminated" => e \in closing'
       /\ e = 1 /\ 1 \in closing' /\ r.state # "terminating" => ~Has(ItemsIn(p.yp[NextOut]), "delim")
       /\ e = 2 /\ r.state = "delimited" /\ Len(p.yp) = 2 => Messages(ItemsIn(y)) = 0
  BY DEF IsMove
<1> HIDE DEF i, f
<1>7. \A g \in Ends : p'.end[g].state # "dead" => p.end[g].state # "dead"
  BY <1>1, <1>2, <1>15
<1>8. Lives'
  <2>1. CASE r.state # "dead"
    <3>1. \A j \in 1..Len(p.yp) : p'.yp[j].live <=> p.yp[j].live
      BY <1>1, <1>6, <2>1
    <3> QED
      BY <1>1, <1>7, <3>1, LivesKeep
  <2>2. CASE r.state = "dead"
    <3>1. /\ p.end[1].state # "dead" => p.yp[1].live
          /\ p.end[2].state # "dead" => \A j \in NextOut..Len(p.yp) : p.yp[j].live
      BY DEF PipeInv, Lives, State
    <3>2. \A j \in NextOut..Len(p.yp) : j \in 1..Len(p.yp) /\ j # 1
      BY <1>5
    <3>3. CASE e = 1
      <4>1. i = 1 /\ p'.end[1].state = "dead" /\ p'.end[2] = p.end[2]
        BY <1>1, <1>5, <2>2, <3>3, OneTwo DEF i, f
      <4>2. p'.end[2].state # "dead" => \A j \in NextOut..Len(p.yp) : p'.yp[j].live
        BY <1>1, <3>1, <3>2, <4>1
      <4> QED
        BY <1>1, <4>1, <4>2 DEF Lives, State
    <3>4. CASE e = 2
      <4>1. i # 1 /\ p'.end[2].state = "dead" /\ p'.end[1] = p.end[1]
        BY <1>1, <1>3, <1>5, <2>2, <3>4, OneTwo DEF i, f
      <4>2. p'.end[1].state # "dead" => p'.yp[1].live
        BY <1>1, <1>5, <3>1, <4>1
      <4> QED
        BY <1>1, <4>1, <4>2 DEF Lives, State
    <3> QED
      BY <3>3, <3>4, OneTwo
  <2> QED
    BY <2>1, <2>2
<1>9. Leaving'
  <2>1. Leaving
    BY DEF PipeInv
  <2>2. \A g \in closing' : p'.end[g].state \notin {"active", "delimited"}
    <3>1. \A g \in closing : p.end[g].state \notin {"active", "delimited"} /\ g \in Ends /\ g # e
      BY <1>15, <2>1, Basics DEF Leaving, State
    <3> QED
      BY <1>1, <1>2, <1>15, <3>1
  <2>3. \A g \in Ends : p'.end[g].state \in {"active", "delimited"} => p'.end[g].delay
    <3>1. \A g \in Ends : p.end[g].state \in {"active", "delimited"} => p.end[g].delay
      BY <2>1 DEF Leaving, State
    <3> QED
      BY <1>1, <1>2, <1>15, <3>1
  <2> QED
    BY <2>2, <2>3 DEF Leaving, State
<1>10. Fresh'
  <2>1. \A j \in 1..Len(p.yp) : j > NextOut => p'.yp[j].queue = p.yp[j].queue /\ p'.yp[j].pending = p.yp[j].pending
    <3>1. i > NextOut => p.yp[i].queue = << >>
      <4>1. NextOut \in Nat /\ Len(p.yp) \in Nat
        BY Places
      <4> QED
        BY <1>3, <4>1 DEF PipeInv, Fresh
    <3> QED
      BY <1>1, <1>6, <3>1
  <2> QED
    BY <1>1, <2>1, FreshKeeps
<1>11. Window' /\ Reports'
  <2>1. Types /\ Window /\ Reports
    BY DEF PipeInv
  <2>2. /\ p'.end[1].hwm = p.end[1].hwm /\ p'.end[2].lwm = p.end[2].lwm
        /\ p'.end[2].msgsRead = p.end[2].msgsRead /\ p'.end[1].msgsWritten = p.end[1].msgsWritten
        /\ p'.end[1].peersMsgsRead = p.end[1].peersMsgsRead
        /\ p'.end[1].state = "active" /\ ~p'.end[1].outActive =>
              (p.end[1].state = "active" /\ ~p.end[1].outActive) \/ Full(p.end[1])
    <3>1. CASE e = 1
      BY <1>1, <1>4, <1>15, <3>1, OneTwo DEF f
    <3>2. CASE e = 2
      BY <1>1, <1>4, <3>2, OneTwo DEF f
    <3> QED
      BY <3>1, <3>2, OneTwo
  <2> QED
    BY <1>1, <2>1, <2>2, WindowKeeps
<1>12. Sleeping'
  <2>1. SleepsWell(e)'
    <3>1. CASE r.state \in {"active", "pending"}
      <4>1. y = p.yp[i] /\ p.end[e].state \in {"active", "pending"}
        BY <1>6, <1>15, <3>1
      <4> QED
        BY <1>1, <1>3, <1>4, <4>1, SleepKeeps DEF i
    <3>2. CASE r.state \notin {"active", "pending"}
      BY <1>1, <3>2 DEF SleepsWell, State
    <3> QED
      BY <3>1, <3>2
  <2>2. SleepsWell(f)'
    <3>1. p'.yp[p.end[f].inpipe] = p.yp[p.end[f].inpipe]
      BY <1>1, <1>3
    <3> QED
      BY <1>1, <1>2, <1>3, <3>1, SleepKeeps
  <2> QED
    BY <2>1, <2>2, BothEnds DEF f
<1>13. Delimited'
  <2>1. IsDelimited(e)'
    BY <1>1, <1>15 DEF IsDelimited, State
  <2>2. IsDelimited(f)'
    <3>1. p'.end[e].state \in {"active", "pending"} => p.end[e].state \in {"active", "pending"} /\ y = p.yp[i]
      BY <1>1, <1>6, <1>15
    <3>2. p'.end[e].inpipe = p.end[e].inpipe /\ Peer(f) = e
      BY <1>1, <1>2, <1>4 DEF i
    <3>3. p'.end[e].state \in {"active", "pending"} /\ Has(p.yp[p.end[e].inpipe].queue, "delim") =>
            Has(p'.yp[p.end[e].inpipe].queue, "delim")
      BY <1>1, <3>1 DEF i
    <3>4. p'.end[f].state = "terminated" /\ f \notin closing' => p.end[f].state = "terminated" /\ f \notin closing
      BY <1>1, <1>2, <1>15
    <3> QED
      BY <1>1, <1>3, <3>1, <3>2, <3>3, <3>4, DelimitedKeeps
  <2> QED
    BY <2>1, <2>2, BothEnds DEF f
<1>14. Delimiters' /\ Counts'
  <2>1. Delimiters /\ Counts
    BY DEF PipeInv
  <2>2. CASE e = 1
    <3>1. /\ i = 1 /\ p'.yp[NextOut] = p.yp[NextOut] /\ p'.end[1] = r /\ p'.end[2] = p.end[2] /\ 1 \notin closing
      BY <1>1, <1>5, <1>15, <2>2, OneTwo DEF i, f
    <3>2. Counts'
      <4>1. p'.end[1].msgsWritten = p.end[1].msgsWritten
        BY <1>4, <1>15, <2>2, <3>1
      <4> QED
        BY <1>1, <2>1, <3>1, <4>1, CountsKeep
    <3>3. 1 \in closing' /\ r.state # "terminating" => ~Has(ItemsIn(p.yp[NextOut]), "delim")
      BY <1>15, <2>2
    <3>4. CASE r.state # "dead"
      <4>1. Has(ItemsIn(p'.yp[1]), "delim") => Has(ItemsIn(p.yp[1]), "delim")
        BY <1>1, <1>6, <3>1, <3>4
      <4>2. /\ p'.end[1].state \in {"active", "delimited"} => p.end[1].state \in {"active", "delimited"}
            /\ p'.end[1].state = "pending" /\ p'.end[1].outActive =>
                 \/ p.end[1].state = "pending" /\ p.end[1].outActive
                 \/ p.end[1].state \in {"active", "delimited"}
            /\ p.end[1].state # "dead"
        BY <1>4, <1>15, <2>2, <3>1
      <4>3. Delimiters'
        BY <1>1, <2>1, <3>1, <3>3, <4>1, <4>2, DelimitersKeep
      <4> QED
        BY <3>2, <4>3
    <3>5. CASE r.state = "dead"
      <4>1. Delimiters'
        BY <1>1, <2>1, <3>1, <3>3, <3>5 DEF Delimiters, State
      <4> QED
        BY <3>2, <4>1
    <3> QED
      BY <3>2, <3>4, <3>5
  <2>3. CASE e = 2
    <3>1. /\ i # 1 /\ i = Len(p.yp) /\ p'.yp[1] = p.yp[1] /\ p'.end[1] = p.end[1] /\ p'.end[2] = r
          /\ (1 \in closing' => 1 \in closing)
      BY <1>1, <1>3, <1>5, <1>15, <2>3, OneTwo DEF i, f
    <3>2. CASE r.state # "dead"
      <4>1. /\ Has(ItemsIn(p'.yp[NextOut]), "delim") => Has(ItemsIn(p.yp[NextOut]), "delim")
            /\ DelimLast(ItemsIn(p.yp[NextOut])) => DelimLast(ItemsIn(p'.yp[NextOut]))
            /\ Messages(ItemsIn(p'.yp[NextOut])) = Messages(ItemsIn(p.yp[NextOut]))
        <5>1. CASE NextOut = i
          BY <1>1, <1>6, <3>2, <5>1
        <5>2. CASE NextOut # i
          BY <1>1, <1>5, <5>2
        <5> QED
          BY <5>1, <5>2
      <4>2. /\ p'.end[2].state \in {"active", "delimited"} => p.end[2].state \in {"active", "delimited"}
            /\ p.end[2].state # "dead"
        BY <1>15, <2>3, <3>1
      <4>3. Delimiters'
        BY <1>1, <2>1, <3>1, <4>1, <4>2, DelimitersKeep
      <4>4. Counts'
        <5>1. p'.end[2].msgsRead = p.end[2].msgsRead
          BY <1>4, <2>3, <3>1
        <5>2. CASE r.state # "delimited"
          BY <1>1, <2>1, <3>1, <4>1, <4>2, <5>1, <5>2, CountsKeep
        <5>3. CASE r.state = "delimited"
          <6>1. Len(p.yp) = 2 => Messages(ItemsIn(p'.yp[NextOut])) = 0
            <7>1. Len(p.yp) = 2 => NextOut = i
              <8>1. NextOut \in 2..Len(p.yp)
                BY Places
              <8> QED
                BY <3>1, <8>1
            <7> QED
              BY <1>1, <1>15, <2>3, <5>3, <7>1
          <6> QED
            BY <1>1, <2>1, <3>1, <4>1, <4>2, <5>1, <6>1 DEF Counts, State
        <5> QED
          BY <5>2, <5>3
      <4> QED
        BY <4>3, <4>4
    <3>3. CASE r.state = "dead"
      BY <3>1, <3>3 DEF Delimiters, Counts, State
    <3> QED
      BY <3>2, <3>3
  <2> QED
    BY <2>2, <2>3, OneTwo
<1> QED
  BY <1>1, <1>8, <1>9, <1>10, <1>11, <1>12, <1>13, <1>14 DEF PipeInv

\* The handshake as end e sees it.
LEMMA SeenFrom ==
  ASSUME PipeInv, NEW e \in Ends
  PROVE  Shakes(p.end[e].state, Control(p.mail[e]), p.end[Peer(e)].state, Control(p.mail[Peer(e)]))
BY HandshakeAt DEF PipeInv, State

\* An end that can be asked to stop has not been answered, and its command or its
\* answer may go.
LEMMA MaySend ==
  ASSUME PipeInv, NEW e \in Ends, p.end[e].state \in {"active", "delimited", "pending"}
  PROVE  /\ ~Has(p.mail[Peer(e)], Term) /\ ~Has(p.mail[Peer(e)], Ack) /\ Control(p.mail[Peer(e)]) = "none"
         /\ p.end[Peer(e)].state # "dead"
<1> DEFINE a == p.end[e].state
           b == Control(p.mail[e])
           c == p.end[Peer(e)].state
           m == p.mail[Peer(e)]
<1>1. Shakes(a, b, c, Control(m))
  BY SeenFrom
<1>2. a \in {"active", "delimited", "pending"} /\ a \notin Silent /\ m \in Seq(Commands)
  BY InPlace DEF Silent
<1> HIDE DEF a, b, c, m
<1>3. Control(m) = "none" /\ c # "dead"
  BY <1>1, <1>2, Moves
<1>4. ~Has(m, Term) /\ ~Has(m, Ack)
  BY <1>3 DEF Control
<1> QED
  BY <1>3, <1>4 DEF c, m

LEMMA DelimSeen ==
  ASSUME PipeInv, NEW e \in Ends, p.end[e].state # "dead", p.yp[p.end[e].inpipe].queue # << >>,
         Head(p.yp[p.end[e].inpipe].queue) = "delim"
  PROVE  /\ p.end[Peer(e)].state \notin {"active", "delimited"}
         /\ e = 2 => Messages(ItemsIn(Popped(p.yp[p.end[e].inpipe]))) = 0
<1> DEFINE i == p.end[e].inpipe
           s == ItemsIn(p.yp[i])
<1>1. i \in 1..Len(p.yp) /\ p.yp[i] \in YPipes
  BY InPlace
<1>2. s # << >> /\ Head(s) = "delim" /\ ItemsIn(Popped(p.yp[i])) = Tail(s) /\ s \in Seq(Items)
  BY <1>1, PoppedItems, ItemsIs
<1> HIDE DEF s
<1>3. Has(s, "delim")
  <2>1. 1 \in 1..Len(s) /\ s[1] = "delim"
    BY <1>2
  <2> QED
    BY <2>1 DEF Has
<1>4. CASE e = 1
  <2>1. i = 1
    BY <1>4, Places
  <2> QED
    BY <1>3, <1>4, <2>1, OneTwo DEF PipeInv, Delimiters, State, s
<1>5. CASE e = 2
  <2>1. i = NextOut
    BY <1>5, ReadsOut
  <2>2. DelimLast(s) /\ p.end[1].state \notin {"active", "delimited"}
    BY <1>3, <1>5, <2>1 DEF PipeInv, Delimiters, State, s
  <2>3. Tail(s) = << >>
    BY <1>2, <2>2, ItemsTail
  <2> QED
    BY <1>2, <1>5, <2>2, <2>3, ItemsEmpty, OneTwo
<1> QED
  BY <1>4, <1>5, OneTwo

\* An end that reads the delimiter while it is open, ...
LEMMA DelimitedStep ==
  ASSUME PipeInv, NEW e \in Ends, e \notin closing, p.end[e].state = "active",
         p.yp[p.end[e].inpipe].queue # << >>, Head(p.yp[p.end[e].inpipe].queue) = "delim",
         p' = delimit(Pop(p, e), e), closing' = closing, partial' = partial
  PROVE  PipeInv'
<1> DEFINE i == p.end[e].inpipe
           r == InState(p.end[e], "delimited")
           y == Popped(p.yp[i])
<1>1. /\ p.end \in EndPairs /\ p.end[e] \in EndRecords /\ i \in 1..Len(p.yp) /\ p.yp[i] \in YPipes
      /\ p.mail \in MailPairs /\ partial \in BOOLEAN
  BY Basics, InPlace
<1>2. p' = Pair(EndWith(p.end, e, r), YpWith(p.yp, i, y), p.mail, p.ok)
  <2>1. PICK E \in EndPairs, Y \in Seq(YPipes), M \in MailPairs : \E k :
          p = Pair(E, Y, M, k) /\ p.end = E /\ p.yp = Y /\ p.mail = M /\ p.ok = k /\ Holds(k)
    BY Names
  <2>2. PICK k : p = Pair(E, Y, M, k) /\ p.end = E /\ p.yp = Y /\ p.mail = M /\ p.ok = k /\ Holds(k)
    BY <2>1
  <2>3. E[e].inpipe \in 1..Len(Y) /\ Y[E[e].inpipe].live /\ E[e].state = "active"
    BY <2>2, InPlace
  <2>4. delimit(Pop(Pair(E, Y, M, k), e), e) =
          Pair(EndWith(E, e, InState(E[e], "delimited")), YpWith(Y, E[e].inpipe, Popped(Y[E[e].inpipe])), M, k)
    BY <2>2, <2>3, DelimitIs
  <2> QED
    BY <2>2, <2>4
<1>3. r \in EndRecords /\ r.state = "delimited" /\ r.delay = p.end[e].delay /\ Moved(r, p.end[e])
  <2>1. "delimited" \in States
    BY DEF States
  <2> QED
    BY <1>1, <2>1, InStateIs DEF Moved, Silent
<1>4. Consumed("delimited", y, p.yp[i])
  BY DEF Consumed
<1>5. Shakes("delimited", Control(p.mail[e]), p.end[Peer(e)].state, Control(p.mail[Peer(e)]))
  <2>1. p.end[Peer(e)].state \notin {"active", "delimited"}
    BY DelimSeen
  <2> QED
    BY <2>1, SeenFrom, Moves
<1>6. e = 2 => Messages(ItemsIn(y)) = 0
  BY DelimSeen
<1>7. Receives(p.mail[e], p.mail[e]) /\ Sends(p.mail[Peer(e)], p.mail[Peer(e)])
  BY DEF Receives, Sends
<1>8. "delimited" \notin Silent \cup {"pending", "dead", "active", "terminated"} /\ partial' \in BOOLEAN
      /\ closing \subseteq closing' /\ closing' \subseteq closing \cup {e} /\ e \notin closing'
  BY <1>1 DEF Silent
<1> HIDE DEF r, y
<1> QED
  BY <1>1, <1>2, <1>3, <1>4, <1>5, <1>6, <1>7, <1>8, MoveStep DEF IsMove

\* ... and while it waits for it.
LEMMA DrainedStep ==
  ASSUME PipeInv, NEW e \in Ends, e \notin closing, p.end[e].state = "pending",
         p.yp[p.end[e].inpipe].queue # << >>, Head(p.yp[p.end[e].inpipe].queue) = "delim",
         p' = delimit(Pop(p, e), e), closing' = closing, partial' = partial
  PROVE  PipeInv'
<1> DEFINE i == p.end[e].inpipe
           r == Acking(p.end[e], "terminating")
           y == Popped(p.yp[i])
           N == Sent(p.mail, Peer(e), Ack)
<1>1. /\ p.end \in EndPairs /\ p.end[e] \in EndRecords /\ i \in 1..Len(p.yp) /\ p.yp[i] \in YPipes
      /\ p.mail \in MailPairs /\ partial \in BOOLEAN /\ p.mail[Peer(e)] \in Seq(Commands)
  BY Basics, InPlace
<1>2. p' = Pair(EndWith(p.end, e, r), YpWith(p.yp, i, y), N, p.ok)
  <2>1. PICK E \in EndPairs, Y \in Seq(YPipes), M \in MailPairs : \E k :
          p = Pair(E, Y, M, k) /\ p.end = E /\ p.yp = Y /\ p.mail = M /\ p.ok = k /\ Holds(k)
    BY Names
  <2>2. PICK k : p = Pair(E, Y, M, k) /\ p.end = E /\ p.yp = Y /\ p.mail = M /\ p.ok = k /\ Holds(k)
    BY <2>1
  <2>3. E[e].inpipe \in 1..Len(Y) /\ Y[E[e].inpipe].live /\ E[e].state = "pending"
    BY <2>2, InPlace
  <2>4. delimit(Pop(Pair(E, Y, M, k), e), e) =
          Pair(EndWith(E, e, Acking(E[e], "terminating")), YpWith(Y, E[e].inpipe, Popped(Y[E[e].inpipe])),
               Sent(M, Peer(e), Ack), k)
    BY <2>2, <2>3, DelimitIs
  <2> QED
    BY <2>2, <2>4
<1>3. r \in EndRecords /\ r.state = "terminating" /\ Moved(r, p.end[e])
  <2>1. "terminating" \in States
    BY DEF States
  <2> QED
    BY <1>1, <2>1, AckingIs DEF Moved, Silent, None
<1>4. Consumed("terminating", y, p.yp[i])
  BY DEF Consumed
<1>5. N \in MailPairs /\ N[Peer(e)] = Append(p.mail[Peer(e)], Ack) /\ N[e] = p.mail[e]
  <2>1. Peer(e) \in Ends /\ e # Peer(e) /\ Ack \in Commands
    BY PeerIs, CommandSet
  <2> QED
    BY <1>1, <2>1, SentTo
<1>6. ~Has(p.mail[Peer(e)], Ack) /\ Control(p.mail[Peer(e)]) = "none" /\ p.end[Peer(e)].state # "dead"
  BY MaySend
<1>7. Shakes("terminating", Control(N[e]), p.end[Peer(e)].state, Control(N[Peer(e)]))
  <2>1. Control(N[Peer(e)]) = "ack"
    BY <1>1, <1>5, <1>6, CommandSet, ControlAppend
  <2> QED
    BY <1>5, <2>1, SeenFrom, Moves
<1>8. Receives(p.mail[e], N[e]) /\ Sends(p.mail[Peer(e)], N[Peer(e)])
  BY <1>5, <1>6 DEF Receives, Sends
<1>9. e = 1 => NextOut = Len(p.yp)
  BY DEF PipeInv, HiccupChain, State
<1>10. partial' \in BOOLEAN /\ closing \subseteq closing' /\ closing' \subseteq closing \cup {e}
  BY <1>1
<1> HIDE DEF r, y, N
<1> QED
  BY <1>1, <1>2, <1>3, <1>4, <1>5, <1>6, <1>7, <1>8, <1>9, <1>10, MoveStep DEF IsMove

-----------------------------------------------------------------------------
\* An end is asked to stop.
LEMMA TerminateEffect ==
  ASSUME PipeInv, NEW e \in Ends, NEW d \in BOOLEAN
  PROVE  LET q == TerminateBegin(p, e, d)
             r == Delaying(p.end[e], d)
             i == p.end[e].inpipe
             Y == YpWith(p.yp, i, p.yp[i])
         IN  /\ p.end[e].state \in {"active", "delimited"} =>
                  q = Pair(EndWith(p.end, e, InState(r, "terminated")), Y, Sent(p.mail, Peer(e), Term), p.ok)
             /\ p.end[e].state = "pending" /\ ~d =>
                  q = Pair(EndWith(p.end, e, Acking(r, "terminating")), Y, Sent(p.mail, Peer(e), Ack), p.ok)
             /\ p.end[e].state = "pending" /\ d => q = Pair(EndWith(p.end, e, r), Y, p.mail, p.ok)
<1>1. PICK E \in EndPairs, Y \in Seq(YPipes), M \in MailPairs : \E k :
        p = Pair(E, Y, M, k) /\ p.end = E /\ p.yp = Y /\ p.mail = M /\ p.ok = k /\ Holds(k)
  BY Names
<1>2. PICK k : p = Pair(E, Y, M, k) /\ p.end = E /\ p.yp = Y /\ p.mail = M /\ p.ok = k /\ Holds(k)
  BY <1>1
<1>3. LET q == Pair(E, Y, M, k)
          r == Delaying(E[e], d)
      IN  /\ E[e].state \in {"active", "delimited"} => TerminateBegin(q, e, d) =
               Pair(EndWith(E, e, InState(r, "terminated")), Y, Sent(M, Peer(e), Term), k)
          /\ E[e].state = "pending" /\ ~d => TerminateBegin(q, e, d) =
               Pair(EndWith(E, e, Acking(r, "terminating")), Y, Sent(M, Peer(e), Ack), k)
          /\ E[e].state = "pending" /\ d => TerminateBegin(q, e, d) = Pair(EndWith(E, e, r), Y, M, k)
  BY <1>2, TerminateBeginIs
<1>4. YpWith(Y, E[e].inpipe, Y[E[e].inpipe]) = Y
  <2>1. E[e].inpipe \in 1..Len(Y)
    BY <1>2, InPlace
  <2> QED
    BY <2>1, Idle
<1> QED
  BY <1>2, <1>3, <1>4

\* What such a call finds.
LEMMA NoDelimiterYet ==
  ASSUME PipeInv, p.end[1].state \in {"active", "delimited"} \/ (p.end[1].state = "pending" /\ p.end[1].outActive)
  PROVE  ~Has(ItemsIn(p.yp[NextOut]), "delim")
<1>1. p.end[2].state # "dead"
  BY OneTwo, MaySend
<1> QED
  BY <1>1 DEF PipeInv, Delimiters, State

LEMMA AskStep ==
  ASSUME PipeInv, NEW e \in Ends, NEW d \in BOOLEAN, CallTerminate(e, d), p.end[e].state \in {"active", "delimited"}
  PROVE  PipeInv'
<1> DEFINE i == p.end[e].inpipe
           w == Delaying(p.end[e], d)
           r == InState(w, "terminated")
           N == Sent(p.mail, Peer(e), Term)
<1>1. /\ p.end \in EndPairs /\ p.end[e] \in EndRecords /\ i \in 1..Len(p.yp) /\ p.yp[i] \in YPipes
      /\ p.mail \in MailPairs /\ partial \in BOOLEAN /\ p.mail[Peer(e)] \in Seq(Commands)
  BY Basics, InPlace
<1>2. p' = Pair(EndWith(p.end, e, r), YpWith(p.yp, i, p.yp[i]), N, p.ok)
  BY TerminateEffect DEF CallTerminate
<1>3. r \in EndRecords /\ r.state = "terminated" /\ Moved(r, p.end[e])
  <2>1. "terminated" \in States /\ "terminated" \notin Silent /\ p.end[e].state \notin Silent
    BY DEF States, Silent
  <2>2. /\ w \in EndRecords /\ w.state = p.end[e].state /\ w.inActive = p.end[e].inActive
        /\ w.outActive = p.end[e].outActive /\ w.inpipe = p.end[e].inpipe /\ w.outpipe = p.end[e].outpipe
        /\ w.hwm = p.end[e].hwm /\ w.lwm = p.end[e].lwm /\ w.msgsRead = p.end[e].msgsRead
        /\ w.msgsWritten = p.end[e].msgsWritten /\ w.peersMsgsRead = p.end[e].peersMsgsRead
    BY <1>1, DelayingIs
  <2> HIDE DEF w
  <2> QED
    BY <2>1, <2>2, InStateIs DEF Moved
<1>4. Consumed("terminated", p.yp[i], p.yp[i])
  BY DEF Consumed
<1>5. N \in MailPairs /\ N[Peer(e)] = Append(p.mail[Peer(e)], Term) /\ N[e] = p.mail[e]
  <2>1. Peer(e) \in Ends /\ e # Peer(e) /\ Term \in Commands
    BY PeerIs, CommandSet
  <2> QED
    BY <1>1, <2>1, SentTo
<1>6. /\ ~Has(p.mail[Peer(e)], Ack) /\ ~Has(p.mail[Peer(e)], Term) /\ Control(p.mail[Peer(e)]) = "none"
      /\ p.end[Peer(e)].state # "dead"
  BY MaySend
<1>7. Shakes("terminated", Control(N[e]), p.end[Peer(e)].state, Control(N[Peer(e)]))
  <2>1. Control(N[Peer(e)]) = "term"
    BY <1>1, <1>5, <1>6, CommandSet, ControlAppend
  <2> QED
    BY <1>5, <2>1, SeenFrom, Moves
<1>8. Receives(p.mail[e], N[e]) /\ Sends(p.mail[Peer(e)], N[Peer(e)])
  BY <1>5, <1>6 DEF Receives, Sends
<1>9. e = 1 => ~Has(ItemsIn(p.yp[NextOut]), "delim")
  BY NoDelimiterYet
<1>10. /\ partial' \in BOOLEAN /\ closing \subseteq closing' /\ closing' \subseteq closing \cup {e} /\ e \in closing'
       /\ e \notin closing /\ "terminated" \notin Silent \cup {"pending"}
  BY <1>1 DEF CallTerminate, Owned, Silent
<1> HIDE DEF r, N
<1> QED
  BY <1>1, <1>2, <1>3, <1>4, <1>5, <1>6, <1>7, <1>8, <1>9, <1>10, MoveStep DEF IsMove

LEMMA GiveUpMove ==
  ASSUME PipeInv, NEW e \in Ends, NEW r \in EndRecords, Moved(r, p.end[e]), r.state = "terminating",
         p.end[e].state = "pending", e \notin closing,
         p' = Pair(EndWith(p.end, e, r), YpWith(p.yp, p.end[e].inpipe, p.yp[p.end[e].inpipe]),
                   Sent(p.mail, Peer(e), Ack), p.ok),
         closing \subseteq closing', closing' \subseteq closing \cup {e}, partial' \in BOOLEAN
  PROVE  PipeInv'
<1> DEFINE i == p.end[e].inpipe
           N == Sent(p.mail, Peer(e), Ack)
<1>1. /\ p.end \in EndPairs /\ p.end[e] \in EndRecords /\ i \in 1..Len(p.yp) /\ p.yp[i] \in YPipes
      /\ p.mail \in MailPairs /\ p.mail[Peer(e)] \in Seq(Commands)
  BY Basics, InPlace
<1>2. p' = Pair(EndWith(p.end, e, r), YpWith(p.yp, i, p.yp[i]), N, p.ok)
  OBVIOUS
<1>4. Consumed("terminating", p.yp[i], p.yp[i])
  BY DEF Consumed
<1>5. N \in MailPairs /\ N[Peer(e)] = Append(p.mail[Peer(e)], Ack) /\ N[e] = p.mail[e]
  <2>1. Peer(e) \in Ends /\ e # Peer(e) /\ Ack \in Commands
    BY PeerIs, CommandSet
  <2> QED
    BY <1>1, <2>1, SentTo
<1>6. ~Has(p.mail[Peer(e)], Ack) /\ Control(p.mail[Peer(e)]) = "none" /\ p.end[Peer(e)].state # "dead"
  BY MaySend
<1>7. Shakes("terminating", Control(N[e]), p.end[Peer(e)].state, Control(N[Peer(e)]))
  <2>1. Control(N[Peer(e)]) = "ack"
    BY <1>1, <1>5, <1>6, CommandSet, ControlAppend
  <2> QED
    BY <1>5, <2>1, SeenFrom, Moves
<1>8. Receives(p.mail[e], N[e]) /\ Sends(p.mail[Peer(e)], N[Peer(e)])
  BY <1>5, <1>6 DEF Receives, Sends
<1>9. e = 1 => NextOut = Len(p.yp)
  BY DEF PipeInv, HiccupChain, State
<1> HIDE DEF N
<1> QED
  BY <1>1, <1>2, <1>4, <1>5, <1>6, <1>7, <1>8, <1>9, MoveStep DEF IsMove

LEMMA GiveUpStep ==
  ASSUME PipeInv, NEW e \in Ends, NEW d \in BOOLEAN, CallTerminate(e, d), p.end[e].state = "pending", ~d
  PROVE  PipeInv'
<1> DEFINE i == p.end[e].inpipe
           w == Delaying(p.end[e], d)
           r == Acking(w, "terminating")
<1>1. /\ p.end \in EndPairs /\ p.end[e] \in EndRecords /\ i \in 1..Len(p.yp) /\ p.yp[i] \in YPipes
      /\ p.mail \in MailPairs /\ partial \in BOOLEAN /\ p.mail[Peer(e)] \in Seq(Commands)
  BY Basics, InPlace
<1>2. p' = Pair(EndWith(p.end, e, r), YpWith(p.yp, i, p.yp[i]), Sent(p.mail, Peer(e), Ack), p.ok)
  BY TerminateEffect DEF CallTerminate
<1>3. r \in EndRecords /\ r.state = "terminating" /\ Moved(r, p.end[e])
  <2>1. "terminating" \in States /\ "terminating" \in Silent /\ p.end[e].state \notin Silent
    BY DEF States, Silent
  <2>2. /\ w \in EndRecords /\ w.state = p.end[e].state /\ w.inActive = p.end[e].inActive
        /\ w.outActive = p.end[e].outActive /\ w.inpipe = p.end[e].inpipe /\ w.outpipe = p.end[e].outpipe
        /\ w.hwm = p.end[e].hwm /\ w.lwm = p.end[e].lwm /\ w.msgsRead = p.end[e].msgsRead
        /\ w.msgsWritten = p.end[e].msgsWritten /\ w.peersMsgsRead = p.end[e].peersMsgsRead
    BY <1>1, DelayingIs
  <2> HIDE DEF w
  <2> QED
    BY <2>1, <2>2, AckingIs DEF Moved, None
<1>4. e \notin closing /\ closing \subseteq closing' /\ closing' \subseteq closing \cup {e} /\ partial' \in BOOLEAN
  BY <1>1 DEF CallTerminate, Owned
<1> HIDE DEF r
<1> QED
  BY <1>2, <1>3, <1>4, GiveUpMove

LEMMA AgainMove ==
  ASSUME PipeInv, NEW e \in Ends, NEW r \in EndRecords, Moved(r, p.end[e]), r.state = "pending",
         p.end[e].state = "pending", e \notin closing,
         e = 1 => ~Has(ItemsIn(p.yp[NextOut]), "delim"),
         p' = Pair(EndWith(p.end, e, r), YpWith(p.yp, p.end[e].inpipe, p.yp[p.end[e].inpipe]), p.mail, p.ok),
         closing \subseteq closing', closing' \subseteq closing \cup {e}, partial' \in BOOLEAN
  PROVE  PipeInv'
<1> DEFINE y == p.yp[p.end[e].inpipe]
           N == p.mail
<1>1. N \in MailPairs
  BY Basics
<1>2. p' = Pair(EndWith(p.end, e, r), YpWith(p.yp, p.end[e].inpipe, y), N, p.ok)
  OBVIOUS
<1>3. Consumed(r.state, y, p.yp[p.end[e].inpipe])
  BY DEF Consumed
<1>4. Shakes(r.state, Control(N[e]), p.end[Peer(e)].state, Control(N[Peer(e)]))
  BY SeenFrom
<1>5. Receives(p.mail[e], N[e]) /\ Sends(p.mail[Peer(e)], N[Peer(e)])
  BY DEF Receives, Sends
<1>6. e = 1 => NextOut = Len(p.yp)
  BY DEF PipeInv, HiccupChain, State
<1>7. /\ p.end[Peer(e)].state = "dead" => N[Peer(e)] = p.mail[Peer(e)]
      /\ r.state # "dead" /\ r.state # "active" /\ r.state # "delimited" /\ r.state # "terminated"
      /\ p.end[e].state # "dead"
  OBVIOUS
<1> HIDE DEF y, N
<1> QED
  BY <1>1, <1>2, <1>3, <1>4, <1>5, <1>6, <1>7, MoveStep DEF IsMove

LEMMA AgainStep ==
  ASSUME PipeInv, NEW e \in Ends, NEW d \in BOOLEAN, CallTerminate(e, d), p.end[e].state = "pending", d
  PROVE  PipeInv'
<1> DEFINE i == p.end[e].inpipe
           r == Delaying(p.end[e], d)
<1>1. p.end[e] \in EndRecords
  BY InPlace
<1>2. p' = Pair(EndWith(p.end, e, r), YpWith(p.yp, i, p.yp[i]), p.mail, p.ok)
  BY TerminateEffect DEF CallTerminate
<1>3. r \in EndRecords /\ r.state = "pending" /\ Moved(r, p.end[e])
  <2>1. "pending" \notin Silent
    BY DEF Silent
  <2> QED
    BY <1>1, <2>1, DelayingIs DEF Moved
<1>4. e \notin closing /\ closing \subseteq closing' /\ closing' \subseteq closing \cup {e} /\ partial' \in BOOLEAN
  BY Basics DEF CallTerminate, Owned
<1>5. e = 1 => ~Has(ItemsIn(p.yp[NextOut]), "delim")
  <2>1. p.end[e].outActive
    BY DEF CallTerminate
  <2> QED
    BY <2>1, NoDelimiterYet
<1> HIDE DEF r
<1> QED
  BY <1>2, <1>3, <1>4, <1>5, AgainMove

LEMMA CallTerminateStep ==
  ASSUME PipeInv, NEW e \in Ends, NEW d \in BOOLEAN, CallTerminate(e, d)
  PROVE  PipeInv'
<1>1. p.end[e].state \in {"active", "delimited", "pending"}
  BY DEF CallTerminate, TerminateGoesOn
<1> QED
  BY <1>1, AskStep, GiveUpStep, AgainStep

-----------------------------------------------------------------------------
\* ... and terminate returns, once it has written the delimiter.
LEMMA TerminateEndEffect ==
  ASSUME PipeInv, NEW e \in Ends, p' = TerminateEnd(p, e)
  PROVE  LET o == p.end[e].outpipe
             E1 == EndWith(p.end, e, Blocked(p.end[e]))
         IN  /\ o = None => p' = Pair(E1, p.yp, p.mail, p.ok)
             /\ o # None => \E N \in MailPairs :
                  /\ p' = Pair(E1, YpWith(p.yp, o, Closed(p.yp[o])), N, p.ok)
                  /\ N[e] = p.mail[e]
                  /\ N[Peer(e)] = p.mail[Peer(e)] \/ N[Peer(e)] = Append(p.mail[Peer(e)], Wake)
                  /\ p.yp[o].asleep => Has(N[Peer(e)], Wake)
<1>1. PICK E \in EndPairs, Y \in Seq(YPipes), M \in MailPairs : \E k :
        p = Pair(E, Y, M, k) /\ p.end = E /\ p.yp = Y /\ p.mail = M /\ p.ok = k /\ Holds(k)
  BY Names
<1>2. PICK k : p = Pair(E, Y, M, k) /\ p.end = E /\ p.yp = Y /\ p.mail = M /\ p.ok = k /\ Holds(k)
  BY <1>1
<1>3. /\ p.end[e].outpipe \in 0..Len(p.yp) /\ (p.end[e].state = "terminating" => p.end[e].outpipe = None)
      /\ p.end[e].outpipe # None => p.yp[p.end[e].outpipe].live
  <2>1. /\ NextOut \in 2..Len(p.yp) /\ Len(p.yp) \in Nat
        /\ p.end[1].state \notin Silent => p.end[1].outpipe = NextOut
        /\ p.end[2].state \notin Silent => p.end[2].outpipe = 1
        /\ p.end[1].state \in Silent => p.end[1].outpipe = None
        /\ p.end[2].state \in Silent => p.end[2].outpipe = None
    BY Places
  <2>2. /\ p.end[1].state \notin Silent => p.end[2].state # "dead"
        /\ p.end[2].state \notin Silent => p.end[1].state # "dead"
    BY RowFacts, OneTwo
  <2>3. /\ p.end[1].state # "dead" => p.yp[1].live
        /\ p.end[2].state # "dead" => p.yp[NextOut].live
    BY <2>1 DEF PipeInv, Lives, State
  <2>4. "terminating" \in Silent
    BY DEF Silent
  <2>5. CASE e = 1
    BY <2>1, <2>2, <2>3, <2>4, <2>5 DEF None
  <2>6. CASE e = 2
    BY <2>1, <2>2, <2>3, <2>4, <2>6 DEF None
  <2> QED
    BY <2>5, <2>6, OneTwo
<1> DEFINE q == Pair(E, Y, M, k)
           o == E[e].outpipe
           E1 == EndWith(E, e, Blocked(E[e]))
           Y1 == YpWith(Y, o, Closed(Y[o]))
<1>4. /\ o = None => TerminateEnd(q, e) = Pair(E1, Y, M, k)
      /\ o # None /\ Y[o].asleep => TerminateEnd(q, e) = Pair(E1, Y1, Sent(M, Peer(e), Wake), k)
      /\ o # None /\ ~Y[o].asleep => TerminateEnd(q, e) = Pair(E1, Y1, M, k)
  BY <1>2, <1>3, TerminateEndIs DEF Closed
<1>5. /\ Sent(M, Peer(e), Wake) \in MailPairs /\ Sent(M, Peer(e), Wake)[Peer(e)] = Append(M[Peer(e)], Wake)
      /\ Sent(M, Peer(e), Wake)[e] = M[e] /\ Has(Append(M[Peer(e)], Wake), Wake)
  <2>1. Peer(e) \in Ends /\ e # Peer(e) /\ Wake \in Commands
    BY PeerIs, CommandSet
  <2>2. M[Peer(e)] \in Seq(Commands)
    BY <1>2, InPlace
  <2> QED
    BY <2>1, <2>2, SentTo, WakeStays
<1>6. p = q
  BY <1>2
<1> HIDE DEF q
<1>7. CASE o = None
  BY <1>2, <1>4, <1>6, <1>7
<1>8. CASE o # None /\ Y[o].asleep
  <2>1. p' = Pair(E1, Y1, Sent(M, Peer(e), Wake), k)
    BY <1>4, <1>6, <1>8
  <2> QED
    BY <1>2, <1>5, <1>8, <2>1
<1>9. CASE o # None /\ ~Y[o].asleep
  <2>1. p' = Pair(E1, Y1, M, k)
    BY <1>4, <1>6, <1>9
  <2> QED
    BY <1>2, <1>9, <2>1
<1> QED
  BY <1>7, <1>8, <1>9

LEMMA ReturnSilentStep ==
  ASSUME PipeInv, NEW e \in Ends, EndTerminate(e), p.end[e].outpipe = None
  PROVE  PipeInv'
<1> DEFINE r == Blocked(p.end[e])
           f == Peer(e)
           y == p.yp[NextOut]
           o == NextOut
<1>1. /\ p.end \in EndPairs /\ p.yp \in Seq(YPipes) /\ p.mail \in MailPairs /\ o \in 1..Len(p.yp)
      /\ y \in YPipes /\ partial \in BOOLEAN /\ closing \subseteq Ends /\ 1 \in 1..Len(p.yp)
  BY Basics
<1>2. f \in Ends /\ f # e /\ Peer(f) = e /\ \A g \in Ends : g = e \/ g = f
  BY PeerIs DEF Ends, Peer
<1>3. p' = Pair(EndWith(p.end, e, r), YpWith(p.yp, o, y), p.mail, p.ok)
  <2>1. YpWith(p.yp, o, y) = p.yp
    BY <1>1, Idle
  <2>2. p' = TerminateEnd(p, e)
    BY DEF EndTerminate
  <2> QED
    BY <2>1, <2>2, TerminateEndEffect
<1>4. r \in EndRecords /\ Alike(r, p.end[e]) /\ r.inActive = p.end[e].inActive /\ ~r.outActive
  <2>1. p.end[e] \in EndRecords
    BY InPlace
  <2> QED
    BY <2>1, BlockedIs DEF Alike
<1>5. p.end[e].state \in Silent /\ p.end[e].state \notin {"active", "pending", "terminated"}
  <2>1. p.end[e].outpipe = None <=> p.end[e].state \in Silent
    BY DEF PipeInv, Pointers, State
  <2> QED
    BY <2>1 DEF Silent
<1>6. closing' \subseteq closing /\ partial' \in BOOLEAN /\ (f \in closing <=> f \in closing')
  BY <1>1, <1>2 DEF EndTerminate
<1>7. e = 1 /\ r.state = "active" /\ ~r.outActive => ~p.end[1].outActive \/ Full(p.end[1])
  BY <1>4, <1>5 DEF Alike
<1> HIDE DEF r, y, o
<1>8. /\ p'.mail = p.mail /\ p'.end[e] = r /\ p'.end[f] = p.end[f]
      /\ Len(p'.yp) = Len(p.yp) /\ p'.yp[o] = y
      /\ \A j \in 1..Len(p.yp) : j # o => p'.yp[j] = p.yp[j]
      /\ NextOut' = NextOut
      /\ Delimiters' /\ Sleeping' /\ Delimited' => PipeInv'
  <2>1. /\ y.live <=> p.yp[o].live
        /\ o > NextOut => y.queue = p.yp[o].queue /\ y.pending = p.yp[o].pending
        /\ o = NextOut => Messages(ItemsIn(y)) = Messages(ItemsIn(p.yp[o]))
    BY DEF y, o
  <2> QED
    BY <1>1, <1>3, <1>4, <1>6, <1>7, <2>1, PlainUpdate
<1>9. \A j \in 1..Len(p.yp) : p'.yp[j] = p.yp[j]
  BY <1>8 DEF y, o
<1>10. \A g \in Ends : /\ p'.end[g].state = p.end[g].state /\ p'.end[g].inpipe = p.end[g].inpipe
                       /\ p'.end[g].inActive = p.end[g].inActive /\ (p'.end[g].outActive => p.end[g].outActive)
  BY <1>2, <1>4, <1>8 DEF Alike
<1>11. Delimiters'
  <2>1. p'.yp[NextOut] = p.yp[NextOut] /\ p'.yp[1] = p.yp[1]
    BY <1>1, <1>9 DEF o
  <2>2. /\ p'.end[1].state = p.end[1].state /\ p'.end[2].state = p.end[2].state
        /\ p'.end[1].outActive => p.end[1].outActive
    BY <1>10, OneTwo
  <2> QED
    BY <1>6, <1>8, <2>1, <2>2, DelimitersKeep DEF PipeInv
<1>12. Sleeping'
  <2>1. ASSUME NEW g \in Ends PROVE SleepsWell(g)'
    <3>1. SleepsWell(g) /\ p.end[g].inpipe \in 1..Len(p.yp)
      BY InPlace
    <3> QED
      BY <1>8, <1>9, <1>10, <3>1, SleepKeeps
  <2> QED
    BY <2>1 DEF Sleeping
<1>13. Delimited'
  <2>1. IsDelimited(e)'
    BY <1>5, <1>10 DEF IsDelimited, State
  <2>2. IsDelimited(f)'
    <3>1. IsDelimited(f) /\ p.end[e].inpipe \in 1..Len(p.yp)
      BY InPlace
    <3>2. p'.yp[p.end[e].inpipe] = p.yp[p.end[e].inpipe]
      BY <1>9, <3>1
    <3>3. p'.end[e].state = p.end[e].state /\ p'.end[e].inpipe = p.end[e].inpipe
      BY <1>10
    <3> HIDE DEF f
    <3> QED
      BY <1>2, <1>6, <1>8, <3>1, <3>2, <3>3, DelimitedKeeps
  <2> QED
    BY <2>1, <2>2, BothEnds
<1> QED
  BY <1>8, <1>11, <1>12, <1>13

LEMMA ReturnStep ==
  ASSUME PipeInv, NEW e \in Ends, EndTerminate(e), p.end[e].outpipe # None
  PROVE  PipeInv'
<1> DEFINE r == Blocked(p.end[e])
           f == Peer(e)
           o == p.end[e].outpipe
           y == Closed(p.yp[o])
<1>1. /\ p.end \in EndPairs /\ p.yp \in Seq(YPipes) /\ p.mail \in MailPairs /\ NextOut \in 1..Len(p.yp)
      /\ NextOut # 1 /\ 1 \in 1..Len(p.yp) /\ partial \in BOOLEAN /\ closing \subseteq Ends
      /\ p.end[1].inpipe = 1
  BY Basics
<1>2. f \in Ends /\ f # e /\ Peer(f) = e /\ \A g \in Ends : g = e \/ g = f
  BY PeerIs DEF Ends, Peer
<1>3. p.end[e].state \notin Silent /\ p.end[e].state \notin {"active", "delimited"} /\ e \in closing
  <2>1. p.end[e].outpipe = None <=> p.end[e].state \in Silent
    BY DEF PipeInv, Pointers, State
  <2> QED
    BY <2>1 DEF PipeInv, Leaving, State, EndTerminate
<1>4. o = (IF e = 1 THEN NextOut ELSE 1) /\ p.end[2].inpipe = Len(p.yp)
  <2>1. /\ p.end[1].state \notin Silent => p.end[1].outpipe = NextOut
        /\ p.end[2].state \notin Silent => p.end[2].outpipe = 1
        /\ p.end[2].inpipe = Len(p.yp)
    BY Places
  <2> QED
    BY <1>3, <2>1, OneTwo
<1>5. o \in 1..Len(p.yp) /\ o # p.end[e].inpipe /\ p.yp[o] \in YPipes /\ ~(o > NextOut)
  <2>1. NextOut \in Nat /\ NextOut >= 2 /\ \A j \in 1..Len(p.yp) : p.yp[j] \in YPipes
    BY Places, Basics
  <2>2. CASE e = 1
    BY <1>1, <1>4, <2>1, <2>2
  <2>3. CASE e = 2
    <3>1. p.end[2].inpipe # 1
      BY Basics
    <3> QED
      BY <1>1, <1>4, <2>1, <2>3, <3>1
  <2> QED
    BY <2>2, <2>3, OneTwo
<1>6. PICK N \in MailPairs :
        /\ p' = Pair(EndWith(p.end, e, r), YpWith(p.yp, o, y), N, p.ok)
        /\ N[e] = p.mail[e]
        /\ N[f] = p.mail[f] \/ N[f] = Append(p.mail[f], Wake)
        /\ p.yp[o].asleep => Has(N[f], Wake)
  <2>1. p' = TerminateEnd(p, e)
    BY DEF EndTerminate
  <2> QED
    BY <2>1, TerminateEndEffect
<1>7. /\ y \in YPipes /\ (y.live <=> p.yp[o].live) /\ Has(y.queue, "delim")
      /\ Messages(ItemsIn(y)) = Messages(ItemsIn(p.yp[o]))
      /\ ~Has(ItemsIn(p.yp[o]), "delim") => DelimLast(ItemsIn(y))
  BY <1>5, ClosedIs
<1>8. r \in EndRecords /\ Alike(r, p.end[e]) /\ r.inActive = p.end[e].inActive /\ ~r.outActive
  <2>1. p.end[e] \in EndRecords
    BY InPlace
  <2> QED
    BY <2>1, BlockedIs DEF Alike
<1>9. closing' \subseteq closing /\ partial' \in BOOLEAN /\ (f \in closing <=> f \in closing') /\ e \notin closing'
  BY <1>1, <1>2 DEF EndTerminate
<1>10. e = 1 /\ r.state = "active" /\ ~r.outActive => ~p.end[1].outActive \/ Full(p.end[1])
  BY <1>3, <1>8 DEF Alike
<1> HIDE DEF r, y, o
<1>11. /\ p'.mail = N /\ p'.end[e] = r /\ p'.end[f] = p.end[f]
       /\ Len(p'.yp) = Len(p.yp) /\ p'.yp[o] = y
       /\ \A j \in 1..Len(p.yp) : j # o => p'.yp[j] = p.yp[j]
       /\ NextOut' = NextOut
       /\ Delimiters' /\ Sleeping' /\ Delimited' => PipeInv'
  <2>1. N[Peer(f)] = p.mail[Peer(f)] /\ p.end[Peer(f)].state \notin Silent
    BY <1>2, <1>3, <1>6
  <2>2. \/ N[f] = p.mail[f]
        \/ p.end[Peer(f)].state \notin Silent /\ N[f] = Append(p.mail[f], Wake)
        \/ p.mail[f] # << >> /\ Head(p.mail[f]) = Wake /\ N[f] = Tail(p.mail[f])
    BY <1>6, <2>1
  <2>3. /\ y.live <=> p.yp[o].live
        /\ o > NextOut => y.queue = p.yp[o].queue /\ y.pending = p.yp[o].pending
        /\ o = NextOut => Messages(ItemsIn(y)) = Messages(ItemsIn(p.yp[o]))
    BY <1>5, <1>7
  <2>4. p' = Pair(EndWith(p.end, e, r), YpWith(p.yp, o, y), N, p.ok) /\ o \in 1..Len(p.yp) /\ y \in YPipes /\ f \in Ends
    BY <1>2, <1>5, <1>6, <1>7
  <2>5. /\ p'.mail = N /\ p'.end[e] = r /\ p'.end[Peer(e)] = p.end[Peer(e)]
        /\ Len(p'.yp) = Len(p.yp) /\ p'.yp[o] = y
        /\ \A j \in 1..Len(p.yp) : j # o => p'.yp[j] = p.yp[j]
        /\ NextOut' = NextOut
        /\ (Delimiters' /\ Sleeping' /\ Delimited' => PipeInv')
    <3> HIDE DEF f
    <3>1. closing' \subseteq closing /\ partial' \in BOOLEAN
      BY <1>9
    <3>2. r \in EndRecords /\ Alike(r, p.end[e])
      BY <1>8
    <3> QED
      BY <1>10, <2>1, <2>2, <2>3, <2>4, <3>1, <3>2, PlainUpdate
  <2> QED
    BY <2>5
<1>12. \A g \in Ends : /\ p'.end[g].state = p.end[g].state /\ p'.end[g].inpipe = p.end[g].inpipe
                       /\ p'.end[g].inActive = p.end[g].inActive
  BY <1>2, <1>8, <1>11 DEF Alike
<1>13. p'.end[1].state = p.end[1].state /\ p'.end[2].state = p.end[2].state
  BY <1>12, OneTwo
<1>14. Delimiters'
  <2>1. Delimiters
    BY DEF PipeInv
  <2>2. CASE e = 1
    <3>1. o = NextOut /\ p'.yp[1] = p.yp[1] /\ p'.yp[NextOut] = y /\ p'.end[1] = r
      BY <1>1, <1>4, <1>11, <2>2
    <3>2. p.end[2].state # "dead"
      BY <1>3, <2>2, OneTwo, RowFacts
    <3>3. ~Has(ItemsIn(p.yp[NextOut]), "delim")
      BY <1>3, <2>1, <2>2, <3>2 DEF Delimiters, State, Silent
    <3>4. DelimLast(ItemsIn(y))
      BY <1>7, <3>1, <3>3
    <3>5. ~p'.end[1].outActive /\ 1 \notin closing' /\ p.end[1].state \notin {"active", "delimited"}
      BY <1>3, <1>8, <1>9, <2>2, <3>1
    <3> QED
      BY <1>11, <1>13, <2>1, <3>1, <3>4, <3>5 DEF Delimiters, State
  <2>3. CASE e = 2
    <3>1. o = 1 /\ p'.yp[NextOut] = p.yp[NextOut] /\ p'.end[1] = p.end[1] /\ p.end[2].state \notin {"active", "delimited"}
          /\ (1 \in closing <=> 1 \in closing')
      BY <1>1, <1>3, <1>4, <1>9, <1>11, <2>3, OneTwo
    <3> QED
      BY <1>11, <1>13, <2>1, <3>1 DEF Delimiters, State
  <2> QED
    BY <2>2, <2>3, OneTwo
<1>15. Sleeping'
  <2>1. SleepsWell(e)'
    <3>1. SleepsWell(e) /\ p.end[e].inpipe \in 1..Len(p.yp)
      BY InPlace
    <3>2. p'.yp[p.end[e].inpipe] = p.yp[p.end[e].inpipe]
      BY <1>5, <1>11, <3>1
    <3> QED
      BY <1>6, <1>11, <1>12, <3>1, <3>2, SleepKeeps
  <2>2. SleepsWell(f)'
    <3>1. SleepsWell(f) /\ p.end[f].inpipe \in 1..Len(p.yp) /\ p.mail[f] \in Seq(Commands)
      BY InPlace, <1>2
    <3>2. Has(p.mail[f], Wake) => Has(p'.mail[f], Wake)
      <4>1. Has(Append(p.mail[f], Wake), Wake)
        BY <3>1, CommandSet, WakeStays
      <4> QED
        BY <1>6, <1>11, <4>1
    <3>3. p.yp[p.end[f].inpipe].queue = << >> /\ p.yp[p.end[f].inpipe].asleep =>
            \/ p'.yp[p.end[f].inpipe].queue = << >> /\ p'.yp[p.end[f].inpipe].asleep
            \/ Has(p'.mail[f], Wake)
      <4>1. CASE p.end[f].inpipe = o
        BY <1>6, <1>11, <4>1
      <4>2. CASE p.end[f].inpipe # o
        BY <1>11, <3>1, <4>2
      <4> QED
        BY <4>1, <4>2
    <3> QED
      BY <1>2, <1>12, <3>1, <3>2, <3>3, SleepKeeps
  <2> QED
    BY <2>1, <2>2, BothEnds
<1>16. Delimited'
  <2>1. IsDelimited(e)'
    <3>1. e = 2 \/ Len(p.yp) = 2 => p.end[f].inpipe = o
      <4>1. CASE e = 2
        BY <1>1, <1>4, <4>1, OneTwo
      <4>2. CASE e = 1 /\ Len(p.yp) = 2
        <5>1. NextOut \in 2..Len(p.yp)
          BY Places
        <5> QED
          BY <1>4, <4>2, <5>1, OneTwo
      <4> QED
        BY <4>1, <4>2, OneTwo
    <3>2. e = 2 \/ Len(p'.yp) = 2 => Has(p'.yp[p'.end[f].inpipe].queue, "delim")
      BY <1>2, <1>7, <1>11, <1>12, <3>1
    <3> QED
      BY <3>2 DEF IsDelimited, InPipe
  <2>2. IsDelimited(f)'
    <3>1. IsDelimited(f) /\ p.end[e].inpipe \in 1..Len(p.yp)
      BY InPlace
    <3>2. p'.yp[p.end[e].inpipe] = p.yp[p.end[e].inpipe]
      BY <1>5, <1>11, <3>1
    <3>3. p'.end[e].state = p.end[e].state /\ p'.end[e].inpipe = p.end[e].inpipe
      BY <1>12
    <3> HIDE DEF f
    <3> QED
      BY <1>2, <1>9, <1>11, <3>1, <3>2, <3>3, DelimitedKeeps
  <2> QED
    BY <2>1, <2>2, BothEnds
<1> QED
  BY <1>11, <1>14, <1>15, <1>16

LEMMA EndTerminateStep ==
  ASSUME PipeInv, NEW e \in Ends, EndTerminate(e)
  PROVE  PipeInv'
BY ReturnSilentStep, ReturnStep

-----------------------------------------------------------------------------
\* End 2 takes another ypipe.
LEMMA HiccupEffect ==
  ASSUME PipeInv, CallHiccup
  PROVE  LET new == Len(p.yp) + 1
         IN  /\ p.end[2].state = "active"
             /\ p' = Pair(EndWith(p.end, 2, Awake(Inbound(p.end[2], new))), Append(p.yp, NewYPipe),
                          Sent(p.mail, 1, <<"hiccup", new>>), p.ok)
<1>1. PICK E \in EndPairs, Y \in Seq(YPipes), M \in MailPairs : \E k :
        p = Pair(E, Y, M, k) /\ p.end = E /\ p.yp = Y /\ p.mail = M /\ p.ok = k /\ Holds(k)
  BY Names
<1>2. PICK k : p = Pair(E, Y, M, k) /\ p.end = E /\ p.yp = Y /\ p.mail = M /\ p.ok = k /\ Holds(k)
  BY <1>1
<1>3. NewInPipe(Pair(E, Y, M, k), 2) =
        Pair(EndWith(E, 2, Awake(Inbound(E[2], Len(Y) + 1))), Append(Y, NewYPipe),
             Sent(M, 1, <<"hiccup", Len(Y) + 1>>), k)
  BY HiccupIs
<1>4. p.end[2].state = "active" /\ p' = NewInPipe(p, 2)
  BY DEF CallHiccup, hiccup, Only
<1> QED
  BY <1>2, <1>3, <1>4

LEMMA HiccupStep ==
  ASSUME PipeInv, CallHiccup
  PROVE  PipeInv'
<1> DEFINE new == Len(p.yp) + 1
           w == Inbound(p.end[2], new)
           r == Awake(w)
           Y == Append(p.yp, NewYPipe)
           c == <<"hiccup", new>>
           N == Sent(p.mail, 1, c)
<1>1. /\ p.end \in EndPairs /\ p.end[2] \in EndRecords /\ p.yp \in Seq(YPipes) /\ p.mail \in MailPairs
      /\ p.mail[1] \in Seq(Commands) /\ p.mail[2] \in Seq(Commands) /\ Holds(p.ok)
      /\ closing \subseteq Ends /\ partial \in BOOLEAN /\ NextOut \in 1..Len(p.yp) /\ 1 \in 1..Len(p.yp)
  BY Basics
<1>2. NextOut \in Nat /\ Len(p.yp) \in Nat /\ Len(p.yp) >= 2 /\ NextOut <= Len(p.yp) /\ new \in Nat
  BY Places
<1>3. p.end[2].state = "active" /\ p' = Pair(EndWith(p.end, 2, r), Y, N, p.ok)
      /\ closing' = closing /\ partial' = partial
  BY HiccupEffect DEF CallHiccup, Only
<1>4. c \in Commands /\ c[1] = "hiccup" /\ c[2] = new /\ c # Term /\ c # Ack
  <2>1. c \in Commands /\ c[1] = "hiccup" /\ c[2] = new
    <3> HIDE DEF new
    <3> QED
      BY <1>2, CommandSet
  <2> HIDE DEF c
  <2> QED
    BY <2>1, CommandIs
<1> HIDE DEF c
<1>5. N \in MailPairs /\ N[1] = Append(p.mail[1], c) /\ N[2] = p.mail[2]
  <2> HIDE DEF new, w, r, Y
  <2>1. p.mail \in MailPairs /\ 1 \in Ends /\ 2 \in Ends /\ 2 # 1 /\ c \in Commands
    BY <1>1, <1>4, OneTwo
  <2>2. /\ Sent(p.mail, 1, c) \in MailPairs /\ Sent(p.mail, 1, c)[1] = Append(p.mail[1], c)
        /\ \A g \in Ends : g # 1 => Sent(p.mail, 1, c)[g] = p.mail[g]
    BY <2>1, SentTo
  <2> QED
    BY <2>1, <2>2
<1>6. /\ r \in EndRecords /\ r.state = "active" /\ r.inActive /\ r.inpipe = new
      /\ r.outActive = p.end[2].outActive /\ r.outpipe = p.end[2].outpipe /\ r.delay = p.end[2].delay
      /\ r.hwm = p.end[2].hwm /\ r.lwm = p.end[2].lwm /\ r.msgsRead = p.end[2].msgsRead
      /\ r.msgsWritten = p.end[2].msgsWritten /\ r.peersMsgsRead = p.end[2].peersMsgsRead
  <2>1. /\ w \in EndRecords /\ w.state = p.end[2].state /\ w.inpipe = new
        /\ w.outActive = p.end[2].outActive /\ w.outpipe = p.end[2].outpipe /\ w.delay = p.end[2].delay
        /\ w.hwm = p.end[2].hwm /\ w.lwm = p.end[2].lwm /\ w.msgsRead = p.end[2].msgsRead
        /\ w.msgsWritten = p.end[2].msgsWritten /\ w.peersMsgsRead = p.end[2].peersMsgsRead
    <3> HIDE DEF new
    <3> QED
      BY <1>1, <1>2, InboundIs
  <2> HIDE DEF w, new
  <2> QED
    BY <1>3, <2>1, AwakeIs
<1>7. /\ Y \in Seq(YPipes) /\ Len(Y) = new /\ Y[new] = NewYPipe
      /\ \A j \in 1..Len(p.yp) : Y[j] = p.yp[j]
  BY <1>1, NewYPipeIs
<1> HIDE DEF r, Y, N
<1>8. /\ Types' /\ p'.yp = Y /\ p'.mail = N /\ p'.ok
      /\ p'.end[2] = r /\ p'.end[1] = p.end[1]
  <2>1. EndWith(p.end, 2, r) \in EndPairs /\ EndWith(p.end, 2, r)[2] = r /\ EndWith(p.end, 2, r)[1] = p.end[1]
    BY <1>1, <1>6, OneTwo, EndWithIs
  <2> DEFINE E == EndWith(p.end, 2, r)
  <2> HIDE DEF E
  <2>2. Types' /\ p'.end = E /\ p'.yp = Y /\ p'.mail = N /\ p'.ok
    <3>1. E \in EndPairs /\ p' = Pair(E, Y, N, p.ok) /\ closing' \subseteq Ends /\ partial' \in BOOLEAN
      BY <1>1, <1>3, <2>1 DEF E
    <3> QED
      BY <1>1, <1>5, <1>7, <3>1, Next
  <2> QED
    BY <2>1, <2>2 DEF E
<1>9. p.end[1].state \in {"active", "terminated"}
  <2>1. ASSUME NEW a, NEW b, NEW s, NEW d, Shakes(a, b, s, d), a = "active"
        PROVE  s \in {"active", "terminated"}
    BY <2>1 DEF Shakes, Rows
  <2> QED
    BY <1>3, <2>1, SeenFrom, OneTwo
<1>10. ~Has(p.mail[1], Term) /\ ~Has(p.mail[1], Ack)
  BY <1>3, OneTwo, MaySend
<1>11. p.end[1].outpipe = NextOut /\ p.end[1].outpipe # None /\ NextOut' = NextOut
  <2>1. p.end[1].outpipe = NextOut /\ p.end[1].outpipe # None
    BY <1>9, Places DEF Silent
  <2> QED
    BY <1>8, <2>1 DEF NextOut
<1>12. Handshake'
  <2>1. Control(N[1]) = Control(p.mail[1])
    BY <1>1, <1>4, <1>5, ControlAppend
  <2>2. Shakes(p.end[1].state, Control(p.mail[1]), p.end[2].state, Control(p.mail[2]))
    BY SeenFrom, OneTwo
  <2>3. Shakes(State(1)', Control(p'.mail[1]), State(2)', Control(p'.mail[2]))
    BY <1>3, <1>5, <1>6, <1>8, <2>1, <2>2 DEF State
  <2> QED
    BY <2>3, HandshakeAt, OneTwo
<1>13. Mails'
  <2>1. MailOrder(p.mail[1]) /\ MailOrder(p.mail[2])
    BY OneTwo DEF PipeInv, Mails
  <2>2. MailOrder(N[1])
    BY <1>1, <1>4, <1>5, <1>10, <2>1, OrderAppend
  <2>3. p'.end[1].state # "dead" /\ p'.end[2].state # "dead"
    BY <1>6, <1>8, <1>9
  <2> QED
    BY <1>5, <1>8, <2>1, <2>2, <2>3, OneTwo DEF Mails, State
<1>14. Pointers'
  <2>1. Pointers
    BY DEF PipeInv
  <2>2. Len(p'.yp) = Len(p.yp) + 1
    BY <1>7, <1>8
  <2>3. Len(p'.yp) >= 2 /\ p'.end[1].inpipe = 1 /\ p'.end[2].inpipe = Len(p'.yp)
    BY <1>2, <1>6, <1>7, <1>8, <2>1 DEF Pointers
  <2>4. \A e \in Ends : p'.end[e].outpipe = None <=> p'.end[e].state \in Silent
    <3>1. \A e \in Ends : p'.end[e].outpipe = p.end[e].outpipe /\ p'.end[e].state = p.end[e].state
      BY <1>3, <1>6, <1>8, OneTwo
    <3> QED
      BY <2>1, <3>1 DEF Pointers, State
  <2>5. p'.end[2].outpipe \in {None, 1} /\ p'.end[1].outpipe \in {None} \cup 2..Len(p'.yp)
    <3>1. NextOut \in 2..Len(p'.yp)
      <4>1. NextOut \in 2..Len(p.yp)
        BY Places
      <4> QED
        BY <1>2, <2>2, <4>1
    <3> QED
      BY <1>6, <1>8, <1>11, <2>1, <3>1 DEF Pointers
  <2> QED
    BY <2>3, <2>4, <2>5 DEF Pointers, State
<1>15. HiccupChain'
  <2>1. Chain(p.mail[1], NextOut, Len(p.yp)) /\ \A i \in 1..Len(p.mail[2]) : ~HiccupAt(p.mail[2], i)
    BY DEF PipeInv, HiccupChain
  <2>2. Chain(N[1], NextOut, Len(p.yp) + 1)
    BY <1>1, <1>2, <1>5, <1>10, <2>1, ChainNew DEF c
  <2>3. Len(p'.yp) = Len(p.yp) + 1 /\ p'.end[1].state # "pending"
    BY <1>7, <1>8, <1>9
  <2> QED
    BY <1>5, <1>8, <1>11, <2>1, <2>2, <2>3 DEF HiccupChain, State
<1>16. Lives'
  <2>1. /\ p.end[1].state # "dead" => p.yp[1].live
        /\ p.end[2].state # "dead" => \A i \in NextOut..Len(p.yp) : p.yp[i].live
    BY DEF PipeInv, Lives, State
  <2>2. Y[new].live
    BY <1>7 DEF NewYPipe
  <2>3. \A i \in NextOut..new : i = new \/ (i \in NextOut..Len(p.yp) /\ i \in 1..Len(p.yp))
    BY <1>1, <1>2
  <2>4. \A i \in NextOut..new : Y[i].live
    <3> HIDE DEF new
    <3> QED
      BY <1>3, <1>7, <2>1, <2>2, <2>3
  <2>5. p'.end[1].state # "dead" => Y[1].live
    BY <1>1, <1>7, <1>8, <2>1
  <2> HIDE DEF new
  <2> QED
    BY <1>7, <1>8, <1>11, <2>4, <2>5 DEF Lives, State
<1>17. Fresh'
  <2>1. \A i \in NextOut + 1 .. Len(p.yp) : p.yp[i].queue = << >> /\ p.yp[i].pending = << >>
    BY DEF PipeInv, Fresh
  <2>2. Y[new].queue = << >> /\ Y[new].pending = << >>
    BY <1>7 DEF NewYPipe
  <2>3. \A i \in NextOut + 1 .. new : i = new \/ (i \in NextOut + 1 .. Len(p.yp) /\ i \in 1..Len(p.yp))
    BY <1>1, <1>2
  <2>4. \A i \in NextOut + 1 .. new : Y[i].queue = << >> /\ Y[i].pending = << >>
    <3> HIDE DEF new
    <3> QED
      BY <1>7, <2>1, <2>2, <2>3
  <2> HIDE DEF new
  <2> QED
    BY <1>7, <1>8, <1>11, <2>4 DEF Fresh
<1>18. p'.yp[NextOut] = p.yp[NextOut] /\ p'.yp[1] = p.yp[1] /\ Len(p'.yp) # 2 /\ p'.end[2].state = p.end[2].state
       /\ Len(p'.yp) = new
  BY <1>1, <1>2, <1>3, <1>6, <1>7, <1>8
<1>19. Delimiters'
  BY <1>3, <1>8, <1>11, <1>18, DelimitersKeep DEF PipeInv
<1>20. Leaving'
  <2>1. \A e \in Ends : p'.end[e].state = p.end[e].state /\ p'.end[e].delay = p.end[e].delay
    BY <1>6, <1>8, <1>18, OneTwo
  <2>2. Leaving /\ closing' \subseteq closing
    BY <1>3 DEF PipeInv
  <2> QED
    BY <1>1, <2>1, <2>2, LeavingKeeps
<1>21. Counts'
  <2>1. p'.end[2].msgsRead = p.end[2].msgsRead /\ p'.end[1].msgsWritten = p.end[1].msgsWritten
    BY <1>6, <1>8
  <2> QED
    BY <1>3, <1>11, <1>18, <2>1 DEF PipeInv, Counts, State
<1>22. Window' /\ Reports'
  <2>1. Steady(p.mail[1], p'.mail[1])
    BY <1>4, <1>5, <1>8 DEF Steady
  <2>2. Types /\ Window /\ Reports
    BY DEF PipeInv
  <2>3. /\ p'.end[1].hwm = p.end[1].hwm /\ p'.end[2].lwm = p.end[2].lwm
        /\ p'.end[2].msgsRead = p.end[2].msgsRead /\ p'.end[1].msgsWritten = p.end[1].msgsWritten
        /\ p'.end[1].peersMsgsRead = p.end[1].peersMsgsRead
        /\ p'.end[1].state = "active" /\ ~p'.end[1].outActive =>
              (p.end[1].state = "active" /\ ~p.end[1].outActive) \/ Full(p.end[1])
    BY <1>6, <1>8
  <2> QED
    BY <2>1, <2>2, <2>3, WindowKeeps
<1>23. Sleeping'
  <2>1. SleepsWell(2)'
    BY <1>6, <1>8 DEF SleepsWell
  <2>2. SleepsWell(1)'
    <3>1. Has(p.mail[1], Wake) => Has(p'.mail[1], Wake)
      BY <1>1, <1>4, <1>5, <1>8, WakeStays
    <3>2. SleepsWell(1) /\ p.end[1].inpipe = 1
      BY Basics
    <3> QED
      BY <1>8, <1>18, <3>1, <3>2, SleepKeeps
  <2> QED
    BY <2>1, <2>2, OneTwo DEF Sleeping
<1>24. Delimited'
  <2>1. IsDelimited(1)'
    BY <1>18 DEF IsDelimited
  <2>2. IsDelimited(2)'
    BY <1>3, <1>18 DEF IsDelimited, State
  <2> QED
    BY <2>1, <2>2, OneTwo DEF Delimited
<1> QED
  BY <1>8, <1>12, <1>13, <1>14, <1>15, <1>16, <1>17, <1>19, <1>20, <1>21, <1>22, <1>23, <1>24 DEF PipeInv

-----------------------------------------------------------------------------
\* An end processes a command.
LEMMA ProcessEffect ==
  ASSUME PipeInv, NEW e \in Ends, Process(e)
  PROVE  LET m == p.mail[e]
             c == Head(m)
             q == Pair(p.end, p.yp, Received(p.mail, e), p.ok)
         IN  /\ m # << >> /\ c \in Commands /\ p.end[e].state # "dead"
             /\ e \notin closing /\ closing' = closing /\ partial' = partial
             /\ c = Wake => p' = process_activate_read(q, e)
             /\ c[1] = "activate_write" => p' = process_activate_write(q, e, c[2])
             /\ c[1] = "hiccup" => p' = process_hiccup(q, e, c[2])
             /\ c = Term => p' = process_pipe_term(q, e)
             /\ c = Ack => p' = process_pipe_term_ack(q, e)
<1> DEFINE m == p.mail[e]
           c == Head(m)
           q == Pair(p.end, p.yp, Received(p.mail, e), p.ok)
           Q == [p EXCEPT !.mail[e] = Tail(@)]
<1>1. /\ m # << >> /\ e \notin closing /\ closing' = closing /\ partial' = partial
      /\ p' = process_command(Q, e, c)
  BY DEF Process, Only
<1>2. p.end[e].state # "dead"
  BY <1>1 DEF PipeInv, Mails, State
<1>3. c \in Commands
  <2>1. m \in Seq(Commands)
    BY InPlace
  <2> QED
    BY <1>1, <2>1, MailTail
<1>4. Q = q
  <2>1. PICK E \in EndPairs, Y \in Seq(YPipes), M \in MailPairs : \E k :
          p = Pair(E, Y, M, k) /\ p.end = E /\ p.yp = Y /\ p.mail = M /\ p.ok = k /\ Holds(k)
    BY Names
  <2>2. PICK k : p = Pair(E, Y, M, k) /\ p.end = E /\ p.yp = Y /\ p.mail = M /\ p.ok = k /\ Holds(k)
    BY <2>1
  <2>3. [Pair(E, Y, M, k) EXCEPT !.mail[e] = Tail(@)] = Pair(E, Y, Received(M, e), k)
    <3> DEFINE a == Pair(E, Y, M, k)
    <3>1. a.mail = M
      BY PairIs
    <3>2. [a EXCEPT !.mail[e] = Tail(@)] = SetMail(a, Received(M, e))
      BY <3>1 DEF SetMail, Received
    <3> QED
      BY <3>2, Put
  <2> QED
    BY <2>2, <2>3
<1>5. q.end[e].state # "dead"
  BY <1>2, PairIs
<1> HIDE DEF m, c, q, Q
<1>6. p' = process_command(q, e, c)
  BY <1>1, <1>4
<1>7. /\ c = Wake => p' = process_activate_read(q, e)
      /\ c = Term => p' = process_pipe_term(q, e)
      /\ c = Ack => p' = process_pipe_term_ack(q, e)
  BY <1>5, <1>6 DEF process_command, Wake, Term, Ack
<1>8. c[1] = "activate_write" => p' = process_activate_write(q, e, c[2])
  BY <1>5, <1>6 DEF process_command
<1>9. c[1] = "hiccup" => p' = process_hiccup(q, e, c[2])
  BY <1>5, <1>6 DEF process_command
<1> QED
  BY <1>1, <1>2, <1>3, <1>7, <1>8, <1>9 DEF m, c, q

\* A wakeup.
LEMMA WakeStep ==
  ASSUME PipeInv, NEW e \in Ends, Process(e), Head(p.mail[e]) = Wake
  PROVE  PipeInv'
<1> DEFINE i == p.end[e].inpipe
           y == p.yp[i]
           N == Received(p.mail, e)
           f == Peer(e)
<1>1. /\ p.end \in EndPairs /\ p.end[e] \in EndRecords /\ p.yp \in Seq(YPipes) /\ p.mail \in MailPairs
      /\ i \in 1..Len(p.yp) /\ y \in YPipes /\ partial \in BOOLEAN /\ p.mail[e] \in Seq(Commands)
  BY Basics, InPlace
<1>2. f \in Ends /\ f # e /\ Peer(f) = e /\ \A g \in Ends : g = e \/ g = f
  BY PeerIs DEF Ends, Peer
<1>3. p.mail[e] # << >> /\ closing' = closing /\ partial' = partial
      /\ p' = process_activate_read(Pair(p.end, p.yp, N, p.ok), e)
  BY ProcessEffect
<1>4. N \in MailPairs /\ N[e] = Tail(p.mail[e]) /\ N[f] = p.mail[f]
  BY <1>1, <1>3, ReceivedIs
<1>5. PICK r \in EndRecords : /\ Alike(r, p.end[e]) /\ r.outActive = p.end[e].outActive
                              /\ p.end[e].state \in {"active", "pending"} => r.inActive
                              /\ p' = Pair(EndWith(p.end, e, r), YpWith(p.yp, i, y), N, p.ok)
  <2>1. YpWith(p.yp, i, y) = p.yp /\ EndWith(p.end, e, p.end[e]) = p.end
    BY <1>1, Idle
  <2>2. /\ p.end[e].state \in {"active", "pending"} => p' = Pair(EndWith(p.end, e, Awake(p.end[e])), p.yp, N, p.ok)
        /\ p.end[e].state \notin {"active", "pending"} => p' = Pair(p.end, p.yp, N, p.ok)
    BY <1>1, <1>3, ActivateReadIs
  <2>3. /\ Awake(p.end[e]) \in EndRecords /\ Alike(Awake(p.end[e]), p.end[e]) /\ Awake(p.end[e]).inActive
        /\ Awake(p.end[e]).outActive = p.end[e].outActive
    BY <1>1, AwakeIs DEF Alike
  <2>4. Alike(p.end[e], p.end[e])
    BY DEF Alike
  <2>5. CASE p.end[e].state \in {"active", "pending"}
    BY <2>1, <2>2, <2>3, <2>5
  <2>6. CASE p.end[e].state \notin {"active", "pending"}
    BY <1>1, <2>1, <2>2, <2>4, <2>6
  <2> QED
    BY <2>5, <2>6
<1> HIDE DEF i, y, N
<1>6. e = 1 /\ r.state = "active" /\ ~r.outActive => ~p.end[1].outActive \/ Full(p.end[1])
  BY <1>5
<1>7. /\ p'.mail = N /\ p'.end[e] = r /\ p'.end[Peer(e)] = p.end[Peer(e)]
      /\ Len(p'.yp) = Len(p.yp) /\ p'.yp[i] = y
      /\ \A j \in 1..Len(p.yp) : j # i => p'.yp[j] = p.yp[j]
      /\ NextOut' = NextOut
      /\ Delimiters' /\ Sleeping' /\ Delimited' => PipeInv'
  <2>1. /\ y.live <=> p.yp[i].live
        /\ i > NextOut => y.queue = p.yp[i].queue /\ y.pending = p.yp[i].pending
        /\ i = NextOut => Messages(ItemsIn(y)) = Messages(ItemsIn(p.yp[i]))
    BY DEF y
  <2>2. closing' \subseteq closing /\ partial' \in BOOLEAN
    BY <1>1, <1>3
  <2>3. N[Peer(e)] = p.mail[Peer(e)]
        /\ p.mail[e] # << >> /\ Head(p.mail[e]) = Wake /\ N[e] = Tail(p.mail[e])
    BY <1>3, <1>4
  <2> HIDE DEF f
  <2> QED
    BY <1>1, <1>4, <1>5, <1>6, <2>1, <2>2, <2>3, PlainUpdate
<1>8. \A j \in 1..Len(p.yp) : p'.yp[j] = p.yp[j]
  BY <1>7 DEF y
<1>9. \A g \in Ends : /\ p'.end[g].state = p.end[g].state /\ p'.end[g].inpipe = p.end[g].inpipe
                      /\ p'.end[g].outActive = p.end[g].outActive
  BY <1>2, <1>5, <1>7 DEF Alike
<1>10. Delimiters'
  <2>1. p'.yp[NextOut] = p.yp[NextOut] /\ p'.yp[1] = p.yp[1]
    BY <1>8, Basics
  <2>2. /\ p'.end[1].state = p.end[1].state /\ p'.end[2].state = p.end[2].state
        /\ p'.end[1].outActive = p.end[1].outActive
    BY <1>9, OneTwo
  <2> QED
    BY <1>3, <1>7, <2>1, <2>2, DelimitersKeep DEF PipeInv
<1>11. Sleeping'
  <2>1. SleepsWell(e)'
    BY <1>5, <1>7, <1>9 DEF SleepsWell, State
  <2>2. SleepsWell(f)'
    <3>1. SleepsWell(f) /\ p.end[f].inpipe \in 1..Len(p.yp)
      BY InPlace
    <3>2. p'.yp[p.end[f].inpipe] = p.yp[p.end[f].inpipe] /\ p'.mail[f] = p.mail[f] /\ p'.end[f] = p.end[f]
      BY <1>4, <1>7, <1>8, <3>1
    <3> QED
      BY <1>2, <3>1, <3>2, SleepKeeps
  <2> QED
    BY <2>1, <2>2, BothEnds
<1>12. Delimited'
  <2>1. ASSUME NEW g \in Ends PROVE IsDelimited(g)'
    <3>1. IsDelimited(g) /\ p.end[Peer(g)].inpipe \in 1..Len(p.yp) /\ Peer(g) \in Ends
      BY InPlace, PeerIs
    <3>2. p'.yp[p.end[Peer(g)].inpipe] = p.yp[p.end[Peer(g)].inpipe]
      BY <1>8, <3>1
    <3> QED
      BY <1>3, <1>7, <1>9, <3>1, <3>2, DelimitedKeeps
  <2> QED
    BY <2>1 DEF Delimited
<1> QED
  BY <1>7, <1>10, <1>11, <1>12

\* What is known of the reader when a report arrives.
LEMMA ReportArrives ==
  ASSUME NEW m \in Seq(Commands), NEW lo \in Nat, NEW hi \in Nat, NEW l, m # << >>,
         Rising(m, lo, hi), Recent(m, lo, hi, l), NEW n \in Nat, Head(m) = <<"activate_write", n>>
  PROVE  lo <= n /\ Rising(Tail(m), n, hi) /\ Recent(Tail(m), n, hi, l)
<1>1. Head(m)[1] = "activate_write" /\ Head(m)[2] = n
  BY CommandSet
<1>2. lo <= n /\ Rising(Tail(m), n, hi)
  BY <1>1, RisingTail
<1>3. ASSUME NEW k \in Nat, k <= lo \/ Has(m, <<"activate_write", k>>)
      PROVE  k <= n \/ Has(Tail(m), <<"activate_write", k>>)
  <2>1. CASE k <= lo
    BY <1>2, <2>1
  <2>2. CASE Has(m, <<"activate_write", k>>)
    <3>1. Has(Tail(m), <<"activate_write", k>>) \/ <<"activate_write", k>> = Head(m)
      BY <2>2, MailTail
    <3>2. <<"activate_write", k>> = Head(m) => k = n
      BY <1>1, CommandSet
    <3> QED
      BY <3>1, <3>2
  <2> QED
    BY <1>3, <2>1, <2>2
<1>4. Recent(Tail(m), n, hi, l)
  <2> DEFINE t == Tail(m)
  <2> HIDE DEF t
  <2>1. ASSUME NEW k \in Nat, k <= lo \/ Has(m, <<"activate_write", k>>)
        PROVE  k <= n \/ Has(t, <<"activate_write", k>>)
    BY <1>3, <2>1 DEF t
  <2>2. Recent(t, n, hi, l)
    BY <2>1 DEF Recent
  <2> QED
    BY <2>2 DEF t
<1> QED
  BY <1>2, <1>4

\* A report of what was read.
LEMMA ReportStep ==
  ASSUME PipeInv, NEW e \in Ends, Process(e), Head(p.mail[e])[1] = "activate_write"
  PROVE  PipeInv'
<1> DEFINE i == p.end[e].inpipe
           y == p.yp[i]
           N == Received(p.mail, e)
           f == Peer(e)
           c == Head(p.mail[e])
           n == c[2]
<1>1. /\ p.end \in EndPairs /\ p.end[e] \in EndRecords /\ p.yp \in Seq(YPipes) /\ p.mail \in MailPairs
      /\ i \in 1..Len(p.yp) /\ y \in YPipes /\ partial \in BOOLEAN /\ p.mail[e] \in Seq(Commands)
      /\ closing \subseteq Ends /\ Holds(p.ok)
  BY Basics, InPlace
<1>2. f \in Ends /\ f # e /\ Peer(f) = e /\ \A g \in Ends : g = e \/ g = f
  BY PeerIs DEF Ends, Peer
<1>3. /\ p.mail[e] # << >> /\ closing' = closing /\ partial' = partial /\ c \in Commands
      /\ p' = process_activate_write(Pair(p.end, p.yp, N, p.ok), e, n)
  BY ProcessEffect
<1>4. n \in Nat /\ c = <<"activate_write", n>> /\ c # Wake /\ c \in Notes
  <2>1. n \in Nat /\ c = <<"activate_write", n>>
    BY <1>3, CommandIs
  <2> QED
    BY <1>3, <2>1, CommandIs, CommandSet
<1>5. N \in MailPairs /\ N[e] = Tail(p.mail[e]) /\ N[f] = p.mail[f]
  BY <1>1, <1>3, ReceivedIs
<1> HIDE DEF n
<1>6. PICK r \in EndRecords :
        /\ r.state = p.end[e].state /\ r.inpipe = i /\ r.outpipe = p.end[e].outpipe /\ r.delay = p.end[e].delay
        /\ r.hwm = p.end[e].hwm /\ r.lwm = p.end[e].lwm /\ r.msgsRead = p.end[e].msgsRead
        /\ r.msgsWritten = p.end[e].msgsWritten /\ r.peersMsgsRead = n /\ r.inActive = p.end[e].inActive
        /\ r.state = "active" => r.outActive
        /\ r.state # "active" => r.outActive = p.end[e].outActive
        /\ p' = Pair(EndWith(p.end, e, r), YpWith(p.yp, i, y), N, p.ok)
  <2> DEFINE w == Reported(p.end[e], n)
  <2>1. YpWith(p.yp, i, y) = p.yp
    BY <1>1, Idle
  <2>2. /\ p.end[e].state = "active" => p' = Pair(EndWith(p.end, e, Open(w)), p.yp, N, p.ok)
        /\ p.end[e].state # "active" => p' = Pair(EndWith(p.end, e, w), p.yp, N, p.ok)
    BY <1>1, <1>3, ActivateWriteIs
  <2>3. /\ w \in EndRecords /\ w.state = p.end[e].state /\ w.inpipe = i /\ w.outpipe = p.end[e].outpipe
        /\ w.delay = p.end[e].delay /\ w.hwm = p.end[e].hwm /\ w.lwm = p.end[e].lwm
        /\ w.msgsRead = p.end[e].msgsRead /\ w.msgsWritten = p.end[e].msgsWritten /\ w.peersMsgsRead = n
        /\ w.inActive = p.end[e].inActive /\ w.outActive = p.end[e].outActive
    BY <1>1, <1>4, ReportedIs
  <2> HIDE DEF w
  <2>4. /\ Open(w) \in EndRecords /\ Open(w).state = p.end[e].state /\ Open(w).inpipe = i
        /\ Open(w).outpipe = p.end[e].outpipe
        /\ Open(w).delay = p.end[e].delay /\ Open(w).hwm = p.end[e].hwm /\ Open(w).lwm = p.end[e].lwm
        /\ Open(w).msgsRead = p.end[e].msgsRead /\ Open(w).msgsWritten = p.end[e].msgsWritten
        /\ Open(w).peersMsgsRead = n /\ Open(w).inActive = p.end[e].inActive /\ Open(w).outActive
    BY <2>3, OpenIs
  <2>5. CASE p.end[e].state = "active"
    BY <2>1, <2>2, <2>4, <2>5
  <2>6. CASE p.end[e].state # "active"
    BY <2>1, <2>2, <2>3, <2>6
  <2> QED
    BY <2>5, <2>6
<1> HIDE DEF i, y, N
<1>7. /\ Types' /\ p'.ok /\ p'.mail = N /\ p'.end[e] = r /\ p'.end[f] = p.end[f]
      /\ Len(p'.yp) = Len(p.yp) /\ p'.yp[i] = y
      /\ \A j \in 1..Len(p.yp) : j # i => p'.yp[j] = p.yp[j]
  <2>1. closing' \subseteq Ends /\ partial' \in BOOLEAN
    BY <1>1, <1>3
  <2> QED
    BY <1>1, <1>5, <1>6, <2>1, NextIs
<1>8. \A j \in 1..Len(p.yp) : p'.yp[j] = p.yp[j]
  BY <1>7 DEF y
<1>9. \A g \in Ends : /\ p'.end[g].state = p.end[g].state /\ p'.end[g].inpipe = p.end[g].inpipe
                      /\ p'.end[g].outpipe = p.end[g].outpipe /\ p'.end[g].delay = p.end[g].delay
                      /\ p'.end[g].inActive = p.end[g].inActive
                      /\ p'.end[g].hwm = p.end[g].hwm /\ p'.end[g].lwm = p.end[g].lwm
                      /\ p'.end[g].msgsRead = p.end[g].msgsRead /\ p'.end[g].msgsWritten = p.end[g].msgsWritten
                      /\ p'.end[g].state = "pending" => p'.end[g].outActive = p.end[g].outActive
  BY <1>2, <1>6, <1>7 DEF i
<1>10. Handshake' /\ Mails' /\ Pointers' /\ HiccupChain' /\ NextOut' = NextOut /\ Lives' /\ Leaving'
  <2>1. \A g \in Ends : /\ p'.end[g].state = p.end[g].state
                        /\ p'.end[g].inpipe = p.end[g].inpipe /\ p'.end[g].outpipe = p.end[g].outpipe
                        /\ p'.end[g].delay = p.end[g].delay
    BY <1>9
  <2>2. \A j \in 1..Len(p.yp) : p'.yp[j].live <=> p.yp[j].live
    BY <1>8
  <2>3. p'.mail[Peer(e)] = p.mail[Peer(e)] /\ closing' \subseteq closing
        /\ p.mail[e] # << >> /\ Head(p.mail[e]) \in Notes /\ p'.mail[e] = Tail(p.mail[e])
    BY <1>3, <1>4, <1>5, <1>7
  <2> QED
    BY <1>7, <2>1, <2>2, <2>3, QuietKeeps
<1>11. Fresh'
  BY <1>7, <1>8, <1>10, FreshKeeps
<1>12. p'.yp[NextOut] = p.yp[NextOut] /\ p'.yp[1] = p.yp[1]
  BY <1>8, Basics
<1>13. Delimiters'
  <2>1. /\ p'.end[1].state = p.end[1].state /\ p'.end[2].state = p.end[2].state
        /\ p'.end[1].state = "pending" => p'.end[1].outActive = p.end[1].outActive
    BY <1>9, OneTwo
  <2> QED
    BY <1>3, <1>10, <1>12, <2>1, DelimitersKeep DEF PipeInv
<1>14. Counts'
  BY <1>7, <1>9, <1>10, <1>12, CountsKeep, OneTwo DEF PipeInv
<1>15. Window' /\ Reports'
  <2>1. Types /\ Window /\ Reports
    BY DEF PipeInv
  <2>2. CASE e = 1
    <3> DEFINE m == p.mail[1]
               lo == p.end[1].peersMsgsRead
               hi == p.end[2].msgsRead
               lwm == p.end[2].lwm
               W == p.end[1].msgsWritten
               H == p.end[1].hwm
    <3>1. m \in Seq(Commands) /\ lo \in Nat /\ hi \in Nat /\ lwm \in Nat /\ W \in Nat /\ H \in Nat
      BY <2>1, TypesAre, OneTwo
    <3>2. Rising(m, lo, hi) /\ Recent(m, lo, hi, lwm) /\ lwm = compute_lwm(H) /\ (H > 0 => W - lo <= H)
      BY <2>1 DEF Window, Reports, Recent
    <3>3. m # << >> /\ Head(m) = <<"activate_write", n>> /\ p'.mail[1] = Tail(m)
      BY <1>3, <1>4, <1>5, <1>7, <2>2
    <3>4. /\ p'.end[1].peersMsgsRead = n /\ p'.end[2].msgsRead = hi /\ p'.end[2].lwm = lwm
          /\ p'.end[1].msgsWritten = W /\ p'.end[1].hwm = H /\ (p'.end[1].state = "active" => p'.end[1].outActive)
      BY <1>6, <1>7, <1>9, <2>2, OneTwo
    <3> HIDE DEF m, lo, hi, lwm, W, H
    <3>5. lo <= n /\ Rising(Tail(m), n, hi) /\ Recent(Tail(m), n, hi, lwm)
      BY <1>4, <3>1, <3>2, <3>3, ReportArrives
    <3>6. H > 0 => W - n <= H
      BY <1>4, <3>1, <3>2, <3>5
    <3>7. Window'
      BY <3>3, <3>4, <3>5, <3>6 DEF Window
    <3>8. Reports'
      BY <3>2, <3>3, <3>4, <3>5 DEF Reports, Recent
    <3> QED
      BY <3>7, <3>8
  <2>3. CASE e = 2
    <3>1. p'.end[1] = p.end[1] /\ p'.mail[1] = p.mail[1] /\ p'.end[2].lwm = p.end[2].lwm
          /\ p'.end[2].msgsRead = p.end[2].msgsRead
      BY <1>5, <1>7, <1>9, <2>3, OneTwo
    <3>2. Steady(p.mail[1], p'.mail[1])
      BY <3>1 DEF Steady
    <3> QED
      BY <2>1, <3>1, <3>2, WindowKeeps
  <2> QED
    BY <2>2, <2>3, OneTwo
<1>16. Sleeping'
  <2>1. SleepsWell(e)'
    <3>1. SleepsWell(e) /\ p.end[e].inpipe \in 1..Len(p.yp)
      BY InPlace
    <3>2. Has(p.mail[e], Wake) => Has(p'.mail[e], Wake)
      BY <1>1, <1>3, <1>4, <1>5, <1>7, MailTail
    <3>3. p'.yp[p.end[e].inpipe] = p.yp[p.end[e].inpipe]
      BY <1>8, <3>1
    <3> QED
      BY <1>9, <3>1, <3>2, <3>3, SleepKeeps
  <2>2. SleepsWell(f)'
    <3>1. SleepsWell(f) /\ p.end[f].inpipe \in 1..Len(p.yp)
      BY InPlace
    <3>2. p'.yp[p.end[f].inpipe] = p.yp[p.end[f].inpipe] /\ p'.mail[f] = p.mail[f] /\ p'.end[f] = p.end[f]
      BY <1>5, <1>7, <1>8, <3>1
    <3> QED
      BY <1>2, <3>1, <3>2, SleepKeeps
  <2> QED
    BY <2>1, <2>2, BothEnds
<1>17. Delimited'
  <2>1. ASSUME NEW g \in Ends PROVE IsDelimited(g)'
    <3>1. IsDelimited(g) /\ p.end[Peer(g)].inpipe \in 1..Len(p.yp) /\ Peer(g) \in Ends
      BY InPlace, PeerIs
    <3>2. p'.yp[p.end[Peer(g)].inpipe] = p.yp[p.end[Peer(g)].inpipe]
      BY <1>8, <3>1
    <3> QED
      BY <1>3, <1>7, <1>9, <3>1, <3>2, DelimitedKeeps
  <2> QED
    BY <2>1 DEF Delimited
<1> QED
  BY <1>7, <1>10, <1>11, <1>13, <1>14, <1>15, <1>16, <1>17 DEF PipeInv

\* A hiccup: end 1 drops the ypipe that it wrote to and turns to the next one.
LEMMA HiccupArrives ==
  ASSUME PipeInv, NEW e \in Ends, Process(e), Head(p.mail[e])[1] = "hiccup"
  PROVE  /\ e = 1 /\ p.mail[1] # << >> /\ closing' = closing /\ partial' = partial
         /\ NextOut < Len(p.yp) /\ Chain(Tail(p.mail[1]), NextOut + 1, Len(p.yp))
         /\ p.end[1].state \notin Silent \cup {"pending"} /\ p.end[2].state # "dead"
         /\ p' = Pair(EndWith(p.end, 1, Open(Outbound(p.end[1], NextOut + 1))),
                      YpWith(p.yp, NextOut, Dropped(p.yp[NextOut])), Received(p.mail, 1), p.ok)
<1> DEFINE m == p.mail[e]
           n == Head(m)[2]
           N == Received(p.mail, e)
<1>1. /\ p.end \in EndPairs /\ p.yp \in Seq(YPipes) /\ Holds(p.ok) /\ p.mail[1] \in Seq(Commands)
      /\ m \in Seq(Commands) /\ NextOut \in 1..Len(p.yp)
  BY Basics, InPlace
<1>2. /\ m # << >> /\ closing' = closing /\ partial' = partial
      /\ p' = process_hiccup(Pair(p.end, p.yp, N, p.ok), e, n)
  BY ProcessEffect
<1>3. e = 1
  <2>1. 1 \in 1..Len(m) /\ m[1] = Head(m)
    BY <1>1, <1>2
  <2>2. HiccupAt(m, 1)
    BY <2>1 DEF HiccupAt
  <2>3. CASE e = 2
    BY <2>1, <2>2, <2>3 DEF PipeInv, HiccupChain
  <2> QED
    BY <2>3, OneTwo
<1>4. Head(m) = <<"hiccup", NextOut + 1>> /\ NextOut < Len(p.yp) /\ Chain(Tail(m), NextOut + 1, Len(p.yp))
  <2>1. NextOut \in Nat /\ Len(p.yp) \in Nat /\ NextOut <= Len(p.yp)
    BY Places
  <2>2. Chain(m, NextOut, Len(p.yp))
    BY <1>3 DEF PipeInv, HiccupChain
  <2> QED
    BY <1>1, <1>2, <2>1, <2>2, ChainTail
<1>5. n = NextOut + 1
  BY <1>4
<1>6. p.end[1].state \notin Silent \cup {"pending"}
  <2>1. Len(p.yp) \in Nat /\ (p.end[1].state \in Silent => NextOut = Len(p.yp))
    BY Places
  <2>2. p.end[1].state = "pending" => NextOut = Len(p.yp)
    BY DEF PipeInv, HiccupChain, State
  <2> QED
    BY <1>4, <2>1, <2>2
<1>7. p.end[2].state # "dead"
  BY <1>6, RowFacts, OneTwo
<1>8. p.end[1].outpipe = NextOut /\ p.end[1].outpipe # None
  BY <1>6, Places
<1>9. Holds(p.yp[NextOut].live)
  <2>1. p.yp[NextOut].live
    <3>1. NextOut \in NextOut..Len(p.yp)
      BY Places
    <3> QED
      BY <1>7, <3>1 DEF PipeInv, Lives, State
  <2>2. p.yp[NextOut].live \in BOOLEAN
    <3>1. p.yp[NextOut] \in YPipes
      BY <1>1
    <3> QED
      BY <3>1 DEF YPipes
  <2> QED
    BY <2>1, <2>2 DEF Holds
<1>10. process_hiccup(Pair(p.end, p.yp, N, p.ok), 1, n) =
         Pair(EndWith(p.end, 1, Open(Outbound(p.end[1], n))), YpWith(p.yp, NextOut, Dropped(p.yp[NextOut])), N, p.ok)
  <2> HIDE DEF n, N
  <2> QED
    BY <1>1, <1>8, <1>9, ProcessHiccupIs, OneTwo
<1> QED
  BY <1>2, <1>3, <1>4, <1>5, <1>6, <1>7, <1>10

LEMMA ProcessHiccupStep ==
  ASSUME PipeInv, NEW e \in Ends, Process(e), Head(p.mail[e])[1] = "hiccup"
  PROVE  PipeInv'
<1> DEFINE i == NextOut
           o == i + 1
           w == Outbound(p.end[1], o)
           r == Open(w)
           y == Dropped(p.yp[i])
           m == p.mail[1]
           N == Received(p.mail, 1)
<1>1. /\ p.end \in EndPairs /\ p.end[1] \in EndRecords /\ p.yp \in Seq(YPipes) /\ p.mail \in MailPairs
      /\ m \in Seq(Commands) /\ Holds(p.ok)
      /\ closing \subseteq Ends /\ partial \in BOOLEAN /\ i \in 1..Len(p.yp) /\ i # 1 /\ 1 \in 1..Len(p.yp)
      /\ p.yp[i] \in YPipes
  BY Basics
<1>2. i \in Nat /\ Len(p.yp) \in Nat /\ i >= 2
  BY Places
<1>3. /\ e = 1 /\ m # << >> /\ closing' = closing /\ partial' = partial
      /\ i < Len(p.yp) /\ Chain(Tail(m), o, Len(p.yp))
      /\ p.end[1].state \notin Silent \cup {"pending"} /\ p.end[2].state # "dead"
      /\ p' = Pair(EndWith(p.end, 1, r), YpWith(p.yp, i, y), N, p.ok)
  BY HiccupArrives
<1>4. N \in MailPairs /\ N[1] = Tail(m) /\ N[2] = p.mail[2]
  BY <1>1, <1>3, ReceivedIs, OneTwo
<1>5. o \in Nat /\ o \in 2..Len(p.yp) /\ o # i /\ o # 1 /\ o # None /\ o \in 1..Len(p.yp)
  BY <1>1, <1>2, <1>3 DEF None
<1>6. Head(m)[1] = "hiccup" /\ Head(m) \notin {Term, Ack} /\ Head(m) # Wake
  BY <1>3 DEF Term, Ack, Wake
<1>7. /\ r \in EndRecords /\ r.state = p.end[1].state /\ r.inActive = p.end[1].inActive /\ r.outActive
      /\ r.inpipe = 1 /\ r.outpipe = o /\ r.delay = p.end[1].delay /\ r.hwm = p.end[1].hwm
      /\ r.lwm = p.end[1].lwm /\ r.msgsRead = p.end[1].msgsRead /\ r.msgsWritten = p.end[1].msgsWritten
      /\ r.peersMsgsRead = p.end[1].peersMsgsRead
  <2>1. p.end[1].inpipe = 1
    BY Places
  <2> HIDE DEF o
  <2>2. /\ w \in EndRecords /\ w.state = p.end[1].state /\ w.inActive = p.end[1].inActive
        /\ w.inpipe = 1 /\ w.outpipe = o /\ w.delay = p.end[1].delay /\ w.hwm = p.end[1].hwm
        /\ w.lwm = p.end[1].lwm /\ w.msgsRead = p.end[1].msgsRead /\ w.msgsWritten = p.end[1].msgsWritten
        /\ w.peersMsgsRead = p.end[1].peersMsgsRead
    BY <1>1, <1>5, <2>1, OutboundIs
  <2> HIDE DEF w
  <2> QED
    BY <2>2, OpenIs
<1>8. y \in YPipes /\ y.queue = << >> /\ y.pending = << >>
  BY <1>1, DroppedIs
<1> HIDE DEF r, y, N, i, o, w
<1>9. /\ Types' /\ p'.ok /\ p'.mail = N /\ p'.end[1] = r /\ p'.end[2] = p.end[2]
      /\ Len(p'.yp) = Len(p.yp) /\ p'.yp[i] = y
      /\ \A j \in 1..Len(p.yp) : j # i => p'.yp[j] = p.yp[j]
  <2>1. closing' \subseteq Ends /\ partial' \in BOOLEAN
    BY <1>1, <1>3
  <2> QED
    BY <1>1, <1>3, <1>4, <1>7, <1>8, <2>1, NextIs, OneTwo
<1>10. NextOut' = o
  BY <1>5, <1>7, <1>9 DEF NextOut
<1>11. \A g \in Ends : /\ p'.end[g].state = p.end[g].state /\ p'.end[g].inpipe = p.end[g].inpipe
                       /\ p'.end[g].inActive = p.end[g].inActive /\ p'.end[g].delay = p.end[g].delay
                       /\ p'.end[g].msgsRead = p.end[g].msgsRead /\ p'.end[g].msgsWritten = p.end[g].msgsWritten
  <2>1. p.end[1].inpipe = 1
    BY Places
  <2> QED
    BY <1>7, <1>9, <2>1, OneTwo
<1>12. Handshake'
  <2>1. MailOrder(m)
    BY OneTwo DEF PipeInv, Mails
  <2>2. Control(N[1]) = Control(m)
    BY <1>1, <1>3, <1>4, <1>6, <2>1, ControlTail
  <2>3. Shakes(p.end[1].state, Control(m), p.end[2].state, Control(p.mail[2]))
    BY SeenFrom, OneTwo
  <2>4. Shakes(State(1)', Control(p'.mail[1]), State(2)', Control(p'.mail[2]))
    BY <1>4, <1>7, <1>9, <2>2, <2>3 DEF State
  <2> QED
    BY <2>4, HandshakeAt, OneTwo
<1>13. Mails'
  <2>1. MailOrder(m) /\ MailOrder(p.mail[2])
    BY OneTwo DEF PipeInv, Mails
  <2>2. MailOrder(N[1])
    BY <1>1, <1>3, <1>4, <2>1, OrderTail
  <2>3. p'.end[1].state # "dead" /\ p'.end[2].state # "dead"
    BY <1>3, <1>7, <1>9 DEF Silent
  <2> QED
    BY <1>4, <1>9, <2>1, <2>2, <2>3, OneTwo DEF Mails, State
<1>14. Pointers'
  <2>1. /\ Len(p.yp) >= 2 /\ p.end[2].inpipe = Len(p.yp)
        /\ p.end[2].outpipe = None <=> p.end[2].state \in Silent
        /\ p.end[2].outpipe \in {None, 1}
    BY OneTwo DEF PipeInv, Pointers, State
  <2>2. p'.end[1].outpipe # None /\ p'.end[1].state \notin Silent
    BY <1>3, <1>5, <1>7, <1>9
  <2>3. \A g \in Ends : p'.end[g].outpipe = None <=> p'.end[g].state \in Silent
    BY <1>9, <2>1, <2>2, OneTwo
  <2> QED
    BY <1>5, <1>7, <1>9, <2>1, <2>3 DEF Pointers, State
<1>15. HiccupChain'
  <2>1. \A j \in 1..Len(p.mail[2]) : ~HiccupAt(p.mail[2], j)
    BY DEF PipeInv, HiccupChain
  <2>2. p'.end[1].state # "pending"
    BY <1>3, <1>7, <1>9
  <2> QED
    BY <1>3, <1>4, <1>9, <1>10, <2>1, <2>2 DEF HiccupChain, State
<1>16. \A j \in o..Len(p.yp) : j \in NextOut..Len(p.yp) /\ j \in 1..Len(p.yp) /\ j # i
  BY <1>1, <1>2 DEF i, o
<1>17. p'.yp[1] = p.yp[1] /\ p'.yp[o] = p.yp[o] /\ p'.yp[Len(p.yp)] = p.yp[Len(p.yp)]
  <2>1. Len(p.yp) \in 1..Len(p.yp) /\ Len(p.yp) # i
    BY <1>2, <1>3
  <2> QED
    BY <1>1, <1>5, <1>9, <2>1
<1>18. Lives'
  <2>1. /\ p.end[1].state # "dead" => p.yp[1].live
        /\ \A j \in NextOut..Len(p.yp) : p.yp[j].live
    BY <1>3 DEF PipeInv, Lives, State
  <2>2. \A j \in o..Len(p.yp) : p'.yp[j].live
    BY <1>9, <1>16, <2>1
  <2>3. p'.end[1].state # "dead" => p'.yp[1].live
    BY <1>7, <1>9, <1>17, <2>1
  <2> QED
    BY <1>9, <1>10, <2>2, <2>3 DEF Lives, State
<1>19. p.yp[o].queue = << >> /\ p.yp[o].pending = << >>
  <2>1. o \in NextOut + 1 .. Len(p.yp)
    BY <1>2, <1>3 DEF i, o
  <2> QED
    BY <2>1 DEF PipeInv, Fresh
<1>20. Fresh'
  <2>1. \A j \in o + 1 .. Len(p.yp) : j \in NextOut + 1 .. Len(p.yp) /\ j \in 1..Len(p.yp) /\ j # i
    BY <1>1, <1>2 DEF i, o
  <2>2. \A j \in NextOut + 1 .. Len(p.yp) : p.yp[j].queue = << >> /\ p.yp[j].pending = << >>
    BY DEF PipeInv, Fresh
  <2>3. \A j \in o + 1 .. Len(p.yp) : p'.yp[j].queue = << >> /\ p'.yp[j].pending = << >>
    BY <1>9, <2>1, <2>2
  <2> QED
    BY <1>9, <1>10, <2>3 DEF Fresh
<1>21. ItemsIn(p'.yp[o]) = << >>
  BY <1>1, <1>5, <1>17, <1>19, ItemsIs
<1>22. Delimiters'
  <2>2. p.end[1].state # "dead" /\ Has(ItemsIn(p.yp[1]), "delim") => p.end[2].state \notin {"active", "delimited"}
    BY DEF PipeInv, Delimiters, State
  <2>3. p'.end[1].state # "dead" /\ Has(ItemsIn(p'.yp[1]), "delim") => p'.end[2].state \notin {"active", "delimited"}
    BY <1>7, <1>9, <1>17, <2>2
  <2> QED
    BY <1>10, <1>21, <2>3, ItemsEmpty DEF Delimiters, State
<1>23. Leaving'
  <2>1. Leaving /\ closing' \subseteq closing
    BY <1>3 DEF PipeInv
  <2> QED
    BY <1>1, <1>11, <2>1, LeavingKeeps
<1>24. Counts'
  <2> DEFINE R == p.end[2].msgsRead
             W == p.end[1].msgsWritten
             c == Messages(ItemsIn(p.yp[NextOut]))
  <2>1. R \in Nat /\ W \in Nat
    BY TypesAre, OneTwo DEF PipeInv
  <2>2. c \in Nat
    <3>1. NextOut \in 1..Len(p.yp) /\ p.yp[NextOut] \in YPipes
      BY Basics
    <3> QED
      BY <3>1, ItemsIs
  <2>3. c + R <= W
    BY <1>3 DEF PipeInv, Counts, State
  <2> HIDE DEF c
  <2>4. R <= W /\ 0 + R <= W
    BY <2>1, <2>2, <2>3
  <2>5. Len(p'.yp) # 2 /\ Messages(ItemsIn(p'.yp[o])) = 0
    <3>1. Messages(ItemsIn(p'.yp[o])) = 0
      BY <1>21, ItemsEmpty
    <3>2. Len(p'.yp) # 2
      BY <1>2, <1>3, <1>9
    <3> QED
      BY <3>1, <3>2
  <2>6. p'.end[2].msgsRead = R /\ p'.end[1].msgsWritten = W
    BY <1>7, <1>9
  <2> HIDE DEF R, W
  <2> QED
    BY <1>10, <2>4, <2>5, <2>6 DEF Counts
<1>25. Window' /\ Reports'
  <2>1. Steady(p.mail[1], p'.mail[1])
    BY <1>3, <1>4, <1>6, <1>9 DEF Steady
  <2>2. Types /\ Window /\ Reports
    BY DEF PipeInv
  <2>3. /\ p'.end[1].hwm = p.end[1].hwm /\ p'.end[2].lwm = p.end[2].lwm
        /\ p'.end[2].msgsRead = p.end[2].msgsRead /\ p'.end[1].msgsWritten = p.end[1].msgsWritten
        /\ p'.end[1].peersMsgsRead = p.end[1].peersMsgsRead
        /\ p'.end[1].state = "active" /\ ~p'.end[1].outActive =>
              (p.end[1].state = "active" /\ ~p.end[1].outActive) \/ Full(p.end[1])
    BY <1>7, <1>9
  <2> QED
    BY <2>1, <2>2, <2>3, WindowKeeps
<1>26. Sleeping'
  <2>1. SleepsWell(1)'
    <3>1. Has(p.mail[1], Wake) => Has(p'.mail[1], Wake)
      BY <1>1, <1>3, <1>4, <1>6, <1>9, MailTail
    <3>2. SleepsWell(1) /\ p.end[1].inpipe = 1
      BY Basics
    <3> QED
      BY <1>11, <1>17, <3>1, <3>2, SleepKeeps, OneTwo
  <2>2. SleepsWell(2)'
    <3>1. SleepsWell(2) /\ p.end[2].inpipe = Len(p.yp)
      BY Basics, Places
    <3> QED
      BY <1>4, <1>9, <1>17, <3>1, SleepKeeps
  <2> QED
    BY <2>1, <2>2, OneTwo DEF Sleeping
<1>27. Delimited'
  <2>1. IsDelimited(1)'
    <3>1. Len(p'.yp) # 2
      BY <1>2, <1>3, <1>9
    <3> QED
      BY <3>1 DEF IsDelimited
  <2>2. IsDelimited(2)'
    <3>1. IsDelimited(2) /\ p.end[1].inpipe = 1
      BY Basics
    <3>2. /\ p'.end[Peer(2)].inpipe = p.end[Peer(2)].inpipe /\ Len(p'.yp) = Len(p.yp)
          /\ closing' = closing /\ p'.end[2].state = p.end[2].state
          /\ p'.end[Peer(2)].state = p.end[Peer(2)].state
          /\ p'.yp[p.end[Peer(2)].inpipe] = p.yp[p.end[Peer(2)].inpipe]
      BY <1>3, <1>9, <1>11, <1>17, <3>1, OneTwo
    <3> QED
      BY <3>1, <3>2, DelimitedKeeps
  <2> QED
    BY <2>1, <2>2, OneTwo DEF Delimited
<1> QED
  BY <1>9, <1>12, <1>13, <1>14, <1>15, <1>18, <1>20, <1>22, <1>23, <1>24, <1>25, <1>26, <1>27 DEF PipeInv

\* The other end asks an end to stop: ...
LEMMA TermArrives ==
  ASSUME PipeInv, NEW e \in Ends, Process(e), Head(p.mail[e]) = Term
  PROVE  LET f == Peer(e)
             N == Received(p.mail, e)
             a == p.end[e].state
             c == p.end[f].state
             d == Control(p.mail[f])
         IN  /\ p.mail[e] # << >> /\ e \notin closing /\ closing' = closing /\ partial' = partial
             /\ p' = process_pipe_term(Pair(p.end, p.yp, N, p.ok), e)
             /\ N \in MailPairs /\ N[e] = Tail(p.mail[e]) /\ N[f] = p.mail[f]
             /\ e = 1 => NextOut = Len(p.yp)
             /\ a \in {"active", "delimited", "terminated"} /\ c # "dead" /\ d \in {"none", "term"}
             /\ a = "active" => Shakes("pending", Control(N[e]), c, d)
             /\ a = "delimited" => d = "none" /\ Shakes("terminating", Control(N[e]), c, "ack")
             /\ a = "terminated" /\ d = "none" => Shakes("double_terminated", Control(N[e]), c, "ack")
             /\ a = "terminated" /\ d = "term" => Shakes("double_terminated", Control(N[e]), c, "both")
<1> DEFINE f == Peer(e)
           m == p.mail[e]
           N == Received(p.mail, e)
           a == p.end[e].state
           b == Control(m)
           c == p.end[f].state
           d == Control(p.mail[f])
           t == Control(Tail(m))
<1>1. /\ m # << >> /\ e \notin closing /\ closing' = closing /\ partial' = partial
      /\ p' = process_pipe_term(Pair(p.end, p.yp, N, p.ok), e)
  BY ProcessEffect
<1>2. p.mail \in MailPairs /\ m \in Seq(Commands)
  BY Basics, InPlace
<1>3. N \in MailPairs /\ N[e] = Tail(m) /\ N[f] = p.mail[f]
  BY <1>1, <1>2, ReceivedIs
<1>4. e = 1 => NextOut = Len(p.yp)
  <2>1. NextOut \in Nat /\ Len(p.yp) \in Nat /\ NextOut <= Len(p.yp)
    BY Places
  <2>2. e = 1 => Chain(m, NextOut, Len(p.yp))
    BY DEF PipeInv, HiccupChain
  <2> QED
    BY <1>1, <1>2, <2>1, <2>2, ChainTail
<1>5. b \in {"term", "both"} /\ (b = "term" => t = "none") /\ (b = "both" => t = "ack")
  <2>1. MailOrder(m)
    BY DEF PipeInv, Mails
  <2> QED
    BY <1>1, <1>2, <2>1, ControlTail
<1>6. Shakes(a, b, c, d)
  BY SeenFrom
<1> HIDE DEF a, b, c, d, t
<1>7. /\ a \in {"active", "delimited", "terminated"}
      /\ c # "dead" /\ d \in {"none", "term"}
      /\ a = "active" => Shakes("pending", t, c, d)
      /\ a = "delimited" => d = "none" /\ Shakes("terminating", t, c, "ack")
      /\ a = "terminated" /\ d = "none" => Shakes("double_terminated", t, c, "ack")
      /\ a = "terminated" /\ d = "term" => Shakes("double_terminated", t, c, "both")
  BY <1>5, <1>6 DEF Shakes, Rows
<1>8. Control(N[e]) = t
  BY <1>3 DEF t
<1> QED
  BY <1>1, <1>3, <1>4, <1>7, <1>8 DEF a, c, d

\* ... one that is open waits for what is still to be read, ...
LEMMA PendMove ==
  ASSUME PipeInv, NEW e \in Ends, Process(e), Head(p.mail[e]) = Term, p.end[e].state = "active",
         NEW r \in EndRecords, Moved(r, p.end[e]), r.state = "pending",
         p' = Pair(EndWith(p.end, e, r), YpWith(p.yp, p.end[e].inpipe, p.yp[p.end[e].inpipe]),
                   Received(p.mail, e), p.ok)
  PROVE  PipeInv'
<1> DEFINE y == p.yp[p.end[e].inpipe]
           N == Received(p.mail, e)
<1>1. /\ p.mail[e] # << >> /\ e \notin closing /\ closing' = closing /\ partial' = partial
      /\ N \in MailPairs /\ N[e] = Tail(p.mail[e]) /\ N[Peer(e)] = p.mail[Peer(e)]
      /\ e = 1 => NextOut = Len(p.yp)
      /\ p.end[Peer(e)].state # "dead"
      /\ Shakes("pending", Control(N[e]), p.end[Peer(e)].state, Control(p.mail[Peer(e)]))
  BY TermArrives
<1>2. partial' \in BOOLEAN /\ closing \subseteq closing' /\ closing' \subseteq closing \cup {e}
  BY <1>1, Basics
<1>3. p' = Pair(EndWith(p.end, e, r), YpWith(p.yp, p.end[e].inpipe, y), N, p.ok)
  OBVIOUS
<1>4. Consumed(r.state, y, p.yp[p.end[e].inpipe])
  BY DEF Consumed
<1>5. Receives(p.mail[e], N[e]) /\ Sends(p.mail[Peer(e)], N[Peer(e)])
  BY <1>1 DEF Receives, Sends
<1>6. Shakes(r.state, Control(N[e]), p.end[Peer(e)].state, Control(N[Peer(e)]))
  BY <1>1
<1> HIDE DEF y, N
<1> QED
  BY <1>1, <1>2, <1>3, <1>4, <1>5, <1>6, MoveStep DEF IsMove

\* ... and one that has read the delimiter or asked to stop itself acknowledges.
LEMMA AnswerMove ==
  ASSUME PipeInv, NEW e \in Ends, Process(e), Head(p.mail[e]) = Term,
         NEW r \in EndRecords, Moved(r, p.end[e]),
         \/ p.end[e].state = "delimited" /\ r.state = "terminating"
         \/ p.end[e].state = "terminated" /\ r.state = "double_terminated",
         p' = Pair(EndWith(p.end, e, r), YpWith(p.yp, p.end[e].inpipe, p.yp[p.end[e].inpipe]),
                   Sent(Received(p.mail, e), Peer(e), Ack), p.ok)
  PROVE  PipeInv'
<1> DEFINE y == p.yp[p.end[e].inpipe]
           f == Peer(e)
           K == Received(p.mail, e)
           N == Sent(K, f, Ack)
           m == p.mail[f]
           d == Control(m)
           c == p.end[f].state
           t == Control(Tail(p.mail[e]))
<1>1. /\ p.mail[e] # << >> /\ e \notin closing /\ closing' = closing /\ partial' = partial
      /\ K \in MailPairs /\ K[e] = Tail(p.mail[e]) /\ K[f] = m
      /\ e = 1 => NextOut = Len(p.yp)
      /\ c # "dead" /\ d \in {"none", "term"}
      /\ p.end[e].state = "delimited" => d = "none" /\ Shakes("terminating", t, c, "ack")
      /\ p.end[e].state = "terminated" /\ d = "none" => Shakes("double_terminated", t, c, "ack")
      /\ p.end[e].state = "terminated" /\ d = "term" => Shakes("double_terminated", t, c, "both")
  <2>1. Received(p.mail, e)[e] = Tail(p.mail[e])
    BY TermArrives
  <2> QED
    BY <2>1, TermArrives
<1>2. partial' \in BOOLEAN /\ closing \subseteq closing' /\ closing' \subseteq closing \cup {e}
  BY <1>1, Basics
<1>3. p' = Pair(EndWith(p.end, e, r), YpWith(p.yp, p.end[e].inpipe, y), N, p.ok)
  OBVIOUS
<1>4. Consumed(r.state, y, p.yp[p.end[e].inpipe])
  BY DEF Consumed
<1>5. N \in MailPairs /\ N[f] = Append(m, Ack) /\ N[e] = Tail(p.mail[e])
  <2>1. f \in Ends /\ e # f /\ Ack \in Commands
    BY PeerIs, CommandSet
  <2> HIDE DEF K, f, m
  <2> QED
    BY <1>1, <2>1, SentTo
<1>6. m \in Seq(Commands) /\ Ack \in Commands
  BY InPlace, CommandSet
<1> HIDE DEF K
<1>7. /\ ~Has(m, Ack)
      /\ d = "none" => Control(N[f]) = "ack"
      /\ d = "term" => Control(N[f]) = "both"
  <2> HIDE DEF N, m
  <2> QED
    BY <1>1, <1>5, <1>6, ControlAppend
<1>8. Receives(p.mail[e], N[e]) /\ Sends(m, N[f])
  <2> HIDE DEF N
  <2> QED
    BY <1>1, <1>5, <1>7 DEF Receives, Sends
<1>9. Control(N[e]) = t
  BY <1>5
<1> HIDE DEF N, y, d, t
<1>10. Shakes(r.state, Control(N[e]), c, Control(N[f]))
  <2> HIDE DEF c, f
  <2> QED
    BY <1>1, <1>7, <1>9
<1> QED
  BY <1>1, <1>2, <1>3, <1>4, <1>5, <1>8, <1>10, MoveStep DEF IsMove

LEMMA ProcessTermStep ==
  ASSUME PipeInv, NEW e \in Ends, Process(e), Head(p.mail[e]) = Term
  PROVE  PipeInv'
<1> DEFINE i == p.end[e].inpipe
           s == p.end[e].state
           K == Received(p.mail, e)
           N == Sent(K, Peer(e), Ack)
           Y == YpWith(p.yp, i, p.yp[i])
<1>1. /\ s \in {"active", "delimited", "terminated"} /\ K \in MailPairs
      /\ p' = process_pipe_term(Pair(p.end, p.yp, K, p.ok), e)
  BY TermArrives
<1>2. p.end \in EndPairs /\ p.end[e] \in EndRecords /\ p.yp \in Seq(YPipes) /\ i \in 1..Len(p.yp)
  BY Basics, InPlace
<1>3. Y = p.yp
  BY <1>2, Idle
<1>4. s = "active" => p.end[e].delay
  BY DEF PipeInv, Leaving, State
<1> HIDE DEF K, Y
<1>5. CASE s = "active"
  <2> DEFINE r == InState(p.end[e], "pending")
  <2>1. p' = Pair(EndWith(p.end, e, r), Y, K, p.ok)
    BY <1>1, <1>2, <1>3, <1>4, <1>5, ProcessTermIs
  <2>2. r \in EndRecords /\ r.state = "pending" /\ Moved(r, p.end[e])
    <3>1. "pending" \in States /\ "pending" \notin Silent /\ s \notin Silent
      BY <1>5 DEF States, Silent
    <3> QED
      BY <1>2, <3>1, InStateIs DEF Moved
  <2> HIDE DEF r
  <2> QED
    BY <1>5, <2>1, <2>2, PendMove DEF K, Y
<1>6. CASE s = "delimited"
  <2> DEFINE r == Acking(p.end[e], "terminating")
  <2>1. p' = Pair(EndWith(p.end, e, r), Y, N, p.ok)
    BY <1>1, <1>2, <1>3, <1>6, ProcessTermIs
  <2>2. r \in EndRecords /\ r.state = "terminating" /\ Moved(r, p.end[e])
    <3>1. "terminating" \in States /\ "terminating" \in Silent
      BY DEF States, Silent
    <3> QED
      BY <1>2, <3>1, AckingIs DEF Moved, None
  <2> HIDE DEF r
  <2> QED
    BY <1>6, <2>1, <2>2, AnswerMove DEF K, Y
<1>7. CASE s = "terminated"
  <2> DEFINE r == Acking(p.end[e], "double_terminated")
  <2>1. p' = Pair(EndWith(p.end, e, r), Y, N, p.ok)
    BY <1>1, <1>2, <1>3, <1>7, ProcessTermIs
  <2>2. r \in EndRecords /\ r.state = "double_terminated" /\ Moved(r, p.end[e])
    <3>1. "double_terminated" \in States /\ "double_terminated" \in Silent
      BY DEF States, Silent
    <3> QED
      BY <1>2, <3>1, AckingIs DEF Moved, None
  <2> HIDE DEF r
  <2> QED
    BY <1>7, <2>1, <2>2, AnswerMove DEF K, Y
<1> QED
  BY <1>1, <1>5, <1>6, <1>7

\* The acknowledgement that an end waits for.
LEMMA AckArrives ==
  ASSUME PipeInv, NEW e \in Ends, Process(e), Head(p.mail[e]) = Ack
  PROVE  LET f == Peer(e)
             N == Received(p.mail, e)
             a == p.end[e].state
             c == p.end[f].state
             d == Control(p.mail[f])
         IN  /\ p.mail[e] # << >> /\ e \notin closing /\ closing' = closing /\ partial' = partial
             /\ p' = process_pipe_term_ack(Pair(p.end, p.yp, N, p.ok), e)
             /\ N \in MailPairs /\ N[e] = << >> /\ N[f] = p.mail[f] /\ Tail(p.mail[e]) = << >>
             /\ Control(N[e]) = "none"
             /\ e = 1 => NextOut = Len(p.yp)
             /\ a \in {"terminated", "terminating", "double_terminated"}
             /\ a = "terminated" => d = "none" /\ c = "terminating" /\ Shakes("dead", "none", c, "ack")
             /\ a # "terminated" => Shakes("dead", "none", c, d)
<1> DEFINE f == Peer(e)
           m == p.mail[e]
           N == Received(p.mail, e)
           a == p.end[e].state
           b == Control(m)
           c == p.end[f].state
           d == Control(p.mail[f])
<1>1. /\ m # << >> /\ e \notin closing /\ closing' = closing /\ partial' = partial
      /\ p' = process_pipe_term_ack(Pair(p.end, p.yp, N, p.ok), e)
  BY ProcessEffect
<1>2. p.mail \in MailPairs /\ m \in Seq(Commands)
  BY Basics, InPlace
<1>3. N \in MailPairs /\ N[e] = Tail(m) /\ N[f] = p.mail[f]
  BY <1>1, <1>2, ReceivedIs
<1>4. e = 1 => NextOut = Len(p.yp)
  <2>1. NextOut \in Nat /\ Len(p.yp) \in Nat /\ NextOut <= Len(p.yp)
    BY Places
  <2>2. e = 1 => Chain(m, NextOut, Len(p.yp))
    BY DEF PipeInv, HiccupChain
  <2> QED
    BY <1>1, <1>2, <2>1, <2>2, ChainTail
<1>5. b = "ack" /\ Tail(m) = << >> /\ Control(Tail(m)) = "none"
  <2>1. MailOrder(m)
    BY DEF PipeInv, Mails
  <2> QED
    BY <1>1, <1>2, <2>1, ControlTail
<1>6. Shakes(a, b, c, d)
  BY SeenFrom
<1> HIDE DEF a, b, c, d
<1>7. /\ a \in {"terminated", "terminating", "double_terminated"}
      /\ a = "terminated" => d = "none" /\ c = "terminating" /\ Shakes("dead", "none", c, "ack")
      /\ a # "terminated" => Shakes("dead", "none", c, d)
  BY <1>5, <1>6, Moves
<1> HIDE DEF N
<1>8. N[e] = << >> /\ Control(N[e]) = "none"
  BY <1>3, <1>5
<1> QED
  BY <1>1, <1>3, <1>4, <1>5, <1>7, <1>8 DEF a, c, d, N

\* An end that asked to stop and was not asked acknowledges before it goes, ...
LEMMA LastAckMove ==
  ASSUME PipeInv, NEW e \in Ends, Process(e), Head(p.mail[e]) = Ack, p.end[e].state = "terminated",
         NEW r \in EndRecords, Moved(r, p.end[e]), r.state = "dead",
         p' = Pair(EndWith(p.end, e, r), YpWith(p.yp, p.end[e].inpipe, Deleted(p.yp[p.end[e].inpipe])),
                   Sent(Received(p.mail, e), Peer(e), Ack), p.ok)
  PROVE  PipeInv'
<1> DEFINE y == Deleted(p.yp[p.end[e].inpipe])
           f == Peer(e)
           K == Received(p.mail, e)
           N == Sent(K, f, Ack)
           m == p.mail[f]
<1>1. /\ p.mail[e] # << >> /\ e \notin closing /\ closing' = closing /\ partial' = partial
      /\ K \in MailPairs /\ K[e] = << >> /\ K[f] = m /\ Tail(p.mail[e]) = << >>
      /\ Control(K[e]) = "none" /\ Control(m) = "none"
      /\ e = 1 => NextOut = Len(p.yp)
      /\ p.end[f].state # "dead" /\ Shakes("dead", "none", p.end[f].state, "ack")
  BY AckArrives
<1>2. partial' \in BOOLEAN /\ closing \subseteq closing' /\ closing' \subseteq closing \cup {e} /\ e \notin closing'
  BY <1>1, Basics
<1>3. p' = Pair(EndWith(p.end, e, r), YpWith(p.yp, p.end[e].inpipe, y), N, p.ok)
  OBVIOUS
<1>4. Consumed(r.state, y, p.yp[p.end[e].inpipe])
  BY DEF Consumed
<1>5. N \in MailPairs /\ N[f] = Append(m, Ack) /\ N[e] = K[e]
  <2>1. f \in Ends /\ e # f /\ Ack \in Commands
    BY PeerIs, CommandSet
  <2> HIDE DEF K, f, m
  <2> QED
    BY <1>1, <2>1, SentTo
<1>6. m \in Seq(Commands) /\ Ack \in Commands
  BY InPlace, CommandSet
<1> HIDE DEF K
<1>7. ~Has(m, Ack) /\ Control(N[f]) = "ack"
  <2> HIDE DEF N, m
  <2> QED
    BY <1>1, <1>5, <1>6, ControlAppend
<1>8. Receives(p.mail[e], N[e]) /\ Sends(m, N[f])
  <2> HIDE DEF N
  <2> QED
    BY <1>1, <1>5, <1>7 DEF Receives, Sends
<1> HIDE DEF N, y
<1>9. Shakes(r.state, Control(N[e]), p.end[f].state, Control(N[f])) /\ N[e] = << >>
  BY <1>1, <1>5, <1>7
<1> QED
  BY <1>1, <1>2, <1>3, <1>4, <1>5, <1>8, <1>9, MoveStep DEF IsMove

\* ... and one that answered already just goes.
LEMMA GoneMove ==
  ASSUME PipeInv, NEW e \in Ends, Process(e), Head(p.mail[e]) = Ack, p.end[e].state # "terminated",
         NEW r \in EndRecords, Moved(r, p.end[e]), r.state = "dead",
         p' = Pair(EndWith(p.end, e, r), YpWith(p.yp, p.end[e].inpipe, Deleted(p.yp[p.end[e].inpipe])),
                   Received(p.mail, e), p.ok)
  PROVE  PipeInv'
<1> DEFINE y == Deleted(p.yp[p.end[e].inpipe])
           f == Peer(e)
           N == Received(p.mail, e)
<1>1. /\ p.mail[e] # << >> /\ e \notin closing /\ closing' = closing /\ partial' = partial
      /\ N \in MailPairs /\ N[e] = << >> /\ N[f] = p.mail[f] /\ Tail(p.mail[e]) = << >>
      /\ Control(N[e]) = "none" /\ p.end[e].state # "dead"
      /\ e = 1 => NextOut = Len(p.yp)
      /\ Shakes("dead", "none", p.end[f].state, Control(p.mail[f]))
  BY AckArrives
<1>2. partial' \in BOOLEAN /\ closing \subseteq closing' /\ closing' \subseteq closing \cup {e} /\ e \notin closing'
  BY <1>1, Basics
<1>3. p' = Pair(EndWith(p.end, e, r), YpWith(p.yp, p.end[e].inpipe, y), N, p.ok)
  OBVIOUS
<1>4. Consumed(r.state, y, p.yp[p.end[e].inpipe])
  BY DEF Consumed
<1>5. Receives(p.mail[e], N[e]) /\ Sends(p.mail[f], N[f])
  <2>1. Receives(p.mail[e], N[e])
    BY <1>1 DEF Receives
  <2>2. Sends(p.mail[f], N[f])
    BY <1>1 DEF Sends
  <2> QED
    BY <2>1, <2>2
<1> HIDE DEF N, y
<1>6. Shakes(r.state, Control(N[e]), p.end[f].state, Control(N[f])) /\ N[e] = << >>
  BY <1>1
<1> QED
  BY <1>1, <1>2, <1>3, <1>4, <1>5, <1>6, MoveStep DEF IsMove

LEMMA ProcessAckStep ==
  ASSUME PipeInv, NEW e \in Ends, Process(e), Head(p.mail[e]) = Ack
  PROVE  PipeInv'
<1> DEFINE i == p.end[e].inpipe
           s == p.end[e].state
           K == Received(p.mail, e)
           N == Sent(K, Peer(e), Ack)
           Y == YpWith(p.yp, i, Deleted(p.yp[i]))
<1>1. /\ s \in {"terminated", "terminating", "double_terminated"} /\ K \in MailPairs
      /\ p' = process_pipe_term_ack(Pair(p.end, p.yp, K, p.ok), e)
  BY AckArrives
<1>2. /\ p.end \in EndPairs /\ p.end[e] \in EndRecords /\ p.yp \in Seq(YPipes) /\ i \in 1..Len(p.yp)
      /\ Holds(p.ok) /\ p.yp[i].live
  BY <1>1, Basics, InPlace
<1>3. /\ s = "terminated" => p' = Pair(EndWith(p.end, e, Acking(p.end[e], "dead")), Y, N, p.ok)
      /\ s # "terminated" => p' = Pair(EndWith(p.end, e, InState(p.end[e], "dead")), Y, K, p.ok)
  <2> HIDE DEF K
  <2> QED
    BY <1>1, <1>2, ProcessAckIs
<1>4. "dead" \in States /\ "dead" \in Silent
  BY DEF States, Silent
<1> HIDE DEF Y, N, K
<1>5. CASE s = "terminated"
  <2> DEFINE r == Acking(p.end[e], "dead")
  <2>1. r \in EndRecords /\ r.state = "dead" /\ Moved(r, p.end[e])
    BY <1>2, <1>4, AckingIs DEF Moved, None
  <2>2. p' = Pair(EndWith(p.end, e, r), Y, N, p.ok)
    BY <1>3, <1>5
  <2> HIDE DEF r
  <2> QED
    BY <1>5, <2>1, <2>2, LastAckMove DEF Y, N, K
<1>6. CASE s # "terminated"
  <2> DEFINE r == InState(p.end[e], "dead")
  <2>1. p.end[e].outpipe = None
    <3>1. s \in Silent
      BY <1>1, <1>6 DEF Silent
    <3> QED
      BY <3>1, Places, OneTwo
  <2>2. r \in EndRecords /\ r.state = "dead" /\ Moved(r, p.end[e])
    BY <1>2, <1>4, <2>1, InStateIs DEF Moved
  <2>3. p' = Pair(EndWith(p.end, e, r), Y, K, p.ok)
    BY <1>3, <1>6
  <2> HIDE DEF r
  <2> QED
    BY <1>6, <2>2, <2>3, GoneMove DEF Y, K
<1> QED
  BY <1>5, <1>6

LEMMA ProcessStep ==
  ASSUME PipeInv, NEW e \in Ends, Process(e)
  PROVE  PipeInv'
<1> DEFINE c == Head(p.mail[e])
<1>1. c \in Commands
  BY ProcessEffect
<1>2. c = Term \/ c = Ack \/ c = Wake \/ c[1] = "activate_write" \/ c[1] = "hiccup"
  <2> HIDE DEF c
  <2>1. c = Term \/ c = Ack \/ c = Wake \/ (\E n \in Nat : c = <<"activate_write", n>>)
          \/ (\E n \in Nat : c = <<"hiccup", n>>)
    BY <1>1, CommandIs
  <2> QED
    BY <2>1
<1> QED
  BY <1>2, ProcessTermStep, ProcessAckStep, WakeStep, ReportStep, ProcessHiccupStep

-----------------------------------------------------------------------------
\* An end reads, or looks whether there is something to read.
LEMMA LookStep ==
  ASSUME PipeInv, NEW e \in Ends, Owned(e), Readable(p, e), closing' = closing, partial' = partial,
         \/ p.yp[p.end[e].inpipe].queue = << >> /\ p' = GoToSleep(p, e)
         \/ /\ p.yp[p.end[e].inpipe].queue # << >> /\ Head(p.yp[p.end[e].inpipe].queue) = "delim"
            /\ p' = delimit(Pop(p, e), e)
  PROVE  PipeInv'
<1>1. /\ e \notin closing /\ p.end[e].state # "dead" /\ p.end[e].state \in {"active", "pending"}
  BY DEF Owned, Readable
<1> QED
  BY <1>1, SleepStep, DelimitedStep, DrainedStep

LEMMA ReadMsgStep ==
  ASSUME PipeInv, ReadMsg
  PROVE  PipeInv'
<1> DEFINE s == p.yp[p.end[2].inpipe].queue
<1>1. Owned(2) /\ Readable(p, 2) /\ p' = read(p, 2) /\ closing' = closing /\ partial' = partial
  BY DEF ReadMsg, Only
<1>2. CASE s = << >>
  <2>1. p' = GoToSleep(p, 2)
    BY <1>1, <1>2 DEF read, InPipe
  <2> QED
    BY <1>1, <1>2, <2>1, LookStep, OneTwo
<1>3. CASE s # << >> /\ Head(s) = "delim"
  <2>1. p' = delimit(Pop(p, 2), 2)
    BY <1>1, <1>3 DEF read, InPipe
  <2> QED
    BY <1>1, <1>3, <2>1, LookStep, OneTwo
<1>4. CASE s # << >> /\ Head(s) # "delim"
  BY <1>1, <1>4, ReadStep DEF Readable
<1> QED
  BY <1>2, <1>3, <1>4

LEMMA CheckReadStep ==
  ASSUME PipeInv, CheckRead
  PROVE  PipeInv'
<1> DEFINE s == p.yp[p.end[1].inpipe].queue
<1>1. Owned(1) /\ Readable(p, 1) /\ p' = check_read(p, 1) /\ closing' = closing /\ partial' = partial
  BY DEF CheckRead, Only
<1>2. CASE s = << >>
  <2>1. p' = GoToSleep(p, 1)
    BY <1>1, <1>2 DEF check_read, InPipe
  <2> QED
    BY <1>1, <1>2, <2>1, LookStep, OneTwo
<1>3. CASE s # << >> /\ Head(s) = "delim"
  <2>1. p' = delimit(Pop(p, 1), 1)
    BY <1>1, <1>3 DEF check_read, InPipe
  <2> QED
    BY <1>1, <1>3, <2>1, LookStep, OneTwo
<1>4. CASE s # << >> /\ Head(s) # "delim"
  <2>1. p' = p
    BY <1>1, <1>4 DEF check_read, InPipe
  <2> QED
    BY <1>1, <2>1, NothingNew, Basics
<1> QED
  BY <1>2, <1>3, <1>4

\* Every step keeps the invariant.
LEMMA EveryStep ==
  ASSUME PipeInv, [TNext]_tVars
  PROVE  PipeInv'
<1>1. CASE FlushMsgs
  BY <1>1, FlushStep
<1>2. CASE CheckRead
  BY <1>2, CheckReadStep
<1>3. CASE ReadMsg
  BY <1>3, ReadMsgStep
<1>4. ASSUME NEW e \in Ends, EndTerminate(e) PROVE PipeInv'
  BY <1>4, EndTerminateStep
<1>5. ASSUME NEW e \in Ends, Process(e) PROVE PipeInv'
  BY <1>5, ProcessStep
<1>6. ASSUME NEW x \in {"more", "last"}, WriteMsg(x) PROVE PipeInv'
  BY <1>6, WriteStep, BlockStep
<1>7. CASE RollbackMsg
  BY <1>7, RollbackStep
<1>8. CASE CallHiccup
  BY <1>8, HiccupStep
<1>9. ASSUME NEW e \in Ends, NEW d \in BOOLEAN, CallTerminate(e, d) PROVE PipeInv'
  BY <1>9, CallTerminateStep
<1>10. CASE UNCHANGED tVars
  BY <1>10, NothingNew, Basics DEF tVars
<1> QED
  BY <1>1, <1>2, <1>3, <1>4, <1>5, <1>6, <1>7, <1>8, <1>9, <1>10, OneTwo DEF TNext, Thread1, Thread2

-----------------------------------------------------------------------------
\* A pair starts with two empty ypipes and nothing on its way.
LEMMA LwmIs ==
  ASSUME NEW h \in Nat
  PROVE  compute_lwm(h) \in Nat /\ (h > 0 => compute_lwm(h) > 0 /\ compute_lwm(h) <= h)
BY PipeAssumption DEF compute_lwm

LEMMA FirstPair ==
  ASSUME NEW h \in Nat, p = PipePair(<<h, 0>>, <<TRUE, TRUE>>)
  PROVE  /\ p \in Pairs /\ p.ok
         /\ Len(p.yp) = 2 /\ p.yp[1] = NewYPipe /\ p.yp[2] = NewYPipe
         /\ p.mail[1] = << >> /\ p.mail[2] = << >>
         /\ \A e \in Ends : /\ p.end[e].state = "active" /\ p.end[e].inActive /\ p.end[e].outActive
                            /\ p.end[e].inpipe = e /\ p.end[e].outpipe = Peer(e) /\ p.end[e].delay
                            /\ p.end[e].msgsRead = 0 /\ p.end[e].msgsWritten = 0 /\ p.end[e].peersMsgsRead = 0
         /\ p.end[1].hwm = h /\ p.end[2].lwm = compute_lwm(h)
<1> DEFINE H == <<h, 0>>
           D == <<TRUE, TRUE>>
           R(e) == [state |-> "active", inActive |-> TRUE, outActive |-> TRUE,
                    inpipe |-> e, outpipe |-> Peer(e), delay |-> D[e],
                    hwm |-> H[e], lwm |-> compute_lwm(H[Peer(e)]),
                    msgsRead |-> 0, msgsWritten |-> 0, peersMsgsRead |-> 0]
           E == [e \in Ends |-> R(e)]
           Y == <<NewYPipe, NewYPipe>>
           M == [e \in Ends |-> << >>]
<1>1. p = Pair(E, Y, M, TRUE)
  BY DEF PipePair, Pair
<1>2. PICK k : k = TRUE
  OBVIOUS
<1>3. /\ compute_lwm(h) \in Nat /\ compute_lwm(0) \in Nat
      /\ H[1] = h /\ H[2] = 0
  BY LwmIs
<1>4. /\ \A e \in Ends : D[e] = TRUE
      /\ \A e \in Ends : H[e] \in Nat /\ e \in Nat /\ Peer(e) \in Nat
      /\ \A e \in Ends : compute_lwm(H[Peer(e)]) \in Nat
  <2>1. D[1] = TRUE /\ D[2] = TRUE
    OBVIOUS
  <2> HIDE DEF H, D
  <2>2. \A e \in Ends : D[e] = TRUE
    BY <2>1, OneTwo
  <2>3. H[1] \in Nat /\ H[2] \in Nat
    BY <1>3
  <2>4. \A e \in Ends : H[e] \in Nat /\ e \in Nat /\ Peer(e) \in Nat
    BY <2>3 DEF Ends, Peer
  <2>5. compute_lwm(H[1]) \in Nat /\ compute_lwm(H[2]) \in Nat
    BY <1>3
  <2> QED
    BY <2>2, <2>4, <2>5, OneTwo
<1> HIDE DEF H, D
<1>5. \A e \in Ends : R(e) \in EndRecords
  BY <1>4 DEF EndRecords, States
<1>6. E \in EndPairs
  BY <1>5 DEF EndPairs
<1>7. Y \in Seq(YPipes) /\ Len(Y) = 2 /\ Y[1] = NewYPipe /\ Y[2] = NewYPipe
  BY NewYPipeIs
<1>8. M \in MailPairs /\ M[1] = << >> /\ M[2] = << >>
  <2>1. << >> \in Seq(Commands)
    OBVIOUS
  <2> QED
    BY <2>1, OneTwo DEF MailPairs
<1>9. \A e \in Ends : E[e] = R(e)
  OBVIOUS
<1>10. \A e \in Ends : /\ E[e].state = "active" /\ E[e].inActive /\ E[e].outActive
                       /\ E[e].inpipe = e /\ E[e].outpipe = Peer(e) /\ E[e].delay
                       /\ E[e].msgsRead = 0 /\ E[e].msgsWritten = 0 /\ E[e].peersMsgsRead = 0
  BY <1>4, <1>9
<1>11. E[1].hwm = h /\ E[2].lwm = compute_lwm(h)
  BY <1>3, <1>9, OneTwo
<1> HIDE DEF E, Y, M
<1>12. p = Pair(E, Y, M, k) /\ k \in BOOLEAN
  BY <1>1, <1>2
<1>13. p.end = E /\ p.yp = Y /\ p.mail = M /\ p.ok = k
  BY <1>12, PairIs
<1>14. p \in Pairs
  BY <1>6, <1>7, <1>8, <1>12 DEF Pair, Pairs
<1>15. p.ok
  BY <1>2, <1>13
<1> QED
  BY <1>7, <1>8, <1>10, <1>11, <1>13, <1>14, <1>15

LEMMA AtFirst ==
  ASSUME TInit
  PROVE  PipeInv
<1>1. PICK h \in Nat : p = PipePair(<<h, 0>>, <<TRUE, TRUE>>)
  BY TrafficAssumption DEF TInit
<1>2. closing = {} /\ partial = FALSE
  BY DEF TInit
<1>3. /\ p \in Pairs /\ p.ok
      /\ Len(p.yp) = 2 /\ p.yp[1] = NewYPipe /\ p.yp[2] = NewYPipe
      /\ p.mail[1] = << >> /\ p.mail[2] = << >>
      /\ \A e \in Ends : /\ p.end[e].state = "active" /\ p.end[e].inActive /\ p.end[e].outActive
                         /\ p.end[e].inpipe = e /\ p.end[e].outpipe = Peer(e) /\ p.end[e].delay
                         /\ p.end[e].msgsRead = 0 /\ p.end[e].msgsWritten = 0 /\ p.end[e].peersMsgsRead = 0
      /\ p.end[1].hwm = h /\ p.end[2].lwm = compute_lwm(h)
  BY <1>1, FirstPair
<1>4. \A e \in Ends : p.mail[e] = << >>
  BY <1>3, OneTwo
<1>5. p.end[1].outpipe = 2 /\ p.end[2].outpipe = 1 /\ NextOut = 2
  BY <1>3, OneTwo DEF NextOut, None
<1>6. \A c : ~Has(<< >>, c)
  BY ItemsEmpty
<1>7. /\ NewYPipe.queue = << >> /\ NewYPipe.pending = << >> /\ NewYPipe.live
      /\ ItemsIn(NewYPipe) = << >>
  BY NewYPipeIs, ItemsIs DEF NewYPipe
<1>8. Types
  BY <1>2, <1>3 DEF Types
<1>9. Handshake
  <2>1. Control(<< >>) = "none"
    BY <1>6 DEF Control
  <2>2. Row(1) = <<"active", "none", "active", "none">>
    BY <1>3, <2>1, OneTwo DEF Row, State
  <2> QED
    BY <2>2, OneTwo DEF Handshake, Rows
<1>10. Mails
  BY <1>4 DEF Mails, MailOrder
<1>11. Pointers
  <2>1. \A e \in Ends : p.end[e].outpipe # None /\ p.end[e].state \notin Silent
    BY <1>3, <1>5, OneTwo DEF None, Silent
  <2> QED
    BY <1>3, <1>5, <2>1, OneTwo DEF Pointers, State
<1>12. HiccupChain
  BY <1>3, <1>5, OneTwo DEF HiccupChain, Chain, State
<1>13. Lives
  <2>1. \A i \in 2..2 : i = 2
    OBVIOUS
  <2> QED
    BY <1>3, <1>5, <1>7, <2>1 DEF Lives
<1>14. Fresh
  <2>1. \A i \in NextOut + 1 .. Len(p.yp) : FALSE
    BY <1>3, <1>5
  <2> QED
    BY <2>1 DEF Fresh
<1>15. Delimiters
  BY <1>3, <1>5, <1>7, ItemsEmpty DEF Delimiters
<1>16. Leaving
  BY <1>2, <1>3 DEF Leaving
<1>17. Counts
  <2>1. Messages(ItemsIn(p.yp[NextOut])) = 0
    BY <1>3, <1>5, <1>7, ItemsEmpty
  <2>2. p.end[2].msgsRead = 0 /\ p.end[1].msgsWritten = 0
    BY <1>3, OneTwo
  <2> QED
    BY <2>1, <2>2 DEF Counts
<1>18. Window
  <2>1. Rising(<< >>, 0, 0)
    BY DEF Rising
  <2>2. p.end[1].peersMsgsRead = 0 /\ p.end[2].msgsRead = 0 /\ p.end[1].msgsWritten = 0 /\ p.end[1].outActive
    BY <1>3, OneTwo
  <2> QED
    BY <1>1, <1>3, <2>1, <2>2 DEF Window
<1>19. Reports
  <2> DEFINE l == compute_lwm(h)
  <2>1. p.end[2].msgsRead = 0 /\ p.end[1].peersMsgsRead = 0 /\ p.end[2].lwm = l /\ p.end[1].hwm = h
    BY <1>3, OneTwo
  <2>2. l \in Nat
    BY LwmIs
  <2>3. l > 0 => 0 % l = 0 /\ 0 < 0 + l
    <3> HIDE DEF l
    <3> QED
      BY <2>2
  <2> HIDE DEF l
  <2>4. p.end[2].lwm = compute_lwm(p.end[1].hwm)
    BY <1>3
  <2> QED
    BY <2>1, <2>3, <2>4 DEF Reports
<1>20. Sleeping
  BY <1>3 DEF Sleeping, SleepsWell
<1>21. Delimited
  BY <1>3 DEF Delimited, IsDelimited, State
<1> QED
  BY <1>3, <1>8, <1>9, <1>10, <1>11, <1>12, <1>13, <1>14, <1>15, <1>16, <1>17, <1>18, <1>19, <1>20, <1>21 DEF PipeInv

-----------------------------------------------------------------------------
\* Theorem: the inductive invariant of a pair in use.
THEOREM PipeInvariance == TSpec => []PipeInv
<1>1. TInit => PipeInv
  BY AtFirst
<1>2. PipeInv /\ [TNext]_tVars => PipeInv'
  BY EveryStep
<1> QED
  BY <1>1, <1>2, PTL DEF TSpec

\* Theorem: no assertion of pipe.cpp fails, and an end that has not deleted itself
\* reads and writes ypipes that nobody has deleted.
THEOREM PipeStaysSound == TSpec => []PipeSound
<1>1. ASSUME PipeInv PROVE PipeSound
  <2>1. p.ok
    BY <1>1 DEF PipeInv
  <2>2. ASSUME NEW e \in Ends, p.end[e].state # "dead"
        PROVE  InPipe(p, e).live /\ (p.end[e].outpipe # None => OutPipe(p, e).live)
    <3>1. InPipe(p, e).live
      BY <1>1, <2>2, InPlace DEF InPipe
    <3>2. CASE e = 1 /\ p.end[1].outpipe # None
      <4>1. p.end[1].outpipe = NextOut /\ p.end[1].state \notin Silent /\ NextOut \in NextOut..Len(p.yp)
        BY <1>1, <3>2, Places
      <4>2. p.end[2].state # "dead"
        BY <1>1, <4>1, RowFacts, OneTwo
      <4>3. p.yp[NextOut].live
        BY <1>1, <4>1, <4>2 DEF PipeInv, Lives, State
      <4> QED
        BY <3>1, <3>2, <4>1, <4>3 DEF OutPipe
    <3>3. CASE e = 2 /\ p.end[2].outpipe # None
      <4>1. p.end[2].outpipe = 1 /\ p.end[2].state \notin Silent
        BY <1>1, <3>3, Places
      <4>2. p.end[1].state # "dead"
        BY <1>1, <4>1, RowFacts, OneTwo
      <4>3. p.yp[1].live
        BY <1>1, <4>2 DEF PipeInv, Lives, State
      <4> QED
        BY <3>1, <3>3, <4>1, <4>3 DEF OutPipe
    <3> QED
      BY <3>1, <3>2, <3>3, OneTwo
  <2> QED
    BY <2>1, <2>2 DEF PipeSound
<1> QED
  BY <1>1, PipeInvariance, PTL

\* What is waiting in the ypipe of a writer that may write, in the numbers that the
\* two ends keep.
LEMMA Waiting ==
  ASSUME PipeInv, p.end[1].state = "active"
  PROVE  LET c == Messages(ItemsIn(p.yp[NextOut]))
             W == p.end[1].msgsWritten
             P == p.end[1].peersMsgsRead
             R == p.end[2].msgsRead
         IN  /\ p.end[1].outpipe = NextOut /\ p.end[2].state # "dead"
             /\ c \in Nat /\ W \in Nat /\ P \in Nat /\ R \in Nat /\ p.end[1].hwm \in Nat
             /\ c + R <= W /\ P <= R
             /\ Len(p.yp) = 2 => c + R = W
             /\ p.end[1].hwm > 0 => W - P <= p.end[1].hwm
<1>1. p.end[1].state \notin Silent
  BY DEF Silent
<1>2. p.end[1].outpipe = NextOut /\ p.end[2].state # "dead"
  BY <1>1, Places, RowFacts, OneTwo
<1>3. Messages(ItemsIn(p.yp[NextOut])) \in Nat
  <2>1. NextOut \in 1..Len(p.yp) /\ p.yp[NextOut] \in YPipes
    BY Basics
  <2> QED
    BY <2>1, ItemsIs
<1>4. /\ p.end[1].msgsWritten \in Nat /\ p.end[1].peersMsgsRead \in Nat /\ p.end[2].msgsRead \in Nat
      /\ p.end[1].hwm \in Nat
  BY TypesAre, OneTwo DEF PipeInv
<1>5. /\ Messages(ItemsIn(p.yp[NextOut])) + p.end[2].msgsRead <= p.end[1].msgsWritten
      /\ Len(p.yp) = 2 => Messages(ItemsIn(p.yp[NextOut])) + p.end[2].msgsRead = p.end[1].msgsWritten
  BY <1>2 DEF PipeInv, Counts, State
<1>6. /\ p.end[1].peersMsgsRead <= p.end[2].msgsRead
      /\ p.end[1].hwm > 0 => p.end[1].msgsWritten - p.end[1].peersMsgsRead <= p.end[1].hwm
  BY DEF PipeInv, Window, Rising
<1> QED
  BY <1>2, <1>3, <1>4, <1>5, <1>6

\* Theorem: the high watermark bounds what is written and not read, in the current
\* ypipe of the writer, whatever the interleaving and whatever hiccups dropped.
THEOREM PipeWithinHwm == TSpec => []WithinHwm
<1>1. ASSUME PipeInv PROVE WithinHwm
  <2> SUFFICES ASSUME p.end[1].hwm > 0, p.end[1].state = "active"
               PROVE  Messages(OutPipe(p, 1).queue \o OutPipe(p, 1).pending) <= p.end[1].hwm
    BY DEF WithinHwm
  <2> DEFINE c == Messages(ItemsIn(p.yp[NextOut]))
             W == p.end[1].msgsWritten
             P == p.end[1].peersMsgsRead
             R == p.end[2].msgsRead
             H == p.end[1].hwm
  <2>1. /\ p.end[1].outpipe = NextOut
        /\ c \in Nat /\ W \in Nat /\ P \in Nat /\ R \in Nat /\ H \in Nat
        /\ c + R <= W /\ P <= R /\ W - P <= H
    BY <1>1, Waiting
  <2>2. OutPipe(p, 1).queue \o OutPipe(p, 1).pending = ItemsIn(p.yp[NextOut])
    BY <2>1 DEF OutPipe, ItemsIn
  <2>3. c <= H
    <3> HIDE DEF c, W, P, R, H
    <3> QED
      BY <2>1
  <2> QED
    BY <2>2, <2>3
<1> QED
  BY <1>1, PipeInvariance, PTL

\* A reader at rest with an empty mailbox has found its ypipe empty.
LEMMA AtRest ==
  ASSUME PipeInv, Quiet, NEW e \in Ends, p.end[e].state \in {"active", "pending"}
  PROVE  p.yp[p.end[e].inpipe].queue = << >>
<1>1. p.mail[e] = << >>
  BY DEF Quiet
<1>2. ~p.end[e].inActive
  BY OneTwo DEF Quiet, Readable
<1>3. SleepsWell(e)
  BY InPlace
<1>4. ~Has(p.mail[e], Wake)
  BY <1>1, ItemsEmpty
<1> QED
  BY <1>2, <1>3, <1>4 DEF SleepsWell, State, InPipe

\* A writer that has nothing to flush has written no complete message since.
LEMMA NothingToFlush ==
  ASSUME PipeInv, p.end[1].state = "active", flush(p, 1) = p
  PROVE  Messages(p.yp[NextOut].pending) = 0
<1> DEFINE o == NextOut
           s == p.yp[o].pending
<1>1. /\ p.yp \in Seq(YPipes) /\ o \in 1..Len(p.yp) /\ p.yp[o] \in YPipes
  BY Basics
<1>2. s \in Seq(Items)
  BY <1>1, ItemsIs
<1>3. Complete(s) = 0
  <2> SUFFICES ASSUME Complete(s) # 0 PROVE FALSE
    OBVIOUS
  <2>1. p.end[1].outpipe = o /\ p.end[1].outpipe # None /\ p.end[1].state # "terminating"
    BY Places DEF Silent
  <2> DEFINE q == [p EXCEPT !.yp[o] = Flushed(@), !.ok = @ /\ p.yp[o].live]
  <2>2. flush(p, 1) = q \/ flush(p, 1) = SendTo(q, Peer(1), Wake)
    BY <2>1 DEF flush, Wake
  <2>3. p \in Pairs
    BY DEF PipeInv, Types
  <2>4. q.yp = YpWith(p.yp, o, Flushed(p.yp[o])) /\ SendTo(q, Peer(1), Wake).yp = q.yp
    BY <2>3 DEF YpWith, SendTo, Pairs
  <2> HIDE DEF q
  <2>5. p.yp = YpWith(p.yp, o, Flushed(p.yp[o]))
    BY <2>2, <2>4
  <2>6. p.yp[o] = Flushed(p.yp[o])
    <3>1. Flushed(p.yp[o]) \in YPipes
      BY <1>1, FlushedIs
    <3>2. YpWith(p.yp, o, Flushed(p.yp[o]))[o] = Flushed(p.yp[o])
      BY <1>1, <3>1, YpWithIs
    <3> QED
      BY <2>5, <3>2
  <2>7. s = SubSeq(s, Complete(s) + 1, Len(s))
    BY <1>1, <2>6, FlushedIs
  <2>8. Complete(s) \in 1..Len(s)
    BY <1>2, CompleteIs
  <2>9. Len(SubSeq(s, Complete(s) + 1, Len(s))) = Len(s) - Complete(s)
    <3> DEFINE n == Complete(s)
    <3>1. n \in 1..Len(s)
      BY <2>8
    <3> HIDE DEF n, s
    <3>2. Len(SubSeq(s, n + 1, Len(s))) = Len(s) - n
      BY <1>2, <3>1
    <3> QED
      BY <3>2 DEF n
  <2> DEFINE n == Complete(s)
  <2>10. Len(s) = Len(s) - n /\ n \in 1..Len(s) /\ Len(s) \in Nat
    BY <1>2, <2>7, <2>8, <2>9
  <2> HIDE DEF n, s
  <2> QED
    BY <2>10
<1>4. \A i \in 1..Len(s) : s[i] = "more"
  <2>1. \A i \in 1..Len(s) : i > Complete(s) => s[i] = "more"
    BY <1>2, CompleteIs
  <2> HIDE DEF s
  <2> QED
    BY <1>3, <2>1
<1> QED
  BY <1>2, <1>4, MessagesNone

\* Theorem: no wakeup and no report is lost. At rest everything written has been
\* read, and a writer that was stopped by the window knows that it is open.
THEOREM PipeRestIsEmpty == TSpec => []RestIsEmpty
<1>1. ASSUME PipeInv PROVE RestIsEmpty
  <2> SUFFICES ASSUME Quiet, p.end[1].state = "active", p.end[2].state = "active", Hiccups = 0
               PROVE  p.end[1].outActive /\ p.end[2].msgsRead = p.end[1].msgsWritten
    BY DEF RestIsEmpty
  <2> DEFINE c == Messages(ItemsIn(p.yp[NextOut]))
             W == p.end[1].msgsWritten
             P == p.end[1].peersMsgsRead
             R == p.end[2].msgsRead
             H == p.end[1].hwm
             l == p.end[2].lwm
  <2>1. Len(p.yp) = 2 /\ NextOut = 2 /\ p.end[2].inpipe = 2 /\ p.yp[2] \in YPipes
    <3>1. NextOut \in 2..Len(p.yp) /\ Len(p.yp) \in Nat /\ p.end[2].inpipe = Len(p.yp)
      BY <1>1, Places
    <3>2. Len(p.yp) = 2
      BY <3>1 DEF Hiccups
    <3>3. 2 \in 1..Len(p.yp)
      BY <3>2
    <3> QED
      BY <1>1, <3>1, <3>2, <3>3, Basics
  <2>2. /\ c \in Nat /\ W \in Nat /\ P \in Nat /\ R \in Nat /\ H \in Nat
        /\ c + R = W /\ P <= R
    BY <1>1, <2>1, Waiting
  <2>3. c = 0
    <3>1. p.yp[2].queue = << >>
      BY <1>1, <2>1, AtRest, OneTwo
    <3>2. Messages(p.yp[2].pending) = 0
      BY <1>1, <2>1, NothingToFlush DEF Quiet
    <3>3. p.yp[2].pending \in Seq(Items)
      BY <2>1, ItemsIs
    <3>4. ItemsIn(p.yp[2]) = p.yp[2].pending
      BY <3>1, <3>3 DEF ItemsIn
    <3> QED
      BY <2>1, <3>2, <3>4
  <2>4. R = W
    <3> HIDE DEF c, R, W
    <3> QED
      BY <2>2, <2>3
  <2>5. p.end[1].outActive
    <3> SUFFICES ASSUME ~p.end[1].outActive PROVE FALSE
      OBVIOUS
    <3>1. H > 0 /\ W - P = H
      BY <1>1 DEF PipeInv, Window
    <3>2. l = compute_lwm(H) /\ (l > 0 => \E n \in Nat : R < n + l /\ (n <= P \/ Has(p.mail[1], <<"activate_write", n>>)))
      BY <1>1 DEF PipeInv, Reports
    <3>3. \A x : ~Has(p.mail[1], x)
      <4>1. p.mail[1] = << >>
        BY OneTwo DEF Quiet
      <4> QED
        BY <4>1, ItemsEmpty
    <3> HIDE DEF H, l, P, R, W
    <3>4. l \in Nat /\ l > 0 /\ l <= H
      BY <2>2, <3>1, <3>2, LwmIs
    <3>5. PICK n \in Nat : R < n + l /\ n <= P
      BY <3>2, <3>3, <3>4
    <3> QED
      BY <2>2, <2>4, <3>1, <3>4, <3>5
  <2> QED
    BY <2>4, <2>5
<1> QED
  BY <1>1, PipeInvariance, PTL

\* Theorem: once an owner has asked for it, the two ends do not come to rest before
\* both are deleted, unless a hiccup took the delimiter that one of them waits for.
THEOREM PipeHandshakeEnds == TSpec => []HandshakeEnds
<1>1. ASSUME PipeInv PROVE HandshakeEnds
  <2> SUFFICES ASSUME Quiet, NEW g \in Ends, p.end[g].state # "active"
               PROVE  \/ \A e \in Ends : p.end[e].state = "dead"
                      \/ Hiccups > 0 /\ p.end[2].state = "pending"
    BY DEF HandshakeEnds
  <2> DEFINE a == p.end[1].state
             c == p.end[2].state
  <2>1. Control(p.mail[1]) = "none" /\ Control(p.mail[2]) = "none"
    <3>1. p.mail[1] = << >> /\ p.mail[2] = << >>
      BY OneTwo DEF Quiet
    <3> QED
      BY <3>1, ItemsEmpty DEF Control
  <2>2. Shakes(a, "none", c, "none")
    BY <1>1, <2>1, SeenFrom, OneTwo
  <2>3. a # "active" \/ c # "active"
    BY OneTwo
  <2>4. \/ a = "dead" /\ c = "dead"
        \/ a = "terminated" /\ c = "pending"
        \/ a = "pending" /\ c = "terminated"
    <3> HIDE DEF a, c
    <3> QED
      BY <2>2, <2>3 DEF Shakes, Rows
  <2>5. \A x : ~Has(<< >>, x)
    BY ItemsEmpty
  <2>6. CASE a = "terminated" /\ c = "pending"
    <3>1. p.yp[p.end[2].inpipe].queue = << >>
      BY <1>1, <2>6, AtRest, OneTwo
    <3>2. Len(p.yp) # 2
      <4>1. IsDelimited(1) /\ 1 \notin closing
        BY <1>1, Basics DEF Quiet
      <4> QED
        BY <2>5, <2>6, <3>1, <4>1, OneTwo DEF IsDelimited, State, InPipe
    <3>3. Hiccups > 0
      <4> DEFINE n == Len(p.yp)
      <4>1. n \in Nat /\ n >= 2
        BY <1>1, Places
      <4>2. n # 2 /\ Hiccups = n - 2
        BY <3>2 DEF Hiccups
      <4> HIDE DEF n
      <4>3. n - 2 > 0
        BY <4>1, <4>2
      <4> QED
        BY <4>2, <4>3
    <3> QED
      BY <2>6, <3>3
  <2>7. CASE a = "pending" /\ c = "terminated"
    <3>1. p.yp[p.end[1].inpipe].queue = << >>
      BY <1>1, <2>7, AtRest, OneTwo
    <3>2. IsDelimited(2) /\ 2 \notin closing
      BY <1>1, Basics DEF Quiet
    <3> QED
      BY <2>5, <2>7, <3>1, <3>2, OneTwo DEF IsDelimited, State, InPipe
  <2> QED
    BY <2>4, <2>6, <2>7, OneTwo
<1> QED
  BY <1>1, PipeInvariance, PTL

-----------------------------------------------------------------------------
\* When end 2 acknowledges by itself, it has read the delimiter.
DrainedNow ==
  \/ p.end[2].state = "delimited"
  \/ /\ p.end[2].state = "pending" /\ p.yp[p.end[2].inpipe].queue # << >>
     /\ Head(p.yp[p.end[2].inpipe].queue) = "delim"

NoAnswer == p'.end[2].state = p.end[2].state \/ p'.end[2].state # "terminating" \/ ~p'.end[2].delay

LEMMA EndsAre ==
  ASSUME NEW E \in EndPairs, NEW e \in Ends, NEW r, NEW Y, NEW M, NEW k,
         p' = Pair(EndWith(E, e, r), Y, M, k)
  PROVE  p'.end[e] = r /\ p'.end[Peer(e)] = E[Peer(e)]
<1>1. p'.end = EndWith(E, e, r)
  BY PairIs
<1>2. EndWith(E, e, r)[e] = r /\ EndWith(E, e, r)[Peer(e)] = E[Peer(e)]
  BY PeerIs DEF EndWith, EndPairs
<1> QED
  BY <1>1, <1>2

LEMMA OneOnly ==
  ASSUME PipeInv, NEW r, NEW Y, NEW M, NEW k, p' = Pair(EndWith(p.end, 1, r), Y, M, k)
  PROVE  NoAnswer
<1>1. p'.end[2] = p.end[2]
  <2>1. p'.end[Peer(1)] = p.end[Peer(1)]
    BY Basics, EndsAre, OneTwo
  <2> QED
    BY <2>1, OneTwo
<1> QED
  BY <1>1 DEF NoAnswer

LEMMA EndsSame ==
  ASSUME NEW Y, NEW M, NEW k, p' = p \/ p' = Pair(p.end, Y, M, k)
  PROVE  NoAnswer
BY PairIs DEF NoAnswer

LEMMA FlushAnswers ==
  ASSUME PipeInv, FlushMsgs \/ RollbackMsg
  PROVE  NoAnswer
<1>1. CASE FlushMsgs
  <2>1. p' = flush(p, 1) /\ flush(p, 1) # p /\ p.end[1].state # "dead"
    BY <1>1 DEF FlushMsgs, Only, Owned
  <2>2. CASE p.yp[NextOut].asleep
    <3>1. p' = Pair(p.end, YpWith(p.yp, NextOut, Flushed(p.yp[NextOut])), Sent(p.mail, 2, Wake), p.ok)
      BY <2>1, <2>2, FlushEffect
    <3> QED
      BY <3>1, EndsSame
  <2>3. CASE ~p.yp[NextOut].asleep
    <3>1. p' = Pair(p.end, YpWith(p.yp, NextOut, Flushed(p.yp[NextOut])), p.mail, p.ok)
      BY <2>1, <2>3, FlushEffect
    <3> QED
      BY <3>1, EndsSame
  <2> QED
    BY <2>2, <2>3
<1>2. CASE RollbackMsg
  <2> DEFINE o == p.end[1].outpipe
  <2>1. p' = rollback(p, 1)
    BY <1>2 DEF RollbackMsg
  <2>2. /\ o = None => rollback(p, 1) = p
        /\ o # None => rollback(p, 1) = Pair(p.end, YpWith(p.yp, o, RolledBack(p.yp[o])), p.mail, p.ok)
    BY RollbackEffect, OneTwo
  <2> QED
    BY <2>1, <2>2, EndsSame
<1> QED
  BY <1>1, <1>2

LEMMA LookIs ==
  ASSUME PipeInv, NEW e \in Ends, p.end[e].state # "dead"
  PROVE  LET i == p.end[e].inpipe
             Y == YpWith(p.yp, i, Popped(p.yp[i]))
         IN  /\ GoToSleep(p, e) = Pair(EndWith(p.end, e, Asleep(p.end[e])), YpWith(p.yp, i, Slept(p.yp[i])), p.mail, p.ok)
             /\ p.end[e].state = "active" => delimit(Pop(p, e), e) =
                  Pair(EndWith(p.end, e, InState(p.end[e], "delimited")), Y, p.mail, p.ok)
             /\ p.end[e].state = "pending" => delimit(Pop(p, e), e) =
                  Pair(EndWith(p.end, e, Acking(p.end[e], "terminating")), Y, Sent(p.mail, Peer(e), Ack), p.ok)
<1>1. PICK E \in EndPairs, Y \in Seq(YPipes), M \in MailPairs : \E k :
        p = Pair(E, Y, M, k) /\ p.end = E /\ p.yp = Y /\ p.mail = M /\ p.ok = k /\ Holds(k)
  BY Names
<1>2. PICK k : p = Pair(E, Y, M, k) /\ p.end = E /\ p.yp = Y /\ p.mail = M /\ p.ok = k /\ Holds(k)
  BY <1>1
<1>3. E[e].inpipe \in 1..Len(Y) /\ Y[E[e].inpipe].live
  BY <1>2, InPlace
<1> DEFINE i == E[e].inpipe
<1>4. GoToSleep(Pair(E, Y, M, k), e) = Pair(EndWith(E, e, Asleep(E[e])), YpWith(Y, i, Slept(Y[i])), M, k)
  BY <1>2, <1>3, SleepIs
<1>5. /\ E[e].state = "active" => delimit(Pop(Pair(E, Y, M, k), e), e) =
           Pair(EndWith(E, e, InState(E[e], "delimited")), YpWith(Y, i, Popped(Y[i])), M, k)
      /\ E[e].state = "pending" => delimit(Pop(Pair(E, Y, M, k), e), e) =
           Pair(EndWith(E, e, Acking(E[e], "terminating")), YpWith(Y, i, Popped(Y[i])), Sent(M, Peer(e), Ack), k)
  BY <1>2, <1>3, DelimitIs
<1> QED
  BY <1>2, <1>4, <1>5

LEMMA LooksAnswer ==
  ASSUME PipeInv, NEW e \in Ends, Owned(e), Readable(p, e),
         \/ p' = GoToSleep(p, e)
         \/ /\ p.yp[p.end[e].inpipe].queue # << >> /\ Head(p.yp[p.end[e].inpipe].queue) = "delim"
            /\ p' = delimit(Pop(p, e), e)
  PROVE  NoAnswer \/ DrainedNow
<1> DEFINE i == p.end[e].inpipe
           Y == YpWith(p.yp, i, Popped(p.yp[i]))
<1>1. p.end[e].state # "dead" /\ p.end[e].state \in {"active", "pending"}
  BY DEF Owned, Readable
<1>2. p.end \in EndPairs /\ p.end[e] \in EndRecords
  BY Basics, InPlace
<1>3. PICK r, Z, M : /\ p' = Pair(EndWith(p.end, e, r), Z, M, p.ok)
                     /\ \/ r.state = p.end[e].state \/ r.state = "delimited"
                        \/ /\ p.end[e].state = "pending" /\ p.yp[i].queue # << >> /\ Head(p.yp[i].queue) = "delim"
  <2>1. CASE p' = GoToSleep(p, e)
    <3>1. p' = Pair(EndWith(p.end, e, Asleep(p.end[e])), YpWith(p.yp, i, Slept(p.yp[i])), p.mail, p.ok)
      BY <1>1, <2>1, LookIs
    <3>2. Asleep(p.end[e]).state = p.end[e].state
      BY <1>2, AsleepIs
    <3> QED
      BY <3>1, <3>2
  <2>2. CASE p' = delimit(Pop(p, e), e) /\ p.end[e].state = "active"
    <3>1. p' = Pair(EndWith(p.end, e, InState(p.end[e], "delimited")), Y, p.mail, p.ok)
      BY <1>1, <2>2, LookIs
    <3>2. InState(p.end[e], "delimited").state = "delimited"
      BY <1>2, InStateIs DEF States
    <3> QED
      BY <3>1, <3>2
  <2>3. CASE p' = delimit(Pop(p, e), e) /\ p.end[e].state = "pending" /\ p.yp[i].queue # << >> /\ Head(p.yp[i].queue) = "delim"
    <3>1. p' = Pair(EndWith(p.end, e, Acking(p.end[e], "terminating")), Y, Sent(p.mail, Peer(e), Ack), p.ok)
      BY <1>1, <2>3, LookIs
    <3> QED
      BY <2>3, <3>1
  <2> QED
    BY <1>1, <2>1, <2>2, <2>3
<1>4. CASE e = 1
  BY <1>3, <1>4, OneOnly
<1>5. CASE e = 2
  <2>1. p'.end[2] = r
    BY <1>2, <1>3, <1>5, EndsAre
  <2> QED
    BY <1>3, <1>5, <2>1 DEF NoAnswer, DrainedNow
<1> QED
  BY <1>4, <1>5, OneTwo

LEMMA TakesOne ==
  ASSUME PipeInv, p.end[2].inActive, p.end[2].state \in {"active", "pending"},
         p.yp[p.end[2].inpipe].queue # << >>, Head(p.yp[p.end[2].inpipe].queue) # "delim",
         p' = read(p, 2)
  PROVE  NoAnswer
<1>1. PICK E \in EndPairs, Y \in Seq(YPipes), M \in MailPairs : \E k :
        p = Pair(E, Y, M, k) /\ p.end = E /\ p.yp = Y /\ p.mail = M /\ p.ok = k /\ Holds(k)
  BY Names
<1>2. PICK k : p = Pair(E, Y, M, k) /\ p.end = E /\ p.yp = Y /\ p.mail = M /\ p.ok = k /\ Holds(k)
  BY <1>1
<1>3. E[2].inpipe \in 1..Len(Y) /\ Y[E[2].inpipe].live
  BY <1>2, OneTwo, InPlace
<1>4. /\ E[2].inActive /\ E[2].state \in {"active", "pending"}
      /\ Y[E[2].inpipe].queue # << >> /\ Head(Y[E[2].inpipe].queue) # "delim"
  BY <1>2
<1> DEFINE q == Pair(E, Y, M, k)
           x == Head(Y[E[2].inpipe].queue)
           w == HasRead(E[2], x)
           E1 == EndWith(E, 2, w)
           Y1 == YpWith(Y, E[2].inpipe, Popped(Y[E[2].inpipe]))
           c == <<"activate_write", w.msgsRead>>
<1>5. /\ E[2].lwm > 0 /\ w.msgsRead % E[2].lwm = 0 => read(q, 2) = Pair(E1, Y1, Sent(M, 1, c), k)
      /\ ~(E[2].lwm > 0 /\ w.msgsRead % E[2].lwm = 0) => read(q, 2) = Pair(E1, Y1, M, k)
  <2>1. Holds(k)
    BY <1>2
  <2> QED
    BY <1>3, <1>4, <2>1, ReadIs
<1>6. PICK N : p' = Pair(EndWith(E, 2, w), Y1, N, k)
  <2>1. p' = read(q, 2)
    BY <1>2
  <2> HIDE DEF w, Y1, c, q
  <2>2. read(q, 2) = Pair(E1, Y1, Sent(M, 1, c), k) \/ read(q, 2) = Pair(E1, Y1, M, k)
    BY <1>5
  <2> QED
    BY <2>1, <2>2
<1>7. w.state = E[2].state
  <2>1. E[2] \in EndRecords
    BY <1>2, Basics
  <2> HIDE DEF x
  <2> QED
    BY <2>1, HasReadIs
<1>8. p'.end[2] = w
  <2> HIDE DEF w, Y1
  <2> QED
    BY <1>6, EndsAre, OneTwo
<1> QED
  BY <1>2, <1>7, <1>8 DEF NoAnswer

LEMMA ReadAnswers ==
  ASSUME PipeInv, ReadMsg
  PROVE  NoAnswer \/ DrainedNow
<1> DEFINE s == p.yp[p.end[2].inpipe].queue
<1>1. Owned(2) /\ Readable(p, 2) /\ p' = read(p, 2)
  BY DEF ReadMsg, Only
<1>2. CASE s = << >>
  <2>1. p' = GoToSleep(p, 2)
    BY <1>1, <1>2 DEF read, InPipe
  <2> QED
    BY <1>1, <2>1, LooksAnswer, OneTwo
<1>3. CASE s # << >> /\ Head(s) = "delim"
  <2>1. p' = delimit(Pop(p, 2), 2)
    BY <1>1, <1>3 DEF read, InPipe
  <2> QED
    BY <1>1, <1>3, <2>1, LooksAnswer, OneTwo
<1>4. CASE s # << >> /\ Head(s) # "delim"
  BY <1>1, <1>4, TakesOne DEF Readable
<1> QED
  BY <1>2, <1>3, <1>4

LEMMA CheckReadAnswers ==
  ASSUME PipeInv, CheckRead
  PROVE  NoAnswer \/ DrainedNow
<1> DEFINE s == p.yp[p.end[1].inpipe].queue
<1>1. Owned(1) /\ Readable(p, 1) /\ p' = check_read(p, 1)
  BY DEF CheckRead, Only
<1>2. CASE s = << >>
  <2>1. p' = GoToSleep(p, 1)
    BY <1>1, <1>2 DEF check_read, InPipe
  <2> QED
    BY <1>1, <2>1, LooksAnswer, OneTwo
<1>3. CASE s # << >> /\ Head(s) = "delim"
  <2>1. p' = delimit(Pop(p, 1), 1)
    BY <1>1, <1>3 DEF check_read, InPipe
  <2> QED
    BY <1>1, <1>3, <2>1, LooksAnswer, OneTwo
<1>4. CASE s # << >> /\ Head(s) # "delim"
  <2>1. p' = p
    BY <1>1, <1>4 DEF check_read, InPipe
  <2> QED
    BY <2>1 DEF NoAnswer
<1> QED
  BY <1>2, <1>3, <1>4

LEMMA WriteAnswers ==
  ASSUME PipeInv, NEW x \in {"more", "last"}, WriteMsg(x)
  PROVE  NoAnswer
<1>1. CASE Full(p.end[1])
  <2>1. p' = Pair(EndWith(p.end, 1, Blocked(p.end[1])), p.yp, p.mail, p.ok)
    BY <1>1, WriteEffect
  <2> QED
    BY <2>1, OneOnly
<1>2. CASE ~Full(p.end[1])
  <2>1. p' = Pair(EndWith(p.end, 1, HasWritten(p.end[1], x)),
                  YpWith(p.yp, NextOut, Written(p.yp[NextOut], x)), p.mail, p.ok)
    BY <1>2, WriteEffect
  <2> QED
    BY <2>1, OneOnly
<1> QED
  BY <1>1, <1>2

LEMMA HiccupAnswers ==
  ASSUME PipeInv, CallHiccup
  PROVE  NoAnswer
<1> DEFINE new == Len(p.yp) + 1
           w == Inbound(p.end[2], new)
           r == Awake(w)
<1>1. /\ p.end[2].state = "active"
      /\ p' = Pair(EndWith(p.end, 2, r), Append(p.yp, NewYPipe), Sent(p.mail, 1, <<"hiccup", new>>), p.ok)
  BY HiccupEffect
<1>2. p.end \in EndPairs /\ p.end[2] \in EndRecords /\ new \in Nat
  BY Basics, Places
<1>3. w \in EndRecords /\ w.state = p.end[2].state
  <2> HIDE DEF new
  <2> QED
    BY <1>2, InboundIs
<1>4. r.state = p.end[2].state
  <2> HIDE DEF w
  <2> QED
    BY <1>3, AwakeIs
<1> HIDE DEF r, new
<1>5. p'.end[2] = r
  BY <1>1, <1>2, EndsAre, OneTwo
<1> QED
  BY <1>4, <1>5 DEF NoAnswer

LEMMA CallAnswers ==
  ASSUME PipeInv, NEW e \in Ends, NEW d \in BOOLEAN, CallTerminate(e, d)
  PROVE  NoAnswer
<1> DEFINE w == Delaying(p.end[e], d)
           Y == YpWith(p.yp, p.end[e].inpipe, p.yp[p.end[e].inpipe])
<1>1. /\ p' = TerminateBegin(p, e, d) /\ p.end[e].state \in {"active", "delimited", "pending"}
  BY DEF CallTerminate, TerminateGoesOn
<1>2. p.end \in EndPairs /\ p.end[e] \in EndRecords
  BY Basics, InPlace
<1>3. w \in EndRecords /\ w.state = p.end[e].state /\ w.delay = d
  BY <1>2, DelayingIs
<1>4. /\ p.end[e].state \in {"active", "delimited"} =>
           p' = Pair(EndWith(p.end, e, InState(w, "terminated")), Y, Sent(p.mail, Peer(e), Term), p.ok)
      /\ p.end[e].state = "pending" /\ ~d =>
           p' = Pair(EndWith(p.end, e, Acking(w, "terminating")), Y, Sent(p.mail, Peer(e), Ack), p.ok)
      /\ p.end[e].state = "pending" /\ d => p' = Pair(EndWith(p.end, e, w), Y, p.mail, p.ok)
  BY <1>1, TerminateEffect
<1> HIDE DEF w, Y
<1>5. InState(w, "terminated").state = "terminated" /\ Acking(w, "terminating").delay = w.delay
  BY <1>3, InStateIs, AckingIs DEF States
<1>6. CASE p.end[e].state \in {"active", "delimited"}
  <2>1. p'.end[e] = InState(w, "terminated") /\ p'.end[Peer(e)] = p.end[Peer(e)]
    BY <1>2, <1>4, <1>6, EndsAre
  <2> QED
    BY <1>5, <2>1, OneTwo DEF NoAnswer
<1>7. CASE p.end[e].state = "pending" /\ ~d
  <2>1. p'.end[e] = Acking(w, "terminating") /\ p'.end[Peer(e)] = p.end[Peer(e)]
    BY <1>2, <1>4, <1>7, EndsAre
  <2>2. ~p'.end[e].delay
    BY <1>3, <1>5, <1>7, <2>1
  <2> QED
    BY <2>1, <2>2, OneTwo DEF NoAnswer
<1>8. CASE p.end[e].state = "pending" /\ d
  <2>1. p'.end[e] = w /\ p'.end[Peer(e)] = p.end[Peer(e)]
    BY <1>2, <1>4, <1>8, EndsAre
  <2> QED
    BY <1>3, <2>1, OneTwo DEF NoAnswer
<1> QED
  BY <1>1, <1>6, <1>7, <1>8

LEMMA ReturnAnswers ==
  ASSUME PipeInv, NEW e \in Ends, EndTerminate(e)
  PROVE  NoAnswer
<1> DEFINE r == Blocked(p.end[e])
           o == p.end[e].outpipe
<1>1. p.end \in EndPairs /\ p.end[e] \in EndRecords
  BY Basics, InPlace
<1>2. r.state = p.end[e].state
  BY <1>1, BlockedIs
<1>3. p' = TerminateEnd(p, e)
  BY DEF EndTerminate
<1>4. PICK Y, N : p' = Pair(EndWith(p.end, e, r), Y, N, p.ok)
  <2>1. CASE o = None
    <3>1. p' = Pair(EndWith(p.end, e, r), p.yp, p.mail, p.ok)
      BY <1>3, <2>1, TerminateEndEffect
    <3> QED
      BY <3>1
  <2>2. CASE o # None
    <3>1. \E N \in MailPairs : p' = Pair(EndWith(p.end, e, r), YpWith(p.yp, o, Closed(p.yp[o])), N, p.ok)
      BY <1>3, <2>2, TerminateEndEffect
    <3> QED
      BY <3>1
  <2> QED
    BY <2>1, <2>2
<1> HIDE DEF r
<1>5. p'.end[e] = r /\ p'.end[Peer(e)] = p.end[Peer(e)]
  BY <1>1, <1>4, EndsAre
<1> QED
  BY <1>2, <1>5, OneTwo DEF NoAnswer

\* What an end becomes when it processes a command.
LEMMA ProcessEnd ==
  ASSUME PipeInv, NEW e \in Ends, Process(e)
  PROVE  \E r, Y, N :
           /\ p' = Pair(EndWith(p.end, e, r), Y, N, p.ok)
           /\ \/ r.state = p.end[e].state
              \/ r.state \in {"pending", "double_terminated", "dead"}
              \/ p.end[e].state = "delimited"
<1> DEFINE a == p.end[e]
           c == Head(p.mail[e])
           K == Received(p.mail, e)
           q == Pair(p.end, p.yp, K, p.ok)
<1>1. p.end \in EndPairs /\ a \in EndRecords /\ p.yp \in Seq(YPipes) /\ p.mail \in MailPairs
  BY Basics, InPlace
<1>2. p.mail[e] # << >> /\ c \in Commands
  BY ProcessEffect
<1>3. EndWith(p.end, e, a) = p.end
  BY <1>1, Idle
<1>4. /\ c = Wake => p' = process_activate_read(q, e)
      /\ c[1] = "activate_write" => p' = process_activate_write(q, e, c[2])
  BY ProcessEffect
<1>5. CASE c = Wake
  <2>1. /\ a.state \in {"active", "pending"} => p' = Pair(EndWith(p.end, e, Awake(a)), p.yp, K, p.ok)
        /\ a.state \notin {"active", "pending"} => p' = Pair(p.end, p.yp, K, p.ok)
    <3> HIDE DEF K
    <3> QED
      BY <1>1, <1>4, <1>5, ActivateReadIs
  <2>2. Awake(a).state = a.state
    BY <1>1, AwakeIs
  <2> HIDE DEF K
  <2>3. CASE a.state \in {"active", "pending"}
    <3>1. p' = Pair(EndWith(p.end, e, Awake(a)), p.yp, K, p.ok)
      BY <2>1, <2>3
    <3> QED
      BY <2>2, <3>1
  <2>4. CASE a.state \notin {"active", "pending"}
    <3>1. p' = Pair(EndWith(p.end, e, a), p.yp, K, p.ok)
      BY <1>3, <2>1, <2>4
    <3> QED
      BY <3>1
  <2> QED
    BY <2>3, <2>4
<1>6. CASE c[1] = "activate_write"
  <2> DEFINE n == c[2]
             w == Reported(a, n)
  <2>1. n \in Nat
    BY <1>2, <1>6, CommandIs
  <2> HIDE DEF n
  <2>2. w \in EndRecords /\ w.state = a.state
    BY <1>1, <2>1, ReportedIs
  <2>3. /\ a.state = "active" => p' = Pair(EndWith(p.end, e, Open(w)), p.yp, K, p.ok)
        /\ a.state # "active" => p' = Pair(EndWith(p.end, e, w), p.yp, K, p.ok)
    <3>1. p' = process_activate_write(q, e, n)
      BY <1>4, <1>6 DEF n
    <3> HIDE DEF K
    <3> QED
      BY <1>1, <3>1, ActivateWriteIs
  <2> HIDE DEF w, K
  <2>4. Open(w).state = a.state
    BY <2>2, OpenIs
  <2>5. CASE a.state = "active"
    <3>1. p' = Pair(EndWith(p.end, e, Open(w)), p.yp, K, p.ok)
      BY <2>3, <2>5
    <3> QED
      BY <2>4, <3>1
  <2>6. CASE a.state # "active"
    <3>1. p' = Pair(EndWith(p.end, e, w), p.yp, K, p.ok)
      BY <2>3, <2>6
    <3> QED
      BY <2>2, <3>1
  <2> QED
    BY <2>5, <2>6
<1>7. CASE c[1] = "hiccup"
  <2> DEFINE w == Outbound(p.end[1], NextOut + 1)
  <2>1. e = 1 /\ p' = Pair(EndWith(p.end, 1, Open(w)), YpWith(p.yp, NextOut, Dropped(p.yp[NextOut])), K, p.ok)
    BY <1>7, HiccupArrives
  <2>2. NextOut + 1 \in Nat
    BY Places
  <2>3. w \in EndRecords /\ w.state = a.state
    <3> DEFINE n == NextOut + 1
    <3> HIDE DEF n
    <3> QED
      BY <1>1, <2>1, <2>2, OutboundIs DEF n
  <2>4. Open(w).state = a.state
    <3> HIDE DEF w
    <3> QED
      BY <2>3, OpenIs
  <2> HIDE DEF w, K
  <2>5. p' = Pair(EndWith(p.end, e, Open(w)), YpWith(p.yp, NextOut, Dropped(p.yp[NextOut])), K, p.ok)
    BY <2>1
  <2> QED
    BY <2>4, <2>5
<1>8. CASE c = Term
  <2>1. /\ a.state \in {"active", "delimited", "terminated"} /\ K \in MailPairs
        /\ p' = process_pipe_term(q, e)
    BY <1>8, TermArrives
  <2>2. a.state = "active" => a.delay
    BY DEF PipeInv, Leaving, State
  <2>3. /\ InState(a, "pending").state = "pending" /\ Acking(a, "double_terminated").state = "double_terminated"
    BY <1>1, InStateIs, AckingIs DEF States, Silent
  <2> HIDE DEF K
  <2>4. CASE a.state = "active"
    <3>1. p' = Pair(EndWith(p.end, e, InState(a, "pending")), p.yp, K, p.ok)
      BY <1>1, <2>1, <2>2, <2>4, ProcessTermIs
    <3> QED
      BY <2>3, <3>1
  <2>5. CASE a.state = "delimited"
    <3>1. p' = Pair(EndWith(p.end, e, Acking(a, "terminating")), p.yp, Sent(K, Peer(e), Ack), p.ok)
      BY <1>1, <2>1, <2>5, ProcessTermIs
    <3> QED
      BY <2>5, <3>1
  <2>6. CASE a.state = "terminated"
    <3>1. p' = Pair(EndWith(p.end, e, Acking(a, "double_terminated")), p.yp, Sent(K, Peer(e), Ack), p.ok)
      BY <1>1, <2>1, <2>6, ProcessTermIs
    <3> QED
      BY <2>3, <3>1
  <2> QED
    BY <2>1, <2>4, <2>5, <2>6
<1>9. CASE c = Ack
  <2> DEFINE i == a.inpipe
             Y == YpWith(p.yp, i, Deleted(p.yp[i]))
  <2>1. /\ a.state \in {"terminated", "terminating", "double_terminated"} /\ K \in MailPairs
        /\ p' = process_pipe_term_ack(q, e)
    BY <1>9, AckArrives
  <2>2. i \in 1..Len(p.yp) /\ Holds(p.ok) /\ p.yp[i].live
    BY <2>1, Basics, InPlace
  <2>3. /\ a.state = "terminated" => p' = Pair(EndWith(p.end, e, Acking(a, "dead")), Y, Sent(K, Peer(e), Ack), p.ok)
        /\ a.state # "terminated" => p' = Pair(EndWith(p.end, e, InState(a, "dead")), Y, K, p.ok)
    <3> HIDE DEF K
    <3> QED
      BY <1>1, <2>1, <2>2, ProcessAckIs
  <2>4. Acking(a, "dead").state = "dead" /\ InState(a, "dead").state = "dead"
    BY <1>1, InStateIs, AckingIs DEF States, Silent
  <2> HIDE DEF K, Y
  <2>5. CASE a.state = "terminated"
    <3>1. p' = Pair(EndWith(p.end, e, Acking(a, "dead")), Y, Sent(K, Peer(e), Ack), p.ok)
      BY <2>3, <2>5
    <3> QED
      BY <2>4, <3>1
  <2>6. CASE a.state # "terminated"
    <3>1. p' = Pair(EndWith(p.end, e, InState(a, "dead")), Y, K, p.ok)
      BY <2>3, <2>6
    <3> QED
      BY <2>4, <3>1
  <2> QED
    BY <2>5, <2>6
<1>10. c = Term \/ c = Ack \/ c = Wake \/ c[1] = "activate_write" \/ c[1] = "hiccup"
  <2> HIDE DEF c
  <2>1. c = Term \/ c = Ack \/ c = Wake \/ (\E n \in Nat : c = <<"activate_write", n>>)
          \/ (\E n \in Nat : c = <<"hiccup", n>>)
    BY <1>2, CommandIs
  <2> QED
    BY <2>1
<1> QED
  BY <1>5, <1>6, <1>7, <1>8, <1>9, <1>10

LEMMA ProcessAnswers ==
  ASSUME PipeInv, NEW e \in Ends, Process(e)
  PROVE  NoAnswer \/ DrainedNow
<1>1. PICK r, Y, N :
        /\ p' = Pair(EndWith(p.end, e, r), Y, N, p.ok)
        /\ \/ r.state = p.end[e].state
           \/ r.state \in {"pending", "double_terminated", "dead"}
           \/ p.end[e].state = "delimited"
  BY ProcessEnd
<1>2. p'.end[e] = r /\ p'.end[Peer(e)] = p.end[Peer(e)]
  BY <1>1, Basics, EndsAre
<1>3. CASE e = 1
  BY <1>2, <1>3, OneTwo DEF NoAnswer
<1>4. CASE e = 2
  BY <1>1, <1>2, <1>4 DEF NoAnswer, DrainedNow
<1> QED
  BY <1>3, <1>4, OneTwo

LEMMA EveryAnswer ==
  ASSUME PipeInv, [TNext]_tVars
  PROVE  NoAnswer \/ DrainedNow
<1>1. CASE FlushMsgs \/ RollbackMsg
  BY <1>1, FlushAnswers
<1>2. CASE CheckRead
  BY <1>2, CheckReadAnswers
<1>3. CASE ReadMsg
  BY <1>3, ReadAnswers
<1>4. ASSUME NEW e \in Ends, EndTerminate(e) PROVE NoAnswer
  BY <1>4, ReturnAnswers
<1>5. ASSUME NEW e \in Ends, Process(e) PROVE NoAnswer \/ DrainedNow
  BY <1>5, ProcessAnswers
<1>6. ASSUME NEW x \in {"more", "last"}, WriteMsg(x) PROVE NoAnswer
  BY <1>6, WriteAnswers
<1>7. CASE CallHiccup
  BY <1>7, HiccupAnswers
<1>8. ASSUME NEW e \in Ends, NEW d \in BOOLEAN, CallTerminate(e, d) PROVE NoAnswer
  BY <1>8, CallAnswers
<1>9. CASE UNCHANGED tVars
  BY <1>9 DEF tVars, NoAnswer
<1> QED
  BY <1>1, <1>2, <1>3, <1>4, <1>5, <1>6, <1>7, <1>8, <1>9, OneTwo DEF TNext, Thread1, Thread2

\* Theorem: an end that is to wait for what is pending acknowledges the termination
\* of the other only when it has read every message that the other wrote.
THEOREM PipeAllReadBeforeAck == TSpec => AllReadBeforeAck
<1> DEFINE A == p.end[2].state # "terminating" /\ p'.end[2].state = "terminating"
                  /\ p'.end[2].delay /\ Hiccups = 0
                => p.end[2].msgsRead = p.end[1].msgsWritten
<1>1. ASSUME PipeInv, [TNext]_tVars PROVE A
  <2> SUFFICES ASSUME p.end[2].state # "terminating", p'.end[2].state = "terminating",
                      p'.end[2].delay, Hiccups = 0
               PROVE  p.end[2].msgsRead = p.end[1].msgsWritten
    OBVIOUS
  <2> DEFINE c == Messages(ItemsIn(p.yp[NextOut]))
             W == p.end[1].msgsWritten
             R == p.end[2].msgsRead
  <2>1. DrainedNow
    BY <1>1, EveryAnswer DEF NoAnswer
  <2>2. Len(p.yp) = 2
    <3> DEFINE n == Len(p.yp)
    <3>1. n \in Nat /\ n - 2 = 0
      BY <1>1, Places DEF Hiccups
    <3> HIDE DEF n
    <3>2. n = 2
      BY <3>1
    <3> QED
      BY <3>2 DEF n
  <2>3. p.end[2].state # "dead"
    BY <2>1 DEF DrainedNow
  <2>4. c + R = W /\ (p.end[2].state = "delimited" => c = 0)
    BY <1>1, <2>2, <2>3 DEF PipeInv, Counts, State
  <2>5. c = 0
    <3>1. CASE p.end[2].state = "delimited"
      BY <2>4, <3>1
    <3>2. CASE p.end[2].state # "delimited"
      <4> DEFINE i == p.end[2].inpipe
      <4>1. p.yp[i].queue # << >> /\ Head(p.yp[i].queue) = "delim"
        BY <2>1, <3>2 DEF DrainedNow
      <4>2. i = NextOut /\ i \in 1..Len(p.yp) /\ p.yp[i] \in YPipes
        BY <1>1, <4>1, ReadsOut, InPlace, OneTwo
      <4>3. Messages(ItemsIn(Popped(p.yp[i]))) = 0
        BY <1>1, <2>3, <4>1, DelimSeen, OneTwo
      <4>4. Consumed("terminating", Popped(p.yp[i]), p.yp[i])
        BY <4>1 DEF Consumed
      <4>5. Messages(ItemsIn(Popped(p.yp[i]))) = Messages(ItemsIn(p.yp[i]))
        BY <4>2, <4>4, ConsumedIs
      <4> QED
        BY <4>2, <4>3, <4>5
    <3> QED
      BY <3>1, <3>2
  <2>6. R \in Nat /\ W \in Nat
    BY <1>1, TypesAre, OneTwo DEF PipeInv
  <2> HIDE DEF c, R, W
  <2>7. R = W
    BY <2>4, <2>5, <2>6
  <2> QED
    BY <2>7 DEF R, W
<1>2. PipeInv /\ [TNext]_tVars => [A]_tVars
  BY <1>1
<1>3. TSpec => [][A]_tVars
  BY <1>2, PipeInvariance, PTL DEF TSpec
<1> QED
  BY <1>3 DEF AllReadBeforeAck
=============================================================================

---------------------------- MODULE RRBrokerProofs ----------------------------
(***************************************************************************)
(* Theorems about the broker, for any number of clients and compressors,   *)
(* any identities and any limits. First what the lists of pipes keep, then *)
(* the ROUTER's table, then the messages on their way to the compressors:  *)
(* that they go whole, that they go once, and that they keep going.        *)
(***************************************************************************)
EXTENDS RRBroker, SequenceTheorems, WellFoundedInduction, TLAPS

\* A list of pipes out of S: no pipe is in it twice, the active ones are in
\* front, and the current one is active if any is.
Lists(S) ==
  {l \in [pipes : Seq(S), active : Nat, cur : Nat, more : BOOLEAN, dropping : BOOLEAN] :
     /\ l.active <= Len(l.pipes)
     /\ 1 <= l.cur /\ (l.cur <= l.active \/ (l.active = 0 /\ l.cur = 1))
     /\ \A i, j \in 1..Len(l.pipes) : l.pipes[i] = l.pipes[j] => i = j}

Current(l) == l.pipes[l.cur]

-----------------------------------------------------------------------------
\* A set of natural numbers has a smallest one.
LEMMA Smallest ==
  ASSUME NEW T, T \subseteq Nat, T # {}
  PROVE  \E x \in T : \A y \in T : x <= y
<1> DEFINE R == OpToRel(<, Nat)
<1>1. \E x \in T : \A y \in T : ~(<<y, x>> \in R)
  <2> HIDE DEF R
  <2>1. IsWellFoundedOn(R, Nat)
    BY NatLessThanWellFounded DEF R
  <2> QED
    BY <2>1, WFMin
<1>2. PICK x \in T : \A y \in T : ~(<<y, x>> \in R)
  BY <1>1
<1>3. ASSUME NEW y \in T PROVE x <= y
  <2>1. ~(<<y, x>> \in R) /\ x \in Nat /\ y \in Nat
    BY <1>2
  <2>2. y < x => <<y, x>> \in R
    BY <2>1 DEF OpToRel
  <2> HIDE DEF R
  <2> QED
    BY <2>1, <2>2
<1> QED
  BY <1>3

LEMMA SwapKeeps ==
  ASSUME NEW S, NEW s \in Seq(S), NEW i \in 1..Len(s), NEW j \in 1..Len(s)
  PROVE  /\ Swap(s, i, j) \in Seq(S)
         /\ Len(Swap(s, i, j)) = Len(s)
         /\ DOMAIN Swap(s, i, j) = 1..Len(s)
         /\ Swap(s, i, j)[i] = s[j] /\ Swap(s, i, j)[j] = s[i]
         /\ \A k \in 1..Len(s) : k # i /\ k # j => Swap(s, i, j)[k] = s[k]
         /\ ToSet(Swap(s, i, j)) = ToSet(s)
<1>1. Swap(s, i, j) \in Seq(S) /\ Len(Swap(s, i, j)) = Len(s) /\ DOMAIN Swap(s, i, j) = 1..Len(s)
  BY DEF Swap
<1>2. Swap(s, i, j)[i] = s[j] /\ Swap(s, i, j)[j] = s[i]
  BY DEF Swap
<1>3. \A k \in 1..Len(s) : k # i /\ k # j => Swap(s, i, j)[k] = s[k]
  BY DEF Swap
<1>4. DOMAIN s = 1..Len(s)
  OBVIOUS
<1>5. ToSet(Swap(s, i, j)) = ToSet(s)
  <2>1. \A k \in 1..Len(s) : \E m \in 1..Len(s) : Swap(s, i, j)[k] = s[m]
    BY <1>2, <1>3
  <2>2. \A k \in 1..Len(s) : \E m \in 1..Len(s) : s[k] = Swap(s, i, j)[m]
    BY <1>2, <1>3
  <2> DEFINE t == Swap(s, i, j)
  <2>3. DOMAIN t = 1..Len(s) /\ DOMAIN s = 1..Len(s)
    BY <1>1, <1>4
  <2> HIDE DEF t
  <2>4. ToSet(t) \subseteq ToSet(s)
    <3> SUFFICES ASSUME NEW k \in 1..Len(s) PROVE t[k] \in ToSet(s)
      BY <2>3 DEF ToSet
    <3> PICK m \in 1..Len(s) : t[k] = s[m]
      BY <2>1 DEF t
    <3> QED
      BY <2>3 DEF ToSet
  <2>5. ToSet(s) \subseteq ToSet(t)
    <3> SUFFICES ASSUME NEW k \in 1..Len(s) PROVE s[k] \in ToSet(t)
      BY <2>3 DEF ToSet
    <3> PICK m \in 1..Len(s) : s[k] = t[m]
      BY <2>2 DEF t
    <3> QED
      BY <2>3 DEF ToSet
  <2> QED
    BY <2>4, <2>5 DEF t
<1> QED
  BY <1>1, <1>2, <1>3, <1>5

LEMMA EraseLast ==
  ASSUME NEW S, NEW s \in Seq(S), NEW i \in 1..Len(s)
  PROVE  /\ Erase(s, i) \in Seq(S)
         /\ Len(Erase(s, i)) = Len(s) - 1
         /\ DOMAIN Erase(s, i) = 1..Len(s) - 1
         /\ \A k \in 1..Len(s) - 1 : Erase(s, i)[k] = IF k = i THEN s[Len(s)] ELSE s[k]
<1> DEFINE t == [s EXCEPT ![i] = s[Len(s)]]
<1>1. Len(s) \in Nat /\ Len(s) >= 1
  OBVIOUS
<1>2. t \in Seq(S) /\ Len(t) = Len(s) /\ \A k \in 1..Len(s) : t[k] = IF k = i THEN s[Len(s)] ELSE s[k]
  OBVIOUS
<1>3. Erase(s, i) = SubSeq(t, 1, Len(t) - 1)
  BY DEF Erase, Front, Last
<1> HIDE DEF t
<1> QED
  BY <1>1, <1>2, <1>3

LEMMA InToSet ==
  ASSUME NEW S, NEW s \in Seq(S), NEW x
  PROVE  x \in ToSet(s) <=> \E i \in 1..Len(s) : s[i] = x
BY DEF ToSet

LEMMA SwapOnce ==
  ASSUME NEW S, NEW s \in Seq(S), NEW i \in 1..Len(s), NEW j \in 1..Len(s),
         \A a, b \in 1..Len(s) : s[a] = s[b] => a = b
  PROVE  \A a, b \in 1..Len(s) : Swap(s, i, j)[a] = Swap(s, i, j)[b] => a = b
<1> DEFINE t == Swap(s, i, j)
           was == [k \in 1..Len(s) |-> IF k = i THEN j ELSE IF k = j THEN i ELSE k]
<1>1. \A k \in 1..Len(s) : was[k] \in 1..Len(s) /\ t[k] = s[was[k]]
  <2>1. /\ t[i] = s[j] /\ t[j] = s[i]
        /\ \A k \in 1..Len(s) : k # i /\ k # j => t[k] = s[k]
    BY SwapKeeps
  <2> HIDE DEF t
  <2> QED
    BY <2>1
<1>2. \A a, b \in 1..Len(s) : was[a] = was[b] => a = b
  OBVIOUS
<1> HIDE DEF t, was
<1>3. ASSUME NEW a \in 1..Len(s), NEW b \in 1..Len(s), t[a] = t[b] PROVE a = b
  <2>1. /\ was[a] \in 1..Len(s) /\ was[b] \in 1..Len(s)
        /\ t[a] = s[was[a]] /\ t[b] = s[was[b]]
    BY <1>1
  <2>2. was[a] = was[b]
    BY <1>3, <2>1
  <2> QED
    BY <1>2, <2>2
<1> QED
  BY <1>3 DEF t

LEMMA PositionOf ==
  ASSUME NEW S, NEW l \in Lists(S), NEW i \in 1..Len(l.pipes)
  PROVE  Position(l, l.pipes[i]) = i
<1>1. DOMAIN l.pipes = 1..Len(l.pipes)
  BY DEF Lists
<1>2. \A j \in 1..Len(l.pipes) : l.pipes[j] = l.pipes[i] => j = i
  BY DEF Lists
<1> QED
  BY <1>1, <1>2 DEF Position

\* The members of a list and what it is to be one of Lists(S).
LEMMA ListFacts ==
  ASSUME NEW S, NEW l \in Lists(S)
  PROVE  /\ l = [pipes |-> l.pipes, active |-> l.active, cur |-> l.cur, more |-> l.more,
                 dropping |-> l.dropping]
         /\ l.pipes \in Seq(S) /\ Len(l.pipes) \in Nat /\ l.active \in Nat /\ l.cur \in Nat
         /\ l.more \in BOOLEAN /\ l.dropping \in BOOLEAN
         /\ l.active <= Len(l.pipes) /\ 1 <= l.cur
         /\ l.active > 0 => l.cur <= l.active
         /\ l.active = 0 => l.cur = 1
         /\ \A i, j \in 1..Len(l.pipes) : l.pipes[i] = l.pipes[j] => i = j
BY DEF Lists

LEMMA ListParts ==
  ASSUME NEW S, NEW l \in Lists(S)
  PROVE  \E s \in Seq(S), a \in Nat, c \in Nat, m \in BOOLEAN, d \in BOOLEAN :
           /\ l = [pipes |-> s, active |-> a, cur |-> c, more |-> m, dropping |-> d]
           /\ a <= Len(s) /\ 1 <= c /\ (c <= a \/ (a = 0 /\ c = 1))
           /\ \A i, j \in 1..Len(s) : s[i] = s[j] => i = j
BY DEF Lists

\* A pipe that is deactivated goes behind the active ones, and the list has
\* the same pipes. Of two active pipes the other one stays current.
LEMMA DeactivateKeeps ==
  ASSUME NEW S, NEW l \in Lists(S), NEW i \in 1..l.active
  PROVE  /\ Deactivate(l, i) \in Lists(S)
         /\ Len(Deactivate(l, i).pipes) = Len(l.pipes)
         /\ ToSet(Deactivate(l, i).pipes) = ToSet(l.pipes)
         /\ Deactivate(l, i).active = l.active - 1
         /\ Deactivate(l, i).more = l.more /\ Deactivate(l, i).dropping = l.dropping
         /\ Deactivate(l, i).pipes[l.active] = l.pipes[i]
         /\ i # l.cur /\ l.active <= 2 =>
              Deactivate(l, i).active > 0 /\ Current(Deactivate(l, i)) = Current(l)
         /\ \A y : IsActive(l, y) /\ y # l.pipes[i] => IsActive(Deactivate(l, i), y)
<1>1. PICK s \in Seq(S), a \in Nat, c \in Nat, m \in BOOLEAN, d \in BOOLEAN :
        /\ l = [pipes |-> s, active |-> a, cur |-> c, more |-> m, dropping |-> d]
        /\ a <= Len(s) /\ 1 <= c /\ (c <= a \/ (a = 0 /\ c = 1))
        /\ \A j, k \in 1..Len(s) : s[j] = s[k] => j = k
  BY ListParts
<1> DEFINE t == Swap(s, i, a)
           e == IF c = a THEN 1 ELSE c
<1>2. i \in 1..a /\ i \in 1..Len(s) /\ a \in 1..Len(s) /\ a - 1 \in Nat /\ a > 0
  BY <1>1
<1>3. Deactivate(l, i) = [pipes |-> t, active |-> a - 1, cur |-> e, more |-> m, dropping |-> d]
  <2>1. l = [pipes |-> s, active |-> a, cur |-> c, more |-> m, dropping |-> d]
    BY <1>1
  <2>2. l.pipes = s /\ l.active = a /\ l.cur = c
    BY <2>1
  <2>3. Deactivate(l, i) = [l EXCEPT !.pipes = t, !.active = a - 1, !.cur = e]
    BY <2>2 DEF Deactivate
  <2> HIDE DEF t, e
  <2> QED
    BY <2>1, <2>3
<1>4. /\ t \in Seq(S) /\ Len(t) = Len(s) /\ ToSet(t) = ToSet(s)
      /\ t[i] = s[a] /\ t[a] = s[i]
      /\ \A k \in 1..Len(s) : k # i /\ k # a => t[k] = s[k]
  BY <1>2, SwapKeeps
<1>5. \A j, k \in 1..Len(s) : t[j] = t[k] => j = k
  BY <1>1, <1>2, SwapOnce
<1> HIDE DEF t
<1>6. Deactivate(l, i) \in Lists(S)
  <2>1. e \in Nat /\ 1 <= e /\ (e <= a - 1 \/ (a - 1 = 0 /\ e = 1)) /\ a - 1 <= Len(t)
    BY <1>1, <1>2, <1>4
  <2> HIDE DEF e
  <2> QED
    BY <1>2, <1>3, <1>4, <1>5, <2>1 DEF Lists
<1>7. ASSUME i # c, a <= 2
      PROVE  a - 1 > 0 /\ t[e] = s[c]
  <2>1. a = 2 /\ c \in 1..2 /\ i \in 1..2
    BY <1>1, <1>2, <1>7
  <2> QED
    BY <1>2, <1>4, <1>7, <2>1
<1>8. ASSUME NEW y, IsActive(l, y), y # l.pipes[i]
      PROVE  IsActive(Deactivate(l, i), y)
  <2>1. PICK j \in 1..a : s[j] = y
    BY <1>1, <1>8 DEF IsActive
  <2>2. j # i
    BY <1>1, <1>8, <2>1
  <2>3. CASE j = a
    <3>1. i \in 1..a - 1 /\ t[i] = y
      BY <1>2, <1>4, <2>1, <2>2, <2>3
    <3> QED
      BY <1>3, <3>1 DEF IsActive
  <2>4. CASE j # a
    <3>1. j \in 1..a - 1 /\ j \in 1..Len(s)
      BY <1>1, <1>2, <2>1, <2>4
    <3>2. t[j] = y
      BY <1>4, <2>1, <2>2, <2>4, <3>1
    <3> QED
      BY <1>3, <3>1, <3>2 DEF IsActive
  <2> QED
    BY <2>3, <2>4
<1>9. /\ Deactivate(l, i) \in Lists(S)
      /\ Len(Deactivate(l, i).pipes) = Len(l.pipes)
      /\ ToSet(Deactivate(l, i).pipes) = ToSet(l.pipes)
      /\ Deactivate(l, i).active = l.active - 1
      /\ Deactivate(l, i).more = l.more /\ Deactivate(l, i).dropping = l.dropping
      /\ Deactivate(l, i).pipes[l.active] = l.pipes[i]
      /\ i # l.cur /\ l.active <= 2 =>
           Deactivate(l, i).active > 0 /\ Current(Deactivate(l, i)) = Current(l)
  BY <1>1, <1>3, <1>4, <1>6, <1>7 DEF Current
<1> QED
  BY <1>8, <1>9

\* A pipe that is activated joins the active ones, behind them.
LEMMA ActivatedKeeps ==
  ASSUME NEW S, NEW l \in Lists(S), NEW x \in ToSet(l.pipes), ~IsActive(l, x)
  PROVE  /\ activated(l, x) \in Lists(S)
         /\ ToSet(activated(l, x).pipes) = ToSet(l.pipes)
         /\ activated(l, x).active = l.active + 1
         /\ activated(l, x).more = l.more /\ activated(l, x).dropping = l.dropping
         /\ l.active > 0 => Current(activated(l, x)) = Current(l)
         /\ \A y : IsActive(l, y) \/ y = x => IsActive(activated(l, x), y)
<1>1. PICK s \in Seq(S), a \in Nat, c \in Nat, m \in BOOLEAN, d \in BOOLEAN :
        /\ l = [pipes |-> s, active |-> a, cur |-> c, more |-> m, dropping |-> d]
        /\ a <= Len(s) /\ 1 <= c /\ (c <= a \/ (a = 0 /\ c = 1))
        /\ \A j, k \in 1..Len(s) : s[j] = s[k] => j = k
  BY ListParts
<1>2. l.pipes = s /\ l.active = a /\ l.cur = c /\ l.more = m /\ l.dropping = d
  BY <1>1
<1>3. PICK p \in 1..Len(s) : s[p] = x
  BY <1>2, InToSet
<1>4. Position(l, x) = p
  BY <1>2, <1>3, PositionOf
<1>5. p > a /\ a + 1 \in 1..Len(s)
  BY <1>1, <1>2, <1>3 DEF IsActive
<1> DEFINE t == Swap(s, p, a + 1)
<1>6. activated(l, x) = [pipes |-> t, active |-> a + 1, cur |-> c, more |-> m, dropping |-> d]
  <2>1. activated(l, x) = [l EXCEPT !.pipes = t, !.active = a + 1]
    BY <1>2, <1>4 DEF activated
  <2>2. l = [pipes |-> s, active |-> a, cur |-> c, more |-> m, dropping |-> d]
    BY <1>1
  <2> HIDE DEF t
  <2> QED
    BY <2>1, <2>2
<1>7. /\ t \in Seq(S) /\ Len(t) = Len(s) /\ ToSet(t) = ToSet(s)
      /\ \A k \in 1..Len(s) : k # p /\ k # a + 1 => t[k] = s[k]
      /\ t[a + 1] = s[p]
  BY <1>5, SwapKeeps
<1>8. \A j, k \in 1..Len(s) : t[j] = t[k] => j = k
  BY <1>1, <1>3, <1>5, SwapOnce
<1> HIDE DEF t
<1>9. activated(l, x) \in Lists(S)
  <2>1. c <= a + 1 /\ a + 1 <= Len(t) /\ a + 1 \in Nat /\ 1 <= c
    BY <1>1, <1>5, <1>7
  <2> QED
    BY <1>6, <1>7, <1>8, <2>1 DEF Lists
<1>10. a > 0 => t[c] = s[c]
  BY <1>1, <1>5, <1>7
<1>11. ASSUME NEW y, IsActive(l, y) \/ y = x
       PROVE  IsActive(activated(l, x), y)
  <2>1. CASE y = x
    <3>1. a + 1 \in 1..a + 1 /\ t[a + 1] = x
      BY <1>1, <1>3, <1>7
    <3> QED
      BY <1>6, <2>1, <3>1 DEF IsActive
  <2>2. CASE IsActive(l, y)
    <3>1. PICK j \in 1..a : s[j] = y
      BY <1>2, <2>2 DEF IsActive
    <3>2. j \in 1..a + 1 /\ j \in 1..Len(s) /\ j # p /\ j # a + 1
      BY <1>1, <1>5, <3>1
    <3>3. t[j] = y
      BY <1>7, <3>1, <3>2
    <3> QED
      BY <1>6, <3>2, <3>3 DEF IsActive
  <2> QED
    BY <1>11, <2>1, <2>2
<1>12. /\ activated(l, x) \in Lists(S)
       /\ ToSet(activated(l, x).pipes) = ToSet(l.pipes)
       /\ activated(l, x).active = l.active + 1
       /\ activated(l, x).more = l.more /\ activated(l, x).dropping = l.dropping
       /\ l.active > 0 => Current(activated(l, x)) = Current(l)
  BY <1>2, <1>6, <1>7, <1>9, <1>10 DEF Current
<1> QED
  BY <1>11, <1>12

LEMMA AttachKeeps ==
  ASSUME NEW S, NEW l \in Lists(S), NEW x \in S, x \notin ToSet(l.pipes)
  PROVE  /\ attach(l, x) \in Lists(S)
         /\ ToSet(attach(l, x).pipes) = ToSet(l.pipes) \cup {x}
         /\ attach(l, x).active = l.active + 1
         /\ attach(l, x).more = l.more /\ attach(l, x).dropping = l.dropping
         /\ l.active > 0 => Current(attach(l, x)) = Current(l)
         /\ \A y : IsActive(l, y) \/ y = x => IsActive(attach(l, x), y)
<1>1. PICK s \in Seq(S), a \in Nat, c \in Nat, m \in BOOLEAN, d \in BOOLEAN :
        /\ l = [pipes |-> s, active |-> a, cur |-> c, more |-> m, dropping |-> d]
        /\ a <= Len(s) /\ 1 <= c /\ (c <= a \/ (a = 0 /\ c = 1))
        /\ \A j, k \in 1..Len(s) : s[j] = s[k] => j = k
  BY ListParts
<1>2. l.pipes = s /\ l.active = a /\ l.cur = c /\ l.more = m /\ l.dropping = d
  BY <1>1
<1> DEFINE t == Append(s, x)
           k0 == [l EXCEPT !.pipes = t]
<1>3. k0 = [pipes |-> t, active |-> a, cur |-> c, more |-> m, dropping |-> d]
  <2>1. l = [pipes |-> s, active |-> a, cur |-> c, more |-> m, dropping |-> d]
    BY <1>1
  <2> HIDE DEF t
  <2> QED
    BY <2>1
<1>4. /\ t \in Seq(S) /\ Len(t) = Len(s) + 1 /\ t[Len(s) + 1] = x
      /\ \A k \in 1..Len(s) : t[k] = s[k]
  OBVIOUS
<1>5. \A k \in 1..Len(s) : s[k] # x
  BY <1>2, InToSet
<1>6. ToSet(t) = ToSet(s) \cup {x}
  BY <1>4 DEF ToSet
<1>7. attach(l, x) = activated(k0, x)
  BY <1>2 DEF attach
<1> HIDE DEF t, k0
<1>8. \A j, k \in 1..Len(t) : t[j] = t[k] => j = k
  <2>1. \A j \in 1..Len(t) : j \in 1..Len(s) \/ j = Len(s) + 1
    BY <1>4
  <2> QED
    BY <1>1, <1>4, <1>5, <2>1
<1>9. k0 \in Lists(S)
  <2>1. a <= Len(t)
    BY <1>1, <1>4
  <2> QED
    BY <1>1, <1>3, <1>4, <1>8, <2>1 DEF Lists
<1>10. ~IsActive(k0, x)
  <2>1. \A k \in 1..a : k \in 1..Len(s)
    BY <1>1
  <2> QED
    BY <1>3, <1>4, <1>5, <2>1 DEF IsActive
<1>11. x \in ToSet(k0.pipes)
  BY <1>3, <1>6
<1>12. a > 0 => Current(k0) = Current(l)
  BY <1>1, <1>2, <1>3, <1>4 DEF Current
<1>13. k0.pipes = t /\ k0.active = a /\ k0.more = m /\ k0.dropping = d
  BY <1>3
<1>14. \A y : IsActive(l, y) => IsActive(k0, y)
  <2>1. \A k \in 1..a : k \in 1..Len(s)
    BY <1>1
  <2> QED
    BY <1>2, <1>4, <1>13, <2>1 DEF IsActive
<1>15. /\ activated(k0, x) \in Lists(S)
       /\ ToSet(activated(k0, x).pipes) = ToSet(k0.pipes)
       /\ activated(k0, x).active = k0.active + 1
       /\ activated(k0, x).more = k0.more /\ activated(k0, x).dropping = k0.dropping
       /\ k0.active > 0 => Current(activated(k0, x)) = Current(k0)
       /\ \A y : IsActive(k0, y) \/ y = x => IsActive(activated(k0, x), y)
  BY <1>9, <1>10, <1>11, ActivatedKeeps
<1> QED
  BY <1>2, <1>6, <1>7, <1>12, <1>13, <1>14, <1>15

LEMMA EraseOnce ==
  ASSUME NEW S, NEW s \in Seq(S), NEW i \in 1..Len(s),
         \A a, b \in 1..Len(s) : s[a] = s[b] => a = b
  PROVE  /\ ToSet(Erase(s, i)) = ToSet(s) \ {s[i]}
         /\ \A a, b \in 1..Len(s) - 1 : Erase(s, i)[a] = Erase(s, i)[b] => a = b
<1> DEFINE t == Erase(s, i)
           n == Len(s)
           was == [k \in 1..n - 1 |-> IF k = i THEN n ELSE k]
<1>1. n \in Nat /\ n >= 1 /\ i \in 1..n /\ DOMAIN s = 1..n
  OBVIOUS
<1>2. /\ DOMAIN t = 1..n - 1
      /\ \A k \in 1..n - 1 : t[k] = IF k = i THEN s[n] ELSE s[k]
  BY EraseLast
<1> HIDE DEF t, n
<1>3. \A k \in 1..n - 1 : was[k] \in 1..n /\ was[k] # i /\ t[k] = s[was[k]]
  BY <1>1, <1>2
<1>4. \A j, k \in 1..n - 1 : was[j] = was[k] => j = k
  BY <1>1
<1>5. \A j \in 1..n : j # i => \E k \in 1..n - 1 : was[k] = j
  <2> SUFFICES ASSUME NEW j \in 1..n, j # i PROVE \E k \in 1..n - 1 : was[k] = j
    OBVIOUS
  <2>1. CASE j = n
    <3>1. i \in 1..n - 1 /\ was[i] = j
      BY <1>1, <2>1
    <3> QED
      BY <3>1
  <2>2. CASE j # n
    <3>1. j \in 1..n - 1 /\ was[j] = j
      BY <1>1, <2>2
    <3> QED
      BY <3>1
  <2> QED
    BY <2>1, <2>2
<1> HIDE DEF was
<1>6. \A a, b \in 1..n : s[a] = s[b] => a = b
  BY DEF n
<1>7. \A a, b \in 1..n - 1 : t[a] = t[b] => a = b
  BY <1>3, <1>4, <1>6
<1>8. ToSet(t) \subseteq ToSet(s) \ {s[i]}
  <2> SUFFICES ASSUME NEW k \in 1..n - 1 PROVE t[k] \in ToSet(s) /\ t[k] # s[i]
    BY <1>2 DEF ToSet
  <2> QED
    BY <1>1, <1>3, <1>6 DEF ToSet
<1>9. ToSet(s) \ {s[i]} \subseteq ToSet(t)
  <2> SUFFICES ASSUME NEW j \in 1..n, s[j] # s[i] PROVE s[j] \in ToSet(t)
    BY <1>1 DEF ToSet
  <2>1. PICK k \in 1..n - 1 : was[k] = j
    BY <1>5
  <2> QED
    BY <1>2, <1>3, <2>1 DEF ToSet
<1> QED
  BY <1>7, <1>8, <1>9 DEF t, n

\* A pipe that is gone leaves the list. While there are at most two active
\* pipes, the current one stays current unless it is the one that goes.
LEMMA TerminatedKeeps ==
  ASSUME NEW S, NEW l \in Lists(S), NEW x \in ToSet(l.pipes)
  PROVE  /\ terminated(l, x) \in Lists(S)
         /\ ToSet(terminated(l, x).pipes) = ToSet(l.pipes) \ {x}
         /\ terminated(l, x).more = l.more
         /\ l.active > 0 =>
              terminated(l, x).dropping = (l.dropping \/ (l.more /\ x = Current(l)))
         /\ l.dropping => terminated(l, x).dropping
         /\ ~l.more => terminated(l, x).dropping = l.dropping
         /\ l.active \in 1..2 /\ x # Current(l) =>
              terminated(l, x).active > 0 /\ Current(terminated(l, x)) = Current(l)
         /\ \A y : IsActive(l, y) /\ y # x => IsActive(terminated(l, x), y)
<1> DEFINE p == Position(l, x)
           m == IF p <= l.active THEN Deactivate(l, p) ELSE l
<1>1. PICK i \in 1..Len(l.pipes) : l.pipes[i] = x
  BY InToSet, ListFacts
<1>2. p = i
  BY <1>1, PositionOf
<1>3. p \in 1..Len(l.pipes) /\ l.pipes[p] = x
  BY <1>1, <1>2
<1>4. /\ m \in Lists(S) /\ ToSet(m.pipes) = ToSet(l.pipes) /\ m.more = l.more
      /\ m.dropping = l.dropping /\ Len(m.pipes) = Len(l.pipes)
      /\ \E q \in 1..Len(m.pipes) : q > m.active /\ m.pipes[q] = x
      /\ l.active \in 1..2 /\ p # l.cur => m.active > 0 /\ Current(m) = Current(l)
      /\ \A y : IsActive(l, y) /\ y # x => IsActive(m, y)
  <2> HIDE DEF p
  <2>1. CASE p <= l.active
    <3>1. p \in 1..l.active /\ l.active \in 1..Len(l.pipes) /\ m = Deactivate(l, p)
      BY <1>3, <2>1, ListFacts
    <3> HIDE DEF m
    <3>2. /\ m \in Lists(S) /\ ToSet(m.pipes) = ToSet(l.pipes) /\ m.more = l.more
          /\ m.dropping = l.dropping /\ Len(m.pipes) = Len(l.pipes)
          /\ m.active = l.active - 1 /\ m.pipes[l.active] = x
          /\ p # l.cur /\ l.active <= 2 => m.active > 0 /\ Current(m) = Current(l)
          /\ \A y : IsActive(l, y) /\ y # x => IsActive(m, y)
      BY <1>3, <3>1, DeactivateKeeps
    <3>3. l.active > m.active /\ l.active \in 1..Len(m.pipes)
      BY <3>1, <3>2
    <3> QED
      BY <3>2, <3>3
  <2>2. CASE ~(p <= l.active)
    <3>1. m = l /\ p > l.active
      BY <1>3, <2>2, ListFacts
    <3> QED
      BY <1>3, <3>1 DEF Current
  <2> QED
    BY <2>1, <2>2
<1>5. PICK q \in 1..Len(m.pipes) : q > m.active /\ m.pipes[q] = x
  BY <1>4
<1>6. terminated(l, x) = [m EXCEPT !.pipes = Erase(m.pipes, Position(m, x)),
                                   !.dropping = m.dropping \/ (l.more /\ p = l.cur)]
  BY DEF terminated
<1> HIDE DEF m, p
<1>7. Position(m, x) = q
  BY <1>4, <1>5, PositionOf
<1>8. PICK s \in Seq(S), a \in Nat, c \in Nat, g \in BOOLEAN, d \in BOOLEAN :
        /\ m = [pipes |-> s, active |-> a, cur |-> c, more |-> g, dropping |-> d]
        /\ a <= Len(s) /\ 1 <= c /\ (c <= a \/ (a = 0 /\ c = 1))
        /\ \A j, k \in 1..Len(s) : s[j] = s[k] => j = k
  BY <1>4, ListParts
<1>9. m.pipes = s /\ m.active = a /\ m.cur = c /\ m.more = g /\ m.dropping = d
  BY <1>8
<1> DEFINE t == Erase(s, q)
           e == d \/ (l.more /\ p = l.cur)
<1>10. terminated(l, x) = [pipes |-> t, active |-> a, cur |-> c, more |-> g, dropping |-> e]
  <2>1. m = [pipes |-> s, active |-> a, cur |-> c, more |-> g, dropping |-> d]
    BY <1>8
  <2>2. terminated(l, x) = [m EXCEPT !.pipes = t, !.dropping = e]
    BY <1>6, <1>7, <1>9
  <2> HIDE DEF t, e
  <2> QED
    BY <2>1, <2>2
<1>11. q \in 1..Len(s) /\ q > a /\ s[q] = x
  BY <1>5, <1>9
<1>12. /\ t \in Seq(S) /\ Len(t) = Len(s) - 1
       /\ \A k \in 1..Len(s) - 1 : t[k] = IF k = q THEN s[Len(s)] ELSE s[k]
  BY <1>11, EraseLast
<1>13. /\ ToSet(t) = ToSet(s) \ {x}
       /\ \A j, k \in 1..Len(s) - 1 : t[j] = t[k] => j = k
  BY <1>8, <1>11, EraseOnce
<1>14. e \in BOOLEAN
  BY <1>8, ListFacts
<1>15. x = Current(l) /\ l.active > 0 <=> p = l.cur /\ l.active > 0
  <2>1. l.active > 0 => l.cur \in 1..Len(l.pipes)
    BY ListFacts
  <2> QED
    BY <1>3, <2>1, ListFacts DEF Current
<1> HIDE DEF t
<1>16. terminated(l, x) \in Lists(S)
  <2>1. a <= Len(t) /\ \A j, k \in 1..Len(t) : t[j] = t[k] => j = k
    BY <1>8, <1>11, <1>12, <1>13
  <2>2. 1 <= c /\ (c <= a \/ (a = 0 /\ c = 1))
    BY <1>8
  <2> HIDE DEF e
  <2> QED
    BY <1>10, <1>12, <1>14, <2>1, <2>2 DEF Lists
<1>17. a > 0 => t[c] = s[c]
  BY <1>8, <1>11, <1>12
<1>18. terminated(l, x).dropping = (l.dropping \/ (l.more /\ p = l.cur))
  <2>1. d = l.dropping
    BY <1>4, <1>9
  <2>2. terminated(l, x).dropping = e
    <3> HIDE DEF e
    <3> QED
      BY <1>10
  <2> QED
    BY <2>1, <2>2, Zenon
<1>19. ToSet(terminated(l, x).pipes) = ToSet(l.pipes) \ {x} /\ terminated(l, x).more = l.more
  BY <1>4, <1>9, <1>10, <1>13
<1>20. ASSUME l.active \in 1..2, x # Current(l)
       PROVE  terminated(l, x).active > 0 /\ Current(terminated(l, x)) = Current(l)
  <2>1. p # l.cur
    BY <1>15, <1>20
  <2> QED
    BY <1>4, <1>9, <1>10, <1>17, <1>20, <2>1 DEF Current
<1>21. ~l.more => terminated(l, x).dropping = l.dropping
  <2>1. l.dropping \in BOOLEAN
    BY ListFacts
  <2> QED
    BY <1>18, <2>1
<1>22. ASSUME NEW y, IsActive(l, y), y # x
       PROVE  IsActive(terminated(l, x), y)
  <2>1. IsActive(m, y)
    BY <1>4, <1>22
  <2>2. PICK j \in 1..a : s[j] = y
    BY <1>9, <2>1 DEF IsActive
  <2>3. j # q /\ j \in 1..Len(s) - 1
    BY <1>8, <1>11, <2>2
  <2>4. t[j] = y
    BY <1>12, <2>2, <2>3
  <2> QED
    BY <1>10, <2>2, <2>4 DEF IsActive
<1>23. l.active > 0 => terminated(l, x).dropping = (l.dropping \/ (l.more /\ x = Current(l)))
  BY <1>15, <1>18
<1>24. l.dropping => terminated(l, x).dropping
  BY <1>18
<1> QED
  BY <1>16, <1>19, <1>20, <1>21, <1>22, <1>23, <1>24

LEMMA PassKeeps ==
  ASSUME NEW S, NEW l \in Lists(S), NEW good
  PROVE  /\ Pass(l, good) \in Lists(S)
         /\ ToSet(Pass(l, good).pipes) = ToSet(l.pipes)
         /\ Pass(l, good).more = l.more /\ Pass(l, good).dropping = l.dropping
         /\ \/ Pass(l, good) = l /\ (l.active = 0 \/ Current(l) \in good)
            \/ l.active > 0 /\ Pass(l, good).active = l.active - 1
         /\ \A y \in good : IsActive(l, y) => IsActive(Pass(l, good), y)
<1>1. CASE l.active = 0 \/ Current(l) \in good
  BY <1>1 DEF Pass, Current
<1>2. CASE ~(l.active = 0 \/ Current(l) \in good)
  <2>1. Pass(l, good) = Deactivate(l, l.cur)
    BY <1>2 DEF Pass, Current
  <2>2. l.cur \in 1..l.active /\ l.active > 0
    BY <1>2, ListFacts
  <2>3. l.pipes[l.cur] \notin good
    BY <1>2 DEF Current
  <2> QED
    BY <2>1, <2>2, <2>3, DeactivateKeeps
<1> QED
  BY <1>1, <1>2

\* The lists after the first n rounds of the loop: the recursion in Skip is
\* well founded.
IsRounds(f, l, good, n) == f = [m \in 0..n |-> IF m = 0 THEN l ELSE Pass(f[m - 1], good)]

LEMMA Rounds ==
  ASSUME NEW l, NEW good, NEW n \in Nat
  PROVE  \E f : IsRounds(f, l, good, n)
<1> DEFINE Has(k) == \E f : f = [m \in 0..k |-> IF m = 0 THEN l ELSE Pass(f[m - 1], good)]
           T == {k \in Nat : ~Has(k)}
<1>1. Has(0)
  <2> DEFINE f == [m \in 0..0 |-> l]
  <2>1. f = [m \in 0..0 |-> IF m = 0 THEN l ELSE Pass(f[m - 1], good)]
    OBVIOUS
  <2> QED
    BY <2>1
<1>2. ASSUME NEW k \in Nat, Has(k) PROVE Has(k + 1)
  <2>1. PICK g : g = [m \in 0..k |-> IF m = 0 THEN l ELSE Pass(g[m - 1], good)]
    BY <1>2
  <2> DEFINE f == [m \in 0..k + 1 |-> IF m = k + 1 THEN Pass(g[k], good) ELSE g[m]]
  <2>2. \A m \in 0..k : g[m] = IF m = 0 THEN l ELSE Pass(g[m - 1], good)
    BY <2>1
  <2>3. \A m \in 0..k + 1 : f[m] = IF m = 0 THEN l ELSE Pass(f[m - 1], good)
    BY <2>2
  <2>4. f = [m \in 0..k + 1 |-> f[m]]
    OBVIOUS
  <2> HIDE DEF f
  <2>5. f = [m \in 0..k + 1 |-> IF m = 0 THEN l ELSE Pass(f[m - 1], good)]
    BY <2>3, <2>4
  <2> QED
    BY <2>5
<1> HIDE DEF Has
<1>3. T = {}
  <2> SUFFICES ASSUME T # {} PROVE FALSE
    OBVIOUS
  <2>1. T \subseteq Nat
    OBVIOUS
  <2> HIDE DEF T
  <2>2. PICK x \in T : \A y \in T : x <= y
    BY <2>1, Smallest
  <2>3. x \in Nat /\ ~Has(x)
    BY <2>2 DEF T
  <2>4. x # 0
    BY <1>1, <2>3
  <2>5. x - 1 \in Nat /\ x - 1 \notin T
    BY <2>2, <2>3, <2>4
  <2>6. Has(x - 1)
    BY <2>5 DEF T
  <2>7. Has((x - 1) + 1)
    BY <1>2, <2>5, <2>6
  <2> QED
    BY <2>3, <2>5, <2>7
<1>4. Has(n)
  BY <1>3
<1> QED
  BY <1>4, Zenon DEF Has, IsRounds

LEMMA SkipRounds ==
  ASSUME NEW l, NEW good, l.active \in Nat
  PROVE  \E f : /\ f = [m \in 0..l.active |-> IF m = 0 THEN l ELSE Pass(f[m - 1], good)]
                /\ Skip(l, good) = f[l.active]
<1> DEFINE past[n \in 0..l.active] == IF n = 0 THEN l ELSE Pass(past[n - 1], good)
<1>1. past = [m \in 0..l.active |-> IF m = 0 THEN l ELSE Pass(past[m - 1], good)]
  <2>1. \E f : IsRounds(f, l, good, l.active)
    <3> HIDE DEF past
    <3> QED
      BY Rounds
  <2> QED
    BY <2>1, Zenon DEF IsRounds
<1>2. Skip(l, good) = past[l.active]
  BY DEF Skip
<1> QED
  BY <1>1, <1>2

\* The loop keeps the pipes, ends at one that does not fail if any is left,
\* and does nothing when the current one does not fail.
LEMMA SkipKeeps ==
  ASSUME NEW S, NEW l \in Lists(S), NEW good
  PROVE  /\ Skip(l, good) \in Lists(S)
         /\ ToSet(Skip(l, good).pipes) = ToSet(l.pipes)
         /\ Skip(l, good).more = l.more /\ Skip(l, good).dropping = l.dropping
         /\ Skip(l, good).active <= l.active
         /\ Skip(l, good).active > 0 => Current(Skip(l, good)) \in good
         /\ l.active > 0 /\ Current(l) \in good => Skip(l, good) = l
         /\ \A y \in good : IsActive(l, y) => IsActive(Skip(l, good), y)
<1>1. l.active \in Nat
  BY ListFacts
<1>2. PICK f : /\ f = [m \in 0..l.active |-> IF m = 0 THEN l ELSE Pass(f[m - 1], good)]
               /\ Skip(l, good) = f[l.active]
  BY <1>1, SkipRounds
<1> DEFINE Fine(k) ==
             /\ f[k] \in Lists(S) /\ ToSet(f[k].pipes) = ToSet(l.pipes)
             /\ f[k].more = l.more /\ f[k].dropping = l.dropping /\ f[k].active <= l.active
             /\ f[k].active <= l.active - k \/ (f[k].active > 0 /\ Current(f[k]) \in good)
             /\ l.active > 0 /\ Current(l) \in good => f[k] = l
             /\ \A y \in good : IsActive(l, y) => IsActive(f[k], y)
           T == {k \in 0..l.active : ~Fine(k)}
<1>3. Fine(0)
  <2>1. f[0] = l
    BY <1>1, <1>2
  <2> QED
    BY <1>1, <2>1
<1>4. ASSUME NEW k \in 0..l.active - 1, Fine(k) PROVE Fine(k + 1)
  <2>1. f[k + 1] = Pass(f[k], good) /\ k + 1 \in 0..l.active
    BY <1>1, <1>2
  <2>2. f[k] \in Lists(S) /\ f[k].active \in Nat
    BY <1>4, ListFacts
  <2>3. /\ f[k + 1] \in Lists(S)
        /\ ToSet(f[k + 1].pipes) = ToSet(f[k].pipes)
        /\ f[k + 1].more = f[k].more /\ f[k + 1].dropping = f[k].dropping
        /\ \/ f[k + 1] = f[k] /\ (f[k].active = 0 \/ Current(f[k]) \in good)
           \/ f[k].active > 0 /\ f[k + 1].active = f[k].active - 1
        /\ \A y \in good : IsActive(f[k], y) => IsActive(f[k + 1], y)
    BY <2>1, <2>2, PassKeeps
  <2>4. l.active > 0 /\ Current(l) \in good => f[k + 1] = l
    BY <1>4, <2>1 DEF Pass, Current
  <2>5. CASE f[k + 1] = f[k] /\ (f[k].active = 0 \/ Current(f[k]) \in good)
    BY <1>1, <1>4, <2>1, <2>2, <2>3, <2>4, <2>5
  <2>6. CASE f[k].active > 0 /\ f[k + 1].active = f[k].active - 1
    <3>1. f[k].active <= l.active - k => f[k + 1].active <= l.active - (k + 1)
      BY <1>1, <2>1, <2>2, <2>6
    <3>2. ~(f[k].active > 0 /\ Current(f[k]) \in good)
      BY <2>1, <2>2, <2>6 DEF Pass, Current
    <3> QED
      BY <1>1, <1>4, <2>2, <2>3, <2>4, <2>6, <3>1, <3>2
  <2> QED
    BY <2>3, <2>5, <2>6
<1> HIDE DEF Fine
<1>5. T = {}
  <2> SUFFICES ASSUME T # {} PROVE FALSE
    OBVIOUS
  <2>1. T \subseteq Nat
    OBVIOUS
  <2> HIDE DEF T
  <2>2. PICK x \in T : \A y \in T : x <= y
    BY <2>1, Smallest
  <2>3. x \in 0..l.active /\ ~Fine(x)
    BY <2>2 DEF T
  <2>4. x # 0
    BY <1>3, <2>3
  <2>5. x - 1 \in 0..l.active - 1 /\ x - 1 \in 0..l.active /\ x - 1 \notin T /\ (x - 1) + 1 = x
    BY <1>1, <2>2, <2>3, <2>4
  <2>6. Fine(x - 1)
    BY <2>5 DEF T
  <2>7. Fine((x - 1) + 1)
    BY <1>4, <2>5, <2>6
  <2> QED
    BY <2>3, <2>5, <2>7
<1>6. Fine(l.active)
  BY <1>1, <1>5
<1>7. f[l.active] \in Lists(S)
  BY <1>6 DEF Fine
<1> QED
  BY <1>1, <1>2, <1>6, <1>7, ListFacts DEF Fine

\* Asking whether there is room moves pipes, as sending does.
LEMMA HasOutKeeps ==
  ASSUME NEW S, NEW l \in Lists(S), NEW good
  PROVE  /\ has_out(l, good) \in Lists(S)
         /\ ToSet(has_out(l, good).pipes) = ToSet(l.pipes)
         /\ has_out(l, good).more = l.more /\ has_out(l, good).dropping = l.dropping
         /\ \A y \in good : IsActive(l, y) => IsActive(has_out(l, good), y)
<1>1. CASE l.more
  BY <1>1 DEF has_out
<1>2. CASE ~l.more
  BY <1>2, SkipKeeps DEF has_out
<1> QED
  BY <1>1, <1>2

LEMMA TurnKeeps ==
  ASSUME NEW S, NEW l \in Lists(S)
  PROVE  /\ Turn(l) \in Lists(S)
         /\ Turn(l).pipes = l.pipes /\ Turn(l).active = l.active
         /\ Turn(l).more = l.more /\ Turn(l).dropping = l.dropping
<1>1. PICK s \in Seq(S), a \in Nat, c \in Nat, m \in BOOLEAN, d \in BOOLEAN :
        /\ l = [pipes |-> s, active |-> a, cur |-> c, more |-> m, dropping |-> d]
        /\ a <= Len(s) /\ 1 <= c /\ (c <= a \/ (a = 0 /\ c = 1))
        /\ \A j, k \in 1..Len(s) : s[j] = s[k] => j = k
  BY ListParts
<1> DEFINE e == IF a = 0 THEN c ELSE (c % a) + 1
<1>2. l.active = a /\ l.cur = c
  BY <1>1
<1>3. Turn(l) = [pipes |-> s, active |-> a, cur |-> e, more |-> m, dropping |-> d]
  <2>1. Turn(l) = [l EXCEPT !.cur = e]
    BY <1>2 DEF Turn
  <2>2. l = [pipes |-> s, active |-> a, cur |-> c, more |-> m, dropping |-> d]
    BY <1>1
  <2> HIDE DEF e
  <2> QED
    BY <2>1, <2>2
<1>4. e \in Nat /\ 1 <= e /\ (e <= a \/ (a = 0 /\ e = 1))
  <2>1. CASE a = 0
    BY <1>1, <2>1
  <2>2. CASE a # 0
    <3>1. c % a \in 0..a - 1
      BY <2>2
    <3> HIDE DEF e
    <3>2. e = (c % a) + 1
      BY <2>2 DEF e
    <3> QED
      BY <3>1, <3>2
  <2> QED
    BY <2>1, <2>2
<1> HIDE DEF e
<1> QED
  BY <1>1, <1>3, <1>4 DEF Lists

-----------------------------------------------------------------------------
\* The ROUTER. What waits in the pipe of a client is nothing, a message yet to
\* come, or its message; the pipes that are there are in the table or anonymous;
\* an anonymous pipe is never read, so it is never found empty and cannot go.
Waits == {<< >>, Later} \cup {Parts(c) : c \in Clients}

FrontType ==
  /\ client \in [Clients -> {"absent", None, "up", "left", "gone"}]
  /\ in \in [Clients -> Waits]
  /\ \A c \in Clients : in[c] \in {<< >>, Later, Parts(c)}
  /\ broker = [pc |-> broker.pc, hold |-> broker.hold, reply |-> broker.reply]
  /\ broker.pc \in {"poll", "fwd", "reply", "body"}

Table ==
  /\ ids \subseteq Clients /\ anon \subseteq Clients
  /\ \A c \in Clients : client[c] \in {"up", "left"} <=> c \in ids \cup anon
  /\ \A c \in anon : in[c] # << >>
  /\ fq \in Lists(Clients)
  /\ TableConsistent

\* A reply is written only between its two parts, and to a pipe in the table.
Replying ==
  /\ curOut \in ids \cup {None}
  /\ broker.pc # "body" => curOut = None

FrontInv == FrontType /\ Table /\ Replying /\ BrokerSound

\* The DEALER. The complete messages, the parts they consist of, and the pipes
\* that lb_t knows.
Messages == {<<IdPart(c)>> \o Parts(c) : c \in Clients}
MessageParts ==
  {IdPart(c) : c \in Clients} \cup {<<"empty">>} \cup {<<"body", c>> : c \in Clients}
Connected == {k \in Compressors : conn[k] \in {"up", "down", "closing"}}

BackType ==
  /\ conn \in [Compressors -> {"absent", None, "up", "down", "closing", "gone"}]
  /\ lb \in Lists(Compressors) /\ ToSet(lb.pipes) = Connected
  /\ out \in [Compressors -> Seq(Messages)]
  /\ part \in [Compressors -> Seq(MessageParts)]

\* Inside a message the current pipe has the parts that were sent and the broker
\* holds the rest, unless the pipe is gone and the rest is dropped; no other pipe
\* has part of a message.
Sending ==
  /\ lb.more => broker.pc = "fwd"
  /\ lb.dropping => lb.more
  /\ broker.pc = "fwd" => broker.hold \in Seq(MessageParts) /\ broker.hold # << >>
  /\ broker.pc = "fwd" /\ ~lb.more => broker.hold \in Messages
  /\ lb.more /\ ~lb.dropping => lb.active > 0 /\ part[Current(lb)] \o broker.hold \in Messages
  /\ \A k \in Compressors : part[k] # << >> =>
       lb.more /\ ~lb.dropping /\ lb.active > 0 /\ k = Current(lb)

BackInv == BackType /\ (Alive => Sending)

AtMostTwo == \A j, k, m \in Compressors : j = k \/ j = m \/ k = m

LEMMA PartsNotEmpty == \A c : Parts(c) # << >> /\ Later # << >>
BY DEF Parts, Later

LEMMA FrontInit == Init => FrontInv
<1> SUFFICES ASSUME Init PROVE FrontInv
  OBVIOUS
<1>1. PICK d \in Days :
        LET waits == ToSet(d.waiting) IN
        /\ client = [c \in Clients |-> IF c \in waits THEN "up" ELSE IF c \in d.there THEN None ELSE "absent"]
        /\ in = [c \in Clients |-> IF c \in waits THEN Parts(c) ELSE << >>]
        /\ ids = waits /\ anon = {} /\ curOut = None
        /\ fq = [NoPipes EXCEPT !.pipes = d.waiting, !.active = Len(d.waiting)]
  BY DEF Init
<1>2. broker = [pc |-> "poll", hold |-> << >>, reply |-> << >>] /\ failed = {}
  BY DEF Init
<1> DEFINE s == d.waiting
<1>3. /\ s \in Seq(Clients)
      /\ \A i, j \in 1..Len(s) : Identity[s[i]] = Identity[s[j]] => i = j
  <2>1. s \in Seq(d.there \cap Clients) /\ \A i, j \in DOMAIN s : Identity[s[i]] = Identity[s[j]] => i = j
    BY BrokerAssumption
  <2> HIDE DEF s
  <2> QED
    BY <2>1
<1>4. ids = ToSet(s) /\ fq = [pipes |-> s, active |-> Len(s), cur |-> 1, more |-> FALSE, dropping |-> FALSE]
  BY <1>1 DEF NoPipes
<1> HIDE DEF s
<1>5. ids \subseteq Clients
  BY <1>3, <1>4 DEF ToSet
<1>6. FrontType
  <2>1. client \in [Clients -> {"absent", None, "up", "left", "gone"}]
    BY <1>1
  <2>2. in \in [Clients -> Waits] /\ \A c \in Clients : in[c] \in {<< >>, Later, Parts(c)}
    BY <1>1 DEF Waits
  <2> QED
    BY <1>2, <2>1, <2>2 DEF FrontType
<1>7. Table
  <2>1. \A c \in Clients : client[c] \in {"up", "left"} <=> c \in ids \cup anon
    BY <1>1 DEF None
  <2>2. fq \in Lists(Clients)
    <3>1. \A i, j \in 1..Len(s) : s[i] = s[j] => i = j
      BY <1>3
    <3>2. Len(s) \in Nat /\ (1 <= Len(s) \/ (Len(s) = 0 /\ 1 = 1))
      BY <1>3
    <3> QED
      BY <1>3, <1>4, <3>1, <3>2 DEF Lists
  <2>3. \A c, e \in ids : Identity[c] = Identity[e] => c = e
    <3> SUFFICES ASSUME NEW c \in ids, NEW e \in ids, Identity[c] = Identity[e] PROVE c = e
      OBVIOUS
    <3>1. PICK i \in 1..Len(s) : s[i] = c
      BY <1>3, <1>4, InToSet
    <3>2. PICK j \in 1..Len(s) : s[j] = e
      BY <1>3, <1>4, InToSet
    <3> QED
      BY <1>3, <3>1, <3>2
  <2> QED
    BY <1>1, <1>4, <1>5, <2>1, <2>2, <2>3 DEF Table, TableConsistent
<1> QED
  BY <1>1, <1>2, <1>6, <1>7 DEF FrontInv, Replying, BrokerSound

LEMMA FrontUnchanged ==
  ASSUME FrontInv, UNCHANGED <<frontVars, broker, failed>>
  PROVE  FrontInv'
BY DEF FrontInv, FrontType, Table, TableConsistent, Replying, BrokerSound, frontVars, Waits

LEMMA ConnectsKeeps ==
  ASSUME FrontInv, NEW c \in Clients, ClientConnects(c)
  PROVE  FrontInv'
<1>1. FrontType /\ Table /\ Replying /\ BrokerSound
  BY DEF FrontInv
<1>2. /\ client[c] = None
      /\ client' = [client EXCEPT ![c] = "up"] /\ in' = [in EXCEPT ![c] = Later]
      /\ UNCHANGED <<curOut, broker, failed>>
  BY DEF ClientConnects
<1>3. c \notin ids /\ c \notin anon
  BY <1>1, <1>2 DEF Table, None
<1>4. FrontType'
  BY <1>1, <1>2 DEF FrontType, Waits
<1>5. \A x \in anon' : in'[x] # << >>
  BY <1>1, <1>2, PartsNotEmpty DEF ClientConnects, Table, FrontType
<1>6. CASE c \notin ReqClients /\ \E d \in ids : Identity[d] = Identity[c]
  <2>1. anon' = anon \cup {c} /\ ids' = ids /\ fq' = fq
    BY <1>6 DEF ClientConnects
  <2>2. \A x \in Clients : client'[x] \in {"up", "left"} <=> x \in ids' \cup anon'
    BY <1>1, <1>2, <2>1 DEF Table, FrontType
  <2>3. Table'
    BY <1>1, <1>3, <1>5, <2>1, <2>2 DEF Table, TableConsistent
  <2> QED
    BY <1>1, <1>2, <1>4, <2>1, <2>3 DEF FrontInv, Replying, BrokerSound
<1>7. CASE ~(c \notin ReqClients /\ \E d \in ids : Identity[d] = Identity[c])
  <2>1. anon' = anon /\ ids' = ids \cup {c} /\ fq' = attach(fq, c)
    BY <1>7 DEF ClientConnects
  <2>2. \A x \in Clients : client'[x] \in {"up", "left"} <=> x \in ids' \cup anon'
    BY <1>1, <1>2, <2>1 DEF Table, FrontType
  <2>3. \A d \in ids : Identity[d] # Identity[c]
    <3>1. ids \subseteq Clients
      BY <1>1 DEF Table
    <3> QED
      BY <1>3, <1>7, <3>1, BrokerAssumption
  <2>4. fq' \in Lists(Clients) /\ ToSet(fq'.pipes) = ids \cup {c}
    <3>1. fq \in Lists(Clients) /\ ToSet(fq.pipes) = ids
      BY <1>1 DEF Table, TableConsistent
    <3> QED
      BY <1>3, <2>1, <3>1, AttachKeeps
  <2>5. TableConsistent'
    BY <1>1, <1>3, <2>1, <2>3, <2>4 DEF Table, TableConsistent
  <2>6. Table'
    BY <1>1, <1>5, <2>1, <2>2, <2>4, <2>5 DEF Table
  <2> QED
    BY <1>1, <1>2, <1>4, <2>1, <2>6 DEF FrontInv, Replying, BrokerSound
<1> QED
  BY <1>6, <1>7

LEMMA ArrivesKeeps ==
  ASSUME FrontInv, NEW c \in Clients, MessageArrives(c)
  PROVE  FrontInv'
<1>1. FrontType /\ Table /\ Replying /\ BrokerSound
  BY DEF FrontInv
<1>2. in' = [in EXCEPT ![c] = Parts(c)] /\ UNCHANGED <<client, ids, anon, curOut, broker, failed>>
  BY DEF MessageArrives
<1>3. FrontType'
  BY <1>1, <1>2 DEF FrontType, Waits
<1>4. fq' \in Lists(Clients) /\ ToSet(fq'.pipes) = ids
  <2>1. fq \in Lists(Clients) /\ ToSet(fq.pipes) = ids
    BY <1>1 DEF Table, TableConsistent
  <2>2. CASE c \in ids /\ ~IsActive(fq, c)
    <3>1. fq' = activated(fq, c)
      BY <2>2 DEF MessageArrives
    <3> QED
      BY <2>1, <2>2, <3>1, ActivatedKeeps
  <2>3. CASE ~(c \in ids /\ ~IsActive(fq, c))
    BY <2>1, <2>3 DEF MessageArrives
  <2> QED
    BY <2>2, <2>3
<1>5. \A x \in anon : in'[x] # << >>
  BY <1>1, <1>2, PartsNotEmpty DEF Table, FrontType
<1>6. Table'
  BY <1>1, <1>2, <1>4, <1>5 DEF Table, TableConsistent
<1> QED
  BY <1>1, <1>2, <1>3, <1>6 DEF FrontInv, Replying, BrokerSound

LEMMA LeavesKeeps ==
  ASSUME FrontInv, NEW c \in Clients, ClientLeaves(c)
  PROVE  FrontInv'
<1>1. FrontType /\ Table /\ Replying /\ BrokerSound
  BY DEF FrontInv
<1>2. /\ client[c] = "up" /\ client' = [client EXCEPT ![c] = "left"]
      /\ UNCHANGED <<in, ids, anon, curOut, broker, failed>>
  BY DEF ClientLeaves
<1>3. FrontType'
  BY <1>1, <1>2 DEF FrontType, Waits
<1>4. fq' \in Lists(Clients) /\ ToSet(fq'.pipes) = ids
  <2>1. fq \in Lists(Clients) /\ ToSet(fq.pipes) = ids
    BY <1>1 DEF Table, TableConsistent
  <2>2. CASE c \in ids /\ ~IsActive(fq, c)
    <3>1. fq' = activated(fq, c)
      BY <2>2 DEF ClientLeaves
    <3> QED
      BY <2>1, <2>2, <3>1, ActivatedKeeps
  <2>3. CASE ~(c \in ids /\ ~IsActive(fq, c))
    BY <2>1, <2>3 DEF ClientLeaves
  <2> QED
    BY <2>2, <2>3
<1>5. Table'
  BY <1>1, <1>2, <1>4 DEF Table, TableConsistent, FrontType
<1> QED
  BY <1>1, <1>2, <1>3, <1>5 DEF FrontInv, Replying, BrokerSound

LEMMA GoneKeeps ==
  ASSUME FrontInv, NEW c \in Clients, ClientGone(c)
  PROVE  FrontInv'
<1>1. FrontType /\ Table /\ Replying /\ BrokerSound
  BY DEF FrontInv
<1>2. /\ client[c] = "left" /\ in[c] = << >> /\ client' = [client EXCEPT ![c] = "gone"]
      /\ ids' = ids \ {c} /\ fq' = terminated(fq, c)
      /\ curOut' = IF curOut = c THEN None ELSE curOut
      /\ UNCHANGED <<in, anon, broker>>
  BY DEF ClientGone
<1>3. c \in ids /\ c \notin anon
  BY <1>1, <1>2 DEF Table
<1>4. failed' = failed
  BY <1>3 DEF ClientGone, Fails
<1>5. FrontType'
  BY <1>1, <1>2 DEF FrontType, Waits
<1>6. fq' \in Lists(Clients) /\ ToSet(fq'.pipes) = ids'
  <2>1. fq \in Lists(Clients) /\ c \in ToSet(fq.pipes) /\ ToSet(fq.pipes) = ids
    BY <1>1, <1>3 DEF Table, TableConsistent
  <2> QED
    BY <1>2, <2>1, TerminatedKeeps
<1>7. \A x \in Clients : client'[x] \in {"up", "left"} <=> x \in ids' \cup anon'
  BY <1>1, <1>2, <1>3 DEF Table, FrontType
<1>8. Table'
  BY <1>1, <1>2, <1>6, <1>7 DEF Table, TableConsistent
<1> QED
  BY <1>1, <1>2, <1>4, <1>5, <1>8 DEF FrontInv, Replying, BrokerSound

\* What the poll takes from the front is the whole message of a client in the
\* table.
LEMMA PollFront ==
  ASSUME FrontInv, Poll
  PROVE  LET f == Skip(fq, FrontReady)  c == f.pipes[f.cur] IN
         /\ f \in Lists(Clients) /\ ToSet(f.pipes) = ids
         /\ f.active > 0 => c \in ids /\ in[c] = Parts(c)
<1> DEFINE f == Skip(fq, FrontReady)
           c == f.pipes[f.cur]
<1>1. fq \in Lists(Clients) /\ ToSet(fq.pipes) = ids
  BY DEF FrontInv, Table, TableConsistent
<1>2. f \in Lists(Clients) /\ ToSet(f.pipes) = ids /\ (f.active > 0 => c \in FrontReady)
  BY <1>1, SkipKeeps DEF Current
<1>3. ASSUME c \in FrontReady PROVE c \in ids /\ in[c] = Parts(c)
  <2>1. c \in ids /\ in[c] \notin {<< >>, Later}
    BY <1>3 DEF FrontReady
  <2>2. c \in Clients
    BY <2>1 DEF FrontInv, Table
  <2> QED
    BY <2>1, <2>2 DEF FrontInv, FrontType
<1> QED
  BY <1>2, <1>3

LEMMA PollKeeps ==
  ASSUME FrontInv, Poll
  PROVE  FrontInv'
<1> DEFINE f == Skip(fq, FrontReady)
           c == f.pipes[f.cur]
<1>1. FrontType /\ Table /\ Replying /\ BrokerSound
  BY DEF FrontInv
<1>2. /\ f \in Lists(Clients) /\ ToSet(f.pipes) = ids
      /\ f.active > 0 => c \in ids /\ in[c] = Parts(c)
  BY PollFront
<1>3. /\ fq' = Turn(f) /\ in' = IF f.active > 0 THEN [in EXCEPT ![c] = << >>] ELSE in
      /\ broker.pc = "poll" /\ UNCHANGED <<client, ids, anon, curOut, failed>>
  BY DEF Poll, At
<1>4. /\ broker' = [pc |-> broker'.pc, hold |-> broker'.hold, reply |-> broker'.reply]
      /\ broker'.pc \in {"poll", "fwd", "reply"}
  BY DEF Poll
<1> HIDE DEF f
<1>5. fq' \in Lists(Clients) /\ ToSet(fq'.pipes) = ids
  <2>1. Turn(f) \in Lists(Clients) /\ Turn(f).pipes = f.pipes
    BY <1>2, TurnKeeps
  <2> QED
    BY <1>2, <1>3, <2>1
<1>6. /\ in' \in [Clients -> Waits] /\ \A x \in Clients : in'[x] \in {<< >>, Later, Parts(x)}
      /\ \A x \in anon : in'[x] # << >>
  <2>1. CASE f.active > 0
    <3>1. in' = [in EXCEPT ![c] = << >>] /\ c \in ids
      BY <1>2, <1>3, <2>1
    <3> HIDE DEF c
    <3>2. c \in Clients /\ c \notin anon
      BY <1>1, <3>1 DEF Table, TableConsistent
    <3> QED
      BY <1>1, <3>1, <3>2 DEF FrontType, Table, Waits
  <2>2. CASE ~(f.active > 0)
    BY <1>1, <1>3, <2>2 DEF FrontType, Table
  <2> QED
    BY <2>1, <2>2
<1>7. FrontType'
  BY <1>1, <1>3, <1>4, <1>6 DEF FrontType, Waits
<1>8. Table'
  BY <1>1, <1>3, <1>5, <1>6 DEF Table, TableConsistent
<1>9. Replying' /\ BrokerSound'
  BY <1>1, <1>3, <1>4 DEF Replying, BrokerSound
<1> QED
  BY <1>7, <1>8, <1>9 DEF FrontInv

LEMMA DoneIs ==
  ASSUME FrontType
  PROVE  /\ Done = [pc |-> Done.pc, hold |-> Done.hold, reply |-> Done.reply]
         /\ Done.pc \in {"reply", "poll"}
BY DEF Done, FrontType

LEMMA SendKeeps ==
  ASSUME FrontInv, BackSend
  PROVE  FrontInv'
<1>1. FrontType /\ Table /\ Replying /\ BrokerSound
  BY DEF FrontInv
<1>2. broker.pc = "fwd" /\ UNCHANGED frontVars
  BY DEF BackSend, At
<1>3. failed' = failed \/ failed' = failed \cup {"lb: pipe fails inside a message"}
  BY DEF BackSend, Fails
<1>4. broker' = [broker EXCEPT !.hold = Tail(broker.hold)] \/ broker' = Done
  BY DEF BackSend
<1>5. /\ broker' = [pc |-> broker'.pc, hold |-> broker'.hold, reply |-> broker'.reply]
      /\ broker'.pc \in {"poll", "fwd", "reply"}
  BY <1>1, <1>2, <1>4, DoneIs DEF FrontType
<1>6. FrontType' /\ Table'
  BY <1>1, <1>2, <1>5 DEF FrontType, Table, TableConsistent, frontVars, Waits
<1>7. Replying' /\ BrokerSound'
  BY <1>1, <1>2, <1>3, <1>5 DEF Replying, BrokerSound, KnownFailures, frontVars
<1> QED
  BY <1>6, <1>7 DEF FrontInv

LEMMA SendIdKeeps ==
  ASSUME FrontInv, FrontSendId
  PROVE  FrontInv'
<1>1. FrontType /\ Table /\ Replying /\ BrokerSound
  BY DEF FrontInv
<1>2. /\ broker.pc = "reply" /\ broker' = [broker EXCEPT !.pc = "body"]
      /\ UNCHANGED <<client, in, ids, anon, fq>>
  BY DEF FrontSendId, At
<1>3. failed' = failed
  BY <1>1, <1>2 DEF FrontSendId, Fails, Replying
<1>4. curOut' \in ids \cup {None}
  BY DEF FrontSendId
<1>5. FrontType'
  BY <1>1, <1>2 DEF FrontType, Waits
<1>6. Table'
  BY <1>1, <1>2 DEF Table, TableConsistent
<1>7. broker'.pc = "body"
  BY <1>1, <1>2 DEF FrontType
<1> QED
  BY <1>1, <1>2, <1>3, <1>4, <1>5, <1>6, <1>7 DEF FrontInv, Replying, BrokerSound

LEMMA SendBodyKeeps ==
  ASSUME FrontInv, FrontSendBody
  PROVE  FrontInv'
<1>1. FrontType /\ Table /\ Replying /\ BrokerSound
  BY DEF FrontInv
<1>2. /\ broker' = Done /\ curOut' = None /\ UNCHANGED <<client, in, ids, anon, fq>>
      /\ failed' = IF curOut # None /\ client[curOut] = "gone"
                   THEN failed \cup {"router: pipe is deleted"} ELSE failed
  BY DEF FrontSendBody, Fails
<1>3. failed' = failed
  <2>1. curOut # None => curOut \in Clients /\ client[curOut] \in {"up", "left"}
    BY <1>1 DEF Replying, Table
  <2> QED
    BY <1>2, <2>1
<1>4. FrontType'
  BY <1>1, <1>2, DoneIs DEF FrontType, Waits
<1>5. Table'
  BY <1>1, <1>2 DEF Table, TableConsistent
<1> QED
  BY <1>1, <1>2, <1>3, <1>4, <1>5 DEF FrontInv, Replying, BrokerSound

LEMMA FrontStep == FrontInv /\ [Next]_vars => FrontInv'
<1> SUFFICES ASSUME FrontInv, [Next]_vars PROVE FrontInv'
  OBVIOUS
<1>1. CASE \E c \in Clients : FrontCommand(c)
  BY <1>1, ConnectsKeeps, ArrivesKeeps, LeavesKeeps, GoneKeeps DEF FrontCommand
<1>2. ASSUME NEW k \in Compressors,
             CompressorConnects(k) \/ CompressorBreaks(k) \/ BackCommand(k) \/ Receive(k) \/ Reply(k)
      PROVE  FrontInv'
  <2>1. UNCHANGED <<frontVars, broker, failed>>
    BY <1>2 DEF CompressorConnects, CompressorBreaks, BackCommand, PipeTerm, PipeGone, RoomAgain,
                Receive, Reply
  <2> QED
    BY <2>1, FrontUnchanged
<1>3. CASE BrokerStep
  BY <1>3, PollKeeps, SendKeeps, SendIdKeeps, SendBodyKeeps DEF BrokerStep
<1>4. CASE UNCHANGED vars
  <2>1. UNCHANGED <<frontVars, broker, failed>>
    BY <1>4 DEF vars
  <2> QED
    BY <2>1, FrontUnchanged
<1> QED
  BY <1>1, <1>2, <1>3, <1>4 DEF Next

\* The ROUTER's table, its fair queueing and the reply under way agree.
THEOREM FrontInvariance == Spec => []FrontInv
BY FrontInit, FrontStep, PTL DEF Spec

\* The ROUTER's table and fq_t's list have the same pipes, with one identity
\* each, for any number of clients that come and go with any identities.
THEOREM RouterTableConsistent == Spec => []TableConsistent
<1>1. FrontInv => TableConsistent
  BY DEF FrontInv, Table
<1> QED
  BY <1>1, FrontInvariance, PTL

\* No assertion that the module represents fails but the one that is known to, and
\* no deleted pipe is written to, whenever clients and compressors come and go.
THEOREM RouterSound == Spec => []BrokerSound
<1>1. FrontInv => BrokerSound
  BY DEF FrontInv
<1> QED
  BY <1>1, FrontInvariance, PTL

-----------------------------------------------------------------------------
\* Messages whole, with at most two compressors.

LEMMA MessageSeq ==
  /\ Messages \subseteq Seq(MessageParts) /\ \A m \in Messages : m # << >>
  /\ \A c \in Clients : <<IdPart(c)>> \o Parts(c) \in Messages
<1>1. ASSUME NEW c \in Clients
      PROVE  <<IdPart(c)>> \o Parts(c) \in Seq(MessageParts) /\ <<IdPart(c)>> \o Parts(c) # << >>
  <2>1. IdPart(c) \in MessageParts /\ Parts(c) \in Seq(MessageParts)
    <3>1. IdPart(c) \in MessageParts /\ <<"empty">> \in MessageParts /\ <<"body", c>> \in MessageParts
      BY DEF MessageParts
    <3>2. Parts(c) = << <<"empty">>, <<"body", c>> >> \/ Parts(c) = << <<"body", c>> >>
      BY DEF Parts
    <3> DEFINE e == <<"empty">>
               b == <<"body", c>>
    <3>3. e \in MessageParts /\ b \in MessageParts /\ (Parts(c) = <<e, b>> \/ Parts(c) = <<b>>)
      BY <3>1, <3>2
    <3> HIDE DEF e, b, MessageParts
    <3>4. <<b>> \in Seq(MessageParts) /\ <<e, b>> \in Seq(MessageParts)
      BY <3>3
    <3> QED
      BY <3>1, <3>3, <3>4, Zenon
  <2> QED
    BY <2>1
<1> QED
  BY <1>1 DEF Messages

\* The next part goes from what is to be sent to what was sent.
LEMMA NextPart ==
  ASSUME NEW s \in Seq(MessageParts), NEW h \in Seq(MessageParts), h # << >>, s \o h \in Messages
  PROVE  /\ Append(s, Head(h)) \in Seq(MessageParts) /\ Append(s, Head(h)) # << >>
         /\ Append(s, Head(h)) \o Tail(h) \in Messages
         /\ ~(Len(h) > 1) => Append(s, Head(h)) \in Messages
<1> DEFINE a == Append(s, Head(h))
<1>1. /\ Len(s) \in Nat /\ Len(h) \in Nat /\ Len(h) >= 1 /\ Head(h) = h[1]
      /\ Head(h) \in MessageParts /\ Tail(h) \in Seq(MessageParts) /\ Len(Tail(h)) = Len(h) - 1
      /\ \A i \in 1..Len(h) - 1 : Tail(h)[i] = h[i + 1]
  BY EmptySeq, LenProperties, HeadTailProperties
<1>2. a \in Seq(MessageParts) /\ Len(a) = Len(s) + 1 /\ a[Len(s) + 1] = h[1] /\ \A i \in 1..Len(s) : a[i] = s[i]
  BY <1>1
<1> HIDE DEF a
<1>3. /\ s \o h \in Seq(MessageParts) /\ Len(s \o h) = Len(s) + Len(h)
      /\ \A i \in 1..Len(s) + Len(h) : (s \o h)[i] = IF i <= Len(s) THEN s[i] ELSE h[i - Len(s)]
  BY ConcatProperties
<1>4. a \o Tail(h) = s \o h
  <2>1. /\ a \o Tail(h) \in Seq(MessageParts) /\ Len(a \o Tail(h)) = Len(a) + Len(Tail(h))
        /\ \A i \in 1..Len(a) + Len(Tail(h)) :
             (a \o Tail(h))[i] = IF i <= Len(a) THEN a[i] ELSE Tail(h)[i - Len(a)]
    BY <1>1, <1>2, ConcatProperties
  <2>2. Len(a \o Tail(h)) = Len(s \o h)
    BY <1>1, <1>2, <1>3, <2>1
  <2>3. ASSUME NEW i \in 1..Len(a \o Tail(h)) PROVE (a \o Tail(h))[i] = (s \o h)[i]
    <3>1. CASE i <= Len(s)
      BY <1>1, <1>2, <1>3, <2>1, <3>1
    <3>2. CASE i = Len(s) + 1
      BY <1>1, <1>2, <1>3, <2>1, <3>2
    <3>3. CASE i > Len(s) + 1
      <4>1. i - Len(a) \in 1..Len(h) - 1 /\ (i - Len(a)) + 1 = i - Len(s)
        BY <1>1, <1>2, <2>1, <3>3
      <4>2. (a \o Tail(h))[i] = Tail(h)[i - Len(a)]
        BY <1>1, <1>2, <2>1, <3>3
      <4>3. (s \o h)[i] = h[i - Len(s)]
        BY <1>1, <1>2, <1>3, <2>1, <3>3
      <4>4. Tail(h)[i - Len(a)] = h[(i - Len(a)) + 1]
        BY <1>1, <4>1
      <4> QED
        BY <4>1, <4>2, <4>3, <4>4
    <3> QED
      BY <1>1, <1>2, <2>1, <3>1, <3>2, <3>3
  <2> QED
    BY <1>3, <2>1, <2>2, <2>3, SeqEqual
<1>5. ASSUME ~(Len(h) > 1) PROVE a = s \o h
  <2>1. Len(a) = Len(s \o h)
    BY <1>1, <1>2, <1>3, <1>5
  <2>2. \A i \in 1..Len(a) : a[i] = (s \o h)[i]
    BY <1>1, <1>2, <1>3, <1>5
  <2> QED
    BY <1>2, <1>3, <2>1, <2>2, SeqEqual
<1>6. a # << >>
  BY <1>1, <1>2
<1> QED
  BY <1>2, <1>4, <1>5, <1>6 DEF a

LEMMA TwoPipes ==
  ASSUME AtMostTwo, NEW l \in Lists(Compressors)
  PROVE  l.active <= 2
<1> SUFFICES ASSUME Len(l.pipes) >= 3 PROVE FALSE
  BY ListFacts
<1>1. l.pipes[1] \in Compressors /\ l.pipes[2] \in Compressors /\ l.pipes[3] \in Compressors
  <2>1. l.pipes \in Seq(Compressors) /\ Len(l.pipes) \in Nat
    BY ListFacts
  <2> QED
    BY <2>1
<1>2. l.pipes[1] # l.pipes[2] /\ l.pipes[1] # l.pipes[3] /\ l.pipes[2] # l.pipes[3]
  <2>1. 1 \in 1..Len(l.pipes) /\ 2 \in 1..Len(l.pipes) /\ 3 \in 1..Len(l.pipes)
    BY ListFacts
  <2> QED
    BY <2>1, ListFacts
<1> QED
  BY <1>1, <1>2 DEF AtMostTwo

\* The lists with which lb_t changes a flag.
LEMMA FlagKeeps ==
  ASSUME NEW S, NEW l \in Lists(S), NEW m \in BOOLEAN, NEW d \in BOOLEAN
  PROVE  /\ [l EXCEPT !.more = m, !.dropping = d] \in Lists(S)
         /\ [l EXCEPT !.more = m] \in Lists(S)
BY DEF Lists

LEMMA BackInit == Init => BackInv
<1> SUFFICES ASSUME Init PROVE BackInv
  OBVIOUS
<1>1. /\ conn \in [Compressors -> {"absent", None}]
      /\ out = [k \in Compressors |-> << >>] /\ part = [k \in Compressors |-> << >>]
      /\ lb = NoPipes /\ broker.pc = "poll"
  BY DEF Init
<1>2. lb \in Lists(Compressors) /\ lb.pipes = << >> /\ ~lb.more /\ ~lb.dropping
  BY <1>1 DEF NoPipes, Lists
<1>3. ToSet(lb.pipes) = Connected
  <2>1. ToSet(lb.pipes) = {}
    BY <1>2 DEF ToSet
  <2>2. Connected = {}
    BY <1>1 DEF Connected, None
  <2> QED
    BY <2>1, <2>2
<1>4. BackType
  BY <1>1, <1>2, <1>3 DEF BackType
<1>5. Sending
  BY <1>1, <1>2 DEF Sending
<1> QED
  BY <1>4, <1>5 DEF BackInv

LEMMA BackUnchanged ==
  ASSUME BackInv, UNCHANGED <<conn, lb, out, part, broker>>, Alive' => Alive
  PROVE  BackInv'
<1>1. BackType'
  BY DEF BackInv, BackType, Connected
<1>2. Sending => Sending'
  BY DEF Sending, Current
<1> QED
  BY <1>1, <1>2 DEF BackInv

\* While the current pipe stays current, so does what is being sent to it.
LEMMA SendingKept ==
  ASSUME Sending, UNCHANGED <<part, broker>>,
         lb'.more = lb.more, lb'.dropping = lb.dropping,
         lb.active > 0 => lb'.active > 0 /\ Current(lb') = Current(lb)
  PROVE  Sending'
BY DEF Sending, Current

LEMMA JoinKeeps ==
  ASSUME BackInv, NEW k \in Compressors, CompressorConnects(k)
  PROVE  BackInv'
<1>1. BackType /\ Sending /\ Alive
  BY DEF BackInv, CompressorConnects
<1>2. /\ conn[k] = None /\ conn' = [conn EXCEPT ![k] = "up"] /\ lb' = attach(lb, k)
      /\ UNCHANGED <<out, part, broker>>
  BY DEF CompressorConnects
<1>3. k \notin ToSet(lb.pipes)
  BY <1>1, <1>2 DEF BackType, Connected, None
<1>4. lb \in Lists(Compressors) /\ lb.active \in Nat
  BY <1>1, ListFacts DEF BackType
<1>5. /\ lb' \in Lists(Compressors) /\ ToSet(lb'.pipes) = ToSet(lb.pipes) \cup {k}
      /\ lb'.active = lb.active + 1 /\ lb'.more = lb.more /\ lb'.dropping = lb.dropping
      /\ lb.active > 0 => Current(lb') = Current(lb)
  BY <1>2, <1>3, <1>4, AttachKeeps
<1>6. ToSet(lb'.pipes) = Connected'
  BY <1>1, <1>2, <1>5 DEF BackType, Connected
<1>7. BackType'
  BY <1>1, <1>2, <1>5, <1>6 DEF BackType
<1>8. Sending'
  BY <1>1, <1>2, <1>4, <1>5, SendingKept
<1> QED
  BY <1>7, <1>8 DEF BackInv

LEMMA BreakKeeps ==
  ASSUME BackInv, NEW k \in Compressors, CompressorBreaks(k) \/ PipeTerm(k)
  PROVE  BackInv'
<1>1. BackType /\ Sending /\ Alive
  BY DEF BackInv, CompressorBreaks, PipeTerm
<1>2. /\ conn[k] \in {"up", "down"} /\ UNCHANGED <<lb, out, part, broker>>
      /\ \E n \in {"down", "closing"} : conn' = [conn EXCEPT ![k] = n]
  BY DEF CompressorBreaks, PipeTerm
<1>3. Connected' = Connected
  BY <1>1, <1>2 DEF BackType, Connected
<1>4. BackType'
  BY <1>1, <1>2, <1>3 DEF BackType
<1>5. Sending'
  BY <1>1, <1>2 DEF Sending, Current
<1> QED
  BY <1>4, <1>5 DEF BackInv

LEMMA RoomKeeps ==
  ASSUME BackInv, NEW k \in Compressors, RoomAgain(k)
  PROVE  BackInv'
<1>1. BackType /\ Sending /\ Alive
  BY DEF BackInv, RoomAgain
<1>2. /\ conn[k] = "up" /\ ~IsActive(lb, k) /\ lb' = activated(lb, k)
      /\ UNCHANGED <<conn, out, part, broker>>
  BY DEF RoomAgain
<1>3. k \in ToSet(lb.pipes) /\ lb \in Lists(Compressors) /\ lb.active \in Nat
  BY <1>1, <1>2, ListFacts DEF BackType, Connected
<1>4. /\ lb' \in Lists(Compressors) /\ ToSet(lb'.pipes) = ToSet(lb.pipes)
      /\ lb'.active = lb.active + 1 /\ lb'.more = lb.more /\ lb'.dropping = lb.dropping
      /\ lb.active > 0 => Current(lb') = Current(lb)
  BY <1>2, <1>3, ActivatedKeeps
<1>5. BackType'
  BY <1>1, <1>2, <1>4 DEF BackType, Connected
<1>6. Sending'
  BY <1>1, <1>2, <1>3, <1>4, SendingKept
<1> QED
  BY <1>5, <1>6 DEF BackInv

\* The pipe that goes is not the current one, which then stays current as it is
\* one of two, or it is, and the rest of its message is dropped.
LEMMA PipeGoneKeeps ==
  ASSUME AtMostTwo, BackInv, NEW k \in Compressors, PipeGone(k)
  PROVE  BackInv'
<1>1. BackType /\ Sending /\ Alive
  BY DEF BackInv, PipeGone
<1>2. /\ conn[k] = "closing" /\ conn' = [conn EXCEPT ![k] = "gone"] /\ lb' = terminated(lb, k)
      /\ part' = [part EXCEPT ![k] = << >>] /\ out' = [out EXCEPT ![k] = << >>]
      /\ UNCHANGED broker
  BY DEF PipeGone
<1>3. k \in ToSet(lb.pipes) /\ lb \in Lists(Compressors) /\ lb.active \in Nat /\ lb.active <= 2
  BY <1>1, <1>2, ListFacts, TwoPipes DEF BackType, Connected
<1>4. /\ lb' \in Lists(Compressors) /\ ToSet(lb'.pipes) = ToSet(lb.pipes) \ {k}
      /\ lb'.more = lb.more
      /\ lb.active > 0 => lb'.dropping = (lb.dropping \/ (lb.more /\ k = Current(lb)))
      /\ lb.dropping => lb'.dropping
      /\ ~lb.more => lb'.dropping = lb.dropping
      /\ lb.active \in 1..2 /\ k # Current(lb) => lb'.active > 0 /\ Current(lb') = Current(lb)
  BY <1>2, <1>3, TerminatedKeeps
<1>5. ToSet(lb'.pipes) = Connected'
  BY <1>1, <1>2, <1>4 DEF BackType, Connected
<1>6. out' \in [Compressors -> Seq(Messages)] /\ part' \in [Compressors -> Seq(MessageParts)]
  <2>1. << >> \in Seq(Messages) /\ << >> \in Seq(MessageParts)
    BY EmptySeq
  <2> QED
    BY <1>1, <1>2, <2>1 DEF BackType
<1>7. BackType'
  BY <1>1, <1>2, <1>4, <1>5, <1>6 DEF BackType
<1>8. \A j \in Compressors : part'[j] = IF j = k THEN << >> ELSE part[j]
  BY <1>1, <1>2 DEF BackType
<1>9. Sending'
  <2>1. CASE lb.more /\ ~lb.dropping /\ k = Current(lb)
    <3>1. lb'.dropping /\ lb'.more
      BY <1>1, <1>4, <2>1 DEF Sending
    <3>2. \A j \in Compressors : part'[j] = << >>
      BY <1>1, <1>8, <2>1 DEF Sending
    <3> QED
      BY <1>1, <1>2, <1>4, <2>1, <3>1, <3>2 DEF Sending
  <2>2. CASE lb.more /\ ~lb.dropping /\ k # Current(lb)
    <3>1. lb.active \in 1..2
      BY <1>1, <1>3, <2>2 DEF Sending
    <3>2. /\ lb'.active > 0 /\ Current(lb') = Current(lb) /\ ~lb'.dropping /\ lb'.more
      <4>1. lb'.dropping = (lb.dropping \/ (lb.more /\ k = Current(lb)))
        BY <1>4, <3>1
      <4>2. ~lb'.dropping
        BY <2>2, <4>1, Zenon
      <4> QED
        BY <1>4, <2>2, <3>1, <4>2
    <3>3. Current(lb) \in Compressors
      <4>1. lb.cur \in 1..Len(lb.pipes) /\ lb.pipes \in Seq(Compressors)
        BY <1>3, <3>1, ListFacts
      <4> QED
        BY <4>1, ElementOfSeq DEF Current
    <3>4. part'[Current(lb)] = part[Current(lb)]
      BY <1>8, <2>2, <3>3
    <3> QED
      BY <1>1, <1>2, <1>8, <2>2, <3>2, <3>4 DEF Sending
  <2>3. CASE lb.more /\ lb.dropping
    <3>1. lb'.dropping /\ lb'.more
      BY <1>4, <2>3
    <3>2. \A j \in Compressors : part'[j] = << >>
      BY <1>1, <1>8, <2>3 DEF Sending
    <3> QED
      BY <1>1, <1>2, <2>3, <3>1, <3>2 DEF Sending
  <2>4. CASE ~lb.more
    <3>1. ~lb'.dropping /\ ~lb'.more
      BY <1>1, <1>4, <2>4 DEF Sending
    <3>2. \A j \in Compressors : part'[j] = << >>
      BY <1>1, <1>8, <2>4 DEF Sending
    <3> QED
      BY <1>1, <1>2, <2>4, <3>1, <3>2 DEF Sending
  <2> QED
    BY <2>1, <2>2, <2>3, <2>4
<1> QED
  BY <1>7, <1>9 DEF BackInv

LEMMA ReceiveKeeps ==
  ASSUME BackInv, NEW k \in Compressors, Receive(k)
  PROVE  BackInv'
<1>1. BackType
  BY DEF BackInv
<1>2. /\ out[k] # << >> /\ out' = [out EXCEPT ![k] = Tail(out[k])]
      /\ UNCHANGED <<conn, lb, part, broker, failed>>
  BY DEF Receive
<1>3. Tail(out[k]) \in Seq(Messages)
  <2>1. out[k] \in Seq(Messages)
    BY <1>1 DEF BackType
  <2> QED
    BY <1>2, <2>1, HeadTailProperties
<1>4. BackType'
  BY <1>1, <1>2, <1>3 DEF BackType, Connected
<1>5. Sending => Sending'
  BY <1>2 DEF Sending, Current
<1> QED
  BY <1>2, <1>4, <1>5 DEF BackInv, Alive

LEMMA PollSends ==
  ASSUME FrontInv, BackInv, Poll
  PROVE  BackInv'
<1> DEFINE f == Skip(fq, FrontReady)
           c == f.pipes[f.cur]
           msg == IF f.active > 0 THEN <<IdPart(c)>> \o in[c] ELSE << >>
<1>1. BackType /\ Sending /\ Alive /\ broker.pc = "poll"
  BY DEF BackInv, Poll, At
<1>2. UNCHANGED <<conn, out, part, failed>> /\ lb' = has_out(lb, Takes)
  BY DEF Poll
<1>3. msg # << >> => msg \in Messages
  <2>1. f.active > 0 => c \in ids /\ in[c] = Parts(c)
    BY PollFront
  <2>2. ids \subseteq Clients
    BY DEF FrontInv, Table
  <2> HIDE DEF f, c
  <2> QED
    BY <2>1, <2>2, MessageSeq
<1>4. broker'.pc = "fwd" => broker'.hold = msg /\ msg # << >>
  BY DEF Poll
<1> HIDE DEF msg
<1>5. ~lb.more /\ ~lb.dropping
  BY <1>1 DEF Sending
<1>6. broker'.pc = "fwd" => broker'.hold \in Messages /\ broker'.hold \in Seq(MessageParts) /\ broker'.hold # << >>
  BY <1>3, <1>4, MessageSeq
<1>7. /\ lb' \in Lists(Compressors) /\ ToSet(lb'.pipes) = ToSet(lb.pipes)
      /\ ~lb'.more /\ ~lb'.dropping
  BY <1>1, <1>2, <1>5, HasOutKeeps DEF BackType
<1>8. Sending'
  BY <1>1, <1>2, <1>5, <1>6, <1>7 DEF Sending
<1>9. BackType'
  BY <1>1, <1>2, <1>7 DEF BackType, Connected
<1> QED
  BY <1>8, <1>9 DEF BackInv

LEMMA ReplySends ==
  ASSUME FrontInv, BackInv, FrontSendId \/ FrontSendBody
  PROVE  BackInv'
<1>1. BackType /\ Sending /\ FrontType /\ broker.pc \in {"reply", "body"}
  BY DEF BackInv, FrontInv, FrontSendId, FrontSendBody, At
<1>2. UNCHANGED <<conn, lb, out, part>>
  BY DEF FrontSendId, FrontSendBody, backVars
<1>3. broker'.pc # "fwd"
  <2>1. broker' = [broker EXCEPT !.pc = "body"] \/ broker' = Done
    BY DEF FrontSendId, FrontSendBody
  <2> QED
    BY <1>1, <2>1, DoneIs DEF FrontType
<1>4. Sending'
  BY <1>1, <1>2, <1>3 DEF Sending, Current
<1>5. BackType'
  BY <1>1, <1>2 DEF BackType, Connected
<1> QED
  BY <1>4, <1>5 DEF BackInv

\* lb_t::send of one part: dropped with the rest of its message, refused inside a
\* message, which stops the broker, or written to the current pipe.
LEMMA PartSends ==
  ASSUME FrontInv, BackInv, BackSend
  PROVE  BackInv'
<1> DEFINE more == Len(broker.hold) > 1
           l == Skip(lb, Takes)
           k == l.pipes[l.cur]
           msg == Append(part[k], Head(broker.hold))
<1>1. BackType /\ Sending /\ Alive /\ broker.pc = "fwd" /\ FrontType
  BY DEF BackInv, BackSend, At, FrontInv
<1>2. UNCHANGED conn
  BY DEF BackSend
<1>3. broker' = IF more THEN [broker EXCEPT !.hold = Tail(broker.hold)] ELSE Done
  BY DEF BackSend
<1>4. /\ more => broker'.pc = "fwd" /\ broker'.hold = Tail(broker.hold)
      /\ ~more => broker'.pc # "fwd"
  BY <1>1, <1>3, DoneIs DEF FrontType
<1>5. broker.hold \in Seq(MessageParts) /\ broker.hold # << >>
  BY <1>1 DEF Sending
<1>6. lb \in Lists(Compressors) /\ lb.more \in BOOLEAN /\ lb.dropping \in BOOLEAN
  BY <1>1, ListFacts DEF BackType
<1>7. more => Tail(broker.hold) \in Seq(MessageParts) /\ Tail(broker.hold) # << >>
  <2>1. Tail(broker.hold) \in Seq(MessageParts) /\ Len(Tail(broker.hold)) = Len(broker.hold) - 1
    BY <1>5, HeadTailProperties
  <2>2. more => Len(Tail(broker.hold)) # 0
    <3>1. PICK n \in Nat : n = Len(broker.hold)
      BY <1>5, LenProperties
    <3>2. n > 1 => n - 1 # 0
      OBVIOUS
    <3> QED
      BY <2>1, <3>1, <3>2, Zenon
  <2> QED
    BY <2>1, <2>2, EmptySeq
<1>8. \/ /\ lb.dropping
         /\ lb' = [lb EXCEPT !.more = more, !.dropping = more]
         /\ UNCHANGED <<out, part>>
      \/ /\ failed' # {}
         /\ UNCHANGED <<lb, out, part>>
      \/ /\ ~lb.dropping /\ l.active > 0
         /\ lb.more => lb.pipes[lb.cur] \in Takes
         /\ lb' = Sent(l, more)
         /\ part' = [part EXCEPT ![k] = IF more THEN msg ELSE << >>]
         /\ out' = IF more THEN out ELSE [out EXCEPT ![k] = Append(out[k], msg)]
  BY DEF BackSend, Fails
<1>9. CASE lb.dropping /\ lb' = [lb EXCEPT !.more = more, !.dropping = more] /\ UNCHANGED <<out, part>>
  <2>1. more \in BOOLEAN
    OBVIOUS
  <2> HIDE DEF more, l, k, msg
  <2>2. lb' \in Lists(Compressors) /\ lb'.pipes = lb.pipes /\ lb'.more = more /\ lb'.dropping = more
    <3>1. lb' \in Lists(Compressors)
      BY <1>6, <1>9, <2>1, FlagKeeps
    <3> QED
      BY <1>6, <1>9, <3>1 DEF Lists
  <2>3. \A j \in Compressors : part'[j] = << >>
    BY <1>1, <1>9 DEF Sending
  <2>4. Sending'
    BY <1>4, <1>7, <2>1, <2>2, <2>3 DEF Sending
  <2>5. BackType'
    BY <1>1, <1>2, <1>9, <2>2 DEF BackType, Connected
  <2> QED
    BY <2>4, <2>5 DEF BackInv
<1>10. CASE failed' # {} /\ UNCHANGED <<lb, out, part>>
  <2>1. BackType'
    BY <1>1, <1>2, <1>10 DEF BackType, Connected
  <2> QED
    BY <1>10, <2>1 DEF BackInv, Alive
<1>11. CASE /\ ~lb.dropping /\ l.active > 0
            /\ lb.more => lb.pipes[lb.cur] \in Takes
            /\ lb' = Sent(l, more)
            /\ part' = [part EXCEPT ![k] = IF more THEN msg ELSE << >>]
            /\ out' = IF more THEN out ELSE [out EXCEPT ![k] = Append(out[k], msg)]
  <2>1. /\ l \in Lists(Compressors) /\ ToSet(l.pipes) = ToSet(lb.pipes)
        /\ l.more = lb.more /\ l.dropping = lb.dropping
        /\ lb.active > 0 /\ Current(lb) \in Takes => l = lb
    BY <1>6, SkipKeeps
  <2>2. k \in Compressors /\ k = Current(l)
    <3> HIDE DEF l
    <3>1. l.pipes \in Seq(Compressors) /\ l.cur \in 1..Len(l.pipes)
      BY <1>11, <2>1, ListFacts
    <3> QED
      BY <3>1, ElementOfSeq DEF Current
  <2>3. part[k] \in Seq(MessageParts) /\ out[k] \in Seq(Messages)
    BY <1>1, <2>2 DEF BackType
  <2>4. part[k] \o broker.hold \in Messages
    <3>1. CASE lb.more
      <4>1. lb.active > 0 /\ part[Current(lb)] \o broker.hold \in Messages
        BY <1>1, <1>11, <3>1 DEF Sending
      <4>2. l = lb
        BY <1>11, <2>1, <3>1, <4>1 DEF Current
      <4> QED
        BY <2>2, <4>1, <4>2
    <3>2. CASE ~lb.more
      <4>1. part[k] = << >> /\ broker.hold \in Messages
        BY <1>1, <2>2, <3>2 DEF Sending
      <4>2. << >> \o broker.hold = broker.hold
        BY <1>5, ConcatEmptySeq
      <4> QED
        BY <4>1, <4>2
    <3> QED
      BY <3>1, <3>2
  <2>5. \A j \in Compressors : j # k => part[j] = << >>
    <3> SUFFICES ASSUME NEW j \in Compressors, j # k, part[j] # << >> PROVE FALSE
      OBVIOUS
    <3>1. lb.more /\ lb.active > 0 /\ j = Current(lb)
      BY <1>1 DEF Sending
    <3>2. l = lb
      BY <1>11, <2>1, <3>1 DEF Current
    <3> QED
      BY <2>2, <3>1, <3>2
  <2>6. /\ msg \in Seq(MessageParts) /\ msg # << >>
        /\ msg \o Tail(broker.hold) \in Messages
        /\ ~more => msg \in Messages
    <3> HIDE DEF k, l
    <3> QED
      BY <1>5, <2>3, <2>4, NextPart
  <2> HIDE DEF l, k, msg
  <2>7. CASE more
    <3>1. lb' = [l EXCEPT !.more = TRUE] /\ part' = [part EXCEPT ![k] = msg] /\ out' = out
      BY <1>11, <2>7 DEF Sent
    <3>2. /\ lb' \in Lists(Compressors) /\ lb'.pipes = l.pipes /\ lb'.more /\ ~lb'.dropping
          /\ lb'.active = l.active /\ Current(lb') = Current(l)
      <4>1. lb' \in Lists(Compressors)
        BY <2>1, <3>1, FlagKeeps
      <4> QED
        BY <1>11, <2>1, <3>1, <4>1 DEF Lists, Current
    <3>3. BackType'
      BY <1>1, <1>2, <2>1, <2>6, <3>1, <3>2 DEF BackType, Connected
    <3>4. \A j \in Compressors : part'[j] = IF j = k THEN msg ELSE << >>
      BY <1>1, <2>5, <3>1 DEF BackType
    <3>5. part'[Current(lb')] \o broker'.hold \in Messages
      BY <1>4, <2>2, <2>6, <2>7, <3>2, <3>4
    <3>6. Sending'
      BY <1>4, <1>7, <1>11, <2>2, <2>7, <3>2, <3>4, <3>5 DEF Sending
    <3> QED
      BY <3>3, <3>6 DEF BackInv
  <2>8. CASE ~more
    <3> DEFINE t == [l EXCEPT !.more = FALSE]
    <3>1. lb' = Turn(t) /\ part' = [part EXCEPT ![k] = << >>] /\ out' = [out EXCEPT ![k] = Append(out[k], msg)]
      BY <1>11, <2>8 DEF Sent
    <3>2. t \in Lists(Compressors) /\ t.pipes = l.pipes /\ ~t.more /\ ~t.dropping
      <4>1. t \in Lists(Compressors)
        BY <2>1, FlagKeeps
      <4> QED
        BY <1>11, <2>1, <4>1 DEF Lists
    <3> HIDE DEF t
    <3>3. lb' \in Lists(Compressors) /\ lb'.pipes = l.pipes /\ ~lb'.more /\ ~lb'.dropping
      BY <3>1, <3>2, TurnKeeps
    <3>4. Append(out[k], msg) \in Seq(Messages) /\ << >> \in Seq(MessageParts)
      BY <2>3, <2>6, <2>8
    <3>5. BackType'
      BY <1>1, <1>2, <2>1, <3>1, <3>3, <3>4 DEF BackType, Connected
    <3>6. \A j \in Compressors : part'[j] = << >>
      BY <1>1, <2>5, <3>1 DEF BackType
    <3>7. Sending'
      BY <1>4, <2>8, <3>3, <3>6 DEF Sending
    <3> QED
      BY <3>5, <3>7 DEF BackInv
  <2> QED
    BY <2>7, <2>8
<1> HIDE DEF more, l, k, msg
<1> QED
  BY <1>8, <1>9, <1>10, <1>11

\* No step but that of a pipe that goes asks how many compressors there are.
LEMMA BackStepBut ==
  ASSUME FrontInv, BackInv, [Next]_vars, \A k \in Compressors : ~PipeGone(k)
  PROVE  BackInv'
<1>1. CASE \E c \in Clients : FrontCommand(c)
  <2>1. Alive /\ UNCHANGED <<conn, lb, out, part, broker>>
    BY <1>1 DEF FrontCommand, ClientConnects, MessageArrives, ClientLeaves, ClientGone, backVars
  <2> QED
    BY <2>1, BackUnchanged
<1>2. ASSUME NEW k \in Compressors,
             CompressorConnects(k) \/ CompressorBreaks(k) \/ BackCommand(k) \/ Receive(k)
      PROVE  BackInv'
  BY <1>2, JoinKeeps, BreakKeeps, RoomKeeps, ReceiveKeeps DEF BackCommand
<1>3. ASSUME NEW k \in Compressors, Reply(k) PROVE BackInv'
  <2>1. UNCHANGED <<conn, lb, out, part, broker, failed>>
    BY <1>3 DEF Reply
  <2> QED
    BY <2>1, BackUnchanged DEF Alive
<1>4. CASE BrokerStep
  BY <1>4, PollSends, PartSends, ReplySends DEF BrokerStep
<1>5. CASE UNCHANGED vars
  <2>1. UNCHANGED <<conn, lb, out, part, broker, failed>>
    BY <1>5 DEF vars, backVars
  <2> QED
    BY <2>1, BackUnchanged DEF Alive
<1> QED
  BY <1>1, <1>2, <1>3, <1>4, <1>5 DEF Next

LEMMA BackStep ==
  ASSUME AtMostTwo, FrontInv, BackInv, [Next]_vars
  PROVE  BackInv'
<1>1. CASE \E k \in Compressors : PipeGone(k)
  BY <1>1, PipeGoneKeeps
<1>2. CASE \A k \in Compressors : ~PipeGone(k)
  BY <1>2, BackStepBut
<1> QED
  BY <1>1, <1>2

\* With at most two compressors a message of several parts goes whole to one of
\* them or to none, whichever connections come, break, fill and recover between
\* its parts. With three it does not: lb_t::terminated loses the current pipe.
THEOREM TwoGetWholeMessages ==
  ASSUME AtMostTwo
  PROVE  Spec => []WholeMessages
<1>1. FrontInv /\ BackInv /\ [Next]_vars => FrontInv' /\ BackInv'
  BY FrontStep, BackStep
<1>2. BackInv => WholeMessages
  <2> SUFFICES ASSUME BackInv, NEW k \in Compressors, NEW i \in DOMAIN out[k] PROVE Whole(out[k][i])
    BY DEF WholeMessages
  <2>1. out[k] \in Seq(Messages)
    BY DEF BackInv, BackType
  <2>2. out[k][i] \in Messages
    BY <2>1
  <2> QED
    BY <2>2 DEF Messages, Whole
<1> QED
  BY <1>1, <1>2, FrontInit, BackInit, PTL DEF Spec

-----------------------------------------------------------------------------
\* Every message at most once. The parts before the last one of a message, and
\* what reaches a compressor: parts that end with the body of one message.
Body(c) == <<"body", c>>
Heads == {IdPart(c) : c \in Clients} \cup {<<"empty">>}
Carries(s, c) == s # << >> /\ s[Len(s)] = Body(c)
Pieces ==
  {s \in Seq(MessageParts) :
     /\ \E c \in Clients : Carries(s, c)
     /\ \A i \in 1..Len(s) : i < Len(s) => s[i] \in Heads}

BackLists ==
  /\ conn \in [Compressors -> {"absent", None, "up", "down", "closing", "gone"}]
  /\ lb \in Lists(Compressors) /\ ToSet(lb.pipes) = Connected

OnceType ==
  /\ BackLists
  /\ out \in [Compressors -> Seq(Pieces)] /\ part \in [Compressors -> Seq(Heads)]
  /\ handled \in [Clients -> {0, 1}]
  /\ broker.pc = "fwd" => broker.hold \in Pieces

\* The message of a client is yet to be read, held by the broker, or waits for a
\* compressor, in one place, or it was handled.
Unsent(c) == client[c] = None \/ in[c] # << >>
Held(c) == broker.pc = "fwd" /\ Carries(broker.hold, c)
Stored(c, k, i) == i \in 1..Len(out[k]) /\ Carries(out[k][i], c)

Once ==
  \A c \in Clients :
    /\ Unsent(c) => handled[c] = 0 /\ ~Held(c)
    /\ Held(c) => handled[c] = 0
    /\ \A k \in Compressors, i \in Nat : Stored(c, k, i) =>
         /\ handled[c] = 0 /\ ~Unsent(c) /\ ~Held(c)
         /\ \A m \in Compressors, j \in Nat : Stored(c, m, j) => m = k /\ j = i

OnceInv == OnceType /\ Once

LEMMA PartNames ==
  /\ \A c, d \in Clients : Body(c) = Body(d) => c = d
  /\ \A c \in Clients : Body(c) \notin Heads /\ Body(c) \in MessageParts /\ Body(c)[1] = "body"
  /\ \A x \in Heads : x \in MessageParts /\ x[1] # "body"
  /\ \A x \in MessageParts : x \in Heads \/ \E c \in Clients : x = Body(c)
<1>1. \A c \in Clients : Body(c)[1] = "body" /\ Body(c)[2] = c /\ Body(c) \in MessageParts
  BY DEF Body, MessageParts
<1>2. \A x \in Heads : x \in MessageParts /\ x[1] # "body"
  BY DEF Heads, MessageParts, IdPart
<1>3. \A x \in MessageParts : x \in Heads \/ \E c \in Clients : x = Body(c)
  BY DEF Heads, MessageParts, Body
<1> QED
  BY <1>1, <1>2, <1>3

LEMMA PieceFacts ==
  ASSUME NEW s \in Pieces
  PROVE  /\ s \in Seq(MessageParts) /\ s # << >> /\ Len(s) \in Nat /\ Len(s) >= 1
         /\ \A i \in 1..Len(s) : i < Len(s) => s[i] \in Heads
         /\ \E c \in Clients : Carries(s, c)
<1>1. s \in Seq(MessageParts) /\ s # << >>
  BY DEF Pieces, Carries
<1>2. Len(s) \in Nat /\ Len(s) # 0
  BY <1>1, LenProperties, EmptySeq
<1> QED
  BY <1>1, <1>2 DEF Pieces

\* The next part of a message belongs to the same message.
LEMMA NextPiece ==
  ASSUME NEW p \in Seq(Heads), NEW h \in Pieces
  PROVE  /\ Len(h) > 1 =>
              /\ Append(p, Head(h)) \in Seq(Heads) /\ Tail(h) \in Pieces
              /\ \A c : Carries(Tail(h), c) <=> Carries(h, c)
         /\ ~(Len(h) > 1) =>
              /\ Append(p, Head(h)) \in Pieces
              /\ \A c : Carries(Append(p, Head(h)), c) <=> Carries(h, c)
<1>1. /\ h \in Seq(MessageParts) /\ h # << >> /\ Len(h) \in Nat /\ Len(h) >= 1
      /\ \A i \in 1..Len(h) : i < Len(h) => h[i] \in Heads
      /\ \E c \in Clients : Carries(h, c)
  BY PieceFacts
<1>2. /\ Head(h) = h[1] /\ Tail(h) \in Seq(MessageParts) /\ Len(Tail(h)) = Len(h) - 1
      /\ \A i \in 1..Len(h) - 1 : Tail(h)[i] = h[i + 1]
  BY <1>1, HeadTailProperties
<1>3. CASE Len(h) > 1
  <2>1. h[1] \in Heads
    BY <1>1, <1>3
  <2>2. Append(p, Head(h)) \in Seq(Heads)
    BY <1>2, <2>1
  <2> DEFINE t == Tail(h)
  <2>3. Len(t) \in Nat /\ Len(t) >= 1 /\ t # << >> /\ t[Len(t)] = h[Len(h)]
    BY <1>1, <1>2, <1>3, EmptySeq
  <2>4. \A i \in 1..Len(t) : i < Len(t) => t[i] \in Heads
    BY <1>1, <1>2
  <2>5. t \in Seq(MessageParts)
    BY <1>2
  <2> HIDE DEF t
  <2>6. \A c : Carries(t, c) <=> Carries(h, c)
    BY <1>1, <2>3 DEF Carries
  <2>7. t \in Pieces
    BY <1>1, <2>4, <2>5, <2>6 DEF Pieces
  <2> QED
    BY <1>3, <2>2, <2>6, <2>7 DEF t
<1>4. CASE ~(Len(h) > 1)
  <2> DEFINE a == Append(p, h[1])
  <2>1. p \in Seq(MessageParts) /\ Len(p) \in Nat /\ \A i \in 1..Len(p) : p[i] \in Heads
    <3>1. Heads \subseteq MessageParts
      BY PartNames
    <3> QED
      BY <3>1
  <2>2. Len(h) = 1
    <3>1. PICK n \in Nat : n = Len(h) /\ n >= 1
      BY <1>1
    <3>2. ~(n > 1) => n = 1
      BY <3>1
    <3> QED
      BY <1>4, <3>1, <3>2, Zenon
  <2>3. h[1] \in MessageParts
    BY <1>1, <2>2
  <2>4. /\ a \in Seq(MessageParts) /\ Len(a) = Len(p) + 1 /\ a[Len(p) + 1] = h[1]
        /\ \A i \in 1..Len(p) : a[i] = p[i]
    BY <2>1, <2>3
  <2> HIDE DEF a
  <2>5. a # << >>
    BY <2>1, <2>4
  <2>6. \A c : Carries(a, c) <=> Carries(h, c)
    BY <1>1, <2>1, <2>2, <2>4, <2>5 DEF Carries
  <2>7. \A i \in 1..Len(a) : i < Len(a) => a[i] \in Heads
    BY <2>1, <2>4
  <2>8. a \in Pieces
    BY <1>1, <2>4, <2>6, <2>7 DEF Pieces
  <2> QED
    BY <1>2, <1>4, <2>6, <2>8 DEF a
<1> QED
  BY <1>3, <1>4

\* The message of a client carries its own body and no other's.
LEMMA ClientPiece ==
  ASSUME NEW c \in Clients
  PROVE  LET m == <<IdPart(c)>> \o Parts(c) IN
         /\ m \in Pieces /\ \A d \in Clients : Carries(m, d) => d = c
         /\ Carries(m, c)
         /\ c \notin ReqClients => Len(m) = 2 /\ m[2] = Body(c)
<1> DEFINE m == <<IdPart(c)>> \o Parts(c)
           i == IdPart(c)
           e == <<"empty">>
           b == Body(c)
<1>1. i \in Heads /\ e \in Heads /\ b \in MessageParts /\ Heads \subseteq MessageParts
  <2>1. i \in Heads /\ e \in Heads
    BY DEF Heads
  <2> QED
    BY <2>1, PartNames
<1>2. m = IF c \in ReqClients THEN <<i>> \o <<e, b>> ELSE <<i>> \o <<b>>
  BY DEF Parts, Body
<1> HIDE DEF i, e, b
<1>3. /\ <<i>> \in Seq(MessageParts) /\ Len(<<i>>) = 1 /\ <<i>>[1] = i
      /\ <<b>> \in Seq(MessageParts) /\ Len(<<b>>) = 1 /\ <<b>>[1] = b
      /\ <<e, b>> \in Seq(MessageParts) /\ Len(<<e, b>>) = 2 /\ <<e, b>>[1] = e /\ <<e, b>>[2] = b
  BY <1>1
<1> HIDE DEF m
<1>4. /\ m \in Seq(MessageParts) /\ m # << >> /\ m[Len(m)] = b
      /\ \A n \in 1..Len(m) : n < Len(m) => m[n] \in Heads
      /\ c \notin ReqClients => Len(m) = 2 /\ m[2] = b
  <2>1. CASE c \in ReqClients
    <3>1. m = <<i>> \o <<e, b>>
      BY <1>2, <2>1
    <3>2. /\ m \in Seq(MessageParts) /\ Len(m) = 3
          /\ m[1] = i /\ m[2] = e /\ m[3] = b
      BY <1>3, <3>1, ConcatProperties
    <3>3. \A n \in 1..3 : n < 3 => m[n] \in Heads
      <4>1. \A n \in 1..3 : n < 3 => n = 1 \/ n = 2
        OBVIOUS
      <4> QED
        BY <1>1, <3>2, <4>1
    <3>4. m # << >>
      BY <3>2, EmptySeq
    <3> QED
      BY <2>1, <3>2, <3>3, <3>4
  <2>2. CASE c \notin ReqClients
    <3>1. m = <<i>> \o <<b>>
      BY <1>2, <2>2
    <3>2. /\ m \in Seq(MessageParts) /\ Len(m) = 2
          /\ m[1] = i /\ m[2] = b
      BY <1>3, <3>1, ConcatProperties
    <3>3. \A n \in 1..2 : n < 2 => m[n] \in Heads
      <4>1. \A n \in 1..2 : n < 2 => n = 1
        OBVIOUS
      <4> QED
        BY <1>1, <3>2, <4>1
    <3>4. m # << >>
      BY <3>2, EmptySeq
    <3> QED
      BY <3>2, <3>3, <3>4
  <2> QED
    BY <2>1, <2>2
<1>5. Carries(m, c)
  BY <1>4 DEF Carries, b
<1>6. m \in Pieces
  BY <1>4, <1>5 DEF Pieces
<1>7. \A d \in Clients : Carries(m, d) => d = c
  BY <1>4, PartNames DEF Carries, b
<1> QED
  BY <1>4, <1>5, <1>6, <1>7 DEF m, b

\* compressimage.lua takes the second part for the payload; only when it is the
\* last one is it the body of a message.
LEMMA HandlesPiece ==
  ASSUME NEW m \in Pieces, Len(m) > 1, m[2][1] = "body"
  PROVE  \E c \in Clients : m[2] = <<"body", c>> /\ m[2][2] = c /\ Carries(m, c)
<1>1. /\ m \in Seq(MessageParts) /\ m # << >> /\ Len(m) \in Nat
      /\ \A i \in 1..Len(m) : i < Len(m) => m[i] \in Heads
  BY PieceFacts
<1>2. m[2] \in MessageParts /\ m[2] \notin Heads
  BY <1>1, PartNames
<1>3. PICK c \in Clients : m[2] = Body(c)
  BY <1>2, PartNames
<1>4. ~(2 < Len(m))
  <2>1. 2 \in 1..Len(m)
    BY <1>1
  <2> QED
    BY <1>1, <1>2, <2>1, Zenon
<1>5. Len(m) = 2
  <2>1. PICK n \in Nat : n = Len(m) /\ n > 1 /\ ~(2 < n)
    BY <1>1, <1>4, Zenon
  <2>2. n = 2
    BY <2>1
  <2> QED
    BY <2>1, <2>2
<1> QED
  BY <1>1, <1>3, <1>5 DEF Carries, Body

\* lb_t's list and the connections agree, whatever breaks.
LEMMA ListsStep ==
  ASSUME BackLists, [Next]_vars, ~BackSend
  PROVE  BackLists'
<1>1. /\ conn \in [Compressors -> {"absent", None, "up", "down", "closing", "gone"}]
      /\ lb \in Lists(Compressors) /\ ToSet(lb.pipes) = Connected
  BY DEF BackLists
<1>2. ASSUME NEW k \in Compressors, CompressorConnects(k) PROVE BackLists'
  <2>1. conn[k] = None /\ conn' = [conn EXCEPT ![k] = "up"] /\ lb' = attach(lb, k)
    BY <1>2 DEF CompressorConnects
  <2>2. k \notin ToSet(lb.pipes)
    BY <1>1, <2>1 DEF Connected, None
  <2>3. lb' \in Lists(Compressors) /\ ToSet(lb'.pipes) = ToSet(lb.pipes) \cup {k}
    BY <1>1, <2>1, <2>2, AttachKeeps
  <2>4. Connected' = Connected \cup {k}
    BY <1>1, <2>1 DEF Connected
  <2> QED
    BY <1>1, <2>1, <2>3, <2>4 DEF BackLists
<1>3. ASSUME NEW k \in Compressors, CompressorBreaks(k) \/ PipeTerm(k) PROVE BackLists'
  <2>1. /\ conn[k] \in {"up", "down"} /\ lb' = lb
        /\ \E n \in {"down", "closing"} : conn' = [conn EXCEPT ![k] = n]
    BY <1>3 DEF CompressorBreaks, PipeTerm
  <2>2. Connected' = Connected
    BY <1>1, <2>1 DEF Connected
  <2> QED
    BY <1>1, <2>1, <2>2 DEF BackLists
<1>4. ASSUME NEW k \in Compressors, PipeGone(k) PROVE BackLists'
  <2>1. conn[k] = "closing" /\ conn' = [conn EXCEPT ![k] = "gone"] /\ lb' = terminated(lb, k)
    BY <1>4 DEF PipeGone
  <2>2. k \in ToSet(lb.pipes)
    BY <1>1, <2>1 DEF Connected
  <2>3. lb' \in Lists(Compressors) /\ ToSet(lb'.pipes) = ToSet(lb.pipes) \ {k}
    BY <1>1, <2>1, <2>2, TerminatedKeeps
  <2>4. Connected' = Connected \ {k}
    BY <1>1, <2>1 DEF Connected
  <2> QED
    BY <1>1, <2>1, <2>3, <2>4 DEF BackLists
<1>5. ASSUME NEW k \in Compressors, RoomAgain(k) PROVE BackLists'
  <2>1. conn[k] = "up" /\ ~IsActive(lb, k) /\ lb' = activated(lb, k) /\ conn' = conn
    BY <1>5 DEF RoomAgain
  <2>2. k \in ToSet(lb.pipes)
    BY <1>1, <2>1 DEF Connected
  <2>3. lb' \in Lists(Compressors) /\ ToSet(lb'.pipes) = ToSet(lb.pipes)
    BY <1>1, <2>1, <2>2, ActivatedKeeps
  <2> QED
    BY <1>1, <2>1, <2>3 DEF BackLists, Connected
<1>6. ASSUME UNCHANGED <<conn, lb>> PROVE BackLists'
  BY <1>1, <1>6 DEF BackLists, Connected
<1>7. CASE \E c \in Clients : FrontCommand(c)
  BY <1>6, <1>7 DEF FrontCommand, ClientConnects, MessageArrives, ClientLeaves, ClientGone, backVars
<1>8. ASSUME NEW k \in Compressors, Receive(k) \/ Reply(k) PROVE BackLists'
  BY <1>6, <1>8 DEF Receive, Reply
<1>9. CASE Poll
  <2>1. conn' = conn /\ lb' = has_out(lb, Takes)
    BY <1>9 DEF Poll
  <2>2. lb' \in Lists(Compressors) /\ ToSet(lb'.pipes) = ToSet(lb.pipes)
    BY <1>1, <2>1, HasOutKeeps
  <2> QED
    BY <1>1, <2>1, <2>2 DEF BackLists, Connected
<1>10. CASE FrontSendId \/ FrontSendBody
  BY <1>6, <1>10 DEF FrontSendId, FrontSendBody, backVars
<1>11. CASE UNCHANGED vars
  BY <1>6, <1>11 DEF vars, backVars
<1> QED
  BY <1>2, <1>3, <1>4, <1>5, <1>7, <1>8, <1>9, <1>10, <1>11 DEF Next, BackCommand, BrokerStep

\* A part is dropped or refused, or it goes to a pipe that is not full.
LEMMA SendIs ==
  ASSUME BackLists, BackSend
  PROVE  LET more == Len(broker.hold) > 1 IN
         /\ broker.pc = "fwd" /\ UNCHANGED <<frontVars, conn, rep, bfq, busy, handled>>
         /\ broker' = IF more THEN [broker EXCEPT !.hold = Tail(broker.hold)] ELSE Done
         /\ BackLists'
         /\ ~lb.dropping => ~lb'.dropping
         /\ \/ UNCHANGED <<out, part>> /\ (lb.dropping \/ failed' # {})
            \/ \E k \in Compressors :
                 /\ conn[k] \in {"up", "down"} /\ Len(out[k]) < Hwm /\ failed' = failed
                 /\ more => part' = [part EXCEPT ![k] = Append(part[k], Head(broker.hold))] /\ out' = out
                 /\ ~more => /\ part' = [part EXCEPT ![k] = << >>]
                             /\ out' = [out EXCEPT ![k] = Append(out[k], Append(part[k], Head(broker.hold)))]
<1> DEFINE more == Len(broker.hold) > 1
           l == Skip(lb, Takes)
           k == l.pipes[l.cur]
           msg == Append(part[k], Head(broker.hold))
<1>1. /\ broker.pc = "fwd" /\ UNCHANGED <<frontVars, conn, rep, bfq, busy, handled>>
      /\ broker' = IF more THEN [broker EXCEPT !.hold = Tail(broker.hold)] ELSE Done
  BY DEF BackSend, At
<1>2. /\ conn \in [Compressors -> {"absent", None, "up", "down", "closing", "gone"}]
      /\ lb \in Lists(Compressors) /\ ToSet(lb.pipes) = Connected
  BY DEF BackLists
<1>3. /\ l \in Lists(Compressors) /\ ToSet(l.pipes) = ToSet(lb.pipes)
      /\ l.dropping = lb.dropping /\ (l.active > 0 => Current(l) \in Takes)
  BY <1>2, SkipKeeps
<1>4. \/ /\ lb.dropping
         /\ lb' = [lb EXCEPT !.more = more, !.dropping = more]
         /\ UNCHANGED <<out, part>>
      \/ /\ failed' # {}
         /\ UNCHANGED <<lb, out, part>>
      \/ /\ ~lb.dropping /\ l.active > 0 /\ failed' = failed
         /\ lb' = Sent(l, more)
         /\ part' = [part EXCEPT ![k] = IF more THEN msg ELSE << >>]
         /\ out' = IF more THEN out ELSE [out EXCEPT ![k] = Append(out[k], msg)]
  BY DEF BackSend, Fails
<1>5. more \in BOOLEAN
  OBVIOUS
<1>6. ASSUME lb' \in Lists(Compressors), ToSet(lb'.pipes) = ToSet(lb.pipes) PROVE BackLists'
  BY <1>1, <1>2, <1>6 DEF BackLists, Connected
<1>7. CASE lb.dropping /\ lb' = [lb EXCEPT !.more = more, !.dropping = more] /\ UNCHANGED <<out, part>>
  <2> HIDE DEF more, l, k, msg
  <2>1. lb' \in Lists(Compressors)
    BY <1>2, <1>5, <1>7, FlagKeeps
  <2>2. lb'.pipes = lb.pipes
    BY <1>2, <1>7, <2>1 DEF Lists
  <2>3. BackLists'
    BY <1>6, <2>1, <2>2
  <2> QED
    BY <1>1, <1>7, <2>3 DEF more
<1>8. CASE failed' # {} /\ UNCHANGED <<lb, out, part>>
  <2>1. BackLists'
    BY <1>2, <1>6, <1>8
  <2> QED
    BY <1>1, <1>8, <2>1
<1>9. CASE /\ ~lb.dropping /\ l.active > 0 /\ failed' = failed
           /\ lb' = Sent(l, more)
           /\ part' = [part EXCEPT ![k] = IF more THEN msg ELSE << >>]
           /\ out' = IF more THEN out ELSE [out EXCEPT ![k] = Append(out[k], msg)]
  <2>1. k \in Takes
    BY <1>3, <1>9 DEF Current
  <2>2. k \in Compressors /\ conn[k] \in {"up", "down"} /\ Len(out[k]) < Hwm
    BY <2>1 DEF Takes
  <2> HIDE DEF l, k
  <2>3. \A m \in BOOLEAN : [l EXCEPT !.more = m] \in Lists(Compressors)
    BY <1>3, FlagKeeps
  <2>4. /\ lb' \in Lists(Compressors) /\ lb'.pipes = l.pipes /\ ~lb'.dropping
    <3>1. \A m \in BOOLEAN : /\ [l EXCEPT !.more = m].pipes = l.pipes
                             /\ [l EXCEPT !.more = m].dropping = l.dropping
      BY <1>3 DEF Lists
    <3>2. CASE more
      BY <1>3, <1>9, <2>3, <3>1, <3>2 DEF Sent
    <3>3. CASE ~more
      <4> DEFINE t == [l EXCEPT !.more = FALSE]
      <4>1. t \in Lists(Compressors) /\ t.pipes = l.pipes /\ ~t.dropping /\ lb' = Turn(t)
        BY <1>3, <1>9, <2>3, <3>1, <3>3 DEF Sent
      <4> HIDE DEF t
      <4> QED
        BY <4>1, TurnKeeps
    <3> QED
      BY <3>2, <3>3
  <2>5. BackLists'
    BY <1>3, <1>6, <2>4
  <2> QED
    BY <1>1, <1>9, <2>2, <2>4, <2>5
<1> HIDE DEF more, l, k, msg
<1> QED
  BY <1>4, <1>7, <1>8, <1>9

\* A step after which no message is where it was not before.
LEMMA OnceLess ==
  ASSUME Once, UNCHANGED handled,
         \A c \in Clients : (Unsent(c)' => Unsent(c)) /\ (Held(c)' => Held(c)),
         \A c \in Clients, k \in Compressors, i \in Nat : Stored(c, k, i)' => Stored(c, k, i)
  PROVE  Once'
<1> SUFFICES ASSUME NEW c \in Clients
    PROVE  /\ Unsent(c)' => handled'[c] = 0 /\ ~Held(c)'
           /\ Held(c)' => handled'[c] = 0
           /\ \A k \in Compressors, i \in Nat : Stored(c, k, i)' =>
                /\ handled'[c] = 0 /\ ~Unsent(c)' /\ ~Held(c)'
                /\ \A m \in Compressors, j \in Nat : Stored(c, m, j)' => m = k /\ j = i
  BY DEF Once
<1>1. /\ Unsent(c) => handled[c] = 0 /\ ~Held(c)
      /\ Held(c) => handled[c] = 0
      /\ \A k \in Compressors, i \in Nat : Stored(c, k, i) =>
           /\ handled[c] = 0 /\ ~Unsent(c) /\ ~Held(c)
           /\ \A m \in Compressors, j \in Nat : Stored(c, m, j) => m = k /\ j = i
  BY DEF Once
<1>2. /\ (Unsent(c)' => Unsent(c)) /\ (Held(c)' => Held(c))
      /\ \A k \in Compressors, i \in Nat : Stored(c, k, i)' => Stored(c, k, i)
  OBVIOUS
<1> HIDE DEF Once
<1> QED
  BY <1>1, <1>2, Zenon

LEMMA OnceInit == Init => OnceInv
<1> SUFFICES ASSUME Init PROVE OnceInv
  OBVIOUS
<1>1. /\ conn \in [Compressors -> {"absent", None}]
      /\ out = [k \in Compressors |-> << >>] /\ part = [k \in Compressors |-> << >>]
      /\ lb = NoPipes /\ broker.pc = "poll" /\ handled = [c \in Clients |-> 0]
  BY DEF Init
<1>2. BackLists
  <2>1. lb \in Lists(Compressors) /\ ToSet(lb.pipes) = {}
    BY <1>1 DEF NoPipes, Lists, ToSet
  <2>2. Connected = {}
    BY <1>1 DEF Connected, None
  <2> QED
    BY <1>1, <2>1, <2>2 DEF BackLists
<1>3. OnceType
  BY <1>1, <1>2 DEF OnceType
<1>4. \A c \in Clients : ~Held(c) /\ handled[c] = 0
  BY <1>1 DEF Held
<1>5. \A c \in Clients, k \in Compressors, i \in Nat : ~Stored(c, k, i)
  BY <1>1 DEF Stored
<1>6. Once
  BY <1>4, <1>5 DEF Once
<1> QED
  BY <1>3, <1>6 DEF OnceInv

\* Neither the broker nor a compressor takes a message.
LEMMA OnceUntaken ==
  ASSUME OnceInv, BackLists', UNCHANGED handled,
         broker' = broker \/ broker'.pc # "fwd",
         \/ UNCHANGED <<out, part>>
         \/ \E k \in Compressors : /\ out' = [out EXCEPT ![k] = << >>]
                                   /\ part' = [part EXCEPT ![k] = << >>],
         \A c \in Clients : Unsent(c)' => Unsent(c)
  PROVE  OnceInv'
<1>1. OnceType /\ Once
  BY DEF OnceInv
<1>2. \A c \in Clients : Held(c)' => Held(c)
  BY DEF Held, Carries, Body
<1>3. /\ out' \in [Compressors -> Seq(Pieces)] /\ part' \in [Compressors -> Seq(Heads)]
      /\ \A k \in Compressors : out'[k] = out[k] \/ out'[k] = << >>
  <2>1. /\ out \in [Compressors -> Seq(Pieces)] /\ << >> \in Seq(Pieces)
        /\ part \in [Compressors -> Seq(Heads)] /\ << >> \in Seq(Heads)
    BY <1>1, EmptySeq DEF OnceType
  <2> QED
    BY <2>1
<1>4. \A c \in Clients, k \in Compressors, i \in Nat : Stored(c, k, i)' => Stored(c, k, i)
  <2> SUFFICES ASSUME NEW c \in Clients, NEW k \in Compressors, NEW i \in Nat, Stored(c, k, i)'
               PROVE  Stored(c, k, i)
    OBVIOUS
  <2>1. i \in 1..Len(out'[k]) /\ Carries(out'[k][i], c)
    BY DEF Stored, Carries, Body
  <2>2. out'[k] # << >>
    BY <2>1
  <2> QED
    BY <1>3, <2>1, <2>2 DEF Stored
<1>5. Once'
  BY <1>1, <1>2, <1>4, OnceLess
<1>6. OnceType'
  BY <1>1, <1>3 DEF OnceType, Pieces, Heads, MessageParts, IdPart, Carries, Body
<1> QED
  BY <1>5, <1>6 DEF OnceInv

\* The broker takes the message of one client.
LEMMA OncePoll ==
  ASSUME FrontInv, OnceInv, Poll, BackLists'
  PROVE  OnceInv'
<1> DEFINE f == Skip(fq, FrontReady)
           c == f.pipes[f.cur]
           msg == <<IdPart(c)>> \o Parts(c)
<1>1. OnceType /\ Once
  BY DEF OnceInv
<1>2. UNCHANGED <<client, out, part, handled>>
  BY DEF Poll
<1>3. f.active > 0 => c \in ids /\ in[c] = Parts(c)
  BY PollFront
<1>4. CASE f.active > 0
  <2>1. in' = [in EXCEPT ![c] = << >>]
    BY <1>4 DEF Poll
  <2>2. <<IdPart(c)>> \o in[c] = msg
    BY <1>3, <1>4
  <2>3. c \in ids
    BY <1>3, <1>4
  <2>4. c \in Clients /\ client[c] \in {"up", "left"} /\ in[c] # << >> /\ in \in [Clients -> Waits]
    <3> HIDE DEF c, f
    <3> QED
      BY <1>3, <1>4, <2>3, PartsNotEmpty DEF FrontInv, FrontType, Table
  <2>5. msg \in Pieces /\ \A d \in Clients : Carries(msg, d) => d = c
    <3> HIDE DEF c
    <3> QED
      BY <2>4, ClientPiece
  <2>6. msg # << >>
    <3> HIDE DEF msg
    <3> QED
      BY <2>5, PieceFacts
  <2>7. broker'.pc = "fwd" /\ broker'.hold = msg
    BY <1>4, <2>2, <2>6 DEF Poll
  <2> HIDE DEF f, c, msg
  <2>8. OnceType'
    <3>1. broker'.hold \in Pieces
      BY <2>5, <2>7
    <3> QED
      BY <1>1, <1>2, <3>1 DEF OnceType, Pieces, Heads, MessageParts, IdPart, Carries, Body
  <2>9. \A d \in Clients : Held(d)' => d = c
    BY <2>5, <2>7 DEF Held, Carries, Body
  <2>10. \A d \in Clients : Unsent(d)' => Unsent(d) /\ d # c
    BY <1>2, <2>1, <2>4 DEF Unsent, None
  <2>11. \A d \in Clients, k \in Compressors, i \in Nat : Stored(d, k, i)' <=> Stored(d, k, i)
    BY <1>2 DEF Stored, Carries, Body
  <2>12. Unsent(c) /\ handled[c] = 0
    BY <1>1, <2>4 DEF Once, Unsent
  <2>13. \A k \in Compressors, i \in Nat : ~Stored(c, k, i)
    BY <1>1, <2>4, <2>12 DEF Once
  <2>14. ASSUME NEW d \in Clients
         PROVE  /\ Unsent(d)' => handled'[d] = 0 /\ ~Held(d)'
                /\ Held(d)' => handled'[d] = 0
                /\ \A k \in Compressors, i \in Nat : Stored(d, k, i)' =>
                     /\ handled'[d] = 0 /\ ~Unsent(d)' /\ ~Held(d)'
                     /\ \A m \in Compressors, j \in Nat : Stored(d, m, j)' => m = k /\ j = i
    <3>1. /\ Unsent(d) => handled[d] = 0 /\ ~Held(d)
          /\ \A k \in Compressors, i \in Nat : Stored(d, k, i) =>
               /\ handled[d] = 0 /\ ~Unsent(d) /\ ~Held(d)
               /\ \A m \in Compressors, j \in Nat : Stored(d, m, j) => m = k /\ j = i
      BY <1>1 DEF Once
    <3>2. handled'[d] = handled[d]
      BY <1>2
    <3>3. CASE d = c
      <4>1. ~Unsent(d)' /\ handled'[d] = 0 /\ \A k \in Compressors, i \in Nat : ~Stored(d, k, i)'
        BY <2>10, <2>11, <2>12, <2>13, <3>2, <3>3, Zenon
      <4> QED
        BY <4>1, Zenon
    <3>4. CASE d # c
      <4>1. ~Held(d)' /\ (Unsent(d)' => Unsent(d))
        BY <2>9, <2>10, <3>4, Zenon
      <4> QED
        BY <2>11, <3>1, <3>2, <4>1, Zenon
    <3> QED
      BY <3>3, <3>4, Zenon
  <2> QED
    BY <2>8, <2>14 DEF OnceInv, Once
<1>5. CASE ~(f.active > 0)
  <2>1. in' = in /\ broker'.pc # "fwd"
    BY <1>5 DEF Poll
  <2>2. \A d \in Clients : Unsent(d)' => Unsent(d)
    BY <1>2, <2>1 DEF Unsent, None
  <2> QED
    BY <1>2, <2>1, <2>2, OnceUntaken
<1> QED
  BY <1>4, <1>5

\* The last part goes to a compressor, and with it the message; other parts
\* leave it with the broker.
LEMMA OnceSend ==
  ASSUME FrontInv, OnceInv, BackSend
  PROVE  OnceInv'
<1> DEFINE more == Len(broker.hold) > 1
<1>1. OnceType /\ Once /\ BackLists /\ FrontType
  BY DEF OnceInv, OnceType, FrontInv
<1>2. /\ broker.pc = "fwd" /\ UNCHANGED <<client, in, handled>>
      /\ broker' = IF more THEN [broker EXCEPT !.hold = Tail(broker.hold)] ELSE Done
      /\ BackLists'
  BY <1>1, SendIs DEF frontVars
<1>3. broker.hold \in Pieces
  BY <1>1, <1>2 DEF OnceType
<1>4. /\ more => broker'.pc = "fwd" /\ broker'.hold = Tail(broker.hold)
      /\ ~more => broker'.pc # "fwd"
  BY <1>1, <1>2, DoneIs DEF FrontType
<1>5. more => Tail(broker.hold) \in Pieces /\ \A c : Carries(Tail(broker.hold), c) <=> Carries(broker.hold, c)
  <2>1. << >> \in Seq(Heads)
    BY EmptySeq
  <2> QED
    BY <1>3, <2>1, NextPiece
<1>6. \A c \in Clients : (Unsent(c)' => Unsent(c)) /\ (Held(c)' => Held(c))
  <2>1. \A c \in Clients : Unsent(c)' => Unsent(c)
    BY <1>2 DEF Unsent, None
  <2>2. \A c \in Clients : Held(c)' => Held(c)
    BY <1>2, <1>4, <1>5 DEF Held, Carries, Body
  <2> QED
    BY <2>1, <2>2
<1>7. /\ out \in [Compressors -> Seq(Pieces)] /\ part \in [Compressors -> Seq(Heads)]
      /\ handled \in [Clients -> {0, 1}]
  BY <1>1 DEF OnceType
<1>8. broker'.pc = "fwd" => broker'.hold \in Pieces
  BY <1>4, <1>5
<1>9. ASSUME out' = out, part' \in [Compressors -> Seq(Heads)] PROVE OnceInv'
  <2>1. \A c \in Clients, k \in Compressors, i \in Nat : Stored(c, k, i)' => Stored(c, k, i)
    BY <1>9 DEF Stored, Carries, Body
  <2>2. Once'
    BY <1>1, <1>2, <1>6, <2>1, OnceLess
  <2>3. OnceType'
    BY <1>2, <1>7, <1>8, <1>9 DEF OnceType, Pieces, Heads, MessageParts, IdPart, Carries, Body
  <2> QED
    BY <2>2, <2>3 DEF OnceInv
<1>10. \/ UNCHANGED <<out, part>>
       \/ \E k \in Compressors :
            /\ more => part' = [part EXCEPT ![k] = Append(part[k], Head(broker.hold))] /\ out' = out
            /\ ~more => /\ part' = [part EXCEPT ![k] = << >>]
                        /\ out' = [out EXCEPT ![k] = Append(out[k], Append(part[k], Head(broker.hold)))]
  BY <1>1, SendIs
<1>11. CASE UNCHANGED <<out, part>>
  BY <1>7, <1>9, <1>11
<1>12. ASSUME NEW k \in Compressors, more,
              part' = [part EXCEPT ![k] = Append(part[k], Head(broker.hold))], out' = out
       PROVE  OnceInv'
  <2>1. part[k] \in Seq(Heads)
    BY <1>7
  <2>2. Append(part[k], Head(broker.hold)) \in Seq(Heads)
    BY <1>3, <1>12, <2>1, NextPiece
  <2> QED
    BY <1>7, <1>9, <1>12, <2>2
<1>13. ASSUME NEW k \in Compressors, ~more, part' = [part EXCEPT ![k] = << >>],
              out' = [out EXCEPT ![k] = Append(out[k], Append(part[k], Head(broker.hold)))]
       PROVE  OnceInv'
  <2> DEFINE msg == Append(part[k], Head(broker.hold))
             n == Len(out[k]) + 1
  <2>1. part[k] \in Seq(Heads) /\ out[k] \in Seq(Pieces)
    BY <1>7
  <2>2. msg \in Pieces /\ \A c : Carries(msg, c) <=> Carries(broker.hold, c)
    BY <1>3, <1>13, <2>1, NextPiece
  <2>3. out' = [out EXCEPT ![k] = Append(out[k], msg)]
    BY <1>13
  <2> HIDE DEF msg, more
  <2>4. /\ Append(out[k], msg) \in Seq(Pieces) /\ Len(Append(out[k], msg)) = n /\ n \in Nat
        /\ Append(out[k], msg)[n] = msg
        /\ \A i \in 1..Len(out[k]) : Append(out[k], msg)[i] = out[k][i]
        /\ \A i \in 1..n : i \in 1..Len(out[k]) \/ i = n
    BY <2>1, <2>2
  <2>5. /\ out' \in [Compressors -> Seq(Pieces)] /\ out'[k] = Append(out[k], msg)
        /\ \A j \in Compressors : j # k => out'[j] = out[j]
    BY <1>7, <2>3, <2>4
  <2>6. part' \in [Compressors -> Seq(Heads)]
    BY <1>7, <1>13
  <2>7. OnceType'
    BY <1>2, <1>7, <1>8, <2>5, <2>6 DEF OnceType, Pieces, Heads, MessageParts, IdPart, Carries, Body
  <2> HIDE DEF n
  <2>8. \A c \in Clients, j \in Compressors, i \in Nat :
          Stored(c, j, i)' => Stored(c, j, i) \/ (Held(c) /\ j = k /\ i = n)
    <3> SUFFICES ASSUME NEW c \in Clients, NEW j \in Compressors, NEW i \in Nat, Stored(c, j, i)',
                        ~Stored(c, j, i)
                 PROVE  Held(c) /\ j = k /\ i = n
      OBVIOUS
    <3>1. i \in 1..Len(out'[j]) /\ Carries(out'[j][i], c)
      BY DEF Stored, Carries, Body
    <3>2. j = k
      BY <2>5, <3>1 DEF Stored
    <3>3. i \in 1..n /\ i \notin 1..Len(out[k])
      BY <2>4, <2>5, <3>1, <3>2 DEF Stored
    <3>4. i = n
      BY <2>4, <3>3
    <3>5. Carries(msg, c)
      BY <2>4, <2>5, <3>1, <3>2, <3>4
    <3> QED
      BY <1>2, <2>2, <3>2, <3>4, <3>5 DEF Held
  <2>9. \A c \in Clients : ~Held(c)'
    BY <1>4, <1>13 DEF Held
  <2>10. ASSUME NEW c \in Clients
         PROVE  /\ Unsent(c)' => handled'[c] = 0 /\ ~Held(c)'
                /\ Held(c)' => handled'[c] = 0
                /\ \A j \in Compressors, i \in Nat : Stored(c, j, i)' =>
                     /\ handled'[c] = 0 /\ ~Unsent(c)' /\ ~Held(c)'
                     /\ \A m \in Compressors, x \in Nat : Stored(c, m, x)' => m = j /\ x = i
    <3>1. /\ Unsent(c) => handled[c] = 0 /\ ~Held(c)
          /\ Held(c) => handled[c] = 0
          /\ \A j \in Compressors, i \in Nat : Stored(c, j, i) =>
               /\ handled[c] = 0 /\ ~Unsent(c) /\ ~Held(c)
               /\ \A m \in Compressors, x \in Nat : Stored(c, m, x) => m = j /\ x = i
      BY <1>1 DEF Once
    <3>2. handled'[c] = handled[c] /\ (Unsent(c)' => Unsent(c)) /\ ~Held(c)'
      BY <1>2, <1>6, <2>9
    <3>3. CASE Held(c)
      <4>1. \A j \in Compressors, i \in Nat : Stored(c, j, i)' => j = k /\ i = n
        BY <2>8, <3>1, <3>3, Zenon
      <4>2. handled'[c] = 0 /\ ~Unsent(c)'
        BY <3>1, <3>2, <3>3, Zenon
      <4> QED
        BY <3>2, <4>1, <4>2, Zenon
    <3>4. CASE ~Held(c)
      <4>1. \A j \in Compressors, i \in Nat : Stored(c, j, i)' => Stored(c, j, i)
        BY <2>8, <3>4, Zenon
      <4> QED
        BY <3>1, <3>2, <4>1, Zenon
    <3> QED
      BY <3>3, <3>4, Zenon
  <2> QED
    BY <2>7, <2>10 DEF OnceInv, Once
<1> HIDE DEF more
<1> QED
  BY <1>10, <1>11, <1>12, <1>13

\* A compressor takes the first message of its queue.
LEMMA OnceReceive ==
  ASSUME OnceInv, NEW k \in Compressors, Receive(k), BackLists'
  PROVE  OnceInv'
<1> DEFINE m == Head(out[k])
           sh(j, i) == IF j = k THEN i + 1 ELSE i
<1>1. OnceType /\ Once
  BY DEF OnceInv
<1>2. /\ out[k] # << >> /\ out' = [out EXCEPT ![k] = Tail(out[k])]
      /\ IF Len(m) > 1 /\ m[2][1] = "body"
           THEN handled' = [handled EXCEPT ![m[2][2]] = handled[m[2][2]] + 1]
           ELSE UNCHANGED handled
      /\ UNCHANGED <<client, in, part, broker>>
  BY DEF Receive, frontVars
<1>3. out \in [Compressors -> Seq(Pieces)] /\ handled \in [Clients -> {0, 1}]
  BY <1>1 DEF OnceType
<1>4. out[k] \in Seq(Pieces)
  BY <1>3
<1>5. /\ Len(out[k]) \in Nat /\ Len(out[k]) >= 1 /\ m = out[k][1] /\ m \in Pieces
      /\ Tail(out[k]) \in Seq(Pieces) /\ Len(Tail(out[k])) = Len(out[k]) - 1
      /\ \A i \in 1..Len(out[k]) - 1 : Tail(out[k])[i] = out[k][i + 1]
  BY <1>2, <1>4, HeadTailProperties, EmptySeq, LenProperties
<1> HIDE DEF m
<1>6. /\ out' \in [Compressors -> Seq(Pieces)] /\ out'[k] = Tail(out[k])
      /\ \A j \in Compressors : j # k => out'[j] = out[j]
  BY <1>2, <1>3, <1>5
<1>7. ASSUME NEW c \in Clients, NEW j \in Compressors, NEW i \in Nat, Stored(c, j, i)'
      PROVE  Stored(c, j, sh(j, i)) /\ sh(j, i) \in Nat /\ ~(j = k /\ sh(j, i) = 1)
  <2>1. i \in 1..Len(out'[j]) /\ Carries(out'[j][i], c)
    BY <1>7 DEF Stored, Carries, Body
  <2>2. CASE j = k
    <3>1. i \in 1..Len(out[k]) - 1 /\ Carries(Tail(out[k])[i], c)
      BY <1>5, <1>6, <2>1, <2>2
    <3>2. i + 1 \in 1..Len(out[k]) /\ Carries(out[k][i + 1], c)
      BY <1>5, <3>1
    <3> QED
      BY <2>2, <3>1, <3>2 DEF Stored
  <2>3. CASE j # k
    BY <1>6, <2>1, <2>3 DEF Stored
  <2> QED
    BY <2>2, <2>3
<1>8. \A j \in Compressors, i, x \in Nat : sh(j, i) = sh(j, x) => i = x
  OBVIOUS
<1> HIDE DEF sh
<1>9. \A c \in Clients : (Unsent(c)' => Unsent(c)) /\ (Held(c)' => Held(c))
  BY <1>2 DEF Unsent, None, Held, Carries, Body
<1>10. ASSUME NEW c \in Clients
       PROVE  \A j \in Compressors, i \in Nat : Stored(c, j, i)' =>
                \A n \in Compressors, x \in Nat : Stored(c, n, x)' => n = j /\ x = i
  <2> SUFFICES ASSUME NEW j \in Compressors, NEW i \in Nat, Stored(c, j, i)',
                      NEW n \in Compressors, NEW x \in Nat, Stored(c, n, x)'
               PROVE  n = j /\ x = i
    OBVIOUS
  <2>1. Stored(c, j, sh(j, i)) /\ Stored(c, n, sh(n, x)) /\ sh(j, i) \in Nat /\ sh(n, x) \in Nat
    BY <1>7
  <2>2. n = j /\ sh(n, x) = sh(j, i)
    BY <1>1, <2>1, Zenon DEF Once
  <2> QED
    BY <1>8, <2>2
<1>11. ASSUME NEW c \in Clients
       PROVE  /\ Unsent(c) => handled[c] = 0 /\ ~Held(c)
              /\ Held(c) => handled[c] = 0
              /\ \A j \in Compressors, i \in Nat : Stored(c, j, i) =>
                   /\ handled[c] = 0 /\ ~Unsent(c) /\ ~Held(c)
                   /\ \A n \in Compressors, x \in Nat : Stored(c, n, x) => n = j /\ x = i
  BY <1>1 DEF Once
<1> DEFINE Fine(c) ==
             /\ Unsent(c)' => handled'[c] = 0 /\ ~Held(c)'
             /\ Held(c)' => handled'[c] = 0
             /\ \A j \in Compressors, i \in Nat : Stored(c, j, i)' =>
                  /\ handled'[c] = 0 /\ ~Unsent(c)' /\ ~Held(c)'
                  /\ \A n \in Compressors, x \in Nat : Stored(c, n, x)' => n = j /\ x = i
<1>12. ASSUME NEW c \in Clients, handled'[c] = handled[c]
       PROVE  Fine(c)
  <2>1. ASSUME NEW j \in Compressors, NEW i \in Nat, Stored(c, j, i)'
        PROVE  handled[c] = 0 /\ ~Unsent(c) /\ ~Held(c)
    <3>1. Stored(c, j, sh(j, i)) /\ sh(j, i) \in Nat
      BY <1>7, <2>1
    <3> QED
      BY <1>11, <3>1, Zenon
  <2> QED
    BY <1>9, <1>10, <1>11, <1>12, <2>1, Zenon
<1>13. \/ handled' = handled
       \/ \E c \in Clients : Carries(m, c) /\ handled' = [handled EXCEPT ![c] = handled[c] + 1]
  BY <1>2, <1>5, HandlesPiece
<1>14. ASSUME handled' \in [Clients -> {0, 1}], \A c \in Clients : Fine(c)
       PROVE  OnceInv'
  <2>1. Once'
    BY <1>14 DEF Once
  <2>2. OnceType'
    BY <1>1, <1>2, <1>6, <1>14 DEF OnceType, Pieces, Heads, MessageParts, IdPart, Carries, Body
  <2> QED
    BY <2>1, <2>2 DEF OnceInv
<1>15. CASE handled' = handled
  <2>1. \A c \in Clients : Fine(c)
    BY <1>12, <1>15
  <2> HIDE DEF Fine
  <2> QED
    BY <1>3, <1>14, <1>15, <2>1
<1>16. ASSUME NEW c \in Clients, Carries(m, c), handled' = [handled EXCEPT ![c] = handled[c] + 1]
       PROVE  OnceInv'
  <2>1. Stored(c, k, 1)
    BY <1>5, <1>16 DEF Stored
  <2>2. handled[c] = 0 /\ ~Unsent(c) /\ ~Held(c)
    BY <1>11, <2>1
  <2>3. \A j \in Compressors, i \in Nat : ~Stored(c, j, i)'
    <3> SUFFICES ASSUME NEW j \in Compressors, NEW i \in Nat, Stored(c, j, i)' PROVE FALSE
      OBVIOUS
    <3>1. Stored(c, j, sh(j, i)) /\ sh(j, i) \in Nat /\ ~(j = k /\ sh(j, i) = 1)
      BY <1>7
    <3>2. 1 \in Nat
      OBVIOUS
    <3> QED
      BY <1>11, <2>1, <3>1, <3>2, Zenon
  <2>4. Fine(c)
    BY <1>9, <2>2, <2>3, Zenon
  <2>5. handled' \in [Clients -> {0, 1}] /\ \A d \in Clients : d # c => handled'[d] = handled[d]
    BY <1>3, <1>16, <2>2
  <2> HIDE DEF Fine
  <2>6. \A d \in Clients : Fine(d)
    BY <1>12, <2>4, <2>5, Zenon
  <2> QED
    BY <1>14, <2>5, <2>6
<1> HIDE DEF Fine
<1> QED
  BY <1>13, <1>15, <1>16

LEMMA OnceStep ==
  ASSUME FrontInv, OnceInv, [Next]_vars
  PROVE  OnceInv'
<1>1. BackLists /\ FrontType
  BY DEF OnceInv, OnceType, FrontInv
<1>2. ~BackSend => BackLists'
  BY <1>1, ListsStep
<1>3. CASE BackSend
  BY <1>3, OnceSend
<1>4. CASE Poll
  <2>1. ~BackSend
    BY <1>4 DEF Poll, BackSend, At
  <2> QED
    BY <1>2, <1>4, <2>1, OncePoll
<1>5. ASSUME NEW k \in Compressors, Receive(k), ~BackSend PROVE OnceInv'
  BY <1>2, <1>5, OnceReceive
<1>6. ASSUME NEW c \in Clients, FrontCommand(c), ~BackSend PROVE OnceInv'
  <2>1. /\ UNCHANGED <<out, part, handled, broker>>
    BY <1>6 DEF FrontCommand, ClientConnects, MessageArrives, ClientLeaves, ClientGone, backVars
  <2>2. \A d \in Clients : Unsent(d)' => Unsent(d)
    <3>1. client \in [Clients -> {"absent", None, "up", "left", "gone"}] /\ in \in [Clients -> Waits]
      BY <1>1 DEF FrontType
    <3>2. CASE ClientConnects(c)
      BY <3>1, <3>2 DEF ClientConnects, Unsent, None
    <3>3. CASE MessageArrives(c)
      BY <3>1, <3>3, PartsNotEmpty DEF MessageArrives, Unsent, None
    <3>4. CASE ClientLeaves(c) \/ ClientGone(c)
      BY <3>1, <3>4 DEF ClientLeaves, ClientGone, Unsent, None
    <3> QED
      BY <1>6, <3>2, <3>3, <3>4 DEF FrontCommand
  <2> QED
    BY <1>2, <1>6, <2>1, <2>2, OnceUntaken
<1>7. ASSUME NEW k \in Compressors, ~BackSend,
             CompressorConnects(k) \/ CompressorBreaks(k) \/ BackCommand(k) \/ Reply(k)
      PROVE  OnceInv'
  <2>1. CASE PipeGone(k)
    <3>1. /\ out' = [out EXCEPT ![k] = << >>] /\ part' = [part EXCEPT ![k] = << >>]
          /\ UNCHANGED <<client, in, handled, broker>>
      BY <2>1 DEF PipeGone, frontVars
    <3>2. \A d \in Clients : Unsent(d)' => Unsent(d)
      BY <3>1 DEF Unsent, None
    <3> QED
      BY <1>2, <1>7, <3>1, <3>2, OnceUntaken
  <2>2. CASE CompressorConnects(k) \/ CompressorBreaks(k) \/ PipeTerm(k) \/ RoomAgain(k) \/ Reply(k)
    <3>1. UNCHANGED <<client, in, out, part, handled, broker>>
      BY <2>2 DEF CompressorConnects, CompressorBreaks, PipeTerm, RoomAgain, Reply, frontVars
    <3>2. \A d \in Clients : Unsent(d)' => Unsent(d)
      BY <3>1 DEF Unsent, None
    <3> QED
      BY <1>2, <1>7, <3>1, <3>2, OnceUntaken
  <2> QED
    BY <1>7, <2>1, <2>2 DEF BackCommand
<1>8. CASE FrontSendId \/ FrontSendBody
  <2>1. UNCHANGED <<client, in, out, part, handled>> /\ broker'.pc # "fwd" /\ ~BackSend
    <3>1. UNCHANGED <<client, in, out, part, handled>> /\ broker.pc \in {"reply", "body"}
      BY <1>8 DEF FrontSendId, FrontSendBody, backVars, At
    <3>2. broker' = [broker EXCEPT !.pc = "body"] \/ broker' = Done
      BY <1>8 DEF FrontSendId, FrontSendBody
    <3> QED
      BY <1>1, <3>1, <3>2, DoneIs DEF FrontType, BackSend, At
  <2>2. \A d \in Clients : Unsent(d)' => Unsent(d)
    BY <2>1 DEF Unsent, None
  <2> QED
    BY <1>2, <2>1, <2>2, OnceUntaken
<1>9. CASE UNCHANGED vars
  <2>1. UNCHANGED <<client, in, out, part, handled, broker, conn, lb>>
    BY <1>9 DEF vars, frontVars, backVars
  <2>2. \A d \in Clients : Unsent(d)' => Unsent(d)
    BY <2>1 DEF Unsent, None
  <2>3. BackLists'
    BY <1>1, <2>1 DEF BackLists, Connected
  <2> QED
    BY <2>1, <2>2, <2>3, OnceUntaken
<1> QED
  BY <1>3, <1>4, <1>5, <1>6, <1>7, <1>8, <1>9 DEF Next, BrokerStep

\* Every message is in one place at most, and is not sent again.
THEOREM OnceInvariance == Spec => []OnceInv
<1>1. FrontInv /\ OnceInv /\ [Next]_vars => FrontInv' /\ OnceInv'
  BY FrontStep, OnceStep
<1> QED
  BY <1>1, FrontInit, OnceInit, PTL DEF Spec

-----------------------------------------------------------------------------
\* No wakeup of fq_t is lost: a pipe with something to read is active. A client
\* whose pipe is gone, or that has not come, has nothing to read.
Awake ==
  /\ \A c \in ids : in[c] \notin {<< >>, Later} => IsActive(fq, c)
  /\ \A c \in Clients : client[c] \notin {"up", "left"} => in[c] = << >>

LEMMA AwakeInit == Init => Awake
<1> SUFFICES ASSUME Init PROVE Awake
  OBVIOUS
<1>1. PICK d \in Days :
        LET waits == ToSet(d.waiting) IN
        /\ client = [c \in Clients |-> IF c \in waits THEN "up" ELSE IF c \in d.there THEN None ELSE "absent"]
        /\ in = [c \in Clients |-> IF c \in waits THEN Parts(c) ELSE << >>]
        /\ ids = waits
        /\ fq = [NoPipes EXCEPT !.pipes = d.waiting, !.active = Len(d.waiting)]
  BY DEF Init
<1> DEFINE s == d.waiting
<1>2. s \in Seq(d.there \cap Clients)
  BY BrokerAssumption
<1>3. ids = ToSet(s) /\ fq.pipes = s /\ fq.active = Len(s)
  BY <1>1 DEF NoPipes
<1> HIDE DEF s
<1>4. \A c \in ids : IsActive(fq, c)
  BY <1>2, <1>3, InToSet DEF IsActive
<1>5. \A c \in Clients : client[c] \notin {"up", "left"} => in[c] = << >>
  BY <1>1
<1> QED
  BY <1>4, <1>5 DEF Awake

LEMMA AwakeStep ==
  ASSUME FrontInv, Awake, [Next]_vars
  PROVE  Awake'
<1>1. /\ FrontType /\ Table /\ ids \subseteq Clients /\ ids \cap anon = {}
      /\ fq \in Lists(Clients) /\ ToSet(fq.pipes) = ids
      /\ client \in [Clients -> {"absent", None, "up", "left", "gone"}] /\ in \in [Clients -> Waits]
  BY DEF FrontInv, FrontType, Table, TableConsistent
<1>2. ASSUME NEW c \in Clients, ClientConnects(c) PROVE Awake'
  <2>1. /\ client[c] = None
        /\ client' = [client EXCEPT ![c] = "up"] /\ in' = [in EXCEPT ![c] = Later]
        /\ \/ ids' = ids /\ fq' = fq
           \/ ids' = ids \cup {c} /\ fq' = attach(fq, c)
    BY <1>2 DEF ClientConnects
  <2>2. c \notin ids
    BY <1>1, <2>1 DEF Table, None
  <2>3. \A x \in ids : IsActive(fq, x) => IsActive(fq', x)
    BY <1>1, <2>1, <2>2, AttachKeeps
  <2>4. \A x \in ids' : in'[x] \notin {<< >>, Later} => IsActive(fq', x)
    BY <1>1, <2>1, <2>3 DEF Awake
  <2> QED
    BY <1>1, <2>1, <2>4 DEF Awake
<1>3. ASSUME NEW c \in Clients, MessageArrives(c) PROVE Awake'
  <2>1. /\ in[c] = Later /\ in' = [in EXCEPT ![c] = Parts(c)] /\ UNCHANGED <<client, ids>>
        /\ fq' = IF c \in ids /\ ~IsActive(fq, c) THEN activated(fq, c) ELSE fq
    BY <1>3 DEF MessageArrives
  <2>2. \A x \in ids : IsActive(fq, x) \/ x = c => IsActive(fq', x)
    BY <1>1, <2>1, ActivatedKeeps
  <2>3. client[c] \in {"up", "left"}
    BY <2>1, PartsNotEmpty DEF Awake
  <2> QED
    BY <1>1, <2>1, <2>2, <2>3 DEF Awake
<1>4. ASSUME NEW c \in Clients, ClientLeaves(c) PROVE Awake'
  <2>1. /\ client[c] = "up" /\ client' = [client EXCEPT ![c] = "left"] /\ UNCHANGED <<in, ids>>
        /\ fq' = IF c \in ids /\ ~IsActive(fq, c) THEN activated(fq, c) ELSE fq
    BY <1>4 DEF ClientLeaves
  <2>2. \A x \in ids : IsActive(fq, x) => IsActive(fq', x)
    BY <1>1, <2>1, ActivatedKeeps
  <2> QED
    BY <1>1, <2>1, <2>2 DEF Awake
<1>5. ASSUME NEW c \in Clients, ClientGone(c) PROVE Awake'
  <2>1. /\ client[c] = "left" /\ in[c] = << >> /\ client' = [client EXCEPT ![c] = "gone"]
        /\ ids' = ids \ {c} /\ fq' = terminated(fq, c) /\ in' = in
    BY <1>5 DEF ClientGone
  <2>2. c \in ids
    BY <1>1, <2>1 DEF Table
  <2>3. \A x \in ids' : IsActive(fq, x) => IsActive(fq', x)
    BY <1>1, <2>1, <2>2, TerminatedKeeps
  <2> QED
    BY <1>1, <2>1, <2>3 DEF Awake
<1>6. CASE Poll
  <2> DEFINE f == Skip(fq, FrontReady)
             c == f.pipes[f.cur]
  <2>1. /\ f \in Lists(Clients) /\ \A x \in FrontReady : IsActive(fq, x) => IsActive(f, x)
    BY <1>1, SkipKeeps
  <2>2. f.active > 0 => c \in ids
    BY <1>6, PollFront
  <2>3. /\ fq' = Turn(f) /\ in' = IF f.active > 0 THEN [in EXCEPT ![c] = << >>] ELSE in
        /\ UNCHANGED <<client, ids>>
    BY <1>6 DEF Poll
  <2> HIDE DEF f
  <2>4. fq'.pipes = f.pipes /\ fq'.active = f.active
    BY <2>1, <2>3, TurnKeeps
  <2> HIDE DEF c
  <2>5. \A x \in Clients : in'[x] = in[x] \/ in'[x] = << >>
    BY <1>1, <2>2, <2>3
  <2>6. \A x \in ids : in'[x] \notin {<< >>, Later} => IsActive(f, x)
    BY <1>1, <2>1, <2>5 DEF Awake, FrontReady
  <2>7. \A x \in ids' : in'[x] \notin {<< >>, Later} => IsActive(fq', x)
    BY <2>3, <2>4, <2>6 DEF IsActive
  <2> QED
    BY <2>3, <2>5, <2>7 DEF Awake
<1>7. ASSUME UNCHANGED <<client, in, ids, fq>> PROVE Awake'
  BY <1>7 DEF Awake
<1>8. ASSUME NEW k \in Compressors,
             CompressorConnects(k) \/ CompressorBreaks(k) \/ BackCommand(k) \/ Receive(k) \/ Reply(k)
      PROVE  Awake'
  BY <1>7, <1>8 DEF CompressorConnects, CompressorBreaks, BackCommand, PipeTerm, PipeGone, RoomAgain,
                    Receive, Reply, frontVars
<1>9. CASE BackSend \/ FrontSendId \/ FrontSendBody
  BY <1>7, <1>9 DEF BackSend, FrontSendId, FrontSendBody, frontVars
<1>10. CASE UNCHANGED vars
  BY <1>7, <1>10 DEF vars, frontVars
<1> QED
  BY <1>2, <1>3, <1>4, <1>5, <1>6, <1>8, <1>9, <1>10 DEF Next, FrontCommand, BrokerStep

-----------------------------------------------------------------------------
\* While no connection has broken, the queues are within their limits, a reply
\* that waits is in an active pipe, and no message is being dropped, ...
Unbroken == \A k \in Compressors : conn[k] \in {"absent", None, "up"}
Replies == {<<x, <<"result">> >> : x \in MessageParts}

Queued(k) ==
  /\ Len(out[k]) <= Hwm /\ Len(rep[k]) <= ReplyHwm
  /\ conn[k] # "up" => out[k] = << >> /\ busy[k] = << >> /\ rep[k] = << >>
  /\ rep[k] # << >> => IsActive(bfq, k)

Queues ==
  /\ bfq \in Lists(Compressors) /\ ToSet(bfq.pipes) = Connected
  /\ rep \in [Compressors -> Seq(Replies)] /\ busy \in [Compressors -> {<< >>} \cup Replies]
  /\ \A k \in Compressors : Queued(k)
  /\ ~lb.dropping

\* ... the broker has a message to send only while some compressor, if there is
\* one, can go on: a round of the poller takes a reply with every message, and
\* until the message is sent only the compressors move, ...
GoesOn(k) == conn[k] = "up" /\ (Len(out[k]) < Hwm \/ busy[k] = << >> \/ Len(rep[k]) < ReplyHwm)
Roomy == broker.pc = "fwd" => Connected = {} \/ \E k \in Compressors : GoesOn(k)

\* ... and no message is lost.
KeptOf(c) ==
  \/ in[c] # << >> \/ Held(c) \/ handled[c] = 1
  \/ \E k \in Compressors, i \in Nat : Stored(c, k, i)
Kept ==
  Alive => \A c \in Clients \ (ReqClients \cup anon) : client[c] \notin {None, "absent"} => KeptOf(c)

CalmInv == Unbroken => BackInv /\ Queues /\ Roomy /\ Kept

LEMMA CalmInit == Init => CalmInv
<1> SUFFICES ASSUME Init PROVE CalmInv
  OBVIOUS
<1>1. /\ conn \in [Compressors -> {"absent", None}]
      /\ out = [k \in Compressors |-> << >>] /\ rep = [k \in Compressors |-> << >>]
      /\ busy = [k \in Compressors |-> << >>] /\ bfq = NoPipes /\ lb = NoPipes /\ broker.pc = "poll"
  BY DEF Init
<1>2. Queues
  <2>1. bfq \in Lists(Compressors) /\ ToSet(bfq.pipes) = {}
    BY <1>1 DEF NoPipes, Lists, ToSet
  <2>2. Connected = {}
    BY <1>1 DEF Connected, None
  <2>3. ~lb.dropping
    BY <1>1 DEF NoPipes
  <2>4. \A k \in Compressors : Queued(k)
    BY <1>1, BrokerAssumption DEF Queued
  <2>5. rep \in [Compressors -> Seq(Replies)] /\ busy \in [Compressors -> {<< >>} \cup Replies]
    BY <1>1
  <2> QED
    BY <2>1, <2>2, <2>3, <2>4, <2>5 DEF Queues
<1>3. Roomy
  BY <1>1 DEF Roomy
<1>4. Kept
  <2> SUFFICES ASSUME NEW c \in Clients, client[c] \notin {None, "absent"} PROVE in[c] # << >>
    BY DEF Kept, KeptOf
  <2>1. PICK d \in Days :
          LET waits == ToSet(d.waiting) IN
          /\ client = [x \in Clients |-> IF x \in waits THEN "up" ELSE IF x \in d.there THEN None ELSE "absent"]
          /\ in = [x \in Clients |-> IF x \in waits THEN Parts(x) ELSE << >>]
    BY DEF Init
  <2>2. c \in ToSet(d.waiting)
    BY <2>1
  <2> QED
    BY <2>1, <2>2, PartsNotEmpty
<1> QED
  BY <1>2, <1>3, <1>4, BackInit DEF CalmInv

LEMMA UnbrokenStep ==
  ASSUME BackLists, [Next]_vars, Unbroken'
  PROVE  /\ Unbroken
         /\ \A k \in Compressors : ~CompressorBreaks(k) /\ ~PipeTerm(k) /\ ~PipeGone(k)
<1>1. conn \in [Compressors -> {"absent", None, "up", "down", "closing", "gone"}]
  BY DEF BackLists
<1>2. ASSUME NEW k \in Compressors PROVE ~CompressorBreaks(k) /\ ~PipeTerm(k) /\ ~PipeGone(k)
  <2>1. ASSUME NEW n \in {"down", "closing", "gone"}, conn' = [conn EXCEPT ![k] = n] PROVE FALSE
    <3>1. conn'[k] = n
      BY <1>1, <2>1
    <3> QED
      BY <3>1 DEF Unbroken, None
  <2> QED
    BY <2>1 DEF CompressorBreaks, PipeTerm, PipeGone
<1>3. CASE \E k \in Compressors : CompressorConnects(k)
  <2>1. PICK k \in Compressors : conn[k] = None /\ conn' = [conn EXCEPT ![k] = "up"]
    BY <1>3 DEF CompressorConnects
  <2>2. Unbroken
    BY <1>1, <2>1 DEF Unbroken
  <2> QED
    BY <1>2, <2>2
<1>4. CASE UNCHANGED conn
  BY <1>2, <1>4 DEF Unbroken
<1>5. ASSUME NEW c \in Clients, FrontCommand(c) PROVE UNCHANGED conn
  BY <1>5 DEF FrontCommand, ClientConnects, MessageArrives, ClientLeaves, ClientGone, backVars
<1>6. ASSUME NEW k \in Compressors, RoomAgain(k) \/ Receive(k) \/ Reply(k) PROVE UNCHANGED conn
  BY <1>6 DEF RoomAgain, Receive, Reply
<1>7. BrokerStep => UNCHANGED conn
  BY DEF BrokerStep, Poll, BackSend, FrontSendId, FrontSendBody, backVars
<1>8. UNCHANGED vars => UNCHANGED conn
  BY DEF vars, backVars
<1> QED
  BY <1>2, <1>3, <1>4, <1>5, <1>6, <1>7, <1>8 DEF Next, BackCommand

\* A round of the poller takes a reply if one waits anywhere.
LEMMA PollBack ==
  ASSUME Queues, Poll
  PROVE  /\ bfq' \in Lists(Compressors) /\ ToSet(bfq'.pipes) = Connected
         /\ \A k \in Compressors : rep[k] # << >> => IsActive(bfq', k)
         /\ \/ rep' = rep /\ \A k \in Compressors : rep[k] = << >>
            \/ \E k \in Compressors : /\ conn[k] = "up" /\ rep[k] # << >>
                                      /\ rep' = [rep EXCEPT ![k] = Tail(rep[k])]
<1> DEFINE b == Skip(bfq, BackReady)
           k == b.pipes[b.cur]
<1>1. bfq \in Lists(Compressors) /\ ToSet(bfq.pipes) = Connected /\ \A j \in Compressors : Queued(j)
  BY DEF Queues
<1>2. /\ b \in Lists(Compressors) /\ ToSet(b.pipes) = Connected
      /\ b.active > 0 => Current(b) \in BackReady
      /\ \A j \in BackReady : IsActive(bfq, j) => IsActive(b, j)
  BY <1>1, SkipKeeps
<1>3. /\ bfq' = Turn(b)
      /\ rep' = IF b.active > 0 THEN [rep EXCEPT ![k] = Tail(rep[k])] ELSE rep
  BY DEF Poll
<1>4. b.active > 0 => k \in Compressors /\ rep[k] # << >>
  BY <1>2 DEF Current, BackReady
<1> HIDE DEF b
<1>5. \A j \in Compressors : rep[j] # << >> => IsActive(b, j)
  BY <1>1, <1>2 DEF Queued, BackReady
<1>6. bfq' \in Lists(Compressors) /\ bfq'.pipes = b.pipes /\ bfq'.active = b.active
  BY <1>2, <1>3, TurnKeeps
<1>7. \A j \in Compressors : rep[j] # << >> => IsActive(bfq', j)
  BY <1>5, <1>6 DEF IsActive
<1> HIDE DEF k
<1>8. CASE b.active > 0
  <2>1. conn[k] = "up"
    BY <1>1, <1>4, <1>8 DEF Queued
  <2> QED
    BY <1>2, <1>3, <1>4, <1>6, <1>7, <1>8, <2>1
<1>9. CASE ~(b.active > 0)
  <2>1. b.active \in Nat
    BY <1>2, ListFacts
  <2>2. \A j : ~IsActive(b, j)
    BY <1>9, <2>1 DEF IsActive
  <2> QED
    BY <1>2, <1>3, <1>5, <1>6, <1>7, <1>9, <2>2
<1> QED
  BY <1>8, <1>9

LEMMA QueuesStep ==
  ASSUME OnceInv, Unbroken, Queues, [Next]_vars,
         \A k \in Compressors : ~CompressorBreaks(k) /\ ~PipeTerm(k) /\ ~PipeGone(k)
  PROVE  Queues'
<1>1. /\ bfq \in Lists(Compressors) /\ ToSet(bfq.pipes) = Connected
      /\ rep \in [Compressors -> Seq(Replies)] /\ busy \in [Compressors -> {<< >>} \cup Replies]
      /\ \A k \in Compressors : Queued(k)
      /\ ~lb.dropping
  BY DEF Queues
<1>2. /\ conn \in [Compressors -> {"absent", None, "up", "down", "closing", "gone"}]
      /\ lb \in Lists(Compressors) /\ ToSet(lb.pipes) = Connected
      /\ out \in [Compressors -> Seq(Pieces)]
  BY DEF OnceInv, OnceType, BackLists
<1>3. Hwm \in Nat \ {0} /\ ReplyHwm \in Nat \ {0}
  BY BrokerAssumption
<1>4. ASSUME NEW k \in Compressors, CompressorConnects(k) PROVE Queues'
  <2>1. /\ conn[k] = None /\ conn' = [conn EXCEPT ![k] = "up"]
        /\ lb' = attach(lb, k) /\ bfq' = attach(bfq, k) /\ UNCHANGED <<out, rep, busy>>
    BY <1>4 DEF CompressorConnects
  <2>2. k \notin Connected /\ Connected' = Connected \cup {k}
    BY <1>2, <2>1 DEF Connected, None
  <2>3. /\ bfq' \in Lists(Compressors) /\ ToSet(bfq'.pipes) = Connected'
        /\ \A j : IsActive(bfq, j) => IsActive(bfq', j)
    BY <1>1, <2>1, <2>2, AttachKeeps
  <2>4. ~lb'.dropping
    BY <1>1, <1>2, <2>1, <2>2, AttachKeeps
  <2>5. \A j \in Compressors : conn'[j] # "up" => conn[j] # "up"
    BY <1>2, <2>1
  <2>6. \A j \in Compressors : Queued(j)'
    BY <1>1, <2>1, <2>3, <2>5 DEF Queued
  <2> QED
    BY <1>1, <2>1, <2>3, <2>4, <2>6 DEF Queues, Replies, MessageParts, IdPart
<1>5. ASSUME NEW k \in Compressors, RoomAgain(k) PROVE Queues'
  <2>1. /\ conn[k] = "up" /\ ~IsActive(lb, k) /\ lb' = activated(lb, k)
        /\ UNCHANGED <<conn, out, rep, bfq, busy>>
    BY <1>5 DEF RoomAgain
  <2>2. k \in ToSet(lb.pipes)
    BY <1>2, <2>1 DEF Connected
  <2>3. ~lb'.dropping
    BY <1>1, <1>2, <2>1, <2>2, ActivatedKeeps
  <2>4. \A j \in Compressors : Queued(j)'
    BY <1>1, <2>1 DEF Queued, IsActive
  <2> QED
    BY <1>1, <2>1, <2>3, <2>4 DEF Queues, Connected, Replies, MessageParts, IdPart
<1>6. ASSUME NEW k \in Compressors, Receive(k) PROVE Queues'
  <2> DEFINE m == Head(out[k])
  <2>1. /\ conn[k] = "up" /\ out[k] # << >> /\ out' = [out EXCEPT ![k] = Tail(out[k])]
        /\ UNCHANGED <<conn, rep, lb, bfq>>
        /\ busy' = busy \/ (Len(m) > 1 /\ busy' = [busy EXCEPT ![k] = <<m[1], <<"result">> >>])
    BY <1>6 DEF Receive
  <2>2. out[k] \in Seq(Pieces)
    BY <1>2
  <2>3. m \in Pieces /\ Len(Tail(out[k])) = Len(out[k]) - 1 /\ Len(out[k]) \in Nat
    BY <2>1, <2>2, HeadTailProperties, LenProperties
  <2> HIDE DEF m
  <2>4. m[1] \in MessageParts
    BY <2>3, PieceFacts
  <2>5. busy' \in [Compressors -> {<< >>} \cup Replies]
    BY <1>1, <2>1, <2>4 DEF Replies
  <2>6. Len(out'[k]) <= Hwm
    BY <1>1, <1>2, <1>3, <2>1, <2>3 DEF Queued
  <2>7. \A j \in Compressors : j # k => out'[j] = out[j] /\ busy'[j] = busy[j]
    BY <1>1, <1>2, <2>1
  <2>8. \A j \in Compressors : Queued(j)'
    BY <1>1, <2>1, <2>6, <2>7 DEF Queued, IsActive
  <2> QED
    BY <1>1, <2>1, <2>5, <2>8 DEF Queues, Connected, Replies, MessageParts, IdPart
<1>7. ASSUME NEW k \in Compressors, Reply(k) PROVE Queues'
  <2>1. /\ conn[k] = "up" /\ busy[k] # << >> /\ Len(rep[k]) < ReplyHwm
        /\ rep' = [rep EXCEPT ![k] = Append(rep[k], busy[k])]
        /\ busy' = [busy EXCEPT ![k] = << >>]
        /\ bfq' = IF IsActive(bfq, k) THEN bfq ELSE activated(bfq, k)
        /\ UNCHANGED <<conn, out, lb>>
    BY <1>7 DEF Reply
  <2>2. k \in ToSet(bfq.pipes)
    BY <1>1, <2>1 DEF Connected
  <2>3. /\ bfq' \in Lists(Compressors) /\ ToSet(bfq'.pipes) = ToSet(bfq.pipes)
        /\ \A j : IsActive(bfq, j) \/ j = k => IsActive(bfq', j)
    BY <1>1, <2>1, <2>2, ActivatedKeeps
  <2>4. rep[k] \in Seq(Replies) /\ busy[k] \in Replies
    BY <1>1, <2>1
  <2>5. Append(rep[k], busy[k]) \in Seq(Replies) /\ Len(Append(rep[k], busy[k])) <= ReplyHwm
    BY <1>3, <2>1, <2>4
  <2>6. rep' \in [Compressors -> Seq(Replies)] /\ busy' \in [Compressors -> {<< >>} \cup Replies]
    BY <1>1, <2>1, <2>5
  <2>7. Len(rep'[k]) <= ReplyHwm /\ \A j \in Compressors : j # k => rep'[j] = rep[j] /\ busy'[j] = busy[j]
    BY <1>1, <2>1, <2>5
  <2>8. \A j \in Compressors : Queued(j)'
    BY <1>1, <2>1, <2>3, <2>7 DEF Queued
  <2> QED
    BY <1>1, <2>1, <2>3, <2>6, <2>8 DEF Queues, Connected, Replies, MessageParts, IdPart
<1>8. CASE Poll
  <2>1. /\ bfq' \in Lists(Compressors) /\ ToSet(bfq'.pipes) = Connected
        /\ \A k \in Compressors : rep[k] # << >> => IsActive(bfq', k)
        /\ \/ rep' = rep
           \/ \E k \in Compressors : /\ conn[k] = "up" /\ rep[k] # << >>
                                     /\ rep' = [rep EXCEPT ![k] = Tail(rep[k])]
    BY <1>8, PollBack
  <2>2. UNCHANGED <<conn, out, busy>> /\ lb' = has_out(lb, Takes)
    BY <1>8 DEF Poll
  <2>3. /\ rep' \in [Compressors -> Seq(Replies)]
        /\ \A j \in Compressors : /\ Len(rep'[j]) <= ReplyHwm
                                  /\ rep[j] = << >> => rep'[j] = << >>
    <3>1. \A j \in Compressors : rep[j] \in Seq(Replies) /\ Len(rep[j]) <= ReplyHwm
      BY <1>1 DEF Queued
    <3>2. CASE rep' = rep
      BY <1>1, <3>1, <3>2
    <3>3. ASSUME NEW k \in Compressors, rep[k] # << >>, rep' = [rep EXCEPT ![k] = Tail(rep[k])]
          PROVE  /\ rep' \in [Compressors -> Seq(Replies)]
                 /\ \A j \in Compressors : /\ Len(rep'[j]) <= ReplyHwm
                                           /\ rep[j] = << >> => rep'[j] = << >>
      <4>1. Tail(rep[k]) \in Seq(Replies) /\ Len(Tail(rep[k])) = Len(rep[k]) - 1 /\ Len(rep[k]) \in Nat
        BY <3>1, <3>3, HeadTailProperties, LenProperties
      <4>2. Len(Tail(rep[k])) <= ReplyHwm
        BY <1>3, <3>1, <4>1
      <4>3. \A j \in Compressors : rep'[j] = IF j = k THEN Tail(rep[k]) ELSE rep[j]
        BY <1>1, <3>3
      <4> QED
        BY <1>1, <3>1, <3>3, <4>1, <4>2, <4>3
    <3> QED
      BY <2>1, <3>2, <3>3
  <2>4. \A j \in Compressors : Queued(j)'
    BY <1>1, <2>1, <2>2, <2>3 DEF Queued
  <2>5. ~lb'.dropping
    BY <1>1, <1>2, <2>2, HasOutKeeps
  <2> QED
    BY <1>1, <2>1, <2>2, <2>3, <2>4, <2>5 DEF Queues, Connected, Replies, MessageParts, IdPart
<1>9. CASE BackSend
  <2>1. UNCHANGED <<conn, rep, bfq, busy>> /\ ~lb'.dropping
    BY <1>1, <1>9, SendIs DEF OnceInv, OnceType
  <2>2. \/ out' = out
        \/ \E k \in Compressors : \E msg :
             conn[k] = "up" /\ Len(out[k]) < Hwm /\ out' = [out EXCEPT ![k] = Append(out[k], msg)]
    <3>1. BackLists
      BY DEF OnceInv, OnceType
    <3>2. CASE Len(broker.hold) > 1
      BY <1>9, <3>1, <3>2, SendIs
    <3>3. CASE ~(Len(broker.hold) > 1)
      <4>1. \/ out' = out
            \/ \E k \in Compressors :
                 /\ conn[k] \in {"up", "down"} /\ Len(out[k]) < Hwm
                 /\ out' = [out EXCEPT ![k] = Append(out[k], Append(part[k], Head(broker.hold)))]
        BY <1>9, <3>1, <3>3, SendIs
      <4>2. \A k \in Compressors : conn[k] \in {"up", "down"} => conn[k] = "up"
        BY DEF Unbroken, None
      <4> QED
        BY <4>1, <4>2, Zenon
    <3> QED
      BY <3>2, <3>3
  <2>3. \A j \in Compressors : Len(out'[j]) <= Hwm /\ (conn[j] # "up" => out'[j] = << >>)
    <3>1. \A j \in Compressors : out[j] \in Seq(Pieces) /\ Len(out[j]) <= Hwm /\ (conn[j] # "up" => out[j] = << >>)
      BY <1>1, <1>2 DEF Queued
    <3>2. ASSUME NEW k \in Compressors, NEW msg, conn[k] = "up", Len(out[k]) < Hwm,
                 out' = [out EXCEPT ![k] = Append(out[k], msg)]
          PROVE  \A j \in Compressors : Len(out'[j]) <= Hwm /\ (conn[j] # "up" => out'[j] = << >>)
      <4>1. Len(out[k]) \in Nat /\ Len(Append(out[k], msg)) = Len(out[k]) + 1
        BY <3>1
      <4>2. Len(Append(out[k], msg)) <= Hwm
        BY <1>3, <3>2, <4>1
      <4>3. \A j \in Compressors : out'[j] = IF j = k THEN Append(out[k], msg) ELSE out[j]
        BY <1>2, <3>2
      <4> QED
        BY <3>1, <3>2, <4>2, <4>3
    <3> QED
      BY <2>2, <3>1, <3>2
  <2>4. \A j \in Compressors : Queued(j)'
    BY <1>1, <2>1, <2>3 DEF Queued, IsActive
  <2> QED
    BY <1>1, <2>1, <2>4 DEF Queues, Connected, Replies, MessageParts, IdPart
<1>10. ASSUME UNCHANGED backVars PROVE Queues'
  <2>1. UNCHANGED <<conn, out, rep, lb, bfq, busy>>
    BY <1>10 DEF backVars
  <2>2. \A j \in Compressors : Queued(j)'
    BY <1>1, <2>1 DEF Queued, IsActive
  <2> QED
    BY <1>1, <2>1, <2>2 DEF Queues, Connected, Replies, MessageParts, IdPart
<1>11. CASE \E c \in Clients : FrontCommand(c)
  BY <1>10, <1>11 DEF FrontCommand, ClientConnects, MessageArrives, ClientLeaves, ClientGone
<1>12. CASE FrontSendId \/ FrontSendBody \/ UNCHANGED vars
  BY <1>10, <1>12 DEF FrontSendId, FrontSendBody, vars
<1> QED
  BY <1>4, <1>5, <1>6, <1>7, <1>8, <1>9, <1>11, <1>12 DEF Next, BackCommand, BrokerStep

LEMMA RoomyStep ==
  ASSUME FrontInv, OnceInv, Unbroken, Queues, Roomy, [Next]_vars,
         \A k \in Compressors : ~CompressorBreaks(k) /\ ~PipeTerm(k) /\ ~PipeGone(k)
  PROVE  Roomy'
<1>1. /\ rep \in [Compressors -> Seq(Replies)] /\ busy \in [Compressors -> {<< >>} \cup Replies]
      /\ \A k \in Compressors : Queued(k)
  BY DEF Queues
<1>2. /\ BackLists /\ conn \in [Compressors -> {"absent", None, "up", "down", "closing", "gone"}]
      /\ out \in [Compressors -> Seq(Pieces)]
  BY DEF OnceInv, OnceType, BackLists
<1>3. Hwm \in Nat \ {0} /\ ReplyHwm \in Nat \ {0}
  BY BrokerAssumption
<1>4. ASSUME NEW k \in Compressors, GoesOn(k)' PROVE Roomy'
  BY <1>4 DEF Roomy
<1>5. ASSUME NEW k \in Compressors, CompressorConnects(k) PROVE Roomy'
  <2>1. conn[k] = None /\ conn' = [conn EXCEPT ![k] = "up"] /\ out' = out
    BY <1>5 DEF CompressorConnects
  <2>2. out[k] = << >>
    BY <1>1, <2>1 DEF Queued, None
  <2>3. conn'[k] = "up" /\ Len(out'[k]) < Hwm
    BY <1>2, <1>3, <2>1, <2>2
  <2> QED
    BY <1>4, <2>3 DEF GoesOn
<1>6. ASSUME NEW k \in Compressors, Receive(k) PROVE Roomy'
  <2>1. /\ conn[k] = "up" /\ out[k] # << >> /\ out' = [out EXCEPT ![k] = Tail(out[k])] /\ conn' = conn
    BY <1>6 DEF Receive
  <2>2. out[k] \in Seq(Pieces) /\ Len(out[k]) <= Hwm
    BY <1>1, <1>2 DEF Queued
  <2>3. Len(Tail(out[k])) = Len(out[k]) - 1 /\ Len(out[k]) \in Nat
    BY <2>1, <2>2, HeadTailProperties, LenProperties
  <2>4. conn'[k] = "up" /\ Len(out'[k]) < Hwm
    BY <1>2, <1>3, <2>1, <2>2, <2>3
  <2> QED
    BY <1>4, <2>4 DEF GoesOn
<1>7. ASSUME NEW k \in Compressors, Reply(k) PROVE Roomy'
  <2>1. conn'[k] = "up" /\ busy'[k] = << >>
    BY <1>1, <1>2, <1>7 DEF Reply
  <2> QED
    BY <1>4, <2>1 DEF GoesOn
<1>8. CASE Poll
  <2>1. \/ rep' = rep /\ \A k \in Compressors : rep[k] = << >>
        \/ \E k \in Compressors : /\ conn[k] = "up" /\ rep[k] # << >>
                                  /\ rep' = [rep EXCEPT ![k] = Tail(rep[k])]
    BY <1>8, PollBack
  <2>2. conn' = conn
    BY <1>8 DEF Poll
  <2>3. CASE rep' = rep /\ \A k \in Compressors : rep[k] = << >>
    <3>1. ASSUME NEW k \in Compressors, conn[k] = "up" PROVE Roomy'
      <4>1. conn'[k] = "up" /\ Len(rep'[k]) < ReplyHwm
        BY <1>3, <2>2, <2>3, <3>1
      <4> QED
        BY <1>4, <4>1 DEF GoesOn
    <3>2. CASE \A k \in Compressors : conn[k] # "up"
      <4>1. Connected' = {}
        BY <2>2, <3>2 DEF Connected, Unbroken, None
      <4> QED
        BY <4>1 DEF Roomy
    <3> QED
      BY <3>1, <3>2
  <2>4. ASSUME NEW k \in Compressors, conn[k] = "up", rep[k] # << >>,
               rep' = [rep EXCEPT ![k] = Tail(rep[k])]
        PROVE  Roomy'
    <3>1. rep[k] \in Seq(Replies) /\ Len(rep[k]) <= ReplyHwm
      BY <1>1 DEF Queued
    <3>2. Len(Tail(rep[k])) = Len(rep[k]) - 1 /\ Len(rep[k]) \in Nat
      BY <2>4, <3>1, HeadTailProperties, LenProperties
    <3>3. conn'[k] = "up" /\ Len(rep'[k]) < ReplyHwm
      BY <1>1, <1>3, <2>2, <2>4, <3>1, <3>2
    <3> QED
      BY <1>4, <3>3 DEF GoesOn
  <2> QED
    BY <2>1, <2>3, <2>4
<1>9. CASE BackSend
  <2>1. broker.pc = "fwd" /\ UNCHANGED <<conn, rep, busy>>
    BY <1>2, <1>9, SendIs
  <2>2. CASE Len(broker.hold) > 1
    <3>1. out' = out
      BY <1>2, <1>9, <2>2, SendIs
    <3> QED
      BY <2>1, <3>1 DEF Roomy, Connected, GoesOn
  <2>3. CASE ~(Len(broker.hold) > 1)
    <3>1. broker' = Done
      BY <1>2, <1>9, <2>3, SendIs
    <3>2. broker'.pc # "fwd"
      BY <3>1, DoneIs DEF FrontInv
    <3> QED
      BY <3>2 DEF Roomy
  <2> QED
    BY <2>2, <2>3
<1>10. CASE FrontSendId \/ FrontSendBody
  <2>1. broker' = [broker EXCEPT !.pc = "body"] \/ broker' = Done
    BY <1>10 DEF FrontSendId, FrontSendBody
  <2>2. broker'.pc # "fwd"
    BY <2>1, DoneIs DEF FrontInv, FrontType
  <2> QED
    BY <2>2 DEF Roomy
<1>11. ASSUME UNCHANGED <<conn, out, rep, busy, broker>> PROVE Roomy'
  BY <1>11 DEF Roomy, Connected, GoesOn
<1>12. ASSUME NEW c \in Clients, FrontCommand(c) PROVE Roomy'
  BY <1>11, <1>12 DEF FrontCommand, ClientConnects, MessageArrives, ClientLeaves, ClientGone, backVars
<1>13. ASSUME NEW k \in Compressors, RoomAgain(k) PROVE Roomy'
  BY <1>11, <1>13 DEF RoomAgain
<1>14. CASE UNCHANGED vars
  BY <1>11, <1>14 DEF vars, backVars
<1> QED
  BY <1>5, <1>6, <1>7, <1>8, <1>9, <1>10, <1>12, <1>13, <1>14 DEF Next, BackCommand, BrokerStep

LEMMA KeptLike ==
  ASSUME Kept, Alive' => Alive, anon \subseteq anon',
         \A c \in Clients \ ReqClients : client'[c] \notin {None, "absent"} =>
           client[c] \notin {None, "absent"} \/ KeptOf(c)',
         \A c \in Clients \ ReqClients : KeptOf(c) => KeptOf(c)'
  PROVE  Kept'
BY DEF Kept

\* A message that is taken is held, one that is sent is stored, and one that a
\* compressor receives is handled, as it comes whole.
LEMMA KeptStep ==
  ASSUME FrontInv, OnceInv, BackInv, Queues, Kept, [Next]_vars,
         \A k \in Compressors : ~CompressorBreaks(k) /\ ~PipeTerm(k) /\ ~PipeGone(k)
  PROVE  Kept'
<1>1. /\ client \in [Clients -> {"absent", None, "up", "left", "gone"}] /\ in \in [Clients -> Waits]
      /\ FrontType /\ OnceType /\ Once /\ BackLists
      /\ out \in [Compressors -> Seq(Pieces)] /\ part \in [Compressors -> Seq(Heads)]
      /\ handled \in [Clients -> {0, 1}]
      /\ \A k \in Compressors : out[k] \in Seq(Messages)
  BY DEF FrontInv, FrontType, OnceInv, OnceType, BackInv, BackType
<1>2. ASSUME NEW c \in Clients, FrontCommand(c) PROVE Kept'
  <2>1. Alive /\ UNCHANGED <<out, handled, broker>>
    BY <1>2 DEF FrontCommand, ClientConnects, MessageArrives, ClientLeaves, ClientGone, backVars
  <2>2. /\ anon \subseteq anon'
        /\ \A d \in Clients : in[d] # << >> => in'[d] # << >>
        /\ \A d \in Clients : client'[d] \notin {None, "absent"} =>
             client[d] \notin {None, "absent"} \/ in'[d] # << >>
    <3>1. CASE ClientConnects(c)
      BY <1>1, <3>1, PartsNotEmpty DEF ClientConnects
    <3>2. CASE MessageArrives(c)
      BY <1>1, <3>2, PartsNotEmpty DEF MessageArrives
    <3>3. CASE ClientLeaves(c) \/ ClientGone(c)
      BY <1>1, <3>3 DEF ClientLeaves, ClientGone, None
    <3> QED
      BY <1>2, <3>1, <3>2, <3>3 DEF FrontCommand
  <2>3. \A d \in Clients : KeptOf(d) => KeptOf(d)'
    BY <2>1, <2>2 DEF KeptOf, Held, Stored, Carries, Body
  <2>4. \A d \in Clients : in'[d] # << >> => KeptOf(d)'
    BY DEF KeptOf
  <2> QED
    BY <2>1, <2>2, <2>3, <2>4, KeptLike
<1>3. ASSUME UNCHANGED <<client, anon, in, out, handled, broker, failed>> PROVE Kept'
  <2>1. \A d \in Clients : KeptOf(d) => KeptOf(d)'
    BY <1>3 DEF KeptOf, Held, Stored, Carries, Body
  <2> QED
    BY <1>3, <2>1, KeptLike DEF Alive
<1>4. ASSUME NEW k \in Compressors, CompressorConnects(k) \/ RoomAgain(k) \/ Reply(k) PROVE Kept'
  BY <1>3, <1>4 DEF CompressorConnects, RoomAgain, Reply, frontVars
<1>5. CASE UNCHANGED vars
  BY <1>3, <1>5 DEF vars, frontVars, backVars
<1>6. CASE FrontSendId \/ FrontSendBody
  <2>1. Alive /\ UNCHANGED <<client, anon, in, out, handled>> /\ broker.pc # "fwd"
    BY <1>6 DEF FrontSendId, FrontSendBody, backVars, At
  <2>2. \A d \in Clients : KeptOf(d) => KeptOf(d)'
    BY <2>1 DEF KeptOf, Held, Stored, Carries, Body
  <2> QED
    BY <2>1, <2>2, KeptLike
<1>7. CASE Poll
  <2> DEFINE f == Skip(fq, FrontReady)
             c == f.pipes[f.cur]
             msg == <<IdPart(c)>> \o Parts(c)
  <2>1. Alive /\ UNCHANGED <<client, anon, out, handled>> /\ broker.pc = "poll"
    BY <1>7 DEF Poll, At
  <2>2. f.active > 0 => c \in ids /\ in[c] = Parts(c)
    BY <1>7, PollFront
  <2>3. CASE f.active > 0
    <3>1. in' = [in EXCEPT ![c] = << >>] /\ <<IdPart(c)>> \o in[c] = msg
      BY <1>7, <2>2, <2>3 DEF Poll
    <3>2. c \in ids
      BY <2>2, <2>3
    <3>3. c \in Clients
      <4> HIDE DEF c, f
      <4> QED
        BY <3>2 DEF FrontInv, Table
    <3>4. msg \in Pieces /\ Carries(msg, c)
      <4> HIDE DEF c
      <4> QED
        BY <3>3, ClientPiece
    <3>5. msg # << >>
      <4> HIDE DEF msg
      <4> QED
        BY <3>4, PieceFacts
    <3>6. broker'.pc = "fwd" /\ broker'.hold = msg
      BY <1>7, <2>3, <3>1, <3>5 DEF Poll
    <3> HIDE DEF f, c, msg
    <3>7. ASSUME NEW d \in Clients, d = c PROVE Held(d)'
      <4>1. Held(d)' <=> broker'.pc = "fwd" /\ Carries(broker'.hold, d)
        BY DEF Held, Carries, Body
      <4> QED
        BY <3>4, <3>6, <3>7, <4>1
    <3>8. \A d \in Clients : d # c => in'[d] = in[d]
      BY <1>1, <3>1
    <3>9. ASSUME NEW d \in Clients, KeptOf(d) PROVE KeptOf(d)'
      <4>1. CASE d = c
        BY <3>7, <4>1 DEF KeptOf
      <4>2. CASE d # c
        <5>1. ~Held(d) /\ in'[d] = in[d] /\ handled' = handled
          BY <2>1, <3>8, <4>2 DEF Held
        <5>2. \A k \in Compressors, i \in Nat : Stored(d, k, i) => Stored(d, k, i)'
          BY <2>1 DEF Stored, Carries, Body
        <5> QED
          BY <3>9, <5>1, <5>2, Zenon DEF KeptOf
      <4> QED
        BY <4>1, <4>2
    <3> QED
      BY <2>1, <3>9, KeptLike
  <2>4. CASE ~(f.active > 0)
    <3>1. in' = in
      BY <1>7, <2>4 DEF Poll
    <3>2. \A d \in Clients : KeptOf(d) => KeptOf(d)'
      BY <2>1, <3>1 DEF KeptOf, Held, Stored, Carries, Body
    <3> QED
      BY <2>1, <3>2, KeptLike
  <2> QED
    BY <2>3, <2>4
<1>8. CASE BackSend
  <2> SUFFICES ASSUME Alive' PROVE Kept'
    BY DEF Kept
  <2>1. /\ broker.pc = "fwd" /\ UNCHANGED <<client, anon, in, handled>> /\ Alive
        /\ broker' = IF Len(broker.hold) > 1 THEN [broker EXCEPT !.hold = Tail(broker.hold)] ELSE Done
    BY <1>1, <1>8, SendIs DEF frontVars, BackSend, At
  <2>2. broker.hold \in Pieces
    BY <1>1, <2>1 DEF OnceType
  <2>3. ~lb.dropping /\ failed' = {}
    BY DEF Queues, Alive
  <2>4. CASE Len(broker.hold) > 1
    <3>1. out' = out
      BY <1>1, <1>8, <2>4, SendIs
    <3>2. broker'.pc = "fwd" /\ broker'.hold = Tail(broker.hold)
      BY <1>1, <2>1, <2>4 DEF FrontType
    <3>3. << >> \in Seq(Heads)
      BY EmptySeq
    <3>4. \A d : Carries(Tail(broker.hold), d) <=> Carries(broker.hold, d)
      BY <2>2, <2>4, <3>3, NextPiece
    <3>5. \A d \in Clients : Held(d) => Held(d)'
      BY <2>1, <3>2, <3>4 DEF Held, Carries, Body
    <3>6. \A d \in Clients : KeptOf(d) => KeptOf(d)'
      BY <2>1, <3>1, <3>5 DEF KeptOf, Stored, Carries, Body
    <3> QED
      BY <2>1, <3>6, KeptLike
  <2>5. CASE ~(Len(broker.hold) > 1)
    <3>1. PICK k \in Compressors :
            out' = [out EXCEPT ![k] = Append(out[k], Append(part[k], Head(broker.hold)))]
      BY <1>1, <1>8, <2>3, <2>5, SendIs
    <3> DEFINE msg == Append(part[k], Head(broker.hold))
               n == Len(out[k]) + 1
    <3>2. part[k] \in Seq(Heads) /\ out[k] \in Seq(Pieces)
      BY <1>1
    <3>3. msg \in Pieces /\ \A c : Carries(msg, c) <=> Carries(broker.hold, c)
      BY <2>2, <2>5, <3>2, NextPiece
    <3>4. out' = [out EXCEPT ![k] = Append(out[k], msg)]
      BY <3>1
    <3> HIDE DEF msg
    <3>5. /\ Len(Append(out[k], msg)) = n /\ n \in Nat /\ n \in 1..n
          /\ Append(out[k], msg)[n] = msg
          /\ \A i \in 1..Len(out[k]) : i \in 1..n /\ Append(out[k], msg)[i] = out[k][i]
      BY <3>2, <3>3
    <3>6. out'[k] = Append(out[k], msg) /\ \A j \in Compressors : j # k => out'[j] = out[j]
      BY <1>1, <3>4
    <3> HIDE DEF n
    <3>7. ASSUME NEW c \in Clients, Held(c), NEW i \in Nat, i = n PROVE Stored(c, k, i)'
      <4>1. Stored(c, k, i)' <=> i \in 1..Len(out'[k]) /\ Carries(out'[k][i], c)
        BY DEF Stored, Carries, Body
      <4>2. Carries(msg, c)
        BY <3>3, <3>7 DEF Held
      <4> QED
        BY <3>5, <3>6, <3>7, <4>1, <4>2
    <3>8. ASSUME NEW c \in Clients, NEW j \in Compressors, NEW i \in Nat, Stored(c, j, i)
          PROVE  Stored(c, j, i)'
      <4>1. i \in 1..Len(out[j]) /\ Carries(out[j][i], c)
        BY <3>8 DEF Stored
      <4>2. i \in 1..Len(out'[j]) /\ out'[j][i] = out[j][i]
        BY <3>5, <3>6, <4>1
      <4> QED
        BY <4>1, <4>2 DEF Stored, Carries, Body
    <3>9. ASSUME NEW c \in Clients, KeptOf(c) PROVE KeptOf(c)'
      <4>1. CASE in[c] # << >> \/ handled[c] = 1
        BY <2>1, <4>1 DEF KeptOf
      <4>2. CASE Held(c)
        <5>1. \E j \in Compressors, i \in Nat : Stored(c, j, i)'
          BY <3>5, <3>7, <4>2
        <5> QED
          BY <5>1 DEF KeptOf
      <4>3. CASE \E j \in Compressors, i \in Nat : Stored(c, j, i)
        <5>1. \E j \in Compressors, i \in Nat : Stored(c, j, i)'
          BY <3>8, <4>3
        <5> QED
          BY <5>1 DEF KeptOf
      <4> QED
        BY <3>9, <4>1, <4>2, <4>3 DEF KeptOf
    <3> QED
      BY <2>1, <3>9, KeptLike
  <2> QED
    BY <2>4, <2>5
<1>9. ASSUME NEW k \in Compressors, Receive(k) PROVE Kept'
  <2> DEFINE m == Head(out[k])
  <2>1. /\ out[k] # << >> /\ out' = [out EXCEPT ![k] = Tail(out[k])]
        /\ IF Len(m) > 1 /\ m[2][1] = "body"
             THEN handled' = [handled EXCEPT ![m[2][2]] = handled[m[2][2]] + 1]
             ELSE UNCHANGED handled
        /\ UNCHANGED <<client, anon, in, broker, failed>>
    BY <1>9 DEF Receive, frontVars
  <2>2. out[k] \in Seq(Messages)
    BY <1>1
  <2>3. /\ Len(out[k]) \in Nat /\ Len(out[k]) >= 1 /\ m = out[k][1] /\ m \in Messages
        /\ Len(Tail(out[k])) = Len(out[k]) - 1
        /\ \A i \in 1..Len(out[k]) - 1 : Tail(out[k])[i] = out[k][i + 1]
    BY <2>1, <2>2, HeadTailProperties, EmptySeq, LenProperties
  <2>4. out'[k] = Tail(out[k]) /\ \A j \in Compressors : j # k => out'[j] = out[j]
    BY <1>1, <2>1
  <2>5. m \in Pieces
    <3>1. out[k] \in Seq(Pieces)
      BY <1>1
    <3> QED
      BY <2>1, <3>1, HeadTailProperties
  <2> HIDE DEF m
  <2>6. ASSUME NEW c \in Clients \ ReqClients, Carries(m, c) PROVE handled'[c] = 1
    <3>1. PICK d \in Clients : m = <<IdPart(d)>> \o Parts(d)
      BY <2>3 DEF Messages
    <3>2. d = c
      BY <2>6, <3>1, ClientPiece
    <3>3. Len(m) = 2 /\ m[2] = Body(c)
      BY <2>6, <3>1, <3>2, ClientPiece
    <3>4. Len(m) > 1 /\ m[2][1] = "body" /\ m[2][2] = c
      BY <3>3 DEF Body
    <3>5. Stored(c, k, 1)
      BY <2>3, <2>6 DEF Stored
    <3>6. handled[c] = 0
      <4>1. 1 \in Nat
        OBVIOUS
      <4> QED
        BY <1>1, <3>5, <4>1, Zenon DEF Once
    <3>7. handled' = [handled EXCEPT ![c] = handled[c] + 1]
      BY <2>1, <3>4
    <3> QED
      BY <1>1, <3>6, <3>7
  <2>7. \A c \in Clients : handled[c] = 1 => handled'[c] = 1
    <3>1. handled' = handled \/ \E d \in Clients : Carries(m, d) /\ handled' = [handled EXCEPT ![d] = handled[d] + 1]
      BY <2>1, <2>5, HandlesPiece
    <3>2. ASSUME NEW d \in Clients, Carries(m, d) PROVE handled[d] = 0
      <4>1. Stored(d, k, 1) /\ 1 \in Nat
        BY <2>3, <3>2 DEF Stored
      <4> QED
        BY <1>1, <4>1, Zenon DEF Once
    <3> QED
      BY <1>1, <3>1, <3>2
  <2>8. ASSUME NEW c \in Clients \ ReqClients, NEW j \in Compressors, NEW i \in Nat, Stored(c, j, i)
        PROVE  KeptOf(c)'
    <3>1. i \in 1..Len(out[j]) /\ Carries(out[j][i], c)
      BY <2>8 DEF Stored
    <3>2. CASE j # k
      <4>1. Stored(c, j, i)'
        BY <2>4, <3>1, <3>2 DEF Stored, Carries, Body
      <4> QED
        BY <4>1 DEF KeptOf
    <3>3. CASE j = k /\ i = 1
      <4>1. handled'[c] = 1
        BY <2>3, <2>6, <3>1, <3>3
      <4> QED
        BY <4>1 DEF KeptOf
    <3>4. CASE j = k /\ i # 1
      <4>1. i - 1 \in 1..Len(out[k]) - 1 /\ (i - 1) + 1 = i /\ i - 1 \in Nat
        BY <2>3, <3>1, <3>4
      <4>2. i - 1 \in 1..Len(out'[k]) /\ out'[k][i - 1] = out[k][i]
        BY <2>3, <2>4, <4>1
      <4>3. Stored(c, k, i - 1)'
        BY <3>1, <3>4, <4>2 DEF Stored, Carries, Body
      <4> QED
        BY <4>1, <4>3 DEF KeptOf
    <3> QED
      BY <3>2, <3>3, <3>4
  <2>9. ASSUME NEW c \in Clients \ ReqClients, KeptOf(c) PROVE KeptOf(c)'
    <3>1. CASE in[c] # << >> \/ Held(c) \/ handled[c] = 1
      BY <2>1, <2>7, <3>1 DEF KeptOf, Held, Carries, Body
    <3>2. CASE \E j \in Compressors, i \in Nat : Stored(c, j, i)
      BY <2>8, <3>2
    <3> QED
      BY <2>9, <3>1, <3>2 DEF KeptOf
  <2> QED
    BY <2>1, <2>9, KeptLike DEF Alive
<1> QED
  BY <1>2, <1>4, <1>5, <1>6, <1>7, <1>8, <1>9 DEF Next, BackCommand, BrokerStep

LEMMA CalmStep ==
  ASSUME FrontInv, OnceInv, CalmInv, [Next]_vars
  PROVE  CalmInv'
<1> SUFFICES ASSUME Unbroken' PROVE (BackInv /\ Queues /\ Roomy /\ Kept)'
  BY DEF CalmInv
<1>1. /\ Unbroken
      /\ \A k \in Compressors : ~CompressorBreaks(k) /\ ~PipeTerm(k) /\ ~PipeGone(k)
  BY UnbrokenStep DEF OnceInv, OnceType
<1>2. BackInv /\ Queues /\ Roomy /\ Kept
  BY <1>1 DEF CalmInv
<1> QED
  BY <1>1, <1>2, BackStepBut, QueuesStep, RoomyStep, KeptStep

\* The broker's invariant: its two sides, where every message is, and, while no
\* connection has broken, that the broker and the compressors do not block.
THEOREM BrokerInvariance == Spec => [](FrontInv /\ OnceInv /\ Awake /\ CalmInv)
<1>1. Init => FrontInv /\ OnceInv /\ Awake /\ CalmInv
  BY FrontInit, OnceInit, AwakeInit, CalmInit
<1>2. FrontInv /\ OnceInv /\ Awake /\ CalmInv /\ [Next]_vars
        => (FrontInv /\ OnceInv /\ Awake /\ CalmInv)'
  BY FrontStep, OnceStep, AwakeStep, CalmStep
<1> QED
  BY <1>1, <1>2, PTL DEF Spec

\* The broker waits for room while every compressor waits for the broker only
\* after a connection broke, whatever the limits of the queues and however many
\* compressors there are: the round of the poller that fetched the message took
\* a reply too, if any was there, so that one compressor at least can go on.
THEOREM NeverStandstill == Spec => []NoStandstill
<1>1. OnceInv /\ CalmInv => NoStandstill
  <2> SUFFICES ASSUME OnceInv, CalmInv, Stuck, \A k \in Compressors : conn[k] # "gone" PROVE FALSE
    BY DEF NoStandstill
  <2>1. conn \in [Compressors -> {"absent", None, "up", "down", "closing", "gone"}]
    BY DEF OnceInv, OnceType, BackLists
  <2>2. Unbroken
    BY <2>1 DEF Stuck, Unbroken
  <2>3. Connected # {}
    BY DEF Stuck, Connected
  <2>4. PICK k \in Compressors : GoesOn(k)
    BY <2>2, <2>3 DEF CalmInv, Roomy, Stuck
  <2>5. Len(out[k]) = Hwm /\ busy[k] # << >> /\ Len(rep[k]) = ReplyHwm
    BY <2>4 DEF GoesOn, Stuck
  <2>6. Hwm \in Nat /\ ReplyHwm \in Nat
    BY BrokerAssumption
  <2> QED
    BY <2>4, <2>5, <2>6 DEF GoesOn
<1> QED
  BY <1>1, BrokerInvariance, PTL

\* No message is handled twice, whatever breaks; and when everything rests and
\* no connection has broken, every message was handled, but for one with an empty
\* part in front and that of a client whose identity was taken.
THEOREM MessagesHandledOnce == Spec => []HandledOnce
<1>1. FrontInv /\ OnceInv /\ Awake /\ CalmInv => HandledOnce
  <2> SUFFICES ASSUME FrontInv, OnceInv, Awake, CalmInv PROVE HandledOnce
    OBVIOUS
  <2>1. /\ conn \in [Compressors -> {"absent", None, "up", "down", "closing", "gone"}]
        /\ handled \in [Clients -> {0, 1}] /\ out \in [Compressors -> Seq(Pieces)]
        /\ client \in [Clients -> {"absent", None, "up", "left", "gone"}]
        /\ fq \in Lists(Clients) /\ Table
    BY DEF OnceInv, OnceType, BackLists, FrontInv, FrontType, Table
  <2>2. \A c \in Clients : handled[c] <= 1
    BY <2>1
  <2>3. ASSUME AtRest, NEW c \in Clients, client[c] \notin {None, "absent"},
               c \notin ReqClients \cup anon, \A k \in Compressors : conn[k] # "gone"
        PROVE  handled[c] = 1
    <3>1. Unbroken
      BY <2>1, <2>3 DEF AtRest, Unbroken
    <3>2. KeptOf(c)
      BY <2>3, <3>1 DEF CalmInv, Kept, AtRest, At
    <3>3. ~Held(c)
      BY <2>3 DEF AtRest, At, Held
    <3>4. \A k \in Compressors : out[k] = << >>
      BY <2>3, <3>1 DEF AtRest, CalmInv, Queues, Queued
    <3>5. \A k \in Compressors, i \in Nat : ~Stored(c, k, i)
      BY <3>4 DEF Stored
    <3>6. in[c] = << >>
      <4> SUFFICES ASSUME in[c] # << >> PROVE FALSE
        OBVIOUS
      <4>1. client[c] \in {"up", "left"} /\ in[c] # Later
        BY <2>3 DEF Awake, AtRest
      <4>2. c \in ids
        BY <2>1, <2>3, <4>1 DEF Table
      <4>3. c \in FrontReady /\ IsActive(fq, c)
        BY <4>1, <4>2 DEF FrontReady, Awake
      <4>4. IsActive(Skip(fq, FrontReady), c)
        BY <2>1, <4>3, SkipKeeps
      <4>5. Skip(fq, FrontReady).active = 0
        BY <2>3 DEF AtRest
      <4> QED
        BY <4>4, <4>5 DEF IsActive
    <3> QED
      BY <3>2, <3>3, <3>5, <3>6 DEF KeptOf
  <2> QED
    BY <2>2, <2>3 DEF HandledOnce
<1> QED
  BY <1>1, BrokerInvariance, PTL
===============================================================================

--------------------------- MODULE ShopProxyProofs ---------------------------
(***************************************************************************)
(* Proofs about ShopProxy for any number of requests, workers and hosts,   *)
(* any rule, any life of memcached's values and any bound on how long a    *)
(* request or an "add" is on its way.                                      *)
(***************************************************************************)
EXTENDS ShopProxy, SequenceTheorems, TLAPS

States == {"new", "get", "dial", "use", "select", "row", "done", "reset", "dropped"}
Asking == {"get", "dial", "use", "select", "row"}
Values == Targets \cup {"other", "invalid", "nothing"}
Contents == Rows \cup Values \cup {"rule", "error"}
Texts == Targets \cup {"404", "no target"} \cup {ByRule[h] : h \in DOMAIN ByRule}

Request == [st : States, host : Hosts \cup {CHOOSE h \in Hosts : TRUE},
            at : Workers \cup {CHOOSE w \in Workers : TRUE}, ans : Seq(Texts),
            row : Contents, since : Nat, lag : Nat]

(* What the program keeps is of the kind it should be. *)
TypeOK ==
    /\ req \in [Requests -> Request]
    /\ \A r \in Requests : req[r].st \in Asking => req[r].host \in Hosts
    /\ up \in SUBSET Workers /\ db \in Rows /\ changed \in Nat /\ changed <= now
    /\ cache \in [Keys -> [val : Values, end : Nat]]
    /\ adds \in SUBSET [key : Hosts, val : Values, since : Nat]
    /\ now \in Nat /\ faults \in Nat /\ changes \in Nat

(* AnsweredOnce, and what makes it hold at the next step too: who is not     *)
(* done has been sent nothing, and "other" is only ever the last row read.   *)
Answering == \A r \in Requests :
    /\ req[r].st # "done" => req[r].ans = << >>
    /\ req[r].st \in {"new", "get", "dial", "use", "select"} => req[r].row # "other"
    /\ req[r].st = "done" => Len(req[r].ans) = 1 \/ req[r].row = "other"
    /\ req[r].st \in {"reset", "dropped"} => faults > 0 \/ Odd

(* ChangeTakesEffect, and how old a row can be that a request has read and   *)
(* the database no longer says,                                              *)
RequestsAge == \A r \in Requests :
    /\ req[r].lag < Ttl + 2 * MaxOpen
    /\ req[r].st \in Asking => req[r].since <= now /\ now <= req[r].since + MaxOpen
    /\ req[r].st = "row" => Val(req[r].row) = Val(db) \/ req[r].since <= changed

(* an "add" on its way with such a value,                                    *)
AddsAge == \A a \in adds :
    /\ a.since <= now /\ now <= a.since + MaxOpen
    /\ a.val = Val(a.val)
    /\ a.val = Val(db) \/ a.since <= changed + MaxOpen

(* and such a value in memcached.                                            *)
ValuesAge == \A k \in Keys :
    /\ cache[k].end <= now + Ttl
    /\ cache[k].end > 0 => cache[k].val = Val(cache[k].val)
    /\ cache[k].end > 0 => cache[k].val = Val(db) \/ cache[k].end <= changed + Ttl + 2 * MaxOpen

ShopInv == TypeOK /\ Answering /\ RequestsAge /\ AddsAge /\ ValuesAge

-----------------------------------------------------------------------------
\* What a row is called in memcached.
LEMMA ValFacts ==
  /\ \A v \in Contents : Val(v) \in Values /\ Val(Val(v)) = Val(v)
  /\ \A v \in Rows : v = "other" <=> Val(v) = "other"
BY DEF Val, Contents, Rows, Values, Targets

\* A pair is a sequence.
LEMMA PairIsSeq ==
  ASSUME NEW S, NEW a \in S, NEW b \in S
  PROVE  <<a, b>> \in Seq(S)
OBVIOUS

\* What is sent for a value.
LEMMA AnswersFacts ==
  ASSUME NEW v
  PROVE  /\ Answers(v) \in Seq(Texts)
         /\ << >> \o Answers(v) = Answers(v)
         /\ Len(Answers(v)) = 1 \/ v = "other"
<1>1. CASE v \in Targets
  <2>1. Answers(v) = <<v>> /\ v \in Texts
    BY <1>1 DEF Answers, Texts, Targets
  <2> QED
    BY <2>1, ConcatEmptySeq
<1>2. CASE v = "other"
  <2>1. Answers(v) = <<"404", "no target">>
    BY <1>2 DEF Answers, Targets
  <2>2. "404" \in Texts /\ "no target" \in Texts
    BY DEF Texts
  <2>3. Answers(v) \in Seq(Texts)
    BY <2>1, <2>2, PairIsSeq
  <2> QED
    BY <1>2, <2>3, ConcatEmptySeq
<1>3. CASE v \notin Targets /\ v # "other"
  <2>1. Answers(v) = <<"404">> /\ "404" \in Texts
    BY <1>3 DEF Answers, Texts
  <2> QED
    BY <2>1, ConcatEmptySeq
<1> QED
  BY <1>1, <1>2, <1>3

\* Answering a request changes nothing about the others.
LEMMA AnswerFacts ==
  ASSUME ShopInv, NEW r \in Requests, req[r].st \in Asking, NEW v \in Contents
  PROVE  /\ Answer(r, v) \in [Requests -> Request]
         /\ \A q \in Requests : q # r => Answer(r, v)[q] = req[q]
         /\ Answer(r, v)[r].st = "done" /\ Answer(r, v)[r].row = v
         /\ Answer(r, v)[r].at = req[r].at /\ Answer(r, v)[r].since = req[r].since
         /\ Answer(r, v)[r].host = req[r].host
         /\ Len(Answer(r, v)[r].ans) = 1 \/ v = "other"
         /\ Answer(r, v)[r].lag = IF Val(v) = Val(db) THEN 0 ELSE now - changed
<1>1. req[r].ans = << >>
  BY DEF ShopInv, Answering, Asking
<1>2. now - changed \in Nat
  BY DEF ShopInv, TypeOK
<1>3. req[r].ans \o Answers(v) = Answers(v) /\ Answers(v) \in Seq(Texts)
  BY <1>1, AnswersFacts
<1>4. req[r] \in Request
  BY DEF ShopInv, TypeOK
<1> DEFINE q1 == [req[r] EXCEPT !.st = "done", !.ans = req[r].ans \o Answers(v), !.row = v,
                                !.lag = IF Val(v) = Val(db) THEN 0 ELSE now - changed]
<1>5. q1 \in Request
  BY <1>2, <1>3, <1>4 DEF Request, States
<1>6. Answer(r, v) = [req EXCEPT ![r] = q1]
  BY DEF Answer
<1>7. /\ q1.st = "done" /\ q1.row = v /\ q1.at = req[r].at /\ q1.since = req[r].since
      /\ q1.host = req[r].host /\ q1.ans = Answers(v)
      /\ q1.lag = IF Val(v) = Val(db) THEN 0 ELSE now - changed
  BY <1>3, <1>4 DEF Request
<1> HIDE DEF q1
<1>8. Answer(r, v) \in [Requests -> Request] /\ Answer(r, v)[r] = q1
      /\ \A q \in Requests : q # r => Answer(r, v)[q] = req[q]
  BY <1>5, <1>6 DEF ShopInv, TypeOK
<1> QED
  BY <1>7, <1>8, AnswersFacts

\* A worker that dies resets what it had open and leaves the rest.
LEMMA DiesFacts ==
  ASSUME NEW rs \in [Requests -> Request], NEW w, Dies(rs, w)
  PROVE  /\ req' \in [Requests -> Request]
         /\ up' \subseteq up
         /\ \A q \in Requests :
              \/ req'[q] = rs[q]
              \/ /\ rs[q].st \in Asking /\ req'[q].st = "reset"
                 /\ req'[q].ans = rs[q].ans /\ req'[q].row = rs[q].row
                 /\ req'[q].lag = rs[q].lag /\ req'[q].since = rs[q].since
<1>1. \A q \in Requests : [rs[q] EXCEPT !.st = "reset"] \in Request
  BY DEF Request, States
<1> QED
  BY <1>1 DEF Dies, Busy, Asking, Request

\* A request is answered, and the worker may die of it: nobody is answered
\* twice, and the answer is as recent as the value it was made from.
LEMMA AnsweredStep ==
  ASSUME ShopInv, NEW r \in Requests, req[r].st \in Asking,
         NEW v \in Contents, NEW raises \in Raises(v), Answered(r, v, raises),
         req[r].st = "row" => req[r].row = v,
         Val(v) = Val(db) \/ now - changed < Ttl + 2 * MaxOpen,
         UNCHANGED <<db, changed, now, faults>>
  PROVE  /\ req' \in [Requests -> Request]
         /\ \A q \in Requests : req'[q].st \in Asking => req'[q].host \in Hosts
         /\ up' \in SUBSET Workers
         /\ Answering' /\ RequestsAge'
<1> DEFINE rs == Answer(r, v)
<1>1. /\ rs \in [Requests -> Request]
      /\ \A q \in Requests : q # r => rs[q] = req[q]
      /\ rs[r].st = "done" /\ rs[r].row = v
      /\ Len(rs[r].ans) = 1 \/ v = "other"
      /\ rs[r].lag = IF Val(v) = Val(db) THEN 0 ELSE now - changed
  BY AnswerFacts
<1>2. rs[r].lag < Ttl + 2 * MaxOpen
  BY <1>1, ShopAssumption DEF ShopInv, TypeOK
<1> HIDE DEF rs
<1>3. /\ req' \in [Requests -> Request] /\ up' \subseteq up
      /\ raises => v = "other"
      /\ \A q \in Requests :
           \/ req'[q] = rs[q]
           \/ /\ raises /\ rs[q].st \in Asking /\ req'[q].st = "reset"
              /\ req'[q].ans = rs[q].ans /\ req'[q].row = rs[q].row
              /\ req'[q].lag = rs[q].lag /\ req'[q].since = rs[q].since
  <2>1. CASE raises
    <3>1. Dies(rs, req[r].at)
      BY <2>1 DEF Answered, rs
    <3> QED
      BY <2>1, <3>1, <1>1, DiesFacts DEF Raises
  <2>2. CASE ~raises
    <3>1. req' = rs /\ up' = up
      BY <2>2 DEF Answered, rs
    <3> QED
      BY <2>2, <3>1, <1>1
  <2> QED
    BY <2>1, <2>2
<1>4. req'[r] = rs[r]
  BY <1>1, <1>3 DEF Asking
<1>5. Odd => Odd'
  <2> SUFFICES ASSUME NEW q \in Requests, req[q].row = "other" PROVE req'[q].row = "other"
    BY DEF Odd
  <2>1. CASE q = r
    BY <2>1, <1>1, <1>4 DEF ShopInv, Answering, Asking
  <2>2. CASE q # r
    BY <2>2, <1>1, <1>3
  <2> QED
    BY <2>1, <2>2
<1>6. raises => Odd'
  BY <1>1, <1>3, <1>4 DEF Odd
<1>7. Answering'
  <2> SUFFICES ASSUME NEW q \in Requests
               PROVE  /\ req'[q].st # "done" => req'[q].ans = << >>
                      /\ req'[q].st \in {"new", "get", "dial", "use", "select"} => req'[q].row # "other"
                      /\ req'[q].st = "done" => Len(req'[q].ans) = 1 \/ req'[q].row = "other"
                      /\ req'[q].st \in {"reset", "dropped"} => faults' > 0 \/ Odd'
    BY DEF Answering
  <2>1. CASE q = r
    BY <2>1, <1>1, <1>4
  <2>2. CASE q # r
    BY <2>2, <1>1, <1>3, <1>5, <1>6 DEF ShopInv, Answering, Asking
  <2> QED
    BY <2>1, <2>2
<1>8. RequestsAge' /\ \A q \in Requests : req'[q].st \in Asking => req'[q].host \in Hosts
  <2> SUFFICES ASSUME NEW q \in Requests
               PROVE  /\ req'[q].lag < Ttl + 2 * MaxOpen
                      /\ req'[q].st \in Asking => /\ req'[q].since <= now /\ now <= req'[q].since + MaxOpen
                                                 /\ req'[q].host \in Hosts
                      /\ req'[q].st = "row" => Val(req'[q].row) = Val(db) \/ req'[q].since <= changed
    BY DEF RequestsAge, Val, Targets
  <2>1. CASE q = r
    BY <2>1, <1>1, <1>2, <1>4 DEF Asking
  <2>2. CASE q # r
    BY <2>2, <1>1, <1>3 DEF ShopInv, RequestsAge, TypeOK, Asking
  <2> QED
    BY <2>1, <2>2
<1> QED
  BY <1>3, <1>7, <1>8 DEF ShopInv, TypeOK

\* A request goes on to its next callback, or is dropped after a failure.
LEMMA GotoStep ==
  ASSUME ShopInv, NEW r \in Requests, req[r].st \in Asking \ {"row"},
         NEW st \in {"dial", "use", "select", "dropped"}, Goto(r, st),
         st = "dropped" => faults' > 0, faults' >= faults, faults' \in Nat,
         UNCHANGED <<db, changed, now>>
  PROVE  /\ req' \in [Requests -> Request]
         /\ \A q \in Requests : req'[q].st \in Asking => req'[q].host \in Hosts
         /\ Answering' /\ RequestsAge'
<1>1. req[r] \in Request /\ req \in [Requests -> Request]
  BY DEF ShopInv, TypeOK
<1> DEFINE q1 == [req[r] EXCEPT !.st = st]
<1>2. q1 \in Request
  BY <1>1 DEF Request, States
<1>3. /\ q1.st = st /\ q1.row = req[r].row /\ q1.ans = req[r].ans /\ q1.host = req[r].host
      /\ q1.since = req[r].since /\ q1.lag = req[r].lag
  BY <1>1 DEF Request
<1>4. req' = [req EXCEPT ![r] = q1]
  BY DEF Goto
<1> HIDE DEF q1
<1>5. req' \in [Requests -> Request] /\ req'[r] = q1 /\ \A q \in Requests : q # r => req'[q] = req[q]
  BY <1>1, <1>2, <1>4
<1>6. Odd => Odd'
  BY <1>3, <1>5 DEF Odd
<1>7. Answering'
  <2> SUFFICES ASSUME NEW q \in Requests
               PROVE  /\ req'[q].st # "done" => req'[q].ans = << >>
                      /\ req'[q].st \in {"new", "get", "dial", "use", "select"} => req'[q].row # "other"
                      /\ req'[q].st = "done" => Len(req'[q].ans) = 1 \/ req'[q].row = "other"
                      /\ req'[q].st \in {"reset", "dropped"} => faults' > 0 \/ Odd'
    BY DEF Answering
  <2> QED
    BY <1>3, <1>5, <1>6 DEF ShopInv, Answering, Asking, TypeOK
<1>8. RequestsAge' /\ \A q \in Requests : req'[q].st \in Asking => req'[q].host \in Hosts
  <2> SUFFICES ASSUME NEW q \in Requests
               PROVE  /\ req'[q].lag < Ttl + 2 * MaxOpen
                      /\ req'[q].st \in Asking => /\ req'[q].since <= now /\ now <= req'[q].since + MaxOpen
                                                 /\ req'[q].host \in Hosts
                      /\ req'[q].st = "row" => Val(req'[q].row) = Val(db) \/ req'[q].since <= changed
    BY DEF RequestsAge, Val, Targets
  <2> QED
    BY <1>3, <1>5 DEF ShopInv, RequestsAge, TypeOK, Asking
<1> QED
  BY <1>5, <1>7, <1>8

\* The steps that leave the "add"s and memcached alone keep their ages.
LEMMA StoresUnchanged ==
  ASSUME ShopInv, UNCHANGED <<db, changed, now, cache, adds>>
  PROVE  AddsAge' /\ ValuesAge'
BY DEF ShopInv, AddsAge, ValuesAge, Val, Targets

\* A request arrives.
LEMMA ArriveStep ==
  ASSUME ShopInv, NEW r \in Requests, NEW h \in Hosts, NEW w \in Workers, Arrive(r, h, w)
  PROVE  ShopInv'
<1> USE DEF Arrive, At
<1>1. req[r] \in Request /\ req \in [Requests -> Request]
  BY DEF ShopInv, TypeOK
<1> DEFINE rule == h \in DOMAIN ByRule
           q1 == [req[r] EXCEPT !.host = h, !.at = w, !.since = now,
                    !.st = IF rule THEN "done" ELSE "get",
                    !.ans = IF rule THEN <<ByRule[h]>> ELSE << >>,
                    !.row = IF rule THEN "rule" ELSE req[r].row]
<1>2. rule => <<ByRule[h]>> \in Seq(Texts) /\ Len(<<ByRule[h]>>) = 1
  <2>1. rule => ByRule[h] \in Texts
    BY DEF Texts
  <2> QED
    BY <2>1
<1>3. q1 \in Request
  BY <1>1, <1>2, EmptySeq DEF Request, Contents, States, ShopInv, TypeOK
<1>4. /\ q1.st = IF rule THEN "done" ELSE "get"
      /\ q1.ans = IF rule THEN <<ByRule[h]>> ELSE << >>
      /\ q1.row = IF rule THEN "rule" ELSE req[r].row
      /\ q1.host = h /\ q1.since = now /\ q1.lag = req[r].lag
  BY <1>1 DEF Request
<1>5. req' = [req EXCEPT ![r] = q1]
  OBVIOUS
<1> HIDE DEF q1
<1>6. req' \in [Requests -> Request] /\ req'[r] = q1 /\ \A q \in Requests : q # r => req'[q] = req[q]
  BY <1>1, <1>3, <1>5
<1>7. Odd => Odd'
  BY <1>6 DEF Odd, ShopInv, Answering
<1>8. Answering'
  <2> SUFFICES ASSUME NEW q \in Requests
               PROVE  /\ req'[q].st # "done" => req'[q].ans = << >>
                      /\ req'[q].st \in {"new", "get", "dial", "use", "select"} => req'[q].row # "other"
                      /\ req'[q].st = "done" => Len(req'[q].ans) = 1 \/ req'[q].row = "other"
                      /\ req'[q].st \in {"reset", "dropped"} => faults' > 0 \/ Odd'
    BY DEF Answering
  <2>1. CASE q = r
    BY <2>1, <1>2, <1>4, <1>6 DEF ShopInv, Answering
  <2>2. CASE q # r
    BY <2>2, <1>6, <1>7 DEF ShopInv, Answering
  <2> QED
    BY <2>1, <2>2
<1>9. RequestsAge' /\ \A q \in Requests : req'[q].st \in Asking => req'[q].host \in Hosts
  <2> SUFFICES ASSUME NEW q \in Requests
               PROVE  /\ req'[q].lag < Ttl + 2 * MaxOpen
                      /\ req'[q].st \in Asking => /\ req'[q].since <= now /\ now <= req'[q].since + MaxOpen
                                                 /\ req'[q].host \in Hosts
                      /\ req'[q].st = "row" => Val(req'[q].row) = Val(db) \/ req'[q].since <= changed
    BY DEF RequestsAge, Val, Targets
  <2>1. CASE q = r
    BY <2>1, <1>4, <1>6, ShopAssumption DEF ShopInv, RequestsAge, TypeOK
  <2>2. CASE q # r
    BY <2>2, <1>6 DEF ShopInv, RequestsAge, TypeOK
  <2> QED
    BY <2>1, <2>2
<1>10. AddsAge' /\ ValuesAge'
  BY StoresUnchanged
<1>11. TypeOK'
  BY <1>6, <1>9 DEF ShopInv, TypeOK
<1> QED
  BY <1>8, <1>9, <1>10, <1>11 DEF ShopInv

\* memcached is asked, and says a value or nothing.
LEMMA CacheGetStep ==
  ASSUME ShopInv, NEW r \in Requests, CacheGet(r)
  PROVE  ShopInv'
<1> DEFINE k == Lower[req[r].host]
<1>1. req[r].st = "get" /\ req[r].st \in Asking
  BY DEF CacheGet, At, Asking
<1>2. k \in Keys
  BY <1>1, ShopAssumption DEF ShopInv, TypeOK, Keys
<1>3. UNCHANGED <<db, changed, cache, adds, now, faults, changes>>
  BY DEF CacheGet
<1>4. AddsAge' /\ ValuesAge'
  BY <1>3, StoresUnchanged
<1>5. /\ req' \in [Requests -> Request]
      /\ \A q \in Requests : req'[q].st \in Asking => req'[q].host \in Hosts
      /\ up' \in SUBSET Workers
      /\ Answering' /\ RequestsAge'
  <2>1. CASE Live(k) = Nothing
    <3>1. Goto(r, "dial") /\ up' = up
      BY <2>1 DEF CacheGet
    <3>2. faults \in Nat /\ up \in SUBSET Workers
      BY DEF ShopInv, TypeOK
    <3> QED
      BY <1>1, <1>3, <3>1, <3>2, GotoStep
  <2>2. CASE Live(k) # Nothing
    <3>1. cache[k].end > now /\ Live(k) = cache[k]
      BY <2>2 DEF Live
    <3>2. /\ cache[k].val \in Values /\ cache[k].end \in Nat /\ now \in Nat /\ changed \in Nat
      BY <1>2 DEF ShopInv, TypeOK
    <3>3. cache[k].end > 0
      BY <3>1, <3>2
    <3>4. Val(cache[k].val) = Val(db) \/ now - changed < Ttl + 2 * MaxOpen
      BY <1>2, <3>1, <3>2, <3>3, ShopAssumption DEF ShopInv, ValuesAge
    <3>5. PICK raises \in Raises(cache[k].val) : Answered(r, cache[k].val, raises)
      BY <2>2, <3>1 DEF CacheGet
    <3> QED
      BY <1>1, <1>3, <3>2, <3>4, <3>5, AnsweredStep DEF Contents
  <2> QED
    BY <2>1, <2>2
<1>6. TypeOK'
  BY <1>3, <1>5 DEF ShopInv, TypeOK
<1> QED
  BY <1>4, <1>5, <1>6 DEF ShopInv

\* memcached cannot be reached: the request gets a 404.
LEMMA CacheGetFailsStep ==
  ASSUME ShopInv, NEW r \in Requests, CacheGetFails(r)
  PROVE  ShopInv'
<1> DEFINE rs == Answer(r, "error")
           q1 == [rs[r] EXCEPT !.lag = 0]
<1>1. req[r].st = "get" /\ req[r].st \in Asking
  BY DEF CacheGetFails, At, Asking
<1>2. /\ rs \in [Requests -> Request] /\ rs[r] \in Request
      /\ \A q \in Requests : q # r => rs[q] = req[q]
      /\ rs[r].st = "done" /\ rs[r].row = "error" /\ Len(rs[r].ans) = 1
  BY <1>1, AnswerFacts DEF Contents
<1>3. req' = [rs EXCEPT ![r] = q1]
  BY DEF CacheGetFails
<1> HIDE DEF rs
<1>4. q1 \in Request /\ q1.st = "done" /\ q1.row = "error" /\ Len(q1.ans) = 1 /\ q1.lag = 0
  BY <1>2 DEF Request
<1> HIDE DEF q1
<1>5. req' \in [Requests -> Request] /\ req'[r] = q1 /\ \A q \in Requests : q # r => req'[q] = req[q]
  BY <1>2, <1>3, <1>4
<1>6. UNCHANGED <<up, db, changed, cache, adds, now, changes>> /\ faults' = faults + 1
  BY DEF CacheGetFails, Fault
<1>7. Answering'
  BY <1>4, <1>5, <1>6 DEF ShopInv, TypeOK, Answering
<1>8. RequestsAge' /\ \A q \in Requests : req'[q].st \in Asking => req'[q].host \in Hosts
  <2> SUFFICES ASSUME NEW q \in Requests
               PROVE  /\ req'[q].lag < Ttl + 2 * MaxOpen
                      /\ req'[q].st \in Asking => /\ req'[q].since <= now /\ now <= req'[q].since + MaxOpen
                                                 /\ req'[q].host \in Hosts
                      /\ req'[q].st = "row" => Val(req'[q].row) = Val(db) \/ req'[q].since <= changed
    BY <1>6 DEF RequestsAge, Val, Targets
  <2> QED
    BY <1>4, <1>5, ShopAssumption DEF ShopInv, RequestsAge, TypeOK, Asking
<1>9. AddsAge' /\ ValuesAge'
  BY <1>6, StoresUnchanged
<1>10. TypeOK'
  BY <1>5, <1>6, <1>8 DEF ShopInv, TypeOK
<1> QED
  BY <1>7, <1>8, <1>9, <1>10 DEF ShopInv

\* A connection that fails takes the worker and its requests with it.
LEMMA ConnectFailsStep ==
  ASSUME ShopInv, NEW r \in Requests, ConnectFails(r)
  PROVE  ShopInv'
<1>1. UNCHANGED <<db, changed, cache, adds, now, changes>> /\ faults' = faults + 1
  BY DEF ConnectFails, Fault
<1>2. req \in [Requests -> Request] /\ faults \in Nat
  BY DEF ShopInv, TypeOK
<1>3. Dies(req, req[r].at)
  BY DEF ConnectFails
<1>4. /\ req' \in [Requests -> Request]
      /\ up' \subseteq up
      /\ \A q \in Requests :
           \/ req'[q] = req[q]
           \/ /\ req[q].st \in Asking /\ req'[q].st = "reset"
              /\ req'[q].ans = req[q].ans /\ req'[q].row = req[q].row
              /\ req'[q].lag = req[q].lag /\ req'[q].since = req[q].since
  BY <1>2, <1>3, DiesFacts
<1>5. Answering'
  BY <1>1, <1>2, <1>4 DEF ShopInv, Answering, Asking
<1>6. RequestsAge' /\ \A q \in Requests : req'[q].st \in Asking => req'[q].host \in Hosts
  <2> SUFFICES ASSUME NEW q \in Requests
               PROVE  /\ req'[q].lag < Ttl + 2 * MaxOpen
                      /\ req'[q].st \in Asking => /\ req'[q].since <= now /\ now <= req'[q].since + MaxOpen
                                                 /\ req'[q].host \in Hosts
                      /\ req'[q].st = "row" => Val(req'[q].row) = Val(db) \/ req'[q].since <= changed
    BY <1>1 DEF RequestsAge, Val, Targets
  <2> QED
    BY <1>4 DEF ShopInv, RequestsAge, TypeOK, Asking
<1>7. AddsAge' /\ ValuesAge'
  BY <1>1, StoresUnchanged
<1>8. TypeOK'
  BY <1>1, <1>4, <1>6 DEF ShopInv, TypeOK
<1> QED
  BY <1>5, <1>6, <1>7, <1>8 DEF ShopInv

\* The callbacks of MySQL before the row is read, and its failures.
LEMMA MySQLStep ==
  ASSUME ShopInv, NEW r \in Requests, Connect(r) \/ UseDatabase(r) \/ QueryFails(r)
  PROVE  ShopInv'
<1>1. PICK st \in {"use", "select", "dropped"} :
        Goto(r, st) /\ (st = "dropped" => faults' = faults + 1) /\ (st # "dropped" => faults' = faults)
  BY DEF Connect, UseDatabase, QueryFails, Fault
<1>2. UNCHANGED <<up, db, changed, cache, adds, now, changes>> /\ req[r].st \in Asking \ {"row"}
  BY DEF Connect, UseDatabase, QueryFails, At, Asking
<1>3. faults \in Nat
  BY DEF ShopInv, TypeOK
<1>4. /\ req' \in [Requests -> Request]
      /\ \A q \in Requests : req'[q].st \in Asking => req'[q].host \in Hosts
      /\ Answering' /\ RequestsAge'
  BY <1>1, <1>2, <1>3, GotoStep
<1>5. AddsAge' /\ ValuesAge'
  BY <1>2, StoresUnchanged
<1>6. TypeOK'
  BY <1>1, <1>2, <1>4 DEF ShopInv, TypeOK
<1> QED
  BY <1>4, <1>5, <1>6 DEF ShopInv

\* MySQL reads the row.
LEMMA SelectStep ==
  ASSUME ShopInv, NEW r \in Requests, Select(r)
  PROVE  ShopInv'
<1>1. req[r] \in Request /\ req \in [Requests -> Request] /\ db \in Rows /\ req[r].st = "select"
  BY DEF ShopInv, TypeOK, Select, At
<1> DEFINE q1 == [req[r] EXCEPT !.st = "row", !.row = db]
<1>2. /\ q1 \in Request /\ q1.st = "row" /\ q1.row = db /\ q1.ans = req[r].ans
      /\ q1.host = req[r].host /\ q1.since = req[r].since /\ q1.lag = req[r].lag
  BY <1>1 DEF Request, Contents, States
<1>3. req' = [req EXCEPT ![r] = q1]
  BY <1>1 DEF Select
<1> HIDE DEF q1
<1>4. req' \in [Requests -> Request] /\ req'[r] = q1 /\ \A q \in Requests : q # r => req'[q] = req[q]
  BY <1>1, <1>2, <1>3
<1>5. UNCHANGED <<up, db, changed, cache, adds, now, faults, changes>>
  BY DEF Select
<1>6. Odd => Odd'
  BY <1>1, <1>4 DEF Odd, ShopInv, Answering
<1>7. Answering'
  BY <1>1, <1>2, <1>4, <1>5, <1>6 DEF ShopInv, Answering
<1>8. RequestsAge' /\ \A q \in Requests : req'[q].st \in Asking => req'[q].host \in Hosts
  <2> SUFFICES ASSUME NEW q \in Requests
               PROVE  /\ req'[q].lag < Ttl + 2 * MaxOpen
                      /\ req'[q].st \in Asking => /\ req'[q].since <= now /\ now <= req'[q].since + MaxOpen
                                                 /\ req'[q].host \in Hosts
                      /\ req'[q].st = "row" => Val(req'[q].row) = Val(db) \/ req'[q].since <= changed
    BY <1>5 DEF RequestsAge, Val, Targets
  <2>1. CASE q = r
    BY <2>1, <1>1, <1>2, <1>4 DEF ShopInv, RequestsAge, TypeOK, Asking
  <2>2. CASE q # r
    BY <2>2, <1>4 DEF ShopInv, RequestsAge, TypeOK
  <2> QED
    BY <2>1, <2>2
<1>9. AddsAge' /\ ValuesAge'
  BY <1>5, StoresUnchanged
<1>10. TypeOK'
  BY <1>4, <1>5, <1>8 DEF ShopInv, TypeOK
<1> QED
  BY <1>7, <1>8, <1>9, <1>10 DEF ShopInv

\* The row has come: the request is answered and "add" is sent.
LEMMA SelectCbStep ==
  ASSUME ShopInv, NEW r \in Requests, SelectCb(r)
  PROVE  ShopInv'
<1>1. req[r].st = "row" /\ req[r].st \in Asking
  BY DEF SelectCb, At, Asking
<1> DEFINE v == req[r].row
           a == [key |-> req[r].host, val |-> Val(v), since |-> now]
<1>2. UNCHANGED <<db, changed, cache, now, faults, changes>>
  BY DEF SelectCb
<1>3. PICK raises \in Raises(v) : /\ Answered(r, v, raises)
                                  /\ adds' = IF raises THEN adds ELSE adds \cup {a}
  BY DEF SelectCb
<1>4. req[r] \in Request /\ v \in Contents /\ req[r].host \in Hosts
      /\ now \in Nat /\ changed \in Nat /\ req[r].since \in Nat /\ changed <= now
  BY <1>1 DEF ShopInv, TypeOK, Request
<1>5. Val(v) = Val(db) \/ (req[r].since <= changed /\ now <= req[r].since + MaxOpen)
  BY <1>1 DEF ShopInv, RequestsAge
<1>6. Val(v) = Val(db) \/ now - changed < Ttl + 2 * MaxOpen
  BY <1>4, <1>5, ShopAssumption
<1>7. /\ req' \in [Requests -> Request]
      /\ \A q \in Requests : req'[q].st \in Asking => req'[q].host \in Hosts
      /\ up' \in SUBSET Workers
      /\ Answering' /\ RequestsAge'
  BY <1>1, <1>2, <1>3, <1>4, <1>6, AnsweredStep
<1>8. a \in [key : Hosts, val : Values, since : Nat] /\ a.val = Val(a.val)
  BY <1>4, ValFacts
<1>9. /\ a.since <= now /\ now <= a.since + MaxOpen
      /\ a.val = Val(db) \/ a.since <= changed + MaxOpen
  BY <1>4, <1>5, ShopAssumption
<1> HIDE DEF a
<1>10. AddsAge'
  <2> SUFFICES ASSUME NEW b \in adds \cup {a}
               PROVE  /\ b.since <= now /\ now <= b.since + MaxOpen
                      /\ b.val = Val(b.val)
                      /\ b.val = Val(db) \/ b.since <= changed + MaxOpen
    BY <1>2, <1>3 DEF AddsAge, Val, Targets
  <2> QED
    BY <1>8, <1>9 DEF ShopInv, AddsAge
<1>11. ValuesAge'
  BY <1>2 DEF ShopInv, ValuesAge, Val, Targets
<1>12. TypeOK'
  BY <1>2, <1>3, <1>7, <1>8 DEF ShopInv, TypeOK
<1> QED
  BY <1>7, <1>10, <1>11, <1>12 DEF ShopInv

\* memcached takes an "add", or it is lost.
LEMMA AddStep ==
  ASSUME ShopInv, NEW a \in adds, CacheAdd(a) \/ CacheAddLost(a)
  PROVE  ShopInv'
<1>1. UNCHANGED <<req, up, db, changed, now, changes>> /\ adds' = adds \ {a}
      /\ (faults' = faults \/ faults' = faults + 1)
      /\ (cache' = cache \/ cache' = [cache EXCEPT ![a.key] = [val |-> a.val, end |-> now + Ttl]])
  BY DEF CacheAdd, CacheAddLost, Fault
<1>2. a.key \in Keys /\ a.val \in Values /\ a.since \in Nat /\ now \in Nat /\ changed \in Nat /\ faults \in Nat
  BY DEF ShopInv, TypeOK, Keys
<1>3. Answering'
  BY <1>1, <1>2 DEF ShopInv, Answering, Odd
<1>4. RequestsAge'
  BY <1>1 DEF ShopInv, RequestsAge, Val, Targets
<1>5. AddsAge'
  BY <1>1 DEF ShopInv, AddsAge, Val, Targets
<1>6. /\ a.val = Val(a.val)
      /\ a.val = Val(db) \/ now + Ttl <= changed + Ttl + 2 * MaxOpen
  BY <1>2, ShopAssumption DEF ShopInv, AddsAge
<1>7. TypeOK'
  BY <1>1, <1>2, ShopAssumption DEF ShopInv, TypeOK
<1>8. ValuesAge'
  <2> SUFFICES ASSUME NEW k \in Keys
               PROVE  /\ cache'[k].end <= now + Ttl
                      /\ cache'[k].end > 0 => cache'[k].val = Val(cache'[k].val)
                      /\ cache'[k].end > 0 =>
                           cache'[k].val = Val(db) \/ cache'[k].end <= changed + Ttl + 2 * MaxOpen
    BY <1>1 DEF ValuesAge, Val, Targets
  <2>1. CASE cache'[k] = cache[k]
    BY <2>1 DEF ShopInv, ValuesAge
  <2>2. CASE cache'[k] # cache[k]
    <3>1. cache'[k].val = a.val /\ cache'[k].end = now + Ttl
      BY <2>2, <1>1, <1>2 DEF ShopInv, TypeOK
    <3> QED
      BY <3>1, <1>2, <1>6, ShopAssumption
  <2> QED
    BY <2>1, <2>2
<1> QED
  BY <1>3, <1>4, <1>5, <1>7, <1>8 DEF ShopInv

\* The row of the database changes: what was read before is stale from now on.
LEMMA RowChangesStep ==
  ASSUME ShopInv, NEW v \in Rows, RowChanges(v)
  PROVE  ShopInv'
<1>1. db' = v /\ changed' = now /\ changes' = changes + 1 /\ UNCHANGED <<req, up, cache, adds, now, faults>>
  BY DEF RowChanges
<1>2. now \in Nat
  BY DEF ShopInv, TypeOK
<1>3. TypeOK'
  BY <1>1 DEF ShopInv, TypeOK
<1>4. Answering'
  BY <1>1 DEF ShopInv, Answering, Odd
<1>5. RequestsAge'
  BY <1>1, <1>2 DEF ShopInv, TypeOK, RequestsAge, Asking, Val, Targets
<1>6. AddsAge'
  BY <1>1, <1>2, ShopAssumption DEF ShopInv, TypeOK, AddsAge, Val, Targets
<1>7. ValuesAge'
  BY <1>1, <1>2, ShopAssumption DEF ShopInv, TypeOK, ValuesAge, Val, Targets
<1> QED
  BY <1>3, <1>4, <1>5, <1>6, <1>7 DEF ShopInv

\* Time goes on.
LEMMA TickStep ==
  ASSUME ShopInv, Tick
  PROVE  ShopInv'
<1>1. /\ now' = now + 1 /\ now \in Nat /\ UNCHANGED <<req, up, db, changed, cache, adds, faults, changes>>
      /\ \A r \in Requests : req[r].st \in Asking => now - req[r].since < MaxOpen
      /\ \A a \in adds : now - a.since < MaxOpen
  BY DEF Tick, Busy, Asking, ShopInv, TypeOK
<1>2. TypeOK'
  BY <1>1 DEF ShopInv, TypeOK
<1>3. Answering'
  BY <1>1 DEF ShopInv, Answering, Odd
<1>4. \A r \in Requests : req[r].since \in Nat
  BY DEF ShopInv, TypeOK, Request
<1>5. RequestsAge'
  BY <1>1, <1>4, ShopAssumption DEF ShopInv, RequestsAge, Val, Targets
<1>6. AddsAge'
  BY <1>1, ShopAssumption DEF ShopInv, TypeOK, AddsAge, Val, Targets
<1>7. ValuesAge'
  BY <1>1, ShopAssumption DEF ShopInv, TypeOK, ValuesAge, Val, Targets
<1> QED
  BY <1>2, <1>3, <1>5, <1>6, <1>7 DEF ShopInv

\* No request has come yet.
LEMMA ShopInit == Init => ShopInv
<1> SUFFICES ASSUME Init PROVE ShopInv
  OBVIOUS
<1> DEFINE q0 == [st |-> "new", host |-> CHOOSE h \in Hosts : TRUE, at |-> CHOOSE w \in Workers : TRUE,
                  ans |-> << >>, row |-> "none", since |-> 0, lag |-> 0]
<1>1. q0 \in Request
  BY EmptySeq DEF Request, States, Contents, Rows
<1>2. req = [r \in Requests |-> q0]
  BY DEF Init
<1>3. q0.st = "new" /\ q0.ans = << >> /\ q0.row = "none" /\ q0.lag = 0
  OBVIOUS
<1> HIDE DEF q0
<1>4. TypeOK
  <2>1. Nothing \in [val : Values, end : Nat]
    BY DEF Nothing, Values
  <2>2. req \in [Requests -> Request] /\ \A r \in Requests : req[r].st \in Asking => req[r].host \in Hosts
    BY <1>1, <1>2, <1>3 DEF Asking
  <2> QED
    BY <2>1, <2>2 DEF Init, TypeOK
<1>5. Answering
  BY <1>2, <1>3 DEF Answering
<1>6. RequestsAge
  BY <1>2, <1>3, ShopAssumption DEF RequestsAge, Asking
<1>7. AddsAge /\ ValuesAge
  BY ShopAssumption DEF Init, AddsAge, ValuesAge, Nothing
<1> QED
  BY <1>4, <1>5, <1>6, <1>7 DEF ShopInv

\* Every state of the shop proxy is well typed, and keeps what was sent to whom
\* and how old every copy of the row is.
THEOREM ShopInvariance == Spec => []ShopInv
<1>1. Init => ShopInv
  BY ShopInit
<1>2. ShopInv /\ [Next]_vars => ShopInv'
  <2> SUFFICES ASSUME ShopInv, [Next]_vars PROVE ShopInv'
    OBVIOUS
  <2>1. ASSUME NEW r \in Requests, RequestStep(r) PROVE ShopInv'
    BY <2>1, CacheGetStep, CacheGetFailsStep, ConnectFailsStep, MySQLStep, SelectStep, SelectCbStep
    DEF RequestStep
  <2>2. ASSUME NEW r \in Requests, NEW h \in Hosts, NEW w \in Workers, Arrive(r, h, w) PROVE ShopInv'
    BY <2>2, ArriveStep
  <2>3. ASSUME NEW a \in adds, CacheAdd(a) \/ CacheAddLost(a) PROVE ShopInv'
    BY <2>3, AddStep
  <2>4. ASSUME NEW v \in Rows, RowChanges(v) PROVE ShopInv'
    BY <2>4, RowChangesStep
  <2>5. CASE Tick
    BY <2>5, TickStep
  <2>6. CASE UNCHANGED vars
    BY <2>6 DEF vars, ShopInv, TypeOK, Answering, Odd, RequestsAge, AddsAge, ValuesAge, Val, Targets
  <2> QED
    BY <2>1, <2>2, <2>3, <2>4, <2>5, <2>6 DEF Next
<1> QED
  BY <1>1, <1>2, PTL DEF Spec

\* shop.js answers a request once, whatever the other requests of the worker do
\* meanwhile; what is left open was left by a failure or by a worker that died
\* of a company of a third type.
THEOREM RequestsAnsweredOnce == Spec => []AnsweredOnce
<1>1. ShopInv => AnsweredOnce
  BY DEF ShopInv, Answering, AnsweredOnce
<1> QED
  BY <1>1, ShopInvariance, PTL

\* No answer is older than a value's life in memcached and two trips, however the
\* reads of the database, the "add"s and the changes of the row interleave.
THEOREM StaleForAtMostTtl == Spec => []ChangeTakesEffect
<1>1. ShopInv => ChangeTakesEffect
  BY DEF ShopInv, RequestsAge, ChangeTakesEffect
<1> QED
  BY <1>1, ShopInvariance, PTL
===============================================================================

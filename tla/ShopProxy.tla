------------------------------ MODULE ShopProxy ------------------------------
(***************************************************************************)
(* shop.js: a cluster of workers that send a request on to the site of     *)
(* developers or of suppliers, by a rule on the host's prefix or by what   *)
(* the database says of it, remembered in memcached for ten minutes.       *)
(* Every call of memcached and MySQL ends in a callback, so the steps of   *)
(* several requests and of the operators of both servers interleave.       *)
(***************************************************************************)
EXTENDS Integers, Sequences, FiniteSets

CONSTANTS
    Requests,    \* requests, each of them made once
    Workers,     \* processes the master forks: numCPUs - 1
    Hosts,       \* prefixes as clients send them
    Lower,       \* function: a prefix in lower case
    ByRule,      \* function of prefixes like k000001 or g000001: their target
    Ttl,         \* how long memcached keeps a value
    MaxOpen,     \* bound: how long a request or an "add" is on its way
    MaxTime,     \* bound: ticks of the clock
    MaxChanges,  \* bound: changes of the database
    MaxFaults    \* bound: failures of memcached and MySQL

ASSUME ShopAssumption ==
    /\ Ttl \in Nat \ {0} /\ MaxOpen \in Nat /\ MaxTime \in Nat /\ MaxChanges \in Nat /\ MaxFaults \in Nat
    /\ \A h \in Hosts : Lower[h] \in Hosts
    /\ DOMAIN ByRule \subseteq Hosts

VARIABLES
    req,      \* per request: state, host, worker, answers, the row, its start, and, once
              \* answered, for how long the database had said something else
    up,       \* workers that run
    db,       \* what bsp_domain says of the prefix, whatever its case
    changed,  \* when it began to
    cache,    \* memcached: per key a value and its end
    adds,     \* "add" commands on their way to memcached
    now, faults, changes

vars == <<req, up, db, changed, cache, adds, now, faults, changes>>

(* A row with company type 1, 2 or another number, one with nulls, no row. *)
Rows == {"developer", "supplier", "other", "null", "none"}
Nothing == [val |-> "nothing", end |-> 0]
Keys == {Lower[h] : h \in Hosts} \cup Hosts
Targets == {"developer", "supplier"}

Init ==
    /\ req = [r \in Requests |-> [st |-> "new", host |-> CHOOSE h \in Hosts : TRUE, at |-> CHOOSE w \in Workers : TRUE,
                                  ans |-> << >>, row |-> "none", since |-> 0, lag |-> 0]]
    /\ up = Workers /\ db \in Rows /\ changed = 0
    /\ cache = [k \in Keys |-> Nothing] /\ adds = {}
    /\ now = 0 /\ faults = 0 /\ changes = 0

Busy(q) == q.st \in {"get", "dial", "use", "select", "row"}
At(r, st) == req[r].st = st
Fault == faults < MaxFaults /\ faults' = faults + 1
Goto(r, st) == req' = [req EXCEPT ![r].st = st]

(* A value in memcached: "id|type", or "invalid" for every other row. *)
Val(v) == IF v \in Targets \cup {"other"} THEN v ELSE "invalid"

(* Faulty variant of Answers: nothing is sent where there is no company. *)
AnswersKnown(v) == CASE v \in Targets -> <<v>> [] v = "other" -> <<"404", "no target">> [] OTHER -> << >>

(* The answers to a request for a value: a company type other than 1 and 2  *)
(* gets a 404 and is then proxied like the others, to null.                 *)
Answers(v) == CASE v \in Targets -> <<v>> [] v = "other" -> <<"404", "no target">> [] OTHER -> <<"404">>

Answer(r, v) ==
    [req EXCEPT ![r] = [@ EXCEPT !.st = "done", !.ans = req[r].ans \o Answers(v), !.row = v,
                                 !.lag = IF Val(v) = Val(db) THEN 0 ELSE now - changed]]

(* A worker ends with an uncaught exception, and with it what it had open.  *)
(* The master writes a line to its log.                                     *)
Dies(rs, w) ==
    /\ req' = [r \in Requests |-> IF rs[r].at = w /\ Busy(rs[r]) THEN [rs[r] EXCEPT !.st = "reset"] ELSE rs[r]]
    /\ up' = up \ {w}

(* proxy.web to null reports an error, whose handler writes a head to a     *)
(* response that has ended; whether that raises is up to http-proxy.        *)
Raises(v) == IF v = "other" THEN BOOLEAN ELSE {FALSE}
Answered(r, v, raises) ==
    IF raises THEN Dies(Answer(r, v), req[r].at) ELSE req' = Answer(r, v) /\ UNCHANGED up

-------------------------------------------------------------------------------
Arrive(r, h, w) ==
    /\ At(r, "new") /\ w \in up
    /\ req' = [req EXCEPT ![r] = [@ EXCEPT !.host = h, !.at = w, !.since = now,
                 !.st = IF h \in DOMAIN ByRule THEN "done" ELSE "get",
                 !.ans = IF h \in DOMAIN ByRule THEN <<ByRule[h]>> ELSE << >>,
                 !.row = IF h \in DOMAIN ByRule THEN "rule" ELSE req[r].row]]
    /\ UNCHANGED <<up, db, changed, cache, adds, now, faults, changes>>

Live(k) == IF cache[k].end > now THEN cache[k] ELSE Nothing

(* memcached.get under the prefix in lower case, and its callback *)
CacheGet(r) ==
    /\ At(r, "get")
    /\ LET c == Live(Lower[req[r].host]) IN
       IF c = Nothing THEN Goto(r, "dial") /\ UNCHANGED up
       ELSE \E raises \in Raises(c.val) : Answered(r, c.val, raises)
    /\ UNCHANGED <<db, changed, cache, adds, now, faults, changes>>

CacheGetFails(r) ==
    /\ At(r, "get") /\ Fault
    /\ req' = [Answer(r, "error") EXCEPT ![r].lag = 0]
    /\ UNCHANGED <<up, db, changed, cache, adds, now, changes>>

Connect(r) ==
    /\ At(r, "dial") /\ Goto(r, "use")
    /\ UNCHANGED <<up, db, changed, cache, adds, now, faults, changes>>

(* The callback takes "err" and writes error.message to the log. *)
ConnectFails(r) ==
    /\ At(r, "dial") /\ Fault
    /\ Dies(req, req[r].at)
    /\ UNCHANGED <<db, changed, cache, adds, now, changes>>

UseDatabase(r) ==
    /\ At(r, "use") /\ Goto(r, "select")
    /\ UNCHANGED <<up, db, changed, cache, adds, now, faults, changes>>

(* MySQL reads the row; the callback comes later. *)
Select(r) ==
    /\ At(r, "select")
    /\ req' = [req EXCEPT ![r].st = "row", ![r].row = db]
    /\ UNCHANGED <<up, db, changed, cache, adds, now, faults, changes>>

(* "use" or the query fail: the connection is closed, and that is all. *)
QueryFails(r) ==
    /\ Fault /\ \E st \in {"use", "select"} : At(r, st)
    /\ Goto(r, "dropped")
    /\ UNCHANGED <<up, db, changed, cache, adds, now, changes>>

(* selectCb: the request is answered, and "add" is sent for the prefix as   *)
(* the client wrote it, unless proxy.web raised before.                     *)
SelectCb(r) ==
    /\ At(r, "row")
    /\ \E raises \in Raises(req[r].row) :
        /\ Answered(r, req[r].row, raises)
        /\ adds' = IF raises THEN adds
                   ELSE adds \cup {[key |-> req[r].host, val |-> Val(req[r].row), since |-> now]}
    /\ UNCHANGED <<db, changed, cache, now, faults, changes>>

(* Faulty variant of CacheAdd: the value does not expire. *)
CacheAddForever(a) ==
    /\ cache' = IF Live(a.key) = Nothing
                  THEN [cache EXCEPT ![a.key] = [val |-> a.val, end |-> MaxTime + 1]] ELSE cache
    /\ adds' = adds \ {a}
    /\ UNCHANGED <<req, up, db, changed, now, faults, changes>>

(* memcached: "add" keeps a value that is there. *)
CacheAdd(a) ==
    /\ cache' = IF Live(a.key) = Nothing
                  THEN [cache EXCEPT ![a.key] = [val |-> a.val, end |-> now + Ttl]] ELSE cache
    /\ adds' = adds \ {a}
    /\ UNCHANGED <<req, up, db, changed, now, faults, changes>>

CacheAddLost(a) ==
    /\ Fault /\ adds' = adds \ {a}
    /\ UNCHANGED <<req, up, db, changed, cache, now, changes>>

(* Somebody changes the row. *)
RowChanges(v) ==
    /\ v # db /\ db' = v /\ changed' = now
    /\ changes < MaxChanges /\ changes' = changes + 1
    /\ UNCHANGED <<req, up, cache, adds, now, faults>>

Tick ==
    /\ now < MaxTime /\ now' = now + 1
    /\ \A r \in Requests : Busy(req[r]) => now - req[r].since < MaxOpen
    /\ \A a \in adds : now - a.since < MaxOpen
    /\ UNCHANGED <<req, up, db, changed, cache, adds, faults, changes>>

RequestStep(r) ==
    \/ CacheGet(r) \/ CacheGetFails(r) \/ Connect(r) \/ ConnectFails(r)
    \/ UseDatabase(r) \/ Select(r) \/ QueryFails(r) \/ SelectCb(r)

Next ==
    \/ \E r \in Requests : RequestStep(r) \/ \E h \in Hosts, w \in Workers : Arrive(r, h, w)
    \/ \E a \in adds : CacheAdd(a) \/ CacheAddLost(a)
    \/ \E v \in Rows : RowChanges(v)
    \/ Tick

Spec == Init /\ [][Next]_vars

-------------------------------------------------------------------------------
(* Every request is answered, and once, whatever callbacks come in between, *)
(* but for companies of another type and for what a failing database or a   *)
(* worker that died over such a company left open.                          *)
Odd == \E r \in Requests : req[r].row = "other"
AnsweredOnce == \A r \in Requests :
    /\ req[r].st = "done" => Len(req[r].ans) = 1 \/ req[r].row = "other"
    /\ req[r].st \in {"reset", "dropped"} => req[r].ans = << >> /\ (faults > 0 \/ Odd)

(* A change of the database takes effect: after the ten minutes a value is  *)
(* kept, and the time requests and commands are on their way, no request is *)
(* sent where the database no longer says, in whatever case hosts are       *)
(* written and in whatever order reads and "add"s overtake each other.      *)
ChangeTakesEffect == \A r \in Requests : req[r].lag < Ttl + 2 * MaxOpen
===============================================================================

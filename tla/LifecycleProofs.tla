-------------------------- MODULE LifecycleProofs --------------------------
(***************************************************************************)
(* The life of a thumbnail when one worker generates it.  The worker makes *)
(* a thumbnail only after it saw none, and reports it once: that report is *)
(* the only token of the thumbnail, held by one process at a time, and     *)
(* only its holder touches the files.  So a compressor reads no file that  *)
(* is being written, its mv replaces the file it has read, and the monitor *)
(* deletes only what nobody works on.  The argument does not depend on the *)
(* token's arriving: compressors, the broker and sockets may fail.         *)
(***************************************************************************)
EXTENDS TrackingProofs, FiniteSetTheorems

\* One worker that neither dies nor fails to write, and nobody else sends
\* messages to the compressors.
SingleWorker ==
  /\ \A v, w \in Workers : v = w
  /\ Events \cap {"write_error", "worker_crash", "publish"} = {}

\* Where the token of r can be: with the worker that saves it, in a socket
\* of process p, in the broker, with compressor p, or noted by the monitor.
Stages == {"saving", "socket", "queued", "handling", "noted"}
Holders == Procs \cup {NoProc}
Token(r, k, p) ==
  \/ k = "saving" /\ p \in Workers /\ Saving(p, r)
  \/ k = "socket" /\ p \in Procs /\ linger[p][Message(2, r)] > 0
  \/ k = "queued" /\ p = NoProc /\ inbox[Message(2, r)] > 0
  \/ k = "handling" /\ p \in Compressors /\ Handling(p, r)
  \/ k = "noted" /\ p = NoProc /\ tracked[r] # Untracked
HasToken(r) == \E k \in Stages, p \in Holders : Token(r, k, p)

\* There is one token at most, and its message is there once.
SentOnce(r) ==
  /\ inbox[Message(2, r)] <= 1
  /\ \A p \in Procs : linger[p][Message(2, r)] <= 1
OneToken(r) ==
  \A k, l \in Stages, p, q \in Holders : Token(r, k, p) /\ Token(r, l, q) => k = l /\ p = q

\* The worker is on its way to generate r, and has not opened it yet.
Making(w, r) ==
  /\ job[w].req = r
  /\ \/ job[w].pc \in {"source", "load", "resize", "save"}
     \/ job[w].pc = "notify" /\ ~job[w].saw

\* The thumbnail: nothing, or one version of the original, being written or
\* complete.  There is neither a token nor a temporary file without it.
ThumbSound(r) ==
  /\ \/ file[Thumb(r)] = Absent
     \/ /\ file[Thumb(r)].state \in {"partial", "whole", "small"}
        /\ \E v \in Versions : file[Thumb(r)].vers = {v}
  /\ ~IsFileExists(Thumb(r)) => ~HasToken(r) /\ ~IsFileExists(Temp(r))
  /\ \A w \in Workers : Making(w, r) => ~IsFileExists(Thumb(r))

\* The temporary file: while there is a token it belongs to the compressor
\* that holds it, and is made from the thumbnail as it is.
TempSound(r) ==
  /\ HasToken(r) /\ IsFileExists(Temp(r)) =>
       \E c \in Compressors :
         /\ Handling(c, r) /\ comp[c].pc \in {"writing", "check", "move"}
         /\ file[Temp(r)].vers = file[Thumb(r)].vers
         /\ file[Temp(r)].state = "small" \/ (file[Temp(r)].state = "partial" /\ comp[c].pc = "writing")
  /\ \A c \in Compressors :
       Handling(c, r) /\ comp[c].pc \in {"create", "writing"} =>
         comp[c].made = "small" /\ comp[c].vers = file[Thumb(r)].vers

Life(r) == SentOnce(r) /\ OneToken(r) /\ ThumbSound(r) /\ TempSound(r)

\* What a process has open is what it works on.
OpenSound ==
  /\ \A w \in Workers : At(w, "writing") =>
       open[w].area = "thumb" /\ open[w].req = job[w].req /\ open[w].final = "whole"
  /\ \A c \in Compressors : CompAt(c, "writing") =>
       open[c].area = "temp" /\ open[c].req = CompTarget(c) /\ open[c].final = comp[c].made

LifeInv == (\A r \in Requests : Life(r)) /\ OpenSound

-----------------------------------------------------------------------------
\* Whoever holds the token holds the only one.
LEMMA TokenFacts ==
  ASSUME NEW r \in Requests, Life(r), NEW k \in Stages, NEW p \in Holders, Token(r, k, p)
  PROVE  /\ HasToken(r) /\ IsFileExists(Thumb(r))
         /\ \A w \in Workers : ~Making(w, r) /\ (Saving(w, r) => k = "saving" /\ p = w)
         /\ \A q \in Procs : linger[q][Message(2, r)] > 0 => k = "socket" /\ p = q
         /\ inbox[Message(2, r)] > 0 => k = "queued"
         /\ \A c \in Compressors : Handling(c, r) => k = "handling" /\ p = c
         /\ tracked[r] # Untracked => k = "noted"
         /\ IsFileExists(Temp(r)) => k = "handling" /\ comp[p].pc \in {"writing", "check", "move"}
<1>1. HasToken(r)
  BY DEF HasToken
<1>2. IsFileExists(Thumb(r)) /\ \A w \in Workers : ~Making(w, r)
  BY <1>1 DEF Life, ThumbSound
<1>3. ASSUME NEW l \in Stages, NEW q \in Holders, Token(r, l, q) PROVE k = l /\ p = q
  BY <1>3 DEF Life, OneToken
<1>4. \A w \in Workers : Saving(w, r) => Token(r, "saving", w) /\ w \in Holders
  BY DEF Token, Holders, Procs
<1>5. \A q \in Procs : linger[q][Message(2, r)] > 0 => Token(r, "socket", q) /\ q \in Holders
  BY DEF Token, Holders
<1>6. inbox[Message(2, r)] > 0 => Token(r, "queued", NoProc) /\ NoProc \in Holders
  BY DEF Token, Holders
<1>7. \A c \in Compressors : Handling(c, r) => Token(r, "handling", c) /\ c \in Holders
  BY DEF Token, Holders, Procs
<1>8. tracked[r] # Untracked => Token(r, "noted", NoProc) /\ NoProc \in Holders
  BY DEF Token, Holders
<1>9. \A c \in Compressors : Handling(c, r) => k = "handling" /\ p = c
  BY <1>3, <1>7 DEF Stages
<1>10. IsFileExists(Temp(r)) => k = "handling" /\ comp[p].pc \in {"writing", "check", "move"}
  BY <1>1, <1>9 DEF Life, TempSound
<1> QED
  BY <1>1, <1>2, <1>3, <1>4, <1>5, <1>6, <1>8, <1>9, <1>10 DEF Stages

\* A step that leaves the files of r alone and gives nobody a token keeps
\* the life of r, even if it loses the token.
LEMMA LifeKept ==
  ASSUME NEW r \in Requests, Life(r),
         file'[Thumb(r)] = file[Thumb(r)], file'[Temp(r)] = file[Temp(r)],
         \A k \in Stages, p \in Holders : Token(r, k, p)' => Token(r, k, p),
         SentOnce(r)',
         \A w \in Workers : Making(w, r)' => Making(w, r) \/ ~IsFileExists(Thumb(r)),
         \A c \in Compressors : Handling(c, r)' => comp'[c] = comp[c]
  PROVE  Life(r)'
<1>1. OneToken(r)'
  BY DEF Life, OneToken
<1>2. HasToken(r)' => HasToken(r)
  BY DEF HasToken
<1>3. ThumbSound(r)'
  BY <1>2 DEF Life, ThumbSound, IsFileExists
<1>4. \A c \in Compressors : Handling(c, r) => Token(r, "handling", c) /\ c \in Holders
  BY DEF Token, Holders, Procs
<1>5. ASSUME HasToken(r)', NEW c \in Compressors, Handling(c, r) PROVE Handling(c, r)'
  <2>1. PICK k \in Stages, p \in Holders : Token(r, k, p)'
    BY <1>5 DEF HasToken
  <2>2. k = "handling" /\ p = c
    BY <1>4, <1>5, <2>1 DEF Life, OneToken, Stages
  <2> QED
    BY <2>1, <2>2 DEF Token
<1>6. \A c \in Compressors : Handling(c, r)' => Handling(c, r)
  <2> SUFFICES ASSUME NEW c \in Compressors, Handling(c, r)' PROVE Handling(c, r)
    OBVIOUS
  <2>1. Token(r, "handling", c)' /\ c \in Holders /\ "handling" \in Stages
    BY DEF Token, Holders, Procs, Stages
  <2>2. Token(r, "handling", c)
    BY <2>1
  <2> QED
    BY <2>2 DEF Token
<1>7. TempSound(r)'
  <2>1. ASSUME HasToken(r)', IsFileExists(Temp(r))'
        PROVE  \E c \in Compressors :
                 /\ Handling(c, r)' /\ comp'[c].pc \in {"writing", "check", "move"}
                 /\ file'[Temp(r)].vers = file'[Thumb(r)].vers
                 /\ file'[Temp(r)].state = "small"
                    \/ (file'[Temp(r)].state = "partial" /\ comp'[c].pc = "writing")
    <3>1. PICK c \in Compressors :
             /\ Handling(c, r) /\ comp[c].pc \in {"writing", "check", "move"}
             /\ file[Temp(r)].vers = file[Thumb(r)].vers
             /\ file[Temp(r)].state = "small"
                \/ (file[Temp(r)].state = "partial" /\ comp[c].pc = "writing")
      BY <1>2, <2>1 DEF Life, TempSound, IsFileExists
    <3>2. Handling(c, r)'
      BY <1>5, <2>1, <3>1
    <3> QED
      BY <3>1, <3>2
  <2>2. ASSUME NEW c \in Compressors, Handling(c, r)', comp'[c].pc \in {"create", "writing"}
        PROVE  comp'[c].made = "small" /\ comp'[c].vers = file'[Thumb(r)].vers
    BY <1>6, <2>2 DEF Life, TempSound
  <2> QED
    BY <2>1, <2>2 DEF TempSound
<1> QED
  BY <1>1, <1>3, <1>7 DEF Life

\* A step after which r is stored, one process at most has its token, and
\* there is no temporary file.
LEMMA LifeFresh ==
  ASSUME NEW r \in Requests,
         file'[Thumb(r)].state \in {"partial", "whole", "small"},
         \E v \in Versions : file'[Thumb(r)].vers = {v},
         file'[Temp(r)].state = "absent",
         NEW k \in Stages, NEW p \in Holders,
         \A l \in Stages, q \in Holders : Token(r, l, q)' => l = k /\ q = p,
         SentOnce(r)',
         \A w \in Workers : ~Making(w, r)',
         \A c \in Compressors : Handling(c, r)' => comp'[c].pc \notin {"create", "writing"}
  PROVE  Life(r)'
<1>1. OneToken(r)'
  BY DEF OneToken
<1>2. ThumbSound(r)'
  BY DEF ThumbSound, IsFileExists
<1>3. TempSound(r)'
  BY DEF TempSound, IsFileExists
<1> QED
  BY <1>1, <1>2, <1>3 DEF Life

\* A step that hands the token of r on, when no temporary file is about.
LEMMA LifeHandedOn ==
  ASSUME NEW r \in Requests, Life(r), HasToken(r), ~IsFileExists(Temp(r)),
         file'[Thumb(r)] = file[Thumb(r)], file'[Temp(r)] = file[Temp(r)],
         NEW k \in Stages, NEW p \in Holders,
         \A l \in Stages, q \in Holders : Token(r, l, q)' => l = k /\ q = p,
         SentOnce(r)',
         \A w \in Workers : ~Making(w, r)',
         \A c \in Compressors : Handling(c, r)' => comp'[c].pc \notin {"create", "writing"}
  PROVE  Life(r)'
<1>1. /\ file[Thumb(r)].state \in {"partial", "whole", "small"}
      /\ \E v \in Versions : file[Thumb(r)].vers = {v}
  BY DEF Life, ThumbSound, IsFileExists, Absent
<1>2. file[Temp(r)].state = "absent"
  BY DEF IsFileExists
<1> QED
  BY <1>1, <1>2, LifeFresh

\* A step that loses the token of r: whatever becomes of its temporary file,
\* the thumbnail stays as it is.
LEMMA LifeLost ==
  ASSUME NEW r \in Requests, Life(r), IsFileExists(Thumb(r)),
         file'[Thumb(r)] = file[Thumb(r)],
         \A k \in Stages, p \in Holders : ~Token(r, k, p)',
         SentOnce(r)',
         \A w \in Workers : ~Making(w, r)'
  PROVE  Life(r)'
<1>1. ~HasToken(r)'
  BY DEF HasToken
<1>2. \A c \in Compressors : ~Handling(c, r)'
  <2> SUFFICES ASSUME NEW c \in Compressors, Handling(c, r)' PROVE FALSE
    OBVIOUS
  <2>1. Token(r, "handling", c)' /\ c \in Holders /\ "handling" \in Stages
    BY DEF Token, Holders, Procs, Stages
  <2> QED
    BY <2>1
<1>3. OneToken(r)'
  BY DEF OneToken
<1>4. ThumbSound(r)'
  BY DEF Life, ThumbSound, IsFileExists
<1>5. TempSound(r)'
  BY <1>1, <1>2 DEF TempSound
<1> QED
  BY <1>3, <1>4, <1>5 DEF Life

\* What is open: a worker writes the thumbnail whose token it holds, and a
\* compressor the temporary file of the thumbnail whose token it holds.
LEMMA WriterFacts ==
  ASSUME TypeOK, WriteInv, ReportsOnly, OpenSound, NEW r \in Requests, NEW q \in Procs
  PROVE  /\ Writes(q, Thumb(r)) => q \in Workers /\ At(q, "writing") /\ Saving(q, r)
         /\ Writes(q, Temp(r)) => q \in Compressors /\ CompAt(q, "writing") /\ Handling(q, r)
<1>0. Closed.area = "closed"
  BY DEF Closed
<1>1. CASE q \in Workers
  <2>1. At(q, "writing") \/ open[q].area = "closed"
    BY <1>0, <1>1 DEF WriteInv, WritersOpen
  <2> QED
    BY <1>1, <2>1 DEF OpenSound, Writes, Thumb, Temp, Saving, At
<1>2. CASE q \in Compressors
  <2>1. CompAt(q, "writing") \/ open[q].area = "closed"
    BY <1>0, <1>2 DEF WriteInv, WritersOpen
  <2>2. comp[q].msg \in Messages
    BY <1>2 DEF TypeOK, CompTypeOK, CompJob
  <2>3. CompAt(q, "writing") => comp[q].msg.type = 2 /\ ~CompAt(q, "idle")
    BY <1>2 DEF ReportsOnly, CompAt
  <2>4. CompAt(q, "writing") => Handling(q, CompTarget(q))
    BY <2>2, <2>3, MessageFacts DEF Handling, CompTarget
  <2> QED
    BY <1>2, <2>1, <2>4 DEF OpenSound, Writes, Thumb, Temp
<1> QED
  BY <1>1, <1>2 DEF Procs

-----------------------------------------------------------------------------
\* A step of the worker.  It looks for the thumbnail once; no other worker
\* and, without a token, no compressor can make it appear before the save.
LEMMA ServerLife ==
  ASSUME TypeOK, WriteInv, ReportsOnly, SingleWorker, LifeInv,
         ServerNext, UNCHANGED <<comp, tracked>>
  PROVE  LifeInv'
<1> USE DEF JobSteps
<1>1. PICK w \in Workers : \/ WorkerStep(w) \/ WorkerCrash(w) \/ RejectPath(w)
                           \/ \E r \in Requests : ExtractThumbInfo(w, r)
  BY DEF ServerNext
<1>2. /\ file \in [Paths -> Content] /\ open \in [Procs -> Descriptor] /\ w \in Procs
      /\ job \in [Workers -> Job] /\ job[w] \in Job /\ job[w].req \in Requests
      /\ (\A r \in Requests : Life(r)) /\ OpenSound
      /\ \A v \in Workers : v = w
      /\ \A c \in Compressors : c # w /\ c \in Procs
  BY DeploymentAssumption
  DEF TypeOK, StoreTypeOK, Procs, ServerTypeOK, Job, LifeInv, SingleWorker
<1>3. ~SaveRaises(w) /\ ~WorkerCrash(w)
  BY DEF SingleWorker, SaveRaises, WorkerCrash
<1>4. ASSUME \A p \in Procs : p # w => open'[p] = open[p],
             job'[w].pc = "writing" =>
               open'[w].area = "thumb" /\ open'[w].req = job'[w].req /\ open'[w].final = "whole"
      PROVE  OpenSound'
  BY <1>2, <1>4 DEF OpenSound, At, CompAt, CompTarget
<1>5. ASSUME NEW r \in Requests,
             \A p \in Procs : linger'[p][Message(2, r)] = linger[p][Message(2, r)],
             inbox' = inbox, Saving(w, r)' => Saving(w, r)
      PROVE  /\ \A k \in Stages, p \in Holders : Token(r, k, p)' => Token(r, k, p)
             /\ SentOnce(r)'
             /\ \A c \in Compressors : Handling(c, r)' => comp'[c] = comp[c]
  BY <1>2, <1>5 DEF Token, Handling, CompAt, Life, SentOnce
<1>6. ASSUME UNCHANGED <<file, open, inbox>>,
             \A p \in Procs, r \in Requests : linger'[p][Message(2, r)] = linger[p][Message(2, r)],
             \A r \in Requests : /\ Saving(w, r)' => Saving(w, r)
                                 /\ Making(w, r)' => Making(w, r) \/ ~IsFileExists(Thumb(r)),
             job'[w].pc # "writing"
      PROVE  LifeInv'
  <2>1. OpenSound'
    BY <1>4, <1>6
  <2>2. ASSUME NEW r \in Requests PROVE Life(r)'
    BY <1>2, <1>5, <1>6, LifeKept
  <2> QED
    BY <2>1, <2>2 DEF LifeInv
<1>7. CASE RejectPath(w) \/ NotifyFails(w) \/ ProcessImageRaises(w) \/ PublishFails(w) \/ Serve(w)
  <2>1. job'[w].pc = "idle"
    BY <1>7, JobMoves DEF RejectPath, NotifyFails, ProcessImageRaises, PublishFails, Serve
  <2>2. UNCHANGED <<storeVars, pathVars>>
    BY <1>7 DEF RejectPath, NotifyFails, ProcessImageRaises, PublishFails, Serve
  <2> QED
    BY <1>6, <2>1, <2>2 DEF storeVars, pathVars, Saving, Making
<1>8. CASE CheckSource(w) \/ NotPermited(w) \/ Resize(w) \/ LoadImage(w)
  <2>1. /\ job'[w].pc \in {"load", "serve", "resize", "save"} /\ job'[w].req = job[w].req
        /\ job[w].pc \in {"source", "load", "resize"}
    BY <1>2, <1>8 DEF CheckSource, NotPermited, Resize, LoadImage, Goto, At, Job
  <2>2. UNCHANGED <<storeVars, pathVars>>
    BY <1>8 DEF CheckSource, NotPermited, Resize, LoadImage
  <2> QED
    BY <1>6, <2>1, <2>2 DEF storeVars, pathVars, Saving, Making
<1>9. ASSUME NEW r \in Requests, ExtractThumbInfo(w, r) PROVE LifeInv'
  <2>1. job'[w].pc = "notify" /\ job'[w].req = r /\ job'[w].saw = IsFileExists(Thumb(r))
    BY <1>2, <1>9 DEF ExtractThumbInfo
  <2> QED
    BY <1>6, <1>9, <2>1 DEF ExtractThumbInfo, storeVars, pathVars, Saving, Making
<1>10. CASE Notify(w)
  <2>1. /\ job'[w].pc = (IF job[w].saw THEN "serve" ELSE "source") /\ job'[w].req = job[w].req
        /\ job[w].pc = "notify" /\ UNCHANGED <<file, open>>
    BY <1>2, <1>10 DEF Notify, Goto, At, Job, storeVars
  <2>2. \A r \in Requests : ~Saving(w, r)' /\ (Making(w, r)' => Making(w, r))
    BY <2>1 DEF Saving, Making
  <2>3. /\ inbox' = inbox
        /\ \A p \in Procs, r \in Requests : linger'[p][Message(2, r)] = linger[p][Message(2, r)]
    <3>1. CASE SendMessage(w, Message(1, job[w].req))
      BY <1>2, <3>1, SendFacts, MessageFacts
    <3>2. CASE UNCHANGED pathVars
      BY <3>2 DEF pathVars
    <3> QED
      BY <1>10, <3>1, <3>2 DEF Notify
  <2>4. job'[w].pc # "writing"
    BY <2>1
  <2> QED
    BY <1>6, <2>1, <2>2, <2>3, <2>4
<1>11. CASE Publish(w)
  <2>1. /\ job'[w].pc = "serve" /\ job'[w].req = job[w].req
        /\ job[w].pc = "publish" /\ UNCHANGED <<file, open>>
    BY <1>2, <1>11 DEF Publish, Goto, At, Job, storeVars
  <2>2. \A r \in Requests : ~Saving(w, r)' /\ ~Making(w, r)'
    BY <2>1 DEF Saving, Making
  <2>3. CASE UNCHANGED pathVars
    BY <1>6, <2>1, <2>2, <2>3 DEF pathVars
  <2>4. CASE SendMessage(w, Message(2, job[w].req))
    <3>0. PICK t \in Requests : t = job[w].req
      BY <1>2
    <3>1. Saving(w, t) /\ Token(t, "saving", w) /\ w \in Holders
      BY <1>2, <2>1, <3>0 DEF Saving, Token, Holders
    <3>2. /\ HasToken(t) /\ ~IsFileExists(Temp(t)) /\ tracked[t] = Untracked
          /\ \A q \in Procs : ~(linger[q][Message(2, t)] > 0)
          /\ ~(inbox[Message(2, t)] > 0)
          /\ \A c \in Compressors : ~Handling(c, t)
      BY <1>2, <3>1, TokenFacts DEF Stages
    <3>3. /\ linger' = [linger EXCEPT ![w] = [linger[w] EXCEPT ![Message(2, t)] = linger[w][Message(2, t)] + 1]]
          /\ inbox' = inbox /\ Message(2, t) \in Messages
          /\ linger \in [Procs -> [Messages -> Nat]] /\ inbox \in [Messages -> Nat]
      BY <2>4, <3>0, MessageFacts DEF SendMessage, TypeOK, PathTypeOK
    <3>4. linger[w][Message(2, t)] = 0
      BY <1>2, <3>2, <3>3
    <3>5. /\ linger'[w] = [linger[w] EXCEPT ![Message(2, t)] = 1]
          /\ \A q \in Procs : q # w => linger'[q] = linger[q]
      BY <1>2, <3>3, <3>4
    <3>6. linger'[w][Message(2, t)] = 1
      BY <1>2, <3>3, <3>5
    <3>7. ASSUME NEW r \in Requests, r # t PROVE Life(r)'
      <4>1. Message(2, r) # Message(2, t) /\ Message(2, r) \in Messages
        BY <3>7, MessageFacts
      <4>2. \A p \in Procs : linger'[p][Message(2, r)] = linger[p][Message(2, r)]
        BY <1>2, <3>3, <3>5, <4>1
      <4> QED
        BY <1>2, <1>5, <2>1, <2>2, <3>3, <4>2, LifeKept
    <3>8. Life(t)'
      <4>1. SentOnce(t)'
        <5>1. \A q \in Procs : q # w => linger'[q][Message(2, t)] <= 1
          BY <1>2, <3>5 DEF Life, SentOnce
        <5> QED
          BY <1>2, <3>3, <3>6, <5>1 DEF Life, SentOnce
      <4>2. \A l \in Stages, q \in Holders : Token(t, l, q)' => l = "socket" /\ q = w
        <5>1. \A v \in Workers : ~Saving(v, t)'
          BY <1>2, <2>2
        <5>2. \A q \in Procs : q # w => ~(linger'[q][Message(2, t)] > 0)
          BY <3>2, <3>5
        <5>3. \A c \in Compressors : ~Handling(c, t)'
          BY <3>2 DEF Handling, CompAt
        <5> QED
          BY <3>2, <3>3, <5>1, <5>2, <5>3 DEF Token
      <4>3. \A v \in Workers : ~Making(v, t)'
        BY <1>2, <2>2
      <4>4. \A c \in Compressors : ~Handling(c, t)'
        BY <3>2 DEF Handling, CompAt
      <4>5. "socket" \in Stages /\ file' = file
        BY <2>1 DEF Stages
      <4> QED
        BY <1>2, <3>1, <3>2, <4>1, <4>2, <4>3, <4>4, <4>5, LifeHandedOn
    <3>9. OpenSound'
      BY <1>4, <2>1
    <3> QED
      BY <3>7, <3>8, <3>9 DEF LifeInv
  <2> QED
    BY <1>11, <2>3, <2>4 DEF Publish
<1>12. CASE BeginSave(w)
  <2>0. PICK t \in Requests : t = job[w].req
    BY <1>2
  <2>1. /\ job'[w].pc = "writing" /\ job'[w].req = t /\ job[w].pc = "save" /\ UNCHANGED pathVars
        /\ OpenTruncate(w, Thumb(t), {job[w].ver}, "whole")
    BY <1>2, <1>12, <2>0 DEF BeginSave, Goto, At, Job
  <2>2. ~IsFileExists(Thumb(t)) /\ ~HasToken(t) /\ ~IsFileExists(Temp(t))
    BY <1>2, <2>0, <2>1 DEF Life, ThumbSound, Making
  <2>3. \A q \in Procs : ~Writes(q, Thumb(t))
    BY <1>2, <2>1, WriterFacts DEF At
  <2>4. file'[Thumb(t)] = [state |-> "partial", owner |-> w, vers |-> {job[w].ver}]
    <3>1. UNION {open[q].vers : q \in {x \in Procs : Writes(x, Thumb(t))}} = {}
      BY <2>3
    <3> QED
      BY <1>2, <2>1, <3>1, StoreFacts DEF OpenTruncate
  <2>5. open' = [open EXCEPT ![w] = [area |-> "thumb", req |-> t, vers |-> {job[w].ver}, final |-> "whole"]]
    BY <2>1 DEF OpenTruncate, Thumb
  <2>6. \A q \in Paths : q # Thumb(t) => file'[q] = file[q]
    BY <1>2, <2>1 DEF OpenTruncate
  <2>7. \A r \in Requests : Temp(r) # Thumb(t) /\ (r # t => Thumb(r) # Thumb(t))
    BY DEF Temp, Thumb
  <2>8. OpenSound'
    <3>1. open'[w].area = "thumb" /\ open'[w].req = t /\ open'[w].final = "whole"
      BY <1>2, <2>5
    <3>2. \A p \in Procs : p # w => open'[p] = open[p]
      BY <1>2, <2>5
    <3> QED
      BY <1>4, <2>1, <3>1, <3>2
  <2>9. ASSUME NEW r \in Requests, r # t PROVE Life(r)'
    <3>1. file'[Thumb(r)] = file[Thumb(r)] /\ file'[Temp(r)] = file[Temp(r)]
      BY <2>6, <2>7, <2>9, StoreFacts
    <3>2. ~Saving(w, r)' /\ ~Making(w, r)'
      BY <2>1, <2>9 DEF Saving, Making
    <3> QED
      BY <1>2, <1>5, <2>1, <3>1, <3>2, LifeKept DEF pathVars
  <2>10. Life(t)'
    <3>1. file'[Temp(t)].state = "absent"
      BY <2>2, <2>6, <2>7, StoreFacts DEF IsFileExists
    <3>2. job[w].ver \in Versions
      BY <1>2 DEF Job
    <3>3. file'[Thumb(t)].state = "partial" /\ file'[Thumb(t)].vers = {job[w].ver}
      BY <2>4
    <3>4. ASSUME NEW l \in Stages, NEW q \in Holders, Token(t, l, q)' PROVE l = "saving" /\ q = w
      <4>1. ~Token(t, l, q)
        BY <2>2 DEF HasToken
      <4> QED
        BY <1>2, <2>1, <3>4, <4>1 DEF Token, pathVars, Handling, CompAt
    <3>5. \A c \in Compressors : ~Handling(c, t)'
      <4> SUFFICES ASSUME NEW c \in Compressors, Handling(c, t)' PROVE FALSE
        OBVIOUS
      <4>1. Token(t, "handling", c)' /\ c \in Holders /\ "handling" \in Stages
        BY DEF Token, Holders, Procs, Stages
      <4> QED
        BY <3>4, <4>1
    <3>6. SentOnce(t)' /\ \A v \in Workers : ~Making(v, t)'
      BY <1>2, <2>1 DEF Life, SentOnce, pathVars, Making
    <3>7. "saving" \in Stages /\ w \in Holders
      BY <1>2 DEF Stages, Holders
    <3> QED
      BY <3>1, <3>2, <3>3, <3>4, <3>5, <3>6, <3>7, LifeFresh
  <2> QED
    BY <2>8, <2>9, <2>10 DEF LifeInv
<1>13. CASE EndSave(w)
  <2>0. PICK t \in Requests : t = job[w].req
    BY <1>2
  <2>1. /\ job'[w].pc = "publish" /\ job'[w].req = t /\ job[w].pc = "writing" /\ UNCHANGED pathVars
        /\ CloseAs(w, open[w].final)
    BY <1>2, <1>13, <2>0 DEF EndSave, FinishWrite, Goto, At, Job
  <2>2. open[w].area = "thumb" /\ open[w].req = t /\ open[w].final = "whole" /\ WritePath(w) = Thumb(t)
    BY <1>2, <2>0, <2>1 DEF OpenSound, At, WritePath, Thumb
  <2>3. \A q \in Paths : q # Thumb(t) => file'[q] = file[q]
    BY <1>2, <2>1, <2>2 DEF CloseAs
  <2>4. \A r \in Requests : Temp(r) # Thumb(t) /\ (r # t => Thumb(r) # Thumb(t))
    BY DEF Temp, Thumb
  <2>5. Saving(w, t) /\ Token(t, "saving", w) /\ w \in Holders /\ "saving" \in Stages
    BY <1>2, <2>0, <2>1 DEF Saving, Token, Holders, Stages
  <2>6. IsFileExists(Thumb(t)) /\ ~IsFileExists(Temp(t)) /\ \A c \in Compressors : ~Handling(c, t)
    BY <1>2, <2>5, TokenFacts
  <2>7. OpenSound'
    <3>1. \A p \in Procs : p # w => open'[p] = open[p]
      BY <1>2, <2>1 DEF CloseAs
    <3> QED
      BY <1>4, <2>1, <3>1
  <2>8. ASSUME NEW r \in Requests, r # t PROVE Life(r)'
    <3>1. file'[Thumb(r)] = file[Thumb(r)] /\ file'[Temp(r)] = file[Temp(r)]
      BY <2>3, <2>4, <2>8, StoreFacts
    <3>2. ~Saving(w, r)' /\ ~Making(w, r)'
      BY <2>1, <2>8 DEF Saving, Making
    <3> QED
      BY <1>2, <1>5, <2>1, <3>1, <3>2, LifeKept DEF pathVars
  <2>9. Life(t)'
    <3>1. file'[Temp(t)].state = "absent"
      BY <2>3, <2>4, <2>6, StoreFacts DEF IsFileExists
    <3>2. /\ file[Thumb(t)].state \in {"partial", "whole", "small"}
          /\ \E v \in Versions : file[Thumb(t)].vers = {v}
      BY <1>2, <2>6 DEF Life, ThumbSound, IsFileExists, Absent
    <3>3. /\ file'[Thumb(t)].state \in {"partial", "whole", "small"}
          /\ file'[Thumb(t)].vers = file[Thumb(t)].vers
      BY <1>2, <2>1, <2>2, <3>2, StoreFacts DEF CloseAs, Areas
    <3>4. ASSUME NEW l \in Stages, NEW q \in Holders, Token(t, l, q)' PROVE l = "saving" /\ q = w
      <4>1. Token(t, l, q)
        BY <1>2, <2>1, <2>5, <3>4 DEF Token, pathVars, Handling, CompAt
      <4> QED
        BY <1>2, <2>5, <4>1 DEF Life, OneToken
    <3>5. \A c \in Compressors : ~Handling(c, t)'
      BY <2>6 DEF Handling, CompAt
    <3>6. SentOnce(t)' /\ \A v \in Workers : ~Making(v, t)'
      BY <1>2, <2>1 DEF Life, SentOnce, pathVars, Making
    <3> QED
      BY <2>5, <3>1, <3>2, <3>3, <3>4, <3>5, <3>6, LifeFresh
  <2> QED
    BY <2>7, <2>8, <2>9 DEF LifeInv
<1> QED
  BY <1>1, <1>3, <1>7, <1>8, <1>9, <1>10, <1>11, <1>12, <1>13 DEF WorkerStep

-----------------------------------------------------------------------------
\* A file that somebody is writing has its token with that process.
LEMMA PartialFacts ==
  ASSUME TypeOK, WriteInv, ReportsOnly, OpenSound, NEW r \in Requests
  PROVE  /\ file[Thumb(r)].state = "partial" =>
              \E w \in Workers : file[Thumb(r)].owner = w /\ At(w, "writing") /\ Saving(w, r)
         /\ file[Temp(r)].state = "partial" =>
              \E c \in Compressors :
                file[Temp(r)].owner = c /\ CompAt(c, "writing") /\ Handling(c, r)
<1>1. OwnerWrites /\ Thumb(r) \in Paths /\ Temp(r) \in Paths
  BY StoreFacts DEF WriteInv
<1> QED
  BY <1>1, WriterFacts DEF OwnerWrites

\* A step of a compressor that holds the token of t: the other thumbnails
\* are left alone.
LEMMA OthersKept ==
  ASSUME TypeOK, NEW r \in Requests, Life(r), NEW c \in Compressors,
         ~Handling(c, r), ~Handling(c, r)',
         \A d \in Compressors : d # c => comp'[d] = comp[d],
         file'[Thumb(r)] = file[Thumb(r)], file'[Temp(r)] = file[Temp(r)],
         \A p \in Procs : linger'[p][Message(2, r)] > 0 => linger[p][Message(2, r)] > 0,
         inbox'[Message(2, r)] > 0 => inbox[Message(2, r)] > 0,
         SentOnce(r)', UNCHANGED <<serverVars, tracked>>
  PROVE  Life(r)'
<1>1. \A d \in Compressors : Handling(d, r)' => d # c /\ comp'[d] = comp[d] /\ Handling(d, r)
  BY DEF Handling, CompAt
<1>2. \A k \in Stages, p \in Holders : Token(r, k, p)' => Token(r, k, p)
  BY <1>1 DEF Token, Saving, serverVars
<1>3. \A w \in Workers : Making(w, r)' => Making(w, r)
  BY DEF Making, serverVars
<1> QED
  BY <1>1, <1>2, <1>3, LifeKept

\* A compressor takes a message from the broker.
LEMMA ReceiveLife ==
  ASSUME TypeOK, ReportsOnly, LifeInv, NEW c \in Compressors, NEW m \in Messages, Receive(c, m),
         UNCHANGED <<serverVars, tracked>>
  PROVE  LifeInv'
<1>1. /\ inbox \in [Messages -> Nat] /\ inbox[m] > 0 /\ inbox' = [inbox EXCEPT ![m] = @ - 1]
      /\ linger' = linger /\ UNCHANGED <<file, open>> /\ comp[c].pc = "idle"
      /\ comp \in [Compressors -> CompJob] /\ comp[c] \in CompJob
      /\ comp' = IF m.type = 1 THEN comp ELSE [comp EXCEPT ![c].pc = "exists", ![c].msg = m]
      /\ \A r \in Requests : Life(r)
      /\ m.req \in Requests /\ m = Message(m.type, m.req)
  BY MessageFacts
  DEF Receive, Take, TypeOK, PathTypeOK, CompTypeOK, storeVars, CompAt, LifeInv
<1>2. m.type \in {1, 2}
  BY <1>1, MessageFacts DEF ReportsOnly
<1>3. /\ \A d \in Compressors : d # c => comp'[d] = comp[d]
      /\ comp'[c].pc \in {"idle", "exists"}
      /\ comp'[c].pc = "exists" => m.type = 2 /\ comp'[c].msg = m
  BY <1>1, <1>2
<1>4. \A n \in Messages : n # m => inbox'[n] = inbox[n]
  BY <1>1
<1>5. inbox'[m] = inbox[m] - 1 /\ inbox[m] \in Nat
  BY <1>1
<1>6. OpenSound'
  BY <1>1, <1>3 DEF LifeInv, OpenSound, serverVars, At, CompAt, CompTarget
<1>7. ASSUME NEW r \in Requests, m # Message(2, r) PROVE Life(r)'
  <2>1. inbox'[Message(2, r)] = inbox[Message(2, r)]
    BY <1>4, <1>7, MessageFacts
  <2>2. ~Handling(c, r) /\ ~Handling(c, r)'
    BY <1>1, <1>3, <1>7 DEF Handling, CompAt
  <2>3. SentOnce(r)'
    BY <1>1, <2>1 DEF Life, SentOnce
  <2> QED
    BY <1>1, <1>3, <2>1, <2>2, <2>3, OthersKept
<1>8. ASSUME NEW t \in Requests, m = Message(2, t) PROVE Life(t)'
  <2>1. Token(t, "queued", NoProc) /\ NoProc \in Holders /\ "queued" \in Stages
    BY <1>1, <1>8 DEF Token, Holders, Stages
  <2>2. /\ HasToken(t) /\ IsFileExists(Thumb(t)) /\ ~IsFileExists(Temp(t))
        /\ \A w \in Workers : ~Making(w, t) /\ ~Saving(w, t)
        /\ \A q \in Procs : ~(linger[q][Message(2, t)] > 0)
        /\ \A d \in Compressors : ~Handling(d, t)
        /\ tracked[t] = Untracked
    BY <1>1, <2>1, TokenFacts
  <2>3. inbox[m] <= 1
    BY <1>1, <1>8 DEF Life, SentOnce
  <2>4. inbox'[m] = 0
    BY <1>1, <1>5, <2>3
  <2>5. SentOnce(t)'
    BY <1>1, <1>8, <2>4 DEF Life, SentOnce
  <2>6. \A d \in Compressors : Handling(d, t)' => d = c
    BY <1>3, <2>2 DEF Handling, CompAt
  <2>7. \A l \in Stages, q \in Holders : Token(t, l, q)' => l = "handling" /\ q = c
    BY <1>1, <1>8, <2>2, <2>4, <2>6 DEF Token, Saving, serverVars
  <2>8. "handling" \in Stages /\ c \in Holders /\ \A w \in Workers : ~Making(w, t)'
    BY <2>2 DEF Stages, Holders, Procs, Making, serverVars
  <2>9. \A d \in Compressors : Handling(d, t)' => comp'[d].pc \notin {"create", "writing"}
    BY <1>3, <2>6
  <2> QED
    BY <1>1, <2>2, <2>5, <2>7, <2>8, <2>9, LifeHandedOn
<1> QED
  BY <1>6, <1>7, <1>8 DEF LifeInv

\* A compressor at work on t keeps its token; it must keep what it has in
\* memory and in the temporary file equal to the thumbnail.
LEMMA WorkLife ==
  ASSUME TypeOK, \A r \in Requests : Life(r), NEW c \in Compressors, NEW t \in Requests,
         Handling(c, t), comp'[c].msg = comp[c].msg, comp'[c].pc # "idle",
         \A d \in Compressors : d # c => comp'[d] = comp[d],
         UNCHANGED <<serverVars, tracked, pathVars>>,
         \A r \in Requests :
           r # t => file'[Thumb(r)] = file[Thumb(r)] /\ file'[Temp(r)] = file[Temp(r)],
         file'[Thumb(t)].state \in {"partial", "whole", "small"},
         file'[Thumb(t)].vers = file[Thumb(t)].vers,
         IsFileExists(Temp(t))' =>
           /\ comp'[c].pc \in {"writing", "check", "move"}
           /\ file'[Temp(t)].vers = file[Thumb(t)].vers
           /\ file'[Temp(t)].state = "small"
              \/ (file'[Temp(t)].state = "partial" /\ comp'[c].pc = "writing"),
         comp'[c].pc \in {"create", "writing"} =>
           comp'[c].made = "small" /\ comp'[c].vers = file[Thumb(t)].vers
  PROVE  \A r \in Requests : Life(r)'
<1>1. Token(t, "handling", c) /\ c \in Holders /\ "handling" \in Stages
  BY DEF Token, Holders, Procs, Stages
<1>2. Handling(c, t)'
  BY DEF Handling, CompAt
<1>3. ASSUME NEW r \in Requests, r # t PROVE Life(r)'
  <2>1. ~Handling(c, r) /\ ~Handling(c, r)'
    BY <1>2, <1>3, MessageFacts DEF Handling
  <2>2. SentOnce(r)'
    BY DEF Life, SentOnce, pathVars
  <2> QED
    BY <1>3, <2>1, <2>2, OthersKept DEF pathVars
<1>4. Life(t)'
  <2>1. /\ IsFileExists(Thumb(t)) /\ \A w \in Workers : ~Making(w, t)
        /\ \A d \in Compressors : Handling(d, t) => d = c
    BY <1>1, TokenFacts
  <2>2. \A d \in Compressors : Handling(d, t)' => d = c
    BY <2>1 DEF Handling, CompAt
  <2>3. \A k \in Stages, p \in Holders : Token(t, k, p)' => Token(t, k, p)
    BY <2>2 DEF Token, Saving, serverVars, pathVars
  <2>4. OneToken(t)' /\ SentOnce(t)'
    BY <2>3 DEF Life, OneToken, SentOnce, pathVars
  <2>5. ThumbSound(t)'
    <3>1. \E v \in Versions : file[Thumb(t)].vers = {v}
      BY <2>1 DEF Life, ThumbSound, IsFileExists, Absent
    <3>2. \A w \in Workers : ~Making(w, t)'
      BY <2>1 DEF Making, serverVars
    <3> QED
      BY <3>1, <3>2 DEF ThumbSound, IsFileExists
  <2>6. TempSound(t)'
    BY <1>2, <2>2 DEF TempSound
  <2> QED
    BY <2>4, <2>5, <2>6 DEF Life
<1> QED
  BY <1>3, <1>4

\* When queued messages are lost none is queued anew.
LEMMA LoseFacts ==
  ASSUME TypeOK, LoseSomeQueued, NEW m \in Messages
  PROVE  (inbox'[m] > 0 => inbox[m] > 0) /\ (inbox[m] <= 1 => inbox'[m] <= 1)
<1>1. PICK lost \in SUBSET {x \in Messages : inbox[x] > 0} :
        \E left \in [lost -> 0..(QueueLimit - 1)] :
          /\ \A x \in lost : left[x] < inbox[x]
          /\ inbox' = [x \in Messages |-> IF x \in lost THEN left[x] ELSE inbox[x]]
  BY DEF LoseSomeQueued
<1>2. PICK left \in [lost -> 0..(QueueLimit - 1)] :
        /\ \A x \in lost : left[x] < inbox[x]
        /\ inbox' = [x \in Messages |-> IF x \in lost THEN left[x] ELSE inbox[x]]
  BY <1>1
<1>3. CASE m \in lost
  <2>1. inbox'[m] = left[m] /\ left[m] < inbox[m] /\ inbox[m] > 0
    BY <1>2, <1>3
  <2>2. left[m] \in Int /\ inbox[m] \in Int
    BY <1>2, <1>3, PathAssumption DEF TypeOK, PathTypeOK
  <2> QED
    BY <2>1, <2>2
<1>4. CASE m \notin lost
  BY <1>2, <1>4
<1> QED
  BY <1>3, <1>4

\* A step of a compressor.  It reads the thumbnail when nobody writes it,
\* and what it moves over the thumbnail was made from it.
LEMMA CompressorLife ==
  ASSUME TypeOK, WriteInv, ReportsOnly, SingleWorker, LifeInv,
         CompressorNext, UNCHANGED <<serverVars, tracked>>
  PROVE  LifeInv'
<1>1. PICK c \in Compressors : CompressorStep(c) \/ CompressorCrash(c)
  BY DEF CompressorNext
<1>2. /\ file \in [Paths -> Content] /\ open \in [Procs -> Descriptor] /\ c \in Procs
      /\ comp \in [Compressors -> CompJob] /\ comp[c] \in CompJob
      /\ CompTarget(c) \in Requests /\ UNCHANGED job
      /\ (\A r \in Requests : Life(r)) /\ OpenSound
      /\ \A w \in Workers : c # w /\ w \in Procs
  BY DeploymentAssumption
  DEF TypeOK, StoreTypeOK, Procs, CompTypeOK, CompTarget, CompJob, Messages, LifeInv, serverVars
<1>3. \A d \in Compressors : d # c => comp'[d] = comp[d]
  BY <1>1, <1>2
  DEF CompressorStep, CompressorCrash, Receive, CheckTarget, OptimizerReads, OptimizerFails,
      CreateTemp, CloseTemp, WriteCutShort, CheckTemp, Move, Resend, CompGoto
<1>4. ASSUME \A p \in Procs : p # c => open'[p] = open[p],
             comp'[c].pc = "writing" =>
               /\ open'[c].area = "temp" /\ open'[c].req = comp'[c].msg.req
               /\ open'[c].final = comp'[c].made
      PROVE  OpenSound'
  BY <1>2, <1>3, <1>4 DEF OpenSound, At, CompAt, CompTarget, Procs
<1>5. PICK t \in Requests : t = CompTarget(c)
  BY <1>2
<1>6. ~CompAt(c, "idle") => Handling(c, t)
  BY <1>2, <1>5, MessageFacts DEF ReportsOnly, Handling, CompTarget, CompJob
<1>7. ASSUME Handling(c, t)
      PROVE  /\ file[Thumb(t)].state \in {"whole", "small"}
             /\ \A w \in Workers : ~Saving(w, t)
             /\ \A d \in Compressors : Handling(d, t) => d = c
             /\ IsFileExists(Temp(t)) =>
                  /\ comp[c].pc \in {"writing", "check", "move"}
                  /\ file[Temp(t)].vers = file[Thumb(t)].vers
                  /\ file[Temp(t)].state = "small"
                     \/ (file[Temp(t)].state = "partial" /\ comp[c].pc = "writing")
             /\ comp[c].pc \in {"create", "writing"} =>
                  comp[c].made = "small" /\ comp[c].vers = file[Thumb(t)].vers
  <2>1. Token(t, "handling", c) /\ c \in Holders /\ "handling" \in Stages
    BY <1>7 DEF Token, Holders, Procs, Stages
  <2>2. /\ HasToken(t) /\ IsFileExists(Thumb(t)) /\ \A w \in Workers : ~Saving(w, t)
        /\ \A d \in Compressors : Handling(d, t) => d = c
    BY <1>2, <2>1, TokenFacts
  <2>3. file[Thumb(t)].state # "partial"
    BY <1>2, <2>2, PartialFacts
  <2>4. file[Thumb(t)].state \in {"whole", "small"}
    BY <1>2, <2>2, <2>3 DEF Life, ThumbSound, IsFileExists, Absent
  <2> QED
    BY <1>2, <1>7, <2>2, <2>4 DEF Life, TempSound
<1>8. CASE CheckTarget(c) \/ OptimizerFails(c) \/ CheckTemp(c)
  <2>1. /\ ~CompAt(c, "idle") /\ comp'[c].msg = comp[c].msg
        /\ comp'[c].pc \in {"read", "check", "move", "resend"}
        /\ comp'[c].pc \in {"read", "resend"} => comp[c].pc = "exists" \/ ~IsFileExists(Temp(t))
        /\ UNCHANGED <<file, open, pathVars>> /\ comp[c].pc # "writing"
    BY <1>2, <1>5, <1>8
    DEF CheckTarget, OptimizerFails, CheckTemp, CompGoto, CompAt, CompJob, storeVars
  <2>2. OpenSound'
    BY <1>4, <2>1
  <2>3. IsFileExists(Temp(t))' => /\ comp'[c].pc \in {"writing", "check", "move"}
                                  /\ file'[Temp(t)].vers = file[Thumb(t)].vers
                                  /\ file'[Temp(t)].state = "small"
    BY <1>6, <1>7, <2>1 DEF IsFileExists
  <2>4. \A r \in Requests : Life(r)'
    BY <1>2, <1>3, <1>6, <1>7, <2>1, <2>3, WorkLife
  <2> QED
    BY <2>2, <2>4 DEF LifeInv
<1>9. CASE OptimizerReads(c)
  <2>1. /\ ~CompAt(c, "idle") /\ comp'[c].msg = comp[c].msg /\ comp'[c].pc = "create"
        /\ comp[c].pc = "read"
        /\ comp'[c].made = OptimizerOutput(file[Thumb(t)].state)
        /\ comp'[c].vers = file[Thumb(t)].vers
        /\ UNCHANGED <<file, open, pathVars>>
    BY <1>2, <1>5, <1>9 DEF OptimizerReads, CompAt, CompJob, storeVars
  <2>2. OpenSound'
    BY <1>4, <2>1
  <2>3. comp'[c].made = "small" /\ ~IsFileExists(Temp(t))'
    BY <1>6, <1>7, <2>1 DEF OptimizerOutput, Complete, IsFileExists
  <2>4. \A r \in Requests : Life(r)'
    BY <1>2, <1>3, <1>6, <1>7, <2>1, <2>3, WorkLife
  <2> QED
    BY <2>2, <2>4 DEF LifeInv
<1>10. CASE CreateTemp(c)
  <2>1. /\ ~CompAt(c, "idle") /\ comp'[c].msg = comp[c].msg /\ comp'[c].pc = "writing"
        /\ comp[c].pc = "create" /\ comp'[c].made = comp[c].made /\ comp'[c].vers = comp[c].vers
        /\ OpenTruncate(c, Temp(t), comp[c].vers, comp[c].made) /\ UNCHANGED pathVars
    BY <1>2, <1>5, <1>10 DEF CreateTemp, CompGoto, CompAt, CompJob
  <2>2. \A q \in Procs : ~Writes(q, Temp(t))
    BY <1>2, <1>6, <1>7, <2>1, WriterFacts DEF CompAt
  <2>3. file'[Temp(t)] = [state |-> "partial", owner |-> c, vers |-> comp[c].vers]
    <3>1. UNION {open[q].vers : q \in {x \in Procs : Writes(x, Temp(t))}} = {}
      BY <2>2
    <3> QED
      BY <1>2, <2>1, <3>1, StoreFacts DEF OpenTruncate
  <2>4. open' = [open EXCEPT ![c] = [area |-> "temp", req |-> t, vers |-> comp[c].vers,
                                     final |-> comp[c].made]]
    BY <2>1 DEF OpenTruncate, Temp
  <2>5. \A q \in Paths : q # Temp(t) => file'[q] = file[q]
    BY <1>2, <2>1 DEF OpenTruncate
  <2>6. \A r \in Requests : Thumb(r) # Temp(t) /\ (r # t => Temp(r) # Temp(t))
    BY DEF Temp, Thumb
  <2>7. \A r \in Requests : file'[Thumb(r)] = file[Thumb(r)] /\ (r # t => file'[Temp(r)] = file[Temp(r)])
    BY <2>5, <2>6, StoreFacts
  <2>8. OpenSound'
    <3>1. open'[c].area = "temp" /\ open'[c].req = t /\ open'[c].final = comp[c].made
      BY <1>2, <2>4
    <3>2. \A p \in Procs : p # c => open'[p] = open[p]
      BY <1>2, <2>4
    <3> QED
      BY <1>4, <1>5, <2>1, <3>1, <3>2 DEF CompTarget
  <2>9. file'[Temp(t)].state = "partial" /\ file'[Temp(t)].vers = comp[c].vers
    BY <2>3
  <2>10. \A r \in Requests : Life(r)'
    BY <1>2, <1>3, <1>6, <1>7, <2>1, <2>7, <2>9, WorkLife
  <2> QED
    BY <2>8, <2>10 DEF LifeInv
<1>11. CASE CloseTemp(c)
  <2>1. /\ ~CompAt(c, "idle") /\ comp'[c].msg = comp[c].msg /\ comp'[c].pc = "check"
        /\ comp[c].pc = "writing" /\ CloseAs(c, open[c].final) /\ UNCHANGED pathVars
    BY <1>2, <1>11 DEF CloseTemp, FinishWrite, CompGoto, CompAt, CompJob
  <2>2. Handling(c, t) /\ comp[c].made = "small"
    BY <1>6, <1>7, <2>1
  <2>3. open[c].area = "temp" /\ open[c].req = t /\ open[c].final = "small" /\ WritePath(c) = Temp(t)
    BY <1>2, <1>5, <2>1, <2>2 DEF OpenSound, CompAt, WritePath, Temp
  <2>4. \A q \in Paths : q # Temp(t) => file'[q] = file[q]
    BY <1>2, <2>1, <2>3 DEF CloseAs
  <2>5. \A r \in Requests : Thumb(r) # Temp(t) /\ (r # t => Temp(r) # Temp(t))
    BY DEF Temp, Thumb
  <2>6. \A r \in Requests : file'[Thumb(r)] = file[Thumb(r)] /\ (r # t => file'[Temp(r)] = file[Temp(r)])
    BY <2>4, <2>5, StoreFacts
  <2>7. OpenSound'
    <3>1. \A p \in Procs : p # c => open'[p] = open[p]
      BY <1>2, <2>1 DEF CloseAs
    <3> QED
      BY <1>4, <2>1, <3>1
  <2>8. /\ file[Temp(t)].owner = c => file'[Temp(t)].state = "small"
                                      /\ file'[Temp(t)].vers = file[Temp(t)].vers
        /\ file[Temp(t)].owner # c => file'[Temp(t)] = file[Temp(t)]
    BY <1>2, <2>1, <2>3, StoreFacts DEF CloseAs, Areas
  <2>9. file[Temp(t)].state = "partial" => file[Temp(t)].owner = c
    BY <1>2, <1>7, <2>2, PartialFacts
  <2>10. file[Temp(t)].owner = c => IsFileExists(Temp(t))
    BY <1>2, StoreFacts, DeploymentAssumption DEF WriteInv, OwnerWrites, IsFileExists
  <2>11. IsFileExists(Temp(t))' => /\ file'[Temp(t)].vers = file[Thumb(t)].vers
                                   /\ file'[Temp(t)].state = "small"
    BY <1>7, <2>2, <2>8, <2>9, <2>10 DEF IsFileExists
  <2>12. \A r \in Requests : Life(r)'
    BY <1>2, <1>3, <1>7, <2>1, <2>2, <2>6, <2>11, WorkLife
  <2> QED
    BY <2>7, <2>12 DEF LifeInv
<1>12. CASE Move(c)
  <2>1. /\ ~CompAt(c, "idle") /\ comp'[c].msg = comp[c].msg /\ comp'[c].pc = "resend"
        /\ comp[c].pc = "move" /\ UNCHANGED pathVars
    BY <1>2, <1>12 DEF Move, CompGoto, CompAt, CompJob
  <2>2. Handling(c, t)
    BY <1>6, <2>1
  <2>3. CASE IsFileExists(Temp(t))
    <3>1. RenameTemp(t)
      BY <1>5, <1>12, <2>3 DEF Move
    <3>2. file[Temp(t)].state = "small" /\ file[Temp(t)].vers = file[Thumb(t)].vers
      BY <1>7, <2>1, <2>2, <2>3
    <3>3. ASSUME NEW q \in Procs PROVE open'[q] = open[q]
      <4>1. ~Writes(q, Thumb(t)) /\ ~Writes(q, Temp(t))
        BY <1>2, <1>7, <2>1, <2>2, WriterFacts DEF CompAt
      <4> QED
        BY <3>1, <4>1 DEF RenameTemp, Follow, Detach, Writes, Thumb, Temp
    <3>4. /\ \A r \in Requests : Temp(r) # Thumb(t) /\ Thumb(r) # Temp(t)
                                 /\ (r # t => Thumb(r) # Thumb(t) /\ Temp(r) # Temp(t))
          /\ file' = [file EXCEPT ![Thumb(t)] = file[Temp(t)], ![Temp(t)] = Absent]
      BY <3>1 DEF Temp, Thumb, RenameTemp
    <3>5. file'[Thumb(t)] = file[Temp(t)] /\ file'[Temp(t)] = Absent
      BY <1>2, <3>4, StoreFacts
    <3>6. \A r \in Requests : r # t => file'[Thumb(r)] = file[Thumb(r)] /\ file'[Temp(r)] = file[Temp(r)]
      BY <1>2, <3>4, StoreFacts
    <3>7. ~IsFileExists(Temp(t))'
      BY <3>5 DEF IsFileExists, Absent
    <3>8. \A r \in Requests : Life(r)'
      BY <1>2, <1>3, <2>1, <2>2, <3>2, <3>5, <3>6, <3>7, WorkLife
    <3>9. OpenSound'
      BY <1>4, <2>1, <3>3
    <3> QED
      BY <3>8, <3>9 DEF LifeInv
  <2>4. CASE ~IsFileExists(Temp(t))
    <3>1. UNCHANGED <<file, open>> /\ ~IsFileExists(Temp(t))'
      BY <1>5, <1>12, <2>4 DEF Move, IsFileExists
    <3>2. \A r \in Requests : Life(r)'
      BY <1>2, <1>3, <1>7, <2>1, <2>2, <3>1, WorkLife
    <3>3. OpenSound'
      BY <1>4, <2>1, <3>1
    <3> QED
      BY <3>2, <3>3 DEF LifeInv
  <2> QED
    BY <2>3, <2>4
<1>13. ASSUME Handling(c, t), comp'[c].pc = "idle",
              \A r \in Requests :
                /\ file'[Thumb(r)] = file[Thumb(r)]
                /\ r # t => /\ file'[Temp(r)] = file[Temp(r)]
                            /\ \A p \in Procs : linger'[p][Message(2, r)] > 0
                                                 => linger[p][Message(2, r)] > 0
                            /\ inbox'[Message(2, r)] > 0 => inbox[Message(2, r)] > 0
                /\ SentOnce(r)',
              \A p \in Procs : p # c => open'[p] = open[p],
              Life(t)'
       PROVE  LifeInv'
  <2>1. OpenSound'
    BY <1>4, <1>13
  <2>2. ASSUME NEW r \in Requests, r # t PROVE Life(r)'
    <3>1. ~Handling(c, r) /\ ~Handling(c, r)'
      BY <1>13, <2>2, MessageFacts DEF Handling, CompAt
    <3> QED
      BY <1>2, <1>3, <1>13, <2>2, <3>1, OthersKept
  <2> QED
    BY <1>13, <2>1, <2>2 DEF LifeInv
<1>14. ASSUME Handling(c, t), comp'[c].pc = "idle",
              \A p \in Procs : linger'[p][Message(2, t)] > 0 => linger[p][Message(2, t)] > 0,
              inbox'[Message(2, t)] > 0 => inbox[Message(2, t)] > 0,
              SentOnce(t)', file'[Thumb(t)] = file[Thumb(t)]
       PROVE  Life(t)'
  <2>1. Token(t, "handling", c) /\ c \in Holders /\ "handling" \in Stages
    BY <1>14 DEF Token, Holders, Procs, Stages
  <2>2. /\ IsFileExists(Thumb(t)) /\ \A w \in Workers : ~Making(w, t) /\ ~Saving(w, t)
        /\ \A p \in Procs : ~(linger[p][Message(2, t)] > 0)
        /\ ~(inbox[Message(2, t)] > 0) /\ tracked[t] = Untracked
        /\ \A d \in Compressors : Handling(d, t) => d = c
    BY <1>2, <2>1, TokenFacts
  <2>3. \A d \in Compressors : ~Handling(d, t)'
    BY <1>3, <1>14, <2>2 DEF Handling, CompAt
  <2>4. \A k \in Stages, p \in Holders : ~Token(t, k, p)'
    BY <1>14, <2>2, <2>3 DEF Token, Saving, serverVars
  <2>5. \A w \in Workers : ~Making(w, t)'
    BY <2>2 DEF Making, serverVars
  <2> QED
    BY <1>2, <1>14, <2>2, <2>4, <2>5, LifeLost
<1>15. CASE Resend(c)
  <2>1. /\ ~CompAt(c, "idle") /\ comp'[c].pc = "idle" /\ UNCHANGED <<file, open>>
        /\ comp[c].pc = "resend"
    BY <1>2, <1>15 DEF Resend, CompAt, IdleComp, storeVars
  <2>2. Handling(c, t)
    BY <1>6, <2>1
  <2>3. CASE UNCHANGED pathVars
    <3>1. \A r \in Requests : SentOnce(r)'
      BY <1>2, <2>3 DEF Life, SentOnce, pathVars
    <3> QED
      BY <1>13, <1>14, <2>1, <2>2, <2>3, <3>1 DEF pathVars
  <2>4. CASE SendMessage(c, comp[c].msg)
    <3>1. comp[c].msg = Message(2, t)
      BY <2>2 DEF Handling
    <3>2. Token(t, "handling", c) /\ c \in Holders /\ "handling" \in Stages /\ "socket" \in Stages
      BY <2>2 DEF Token, Holders, Procs, Stages
    <3>3. /\ HasToken(t) /\ \A w \in Workers : ~Making(w, t) /\ ~Saving(w, t)
          /\ \A p \in Procs : ~(linger[p][Message(2, t)] > 0)
          /\ ~(inbox[Message(2, t)] > 0) /\ tracked[t] = Untracked
          /\ \A d \in Compressors : Handling(d, t) => d = c
      BY <1>2, <3>2, TokenFacts DEF Stages
    <3>4. ~IsFileExists(Temp(t))
      BY <1>7, <2>1, <2>2
    <3>5. /\ linger' = [linger EXCEPT ![c] = [linger[c] EXCEPT ![Message(2, t)] = linger[c][Message(2, t)] + 1]]
          /\ inbox' = inbox /\ Message(2, t) \in Messages
          /\ linger \in [Procs -> [Messages -> Nat]] /\ inbox \in [Messages -> Nat]
      BY <2>4, <3>1, MessageFacts DEF SendMessage, TypeOK, PathTypeOK
    <3>6. linger[c][Message(2, t)] = 0
      BY <1>2, <3>3, <3>5
    <3>7. /\ linger'[c] = [linger[c] EXCEPT ![Message(2, t)] = 1]
          /\ \A q \in Procs : q # c => linger'[q] = linger[q]
      BY <1>2, <3>5, <3>6
    <3>8. linger'[c][Message(2, t)] = 1
      BY <1>2, <3>5, <3>7
    <3>9. ASSUME NEW r \in Requests, r # t
          PROVE  \A p \in Procs : linger'[p][Message(2, r)] = linger[p][Message(2, r)]
      <4>1. Message(2, r) # Message(2, t) /\ Message(2, r) \in Messages
        BY <3>9, MessageFacts
      <4> QED
        BY <1>2, <3>5, <3>7, <4>1
    <3>10. ASSUME NEW r \in Requests PROVE SentOnce(r)'
      <4>1. \A p \in Procs : linger[p][Message(2, r)] <= 1
        BY <1>2 DEF Life, SentOnce
      <4>2. inbox'[Message(2, r)] <= 1
        BY <1>2, <3>5 DEF Life, SentOnce
      <4>3. \A p \in Procs : linger'[p][Message(2, r)] <= 1
        <5>1. CASE r = t
          <6>1. 1 <= 1
            OBVIOUS
          <6>2. linger'[c][Message(2, r)] <= 1
            BY <3>8, <5>1, <6>1
          <6>3. \A p \in Procs : p # c => linger'[p] = linger[p]
            BY <3>7
          <6> QED
            BY <4>1, <6>2, <6>3
        <5>2. CASE r # t
          BY <3>9, <4>1, <5>2
        <5> QED
          BY <5>1, <5>2
      <4> QED
        BY <4>2, <4>3 DEF SentOnce
    <3>11. Life(t)'
      <4>1. \A d \in Compressors : ~Handling(d, t)'
        BY <1>3, <2>1, <3>3 DEF Handling, CompAt
      <4>2. \A q \in Procs : q # c => ~(linger'[q][Message(2, t)] > 0)
        BY <3>3, <3>7
      <4>3. \A l \in Stages, q \in Holders : Token(t, l, q)' => l = "socket" /\ q = c
        BY <3>3, <3>5, <4>1, <4>2 DEF Token, Saving, serverVars
      <4>4. \A w \in Workers : ~Making(w, t)'
        BY <3>3 DEF Making, serverVars
      <4> QED
        BY <1>2, <2>1, <3>2, <3>3, <3>4, <3>10, <4>1, <4>3, <4>4, LifeHandedOn
    <3> QED
      BY <1>13, <2>1, <2>2, <3>5, <3>9, <3>10, <3>11
  <2> QED
    BY <1>15, <2>3, <2>4 DEF Resend
<1>16. CASE CompressorCrash(c)
  <2>1. /\ ~CompAt(c, "idle") /\ comp'[c].pc = "idle" /\ CloseAs(c, "torn")
        /\ LoseLingering(c) /\ LoseSomeQueued
    BY <1>2, <1>16 DEF CompressorCrash, AbandonWrite, IdleComp
  <2>2. Handling(c, t)
    BY <1>6, <2>1
  <2>3. \A q \in Paths : q # Temp(t) => file'[q] = file[q]
    <3>1. CASE CompAt(c, "writing")
      <4>1. WritePath(c) = Temp(t)
        BY <1>2, <1>5, <3>1 DEF OpenSound, WritePath, Temp
      <4> QED
        BY <1>2, <2>1, <4>1 DEF CloseAs
    <3>2. CASE ~CompAt(c, "writing")
      <4>1. open[c] = Closed
        BY <3>2 DEF WriteInv, WritersOpen
      <4>2. open[c].area \notin Areas
        BY <4>1 DEF Closed, Areas
      <4> QED
        BY <2>1, <4>2 DEF CloseAs
    <3> QED
      BY <3>1, <3>2
  <2>4. \A r \in Requests : Thumb(r) # Temp(t) /\ (r # t => Temp(r) # Temp(t))
    BY DEF Temp, Thumb
  <2>5. \A r \in Requests : file'[Thumb(r)] = file[Thumb(r)] /\ (r # t => file'[Temp(r)] = file[Temp(r)])
    BY <2>3, <2>4, StoreFacts
  <2>6. \A p \in Procs : p # c => open'[p] = open[p]
    BY <1>2, <2>1 DEF CloseAs
  <2>7. \A p \in Procs, m \in Messages : linger'[p][m] = 0 \/ linger'[p][m] = linger[p][m]
    BY <2>1 DEF LoseLingering, NoMessages, TypeOK, PathTypeOK
  <2>8. ASSUME NEW r \in Requests
        PROVE  /\ \A p \in Procs : linger'[p][Message(2, r)] > 0 => linger[p][Message(2, r)] > 0
               /\ inbox'[Message(2, r)] > 0 => inbox[Message(2, r)] > 0
               /\ SentOnce(r)'
    <3>1. Message(2, r) \in Messages /\ SentOnce(r)
      BY <1>2, MessageFacts DEF Life
    <3>2. /\ inbox'[Message(2, r)] > 0 => inbox[Message(2, r)] > 0
          /\ inbox[Message(2, r)] <= 1 => inbox'[Message(2, r)] <= 1
      BY <2>1, <3>1, LoseFacts
    <3>3. \A p \in Procs : /\ linger'[p][Message(2, r)] > 0 => linger[p][Message(2, r)] > 0
                           /\ linger[p][Message(2, r)] <= 1 => linger'[p][Message(2, r)] <= 1
      BY <2>7, <3>1
    <3> QED
      BY <3>1, <3>2, <3>3 DEF SentOnce
  <2> QED
    BY <1>13, <1>14, <2>1, <2>2, <2>5, <2>6, <2>8
<1>17. ~WriteCutShort(c)
  BY DEF SingleWorker, WriteCutShort
<1>18. ASSUME NEW m \in Messages, Receive(c, m) PROVE LifeInv'
  BY <1>18, ReceiveLife
<1> QED
  BY <1>1, <1>8, <1>9, <1>10, <1>11, <1>12, <1>15, <1>16, <1>17, <1>18 DEF CompressorStep

-----------------------------------------------------------------------------
\* The monitor takes the token over from the compressor's socket, and when
\* it deletes a thumbnail nobody else has anything to do with it; the broker
\* takes the token over from the worker's socket, or loses it.
LEMMA OtherLife ==
  ASSUME TypeOK, WriteInv, ReportsOnly, SingleWorker, LifeInv, UNCHANGED <<serverVars, comp>>,
         MonitorNext \/ ((SourceChange \/ PathChange) /\ UNCHANGED tracked)
  PROVE  LifeInv'
<1>1. /\ linger \in [Procs -> [Messages -> Nat]] /\ inbox \in [Messages -> Nat]
      /\ tracked \in [Requests -> Versions \cup {Untracked}]
      /\ file \in [Paths -> Content] /\ open \in [Procs -> Descriptor]
      /\ (\A r \in Requests : Life(r)) /\ OpenSound /\ UNCHANGED job /\ UNCHANGED comp
  BY DEF TypeOK, PathTypeOK, MonitorTypeOK, StoreTypeOK, LifeInv, serverVars
<1>2. ASSUME \A p \in Procs : open'[p] = open[p] PROVE OpenSound'
  BY <1>1, <1>2 DEF OpenSound, At, CompAt, CompTarget, Procs
<1>3. /\ \A w \in Workers, r \in Requests : (Saving(w, r)' <=> Saving(w, r)) /\ (Making(w, r)' <=> Making(w, r))
      /\ \A c \in Compressors, r \in Requests : Handling(c, r)' <=> Handling(c, r)
  BY <1>1 DEF Saving, Making, Handling, CompAt
<1>4. ASSUME NEW r \in Requests,
             file'[Thumb(r)] = file[Thumb(r)], file'[Temp(r)] = file[Temp(r)],
             \A p \in Procs : /\ linger'[p][Message(2, r)] > 0 => linger[p][Message(2, r)] > 0
                              /\ linger'[p][Message(2, r)] <= 1,
             inbox'[Message(2, r)] > 0 => inbox[Message(2, r)] > 0,
             inbox'[Message(2, r)] <= 1,
             tracked'[r] # Untracked => tracked[r] # Untracked
      PROVE  Life(r)'
  <2>1. \A k \in Stages, p \in Holders : Token(r, k, p)' => Token(r, k, p)
    BY <1>3, <1>4 DEF Token
  <2>2. SentOnce(r)'
    BY <1>4 DEF SentOnce
  <2> QED
    BY <1>1, <1>3, <1>4, <2>1, <2>2, LifeKept
<1>5. ASSUME NEW p \in Procs, NEW m \in Messages, linger[p][m] > 0, UNCHANGED <<file, open>>,
             linger' = [linger EXCEPT ![p] = [linger[p] EXCEPT ![m] = linger[p][m] - 1]],
             \A r \in Requests :
               m # Message(2, r) => /\ inbox'[Message(2, r)] = inbox[Message(2, r)]
                                    /\ tracked'[r] = tracked[r],
             NEW k \in Stages, NoProc \in Holders,
             ASSUME NEW t \in Requests, m = Message(2, t), ~(inbox[Message(2, t)] > 0),
                    tracked[t] = Untracked
             PROVE  /\ inbox'[Message(2, t)] <= 1
                    /\ inbox'[Message(2, t)] > 0 => k = "queued"
                    /\ tracked'[t] # Untracked => k = "noted"
      PROVE  LifeInv'
  <2>1. \A q \in Procs, n \in Messages : n # m => linger'[q][n] = linger[q][n]
    BY <1>5, LeaveFacts
  <2>2. OpenSound'
    BY <1>2, <1>5
  <2>3. ASSUME NEW r \in Requests, m # Message(2, r) PROVE Life(r)'
    <3>1. \A q \in Procs : linger'[q][Message(2, r)] = linger[q][Message(2, r)]
      BY <2>1, <2>3, MessageFacts
    <3>2. SentOnce(r) /\ inbox'[Message(2, r)] = inbox[Message(2, r)] /\ tracked'[r] = tracked[r]
      BY <1>1, <1>5, <2>3 DEF Life
    <3> QED
      BY <1>4, <1>5, <3>1, <3>2 DEF SentOnce
  <2>4. ASSUME NEW t \in Requests, m = Message(2, t) PROVE Life(t)'
    <3>1. Token(t, "socket", p) /\ p \in Holders /\ "socket" \in Stages
      BY <1>5, <2>4 DEF Token, Holders, Stages
    <3>2. /\ HasToken(t) /\ ~IsFileExists(Temp(t))
          /\ \A w \in Workers : ~Making(w, t) /\ ~Saving(w, t)
          /\ \A q \in Procs : linger[q][Message(2, t)] > 0 => p = q
          /\ ~(inbox[Message(2, t)] > 0)
          /\ \A c \in Compressors : ~Handling(c, t)
          /\ tracked[t] = Untracked
      BY <1>1, <3>1, TokenFacts
    <3>3. SentOnce(t) /\ linger[p][m] \in Nat
      BY <1>1 DEF Life
    <3>4. linger[p][m] <= 1
      BY <2>4, <3>3 DEF SentOnce
    <3>5. linger[p][m] = 1
      BY <1>5, <3>3, <3>4
    <3>6. linger'[p] = [linger[p] EXCEPT ![m] = linger[p][m] - 1] /\ \A q \in Procs : q # p => linger'[q] = linger[q]
      BY <1>1, <1>5
    <3>7. linger'[p][m] = 0
      BY <1>1, <3>5, <3>6
    <3>8. /\ inbox'[Message(2, t)] <= 1
          /\ inbox'[Message(2, t)] > 0 => k = "queued"
          /\ tracked'[t] # Untracked => k = "noted"
      BY <1>5, <2>4, <3>2
    <3>9. SentOnce(t)'
      <4>1. 0 <= 1
        OBVIOUS
      <4>2. linger'[p][Message(2, t)] <= 1
        BY <2>4, <3>7, <4>1
      <4>3. \A q \in Procs : q # p => linger'[q][Message(2, t)] <= 1
        <5>1. \A q \in Procs : q # p => linger'[q] = linger[q]
          BY <3>6
        <5> QED
          BY <3>3, <5>1 DEF SentOnce
      <4> QED
        BY <3>8, <4>2, <4>3 DEF SentOnce
    <3>10. ASSUME NEW q \in Procs PROVE ~(linger'[q][Message(2, t)] > 0)
      <4>1. CASE q = p
        <5>1. ~(0 > 0)
          OBVIOUS
        <5> QED
          BY <2>4, <3>7, <4>1, <5>1
      <4>2. CASE q # p
        <5>1. linger'[q] = linger[q]
          BY <3>6, <4>2
        <5> QED
          BY <3>2, <4>2, <5>1
      <4> QED
        BY <4>1, <4>2
    <3>11. \A l \in Stages, q \in Holders : Token(t, l, q)' => l = k /\ q = NoProc
      BY <1>3, <3>2, <3>8, <3>10 DEF Token
    <3>12. \A w \in Workers : ~Making(w, t)'
      BY <1>3, <3>2
    <3>13. \A c \in Compressors : ~Handling(c, t)'
      BY <1>3, <3>2
    <3> QED
      BY <1>1, <1>5, <3>2, <3>9, <3>11, <3>12, <3>13, LifeHandedOn
  <2> QED
    BY <2>2, <2>3, <2>4 DEF LifeInv
<1>6. NoProc \in Holders
  BY DEF Holders
<1>7. ASSUME NEW c \in Compressors, NEW m \in Messages, Track(c, m) PROVE LifeInv'
  <2>1. /\ linger[c][m] > 0 /\ c \in Procs /\ inbox' = inbox /\ UNCHANGED <<file, open>>
        /\ linger' = [linger EXCEPT ![c] = [linger[c] EXCEPT ![m] = linger[c][m] - 1]]
        /\ tracked' = [tracked EXCEPT ![m.req] = source[m.req.image].ver]
    BY <1>7 DEF Track, Procs, storeVars
  <2>2. m.type = 2
    <3>1. m.type \in {1, 2, 3} /\ m.req \in Requests /\ m = Message(m.type, m.req)
      BY MessageFacts
    <3>2. m.type # 3 /\ m.type # 1
      BY <2>1, <3>1 DEF ReportsOnly
    <3> QED
      BY <3>1, <3>2
  <2>3. \A r \in Requests : m # Message(2, r) => m.req # r
    BY <2>2, MessageFacts
  <2>4. \A r \in Requests : r # m.req => tracked'[r] = tracked[r]
    BY <1>1, <2>1
  <2>5. \A r \in Requests : inbox'[Message(2, r)] <= 1
    BY <1>1, <2>1 DEF Life, SentOnce
  <2>6. "noted" \in Stages
    BY DEF Stages
  <2> QED
    BY <1>5, <1>6, <2>1, <2>3, <2>4, <2>5, <2>6
<1>8. ASSUME NEW w \in Workers, NEW m \in Messages, Deliver(w, m), UNCHANGED <<file, open, tracked>>
      PROVE  LifeInv'
  <2>1. /\ linger[w][m] > 0 /\ w \in Procs /\ inbox' = [inbox EXCEPT ![m] = inbox[m] + 1]
        /\ linger' = [linger EXCEPT ![w] = [linger[w] EXCEPT ![m] = linger[w][m] - 1]]
    BY <1>8 DEF Deliver, Procs
  <2>2. \A n \in Messages : n # m => inbox'[n] = inbox[n]
    BY <1>1, <2>1
  <2>3. \A r \in Requests : m # Message(2, r) => inbox'[Message(2, r)] = inbox[Message(2, r)]
    BY <2>2, MessageFacts
  <2>4. inbox[m] \in Nat /\ inbox'[m] = inbox[m] + 1
    BY <1>1, <2>1
  <2>5. ~(inbox[m] > 0) => inbox'[m] <= 1
    BY <2>4
  <2>6. "queued" \in Stages
    BY DEF Stages
  <2> QED
    BY <1>5, <1>6, <1>8, <2>1, <2>3, <2>5, <2>6
<1>9. ASSUME UNCHANGED <<file, open, linger, tracked>>, inbox' = inbox \/ LoseSomeQueued
      PROVE  LifeInv'
  <2>1. ASSUME NEW r \in Requests PROVE Life(r)'
    <3>1. Message(2, r) \in Messages /\ SentOnce(r)
      BY <1>1, MessageFacts DEF Life
    <3>2. /\ inbox'[Message(2, r)] > 0 => inbox[Message(2, r)] > 0
          /\ inbox[Message(2, r)] <= 1 => inbox'[Message(2, r)] <= 1
      BY <1>9, <3>1, LoseFacts
    <3> QED
      BY <1>4, <1>9, <3>1, <3>2 DEF SentOnce
  <2> QED
    BY <1>2, <1>9, <2>1 DEF LifeInv
<1>10. ASSUME NEW s \in Requests, Poll(s) PROVE LifeInv'
  <2>1. /\ tracked[s] # Untracked /\ tracked' = [tracked EXCEPT ![s] = Untracked]
        /\ Unlink(s) /\ linger' = linger /\ inbox' = inbox
    BY <1>10 DEF Poll, pathVars
  <2>2. Token(s, "noted", NoProc) /\ "noted" \in Stages
    BY <2>1 DEF Token, Stages
  <2>3. /\ ~IsFileExists(Temp(s)) /\ \A w \in Workers : ~Saving(w, s)
        /\ \A p \in Procs : ~(linger[p][Message(2, s)] > 0)
        /\ ~(inbox[Message(2, s)] > 0)
        /\ \A c \in Compressors : ~Handling(c, s)
    BY <1>1, <1>6, <2>2, TokenFacts
  <2>4. ASSUME NEW p \in Procs PROVE open'[p] = open[p]
    <3>1. ~Writes(p, Thumb(s))
      BY <1>1, <2>3, WriterFacts
    <3> QED
      BY <2>1, <3>1 DEF Unlink, Detach, Writes, Thumb
  <2>5. OpenSound'
    BY <1>2, <2>4
  <2>6. \A r \in Requests : Temp(r) # Thumb(s) /\ (r # s => Thumb(r) # Thumb(s))
    BY DEF Temp, Thumb
  <2>7. file'[Thumb(s)] = Absent /\ \A q \in Paths : q # Thumb(s) => file'[q] = file[q]
    BY <1>1, <2>1, StoreFacts DEF Unlink
  <2>8. tracked'[s] = Untracked /\ \A r \in Requests : r # s => tracked'[r] = tracked[r]
    BY <1>1, <2>1
  <2>9. ASSUME NEW r \in Requests, r # s PROVE Life(r)'
    <3>1. file'[Thumb(r)] = file[Thumb(r)] /\ file'[Temp(r)] = file[Temp(r)]
      BY <2>6, <2>7, <2>9, StoreFacts
    <3>2. SentOnce(r)
      BY <1>1 DEF Life
    <3> QED
      BY <1>4, <2>1, <2>8, <2>9, <3>1, <3>2 DEF SentOnce
  <2>10. Life(s)'
    <3>1. \A k \in Stages, p \in Holders : ~Token(s, k, p)'
      BY <1>3, <2>1, <2>3, <2>8 DEF Token
    <3>2. OneToken(s)' /\ ~HasToken(s)' /\ SentOnce(s)'
      BY <1>1, <2>1, <3>1 DEF OneToken, HasToken, Life, SentOnce
    <3>3. ~IsFileExists(Thumb(s))' /\ ~IsFileExists(Temp(s))'
      BY <2>3, <2>6, <2>7, StoreFacts DEF IsFileExists, Absent
    <3>4. ThumbSound(s)'
      BY <2>7, <3>2, <3>3 DEF ThumbSound
    <3>5. TempSound(s)'
      BY <1>3, <2>3, <3>2 DEF TempSound
    <3> QED
      BY <3>2, <3>4, <3>5 DEF Life
  <2> QED
    BY <2>5, <2>9, <2>10 DEF LifeInv
<1>11. CASE MonitorNext
  BY <1>7, <1>10, <1>11 DEF MonitorNext
<1>12. CASE SourceChange /\ UNCHANGED tracked
  BY <1>9, <1>12 DEF SourceChange, ReplaceSource, DeleteSource, pathVars
<1>13. CASE PathChange /\ UNCHANGED tracked
  <2>1. "publish" \notin Events
    BY DEF SingleWorker
  <2> QED
    BY <1>8, <1>9, <1>13, <2>1 DEF PathChange, BrokerCrash, BrokerRestart, storeVars
<1> QED
  BY <1>11, <1>12, <1>13

\* The invariant holds in every reachable state.
THEOREM LifeInvariance ==
  ASSUME SingleWorker
  PROVE  Spec => []LifeInv
<1>1. Init => LifeInv
  <2> SUFFICES ASSUME Init PROVE LifeInv
    OBVIOUS
  <2>1. OpenSound
    BY DEF Init, ServerInit, CompInit, OpenSound, At, CompAt, IdleJob, IdleComp
  <2>2. ASSUME NEW r \in Requests PROVE Life(r)
    <3>1. file[Thumb(r)] = Absent /\ file[Temp(r)] = Absent
      BY StoreFacts DEF Init, StoreInit
    <3>2. /\ inbox[Message(2, r)] = 0 /\ \A p \in Procs : linger[p][Message(2, r)] = 0
      BY MessageFacts DEF Init, PathInit, NoMessages
    <3>3. \A w \in Workers : ~Saving(w, r) /\ ~Making(w, r)
      BY DEF Init, ServerInit, IdleJob, Saving, Making
    <3>4. \A c \in Compressors : ~Handling(c, r)
      BY DEF Init, CompInit, IdleComp, Handling, CompAt
    <3>5. tracked[r] = Untracked
      BY DEF Init, MonitorInit
    <3>6. \A k \in Stages, p \in Holders : ~Token(r, k, p)
      BY <3>2, <3>3, <3>4, <3>5 DEF Token
    <3>7. SentOnce(r)
      BY <3>2 DEF SentOnce
    <3> QED
      BY <3>1, <3>3, <3>4, <3>6, <3>7
      DEF Life, OneToken, ThumbSound, TempSound, HasToken, IsFileExists, Absent
  <2> QED
    BY <2>1, <2>2 DEF LifeInv
<1>2. TypeOK /\ WriteInv /\ ReportsOnly /\ LifeInv /\ [Next]_vars => LifeInv'
  <2> SUFFICES ASSUME TypeOK, WriteInv, ReportsOnly, LifeInv, [Next]_vars PROVE LifeInv'
    OBVIOUS
  <2>1. CASE Next
    BY <2>1, ServerLife, CompressorLife, OtherLife DEF Next
  <2>2. CASE UNCHANGED vars
    <3>1. OpenSound'
      BY <2>2 DEF vars, storeVars, serverVars, LifeInv, OpenSound, At, CompAt, CompTarget
    <3>2. ASSUME NEW r \in Requests PROVE Life(r)'
      <4>1. \A k \in Stages, p \in Holders : Token(r, k, p)' => Token(r, k, p)
        BY <2>2 DEF vars, serverVars, pathVars, Token, Saving, Handling, CompAt
      <4>2. SentOnce(r)' /\ Life(r)
        BY <2>2 DEF vars, pathVars, LifeInv, Life, SentOnce
      <4>3. \A w \in Workers : Making(w, r)' => Making(w, r)
        BY <2>2 DEF vars, serverVars, Making
      <4> QED
        BY <2>2, <4>1, <4>2, <4>3, LifeKept DEF vars, storeVars
    <3> QED
      BY <3>1, <3>2 DEF LifeInv
  <2> QED
    BY <2>1, <2>2
<1>3. "publish" \notin Events
  BY DEF SingleWorker
<1> QED
  BY <1>1, <1>2, <1>3, TypeCorrect, WriteInvariance, ReportsInvariance, PTL DEF Spec

-----------------------------------------------------------------------------
\* What a worker answers: a body comes from Serve only.
LEMMA Answers ==
  ASSUME TypeOK, ServerNext, NEW v \in Workers
  PROVE  \/ resp'[v] = resp[v] \/ resp'[v].status # 200
         \/ /\ At(v, "serve") /\ IsFileExists(Thumb(job[v].req))
            /\ resp'[v] = Body(job[v].req)
<1>1. PICK w \in Workers : \/ WorkerStep(w) \/ WorkerCrash(w) \/ RejectPath(w)
                           \/ \E r \in Requests : ExtractThumbInfo(w, r)
  BY DEF ServerNext
<1>2. resp \in [Workers -> Response] /\ NoResponse.status = 0
      /\ \A code \in {404, 500} : Failure(code).status = code
  BY DEF TypeOK, ServerTypeOK, NoResponse, Failure
<1>3. ASSUME NEW a, Answer(w, a), a.status # 200 PROVE resp'[v] = resp[v] \/ resp'[v].status # 200
  BY <1>2, <1>3 DEF Answer
<1>4. CASE Serve(w)
  <2>1. CASE IsFileExists(Thumb(job[w].req))
    BY <1>2, <1>4, <2>1 DEF Serve, Answer
  <2>2. CASE ~IsFileExists(Thumb(job[w].req))
    BY <1>2, <1>3, <1>4, <2>2 DEF Serve
  <2> QED
    BY <2>1, <2>2
<1>5. CASE RejectPath(w) \/ NotifyFails(w) \/ ProcessImageRaises(w) \/ SaveRaises(w)
           \/ PublishFails(w) \/ WorkerCrash(w)
  BY <1>2, <1>3, <1>5
  DEF RejectPath, NotifyFails, ProcessImageRaises, SaveRaises, PublishFails, WorkerCrash
<1>6. CASE \E r \in Requests : ExtractThumbInfo(w, r)
  BY <1>2, <1>6 DEF ExtractThumbInfo
<1>7. CASE UNCHANGED resp
  BY <1>7
<1> QED
  BY <1>1, <1>4, <1>5, <1>6, <1>7
  DEF WorkerStep, Notify, CheckSource, LoadImage, NotPermited, Resize, BeginSave, EndSave,
      Publish, Goto

\* With one worker that does not fail, whatever is served is one complete
\* image of one version of the original, for any number of compressors that
\* fail at any time, a broker that loses messages, and any changes of the
\* originals.
THEOREM OneWorkerServesComplete ==
  ASSUME SingleWorker
  PROVE  Spec => []ServedComplete
<1>1. Init => ServedComplete
  BY DEF Init, ServerInit, NoResponse, ServedComplete
<1>2. TypeOK /\ WriteInv /\ ReportsOnly /\ LifeInv /\ ServedComplete /\ [Next]_vars
        => ServedComplete'
  <2> SUFFICES ASSUME TypeOK, WriteInv, ReportsOnly, LifeInv, ServedComplete, [Next]_vars
               PROVE  ServedComplete'
    OBVIOUS
  <2>1. CASE UNCHANGED resp
    BY <2>1 DEF ServedComplete
  <2>2. CASE ServerNext
    <3> SUFFICES ASSUME NEW v \in Workers, resp'[v].status = 200
                 PROVE  resp'[v].state \in Complete /\ Cardinality(resp'[v].vers) = 1
      BY DEF ServedComplete
    <3>1. CASE resp'[v] = resp[v]
      BY <3>1 DEF ServedComplete
    <3>2. CASE /\ At(v, "serve") /\ IsFileExists(Thumb(job[v].req))
               /\ resp'[v] = Body(job[v].req)
      <4>1. PICK r \in Requests : r = job[v].req
        BY ServerFacts
      <4>2. Life(r) /\ OpenSound
        BY <4>1 DEF LifeInv
      <4>3. file[Thumb(r)].state # "partial"
        BY <3>2, <4>2, PartialFacts DEF SingleWorker, At
      <4>4. /\ file[Thumb(r)].state \in {"whole", "small"}
            /\ \E x \in Versions : file[Thumb(r)].vers = {x}
        BY <3>2, <4>1, <4>2, <4>3 DEF Life, ThumbSound, IsFileExists, Absent
      <4>5. resp'[v].state = file[Thumb(r)].state /\ resp'[v].vers = file[Thumb(r)].vers
        BY <3>2, <4>1 DEF Body
      <4> QED
        BY <4>4, <4>5, FS_Singleton DEF Complete
    <3> QED
      BY <2>2, <3>1, <3>2, Answers
  <2> QED
    BY <2>1, <2>2 DEF Next, serverVars, vars
<1>3. "publish" \notin Events
  BY DEF SingleWorker
<1> QED
  BY <1>1, <1>2, <1>3, TypeCorrect, WriteInvariance, ReportsInvariance, LifeInvariance, PTL DEF Spec

-----------------------------------------------------------------------------
\* What a step may do to the thumbnail of r: keep its version, delete it, or
\* let a worker begin it where there is none.
ThumbMoves(r) ==
  \/ /\ file'[Thumb(r)].vers = file[Thumb(r)].vers
     /\ IsFileExists(Thumb(r))' => IsFileExists(Thumb(r))
  \/ file'[Thumb(r)].state = "absent"
  \/ file[Thumb(r)] = Absent /\ file'[Thumb(r)].owner \in Workers

\* Closing a file keeps the versions in it and makes none appear.
LEMMA CloseAsMoves ==
  ASSUME TypeOK, WriteInv, NEW p \in Procs, NEW st, CloseAs(p, st), NEW r \in Requests
  PROVE  ThumbMoves(r)
<1>1. StoreTypeOK /\ OwnerWrites /\ Thumb(r) \in Paths
  BY StoreFacts DEF TypeOK, WriteInv
<1>2. IsFileExists(Thumb(r))' => IsFileExists(Thumb(r))
  BY <1>1, CloseAsKeepsAbsent
<1>3. file'[Thumb(r)].vers = file[Thumb(r)].vers
  BY <1>1 DEF CloseAs, StoreTypeOK
<1> QED
  BY <1>2, <1>3 DEF ThumbMoves

\* Every step of the pipeline moves a thumbnail in one of these ways.
LEMMA NextMoves ==
  ASSUME TypeOK, WriteInv, ReportsOnly, SingleWorker, LifeInv, Next, NEW r \in Requests
  PROVE  ThumbMoves(r)
<1>1. /\ file \in [Paths -> Content] /\ Thumb(r) \in Paths
      /\ (\A s \in Requests : Life(s)) /\ OpenSound
      /\ \A w \in Workers : w \in Procs /\ job[w].req \in Requests
      /\ \A c \in Compressors : c \in Procs /\ comp[c] \in CompJob /\ CompTarget(c) \in Requests
  BY StoreFacts, ServerFacts
  DEF TypeOK, StoreTypeOK, LifeInv, Procs, CompTypeOK, CompTarget, CompJob, Messages
<1>2. ASSUME file'[Thumb(r)] = file[Thumb(r)] PROVE ThumbMoves(r)
  BY <1>2 DEF ThumbMoves, IsFileExists
<1>3. ASSUME NEW w \in Workers, BeginSave(w) PROVE ThumbMoves(r)
  <2>1. CASE r = job[w].req
    <3>1. Making(w, r)
      BY <1>3, <2>1 DEF Making, BeginSave, At
    <3>2. file[Thumb(r)] = Absent
      BY <1>1, <3>1 DEF Life, ThumbSound, IsFileExists
    <3>3. file'[Thumb(r)].owner = w
      BY <1>1, <1>3, <2>1 DEF BeginSave, OpenTruncate
    <3> QED
      BY <3>2, <3>3 DEF ThumbMoves
  <2>2. CASE r # job[w].req
    BY <1>1, <1>2, <1>3, <2>2 DEF BeginSave, OpenTruncate, Thumb
  <2> QED
    BY <2>1, <2>2
<1>4. ASSUME NEW c \in Compressors, Move(c) PROVE ThumbMoves(r)
  <2>1. CASE r = CompTarget(c) /\ IsFileExists(Temp(r))
    <3>1. comp[c].msg.type = 2 /\ comp[c].msg \in Messages /\ comp[c].pc = "move"
      BY <1>1, <1>4 DEF ReportsOnly, Move, CompAt, CompJob
    <3>2. Handling(c, r)
      BY <2>1, <3>1, MessageFacts DEF Handling, CompTarget, CompAt
    <3>3. Token(r, "handling", c) /\ c \in Holders /\ "handling" \in Stages
      BY <3>2 DEF Token, Holders, Procs, Stages
    <3>4. HasToken(r) /\ IsFileExists(Thumb(r)) /\ Life(r)
      BY <1>1, <3>3, TokenFacts
    <3>5. file[Temp(r)].vers = file[Thumb(r)].vers
      BY <2>1, <3>4 DEF Life, TempSound
    <3>6. file'[Thumb(r)] = file[Temp(r)]
      <4>1. file' = [file EXCEPT ![Thumb(r)] = file[Temp(r)], ![Temp(r)] = Absent]
        BY <1>4, <2>1 DEF Move, RenameTemp
      <4>2. Thumb(r) # Temp(r)
        BY DEF Thumb, Temp
      <4> QED
        BY <1>1, <4>1, <4>2
    <3> QED
      BY <3>4, <3>5, <3>6 DEF ThumbMoves
  <2>2. CASE r # CompTarget(c) \/ ~IsFileExists(Temp(r))
    <3>1. file'[Thumb(r)] = file[Thumb(r)]
      BY <1>1, <1>4, <2>2 DEF Move, RenameTemp, Thumb, Temp
    <3> QED
      BY <1>2, <3>1
  <2> QED
    BY <2>1, <2>2
<1>5. ASSUME NEW c \in Compressors, CreateTemp(c) PROVE ThumbMoves(r)
  BY <1>1, <1>2, <1>5 DEF CreateTemp, OpenTruncate, Thumb, Temp
<1>6. ASSUME NEW s \in Requests, Poll(s) PROVE ThumbMoves(r)
  <2>1. CASE r = s
    BY <1>1, <1>6, <2>1 DEF Poll, Unlink, Absent, ThumbMoves
  <2>2. CASE r # s
    BY <1>1, <1>2, <1>6, <2>2 DEF Poll, Unlink, Thumb
  <2> QED
    BY <2>1, <2>2
<1>7. CASE \E p \in Procs, st \in States : CloseAs(p, st)
  BY <1>7, CloseAsMoves
<1>8. CASE UNCHANGED file
  BY <1>2, <1>8
<1>9. CASE ServerNext
  <2>1. PICK w \in Workers : \/ WorkerStep(w) \/ WorkerCrash(w) \/ RejectPath(w)
                             \/ \E s \in Requests : ExtractThumbInfo(w, s)
    BY <1>9 DEF ServerNext
  <2>2. open[w].final \in States /\ "torn" \in States
    BY <1>1 DEF TypeOK, StoreTypeOK, Descriptor, Finished, States
  <2> QED
    BY <1>1, <1>3, <1>7, <1>8, <2>1, <2>2
    DEF WorkerStep, WorkerCrash, RejectPath, ExtractThumbInfo, Notify, NotifyFails, CheckSource,
        LoadImage, NotPermited, Resize, ProcessImageRaises, EndSave, SaveRaises, Publish,
        PublishFails, Serve, FinishWrite, AbandonWrite, storeVars
<1>10. CASE CompressorNext
  <2>1. PICK c \in Compressors : CompressorStep(c) \/ CompressorCrash(c)
    BY <1>10 DEF CompressorNext
  <2>2. open[c].final \in States /\ "torn" \in States
    BY <1>1 DEF TypeOK, StoreTypeOK, Descriptor, Finished, States
  <2> QED
    BY <1>1, <1>4, <1>5, <1>7, <1>8, <2>1, <2>2
    DEF CompressorStep, CompressorCrash, Receive, CheckTarget, OptimizerReads, OptimizerFails,
        CloseTemp, WriteCutShort, CheckTemp, Resend, FinishWrite, AbandonWrite, storeVars
<1>11. CASE MonitorNext
  BY <1>6, <1>8, <1>11 DEF MonitorNext, Track, storeVars
<1>12. CASE SourceChange \/ PathChange
  BY <1>8, <1>12 DEF SourceChange, PathChange, ReplaceSource, DeleteSource, storeVars
<1> QED
  BY <1>9, <1>10, <1>11, <1>12 DEF Next

\* With one worker that does not fail, a compressor never brings back a
\* thumbnail that was deleted or replaced, however late it is, and however
\* many compressors there are, fail, or get their messages late.
THEOREM OneWorkerNoResurrection ==
  ASSUME SingleWorker
  PROVE  Spec => NoResurrection
<1> DEFINE Back ==
      \A r \in Requests :
        LET old == file[Thumb(r)]  new == file'[Thumb(r)] IN
        /\ old.state = "absent" /\ new.state # "absent" => new.owner \in Workers
        /\ \A v \in old.vers : new.state = "absent" \/ \A v2 \in new.vers : v2 >= v
<1>1. TypeOK /\ WriteInv /\ ReportsOnly /\ LifeInv /\ [Next]_vars => [Back]_vars
  <2> SUFFICES ASSUME TypeOK, WriteInv, ReportsOnly, LifeInv, Next PROVE Back
    OBVIOUS
  <2> SUFFICES ASSUME NEW r \in Requests
               PROVE  /\ file[Thumb(r)].state = "absent" /\ file'[Thumb(r)].state # "absent"
                           => file'[Thumb(r)].owner \in Workers
                      /\ \A v \in file[Thumb(r)].vers :
                           file'[Thumb(r)].state = "absent"
                             \/ \A v2 \in file'[Thumb(r)].vers : v2 >= v
    OBVIOUS
  <2>1. ThumbMoves(r) /\ Life(r)
    BY NextMoves DEF LifeInv
  <2>2. Absent.vers = {}
    BY DEF Absent
  <2>3. file[Thumb(r)].vers = {} \/ \E x \in Int : file[Thumb(r)].vers = {x}
    BY <2>1, <2>2 DEF Life, ThumbSound, Versions
  <2>4. ASSUME file'[Thumb(r)].vers = file[Thumb(r)].vers
        PROVE  \A v \in file[Thumb(r)].vers : \A v2 \in file'[Thumb(r)].vers : v2 >= v
    <3>1. \A x \in Int : x >= x
      OBVIOUS
    <3> QED
      BY <2>3, <2>4, <3>1
  <2> QED
    BY <2>1, <2>2, <2>4 DEF ThumbMoves, IsFileExists
<1>2. "publish" \notin Events
  BY DEF SingleWorker
<1> QED
  BY <1>1, <1>2, TypeCorrect, WriteInvariance, ReportsInvariance, LifeInvariance, PTL
  DEF Spec, NoResurrection
=============================================================================

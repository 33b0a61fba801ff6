--------------------------- MODULE TrackingProofs ---------------------------
(***************************************************************************)
(* No thumbnail escapes the image monitor.  A stored thumbnail is always   *)
(* followed by a token that leads the monitor to it: the save in progress, *)
(* the message in the worker's lingering socket, in the broker, in a       *)
(* compressor's hands, in the compressor's lingering socket, and last the  *)
(* monitor's own note.  Every step that takes the token from one place     *)
(* puts it down in the next, and only the monitor, which deletes the file  *)
(* with it, destroys one.                                                  *)
(***************************************************************************)
EXTENDS ImagePipelineProofs

\* The worker is configured to report what it generates, no process dies or
\* fails to write, and nobody else sends messages to the compressors.
Undisturbed ==
  /\ SendMessageFlag
  /\ Events \cap {"write_error", "worker_crash", "compressor_crash", "broker_crash",
                  "publish"} = {}

\* No process runs out of sockets.
SocketsLeft == \A p \in Procs : SocketFree(p)

Saving(w, r)   == job[w].req = r /\ job[w].pc \in {"writing", "publish"}
Handling(c, r) == ~CompAt(c, "idle") /\ comp[c].msg = Message(2, r)
Followed(r)    == tracked[r] # Untracked \/ Reported(r)

\* Without programs that publish images the compressors handle and send on
\* reports only, so that a compressor at work holds a token.
ReportsOnly ==
  /\ \A r \in Requests :
       /\ inbox[Message(3, r)] = 0
       /\ \A p \in Procs : linger[p][Message(3, r)] = 0
  /\ \A c \in Compressors :
       /\ ~CompAt(c, "idle") => comp[c].msg.type = 2
       /\ \A r \in Requests : linger[c][Message(1, r)] = 0

\* The messages as records.
LEMMA MessageFacts ==
  /\ \A t \in {1, 2, 3}, r \in Requests : Message(t, r) \in Messages
  /\ \A m \in Messages : m = Message(m.type, m.req) /\ m.type \in {1, 2, 3} /\ m.req \in Requests
  /\ \A t, u \in {1, 2, 3}, r, s \in Requests : Message(t, r) = Message(u, s) => t = u /\ r = s
BY DEF Message, Messages

\* A file that is there after a step was there or is followed, and nothing
\* that is there is followed no more: no thumbnail escapes.
LEMMA FollowedKept ==
  ASSUME NoThumbnailEscapes,
         \A r \in Requests : IsFileExists(Thumb(r))' => IsFileExists(Thumb(r)) \/ Followed(r)',
         \A r \in Requests : IsFileExists(Thumb(r))' /\ Followed(r) => Followed(r)'
  PROVE  NoThumbnailEscapes'
BY DEF NoThumbnailEscapes, Followed

\* A message that is sent, by a worker about to serve or by a compressor
\* about to become idle, joins the ones that linger.
LEMMA SendFacts ==
  ASSUME TypeOK, NEW p \in Procs, NEW m \in Messages, SendMessage(p, m)
  PROVE  /\ linger'[p][m] > 0
         /\ \A q \in Procs, n \in Messages :
              /\ linger[q][n] > 0 => linger'[q][n] > 0
              /\ n # m => linger'[q][n] = linger[q][n]
         /\ inbox' = inbox
<1>1. linger \in [Procs -> [Messages -> Nat]]
  BY DEF TypeOK, PathTypeOK
<1>2. linger' = [linger EXCEPT ![p] = [linger[p] EXCEPT ![m] = linger[p][m] + 1]] /\ inbox' = inbox
  BY DEF SendMessage
<1>3. linger[p] \in [Messages -> Nat] /\ linger[p][m] \in Nat
  BY <1>1
<1>4. linger'[p] = [linger[p] EXCEPT ![m] = linger[p][m] + 1] /\ \A q \in Procs : q # p => linger'[q] = linger[q]
  BY <1>1, <1>2
<1>5. linger'[p][m] = linger[p][m] + 1 /\ \A n \in Messages : n # m => linger'[p][n] = linger[p][n]
  BY <1>3, <1>4
<1> QED
  BY <1>2, <1>3, <1>4, <1>5

\* A message that leaves a lingering socket.
LEMMA LeaveFacts ==
  ASSUME TypeOK, NEW p \in Procs, NEW m \in Messages, linger[p][m] > 0,
         linger' = [linger EXCEPT ![p] = [linger[p] EXCEPT ![m] = linger[p][m] - 1]]
  PROVE  \A q \in Procs, n \in Messages :
           /\ n # m => linger'[q][n] = linger[q][n]
           /\ linger[q][n] = 0 => linger'[q][n] = 0
<1>1. linger \in [Procs -> [Messages -> Nat]]
  BY DEF TypeOK, PathTypeOK
<1>3. linger[p] \in [Messages -> Nat] /\ linger[p][m] \in Nat
  BY <1>1
<1>4. linger'[p] = [linger[p] EXCEPT ![m] = linger[p][m] - 1] /\ \A q \in Procs : q # p => linger'[q] = linger[q]
  BY <1>1
<1>5. \A n \in Messages : n # m => linger'[p][n] = linger[p][n]
  BY <1>3, <1>4
<1> QED
  BY <1>3, <1>4, <1>5

-----------------------------------------------------------------------------
\* What the compressors are asked to do.  Messages of type 3 come from
\* outside, those of type 1 end at a compressor.
LEMMA ReportsStep ==
  ASSUME TypeOK, "publish" \notin Events, ReportsOnly, Next
  PROVE  ReportsOnly'
<1>1. /\ linger \in [Procs -> [Messages -> Nat]] /\ inbox \in [Messages -> Nat]
      /\ comp \in [Compressors -> CompJob]
      /\ \A c \in Compressors : c \in Procs /\ c \notin Workers
  BY DeploymentAssumption DEF TypeOK, PathTypeOK, CompTypeOK, Procs
<1>2. ASSUME \A r \in Requests :
               /\ inbox[Message(3, r)] = 0 => inbox'[Message(3, r)] = 0
               /\ \A p \in Procs : linger[p][Message(3, r)] = 0 => linger'[p][Message(3, r)] = 0
               /\ \A c \in Compressors :
                    linger[c][Message(1, r)] = 0 => linger'[c][Message(1, r)] = 0,
             \A c \in Compressors :
               \/ comp'[c].pc = "idle" \/ comp'[c].msg.type = 2
               \/ comp[c].pc # "idle" /\ comp'[c].msg = comp[c].msg
               \/ comp'[c] = comp[c]
      PROVE  ReportsOnly'
  BY <1>2 DEF ReportsOnly, CompAt
<1>3. ASSUME UNCHANGED <<linger, comp>>,
             \A m \in Messages : inbox[m] = 0 => inbox'[m] = 0
      PROVE  ReportsOnly'
  BY <1>2, <1>3, MessageFacts
<1>4. ASSUME NEW p \in Procs, NEW m \in Messages, SendMessage(p, m),
             m.type = 2 \/ (p \in Workers /\ m.type = 1),
             \A c \in Compressors : comp'[c].pc = "idle" \/ comp'[c] = comp[c]
      PROVE  ReportsOnly'
  <2>1. /\ \A q \in Procs, n \in Messages : n # m => linger'[q][n] = linger[q][n]
        /\ inbox' = inbox
    BY <1>4, SendFacts
  <2>2. linger' = [linger EXCEPT ![p][m] = @ + 1]
    BY <1>4 DEF SendMessage
  <2>3. \A q \in Procs : q # p => linger'[q] = linger[q]
    BY <1>1, <2>2
  <2>4. \A r \in Requests : Message(3, r) # m /\ Message(3, r) \in Messages
    BY <1>4, MessageFacts
  <2>5. \A r \in Requests, c \in Compressors :
          Message(1, r) \in Messages /\ (Message(1, r) # m \/ c # p)
    BY <1>1, <1>4, MessageFacts
  <2> QED
    BY <1>1, <1>2, <1>4, <2>1, <2>3, <2>4, <2>5
<1>5. ASSUME NEW p \in Procs, NEW m \in Messages, linger[p][m] > 0, UNCHANGED comp,
             linger' = [linger EXCEPT ![p] = [linger[p] EXCEPT ![m] = linger[p][m] - 1]],
             \A n \in Messages : n # m => inbox'[n] = inbox[n]
      PROVE  ReportsOnly'
  <2>1. \A q \in Procs, n \in Messages : linger[q][n] = 0 => linger'[q][n] = 0
    BY <1>5, LeaveFacts
  <2>2. \A r \in Requests : Message(3, r) # m
    BY <1>5 DEF ReportsOnly
  <2> QED
    BY <1>1, <1>2, <1>5, <2>1, <2>2, MessageFacts
<1>6. ASSUME NEW p \in Procs, LoseLingering(p),
             \A m \in Messages : inbox[m] = 0 => inbox'[m] = 0,
             \A c \in Compressors : comp'[c].pc = "idle" \/ comp'[c] = comp[c]
      PROVE  ReportsOnly'
  <2>1. \A q \in Procs, n \in Messages : linger[q][n] = 0 => linger'[q][n] = 0
    BY <1>1, <1>6 DEF LoseLingering, NoMessages
  <2> QED
    BY <1>1, <1>2, <1>6, <2>1, MessageFacts
<1>7. LoseSomeQueued => \A m \in Messages : inbox[m] = 0 => inbox'[m] = 0
  BY DEF LoseSomeQueued
<1>8. CASE ServerNext /\ UNCHANGED <<comp, tracked>>
  <2>1. PICK w \in Workers : \/ WorkerStep(w) \/ WorkerCrash(w) \/ RejectPath(w)
                             \/ \E r \in Requests : ExtractThumbInfo(w, r)
    BY <1>8 DEF ServerNext
  <2>2. w \in Procs /\ \A t \in {1, 2} : Message(t, job[w].req) \in Messages /\ Message(t, job[w].req).type = t
    BY ServerFacts DEF Message
  <2>3. CASE \E t \in {1, 2} : SendMessage(w, Message(t, job[w].req))
    BY <1>4, <1>8, <2>2, <2>3
  <2>4. CASE UNCHANGED pathVars
    BY <1>3, <1>8, <2>4 DEF pathVars
  <2>5. CASE WorkerCrash(w)
    BY <1>6, <1>8, <2>2, <2>5 DEF WorkerCrash
  <2> QED
    BY <2>1, <2>3, <2>4, <2>5
    DEF WorkerStep, RejectPath, ExtractThumbInfo, Notify, NotifyFails, CheckSource, LoadImage,
        NotPermited, Resize, ProcessImageRaises, BeginSave, EndSave, SaveRaises, Publish,
        PublishFails, Serve
<1>9. CASE CompressorNext
  <2>1. PICK c \in Compressors : CompressorStep(c) \/ CompressorCrash(c)
    BY <1>9 DEF CompressorNext
  <2>2. comp[c] \in CompJob /\ c \in Procs
    BY <1>1
  <2>3. \A d \in Compressors : d # c => comp'[d] = comp[d]
    BY <1>1, <2>1
    DEF CompressorStep, CompressorCrash, Receive, CheckTarget, OptimizerReads, OptimizerFails,
        CreateTemp, CloseTemp, WriteCutShort, CheckTemp, Move, Resend, CompGoto
  <2>4. ASSUME NEW m \in Messages, Receive(c, m) PROVE ReportsOnly'
    <3>1. inbox[m] > 0 /\ inbox' = [inbox EXCEPT ![m] = @ - 1] /\ linger' = linger
      BY <2>4 DEF Receive, Take
    <3>2. m.type \in {1, 2}
      BY <3>1, MessageFacts DEF ReportsOnly
    <3>3. comp'[c] = comp[c] \/ comp'[c].msg.type = 2
      BY <1>1, <2>4, <3>2 DEF Receive
    <3>4. \A n \in Messages : inbox[n] = 0 => inbox'[n] = 0
      BY <1>1, <3>1
    <3> QED
      BY <1>2, <2>3, <3>1, <3>3, <3>4, MessageFacts
  <2>5. CASE CheckTarget(c) \/ OptimizerReads(c) \/ OptimizerFails(c) \/ CreateTemp(c)
             \/ CloseTemp(c) \/ WriteCutShort(c) \/ CheckTemp(c) \/ Move(c)
    <3>1. comp[c].pc # "idle" /\ comp'[c].msg = comp[c].msg
      BY <1>1, <2>2, <2>5
      DEF CheckTarget, OptimizerReads, OptimizerFails, CreateTemp, CloseTemp, WriteCutShort,
          CheckTemp, Move, CompGoto, CompAt, CompJob
    <3>2. UNCHANGED <<linger, inbox>>
      BY <2>5
      DEF CheckTarget, OptimizerReads, OptimizerFails, CreateTemp, CloseTemp, WriteCutShort,
          CheckTemp, Move, pathVars
    <3> QED
      BY <1>2, <2>3, <3>1, <3>2
  <2>6. CASE Resend(c)
    <3>1. comp'[c].pc = "idle"
      BY <1>1, <2>6 DEF Resend, IdleComp
    <3>2. comp[c].msg \in Messages
      BY <2>2 DEF CompJob
    <3>3. CASE comp[c].msg.type = 2 /\ SendMessage(c, comp[c].msg)
      BY <1>4, <2>2, <2>3, <3>1, <3>2, <3>3
    <3>4. CASE UNCHANGED pathVars
      BY <1>2, <2>3, <3>1, <3>4 DEF pathVars
    <3> QED
      BY <2>6, <3>3, <3>4 DEF Resend
  <2>7. CASE CompressorCrash(c)
    <3>1. comp'[c].pc = "idle"
      BY <1>1, <2>7 DEF CompressorCrash, IdleComp
    <3> QED
      BY <1>6, <1>7, <2>2, <2>3, <2>7, <3>1 DEF CompressorCrash
  <2> QED
    BY <2>1, <2>4, <2>5, <2>6, <2>7 DEF CompressorStep
<1>10. CASE MonitorNext /\ UNCHANGED <<serverVars, comp>>
  BY <1>1, <1>3, <1>5, <1>10 DEF MonitorNext, Track, Poll, pathVars
<1>11. CASE SourceChange /\ UNCHANGED <<serverVars, comp, tracked>>
  BY <1>3, <1>11 DEF SourceChange, pathVars
<1>12. CASE PathChange /\ UNCHANGED <<serverVars, comp, tracked>>
  <2>1. CASE \E w \in Workers, m \in Messages : Deliver(w, m)
    <3>1. PICK w \in Workers, m \in Messages : Deliver(w, m)
      BY <2>1
    <3>2. \A n \in Messages : n # m => inbox'[n] = inbox[n]
      BY <1>1, <3>1 DEF Deliver
    <3> QED
      BY <1>5, <1>12, <3>1, <3>2 DEF Deliver, Procs
  <2>2. CASE BrokerCrash \/ BrokerRestart
    BY <1>3, <1>7, <1>12, <2>2 DEF BrokerCrash, BrokerRestart
  <2> QED
    BY <1>12, <2>1, <2>2 DEF PathChange
<1> QED
  BY <1>8, <1>9, <1>10, <1>11, <1>12 DEF Next

\* Compressors handle reports only, whatever fails.
THEOREM ReportsInvariance ==
  ASSUME "publish" \notin Events
  PROVE  Spec => []ReportsOnly
<1>1. Init => ReportsOnly
  BY MessageFacts
  DEF Init, PathInit, CompInit, ReportsOnly, NoMessages, CompAt, IdleComp, Procs
<1>2. TypeOK /\ ReportsOnly /\ [Next]_vars => ReportsOnly'
  <2> SUFFICES ASSUME TypeOK, ReportsOnly, [Next]_vars PROVE ReportsOnly'
    OBVIOUS
  <2>1. CASE Next
    BY <2>1, ReportsStep
  <2>2. CASE UNCHANGED vars
    BY <2>2 DEF vars, pathVars, ReportsOnly, CompAt
  <2> QED
    BY <2>1, <2>2
<1> QED
  BY <1>1, <1>2, TypeCorrect, PTL DEF Spec

-----------------------------------------------------------------------------
\* A step of a worker.  Saving a file makes it appear together with its
\* token; every other step leaves the files alone or closes one.
LEMMA ServerTracks ==
  ASSUME TypeOK, WriteInv, Undisturbed, SocketsLeft, ReportsOnly,
         NoThumbnailEscapes,
         ServerNext, UNCHANGED <<comp, tracked>>
  PROVE  NoThumbnailEscapes'
<1> USE DEF JobSteps
<1>1. PICK w \in Workers : \/ WorkerStep(w) \/ WorkerCrash(w) \/ RejectPath(w)
                           \/ \E r \in Requests : ExtractThumbInfo(w, r)
  BY DEF ServerNext
<1>2. /\ StoreTypeOK /\ OwnerWrites /\ w \in Procs
      /\ job \in [Workers -> Job] /\ job[w] \in Job /\ job[w].req \in Requests
      /\ \A p \in Procs, m \in Messages : linger[p][m] \in Nat
  BY DEF TypeOK, WriteInv, Procs, ServerTypeOK, Job, PathTypeOK
<1>3. ~SaveRaises(w) /\ ~WorkerCrash(w) /\ ~PublishFails(w)
  BY <1>2 DEF Undisturbed, SocketsLeft, SaveRaises, WorkerCrash, PublishFails
<1>4. ASSUME \A r \in Requests : IsFileExists(Thumb(r))' => IsFileExists(Thumb(r)) \/ Saving(w, r)',
             \A v \in Workers : v # w => job'[v] = job[v],
             \A r \in Requests : Saving(w, r) => Saving(w, r)',
             UNCHANGED pathVars
      PROVE  NoThumbnailEscapes'
  <2>1. \A r \in Requests, v \in Workers : Saving(v, r) => Saving(v, r)'
    BY <1>4 DEF Saving
  <2>2. \A r \in Requests : (Followed(r) => Followed(r)') /\ (Saving(w, r)' => Followed(r)')
    BY <1>4, <2>1 DEF Followed, Reported, Saving, pathVars, CompAt
  <2> QED
    BY <1>2, <1>4, <2>2, FollowedKept
<1>5. ASSUME UNCHANGED file, \A v \in Workers : v # w => job'[v] = job[v],
             NEW t \in {1, 2}, SendMessage(w, Message(t, job[w].req)),
             \A r \in Requests : Saving(w, r) => t = 2 /\ r = job[w].req
      PROVE  NoThumbnailEscapes'
  <2>1. Message(t, job[w].req) \in Messages
    BY <1>2, MessageFacts
  <2>2. /\ linger'[w][Message(t, job[w].req)] > 0
        /\ \A q \in Procs, n \in Messages :
             /\ linger[q][n] > 0 => linger'[q][n] > 0
             /\ n # Message(t, job[w].req) => linger'[q][n] = linger[q][n]
        /\ inbox' = inbox
    BY <1>2, <1>5, <2>1, SendFacts
  <2>3. ASSUME NEW r \in Requests, Followed(r) PROVE Followed(r)'
    <3>1. CASE tracked[r] # Untracked \/ inbox[Message(2, r)] > 0
      BY <2>2, <3>1 DEF Followed, Reported
    <3>2. CASE \E p \in Procs : linger[p][Message(2, r)] > 0
      BY <2>2, <3>2, MessageFacts DEF Followed, Reported
    <3>3. CASE \E c \in Compressors : ~CompAt(c, "idle") /\ comp[c].msg = Message(2, r)
      BY <3>3 DEF Followed, Reported, CompAt
    <3>4. CASE \E v \in Workers : Saving(v, r)
      <4>1. PICK v \in Workers : Saving(v, r)
        BY <3>4
      <4>2. CASE v = w
        BY <1>2, <1>5, <2>2, <4>1, <4>2 DEF Followed, Reported
      <4>3. CASE v # w
        BY <1>5, <4>1, <4>3 DEF Followed, Reported, Saving
      <4> QED
        BY <4>2, <4>3
    <3> QED
      BY <2>3, <3>1, <3>2, <3>3, <3>4 DEF Followed, Reported, Saving
  <2> QED
    BY <1>2, <1>5, <2>3, FollowedKept DEF IsFileExists
<1>6. CASE RejectPath(w) \/ NotifyFails(w) \/ ProcessImageRaises(w) \/ Serve(w)
  BY <1>4, <1>6, JobMoves
  DEF RejectPath, NotifyFails, ProcessImageRaises, Serve, At, storeVars, IsFileExists, Saving
<1>7. CASE CheckSource(w) \/ NotPermited(w) \/ Resize(w)
  BY <1>4, <1>7, JobMoves
  DEF CheckSource, NotPermited, Resize, At, storeVars, IsFileExists, Saving
<1>8. CASE LoadImage(w)
  BY <1>4, <1>8, JobMoves DEF LoadImage, At, storeVars, IsFileExists, Saving
<1>9. CASE \E r \in Requests : ExtractThumbInfo(w, r)
  BY <1>4, <1>9, JobMoves DEF ExtractThumbInfo, At, storeVars, IsFileExists, Saving
<1>10. CASE Notify(w)
  <2>1. \A v \in Workers : v # w => job'[v] = job[v]
    BY <1>10, JobMoves DEF Notify
  <2>2. UNCHANGED file /\ \A r \in Requests : ~Saving(w, r)
    BY <1>10 DEF Notify, At, Saving, storeVars
  <2>3. CASE SendMessage(w, Message(1, job[w].req))
    BY <1>5, <2>1, <2>2, <2>3
  <2>4. CASE UNCHANGED pathVars
    BY <1>4, <2>1, <2>2, <2>4 DEF IsFileExists
  <2> QED
    BY <1>10, <2>3, <2>4 DEF Notify
<1>11. CASE Publish(w)
  <2>1. \A v \in Workers : v # w => job'[v] = job[v]
    BY <1>11, JobMoves DEF Publish
  <2>2. UNCHANGED file /\ \A r \in Requests : Saving(w, r) => r = job[w].req
    BY <1>11 DEF Publish, Saving, storeVars
  <2>3. SendMessage(w, Message(2, job[w].req))
    BY <1>11 DEF Publish, Undisturbed
  <2> QED
    BY <1>5, <2>1, <2>2, <2>3
<1>12. CASE BeginSave(w)
  <2>1. \A v \in Workers : v # w => job'[v] = job[v]
    BY <1>12, JobMoves DEF BeginSave
  <2>2. \A r \in Requests : (r = job[w].req => Saving(w, r)') /\ ~Saving(w, r)
    BY <1>2, <1>12 DEF BeginSave, Goto, At, Saving, Job
  <2>3. ASSUME NEW r \in Requests, r # job[w].req, IsFileExists(Thumb(r))'
        PROVE  IsFileExists(Thumb(r))
    BY <1>2, <1>12, <2>3, StoreFacts DEF BeginSave, OpenTruncate, StoreTypeOK, IsFileExists, Thumb
  <2>4. UNCHANGED pathVars
    BY <1>12 DEF BeginSave
  <2> QED
    BY <1>4, <2>1, <2>2, <2>3, <2>4
<1>13. CASE EndSave(w)
  <2>1. \A v \in Workers : v # w => job'[v] = job[v]
    BY <1>13, JobMoves DEF EndSave
  <2>2. \A r \in Requests : Saving(w, r) => Saving(w, r)'
    BY <1>2, <1>13 DEF EndSave, Goto, At, Saving, Job
  <2>3. \A r \in Requests : IsFileExists(Thumb(r))' => IsFileExists(Thumb(r))
    BY <1>2, <1>13, CloseAsKeepsAbsent, StoreFacts DEF EndSave, FinishWrite
  <2> QED
    BY <1>4, <1>13, <2>1, <2>2, <2>3 DEF EndSave
<1> QED
  BY <1>1, <1>3, <1>6, <1>7, <1>8, <1>9, <1>10, <1>11, <1>12, <1>13 DEF WorkerStep

\* A step of a compressor.  A message that is taken is held, held through
\* every step, the mv included, and sent on in the end.
LEMMA CompressorTracks ==
  ASSUME TypeOK, WriteInv, Undisturbed, SocketsLeft, ReportsOnly,
         NoThumbnailEscapes,
         CompressorNext, UNCHANGED <<serverVars, tracked>>
  PROVE  NoThumbnailEscapes'
<1> USE DEF CompSteps
<1>1. PICK c \in Compressors : CompressorStep(c)
  BY DEF CompressorNext, CompressorCrash, Undisturbed
<1>2. /\ StoreTypeOK /\ OwnerWrites /\ c \in Procs
      /\ comp \in [Compressors -> CompJob] /\ comp[c] \in CompJob
      /\ CompTarget(c) \in Requests /\ UNCHANGED job
  BY DEF TypeOK, WriteInv, Procs, CompTypeOK, CompTarget, CompJob, Messages, serverVars
<1>3. \A d \in Compressors : d # c => comp'[d] = comp[d]
  BY <1>1, <1>2
  DEF CompressorStep, Receive, CheckTarget, OptimizerReads, OptimizerFails,
      CreateTemp, CloseTemp, WriteCutShort, CheckTemp, Move, Resend, CompGoto
<1>4. ~CompAt(c, "idle") => Handling(c, CompTarget(c))
  BY <1>2, MessageFacts DEF ReportsOnly, Handling, CompTarget, CompJob
<1>5. ASSUME ~CompAt(c, "idle"), comp'[c].pc # "idle", comp'[c].msg = comp[c].msg,
             UNCHANGED pathVars,
             \A r \in Requests : IsFileExists(Thumb(r))' =>
                                   IsFileExists(Thumb(r)) \/ r = CompTarget(c)
      PROVE  NoThumbnailEscapes'
  <2>1. \A r \in Requests, d \in Compressors : Handling(d, r) => Handling(d, r)'
    BY <1>3, <1>5 DEF Handling, CompAt
  <2>2. ASSUME NEW r \in Requests PROVE (Followed(r) => Followed(r)') /\ (r = CompTarget(c) => Followed(r)')
    BY <1>2, <1>4, <1>5, <2>1 DEF Followed, Reported, Handling, pathVars
  <2> QED
    BY <1>2, <1>5, <2>2, FollowedKept
<1>6. CASE CheckTarget(c) \/ OptimizerFails(c) \/ CheckTemp(c)
  <2>1. ~CompAt(c, "idle") /\ comp'[c].pc # "idle" /\ comp'[c].msg = comp[c].msg
    BY <1>2, <1>6 DEF CheckTarget, OptimizerFails, CheckTemp, CompGoto, CompAt, CompJob
  <2> QED
    BY <1>5, <1>6, <2>1 DEF CheckTarget, OptimizerFails, CheckTemp, storeVars, IsFileExists
<1>7. CASE OptimizerReads(c)
  <2>1. ~CompAt(c, "idle") /\ comp'[c].pc # "idle" /\ comp'[c].msg = comp[c].msg
    BY <1>2, <1>7 DEF OptimizerReads, CompAt, CompJob
  <2> QED
    BY <1>5, <1>7, <2>1 DEF OptimizerReads, storeVars, IsFileExists
<1>8. CASE CreateTemp(c)
  <2>1. ~CompAt(c, "idle") /\ comp'[c].pc # "idle" /\ comp'[c].msg = comp[c].msg
    BY <1>2, <1>8 DEF CreateTemp, CompGoto, CompAt, CompJob
  <2>2. ASSUME NEW r \in Requests, IsFileExists(Thumb(r))' PROVE IsFileExists(Thumb(r))
    BY <1>2, <1>8, <2>2, StoreFacts DEF CreateTemp, OpenTruncate, StoreTypeOK, IsFileExists, Thumb, Temp
  <2> QED
    BY <1>5, <1>8, <2>1, <2>2 DEF CreateTemp
<1>9. CASE CloseTemp(c) \/ WriteCutShort(c)
  <2>1. ~CompAt(c, "idle") /\ comp'[c].pc # "idle" /\ comp'[c].msg = comp[c].msg
    BY <1>2, <1>9 DEF CloseTemp, WriteCutShort, CompGoto, CompAt, CompJob
  <2>2. \A r \in Requests : IsFileExists(Thumb(r))' => IsFileExists(Thumb(r))
    BY <1>2, <1>9, CloseAsKeepsAbsent, StoreFacts
    DEF CloseTemp, WriteCutShort, FinishWrite, AbandonWrite
  <2> QED
    BY <1>5, <1>9, <2>1, <2>2 DEF CloseTemp, WriteCutShort
<1>10. CASE Move(c)
  <2>1. ~CompAt(c, "idle") /\ comp'[c].pc # "idle" /\ comp'[c].msg = comp[c].msg
    BY <1>2, <1>10 DEF Move, CompGoto, CompAt, CompJob
  <2>2. PICK t \in Requests : t = CompTarget(c)
    BY <1>2
  <2>3. ASSUME NEW r \in Requests, r # t, IsFileExists(Thumb(r))' PROVE IsFileExists(Thumb(r))
    BY <1>2, <1>10, <2>2, <2>3, StoreFacts DEF Move, RenameTemp, StoreTypeOK, IsFileExists, Thumb, Temp
  <2> QED
    BY <1>5, <1>10, <2>1, <2>2, <2>3 DEF Move
<1>11. ASSUME NEW m \in Messages, Receive(c, m) PROVE NoThumbnailEscapes'
  <2>1. /\ inbox \in [Messages -> Nat] /\ inbox[m] > 0 /\ inbox' = [inbox EXCEPT ![m] = @ - 1]
        /\ linger' = linger /\ file' = file /\ comp[c].pc = "idle"
    BY <1>11 DEF Receive, Take, TypeOK, PathTypeOK, storeVars, CompAt
  <2>2. m.type # 3
    BY <1>2, <2>1, MessageFacts DEF ReportsOnly
  <2>3. \A n \in Messages : (n # m => inbox'[n] = inbox[n]) /\ (inbox[n] = 0 => inbox'[n] = 0)
    BY <2>1
  <2>4. m.type = 2 => comp'[c].pc = "exists" /\ comp'[c].msg = m
    BY <1>2, <1>11 DEF Receive
  <2>5. m.type = 1 => comp' = comp
    BY <1>11 DEF Receive
  <2>6. m.type \in {1, 2} /\ m = Message(m.type, m.req) /\ m.req \in Requests
    BY <2>2, MessageFacts
  <2>7. ASSUME NEW r \in Requests, Followed(r) PROVE Followed(r)'
    <3>1. CASE tracked[r] # Untracked \/ (\E p \in Procs : linger[p][Message(2, r)] > 0)
               \/ (\E w \in Workers : Saving(w, r))
      BY <1>2, <2>1, <3>1 DEF Followed, Reported, Saving
    <3>2. CASE \E d \in Compressors : Handling(d, r)
      <4>1. PICK d \in Compressors : Handling(d, r)
        BY <3>2
      <4>2. d # c
        BY <2>1, <4>1 DEF Handling, CompAt
      <4> QED
        BY <1>3, <4>1, <4>2 DEF Handling, CompAt, Followed, Reported
    <3>3. CASE inbox[Message(2, r)] > 0
      <4>1. CASE m = Message(2, r)
        <5>1. m.type = 2
          BY <2>6, <4>1, MessageFacts
        <5> QED
          BY <2>4, <4>1, <5>1 DEF Followed, Reported, CompAt
      <4>2. CASE m # Message(2, r)
        <5>1. inbox'[Message(2, r)] = inbox[Message(2, r)]
          BY <2>3, <4>2, MessageFacts
        <5> QED
          BY <3>3, <5>1 DEF Followed, Reported
      <4> QED
        BY <4>1, <4>2
    <3> QED
      BY <2>7, <3>1, <3>2, <3>3 DEF Followed, Reported, Saving, Handling
  <2> QED
    BY <1>2, <2>1, <2>7, FollowedKept DEF IsFileExists
<1>12. CASE Resend(c)
  <2>1. /\ comp[c].pc = "resend" /\ comp'[c] = IdleComp /\ file' = file
    BY <1>2, <1>12 DEF Resend, CompAt, storeVars
  <2>2. comp[c].msg.type = 2 /\ comp[c].msg \in Messages /\ SocketFree(c)
    BY <1>2, <2>1 DEF ReportsOnly, CompAt, CompJob, SocketsLeft
  <2>3. SendMessage(c, comp[c].msg)
    BY <1>12, <2>2 DEF Resend
  <2>4. /\ linger'[c][comp[c].msg] > 0
        /\ \A q \in Procs, n \in Messages :
             /\ linger[q][n] > 0 => linger'[q][n] > 0
             /\ n # comp[c].msg => linger'[q][n] = linger[q][n]
        /\ inbox' = inbox
    BY <1>2, <2>2, <2>3, SendFacts
  <2>5. ASSUME NEW r \in Requests, Followed(r) PROVE Followed(r)'
    <3>0. Message(2, r) \in Messages
      BY MessageFacts
    <3>1. CASE tracked[r] # Untracked \/ inbox[Message(2, r)] > 0 \/ (\E w \in Workers : Saving(w, r))
      BY <1>2, <2>4, <3>1 DEF Followed, Reported, Saving
    <3>2. CASE \E p \in Procs : linger[p][Message(2, r)] > 0
      BY <2>4, <3>0, <3>2 DEF Followed, Reported
    <3>3. CASE Handling(c, r)
      BY <1>2, <2>4, <3>3 DEF Followed, Reported, Handling
    <3>4. CASE \E d \in Compressors : d # c /\ Handling(d, r)
      BY <1>3, <3>4 DEF Followed, Reported, Handling, CompAt
    <3> QED
      BY <2>5, <3>1, <3>2, <3>3, <3>4 DEF Followed, Reported, Saving, Handling
  <2> QED
    BY <1>2, <2>1, <2>5, FollowedKept DEF IsFileExists
<1> QED
  BY <1>1, <1>6, <1>7, <1>8, <1>9, <1>10, <1>11, <1>12 DEF CompressorStep

\* The monitor takes the token from the socket into its notes, and destroys
\* it together with the file; the broker only carries it.
LEMMA OtherTracks ==
  ASSUME TypeOK, Undisturbed, NoThumbnailEscapes, UNCHANGED <<serverVars, comp>>,
         MonitorNext \/ ((SourceChange \/ PathChange) /\ UNCHANGED tracked)
  PROVE  NoThumbnailEscapes'
<1>1. /\ linger \in [Procs -> [Messages -> Nat]] /\ inbox \in [Messages -> Nat]
      /\ tracked \in [Requests -> Versions \cup {Untracked}]
      /\ file \in [Paths -> Content]
      /\ UNCHANGED job /\ UNCHANGED comp
  BY DEF TypeOK, PathTypeOK, MonitorTypeOK, StoreTypeOK, serverVars
<1>2. ASSUME \A r \in Requests : IsFileExists(Thumb(r))' => IsFileExists(Thumb(r)),
             ASSUME NEW r \in Requests, IsFileExists(Thumb(r))'
             PROVE  /\ tracked[r] # Untracked => Followed(r)'
                    /\ \A p \in Procs : linger[p][Message(2, r)] > 0 => Followed(r)'
                    /\ inbox[Message(2, r)] > 0 => Followed(r)'
      PROVE  NoThumbnailEscapes'
  <2>1. ASSUME NEW r \in Requests, IsFileExists(Thumb(r))', Followed(r) PROVE Followed(r)'
    BY <1>1, <1>2, <2>1 DEF Followed, Reported, CompAt
  <2> QED
    BY <1>1, <1>2, <2>1, FollowedKept
<1>3. ASSUME NEW c \in Compressors, NEW m \in Messages, Track(c, m) PROVE NoThumbnailEscapes'
  <2>1. /\ linger[c][m] > 0 /\ c \in Procs /\ inbox' = inbox /\ file' = file
        /\ linger' = [linger EXCEPT ![c] = [linger[c] EXCEPT ![m] = linger[c][m] - 1]]
        /\ tracked' = [tracked EXCEPT ![m.req] = source[m.req.image].ver]
    BY <1>3 DEF Track, Procs, storeVars
  <2>2. \A q \in Procs, n \in Messages :
          /\ n # m => linger'[q][n] = linger[q][n]
          /\ linger[q][n] = 0 => linger'[q][n] = 0
    BY <2>1, LeaveFacts
  <2>3. m.req \in Requests /\ source[m.req.image].ver \in Versions
    BY MessageFacts DEF TypeOK, StoreTypeOK, Images
  <2>4. source[m.req.image].ver # Untracked
    BY <2>3, StoreAssumption DEF Versions, Untracked
  <2>5. \A r \in Requests : tracked'[r] = IF r = m.req THEN source[m.req.image].ver ELSE tracked[r]
    BY <1>1, <2>1
  <2>7. ASSUME NEW r \in Requests
        PROVE  /\ tracked[r] # Untracked => Followed(r)'
               /\ \A p \in Procs : linger[p][Message(2, r)] > 0 => Followed(r)'
               /\ inbox[Message(2, r)] > 0 => Followed(r)'
    <3>1. tracked[r] # Untracked => tracked'[r] # Untracked
      BY <2>4, <2>5
    <3>2. ASSUME NEW p \in Procs, linger[p][Message(2, r)] > 0 PROVE Followed(r)'
      <4>1. CASE m = Message(2, r)
        BY <2>4, <2>5, <4>1 DEF Followed, Message
      <4>2. CASE m # Message(2, r)
        <5>1. linger'[p][Message(2, r)] = linger[p][Message(2, r)]
          BY <2>2, <4>2, MessageFacts
        <5> QED
          BY <3>2, <5>1 DEF Followed, Reported
      <4> QED
        BY <4>1, <4>2
    <3> QED
      BY <2>1, <3>1, <3>2 DEF Followed, Reported
  <2> QED
    BY <1>2, <2>1, <2>7 DEF IsFileExists
<1>4. ASSUME NEW s \in Requests, Poll(s) PROVE NoThumbnailEscapes'
  <2>1. /\ file' = [file EXCEPT ![Thumb(s)] = Absent]
        /\ tracked' = [tracked EXCEPT ![s] = Untracked]
        /\ linger' = linger /\ inbox' = inbox
    BY <1>4 DEF Poll, Unlink, pathVars
  <2>2. \A r \in Requests : IsFileExists(Thumb(r))' => IsFileExists(Thumb(r)) /\ r # s
    BY <1>1, <2>1, StoreFacts DEF IsFileExists, Absent, Thumb
  <2>3. \A r \in Requests : r # s => tracked'[r] = tracked[r]
    BY <1>1, <2>1
  <2> QED
    BY <1>2, <2>1, <2>2, <2>3 DEF Followed, Reported
<1>5. ASSUME UNCHANGED <<file, linger, inbox, tracked>> PROVE NoThumbnailEscapes'
  <2> QED
    BY <1>2, <1>5 DEF Followed, Reported, IsFileExists
<1>6. ASSUME NEW w \in Workers, NEW m \in Messages, Deliver(w, m), UNCHANGED <<file, tracked>>
      PROVE  NoThumbnailEscapes'
  <2>1. /\ linger[w][m] > 0 /\ w \in Procs /\ inbox' = [inbox EXCEPT ![m] = inbox[m] + 1]
        /\ linger' = [linger EXCEPT ![w] = [linger[w] EXCEPT ![m] = linger[w][m] - 1]]
    BY <1>6 DEF Deliver, Procs
  <2>2. \A q \in Procs, n \in Messages :
          /\ n # m => linger'[q][n] = linger[q][n]
          /\ linger[q][n] = 0 => linger'[q][n] = 0
    BY <2>1, LeaveFacts
  <2>3. \A n \in Messages : n # m => inbox'[n] = inbox[n]
    BY <1>1, <2>1
  <2>4. inbox[m] \in Nat /\ inbox'[m] = inbox[m] + 1
    BY <1>1, <2>1
  <2>5. inbox'[m] > 0 /\ \A n \in Messages : inbox[n] > 0 => inbox'[n] > 0
    BY <2>3, <2>4
  <2>7. ASSUME NEW r \in Requests
        PROVE  /\ \A p \in Procs : linger[p][Message(2, r)] > 0 => Followed(r)'
               /\ inbox[Message(2, r)] > 0 => Followed(r)'
    <3>1. Message(2, r) \in Messages
      BY MessageFacts
    <3>2. CASE m = Message(2, r)
      BY <2>5, <3>2 DEF Followed, Reported
    <3>3. CASE m # Message(2, r)
      <4>1. /\ inbox'[Message(2, r)] = inbox[Message(2, r)]
            /\ \A p \in Procs : linger'[p][Message(2, r)] = linger[p][Message(2, r)]
        BY <2>2, <2>3, <3>1, <3>3
      <4> QED
        BY <4>1 DEF Followed, Reported
    <3> QED
      BY <3>2, <3>3
  <2> QED
    BY <1>2, <1>6, <2>7 DEF Followed, IsFileExists
<1>7. CASE MonitorNext
  BY <1>3, <1>4, <1>7 DEF MonitorNext
<1>8. CASE SourceChange /\ UNCHANGED tracked
  BY <1>5, <1>8 DEF SourceChange, ReplaceSource, DeleteSource, pathVars
<1>9. CASE PathChange /\ UNCHANGED tracked
  BY <1>5, <1>6, <1>9 DEF PathChange, BrokerRestart, Undisturbed, storeVars
<1> QED
  BY <1>7, <1>8, <1>9

\* Without failures and while sockets last, every stored thumbnail is
\* tracked or about to be, for any number of workers that generate it at
\* once, of compressors that move each other's output, of changes of the
\* originals and of deletions by the monitor in between.
THEOREM NoneEscapes ==
  ASSUME Undisturbed
  PROVE  Spec /\ []SocketsLeft => []NoThumbnailEscapes
<1>1. Init => NoThumbnailEscapes
  BY StoreFacts DEF Init, StoreInit, IsFileExists, Absent, NoThumbnailEscapes
<1>2. TypeOK /\ WriteInv /\ SocketsLeft /\ ReportsOnly /\ NoThumbnailEscapes /\ [Next]_vars
        => NoThumbnailEscapes'
  <2> SUFFICES ASSUME TypeOK, WriteInv, SocketsLeft, ReportsOnly, NoThumbnailEscapes, [Next]_vars
               PROVE  NoThumbnailEscapes'
    OBVIOUS
  <2>1. CASE Next
    BY <2>1, ServerTracks, CompressorTracks, OtherTracks DEF Next
  <2>2. CASE UNCHANGED vars
    BY <2>2 DEF vars, storeVars, serverVars, pathVars, NoThumbnailEscapes, Reported,
                IsFileExists, CompAt
  <2> QED
    BY <2>1, <2>2
<1>3. "publish" \notin Events
  BY DEF Undisturbed
<1> QED
  BY <1>1, <1>2, <1>3, TypeCorrect, WriteInvariance, ReportsInvariance, PTL DEF Spec
=============================================================================

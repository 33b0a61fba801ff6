------------------------ MODULE ImagePipelineProofs ------------------------
(***************************************************************************)
(* Proofs about ImagePipeline for any number of workers, compressors,      *)
(* requests, versions, sockets and queue places, and for any set of        *)
(* failures.                                                               *)
(***************************************************************************)
EXTENDS ImagePipeline, TLAPS

-----------------------------------------------------------------------------
\* The file operations keep the storage well typed.

\* What a file name and an idle descriptor are.
LEMMA StoreFacts ==
  /\ \A r \in Requests : Thumb(r) \in Paths /\ Temp(r) \in Paths
  /\ Closed \in Descriptor
  /\ Absent \in Content
  /\ NoRequest \in Requests
  /\ 1 \in Versions
<1>1. NoRequest \in Requests
  BY StoreAssumption DEF NoRequest
<1>2. (CHOOSE r \in Requests : TRUE) \in Requests
  BY StoreAssumption
<1> QED
  BY <1>1, <1>2, StoreAssumption
  DEF Thumb, Temp, Paths, Areas, Closed, Descriptor, Absent, Content, States,
      Finished, Versions

\* Opening a file for writing.
LEMMA OpenTruncateType ==
  ASSUME StoreTypeOK, NEW p \in Procs, NEW path \in Paths,
         NEW vs \in SUBSET Versions, NEW final \in Finished,
         OpenTruncate(p, path, vs, final)
  PROVE  file' \in [Paths -> Content] /\ open' \in [Procs -> Descriptor]
<1> DEFINE mixed == vs \cup UNION {open[q].vers : q \in {x \in Procs : Writes(x, path)}}
<1>1. mixed \in SUBSET Versions
  BY DEF StoreTypeOK, Descriptor
<1>2. [state |-> "partial", owner |-> p, vers |-> mixed] \in Content
  BY <1>1 DEF Content, States
<1>3. [area |-> path[1], req |-> path[2], vers |-> vs, final |-> final] \in Descriptor
  BY DEF Descriptor, Paths
<1> QED
  BY <1>2, <1>3 DEF OpenTruncate, StoreTypeOK

\* Closing a file, whatever state it is left in.
LEMMA CloseAsType ==
  ASSUME StoreTypeOK, NEW p \in Procs, NEW st \in States, CloseAs(p, st)
  PROVE  file' \in [Paths -> Content] /\ open' \in [Procs -> Descriptor]
<1>1. open' \in [Procs -> Descriptor]
  BY StoreFacts DEF CloseAs, StoreTypeOK
<1>2. ASSUME open[p].area \in Areas
      PROVE  /\ WritePath(p) \in Paths
             /\ [state |-> st, vers |-> file[WritePath(p)].vers, owner |-> NoProc] \in Content
  BY <1>2 DEF WritePath, Paths, StoreTypeOK, Descriptor, Content
<1> QED
  BY <1>1, <1>2 DEF CloseAs, StoreTypeOK

\* mv and rm.
LEMMA RenameType ==
  ASSUME StoreTypeOK, NEW r \in Requests, RenameTemp(r) \/ Unlink(r)
  PROVE  file' \in [Paths -> Content] /\ open' \in [Procs -> Descriptor]
<1>1. \A p \in Procs : /\ Follow(r, open[p]) \in Descriptor
                       /\ Detach(r, open[p]) \in Descriptor
  BY DEF Follow, Detach, StoreTypeOK, Descriptor, Areas
<1> QED
  BY <1>1, StoreFacts DEF RenameTemp, Unlink, StoreTypeOK

\* What is left of the broker's queue is still a bag of messages.
LEMMA LoseQueuedType ==
  ASSUME PathTypeOK, LoseSomeQueued
  PROVE  inbox' \in [Messages -> Nat]
<1>1. PICK lost \in SUBSET {m \in Messages : inbox[m] > 0} :
        \E left \in [lost -> 0..(QueueLimit - 1)] :
          inbox' = [m \in Messages |-> IF m \in lost THEN left[m] ELSE inbox[m]]
  BY DEF LoseSomeQueued
<1>2. PICK left \in [lost -> 0..(QueueLimit - 1)] :
        inbox' = [m \in Messages |-> IF m \in lost THEN left[m] ELSE inbox[m]]
  BY <1>1
<1>3. ASSUME NEW m \in lost PROVE left[m] \in Nat
  BY <1>3, PathAssumption
<1> QED
  BY <1>2, <1>3 DEF PathTypeOK

\* Sending, delivering and taking a message.
LEMMA PathType ==
  ASSUME PathTypeOK, NEW p \in Procs, NEW m \in Messages,
         SendMessage(p, m) \/ Deliver(p, m) \/ Take(m)
  PROVE  PathTypeOK'
<1>1. CASE SendMessage(p, m)
  BY <1>1 DEF SendMessage, PathTypeOK
<1>2. CASE Deliver(p, m)
  BY <1>2 DEF Deliver, PathTypeOK
<1>3. CASE Take(m)
  BY <1>3 DEF Take, PathTypeOK
<1> QED
  BY <1>1, <1>2, <1>3

\* A process that dies takes its lingering messages with it.
LEMMA LoseType ==
  ASSUME PathTypeOK, NEW p \in Procs, LoseLingering(p),
         UNCHANGED brokerUp, UNCHANGED inbox \/ LoseSomeQueued
  PROVE  PathTypeOK'
BY LoseQueuedType DEF LoseLingering, PathTypeOK, NoMessages

-----------------------------------------------------------------------------
\* Every step of the pipeline keeps every variable in its type.

\* The records a worker writes.
LEMMA ServerFacts ==
  ASSUME TypeOK, NEW w \in Workers
  PROVE  /\ IdleJob \in Job
         /\ w \in Procs
         /\ job[w].req \in Requests
         /\ Thumb(job[w].req) \in Paths
         /\ {job[w].ver} \in SUBSET Versions
         /\ job[w].req.image \in Images
         /\ NoResponse \in Response
         /\ \A code \in {404, 500} : Failure(code) \in Response
         /\ \A r \in Requests : Body(r) \in Response
         /\ \A t \in {1, 2, 3} : Message(t, job[w].req) \in Messages
<1>1. job[w] \in Job
  BY DEF TypeOK, ServerTypeOK
<1>2. \A r \in Requests : file[Thumb(r)] \in Content
  BY StoreFacts DEF TypeOK, StoreTypeOK
<1>3. NoResponse \in Response
  BY StoreFacts DEF NoResponse, Response, States
<1>4. \A code \in {404, 500} : Failure(code) \in Response
  BY <1>3 DEF Failure, Response
<1> QED
  BY <1>1, <1>2, <1>3, <1>4, StoreFacts
  DEF IdleJob, Job, JobSteps, Procs, Images, Response, Body, Content, Message, Messages

\* The bookkeeping of a worker: going on, and answering.
LEMMA GotoType ==
  ASSUME TypeOK, NEW w \in Workers,
         \/ \E pc \in JobSteps : Goto(w, pc)
         \/ \E a \in Response : Answer(w, a)
  PROVE  ServerTypeOK'
<1>1. CASE \E pc \in JobSteps : Goto(w, pc)
  BY <1>1 DEF Goto, TypeOK, ServerTypeOK, Job
<1>2. CASE \E a \in Response : Answer(w, a)
  BY <1>2, ServerFacts DEF Answer, TypeOK, ServerTypeOK
<1> QED
  BY <1>1, <1>2

\* A step of a worker.
LEMMA ServerStepType ==
  ASSUME TypeOK, ServerNext, UNCHANGED <<comp, tracked>>
  PROVE  TypeOK'
<1> USE DEF JobSteps
<1>0. CompTypeOK' /\ MonitorTypeOK'
  BY DEF TypeOK, CompTypeOK, MonitorTypeOK
<1>1. PICK w \in Workers : \/ WorkerStep(w) \/ WorkerCrash(w) \/ RejectPath(w)
                           \/ \E r \in Requests : ExtractThumbInfo(w, r)
  BY DEF ServerNext
<1>2. SUFFICES StoreTypeOK' /\ PathTypeOK' /\ ServerTypeOK'
  BY <1>0 DEF TypeOK
<1>3. StoreTypeOK /\ PathTypeOK /\ ServerTypeOK
  BY DEF TypeOK
<1>4. (UNCHANGED storeVars => StoreTypeOK') /\ (UNCHANGED pathVars => PathTypeOK')
  BY <1>3 DEF storeVars, pathVars, StoreTypeOK, PathTypeOK
<1>5. ASSUME UNCHANGED source, NEW st \in States, CloseAs(w, st) PROVE StoreTypeOK'
  BY <1>3, <1>5, CloseAsType, ServerFacts DEF StoreTypeOK
<1>6. CASE \E r \in Requests : ExtractThumbInfo(w, r)
  <2>1. PICK r \in Requests : ExtractThumbInfo(w, r)
    BY <1>6
  <2>2. [pc |-> "notify", req |-> r, saw |-> IsFileExists(Thumb(r)), ver |-> 1] \in Job
    BY StoreFacts DEF Job, IsFileExists
  <2> QED
    BY <1>3, <1>4, <2>1, <2>2, ServerFacts DEF ExtractThumbInfo, ServerTypeOK
<1>7. CASE RejectPath(w) \/ NotifyFails(w) \/ ProcessImageRaises(w) \/ PublishFails(w)
  BY <1>4, <1>7, GotoType, ServerFacts
  DEF RejectPath, NotifyFails, ProcessImageRaises, PublishFails
<1>8. CASE CheckSource(w) \/ NotPermited(w) \/ Resize(w)
  BY <1>4, <1>8, GotoType DEF CheckSource, NotPermited, Resize
<1>9. CASE Notify(w)
  BY <1>3, <1>4, <1>9, GotoType, ServerFacts, PathType DEF Notify
<1>10. CASE Publish(w)
  BY <1>3, <1>4, <1>10, GotoType, ServerFacts, PathType DEF Publish
<1>11. CASE LoadImage(w)
  <2>1. source[job[w].req.image].ver \in Versions
    BY <1>3, ServerFacts DEF StoreTypeOK
  <2> QED
    BY <1>3, <1>4, <1>11, <2>1 DEF LoadImage, ServerTypeOK, Job
<1>12. CASE BeginSave(w)
  <2>1. "whole" \in Finished
    BY DEF Finished
  <2>2. file' \in [Paths -> Content] /\ open' \in [Procs -> Descriptor]
    BY <1>3, <1>12, <2>1, OpenTruncateType, ServerFacts DEF BeginSave
  <2> QED
    BY <1>3, <1>4, <1>12, <2>2, GotoType DEF BeginSave, StoreTypeOK
<1>13. CASE EndSave(w)
  <2>1. open[w].final \in States
    BY <1>3, ServerFacts DEF StoreTypeOK, Descriptor, Finished, States
  <2> QED
    BY <1>4, <1>5, <1>13, <2>1, GotoType DEF EndSave, FinishWrite
<1>14. CASE SaveRaises(w)
  BY <1>4, <1>5, <1>14, GotoType, ServerFacts DEF SaveRaises, AbandonWrite, States
<1>15. CASE Serve(w)
  BY <1>4, <1>15, GotoType, ServerFacts DEF Serve
<1>16. CASE WorkerCrash(w)
  BY <1>3, <1>5, <1>16, GotoType, ServerFacts, LoseType
  DEF WorkerCrash, AbandonWrite, States
<1> QED
  BY <1>1, <1>6, <1>7, <1>8, <1>9, <1>10, <1>11, <1>12, <1>13, <1>14, <1>15, <1>16
  DEF WorkerStep

\* A step of a compressor.
LEMMA CompressorStepType ==
  ASSUME TypeOK, CompressorNext, UNCHANGED <<serverVars, tracked>>
  PROVE  TypeOK'
<1> USE DEF CompSteps
<1>0. ServerTypeOK' /\ MonitorTypeOK'
  BY DEF TypeOK, ServerTypeOK, MonitorTypeOK, serverVars
<1>1. PICK c \in Compressors : CompressorStep(c) \/ CompressorCrash(c)
  BY DEF CompressorNext
<1>2. SUFFICES StoreTypeOK' /\ PathTypeOK' /\ CompTypeOK'
  BY <1>0 DEF TypeOK
<1>3. StoreTypeOK /\ PathTypeOK /\ CompTypeOK
  BY DEF TypeOK
<1>4. (UNCHANGED storeVars => StoreTypeOK') /\ (UNCHANGED pathVars => PathTypeOK')
  BY <1>3 DEF storeVars, pathVars, StoreTypeOK, PathTypeOK
<1>5. /\ c \in Procs
      /\ comp[c] \in CompJob
      /\ comp[c].msg \in Messages
      /\ CompTarget(c) \in Requests
      /\ file[Thumb(CompTarget(c))] \in Content
  BY <1>3, StoreFacts DEF CompTypeOK, CompJob, Procs, CompTarget, Messages, StoreTypeOK
<1>6. \A pc \in CompSteps : CompGoto(c, pc) => CompTypeOK'
  BY <1>3 DEF CompGoto, CompTypeOK, CompJob
<1>7. ASSUME UNCHANGED source, NEW st \in States, CloseAs(c, st) PROVE StoreTypeOK'
  BY <1>3, <1>5, <1>7, CloseAsType DEF StoreTypeOK
<1>8. IdleComp \in CompJob
  <2>1. Message(1, NoRequest) \in Messages
    BY StoreFacts DEF Message, Messages
  <2>2. (CHOOSE m \in Messages : TRUE) \in Messages
    BY <2>1
  <2> QED
    BY <2>2 DEF IdleComp, CompJob, Finished
<1>9. CASE \E m \in Messages : Receive(c, m)
  <2>1. PICK m \in Messages : Receive(c, m)
    BY <1>9
  <2>2. PathTypeOK'
    BY <1>3, <1>5, <2>1, PathType DEF Receive
  <2> QED
    BY <1>3, <1>4, <2>1, <2>2 DEF Receive, CompTypeOK, CompJob
<1>10. CASE CheckTarget(c) \/ OptimizerFails(c) \/ CheckTemp(c)
  BY <1>4, <1>6, <1>10 DEF CheckTarget, OptimizerFails, CheckTemp
<1>11. CASE OptimizerReads(c)
  <2>1. OptimizerOutput(file[Thumb(CompTarget(c))].state) \in Finished
    BY DEF OptimizerOutput, Finished
  <2> QED
    BY <1>3, <1>4, <1>5, <1>11, <2>1 DEF OptimizerReads, CompTypeOK, CompJob, Content
<1>12. CASE CreateTemp(c)
  <2>1. comp[c].vers \in SUBSET Versions /\ comp[c].made \in Finished
    BY <1>5 DEF CompJob
  <2>2. file' \in [Paths -> Content] /\ open' \in [Procs -> Descriptor]
    BY <1>3, <1>5, <1>12, <2>1, OpenTruncateType, StoreFacts DEF CreateTemp
  <2> QED
    BY <1>3, <1>4, <1>6, <1>12, <2>2 DEF CreateTemp, StoreTypeOK
<1>13. CASE CloseTemp(c) \/ WriteCutShort(c)
  <2>1. open[c].final \in States /\ "torn" \in States
    BY <1>3, <1>5 DEF StoreTypeOK, Descriptor, Finished, States
  <2> QED
    BY <1>4, <1>6, <1>7, <1>13, <2>1
    DEF CloseTemp, WriteCutShort, FinishWrite, AbandonWrite
<1>14. CASE Move(c)
  <2>1. file' \in [Paths -> Content] /\ open' \in [Procs -> Descriptor]
    BY <1>3, <1>5, <1>14, RenameType DEF Move, StoreTypeOK
  <2> QED
    BY <1>3, <1>4, <1>6, <1>14, <2>1 DEF Move, StoreTypeOK
<1>15. CASE Resend(c)
  <2>1. PathTypeOK'
    BY <1>3, <1>4, <1>5, <1>15, PathType DEF Resend
  <2> QED
    BY <1>3, <1>4, <1>8, <1>15, <2>1 DEF Resend, CompTypeOK
<1>16. CASE CompressorCrash(c)
  <2>1. PathTypeOK'
    BY <1>3, <1>5, <1>16, LoseType DEF CompressorCrash
  <2> QED
    BY <1>3, <1>7, <1>8, <1>16, <2>1
    DEF CompressorCrash, CompTypeOK, AbandonWrite, States
<1> QED
  BY <1>1, <1>9, <1>10, <1>11, <1>12, <1>13, <1>14, <1>15, <1>16 DEF CompressorStep

\* A step of the monitor.
LEMMA MonitorStepType ==
  ASSUME TypeOK, MonitorNext, UNCHANGED <<serverVars, comp>>
  PROVE  TypeOK'
<1>0. ServerTypeOK' /\ CompTypeOK'
  BY DEF TypeOK, ServerTypeOK, CompTypeOK, serverVars
<1>1. StoreTypeOK /\ PathTypeOK /\ MonitorTypeOK
  BY DEF TypeOK
<1>2. CASE \E c \in Compressors, m \in Messages : Track(c, m)
  <2>1. PICK c \in Compressors, m \in Messages : Track(c, m)
    BY <1>2
  <2>2. m.req \in Requests /\ source[m.req.image].ver \in Versions /\ c \in Procs
    BY <1>1 DEF Messages, StoreTypeOK, Images, Procs
  <2>3. PathTypeOK'
    BY <1>1, <2>1, <2>2 DEF Track, PathTypeOK
  <2>4. StoreTypeOK' /\ MonitorTypeOK'
    BY <1>1, <2>1, <2>2 DEF Track, storeVars, StoreTypeOK, MonitorTypeOK
  <2> QED
    BY <1>0, <2>3, <2>4 DEF TypeOK
<1>3. CASE \E r \in Requests : Poll(r)
  <2>1. PICK r \in Requests : Poll(r)
    BY <1>3
  <2>2. file' \in [Paths -> Content] /\ open' \in [Procs -> Descriptor]
    BY <1>1, <2>1, RenameType DEF Poll
  <2>3. StoreTypeOK' /\ MonitorTypeOK' /\ PathTypeOK'
    BY <1>1, <2>1, <2>2
    DEF Poll, StoreTypeOK, MonitorTypeOK, Untracked, PathTypeOK, pathVars
  <2> QED
    BY <1>0, <2>3 DEF TypeOK
<1> QED
  BY <1>2, <1>3 DEF MonitorNext

\* A change of an original, or of a queue.
LEMMA OutsideStepType ==
  ASSUME TypeOK, SourceChange \/ PathChange, UNCHANGED <<serverVars, comp, tracked>>
  PROVE  TypeOK'
<1>0. ServerTypeOK' /\ CompTypeOK' /\ MonitorTypeOK'
  BY DEF TypeOK, ServerTypeOK, CompTypeOK, MonitorTypeOK, serverVars
<1>1. StoreTypeOK /\ PathTypeOK
  BY DEF TypeOK
<1>2. CASE SourceChange
  <2>1. PathTypeOK'
    BY <1>1, <1>2 DEF SourceChange, pathVars, PathTypeOK
  <2>2. PICK i \in Images : ReplaceSource(i) \/ DeleteSource(i)
    BY <1>2 DEF SourceChange
  <2> DEFINE Original == [ver : Versions, present : BOOLEAN]
  <2>3. source \in [Images -> Original] /\ source[i] \in Original
    BY <1>1 DEF StoreTypeOK
  <2>4. source' \in [Images -> Original]
    <3>1. \A v \in Versions :
            [ver |-> v, present |-> TRUE] \in Original /\ [ver |-> v, present |-> FALSE] \in Original
      OBVIOUS
    <3>2. source[i].ver \in Versions
      BY <2>3
    <3>3. PICK new \in Original : source' = [source EXCEPT ![i] = new]
      BY <2>2, <3>1, <3>2, Zenon DEF ReplaceSource, DeleteSource
    <3> QED
      BY <2>3, <3>3, Zenon
  <2>5. StoreTypeOK'
    BY <1>1, <2>2, <2>4 DEF ReplaceSource, DeleteSource, StoreTypeOK
  <2> QED
    BY <1>0, <2>1, <2>5 DEF TypeOK
<1>3. CASE PathChange
  <2>1. StoreTypeOK'
    BY <1>1, <1>3 DEF PathChange, storeVars, StoreTypeOK
  <2>2. PathTypeOK'
    <3>1. CASE \E w \in Workers, m \in Messages : Deliver(w, m)
      BY <1>1, <3>1, PathType DEF Procs
    <3>2. CASE BrokerCrash
      BY <1>1, <3>2, LoseQueuedType DEF BrokerCrash, PathTypeOK
    <3>3. CASE BrokerRestart
      BY <1>1, <3>3 DEF BrokerRestart, PathTypeOK
    <3>4. ASSUME NEW r \in Requests, PublishImage(r) PROVE PathTypeOK'
      <4>1. Message(3, r) \in Messages
        BY DEF Message, Messages
      <4> QED
        BY <1>1, <3>4, <4>1 DEF PublishImage, PathTypeOK
    <3> QED
      BY <1>3, <3>1, <3>2, <3>3, <3>4 DEF PathChange
  <2> QED
    BY <1>0, <2>1, <2>2 DEF TypeOK
<1> QED
  BY <1>2, <1>3


\* Every variable keeps its type: no message count goes below zero and no
\* record is ever left half filled, whatever fails.
THEOREM TypeCorrect == Spec => []TypeOK
<1>1. Init => TypeOK
  <2> SUFFICES ASSUME Init PROVE TypeOK
    OBVIOUS
  <2>1. StoreTypeOK
    BY StoreFacts DEF Init, StoreInit, StoreTypeOK
  <2>2. PathTypeOK
    BY DEF Init, PathInit, PathTypeOK, NoMessages
  <2>3. ServerTypeOK
    <3>1. IdleJob \in Job /\ NoResponse \in Response
      BY StoreFacts DEF IdleJob, Job, JobSteps, NoResponse, Response, States
    <3> QED
      BY <3>1 DEF Init, ServerInit, ServerTypeOK
  <2>4. CompTypeOK
    <3>1. Message(1, NoRequest) \in Messages
      BY StoreFacts DEF Message, Messages
    <3>2. (CHOOSE m \in Messages : TRUE) \in Messages
      BY <3>1
    <3>3. IdleComp \in CompJob
      BY <3>2 DEF IdleComp, CompJob, CompSteps, Finished
    <3> QED
      BY <3>3 DEF Init, CompInit, CompTypeOK
  <2>5. MonitorTypeOK
    BY DEF Init, MonitorInit, MonitorTypeOK, Untracked
  <2> QED
    BY <2>1, <2>2, <2>3, <2>4, <2>5 DEF TypeOK
<1>2. TypeOK /\ [Next]_vars => TypeOK'
  <2> SUFFICES ASSUME TypeOK, [Next]_vars PROVE TypeOK'
    OBVIOUS
  <2>1. CASE Next
    BY <2>1, ServerStepType, CompressorStepType, MonitorStepType, OutsideStepType DEF Next
  <2>2. CASE UNCHANGED vars
    BY <2>2 DEF vars, storeVars, pathVars, serverVars, TypeOK, StoreTypeOK, PathTypeOK,
                ServerTypeOK, CompTypeOK, MonitorTypeOK
  <2> QED
    BY <2>1, <2>2
<1> QED
  BY <1>1, <1>2, PTL DEF Spec


-----------------------------------------------------------------------------
(***************************************************************************)
(* The inductive invariant behind NoOrphanPartial.  A process has a file   *)
(* open only at its "writing" step, so it never abandons one by opening    *)
(* the next; and a file has an owner exactly while it is partial, the      *)
(* owner having it open under the name it has now.                         *)
(***************************************************************************)
WritersOpen ==
  /\ \A w \in Workers : ~At(w, "writing") => open[w] = Closed
  /\ \A c \in Compressors : ~CompAt(c, "writing") => open[c] = Closed
OwnerWrites ==
  \A path \in Paths :
    /\ file[path].owner # NoProc => file[path].state = "partial"
    /\ file[path].state = "partial" =>
         file[path].owner \in Procs /\ Writes(file[path].owner, path)
TornBy == {"write_error", "worker_crash", "compressor_crash"}
TornExplained ==
  \A path \in Paths : file[path].state = "torn" => Events \cap TornBy # {}
WriteInv == WritersOpen /\ OwnerWrites /\ TornExplained

\* A process that has nothing open may open a file.
LEMMA OpenTruncateInv ==
  ASSUME StoreTypeOK, OwnerWrites, TornExplained, NEW p \in Procs, open[p] = Closed,
         NEW path \in Paths, NEW vs, NEW final, OpenTruncate(p, path, vs, final)
  PROVE  OwnerWrites' /\ TornExplained'
<1> SUFFICES ASSUME NEW q \in Paths
             PROVE  /\ (file[q].owner # NoProc => file[q].state = "partial")'
                    /\ (file[q].state = "partial" =>
                          file[q].owner \in Procs /\ Writes(file[q].owner, q))'
                    /\ (file[q].state = "torn" => Events \cap TornBy # {})'
  BY DEF OwnerWrites, TornExplained
<1>1. CASE q = path
  <2>1. file'[q].state = "partial" /\ file'[q].owner = p
    BY <1>1 DEF OpenTruncate, StoreTypeOK
  <2>2. open'[p].area = q[1] /\ open'[p].req = q[2]
    BY <1>1 DEF OpenTruncate, StoreTypeOK
  <2> QED
    BY <2>1, <2>2 DEF Writes
<1>2. CASE q # path
  <2>1. file'[q] = file[q]
    BY <1>2 DEF OpenTruncate, StoreTypeOK
  <2>2. ASSUME file[q].state = "partial" PROVE Writes(file[q].owner, q)'
    <3>1. Writes(file[q].owner, q) /\ file[q].owner \in Procs
      BY <2>2 DEF OwnerWrites
    <3>2. file[q].owner # p
      BY <3>1 DEF Writes, Closed, Paths, Areas
    <3> QED
      BY <2>1, <3>1, <3>2 DEF OpenTruncate, StoreTypeOK, Writes
  <2> QED
    BY <2>1, <2>2 DEF OwnerWrites, TornExplained
<1> QED
  BY <1>1, <1>2

\* Closing leaves the file finished, or torn if something failed.
LEMMA CloseAsInv ==
  ASSUME StoreTypeOK, OwnerWrites, TornExplained, NEW p \in Procs,
         NEW st \in States \ {"partial"}, st = "torn" => Events \cap TornBy # {},
         CloseAs(p, st)
  PROVE  OwnerWrites' /\ TornExplained'
<1> SUFFICES ASSUME NEW q \in Paths
             PROVE  /\ (file[q].owner # NoProc => file[q].state = "partial")'
                    /\ (file[q].state = "partial" =>
                          file[q].owner \in Procs /\ Writes(file[q].owner, q))'
                    /\ (file[q].state = "torn" => Events \cap TornBy # {})'
  BY DEF OwnerWrites, TornExplained
<1>1. CASE open[p].area \in Areas /\ file[WritePath(p)].owner = p /\ q = WritePath(p)
  <2>1. file'[q].state = st /\ file'[q].owner = NoProc
    BY <1>1 DEF CloseAs, StoreTypeOK
  <2> QED
    BY <2>1
<1>2. CASE ~(open[p].area \in Areas /\ file[WritePath(p)].owner = p /\ q = WritePath(p))
  <2>1. file'[q] = file[q]
    BY <1>2 DEF CloseAs, StoreTypeOK
  <2>2. ASSUME file[q].state = "partial" PROVE Writes(file[q].owner, q)'
    <3>1. Writes(file[q].owner, q) /\ file[q].owner \in Procs
      BY <2>2 DEF OwnerWrites
    <3>2. file[q].owner # p
      BY <1>2, <3>1 DEF Writes, WritePath, Paths
    <3> QED
      BY <2>1, <3>1, <3>2 DEF CloseAs, StoreTypeOK, Writes
  <2> QED
    BY <2>1, <2>2 DEF OwnerWrites, TornExplained
<1> QED
  BY <1>1, <1>2

\* A writer follows its file through mv, and a file that is unlinked or
\* replaced takes its writers with it.
LEMMA RenameInv ==
  ASSUME StoreTypeOK, OwnerWrites, TornExplained, NEW r \in Requests,
         RenameTemp(r) \/ Unlink(r)
  PROVE  OwnerWrites' /\ TornExplained'
<1> SUFFICES ASSUME NEW q \in Paths
             PROVE  /\ (file[q].owner # NoProc => file[q].state = "partial")'
                    /\ (file[q].state = "partial" =>
                          file[q].owner \in Procs /\ Writes(file[q].owner, q))'
                    /\ (file[q].state = "torn" => Events \cap TornBy # {})'
  BY DEF OwnerWrites, TornExplained
<1>1. Thumb(r) \in Paths /\ Temp(r) \in Paths /\ Thumb(r) # Temp(r)
  BY StoreFacts DEF Thumb, Temp
<1>2. ASSUME file'[q] = Absent
      PROVE  file'[q].owner = NoProc /\ file'[q].state = "absent"
  BY <1>2 DEF Absent
<1>3. CASE RenameTemp(r)
  <2>1. CASE q = Temp(r)
    BY <1>1, <1>2, <1>3, <2>1 DEF RenameTemp, StoreTypeOK
  <2>2. CASE q = Thumb(r)
    <3>1. file'[q] = file[Temp(r)]
      BY <1>1, <1>3, <2>2 DEF RenameTemp, StoreTypeOK
    <3>2. ASSUME file[Temp(r)].state = "partial"
          PROVE  file'[q].owner \in Procs /\ Writes(file[q].owner, q)'
      <4>1. PICK o \in Procs : o = file[Temp(r)].owner /\ Writes(o, Temp(r))
        BY <1>1, <3>2 DEF OwnerWrites
      <4>2. open'[o] = [open[o] EXCEPT !.area = "thumb"]
        BY <1>3, <4>1 DEF RenameTemp, Follow, Writes, Temp
      <4>3. open[o] \in Descriptor
        BY DEF StoreTypeOK
      <4>4. Writes(o, q)'
        BY <2>2, <4>1, <4>2, <4>3 DEF Writes, Thumb, Temp, Descriptor
      <4> QED
        BY <3>1, <4>1, <4>4
    <3> QED
      BY <1>1, <3>1, <3>2 DEF OwnerWrites, TornExplained
  <2>3. CASE q # Temp(r) /\ q # Thumb(r)
    <3>1. file'[q] = file[q]
      BY <1>3, <2>3 DEF RenameTemp, StoreTypeOK
    <3>2. ASSUME file[q].state = "partial" PROVE Writes(file[q].owner, q)'
      <4>1. Writes(file[q].owner, q) /\ file[q].owner \in Procs
        BY <3>2 DEF OwnerWrites
      <4>2. open'[file[q].owner] = open[file[q].owner]
        BY <1>3, <2>3, <4>1
        DEF RenameTemp, Follow, Detach, Writes, Thumb, Temp, Paths
      <4> QED
        BY <3>1, <4>1, <4>2 DEF Writes
    <3> QED
      BY <3>1, <3>2 DEF OwnerWrites, TornExplained
  <2> QED
    BY <2>1, <2>2, <2>3
<1>4. CASE Unlink(r)
  <2>1. CASE q = Thumb(r)
    BY <1>1, <1>2, <1>4, <2>1 DEF Unlink, StoreTypeOK
  <2>2. CASE q # Thumb(r)
    <3>1. file'[q] = file[q]
      BY <1>4, <2>2 DEF Unlink, StoreTypeOK
    <3>2. ASSUME file[q].state = "partial" PROVE Writes(file[q].owner, q)'
      <4>1. Writes(file[q].owner, q) /\ file[q].owner \in Procs
        BY <3>2 DEF OwnerWrites
      <4>2. open'[file[q].owner] = open[file[q].owner]
        BY <1>4, <2>2, <4>1 DEF Unlink, Detach, Writes, Thumb, Paths
      <4> QED
        BY <3>1, <4>1, <4>2 DEF Writes
    <3> QED
      BY <3>1, <3>2 DEF OwnerWrites, TornExplained
  <2> QED
    BY <2>1, <2>2
<1> QED
  BY <1>3, <1>4

\* A descriptor that is closed stays so when files are renamed or unlinked.
LEMMA ClosedStays ==
  ASSUME NEW r \in Requests, NEW p \in Procs, open[p] = Closed,
         RenameTemp(r) \/ Unlink(r)
  PROVE  open'[p] = Closed
BY DEF RenameTemp, Unlink, Follow, Detach, Closed

\* What a worker's step does to job, apart from the file operations.
LEMMA JobMoves ==
  ASSUME TypeOK, NEW w \in Workers,
         \/ \E pc \in JobSteps : Goto(w, pc)
         \/ \E a : Answer(w, a)
         \/ LoadImage(w)
         \/ \E r \in Requests : ExtractThumbInfo(w, r)
  PROVE  /\ \A v \in Workers : v # w => job'[v] = job[v]
         /\ \A pc \in JobSteps : Goto(w, pc) => job'[w].pc = pc
         /\ (\E a : Answer(w, a)) => job'[w].pc = "idle"
         /\ LoadImage(w) => job'[w].pc = "resize"
         /\ (\E r \in Requests : ExtractThumbInfo(w, r)) => job'[w].pc = "notify"
<1>1. job \in [Workers -> Job]
  BY DEF TypeOK, ServerTypeOK
<1>2. job[w] \in Job
  BY <1>1
<1> QED
  BY <1>1, <1>2 DEF Goto, Answer, LoadImage, ExtractThumbInfo, IdleJob, Job

\* A step of a worker keeps the write invariant.
LEMMA ServerStepInv ==
  ASSUME TypeOK, WriteInv, ServerNext, UNCHANGED <<comp, tracked>>
  PROVE  WriteInv'
<1> USE DEF JobSteps
<1>1. PICK w \in Workers : \/ WorkerStep(w) \/ WorkerCrash(w) \/ RejectPath(w)
                           \/ \E r \in Requests : ExtractThumbInfo(w, r)
  BY DEF ServerNext
<1>2. StoreTypeOK /\ WritersOpen /\ OwnerWrites /\ TornExplained /\ w \in Procs
  BY DEF TypeOK, WriteInv, Procs
<1>3. open \in [Procs -> Descriptor] /\ \A c \in Compressors : c # w /\ c \in Procs
  BY <1>2, DeploymentAssumption DEF StoreTypeOK, Procs
<1>4. ASSUME UNCHANGED storeVars, ~At(w, "writing"), job'[w].pc # "writing",
             \A v \in Workers : v # w => job'[v] = job[v]
      PROVE  WriteInv'
  <2>1. OwnerWrites' /\ TornExplained'
    BY <1>2, <1>4 DEF storeVars, OwnerWrites, TornExplained, Writes
  <2>2. WritersOpen'
    BY <1>2, <1>4 DEF storeVars, WritersOpen, At, CompAt
  <2> QED
    BY <2>1, <2>2 DEF WriteInv
<1>5. ASSUME NEW st \in States \ {"partial"}, st = "torn" => Events \cap TornBy # {},
             CloseAs(w, st), \A v \in Workers : v # w => job'[v] = job[v]
      PROVE  WriteInv'
  <2>1. OwnerWrites' /\ TornExplained'
    BY <1>2, <1>5, CloseAsInv
  <2>2. open' = [open EXCEPT ![w] = Closed]
    BY <1>5 DEF CloseAs
  <2>3. WritersOpen'
    BY <1>2, <1>3, <1>5, <2>2 DEF WritersOpen, At, CompAt, Procs
  <2> QED
    BY <2>1, <2>3 DEF WriteInv
<1>6. CASE RejectPath(w) \/ NotifyFails(w) \/ ProcessImageRaises(w) \/ PublishFails(w)
           \/ Serve(w)
  BY <1>4, <1>6, JobMoves
  DEF RejectPath, NotifyFails, ProcessImageRaises, PublishFails, Serve, At
<1>7. CASE Notify(w) \/ CheckSource(w) \/ NotPermited(w) \/ Resize(w) \/ Publish(w)
  BY <1>4, <1>7, JobMoves DEF Notify, CheckSource, NotPermited, Resize, Publish, At
<1>8. CASE LoadImage(w)
  BY <1>4, <1>8, JobMoves DEF LoadImage, At
<1>9. CASE \E r \in Requests : ExtractThumbInfo(w, r)
  BY <1>4, <1>9, JobMoves DEF ExtractThumbInfo, At
<1>10. CASE BeginSave(w)
  <2>1. open[w] = Closed
    BY <1>2, <1>10 DEF WritersOpen, BeginSave, At
  <2>2. OwnerWrites' /\ TornExplained'
    BY <1>2, <1>10, <2>1, OpenTruncateInv, ServerFacts DEF BeginSave
  <2>3. \A v \in Procs : v # w => open'[v] = open[v]
    BY <1>3, <1>10 DEF BeginSave, OpenTruncate
  <2>4. job'[w].pc = "writing" /\ \A v \in Workers : v # w => job'[v] = job[v]
    BY <1>10, JobMoves DEF BeginSave
  <2>5. WritersOpen'
    BY <1>2, <1>3, <2>3, <2>4 DEF WritersOpen, At, CompAt, Procs
  <2> QED
    BY <2>2, <2>5 DEF WriteInv
<1>11. CASE EndSave(w)
  <2>1. open[w].final \in Finished
    BY <1>2, <1>3 DEF Descriptor
  <2>2. open[w].final \in States \ {"partial"} /\ open[w].final # "torn"
    BY <2>1 DEF Finished, States
  <2> QED
    BY <1>5, <1>11, <2>2, JobMoves DEF EndSave, FinishWrite
<1>12. CASE SaveRaises(w)
  BY <1>5, <1>12, JobMoves DEF SaveRaises, AbandonWrite, States, TornBy
<1>13. CASE WorkerCrash(w)
  BY <1>5, <1>13, JobMoves DEF WorkerCrash, AbandonWrite, States, TornBy
<1> QED
  BY <1>1, <1>6, <1>7, <1>8, <1>9, <1>10, <1>11, <1>12, <1>13 DEF WorkerStep

\* A step of a compressor keeps the write invariant.
LEMMA CompressorStepInv ==
  ASSUME TypeOK, WriteInv, CompressorNext, UNCHANGED <<serverVars, tracked>>
  PROVE  WriteInv'
<1>1. PICK c \in Compressors : CompressorStep(c) \/ CompressorCrash(c)
  BY DEF CompressorNext
<1>2. StoreTypeOK /\ WritersOpen /\ OwnerWrites /\ TornExplained /\ c \in Procs
  BY DEF TypeOK, WriteInv, Procs
<1>3. /\ open \in [Procs -> Descriptor] /\ \A w \in Workers : c # w /\ w \in Procs
      /\ comp \in [Compressors -> CompJob] /\ UNCHANGED job
      /\ CompTarget(c) \in Requests
  BY <1>2, DeploymentAssumption
  DEF StoreTypeOK, Procs, TypeOK, CompTypeOK, serverVars, CompTarget, CompJob, Messages
<1>4. \A d \in Compressors : d # c => comp'[d] = comp[d]
  BY <1>1, <1>3
  DEF CompressorStep, CompressorCrash, Receive, CheckTarget, OptimizerReads, OptimizerFails,
      CreateTemp, CloseTemp, WriteCutShort, CheckTemp, Move, Resend, CompGoto
<1>5. ASSUME ~CompAt(c, "writing"), comp'[c].pc # "writing",
             \A p \in Procs : open[p] = Closed => open'[p] = Closed
      PROVE  WritersOpen'
  BY <1>2, <1>3, <1>4, <1>5 DEF WritersOpen, At, CompAt, Procs
<1>6. ASSUME UNCHANGED storeVars, ~CompAt(c, "writing"), comp'[c].pc # "writing"
      PROVE  WriteInv'
  <2>1. OwnerWrites' /\ TornExplained'
    BY <1>2, <1>6 DEF storeVars, OwnerWrites, TornExplained, Writes
  <2> QED
    BY <1>5, <1>6, <2>1 DEF WriteInv, storeVars
<1>7. ASSUME NEW st \in States \ {"partial"}, st = "torn" => Events \cap TornBy # {},
             CloseAs(c, st)
      PROVE  WriteInv'
  <2>1. OwnerWrites' /\ TornExplained'
    BY <1>2, <1>7, CloseAsInv
  <2>2. open' = [open EXCEPT ![c] = Closed]
    BY <1>7 DEF CloseAs
  <2>3. WritersOpen'
    BY <1>2, <1>3, <1>4, <2>2 DEF WritersOpen, At, CompAt, Procs
  <2> QED
    BY <2>1, <2>3 DEF WriteInv
<1>8. CASE \E m \in Messages : Receive(c, m)
  BY <1>3, <1>6, <1>8 DEF Receive, CompAt
<1>9. CASE CheckTarget(c) \/ OptimizerFails(c) \/ CheckTemp(c)
  BY <1>3, <1>6, <1>9 DEF CheckTarget, OptimizerFails, CheckTemp, CompAt, CompGoto, CompJob
<1>10. CASE OptimizerReads(c)
  BY <1>3, <1>6, <1>10 DEF OptimizerReads, CompAt, CompJob
<1>11. CASE Resend(c)
  BY <1>3, <1>6, <1>11 DEF Resend, CompAt, IdleComp
<1>12. CASE CreateTemp(c)
  <2>1. open[c] = Closed
    BY <1>2, <1>12 DEF WritersOpen, CreateTemp, CompAt
  <2>2. OwnerWrites' /\ TornExplained'
    BY <1>2, <1>3, <1>12, <2>1, OpenTruncateInv, StoreFacts DEF CreateTemp
  <2>3. \A v \in Procs : v # c => open'[v] = open[v]
    BY <1>3, <1>12 DEF CreateTemp, OpenTruncate
  <2>4. comp'[c].pc = "writing"
    BY <1>3, <1>12 DEF CreateTemp, CompGoto, CompJob
  <2>5. WritersOpen'
    BY <1>2, <1>3, <1>4, <2>3, <2>4 DEF WritersOpen, At, CompAt, Procs
  <2> QED
    BY <2>2, <2>5 DEF WriteInv
<1>13. CASE CloseTemp(c)
  <2>1. open[c].final \in Finished
    BY <1>2, <1>3 DEF Descriptor
  <2>2. open[c].final \in States \ {"partial"} /\ open[c].final # "torn"
    BY <2>1 DEF Finished, States
  <2> QED
    BY <1>7, <1>13, <2>2 DEF CloseTemp, FinishWrite
<1>14. CASE WriteCutShort(c) \/ CompressorCrash(c)
  BY <1>7, <1>14 DEF WriteCutShort, CompressorCrash, AbandonWrite, States, TornBy
<1>15. CASE Move(c)
  <2>1. ~CompAt(c, "writing") /\ comp'[c].pc # "writing"
    BY <1>3, <1>15 DEF Move, CompAt, CompGoto, CompJob
  <2>2. CASE RenameTemp(CompTarget(c))
    BY <1>2, <1>3, <1>5, <2>1, <2>2, RenameInv, ClosedStays DEF WriteInv
  <2>3. CASE UNCHANGED <<file, open>>
    BY <1>6, <1>15, <2>1, <2>3 DEF Move, storeVars
  <2> QED
    BY <1>15, <2>2, <2>3 DEF Move
<1> QED
  BY <1>1, <1>8, <1>9, <1>10, <1>11, <1>12, <1>13, <1>14, <1>15 DEF CompressorStep

\* The monitor, the publishers and the message queues keep it too.
LEMMA OtherStepInv ==
  ASSUME TypeOK, WriteInv, UNCHANGED <<serverVars, comp>>,
         MonitorNext \/ SourceChange \/ PathChange
  PROVE  WriteInv'
<1>1. StoreTypeOK /\ WritersOpen /\ OwnerWrites /\ TornExplained
  BY DEF TypeOK, WriteInv
<1>2. ASSUME OwnerWrites', TornExplained',
             \A p \in Procs : open[p] = Closed => open'[p] = Closed
      PROVE  WriteInv'
  BY <1>1, <1>2 DEF WriteInv, WritersOpen, At, CompAt, Procs, serverVars
<1>3. ASSUME UNCHANGED <<file, open>> PROVE WriteInv'
  BY <1>1, <1>2, <1>3 DEF OwnerWrites, TornExplained, Writes
<1>4. CASE \E r \in Requests : Poll(r)
  BY <1>1, <1>2, <1>4, RenameInv, ClosedStays DEF Poll
<1>5. CASE (\E c \in Compressors, m \in Messages : Track(c, m)) \/ SourceChange \/ PathChange
  BY <1>3, <1>5 DEF Track, SourceChange, PathChange, ReplaceSource, DeleteSource, storeVars
<1> QED
  BY <1>4, <1>5 DEF MonitorNext

\* The write invariant holds in every reachable state.
THEOREM WriteInvariance == Spec => []WriteInv
<1>1. Init => WriteInv
  BY DEF Init, StoreInit, WriteInv, WritersOpen, OwnerWrites, TornExplained, Absent, Procs
<1>2. TypeOK /\ WriteInv /\ [Next]_vars => WriteInv'
  <2> SUFFICES ASSUME TypeOK, WriteInv, [Next]_vars PROVE WriteInv'
    OBVIOUS
  <2>1. CASE Next
    BY <2>1, ServerStepInv, CompressorStepInv, OtherStepInv DEF Next
  <2>2. CASE UNCHANGED vars
    BY <2>2 DEF vars, storeVars, serverVars, WriteInv, WritersOpen, OwnerWrites,
                TornExplained, Writes, At, CompAt
  <2> QED
    BY <2>1, <2>2
<1> QED
  BY <1>1, <1>2, TypeCorrect, PTL DEF Spec

\* No half written file is ever left alone, for any number of workers that
\* save one thumbnail at once, compressors that move each other's output,
\* and processes that fail.
THEOREM NoFileOrphaned == Spec => []NoOrphanPartial
<1>1. WriteInv => NoOrphanPartial
  BY DEF WriteInv, OwnerWrites, TornExplained, TornBy, NoOrphanPartial
<1> QED
  BY <1>1, WriteInvariance, PTL

-----------------------------------------------------------------------------
(***************************************************************************)
(* Temporary files.  Only CreateTemp makes one appear: closing a file      *)
(* changes one that is there (its owner is a process, so it is partial).   *)
(***************************************************************************)
Holds(c, r) == CompTarget(c) = r /\ comp[c].pc \in {"writing", "check", "move"}

\* Closing a file makes no file appear.
LEMMA CloseAsKeepsAbsent ==
  ASSUME StoreTypeOK, OwnerWrites, NEW p \in Procs, NEW st, CloseAs(p, st),
         NEW q \in Paths, IsFileExists(q)'
  PROVE  IsFileExists(q)
<1>1. CASE open[p].area \in Areas /\ file[WritePath(p)].owner = p /\ q = WritePath(p)
  BY <1>1, DeploymentAssumption DEF OwnerWrites, IsFileExists
<1>2. CASE ~(open[p].area \in Areas /\ file[WritePath(p)].owner = p /\ q = WritePath(p))
  BY <1>2 DEF CloseAs, StoreTypeOK, IsFileExists
<1> QED
  BY <1>1, <1>2

\* A step after which no new temporary file exists, and no compressor lets
\* go of one that does, keeps NoTempLeftBehind.
LEMMA HeldStays ==
  ASSUME NoTempLeftBehind,
         \A r \in Requests : IsFileExists(Temp(r))' => IsFileExists(Temp(r)),
         \A r \in Requests, c \in Compressors :
           Holds(c, r) /\ IsFileExists(Temp(r))' => Holds(c, r)'
  PROVE  NoTempLeftBehind'
BY DEF NoTempLeftBehind, Holds

\* A step of a worker.
LEMMA ServerTemps ==
  ASSUME TypeOK, WriteInv, NoTempLeftBehind, ServerNext, UNCHANGED <<comp, tracked>>
  PROVE  NoTempLeftBehind'
<1>1. PICK w \in Workers : \/ WorkerStep(w) \/ WorkerCrash(w) \/ RejectPath(w)
                           \/ \E r \in Requests : ExtractThumbInfo(w, r)
  BY DEF ServerNext
<1>2. StoreTypeOK /\ OwnerWrites /\ w \in Procs
  BY DEF TypeOK, WriteInv, Procs
<1>3. SUFFICES ASSUME NEW r \in Requests, IsFileExists(Temp(r))'
               PROVE  IsFileExists(Temp(r))
  BY HeldStays DEF Holds, CompTarget
<1>4. CASE \E st : CloseAs(w, st)
  BY <1>2, <1>3, <1>4, CloseAsKeepsAbsent, StoreFacts
<1>5. CASE BeginSave(w)
  <2>1. Temp(r) # Thumb(job[w].req)
    BY DEF Temp, Thumb
  <2> QED
    BY <1>2, <1>3, <1>5, <2>1 DEF BeginSave, OpenTruncate, StoreTypeOK, IsFileExists
<1>6. CASE UNCHANGED file
  BY <1>3, <1>6 DEF IsFileExists
<1> QED
  BY <1>1, <1>4, <1>5, <1>6
  DEF WorkerStep, WorkerCrash, RejectPath, ExtractThumbInfo, Notify, NotifyFails,
      CheckSource, LoadImage, NotPermited, Resize, ProcessImageRaises, EndSave, SaveRaises,
      Publish, PublishFails, Serve, FinishWrite, AbandonWrite, storeVars

\* A step of a compressor.
LEMMA CompressorTemps ==
  ASSUME TypeOK, WriteInv, NoTempLeftBehind, CompressorNext
  PROVE  NoTempLeftBehind'
<1>1. PICK c \in Compressors : CompressorStep(c) \/ CompressorCrash(c)
  BY DEF CompressorNext
<1>2. /\ StoreTypeOK /\ OwnerWrites /\ c \in Procs
      /\ comp \in [Compressors -> CompJob] /\ comp[c] \in CompJob
      /\ CompTarget(c) \in Requests
  BY DEF TypeOK, WriteInv, Procs, CompTypeOK, CompTarget, CompJob, Messages
<1>3. \A d \in Compressors : d # c => comp'[d] = comp[d]
  BY <1>1, <1>2
  DEF CompressorStep, CompressorCrash, Receive, CheckTarget, OptimizerReads, OptimizerFails,
      CreateTemp, CloseTemp, WriteCutShort, CheckTemp, Move, Resend, CompGoto
<1>4. ASSUME \A r \in Requests : IsFileExists(Temp(r))' => IsFileExists(Temp(r)),
             ASSUME NEW r \in Requests, Holds(c, r), IsFileExists(Temp(r))'
             PROVE  Holds(c, r)'
      PROVE  NoTempLeftBehind'
  BY <1>3, <1>4, HeldStays DEF Holds, CompTarget
<1>5. CASE (\E m \in Messages : Receive(c, m)) \/ CheckTarget(c) \/ OptimizerReads(c)
           \/ Resend(c)
  BY <1>4, <1>5
  DEF Receive, CheckTarget, OptimizerReads, Resend, storeVars, IsFileExists, CompAt, Holds
<1>6. CASE OptimizerFails(c)
  BY <1>4, <1>6 DEF OptimizerFails, storeVars, IsFileExists, CompAt, Holds
<1>7. CASE CheckTemp(c)
  <2>1. ASSUME NEW r \in Requests, Holds(c, r), IsFileExists(Temp(r))'
        PROVE  Holds(c, r)'
    BY <1>2, <1>7, <2>1
    DEF CheckTemp, storeVars, IsFileExists, Holds, CompTarget, CompGoto, CompJob
  <2> QED
    BY <1>4, <1>7, <2>1 DEF CheckTemp, storeVars, IsFileExists
<1>8. CASE CreateTemp(c)
  <2>0. PICK t \in Requests : t = CompTarget(c)
    BY <1>2
  <2>1. Holds(c, t)'
    BY <1>2, <1>8, <2>0 DEF CreateTemp, CompGoto, Holds, CompTarget, CompJob
  <2>2. ASSUME NEW r \in Requests, r # t, IsFileExists(Temp(r))'
        PROVE  IsFileExists(Temp(r))
    BY <1>2, <1>8, <2>0, <2>2, StoreFacts
    DEF CreateTemp, OpenTruncate, StoreTypeOK, IsFileExists, Temp
  <2>3. \A r \in Requests, d \in Compressors : Holds(d, r) => d # c
    BY <1>8 DEF CreateTemp, CompAt, Holds
  <2> QED
    BY <1>2, <1>3, <2>1, <2>2, <2>3 DEF NoTempLeftBehind, Holds, CompTarget
<1>9. CASE CloseTemp(c) \/ WriteCutShort(c)
  <2>1. \A r \in Requests : IsFileExists(Temp(r))' => IsFileExists(Temp(r))
    BY <1>2, <1>9, CloseAsKeepsAbsent, StoreFacts
    DEF CloseTemp, WriteCutShort, FinishWrite, AbandonWrite
  <2>2. ASSUME NEW r \in Requests, Holds(c, r) PROVE Holds(c, r)'
    BY <1>2, <1>9, <2>2
    DEF CloseTemp, WriteCutShort, Holds, CompTarget, CompGoto, CompJob
  <2> QED
    BY <1>4, <2>1, <2>2
<1>10. CASE Move(c)
  <2>0. PICK t \in Requests : t = CompTarget(c)
    BY <1>2
  <2>1. CASE RenameTemp(t)
    <3>1. file' = [file EXCEPT ![Thumb(t)] = file[Temp(t)], ![Temp(t)] = Absent]
      BY <2>1 DEF RenameTemp
    <3>2. file'[Temp(t)] = Absent
      BY <1>2, <3>1, StoreFacts DEF StoreTypeOK
    <3>3. ASSUME NEW r \in Requests, r # t PROVE file'[Temp(r)] = file[Temp(r)]
      BY <1>2, <3>1, <3>3, StoreFacts DEF StoreTypeOK, Temp, Thumb
    <3>4. \A r \in Requests : IsFileExists(Temp(r))' => r # t /\ IsFileExists(Temp(r))
      BY <3>2, <3>3 DEF IsFileExists, Absent
    <3>5. \A r \in Requests : Holds(c, r) => r = t
      BY <2>0 DEF Holds
    <3> QED
      BY <1>4, <3>4, <3>5
  <2>2. CASE ~IsFileExists(Temp(t)) /\ UNCHANGED <<file, open>>
    BY <1>4, <2>0, <2>2 DEF IsFileExists, Holds
  <2> QED
    BY <1>10, <2>0, <2>1, <2>2 DEF Move
<1>11. CASE CompressorCrash(c)
  BY <1>11 DEF CompressorCrash, NoTempLeftBehind
<1> QED
  BY <1>1, <1>5, <1>6, <1>7, <1>8, <1>9, <1>10, <1>11 DEF CompressorStep

\* Everybody else.
LEMMA OtherTemps ==
  ASSUME TypeOK, NoTempLeftBehind, UNCHANGED comp,
         MonitorNext \/ SourceChange \/ PathChange
  PROVE  NoTempLeftBehind'
<1>1. SUFFICES ASSUME NEW r \in Requests, IsFileExists(Temp(r))'
               PROVE  IsFileExists(Temp(r))
  BY HeldStays DEF Holds, CompTarget
<1>2. CASE \E s \in Requests : Poll(s)
  BY <1>1, <1>2, StoreFacts
  DEF Poll, Unlink, TypeOK, StoreTypeOK, IsFileExists, Absent, Temp, Thumb
<1>3. CASE UNCHANGED file
  BY <1>1, <1>3 DEF IsFileExists
<1> QED
  BY <1>2, <1>3
  DEF MonitorNext, Track, SourceChange, PathChange, ReplaceSource, DeleteSource, storeVars

\* As long as no compressor dies, no temporary file outlives the compressor
\* that made it, however many of them work on the same thumbnail.
THEOREM NoTempOrphaned == Spec => []NoTempLeftBehind
<1>1. Init => NoTempLeftBehind
  BY StoreFacts DEF Init, StoreInit, NoTempLeftBehind, IsFileExists, Absent
<1>2. TypeOK /\ WriteInv /\ NoTempLeftBehind /\ [Next]_vars => NoTempLeftBehind'
  <2> SUFFICES ASSUME TypeOK, WriteInv, NoTempLeftBehind, [Next]_vars
               PROVE  NoTempLeftBehind'
    OBVIOUS
  <2>1. CASE Next
    BY <2>1, ServerTemps, CompressorTemps, OtherTemps DEF Next
  <2>2. CASE UNCHANGED vars
    BY <2>2 DEF vars, storeVars, NoTempLeftBehind, IsFileExists, CompTarget
  <2> QED
    BY <2>1, <2>2
<1> QED
  BY <1>1, <1>2, TypeCorrect, WriteInvariance, PTL DEF Spec
-----------------------------------------------------------------------------
(***************************************************************************)
(* What may be stored.  A size is looked up once, two steps before the     *)
(* file appears, and a compressor creates a temporary file long after it   *)
(* saw the thumbnail: both must still know that the request is allowed,    *)
(* even if the file they saw is gone by then.                              *)
(***************************************************************************)
Allowed(r) == Permitted(r) /\ ~MustRaise(r)
SaversAllowed == \A w \in Workers : At(w, "save") => Allowed(job[w].req)
ReadersAllowed ==
  \A c \in Compressors : comp[c].pc \in {"read", "create"} => Allowed(CompTarget(c))
StoredInv == OnlyPermitedStored /\ SaversAllowed /\ ReadersAllowed

\* A step that makes no new file appear keeps OnlyPermitedStored.
LEMMA NoNewFile ==
  ASSUME OnlyPermitedStored,
         \A q \in Paths : IsFileExists(q)' => IsFileExists(q)
  PROVE  OnlyPermitedStored'
BY StoreFacts DEF OnlyPermitedStored

\* A file that is opened for an allowed request may appear.
LEMMA OpenAllowed ==
  ASSUME StoreTypeOK, OnlyPermitedStored, NEW p, NEW t \in Requests, Allowed(t),
         NEW path \in {Thumb(t), Temp(t)}, NEW vs, NEW final, OpenTruncate(p, path, vs, final)
  PROVE  OnlyPermitedStored'
<1>1. SUFFICES ASSUME NEW r \in Requests, r # t, IsFileExists(Thumb(r))' \/ IsFileExists(Temp(r))'
               PROVE  IsFileExists(Thumb(r)) \/ IsFileExists(Temp(r))
  BY DEF OnlyPermitedStored, Allowed
<1>2. Thumb(r) # path /\ Temp(r) # path
  BY <1>1 DEF Thumb, Temp
<1> QED
  BY <1>1, <1>2, StoreFacts DEF OpenTruncate, StoreTypeOK, IsFileExists

\* A step of a worker.
LEMMA ServerStored ==
  ASSUME TypeOK, WriteInv, StoredInv, ServerNext, UNCHANGED <<comp, tracked>>
  PROVE  StoredInv'
<1>1. PICK w \in Workers : \/ WorkerStep(w) \/ WorkerCrash(w) \/ RejectPath(w)
                           \/ \E r \in Requests : ExtractThumbInfo(w, r)
  BY DEF ServerNext
<1>2. /\ StoreTypeOK /\ OwnerWrites /\ w \in Procs
      /\ job \in [Workers -> Job] /\ job[w] \in Job /\ job[w].req \in Requests
  BY DEF TypeOK, WriteInv, Procs, ServerTypeOK, Job
<1>3. ReadersAllowed'
  BY DEF StoredInv, ReadersAllowed, CompTarget
<1>4. SaversAllowed'
  <2>1. \A v \in Workers : v # w => job'[v] = job[v]
    BY <1>1, <1>2
    DEF WorkerStep, WorkerCrash, RejectPath, ExtractThumbInfo, Notify, NotifyFails,
        CheckSource, LoadImage, NotPermited, Resize, ProcessImageRaises, BeginSave, EndSave,
        SaveRaises, Publish, PublishFails, Serve, Goto, Answer
  <2>2. CASE Resize(w)
    BY <1>2, <2>1, <2>2 DEF Resize, Goto, Job, StoredInv, SaversAllowed, Allowed, At
  <2>3. CASE job'[w].pc # "save"
    BY <2>1, <2>3 DEF StoredInv, SaversAllowed, At
  <2>4. Resize(w) \/ job'[w].pc # "save"
    BY <1>1, <1>2
    DEF WorkerStep, WorkerCrash, RejectPath, ExtractThumbInfo, Notify, NotifyFails,
        CheckSource, LoadImage, NotPermited, ProcessImageRaises, BeginSave, EndSave,
        SaveRaises, Publish, PublishFails, Serve, Goto, Answer, IdleJob, Job
  <2> QED
    BY <2>2, <2>3, <2>4
<1>5. OnlyPermitedStored'
  <2>1. CASE \E st : CloseAs(w, st)
    BY <1>2, <2>1, CloseAsKeepsAbsent, NoNewFile DEF StoredInv
  <2>2. CASE BeginSave(w)
    BY <1>2, <2>2, OpenAllowed DEF BeginSave, StoredInv, SaversAllowed
  <2>3. CASE UNCHANGED file
    BY <2>3, NoNewFile DEF IsFileExists, StoredInv
  <2> QED
    BY <1>1, <2>1, <2>2, <2>3
    DEF WorkerStep, WorkerCrash, RejectPath, ExtractThumbInfo, Notify, NotifyFails,
        CheckSource, LoadImage, NotPermited, Resize, ProcessImageRaises, EndSave, SaveRaises,
        Publish, PublishFails, Serve, FinishWrite, AbandonWrite, storeVars
<1> QED
  BY <1>3, <1>4, <1>5 DEF StoredInv

\* A step of a compressor.
LEMMA CompressorStored ==
  ASSUME TypeOK, WriteInv, StoredInv, CompressorNext, UNCHANGED <<serverVars, tracked>>
  PROVE  StoredInv'
<1>1. PICK c \in Compressors : CompressorStep(c) \/ CompressorCrash(c)
  BY DEF CompressorNext
<1>2. /\ StoreTypeOK /\ OwnerWrites /\ c \in Procs
      /\ comp \in [Compressors -> CompJob] /\ comp[c] \in CompJob
      /\ CompTarget(c) \in Requests
  BY DEF TypeOK, WriteInv, Procs, CompTypeOK, CompTarget, CompJob, Messages
<1>3. SaversAllowed'
  BY DEF StoredInv, SaversAllowed, serverVars, At
<1>4. ReadersAllowed'
  <2>1. \A d \in Compressors : d # c => comp'[d] = comp[d]
    BY <1>1, <1>2
    DEF CompressorStep, CompressorCrash, Receive, CheckTarget, OptimizerReads, OptimizerFails,
        CreateTemp, CloseTemp, WriteCutShort, CheckTemp, Move, Resend, CompGoto
  <2>2. ASSUME comp'[c].pc \in {"read", "create"} => Allowed(CompTarget(c)')
        PROVE  ReadersAllowed'
    BY <2>1, <2>2 DEF StoredInv, ReadersAllowed, CompTarget
  <2>3. CASE CheckTarget(c)
    <3>1. comp'[c].msg = comp[c].msg /\ (comp'[c].pc = "read" => IsFileExists(Thumb(CompTarget(c))))
                                     /\ comp'[c].pc # "create"
      BY <1>2, <2>3 DEF CheckTarget, CompGoto, CompJob
    <3> QED
      BY <1>2, <2>2, <3>1 DEF StoredInv, OnlyPermitedStored, CompTarget, Allowed
  <2>4. CASE OptimizerReads(c)
    <3>1. comp'[c].msg = comp[c].msg /\ comp[c].pc = "read"
      BY <1>2, <2>4 DEF OptimizerReads, CompAt, CompJob
    <3> QED
      BY <2>2, <3>1 DEF StoredInv, ReadersAllowed, CompTarget
  <2>5. CASE \E m \in Messages : Receive(c, m)
    BY <1>2, <2>2, <2>5 DEF Receive, CompAt, CompJob
  <2>6. CASE OptimizerFails(c) \/ CreateTemp(c) \/ CloseTemp(c) \/ WriteCutShort(c)
             \/ CheckTemp(c) \/ Move(c) \/ Resend(c) \/ CompressorCrash(c)
    BY <1>2, <2>2, <2>6
    DEF OptimizerFails, CreateTemp, CloseTemp, WriteCutShort, CheckTemp, Move, Resend,
        CompressorCrash, CompGoto, CompJob, IdleComp
  <2> QED
    BY <1>1, <2>3, <2>4, <2>5, <2>6 DEF CompressorStep
<1>5. OnlyPermitedStored'
  <2>1. CASE CloseTemp(c) \/ WriteCutShort(c) \/ CompressorCrash(c)
    BY <1>2, <2>1, CloseAsKeepsAbsent, NoNewFile
    DEF CloseTemp, WriteCutShort, CompressorCrash, FinishWrite, AbandonWrite, StoredInv
  <2>2. CASE CreateTemp(c)
    BY <1>2, <2>2, OpenAllowed DEF CreateTemp, StoredInv, ReadersAllowed, CompAt
  <2>3. CASE Move(c) /\ IsFileExists(Temp(CompTarget(c)))
    <3>0. PICK t \in Requests : t = CompTarget(c)
      BY <1>2
    <3>1. RenameTemp(t) /\ Allowed(t)
      BY <2>3, <3>0 DEF Move, StoredInv, OnlyPermitedStored, Allowed
    <3>2. SUFFICES ASSUME NEW r \in Requests, r # t, IsFileExists(Thumb(r))' \/ IsFileExists(Temp(r))'
                   PROVE  IsFileExists(Thumb(r)) \/ IsFileExists(Temp(r))
      BY <3>1 DEF StoredInv, OnlyPermitedStored, Allowed
    <3>3. file'[Thumb(r)] = file[Thumb(r)] /\ file'[Temp(r)] = file[Temp(r)]
      BY <1>2, <3>1, <3>2, StoreFacts DEF RenameTemp, StoreTypeOK, Thumb, Temp
    <3> QED
      BY <3>2, <3>3 DEF IsFileExists
  <2>4. CASE UNCHANGED file
    BY <2>4, NoNewFile DEF IsFileExists, StoredInv
  <2> QED
    BY <1>1, <2>1, <2>2, <2>3, <2>4
    DEF CompressorStep, Receive, CheckTarget, OptimizerReads, OptimizerFails, CheckTemp, Move,
        Resend, storeVars
<1> QED
  BY <1>3, <1>4, <1>5 DEF StoredInv

\* Everybody else.
LEMMA OtherStored ==
  ASSUME TypeOK, StoredInv, UNCHANGED <<serverVars, comp>>,
         MonitorNext \/ SourceChange \/ PathChange
  PROVE  StoredInv'
<1>1. SaversAllowed' /\ ReadersAllowed'
  BY DEF StoredInv, SaversAllowed, ReadersAllowed, CompTarget, serverVars, At
<1>2. CASE \E s \in Requests : Poll(s)
  <2>1. \A q \in Paths : IsFileExists(q)' => IsFileExists(q)
    BY <1>2, StoreFacts DEF Poll, Unlink, TypeOK, StoreTypeOK, IsFileExists, Absent
  <2> QED
    BY <1>1, <2>1, NoNewFile DEF StoredInv
<1>3. CASE UNCHANGED file
  BY <1>1, <1>3, NoNewFile DEF IsFileExists, StoredInv
<1> QED
  BY <1>2, <1>3
  DEF MonitorNext, Track, SourceChange, PathChange, ReplaceSource, DeleteSource, storeVars

\* Whatever is stored, by a worker or by the mv of a compressor, has a
\* permitted size and is of a request that processImage can finish, for any
\* configuration and whatever fails.
THEOREM PermitedStored == Spec => []OnlyPermitedStored
<1>1. Init => StoredInv
  BY StoreFacts
  DEF Init, StoreInit, ServerInit, CompInit, StoredInv, OnlyPermitedStored, SaversAllowed,
      ReadersAllowed, IsFileExists, Absent, At, IdleJob, IdleComp
<1>2. TypeOK /\ WriteInv /\ StoredInv /\ [Next]_vars => StoredInv'
  <2> SUFFICES ASSUME TypeOK, WriteInv, StoredInv, [Next]_vars
               PROVE  StoredInv'
    OBVIOUS
  <2>1. CASE Next
    BY <2>1, ServerStored, CompressorStored, OtherStored DEF Next
  <2>2. CASE UNCHANGED vars
    BY <2>2 DEF vars, storeVars, serverVars, StoredInv, OnlyPermitedStored, SaversAllowed,
                ReadersAllowed, IsFileExists, CompTarget, At
  <2> QED
    BY <2>1, <2>2
<1>3. StoredInv => OnlyPermitedStored
  BY DEF StoredInv
<1> QED
  BY <1>1, <1>2, <1>3, TypeCorrect, WriteInvariance, PTL DEF Spec
=============================================================================

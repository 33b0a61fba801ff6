-------------------------- MODULE ThumbnailServer --------------------------
(***************************************************************************)
(* nginx-thumbnail-server: ImageProcessor.lua, run by thumbnail.lua in     *)
(* every nginx worker.  A worker runs the Lua code of one request to its   *)
(* end before it looks at another (every call in it blocks), then nginx    *)
(* serves the static file the code has chosen.  Workers share nothing but  *)
(* the storage, so their steps interleave at every file operation.         *)
(***************************************************************************)
EXTENDS ImageStore, MessagePath

CONSTANTS
  SendMessageFlag,            \* processorConfig.sendMessageFlag
  SendMessageFlag4EveryReq    \* processorConfig.sendMessageFlag4EveryReq

ASSUME ServerAssumption ==
  SendMessageFlag \in BOOLEAN /\ SendMessageFlag4EveryReq \in BOOLEAN

VARIABLES
  job,    \* worker -> the request it is serving and how far it is
  resp    \* worker -> its last response

serverVars == <<job, resp>>

JobSteps == {"idle", "notify", "source", "load", "resize", "save", "writing",
             "publish", "serve"}
\* saw: thumbInfo.targetFileExists; ver: the version of the original in memory.
Job == [pc : JobSteps, req : Requests, saw : BOOLEAN, ver : Versions]
NoRequest == CHOOSE r \in Requests : TRUE
IdleJob == [pc |-> "idle", req |-> NoRequest, saw |-> FALSE, ver |-> 1]

Response == [status : {0, 200, 404, 500}, req : Requests, state : States,
             vers : SUBSET Versions]
NoResponse == [status |-> 0, req |-> NoRequest, state |-> "absent", vers |-> {}]
Failure(code) == [NoResponse EXCEPT !.status = code]
Body(r) == [status |-> 200, req |-> r, state |-> file[Thumb(r)].state,
            vers |-> file[Thumb(r)].vers]

ServerTypeOK == job \in [Workers -> Job] /\ resp \in [Workers -> Response]

ServerInit ==
  /\ job = [w \in Workers |-> IdleJob]
  /\ resp = [w \in Workers |-> NoResponse]

At(w, pc) == job[w].pc = pc
Goto(w, pc) == job' = [job EXCEPT ![w].pc = pc] /\ UNCHANGED resp
Answer(w, a) == job' = [job EXCEPT ![w] = IdleJob] /\ resp' = [resp EXCEPT ![w] = a]

\* The path is not of the form name.<w>x<h>.ext: thumbInfo is nil, 404.
RejectPath(w) ==
  /\ At(w, "idle")
  /\ Answer(w, Failure(404))
  /\ UNCHANGED <<storeVars, pathVars>>

\* extractThumbInfo: the thumbnail is looked for once, here.
ExtractThumbInfo(w, r) ==
  /\ At(w, "idle")
  /\ job' = [job EXCEPT ![w] =
       [pc |-> "notify", req |-> r, saw |-> IsFileExists(Thumb(r)), ver |-> 1]]
  /\ resp' = [resp EXCEPT ![w] = NoResponse]
  /\ UNCHANGED <<storeVars, pathVars>>

\* The type 1 message of every request.  sendMessage configures the socket
\* before it tests that there is one, and no pcall protects this call.
Notify(w) ==
  /\ At(w, "notify")
  /\ Goto(w, IF job[w].saw THEN "serve" ELSE "source")
  /\ IF SendMessageFlag4EveryReq
     THEN SendMessage(w, Message(1, job[w].req))
     ELSE UNCHANGED pathVars
  /\ UNCHANGED storeVars
NotifyFails(w) ==
  /\ At(w, "notify")
  /\ SendMessageFlag4EveryReq /\ ~SocketFree(w)
  /\ Answer(w, Failure(500))
  /\ UNCHANGED <<storeVars, pathVars>>

\* processImage returns false without an original; resolveImageURI looks at
\* pcall's own result only, and answers with the thumbnail's URI all the same.
CheckSource(w) ==
  /\ At(w, "source")
  /\ Goto(w, IF source[job[w].req.image].present THEN "load" ELSE "serve")
  /\ UNCHANGED <<storeVars, pathVars>>

\* gm.Image(sourceImageName): the version read now is the one resized.
LoadImage(w) ==
  /\ At(w, "load")
  /\ source[job[w].req.image].present
  /\ job' = [job EXCEPT ![w].pc = "resize", ![w].ver = source[job[w].req.image].ver]
  /\ UNCHANGED <<resp, storeVars, pathVars>>

\* Sizes outside permitedSizes return false: again the URI is served.
NotPermited(w) ==
  /\ At(w, "resize") /\ ~Permitted(job[w].req)
  /\ Goto(w, "serve")
  /\ UNCHANGED <<storeVars, pathVars>>

\* Faulty variant of Resize: the size is not looked up in permitedSizes.
ResizeAnySize(w) ==
  /\ At(w, "resize") /\ ~MustRaise(job[w].req)
  /\ Goto(w, "save")
  /\ UNCHANGED <<storeVars, pathVars>>

\* mkdirs, thumbnail4LargeImgs and addWaterMark, all in memory.
Resize(w) ==
  /\ At(w, "resize") /\ Permitted(job[w].req) /\ ~MustRaise(job[w].req)
  /\ Goto(w, "save")
  /\ UNCHANGED <<storeVars, pathVars>>

\* A Lua error between load and save: resolveImageURI returns nil, 404.
ProcessImageRaises(w) ==
  /\ \/ At(w, "load") /\ (~source[job[w].req.image].present \/ "gm_error" \in Events)
     \/ At(w, "resize") /\ Permitted(job[w].req)
          /\ (MustRaise(job[w].req) \/ "gm_error" \in Events)
  /\ Answer(w, Failure(404))
  /\ UNCHANGED <<storeVars, pathVars>>

\* image:save(targetImageName): GraphicsMagick opens the thumbnail itself,
\* writes it in place, and closes it.
BeginSave(w) ==
  /\ At(w, "save")
  /\ OpenTruncate(w, Thumb(job[w].req), {job[w].ver}, "whole")
  /\ Goto(w, "writing")
  /\ UNCHANGED <<source, pathVars>>
EndSave(w) ==
  /\ At(w, "writing")
  /\ FinishWrite(w)
  /\ Goto(w, "publish")
  /\ UNCHANGED <<source, pathVars>>
\* Image:save raises; nothing removes what was written.
SaveRaises(w) ==
  /\ At(w, "writing") /\ "write_error" \in Events
  /\ AbandonWrite(w)
  /\ Answer(w, Failure(404))
  /\ UNCHANGED <<source, pathVars>>

\* The type 2 message; without a free socket this is a Lua error inside the
\* pcall: 404, though the thumbnail is there.
Publish(w) ==
  /\ At(w, "publish")
  /\ Goto(w, "serve")
  /\ IF SendMessageFlag
     THEN SendMessage(w, Message(2, job[w].req))
     ELSE UNCHANGED pathVars
  /\ UNCHANGED storeVars
\* Faulty variant of PublishFails: wait for a socket instead.
PublishWaits(w) ==
  /\ At(w, "publish")
  /\ SendMessageFlag /\ ~SocketFree(w)
  /\ UNCHANGED <<serverVars, storeVars, pathVars>>

PublishFails(w) ==
  /\ At(w, "publish")
  /\ SendMessageFlag /\ ~SocketFree(w)
  /\ Answer(w, Failure(404))
  /\ UNCHANGED <<storeVars, pathVars>>

\* set_uri: nginx opens the file under /thumbnail/ and sends what is there.
Serve(w) ==
  /\ At(w, "serve")
  /\ Answer(w, IF IsFileExists(Thumb(job[w].req)) THEN Body(job[w].req) ELSE Failure(404))
  /\ UNCHANGED <<storeVars, pathVars>>

\* The worker process dies; the nginx master starts another one.
WorkerCrash(w) ==
  /\ "worker_crash" \in Events
  /\ ~At(w, "idle")
  /\ AbandonWrite(w)
  /\ LoseLingering(w)
  /\ Answer(w, NoResponse)
  /\ UNCHANGED <<source, inbox, brokerUp>>

\* What a worker does once it has a request, crashes left out.
WorkerStep(w) ==
  \/ Notify(w) \/ NotifyFails(w) \/ CheckSource(w) \/ LoadImage(w)
  \/ NotPermited(w) \/ Resize(w) \/ ProcessImageRaises(w)
  \/ BeginSave(w) \/ EndSave(w) \/ SaveRaises(w)
  \/ Publish(w) \/ PublishFails(w) \/ Serve(w)

ServerNext ==
  \E w \in Workers :
    \/ WorkerStep(w) \/ WorkerCrash(w) \/ RejectPath(w)
    \/ \E r \in Requests : ExtractThumbInfo(w, r)
=============================================================================

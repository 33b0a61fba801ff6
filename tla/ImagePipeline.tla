--------------------------- MODULE ImagePipeline ---------------------------
(***************************************************************************)
(* The whole pipeline: thumbnail server workers, the broker, compressors   *)
(* and the image monitor, over one storage whose originals change.         *)
(***************************************************************************)
EXTENDS ThumbnailServer, Compressor, ImageMonitor, FiniteSets

vars == <<storeVars, pathVars, serverVars, comp, tracked>>

Init == StoreInit /\ PathInit /\ ServerInit /\ CompInit /\ MonitorInit

\* What happens to the originals, the messages and the broker from outside.
SourceChange ==
  /\ \E i \in Images :
       \/ "replace" \in Events /\ ReplaceSource(i)
       \/ "delete" \in Events /\ DeleteSource(i)
  /\ UNCHANGED pathVars
PathChange ==
  /\ \/ \E w \in Workers, m \in Messages : Deliver(w, m)
     \/ \E r \in Requests : "publish" \in Events /\ PublishImage(r)
     \/ "broker_crash" \in Events /\ BrokerCrash
     \/ BrokerRestart
  /\ UNCHANGED storeVars

Next ==
  \/ ServerNext /\ UNCHANGED <<comp, tracked>>
  \/ CompressorNext /\ UNCHANGED <<serverVars, tracked>>
  \/ MonitorNext /\ UNCHANGED <<serverVars, comp>>
  \/ (SourceChange \/ PathChange) /\ UNCHANGED <<serverVars, comp, tracked>>

(***************************************************************************)
(* Workers, compressors, delivery and the monitor keep running; requests,  *)
(* changes of originals and failures are never owed.                       *)
(***************************************************************************)
Fairness ==
  /\ \A w \in Workers :
       /\ WF_vars(WorkerStep(w) /\ UNCHANGED <<comp, tracked>>)
       /\ \A m \in Messages :
            WF_vars(Deliver(w, m) /\ UNCHANGED <<storeVars, serverVars, comp, tracked>>)
  /\ \A c \in Compressors :
       /\ WF_vars(CompressorStep(c) /\ UNCHANGED <<serverVars, tracked>>)
       /\ \A m \in Messages : WF_vars(Track(c, m) /\ UNCHANGED <<serverVars, comp>>)
  /\ \A r \in Requests : WF_vars(Poll(r) /\ UNCHANGED <<serverVars, comp>>)

Spec == Init /\ [][Next]_vars
FairSpec == Spec /\ Fairness

\* Only the workers are owed their steps: all that an answer may rest on.
WorkersSpec ==
  Spec /\ \A w \in Workers : WF_vars(WorkerStep(w) /\ UNCHANGED <<comp, tracked>>)

-----------------------------------------------------------------------------
\* Every variable has its type.
TypeOK ==
  StoreTypeOK /\ PathTypeOK /\ ServerTypeOK /\ CompTypeOK /\ MonitorTypeOK

\* A half written file is never left alone: the process that truncated it
\* last still has it open there, even if the compressor's mv or another
\* worker's save of the same thumbnail came in between.  (A process that
\* dies or fails leaves a torn file; without such events there is none.)
NoOrphanPartial ==
  \A path \in Paths :
    LET f == file[path] IN
    /\ f.state = "partial" => f.owner \in Procs /\ Writes(f.owner, path)
    /\ f.state = "torn" => Events \cap {"write_error", "worker_crash", "compressor_crash"} # {}

\* A temporary file is always in the hands of a compressor that is yet to
\* move it away, however two of them interleave on one thumbnail: none is
\* left to replace a later thumbnail, unless a compressor dies.
NoTempLeftBehind ==
  \A r \in Requests : IsFileExists(Temp(r)) =>
    \/ "compressor_crash" \in Events
    \/ \E c \in Compressors :
         CompTarget(c) = r /\ comp[c].pc \in {"writing", "check", "move"}

\* A type 2 message about r is on its way, or about to be sent.
Reported(r) ==
  \/ \E w \in Workers : job[w].req = r /\ job[w].pc \in {"writing", "publish"}
  \/ \E p \in Procs : linger[p][Message(2, r)] > 0
  \/ inbox[Message(2, r)] > 0
  \/ \E c \in Compressors : ~CompAt(c, "idle") /\ comp[c].msg = Message(2, r)

\* No thumbnail escapes the monitor: one that is stored is tracked or has
\* its message under way, even when two workers generated it, when the
\* monitor deleted it while a compressor was at work on it and the mv put it
\* back, or when it was deleted and generated again.  It takes a crash, a
\* failed save or a lack of sockets to lose one.
NoThumbnailEscapes ==
  \A r \in Requests : IsFileExists(Thumb(r)) => tracked[r] # Untracked \/ Reported(r)

\* Whatever is stored under a thumbnail's name, by a worker or by the mv of
\* a compressor, has a permitted size and is of a request that processImage
\* can finish.
OnlyPermitedStored ==
  \A r \in Requests :
    IsFileExists(Thumb(r)) \/ IsFileExists(Temp(r)) => Permitted(r) /\ ~MustRaise(r)

\* A 200 response is one complete image made from one version of the
\* original: nobody serves a file that is being written or was damaged.
ServedComplete ==
  \A w \in Workers : resp[w].status = 200 =>
    resp[w].state \in Complete /\ Cardinality(resp[w].vers) = 1

\* A stored thumbnail never goes back to an older version of its original,
\* and one that was deleted comes back only because a worker generates it:
\* the compressor's mv puts back neither what it read before a deletion nor
\* what it read before a regeneration.
NoResurrection ==
  [][\A r \in Requests :
       LET old == file[Thumb(r)]  new == file'[Thumb(r)] IN
       /\ old.state = "absent" /\ new.state # "absent" => new.owner \in Workers
       /\ \A v \in old.vers : new.state = "absent" \/ \A v2 \in new.vers : v2 >= v]_vars

\* Every request that was accepted is answered, whether or not there is a
\* broker to take the messages the worker sends on the way.
RequestsAnswered == \A w \in Workers : ~At(w, "idle") ~> At(w, "idle")

\* A generated thumbnail is sooner or later compressed and known to the
\* monitor, or deleted.
EventuallyCompressed ==
  \A r \in Requests :
    file[Thumb(r)].state = "whole"
      ~> \/ ~IsFileExists(Thumb(r))
         \/ file[Thumb(r)].state = "small" /\ tracked[r] # Untracked

\* The description of the pipeline: a thumbnail is deleted once its
\* original was changed or deleted.
Stale(r) ==
  /\ IsFileExists(Thumb(r))
  /\ ~source[r.image].present \/ source[r.image].ver \notin file[Thumb(r)].vers
StaleThumbnailsRemoved == \A r \in Requests : Stale(r) ~> ~Stale(r)

\* The monitor noted the original as it is now for a thumbnail that was made
\* from an earlier version.
Misnoted(r) ==
  /\ tracked[r] # Untracked
  /\ source[r.image].present /\ source[r.image].ver = tracked[r]
  /\ tracked[r] \notin file[Thumb(r)].vers

\* That is the only way in which an outdated thumbnail stays, whether its
\* original changes while it is generated, while its message is under way or
\* after the monitor's note, once or again: all others are deleted.
OnlyMisnotedStay == \A r \in Requests : Stale(r) ~> ~Stale(r) \/ Misnoted(r)

\* With one worker there is one message about a thumbnail, so the note of it
\* is not taken again: once the monitor knows the thumbnail, a later change
\* of its original does lead to its removal.  (With two workers that both
\* generated it, the second message may arrive between the change and the
\* next poll, and the changed original is noted as the one it was made from.)
OneWorker == \A v, w \in Workers : v = w
TrackedChangeRemoves ==
  OneWorker => \A r \in Requests :
    /\ tracked[r] # Untracked
    /\ ~source[r.image].present \/ source[r.image].ver # tracked[r]
    ~> ~IsFileExists(Thumb(r))
=============================================================================

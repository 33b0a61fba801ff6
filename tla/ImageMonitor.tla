---------------------------- MODULE ImageMonitor ----------------------------
(***************************************************************************)
(* The image monitor, which is not part of the repository: modelled from   *)
(* the messages compressimage.lua sends it and from the description of the *)
(* pipeline kept with the code.  For every thumbnail it is told of it      *)
(* notes the state of the original; it polls the originals, and when one   *)
(* was changed or deleted it deletes the thumbnail made from it.           *)
(*                                                                         *)
(* The message names the original and the thumbnail but not the version    *)
(* that was resized: the monitor can only look at the original itself.     *)
(***************************************************************************)
EXTENDS ImageStore, MessagePath

VARIABLE tracked  \* thumbnail -> version of the original noted for it, or 0

Untracked == 0
MonitorTypeOK == tracked \in [Requests -> Versions \cup {Untracked}]
MonitorInit == tracked = [r \in Requests |-> Untracked]

\* A compressor's lingering message reaches the monitor.
Track(c, m) ==
  /\ linger[c][m] > 0
  /\ linger' = [linger EXCEPT ![c][m] = @ - 1]
  /\ tracked' = [tracked EXCEPT ![m.req] = source[m.req.image].ver]
  /\ UNCHANGED <<storeVars, inbox, brokerUp>>

\* Faulty variant of Poll: only a changed original counts, not a deleted one.
PollReplacedOnly(r) ==
  /\ tracked[r] # Untracked /\ source[r.image].ver # tracked[r]
  /\ Unlink(r)
  /\ tracked' = [tracked EXCEPT ![r] = Untracked]
  /\ UNCHANGED <<source, pathVars>>

Poll(r) ==
  LET now == source[r.image] IN
  /\ tracked[r] # Untracked
  /\ ~now.present \/ now.ver # tracked[r]
  /\ Unlink(r)
  /\ tracked' = [tracked EXCEPT ![r] = Untracked]
  /\ UNCHANGED <<source, pathVars>>

MonitorNext ==
  \/ \E c \in Compressors, m \in Messages : Track(c, m)
  \/ \E r \in Requests : Poll(r)
=============================================================================

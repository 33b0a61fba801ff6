----------------------------- MODULE Compressor -----------------------------
(***************************************************************************)
(* compressimage.lua: one loop that receives a message, runs               *)
(* optimize_image on the file it names, moves the result over that file,   *)
(* and tells the image monitor.  Several copies may run.                   *)
(*                                                                         *)
(* The reply sent at the end of every message finds its client gone (the   *)
(* senders close their socket at once), and the broker's ROUTER drops it:  *)
(* it changes no state and is not modelled here.                           *)
(***************************************************************************)
EXTENDS ImageStore, MessagePath

VARIABLE comp   \* compressor -> the message it handles and how far it is

CompSteps == {"idle", "exists", "read", "create", "writing", "check", "move", "resend"}
\* made, vers: the image optimize_image has in memory, once it has read.
CompJob == [pc : CompSteps, msg : Messages, made : Finished, vers : SUBSET Versions]
IdleComp == [pc |-> "idle", msg |-> CHOOSE m \in Messages : TRUE,
             made |-> "absent", vers |-> {}]

CompTypeOK == comp \in [Compressors -> CompJob]
CompInit == comp = [c \in Compressors |-> IdleComp]

CompAt(c, pc) == comp[c].pc = pc
CompGoto(c, pc) == comp' = [comp EXCEPT ![c].pc = pc]
CompTarget(c) == comp[c].msg.req

\* Faulty variant of Receive: the monitor is told before the work is done.
ResendFirst(c, m) ==
  /\ CompAt(c, "idle") /\ inbox[m] > 0
  /\ inbox' = [inbox EXCEPT ![m] = @ - 1]
  /\ linger' = [linger EXCEPT ![c][m] = @ + 1]
  /\ comp' = [comp EXCEPT ![c].pc = "exists", ![c].msg = m]
  /\ UNCHANGED <<brokerUp, storeVars>>

\* zmsg.recv and onMessageArrive.  A type 1 message has no sourceImageName
\* and is answered at once.
Receive(c, m) ==
  /\ CompAt(c, "idle")
  /\ Take(m)
  /\ comp' = IF m.type = 1 THEN comp
             ELSE [comp EXCEPT ![c].pc = "exists", ![c].msg = m]
  /\ UNCHANGED storeVars

\* compressImage: the first isFileExists.
CheckTarget(c) ==
  /\ CompAt(c, "exists")
  /\ CompGoto(c, IF IsFileExists(Thumb(CompTarget(c))) THEN "read" ELSE "resend")
  /\ UNCHANGED <<storeVars, pathVars>>

(***************************************************************************)
(* optimize_image reads its whole input first.  It can make a smaller      *)
(* image of a complete one; a file it catches while somebody writes it     *)
(* either fails to decode or decodes to something else; a file cut short   *)
(* does not decode.  When it fails it leaves the output alone.             *)
(***************************************************************************)
OptimizerOutput(state) ==
  IF state \in Complete THEN "small" ELSE "damaged"
OptimizerReads(c) ==
  LET in == file[Thumb(CompTarget(c))] IN
  /\ CompAt(c, "read")
  /\ in.state \in Complete \cup {"partial", "damaged"}
  /\ comp' = [comp EXCEPT ![c].pc = "create", ![c].vers = in.vers,
                          ![c].made = OptimizerOutput(in.state)]
  /\ UNCHANGED <<storeVars, pathVars>>
OptimizerFails(c) ==
  /\ CompAt(c, "read")
  /\ \/ file[Thumb(CompTarget(c))].state \notin Complete
     \/ "optimizer_error" \in Events
  /\ CompGoto(c, "check")
  /\ UNCHANGED <<storeVars, pathVars>>

\* Faulty variants of CreateTemp: the output overwrites the input; the
\* command is run in the background and not waited for.
CreateInPlace(c) ==
  /\ CompAt(c, "create")
  /\ OpenTruncate(c, Thumb(CompTarget(c)), comp[c].vers, comp[c].made)
  /\ CompGoto(c, "writing")
  /\ UNCHANGED <<source, pathVars>>
CreateTempInBackground(c) ==
  /\ CompAt(c, "create")
  /\ OpenTruncate(c, Temp(CompTarget(c)), comp[c].vers, comp[c].made)
  /\ CompGoto(c, "check")
  /\ UNCHANGED <<source, pathVars>>

\* optimize_image writes <path>.comps.jpg in place.
CreateTemp(c) ==
  /\ CompAt(c, "create")
  /\ OpenTruncate(c, Temp(CompTarget(c)), comp[c].vers, comp[c].made)
  /\ CompGoto(c, "writing")
  /\ UNCHANGED <<source, pathVars>>
CloseTemp(c) ==
  /\ CompAt(c, "writing")
  /\ FinishWrite(c)
  /\ CompGoto(c, "check")
  /\ UNCHANGED <<source, pathVars>>
\* The result of out.write is not looked at: the exit status is 0.
WriteCutShort(c) ==
  /\ CompAt(c, "writing") /\ "write_error" \in Events
  /\ AbandonWrite(c)
  /\ CompGoto(c, "check")
  /\ UNCHANGED <<source, pathVars>>

\* Faulty variant of CheckTemp: the branches are swapped.
CheckTempInverted(c) ==
  /\ CompAt(c, "check")
  /\ CompGoto(c, IF IsFileExists(Temp(CompTarget(c))) THEN "resend" ELSE "move")
  /\ UNCHANGED <<storeVars, pathVars>>

\* The second isFileExists: any temporary file will do, whoever left it.
CheckTemp(c) ==
  /\ CompAt(c, "check")
  /\ CompGoto(c, IF IsFileExists(Temp(CompTarget(c))) THEN "move" ELSE "resend")
  /\ UNCHANGED <<storeVars, pathVars>>

\* mv -f, which fails when the temporary file is gone; nobody looks.
Move(c) ==
  /\ CompAt(c, "move")
  /\ IF IsFileExists(Temp(CompTarget(c)))
     THEN RenameTemp(CompTarget(c))
     ELSE UNCHANGED <<file, open>>
  /\ CompGoto(c, "resend")
  /\ UNCHANGED <<source, pathVars>>

\* Faulty variant of Resend: the wrong message type is passed on.
ResendWrongType(c) ==
  /\ CompAt(c, "resend")
  /\ IF comp[c].msg.type = 3 /\ SocketFree(c)
     THEN SendMessage(c, comp[c].msg)
     ELSE UNCHANGED pathVars
  /\ comp' = [comp EXCEPT ![c] = IdleComp]
  /\ UNCHANGED storeVars

\* Type 2 messages go on to the monitor, unless no socket is free: this
\* sendMessage tests for that and only logs it.
Resend(c) ==
  /\ CompAt(c, "resend")
  /\ IF comp[c].msg.type = 2 /\ SocketFree(c)
     THEN SendMessage(c, comp[c].msg)
     ELSE UNCHANGED pathVars
  /\ comp' = [comp EXCEPT ![c] = IdleComp]
  /\ UNCHANGED storeVars

\* The host of the compressor dies with everything received there.
CompressorCrash(c) ==
  /\ "compressor_crash" \in Events
  /\ ~CompAt(c, "idle")
  /\ AbandonWrite(c)
  /\ LoseLingering(c)
  /\ LoseSomeQueued
  /\ comp' = [comp EXCEPT ![c] = IdleComp]
  /\ UNCHANGED <<source, brokerUp>>

CompressorStep(c) ==
  \/ \E m \in Messages : Receive(c, m)
  \/ CheckTarget(c) \/ OptimizerReads(c) \/ OptimizerFails(c)
  \/ CreateTemp(c) \/ CloseTemp(c) \/ WriteCutShort(c)
  \/ CheckTemp(c) \/ Move(c) \/ Resend(c)

CompressorNext == \E c \in Compressors : CompressorStep(c) \/ CompressorCrash(c)
=============================================================================

----------------------------- MODULE Deployment -----------------------------
(***************************************************************************)
(* The processes of the image pipeline, and what this instance lets        *)
(* happen to them.                                                         *)
(***************************************************************************)
EXTENDS Naturals

CONSTANTS
  Workers,      \* nginx worker processes (worker_processes in nginx.conf)
  Compressors,  \* running copies of compressimage.lua
  NoProc,
  Events        \* what may go wrong, or come from outside, in this instance

Procs == Workers \cup Compressors

EventNames == {
  "gm_error",           \* GraphicsMagick cannot read or resize an image
  "write_error",        \* a write fails half way (the disk is full)
  "optimizer_error",    \* optimize_image cannot handle an image
  "worker_crash", "compressor_crash", "broker_crash",
  "replace", "delete",  \* originals are replaced, deleted
  "publish"}            \* programs outside the repository send type 3 messages

ASSUME DeploymentAssumption ==
  /\ Workers \cap Compressors = {}
  /\ NoProc \notin Procs
  /\ Events \subseteq EventNames
=============================================================================

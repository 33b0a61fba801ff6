----------------------------- MODULE ImageStore -----------------------------
(***************************************************************************)
(* The image storage that the thumbnail servers, the compressors and the   *)
(* image monitor all mount (external: a POSIX file system).  A thumbnail   *)
(* r has the path <<"thumb", r>>, and the compressor's temporary file      *)
(* beside it the path <<"temp", r>>.  Originals are only read by the       *)
(* modelled programs; whoever publishes images replaces or deletes them.   *)
(*                                                                         *)
(* No file has two links, so an inode is named by its path, and a write    *)
(* descriptor follows the inode: a rename moves it to the new path, and a  *)
(* descriptor whose file was replaced or unlinked writes to a file nobody  *)
(* can open any more ("gone").                                             *)
(***************************************************************************)
EXTENDS ThumbRequest, Deployment

CONSTANT
  MaxVersion  \* bound: how many versions an original image goes through

ASSUME StoreAssumption ==
  /\ Requests # {}
  /\ MaxVersion \in Nat \ {0}

VARIABLES
  file,     \* path -> what is stored there
  open,     \* process -> its write descriptor
  source    \* original image -> its current version, and whether it exists

storeVars == <<file, open, source>>

Versions == 1..MaxVersion
Images   == {r.image : r \in Requests}
Thumb(r) == <<"thumb", r>>
Temp(r)  == <<"temp", r>>

Areas == {"thumb", "temp"}
Paths == Areas \X Requests

(***************************************************************************)
(* absent   no such file                                                   *)
(* partial  truncated, and the process that truncated it is still writing  *)
(* torn     that process died or failed before it had written everything   *)
(* whole    a complete encoding, as GraphicsMagick wrote it                *)
(* small    a complete encoding, as optimize_image wrote it                *)
(* damaged  decodes, but was made from bytes that were not a whole image   *)
(* vers are the versions of the original whose bytes the file may hold.    *)
(***************************************************************************)
States   == {"absent", "partial", "torn", "whole", "small", "damaged"}
Complete == {"whole", "small"}
Finished == {"absent", "whole", "small", "damaged"}
Content  == [state : States, vers : SUBSET Versions, owner : Procs \cup {NoProc}]
Absent   == [state |-> "absent", vers |-> {}, owner |-> NoProc]

Descriptor == [area : Areas \cup {"closed", "gone"}, req : Requests,
               vers : SUBSET Versions, final : Finished]
Closed == [area |-> "closed", req |-> CHOOSE r \in Requests : TRUE,
           vers |-> {}, final |-> "absent"]

StoreTypeOK ==
  /\ file \in [Paths -> Content]
  /\ open \in [Procs -> Descriptor]
  /\ source \in [Images -> [ver : Versions, present : BOOLEAN]]

StoreInit ==
  /\ file = [p \in Paths |-> Absent]
  /\ open = [p \in Procs |-> Closed]
  /\ source = [i \in Images |-> [ver |-> 1, present |-> TRUE]]

IsFileExists(path) == file[path].state # "absent"

\* Process p has path open for writing.
Writes(p, path) == open[p].area = path[1] /\ open[p].req = path[2]

\* The path p is writing to; meaningful when open[p].area is in Areas.
WritePath(p) == <<open[p].area, open[p].req>>

\* fopen(path, "wb"): create the file, or truncate the one that is there.
\* Writers that already had it open go on writing their bytes into it.
OpenTruncate(p, path, vs, final) ==
  /\ file' = [file EXCEPT ![path] =
       [state |-> "partial", owner |-> p,
        vers |-> vs \cup UNION {open[q].vers : q \in {x \in Procs : Writes(x, path)}}]]
  /\ open' = [open EXCEPT ![p] =
       [area |-> path[1], req |-> path[2], vers |-> vs, final |-> final]]

\* p closes its file, leaving state st in it if p was the last to truncate
\* it (a file truncated again is left to whoever did so).
CloseAs(p, st) ==
  /\ file' = IF open[p].area \in Areas /\ file[WritePath(p)].owner = p
             THEN [file EXCEPT ![WritePath(p)] =
                     [state |-> st, vers |-> @.vers, owner |-> NoProc]]
             ELSE file
  /\ open' = [open EXCEPT ![p] = Closed]

FinishWrite(p)  == CloseAs(p, open[p].final)
AbandonWrite(p) == CloseAs(p, "torn")

\* Descriptors of the file at Thumb(r) lose their path; those of the file
\* at Temp(r) follow it to Thumb(r) when it is renamed.
Detach(r, d) ==
  IF d.area = "thumb" /\ d.req = r THEN [d EXCEPT !.area = "gone"] ELSE d
Follow(r, d) ==
  IF d.area = "temp" /\ d.req = r THEN [d EXCEPT !.area = "thumb"] ELSE Detach(r, d)

\* mv -f: the temporary file of r becomes its thumbnail in one step.
RenameTemp(r) ==
  /\ file' = [file EXCEPT ![Thumb(r)] = file[Temp(r)], ![Temp(r)] = Absent]
  /\ open' = [p \in Procs |-> Follow(r, open[p])]

Unlink(r) ==
  /\ file' = [file EXCEPT ![Thumb(r)] = Absent]
  /\ open' = [p \in Procs |-> Detach(r, open[p])]

\* The publisher uploads a new version of an original, or deletes it.
ReplaceSource(i) ==
  /\ source[i].ver + 1 \in Versions
  /\ source' = [source EXCEPT ![i] = [ver |-> @.ver + 1, present |-> TRUE]]
  /\ UNCHANGED <<file, open>>
DeleteSource(i) ==
  /\ source[i].present
  /\ source' = [source EXCEPT ![i] = [ver |-> @.ver, present |-> FALSE]]
  /\ UNCHANGED <<file, open>>
=============================================================================

---------------------------- MODULE ThumbRequest ----------------------------
(***************************************************************************)
(* What one thumbnail request asks for: the decisions that                 *)
(* ImageProcessor.lua takes from the request path and from the             *)
(* configuration of thumbnail.lua alone, before it touches the storage.    *)
(*                                                                         *)
(* A request path  <dir>/<name>.<w>x<h>.<ext>  is abstracted to a record   *)
(*    [image, folder, w, h]                                                *)
(* image  : the original the thumbnail is made from;                       *)
(* folder : the second path component, which selects the watermark;        *)
(* w, h   : the two size tokens of the path.                               *)
(* The record also names the thumbnail file: the code builds the file name *)
(* from the same pieces.                                                   *)
(***************************************************************************)
EXTENDS Integers

CONSTANTS
  Requests,       \* the thumbnail requests clients may send
  PermitedSizes,  \* thumbnail.lua: the sizes that may be generated
  WaterMarkKeys   \* thumbnail.lua: folder -> waterMarkType

\* Lua's nil for a dimension, and the literal * of a permitedSizes entry.
Nil  == -1
Star == -2

(***************************************************************************)
(* A size token as written in the path: "*", "0", a number, or digits      *)
(* mixed with stars, which tonumber turns into nil.                        *)
(***************************************************************************)
Tok(lit, num) == [lit |-> lit, num |-> num]
StarTok  == Tok("star", 0)
ZeroTok  == Tok("zero", 0)
MixedTok == Tok("mixed", 0)
NumTok(n) == Tok("digits", n)   \* NumTok(0) is "00": digits, yet not "0"

Dimension(tok) == IF tok.lit = "digits" THEN tok.num ELSE Nil
Width(r)  == Dimension(r.w)
Height(r) == Dimension(r.h)

\* The string "<width or 0>x<height or 0>" looked up in permitedSizes.
OrZero(d)  == IF d = Nil THEN 0 ELSE d
SizeStr(r) == <<OrZero(Width(r)), OrZero(Height(r))>>
Permitted(r) == SizeStr(r) \in PermitedSizes

\* Watermarks go on large thumbnails of the configured folders only.
NoWaterMark == 0
ToGenWaterMark(r) ==
  (Width(r) >= 400 \/ Height(r) >= 400) /\ r.folder \in DOMAIN WaterMarkKeys
WaterMarkType(r) ==
  IF ToGenWaterMark(r) THEN WaterMarkKeys[r.folder] ELSE NoWaterMark

(***************************************************************************)
(* Requests whose generation always ends in a Lua error, whatever the      *)
(* image: watermark type 6 computes width/2 and height/2, so a missing     *)
(* dimension is arithmetic on nil; a dimension of zero makes               *)
(* MagickResizeImage fail; with neither dimension thumbnail4LargeImgs      *)
(* multiplies nil.                                                         *)
(***************************************************************************)
MustRaise(r) ==
  \/ WaterMarkType(r) = 6 /\ (Width(r) = Nil \/ Height(r) = Nil)
  \/ Width(r) = 0 \/ Height(r) = 0
  \/ Width(r) = Nil /\ Height(r) = Nil
=============================================================================

-------------------------- MODULE MCImagePipeline --------------------------
(***************************************************************************)
(* ImagePipeline on small instances: the sizes and folders are the ones    *)
(* thumbnail.lua ships, the requests one of each kind that it treats       *)
(* differently.                                                            *)
(***************************************************************************)
EXTENDS ImagePipeline, ThumbnailConfig, TLC

Req(image, folder, w, h) == [image |-> image, folder |-> folder, w |-> w, h |-> h]

Square     == Req("a", "goods", NumTok(600), NumTok(600))
WidthOnly  == Req("a", "goods", NumTok(480), StarTok)
\* Watermark type 6 with no height; listed only as "1000x*".
NoHeight   == Req("a", "supplier-1", NumTok(600), ZeroTok)
StarOnly   == Req("a", "goods", NumTok(1000), StarTok)

OneRequest  == {Square}
TwoRequests == {Square, WidthOnly}
ThreeKinds  == {Square, NoHeight, StarOnly}

\* Workers and compressors are interchangeable (runs without liveness).
Symmetry == Permutations(Workers) \cup Permutations(Compressors)
=============================================================================

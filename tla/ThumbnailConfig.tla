-------------------------- MODULE ThumbnailConfig --------------------------
(***************************************************************************)
(* The configuration that thumbnail.lua ships.                             *)
(***************************************************************************)
EXTENDS ThumbRequest

\* permitedSizes.  The entries with a literal * are there, but no SizeStr
\* is ever equal to one: a missing dimension is written 0.
ShippedPermitedSizes ==
  { <<800, 600>>, <<600, 600>>, <<400, 400>>, <<236, 80>>, <<220, 220>>,
    <<200, 200>>, <<180, 180>>, <<160, 160>>, <<160, 80>>, <<150, 150>>,
    <<142, 69>>, <<100, 100>>, <<80, 80>>, <<60, 60>>, <<50, 50>>,
    <<480, Star>>, <<480, 0>>, <<320, 0>>, <<320, Star>>, <<600, 0>>,
    <<600, Star>>, <<100, 50>>, <<100, 60>>, <<200, 80>>, <<400, 160>>,
    <<195, 80>>, <<98, 58>>, <<300, 100>>, <<1000, 200>>, <<1000, Star>>,
    <<1000, 800>>, <<210, 140>>, <<160, 106>>, <<600, 400>>, <<150, 100>>,
    <<250, 100>>, <<120, 120>> }

\* waterMarkImagesKeys: every listed folder has watermark type 6.
ShippedWaterMarkKeys ==
  [folder \in {"supplier-1", "supplier-2", "supplier-3", "supplier-4",
               "supplier-6", "supplier-7", "supplier-8", "supplier-9",
               "supplier-12", "supplier-13"} |-> 6]
=============================================================================

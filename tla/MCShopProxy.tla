----------------------------- MODULE MCShopProxy -----------------------------
(***************************************************************************)
(* ShopProxy with one host in two spellings and one that the rule knows.   *)
(***************************************************************************)
EXTENDS ShopProxy, TLC

LowerCase == [h \in Hosts |-> IF h = "Shop" THEN "shop" ELSE h]
Rule == "k000001" :> "developer"
Sym == Permutations(Requests)
===============================================================================

------------------------------ MODULE MCRefQueue ------------------------------
(***************************************************************************)
(* RefQueue for TLC: three references in pools of two slots, so that pools *)
(* fill, a second one is made and removal moves an entry; for liveness two *)
(* in pools of one.                                                        *)
(***************************************************************************)
EXTENDS RefQueue, TLC

RefSymmetry == Permutations(Ref)
===============================================================================

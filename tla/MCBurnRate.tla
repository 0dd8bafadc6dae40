----------------------------- MODULE MCBurnRate -----------------------------
(***************************************************************************)
(* Two subnets sharing one weight meter: s1 with a low alpha and a target  *)
(* of 2, s2 with a high alpha and a target of 3.  PF = 10 keeps every      *)
(* truncation visible; rates run over [2, 8].                              *)
(***************************************************************************)
EXTENDS BurnRate, TLC

CONSTANTS s1, s2

MCTarget == (s1 :> 2) @@ (s2 :> 3)
MCAlpha  == (s1 :> 3) @@ (s2 :> 7)
=============================================================================

------------------------------ MODULE MCShaping ------------------------------
(***************************************************************************)
(* Inputs on a grid of quarters: x from 0 to 5/4 (one step past the        *)
(* documented [0, 1]), midpoints 1/4, 1/2 and 3/4, steepness 0, 2 and 4,   *)
(* output bounds 0, 1/4, 3/4 and 1, x_start 0, 1/4 and 1/2, rounding to 0, *)
(* 1 or 2 places, and powers 0 (replaced by 1) to 3.                       *)
(***************************************************************************)
EXTENDS Shaping

Quarters(ns) == {Rat(n, 4) : n \in ns}

MCXs == Quarters(0..5)
MCMids == Quarters({1, 2, 3})
MCSteepness == {Rat(0, 1), Rat(2, 1), Rat(4, 1)}
MCBounds == Quarters({0, 1, 3, 4})
MCStarts == Quarters({0, 1, 2})

(***************************************************************************)
(* The same grid with a steep k = 1000, where exp(k * |x - mid|) overflows *)
(* for |x - mid| >= 3/4, and with x_start = 1, where the range 1 - x_start *)
(* is 0.                                                                    *)
(***************************************************************************)
MCSteepnessOverflow == MCSteepness \cup {Rat(1000, 1)}
MCStartsOverflow == MCStarts \cup {One}
=============================================================================

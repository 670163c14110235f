----------------------------- MODULE MCRealBets -----------------------------
(***************************************************************************)
(* RealBets on small instances: all batches on contest 1, which later      *)
(* contests push out of the repair window, or every batch on a contest of  *)
(* its own.                                                                *)
(***************************************************************************)
EXTENDS RealBets, TLC

MCTarget == [b \in Batches |-> 1]

MCOneEach ==
    CHOOSE f \in [Batches -> Contests] : \A b, c \in Batches : f[b] = f[c] => b = c

MCSymmetry == Permutations(Users)
=============================================================================

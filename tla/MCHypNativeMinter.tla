-------------------------- MODULE MCHypNativeMinter --------------------------
(***************************************************************************)
(* Instance of HypNativeMinter for model checking: the sum of a function.  *)
(***************************************************************************)
EXTENDS HypNativeMinter, Folds

MCTotal(f) == MapThenFoldSet(+, 0, LAMBDA n : f[n], LAMBDA S : CHOOSE n \in S : TRUE, DOMAIN f)
=============================================================================

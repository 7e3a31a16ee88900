------------------------------ MODULE MCSession ------------------------------
(* One session of one run.  File names are only compared with each other.    *)
EXTENDS Session, TLC

NameSymmetry == Permutations(Names)
==============================================================================

------------------------------ MODULE MCLocker ------------------------------
(* The lock table alone, driven by every call any owner can make.           *)
EXTENDS Locker
=============================================================================

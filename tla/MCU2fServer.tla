---------------------------- MODULE MCU2fServer ----------------------------
(***************************************************************************)
(* U2fServer with threads, and accounts, that are interchangeable: no      *)
(* property names one.                                                     *)
(***************************************************************************)
EXTENDS U2fServer, TLC

Symmetric == Permutations(Threads) \cup Permutations(Accounts)
=============================================================================

---------------------------- MODULE MCSingleSigner ----------------------------
(***************************************************************************)
(* SingleSigner with three challenges, two of them for one key handle.     *)
(***************************************************************************)
EXTENDS SingleSigner

CONSTANTS h1, h2

Handle3 == <<h1, h2, h1>>
=============================================================================

----------------------------- MODULE MCGnubbies -----------------------------
(***************************************************************************)
(* Gnubbies with one key of each driver.                                   *)
(***************************************************************************)
EXTENDS Gnubbies

CONSTANTS hid, usb

KeyOfEachDriver == [id \in {hid, usb} |-> id]
=============================================================================

---------------------------- MODULE UsbSignHandler ----------------------------
(***************************************************************************)
(* usbsignhandler.js: answers with the first signature.  A key that knows  *)
(* none of the challenges is enrolled with a bogus challenge until the user*)
(* touches it, and only then its owner is told.                            *)
(*                                                                         *)
(* The signer asked the key for its version before, so gnubby.version calls*)
(* back at once, and succeeds.                                             *)
(***************************************************************************)
EXTENDS MultipleSigner

(***************************************************************************)
(* notifySuccess_ and notifyError_ when the gnubbies handed over are g.    *)
(* Neither looks at whether the handler was closed.                        *)
(***************************************************************************)
SignNotify(code, g) ==
    \/ /\ Notified
       /\ StaysOpen(g)
       /\ UNCHANGED answer
    \/ /\ ~Notified
       /\ answer' = code
       /\ Close(g)

Lists(k) == [gnubby EXCEPT ![k] = "listed"]

(***************************************************************************)
(* signerFoundGnubby_                                                      *)
(***************************************************************************)
SignFoundOk(k) ==
    /\ Reports(k)
    /\ found' = TRUE
    /\ HandedOver(k)
    /\ SignNotify("OK", [gnubby EXCEPT ![k] = IF Notified THEN "lost" ELSE "closed"])
    /\ AfterReport(k)
    /\ UNCHANGED <<orphans, error, cmd>>

SignFoundWrongData(k) ==
    /\ Reports(k)
    /\ found' = TRUE
    /\ HandedOver(k)
    /\ StaysOpen(Lists(k))
    /\ cmd' = [cmd EXCEPT ![k] = "enroll"]
    /\ AfterReport(k)
    /\ UNCHANGED <<orphans, answer, error>>

\* The same for a key of an unknown version, for which enroll throws in the end.
SignFoundUnknownVersion(k) ==
    /\ Reports(k)
    /\ found' = TRUE
    /\ HandedOver(k)
    /\ SignNotify("INVALID_DATA", Lists(k))
    /\ UNCHANGED <<orphans, outcome, error, cmd>>

\* Any other error closed the gnubby.
SignFoundError(k) ==
    /\ Reports(k)
    /\ found' = TRUE
    /\ \/ /\ More(k)
          /\ error' = "OTHER"
          /\ StaysOpen(gnubby)
          /\ UNCHANGED answer
       \/ /\ ~More(k)
          /\ SignNotify("OTHER", gnubby)
          /\ UNCHANGED error
    /\ AfterReport(k)
    /\ UNCHANGED <<orphans, cmd, tooLate>>

(***************************************************************************)
(* enrollCallback_ of the bogus enroll, which WAIT_TOUCH repeats at once.  *)
(* A closed gnubby answers that with GONE, before enroll returns, and GONE *)
(* ends it like all other errors do: silently.                             *)
(***************************************************************************)
BogusEnrollCallback(k, code) ==
    /\ cmd[k] = "enroll"
    /\ \/ /\ Notified \/ code \notin {"OK", "WAIT_TOUCH"}
          /\ cmd' = [cmd EXCEPT ![k] = None]
          /\ StaysOpen(gnubby)
          /\ UNCHANGED answer
       \/ /\ ~Notified /\ code = "WAIT_TOUCH"
          /\ cmd' = [cmd EXCEPT ![k] = IF gnubby[k] = "closed" THEN None ELSE "enroll"]
          /\ StaysOpen(gnubby)
          /\ UNCHANGED answer
       \/ /\ ~Notified /\ code = "OK"
          /\ cmd' = [cmd EXCEPT ![k] = None]
          /\ SignNotify("WRONG_DATA", gnubby)
    /\ UNCHANGED <<forEnroll, running, known, signing, enumerating, orphans, outcome, found,
                   error, late, tooLate>>

(***************************************************************************)
(* signerCompleted_, called when no signer is running.                     *)
(***************************************************************************)
SignCompleted ==
    /\ deferred
    /\ deferred' = FALSE
    /\ \/ ~found /\ SignNotify("TIMEOUT", gnubby)
       \/ found /\ error # None /\ SignNotify(error, gnubby)
       \/ found /\ error = None /\ StaysOpen(gnubby) /\ UNCHANGED answer
    /\ UNCHANGED <<forEnroll, running, known, signing, enumerating, orphans, complete, found,
                   error, late, cmd, tooLate>>
-----------------------------------------------------------------------------
SignReport(k) ==
    \/ SignFoundOk(k) \/ SignFoundWrongData(k)
    \/ SignFoundUnknownVersion(k) \/ SignFoundError(k)

SignCommandEnds(k) ==
    \E code \in {"OK", "WAIT_TOUCH", "OTHER"} : BogusEnrollCallback(k, code)
=============================================================================

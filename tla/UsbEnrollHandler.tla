--------------------------- MODULE UsbEnrollHandler ---------------------------
(***************************************************************************)
(* usbenrollhandler.js: has every key that does not know the challenges    *)
(* enroll, again and again until one is touched or the time is up.         *)
(*                                                                         *)
(* anyTimeout_ is left out: it is only set when timer_ expired, and only   *)
(* read where timer_ is read too.                                          *)
(***************************************************************************)
EXTENDS MultipleSigner

(***************************************************************************)
(* notifySuccess_ and notifyError_                                         *)
(***************************************************************************)
EnrollNotify(code, g) ==
    \/ /\ Notified \/ closed
       /\ StaysOpen(g)
       /\ UNCHANGED answer
    \/ /\ ~Notified /\ ~closed
       /\ answer' = code
       /\ Close(g)

(***************************************************************************)
(* removeWaitingGnubby_                                                    *)
(***************************************************************************)
\* Seeded fault: the gnubby leaves the list and stays open.
RemovedOpen(g, k) == [g EXCEPT ![k] = "lost"]

Removed(g, k) == [g EXCEPT ![k] = "closed"]

(***************************************************************************)
(* What removeWrongVersionGnubby_ and a GONE gnubby have in common: g are  *)
(* the gnubbies left.                                                      *)
(***************************************************************************)
AfterRemoval(g) ==
    /\ found' = (Listed(g) # {})
    /\ \/ /\ Listed(g) # {} \/ (~late /\ closed)
          /\ StaysOpen(g)
          /\ UNCHANGED <<answer, orphans>>
       \/ /\ Listed(g) = {} /\ late
          /\ EnrollNotify("TIMEOUT", g)
          /\ UNCHANGED orphans
       \/ /\ Listed(g) = {} /\ ~late /\ ~closed
          /\ ReScanDevices
          /\ gnubby' = g
          /\ UNCHANGED <<answer, closed, expired, shut>>
-----------------------------------------------------------------------------
(***************************************************************************)
(* signerFoundGnubby_.  A key that can sign is enrolled already, and its   *)
(* gnubby was closed, as after an error.                                   *)
(***************************************************************************)
EnrollFoundOther(k, code) ==
    /\ Reports(k)
    /\ EnrollNotify(code, gnubby)
    /\ AfterReport(k)
    /\ UNCHANGED <<orphans, found, error, cmd, tooLate>>

(***************************************************************************)
(* gnubbyPrerequisitesChecked_ for a key that does not know the challenges,*)
(* and tryEnroll_ if there is a challenge of its version; nothing asks     *)
(* whether the handler was closed.                                         *)
(***************************************************************************)
EnrollFoundLate(k) ==
    /\ Reports(k) /\ late
    /\ HandedOver(k)
    /\ StaysOpen([gnubby EXCEPT ![k] = "lost"])
    /\ AfterReport(k)
    /\ UNCHANGED <<orphans, answer, found, error, cmd>>

EnrollFound(k) ==
    /\ Reports(k) /\ ~late
    /\ HandedOver(k)
    /\ found' = TRUE
    /\ StaysOpen([gnubby EXCEPT ![k] = "listed"])
    /\ cmd' = [cmd EXCEPT ![k] = "enroll"]
    /\ AfterReport(k)
    /\ UNCHANGED <<orphans, answer, error>>

EnrollFoundWrongVersion(k) ==
    /\ Reports(k) /\ ~late
    /\ HandedOver(k)
    /\ AfterRemoval(Removed(gnubby, k))
    /\ AfterReport(k)
    /\ UNCHANGED <<error, cmd>>

(***************************************************************************)
(* enrollCallback_; "WAIT" is WAIT_TOUCH, BUSY or TIMEOUT.                 *)
(***************************************************************************)
Ended(k, next) == cmd[k] = "enroll" /\ cmd' = [cmd EXCEPT ![k] = next]
EnrollKeeps == UNCHANGED <<forEnroll, running, known, signing, enumerating, error, late, tooLate>>

EnrollIgnored(k) ==
    /\ Notified
    /\ Ended(k, None)
    /\ StaysOpen(gnubby)
    /\ EnrollKeeps /\ UNCHANGED <<answer, found, orphans, outcome>>

EnrollGone(k) ==
    /\ ~Notified
    /\ Ended(k, None)
    /\ AfterRemoval(Removed(gnubby, k))
    /\ EnrollKeeps /\ UNCHANGED <<outcome>>

\* Seeded fault: the time that is up is not looked at.
EnrollWaitOn(k) ==
    /\ ~Notified
    /\ Ended(k, "timer")
    /\ StaysOpen(gnubby)
    /\ EnrollKeeps /\ UNCHANGED <<answer, found, orphans, outcome>>

EnrollWait(k) ==
    /\ ~Notified
    /\ \/ /\ ~late
          /\ Ended(k, "timer")
          /\ StaysOpen(gnubby)
          /\ UNCHANGED answer
       \/ /\ late
          /\ Ended(k, None)
          /\ IF Listed(Removed(gnubby, k)) = {}
               THEN EnrollNotify("TIMEOUT", Removed(gnubby, k))
               ELSE StaysOpen(Removed(gnubby, k)) /\ UNCHANGED answer
    /\ EnrollKeeps /\ UNCHANGED <<found, orphans, outcome>>

EnrollEnds(k, code) ==
    /\ ~Notified
    /\ Ended(k, None)
    /\ EnrollNotify(code, gnubby)
    /\ EnrollKeeps /\ UNCHANGED <<found, orphans, outcome>>

(***************************************************************************)
(* tryEnroll_ again, after a while.  A gnubby closed since is GONE at once.*)
(***************************************************************************)
RetryEnroll(k) ==
    /\ cmd[k] = "timer"
    /\ \/ /\ gnubby[k] # "closed"
          /\ cmd' = [cmd EXCEPT ![k] = "enroll"]
          /\ StaysOpen(gnubby)
          /\ UNCHANGED <<answer, found, orphans>>
       \/ /\ gnubby[k] = "closed" /\ Notified
          /\ cmd' = [cmd EXCEPT ![k] = None]
          /\ StaysOpen(gnubby)
          /\ UNCHANGED <<answer, found, orphans>>
       \/ /\ gnubby[k] = "closed" /\ ~Notified
          /\ cmd' = [cmd EXCEPT ![k] = None]
          /\ AfterRemoval(gnubby)
    /\ EnrollKeeps /\ UNCHANGED <<outcome>>

(***************************************************************************)
(* signerCompleted_, called when no signer is running.                     *)
(***************************************************************************)
EnrollCompleted ==
    /\ deferred
    /\ deferred' = FALSE
    /\ \/ /\ ~found \/ late
          /\ EnrollNotify("TIMEOUT", gnubby)
       \/ /\ found /\ ~late
          /\ StaysOpen(gnubby)
          /\ UNCHANGED answer
    /\ UNCHANGED <<orphans, complete, found, cmd>>
    /\ EnrollKeeps
-----------------------------------------------------------------------------
EnrollReport(k) ==
    \/ EnrollFoundOther(k, "WRONG_DATA") \/ EnrollFoundOther(k, "OTHER")
    \/ EnrollFoundLate(k) \/ EnrollFound(k) \/ EnrollFoundWrongVersion(k)

EnrollCommandEnds(k) ==
    \/ EnrollIgnored(k) \/ EnrollGone(k) \/ EnrollWait(k)
    \/ EnrollEnds(k, "OK") \/ EnrollEnds(k, "OTHER")
=============================================================================

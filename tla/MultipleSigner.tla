---------------------------- MODULE MultipleSigner ----------------------------
(***************************************************************************)
(* multiplesigner.js: a MultipleGnubbySigner looks for keys again and again*)
(* and runs a SingleGnubbySigner on each key it finds, once.  It reports   *)
(* each outcome to the handler that owns it, and, when the time is up and  *)
(* no signer is running, that all are complete.                            *)
(*                                                                         *)
(* The variables of the two handlers that own one, UsbSignHandler and      *)
(* UsbEnrollHandler, are declared here too, as their calls come back into  *)
(* the signer before they return.  What SingleSigner allows a signer to    *)
(* report is an external choice; a signer that was closed may still report,*)
(* or never.                                                               *)
(***************************************************************************)
EXTENDS Naturals

CONSTANT Keys           \* the ids enumerate may return

VARIABLES
    forEnroll,          \* the handler is a UsbEnrollHandler
    running,            \* run was called
    known,              \* the keys in gnubbies_
    signing,            \* those whose tracker is stillGoing
    shut,               \* those whose signer was closed
    enumerating,        \* calls of enumerate outstanding
    interval,           \* reenumerateIntervalTimer_ runs
    orphans,            \* timers that were overwritten there while they ran
    expired,            \* timer_, reenumerateTimer_: expired or cleared
    complete, deferred, \* complete_; the call of allCompleteCb_ is scheduled
    closed,             \* the handler closed, and has no signer_ any more
    answer,             \* what the handler called cb_ with; # None: notified_
    found,              \* anyGnubbiesFound_
    error,              \* signerError_
    late,               \* the handler's timer_ expired
    gnubby,             \* the gnubbies signers handed over, see below
    cmd,                \* what they are doing: "none", "enroll", "timer"
    tooLate             \* keys handed over after close, or to enroll when time was up

None == "none"
More(k) == signing \ {k} # {}
Listed(g) == {k \in Keys : g[k] = "listed"}
Notified == answer # None

looking == <<enumerating, interval, orphans>>
outcome == <<complete, deferred>>
owner == <<closed, answer, found, error, late, gnubby, cmd, tooLate>>
vars == <<forEnroll, running, known, signing, shut, looking, expired, outcome, owner>>

(***************************************************************************)
(* A gnubby is handed over with the outcome.  It is then "listed", in      *)
(* notEnrolledGnubbies_ or waitingForTouchGnubbies_; "closed", as soon as  *)
(* closeWhenIdle is called; or "lost", left open and nowhere listed.       *)
(***************************************************************************)
Init ==
    /\ forEnroll \in BOOLEAN /\ running = FALSE
    /\ known = {} /\ signing = {} /\ shut = {}
    /\ enumerating = 0 /\ interval = FALSE /\ orphans = 0 /\ expired = FALSE
    /\ complete = FALSE /\ deferred = FALSE
    /\ closed = FALSE /\ answer = None /\ found = FALSE /\ error = None /\ late = FALSE
    /\ gnubby = [k \in Keys |-> None] /\ cmd = [k \in Keys |-> None]
    /\ tooLate = {}

\* The handler's run, and doSign.
Run ==
    /\ ~running
    /\ running' = TRUE
    /\ enumerating' = 1
    /\ UNCHANGED <<forEnroll, known, signing, shut, interval, orphans, expired, outcome, owner>>
-----------------------------------------------------------------------------
\* timeout_, which calls allCompleteCb_ once, and later.
Timeout ==
    /\ complete' = TRUE
    /\ deferred' = (deferred \/ ~complete)

(***************************************************************************)
(* maybeReEnumerateGnubbies_ while the signers in pending run: a new timer *)
(* takes the place of the one that may be running.                         *)
(***************************************************************************)
MaybeReEnumerate(pending) ==
    \/ /\ expired /\ pending = {}
       /\ Timeout
       /\ UNCHANGED <<interval, orphans>>
    \/ /\ expired /\ pending # {}
       /\ UNCHANGED <<interval, orphans, outcome>>
    \/ /\ ~expired
       /\ interval' = TRUE
       /\ orphans' = IF interval THEN orphans + 1 ELSE orphans
       /\ UNCHANGED outcome

(***************************************************************************)
(* reScanDevices, which only a handler calls that is neither closed nor out*)
(* of time.  Then the signer's timers, which are younger, run on (Timers). *)
(***************************************************************************)
ReScanDevices ==
    /\ interval' = TRUE
    /\ UNCHANGED orphans

(***************************************************************************)
(* enumerateCallback_ and addGnubby_.  A failed enumeration found no keys. *)
(***************************************************************************)
\* Seeded fault: nobody looks again once a key was found.
EnumerateCallbackOnce(ids) ==
    /\ enumerating > 0
    /\ enumerating' = enumerating - 1
    /\ known' = known \cup ids
    /\ signing' = signing \cup (ids \ known)
    /\ IF ids = {} THEN MaybeReEnumerate(signing) ELSE UNCHANGED <<interval, orphans, outcome>>
    /\ UNCHANGED <<forEnroll, running, shut, expired, owner>>

EnumerateCallback(ids) ==
    /\ enumerating > 0
    /\ enumerating' = enumerating - 1
    /\ \/ /\ complete
          /\ UNCHANGED <<known, signing, interval, orphans, outcome>>
       \/ /\ ~complete
          /\ known' = known \cup ids
          /\ signing' = signing \cup (ids \ known)
          /\ MaybeReEnumerate(signing')
    /\ UNCHANGED <<forEnroll, running, shut, expired, owner>>

\* An interval timer, the current or an overwritten one, has keys enumerated.
IntervalExpires ==
    /\ interval
    /\ interval' = FALSE
    /\ enumerating' = enumerating + 1
    /\ UNCHANGED <<forEnroll, running, known, signing, shut, orphans, expired, outcome, owner>>

OrphanExpires ==
    /\ orphans > 0
    /\ orphans' = orphans - 1
    /\ enumerating' = enumerating + 1
    /\ UNCHANGED <<forEnroll, running, known, signing, shut, interval, expired, outcome, owner>>

(***************************************************************************)
(* The timers of the signer are created after the handler's.  They have no *)
(* callbacks.                                                              *)
(***************************************************************************)
HandlerTimerExpires ==
    /\ running /\ ~late
    /\ late' = TRUE
    /\ UNCHANGED <<forEnroll, running, known, signing, shut, looking, expired, outcome, closed,
                   answer, found, error, gnubby, cmd, tooLate>>

SignerTimerExpires ==
    /\ late /\ ~expired
    /\ expired' = TRUE
    /\ UNCHANGED <<forEnroll, running, known, signing, shut, looking, outcome, owner>>
-----------------------------------------------------------------------------
(***************************************************************************)
(* signCompletedCallback_ counts k as complete (numComplete_ is the number *)
(* of known keys not signing).  Keys that are gone are squelched; any other*)
(* outcome is put to the handler, which may close this signer.             *)
(***************************************************************************)
SignerGone(k) ==
    /\ k \in signing
    /\ signing' = signing \ {k}
    /\ \/ More(k) /\ UNCHANGED <<interval, orphans, outcome>>
       \/ ~More(k) /\ MaybeReEnumerate({})
    /\ UNCHANGED <<forEnroll, running, known, shut, enumerating, expired, owner>>

Reports(k) ==
    /\ k \in signing
    /\ signing' = signing \ {k}
    /\ UNCHANGED <<forEnroll, running, known, enumerating, late>>

\* Seeded fault: the last signer to report does not end the wait.
AfterReportWaits(k) == UNCHANGED outcome

\* What signCompletedCallback_ does after the handler returned.
AfterReport(k) ==
    \/ ~More(k) /\ expired' /\ Timeout
    \/ (More(k) \/ ~expired') /\ UNCHANGED outcome

(***************************************************************************)
(* close, of the handler and of its signer: gnubbies g that are listed are *)
(* closed.                                                                 *)
(***************************************************************************)
\* Seeded fault: close empties the list and closes nothing.
ForgottenAll(g) == [k \in Keys |-> IF g[k] = "listed" THEN "lost" ELSE g[k]]

ClosedAll(g) == [k \in Keys |-> IF g[k] = "listed" THEN "closed" ELSE g[k]]

Close(g) ==
    /\ gnubby' = ClosedAll(g)
    /\ closed' = TRUE
    /\ \/ closed /\ UNCHANGED <<interval, expired, shut>>
       \/ ~closed /\ interval' = FALSE /\ expired' = TRUE /\ shut' = known

OwnerCloses ==
    /\ running
    /\ Close(gnubby)
    /\ UNCHANGED <<forEnroll, running, known, signing, enumerating, orphans, outcome, answer,
                   found, error, late, cmd, tooLate>>

\* Nothing closes, and the gnubbies become g.
StaysOpen(g) == gnubby' = g /\ UNCHANGED <<closed, interval, expired, shut>>

HandedOver(k) ==
    tooLate' = IF closed \/ (forEnroll /\ late) THEN tooLate \cup {k} ELSE tooLate
=============================================================================

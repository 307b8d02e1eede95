----------------------------- MODULE UsbHandlers -----------------------------
(***************************************************************************)
(* usbhelper.js: a request to sign or to enroll, handled by one of the two *)
(* handlers over a MultipleGnubbySigner.                                   *)
(***************************************************************************)
EXTENDS UsbSignHandler, UsbEnrollHandler

Enumerated == \E ids \in SUBSET Keys : EnumerateCallback(ids)
Report(k) ==
    \/ SignerGone(k)
    \/ ~forEnroll /\ SignReport(k)
    \/ forEnroll /\ EnrollReport(k)
CommandEnds(k) ==
    \/ ~forEnroll /\ SignCommandEnds(k)
    \/ forEnroll /\ EnrollCommandEnds(k)
AllComplete ==
    \/ ~forEnroll /\ SignCompleted
    \/ forEnroll /\ EnrollCompleted

Next ==
    \/ Run \/ OwnerCloses \/ HandlerTimerExpires \/ SignerTimerExpires
    \/ Enumerated \/ IntervalExpires \/ OrphanExpires \/ AllComplete
    \/ \E k \in Keys : Report(k) \/ CommandEnds(k) \/ RetryEnroll(k)

Spec == Init /\ [][Next]_vars

(***************************************************************************)
(* Timers fire, what was scheduled is called, an enumeration calls back and*)
(* so does a command (GnubbyClient), and a signer reports that was not     *)
(* closed (SingleSigner).  A bogus enroll may be answered by WAIT_TOUCH for*)
(* ever, unless the handler has answered or the gnubby is closed.          *)
(***************************************************************************)
EndsUntouched(k) == forEnroll \/ Notified \/ gnubby[k] = "closed"

Fairness ==
    /\ WF_vars(HandlerTimerExpires) /\ WF_vars(SignerTimerExpires)
    /\ WF_vars(Enumerated) /\ WF_vars(IntervalExpires) /\ WF_vars(OrphanExpires)
    /\ WF_vars(AllComplete)
    /\ \A k \in Keys :
        /\ WF_vars(k \notin shut /\ Report(k))
        /\ WF_vars(EndsUntouched(k) /\ CommandEnds(k))
        /\ WF_vars(RetryEnroll(k))

FairSpec == Spec /\ Fairness
-----------------------------------------------------------------------------
\* The signer's timers outlast the handler's, unless the handler clears them.
Timers == expired => late \/ closed

(***************************************************************************)
(* Until all are complete or the handler is closed, somebody goes on       *)
(* looking for keys - however rescans, overwritten timers and enumerations *)
(* under way overlap - or a signer still runs that will end the wait.      *)
(***************************************************************************)
KeepsLooking ==
    running /\ ~complete /\ ~closed =>
        \/ enumerating > 0 \/ interval \/ orphans > 0
        \/ expired /\ signing # {}

(***************************************************************************)
(* When the handler is closed, by itself or by its owner, every gnubby that*)
(* was handed to it before, and in time, is closed.                        *)
(***************************************************************************)
GnubbiesClosed ==
    closed => \A k \in Keys : gnubby[k] \in {"listed", "lost"} => k \in tooLate

(***************************************************************************)
(* Once the handler is closed no key is told any more to enroll, and blinks*)
(* for the user: close cancels no retry, nor the prerequisite checks under *)
(* way (usbenrollhandler.js:285, 109), so only what it closed holds them   *)
(* off.  A key that is handed over after close is told to all the same, as *)
(* gnubbyPrerequisitesChecked_ and sendBogusEnroll_ do not look at close.  *)
(***************************************************************************)
NoPromptAfterClose ==
    [][\A k \in Keys :
         closed /\ cmd[k] # "enroll" /\ cmd'[k] = "enroll" => k \in tooLate']_vars

(***************************************************************************)
(* The keys told to enroll before, or too late, stop for good some time    *)
(* after close, retries (usbenrollhandler.js:285) and repeated bogus       *)
(* enrolls (usbsignhandler.js:190) included; but a sign handler closed by  *)
(* its owner goes on with a key that was handed over too late.             *)
(***************************************************************************)
PromptsEnd ==
    closed ~> [](\A k \in Keys :
                   cmd[k] = None \/ (~forEnroll /\ ~Notified /\ k \in tooLate))

\* A request to sign waits for the touch of a key that is not enrolled.
AwaitsTouch == ~forEnroll /\ \E k \in Keys : cmd[k] = "enroll"

(***************************************************************************)
(* A request to sign is over without an answer: the bogus enrolls of all   *)
(* keys found ended with an error (usbsignhandler.js:185-200), and         *)
(* signerCompleted_ took it that "signerFoundGnubby_ will have returned    *)
(* results from other gnubbies" (usbsignhandler.js:80).                    *)
(***************************************************************************)
SilentEnd ==
    /\ ~forEnroll /\ complete /\ ~deferred /\ signing = {}
    /\ found /\ error = None /\ Listed(gnubby) # {}
    /\ \A k \in Keys : cmd[k] = None

(***************************************************************************)
(* A request that is run is answered, if nobody closes it, unless it waits *)
(* for a touch for ever or comes to the one silent end.                    *)
(***************************************************************************)
HandlerAnswers ==
    running ~> \/ answer # None \/ closed
               \/ SilentEnd
               \/ []AwaitsTouch
=============================================================================

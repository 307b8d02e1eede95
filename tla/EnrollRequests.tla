--------------------------- MODULE EnrollRequests ---------------------------
(***************************************************************************)
(* A request to enroll, from the message that carries it to the response:  *)
(* enroller.js with its watchdog, the handler of delegatinghelper.js that  *)
(* has several helpers try, externalhelper.js, and the ports and the check *)
(* for a foreground tab of u2fbackground.js.  AppIdChecker is the check of *)
(* its app ids.  Enroll requests are not queued and share nothing, so      *)
(* there is one.                                                           *)
(*                                                                         *)
(* Unlike SignRequests nothing here is called back while it is busy: close *)
(* goes down from the watchdog to the helpers, and a response goes up, so  *)
(* a callback of the browser is one step.  Timers are as in SignRequests.  *)
(***************************************************************************)
EXTENDS AppIdChecker, Naturals, Sequences, FiniteSets

CONSTANTS
    Helpers,        \* what helpers_ of the DelegatingHelper holds
    Patience        \* the kinds of timeout, as in SignRequests

ASSUME HelpersAssumption == IsFiniteSet(Helpers)
ASSUME PatienceAssumption == Patience \subseteq {"long", "short", "none"}

VARIABLES
    patience,           \* of the request, once it came
    portOpen,           \* the page's message channel
    portCloseable,      \* the channel's closeable is this request's watchdog
    waiting,            \* the promise the Enroller waits for, or "nothing"
    done,               \* Enroller.done_
    timer,              \* Enroller.timer_ runs
    notifyAtEnd,        \* timer_ is the clone that notifies
    watchdog,           \* WatchdogRequestHandler.timer_ runs
    wclosed,            \* WatchdogRequestHandler.closed_
    handler,            \* Enroller.handler_
    delegateDone,       \* DelegatingRequestHandler.done_
    stillRunning,       \* stillRunningHelpers_
    running,            \* helpers that accepted and did not answer yet
    helpersClosed,      \* helpers whose handler was closed
    sent,               \* answers given to sendResponse
    foreground,         \* answers that wait for tabInForeground
    received            \* what the page received

pageVars == <<patience, portOpen, portCloseable>>
enrollerVars == <<waiting, done, timer, notifyAtEnd, handler>>
watchdogVars == <<watchdog, wclosed>>
helperVars == <<delegateDone, stillRunning, running, helpersClosed>>
responseVars == <<sent, foreground, received>>
vars == <<pageVars, enrollerVars, watchdogVars, helperVars, responseVars, checkerVars>>

Init ==
    /\ patience = "not come" /\ portOpen = TRUE /\ portCloseable = FALSE
    /\ waiting = "nothing" /\ done = FALSE /\ timer = FALSE /\ notifyAtEnd = FALSE
    /\ handler = FALSE /\ watchdog = FALSE /\ wclosed = FALSE
    /\ delegateDone = FALSE /\ stillRunning = 0
    /\ running = {} /\ helpersClosed = {}
    /\ sent = <<>> /\ foreground = <<>> /\ received = <<>>
    /\ InitChecker

(***************************************************************************)
(* sendResponseOnce gives the answer to sendResponseToActiveTabOnly.  Its  *)
(* sentResponse is a copy and always false.                                *)
(***************************************************************************)
SendResponse(answer) ==
    /\ sent' = Append(sent, answer)
    /\ foreground' = Append(foreground, answer)
    /\ UNCHANGED received

\* DelegatingRequestHandler.close, if the Enroller has one.
CloseHelpers ==
    /\ delegateDone' = (delegateDone \/ handler)
    /\ helpersClosed' = IF handler THEN Helpers ELSE helpersClosed

\* Enroller.close.
CloseEnroller ==
    /\ done' = TRUE
    /\ handler' = FALSE
    /\ CloseHelpers

\* WatchdogRequestHandler.close, up to the Enroller it closes.
CloseWatchdog ==
    /\ wclosed' = TRUE
    /\ watchdog' = FALSE

(***************************************************************************)
(* Enroller.notifyError_ and notifySuccess_, whose callbacks are not those *)
(* the watchdog wrapped.                                                   *)
(***************************************************************************)
\* Seeded fault: an Enroller that is done responds again.
NotifyAgain(answer) ==
    /\ CloseEnroller /\ CloseWatchdog
    /\ SendResponse(answer)

Notify(answer) ==
    \/ /\ done
       /\ UNCHANGED <<done, handler, delegateDone, helpersClosed, watchdogVars, responseVars>>
    \/ /\ ~done
       /\ CloseEnroller /\ CloseWatchdog
       /\ SendResponse(answer)

Silent == UNCHANGED <<done, handler, delegateDone, helpersClosed, watchdogVars, responseVars>>
-----------------------------------------------------------------------------
(***************************************************************************)
(* handleU2fEnrollRequest, of a valid and of an invalid request, and       *)
(* another message on the same channel, which replaces its closeable.      *)
(***************************************************************************)
HandleEnrollRequest(how) ==
    /\ patience = "not come" /\ portOpen
    /\ patience' = how
    /\ portCloseable' = TRUE
    /\ watchdog' = (how # "none")
    /\ timer' = (how = "long")
    /\ waiting' = "tab"
    /\ UNCHANGED <<checkerVars, portOpen, done, notifyAtEnd, handler, wclosed, helperVars, responseVars>>

InvalidRequest ==
    /\ patience = "not come" /\ portOpen
    /\ patience' = "none"
    /\ SendResponse("BAD_REQUEST")
    /\ UNCHANGED <<checkerVars, portOpen, portCloseable, enrollerVars, watchdogVars, helperVars>>

OtherRequest ==
    /\ portOpen /\ portCloseable
    /\ portCloseable' = FALSE
    /\ UNCHANGED <<checkerVars, patience, portOpen, enrollerVars, watchdogVars, helperVars, responseVars>>

Disconnect ==
    /\ portOpen
    /\ portOpen' = FALSE
    /\ \/ portCloseable /\ CloseEnroller /\ CloseWatchdog
       \/ ~portCloseable /\ UNCHANGED <<done, handler, delegateDone, helpersClosed, watchdogVars>>
    /\ UNCHANGED <<checkerVars, patience, portCloseable, waiting, timer, notifyAtEnd, stillRunning, running, responseVars>>

\* tabInForeground resolves; a page in the background gets no response.
InForeground(result) ==
    /\ foreground # <<>>
    /\ foreground' = Tail(foreground)
    /\ received' = IF result /\ portOpen THEN Append(received, Head(foreground)) ELSE received
    /\ UNCHANGED <<pageVars, checkerVars, enrollerVars, watchdogVars, helperVars, sent>>
-----------------------------------------------------------------------------
(***************************************************************************)
(* getTabIdWhenPossible.  The error path closes the Enroller first, and    *)
(* then notifyError_ returns early: nothing is sent.                       *)
(***************************************************************************)
TabKnown ==
    /\ waiting = "tab"
    /\ waiting' = IF done THEN "nothing" ELSE "approval"
    /\ UNCHANGED <<pageVars, checkerVars, done, timer, notifyAtEnd, handler, watchdogVars, helperVars,
                   responseVars>>

TabUnknown ==
    /\ waiting = "tab"
    /\ waiting' = "nothing"
    /\ CloseEnroller
    /\ UNCHANGED <<pageVars, checkerVars, timer, notifyAtEnd, watchdogVars, stillRunning, running,
                   responseVars>>

(***************************************************************************)
(* isApprovedOrigin resolves: approveOrigin_, then                         *)
(* sendEnrollRequestToHelper_ up to canClaimAppIds.  A page that is not    *)
(* approved is told when its time is up.                                   *)
(***************************************************************************)
OriginApproved(result) ==
    /\ waiting = "approval"
    /\ waiting' = IF result /\ ~done THEN "claim" ELSE "nothing"
    /\ \/ /\ done \/ result
          /\ Silent /\ UNCHANGED notifyAtEnd
       \/ /\ ~done /\ ~result /\ ~timer
          /\ Notify("TIMEOUT") /\ UNCHANGED notifyAtEnd
       \/ /\ ~done /\ ~result /\ timer
          /\ notifyAtEnd' = TRUE
          /\ Silent
    /\ UNCHANGED <<pageVars, checkerVars, timer, stillRunning, running>>

(***************************************************************************)
(* canClaimAppIds resolves: originChecked_, whether done or not.           *)
(***************************************************************************)
OriginRefused ==
    /\ waiting = "claim"
    /\ waiting' = "nothing"
    /\ Notify("BAD_REQUEST")
    /\ UNCHANGED <<pageVars, checkerVars, timer, notifyAtEnd, stillRunning, running>>

OriginClaims(same, bad) ==
    /\ waiting = "claim"
    /\ waiting' = "appId"
    /\ CheckAppIds(same, bad, timer)
    /\ UNCHANGED <<pageVars, done, timer, notifyAtEnd, handler, watchdogVars, helperVars,
                   responseVars>>

(***************************************************************************)
(* checkAppIds resolves, and a DelegatingRequestHandler is made and run.   *)
(* Helpers call back later, never before run returns.  When none accepts,  *)
(* run returns false, which the Enroller ignores.                          *)
(***************************************************************************)
RunHelpers(accepted) ==
    /\ handler' = TRUE
    /\ running' = accepted
    /\ stillRunning' = Cardinality(accepted)

\* Seeded fault: an Enroller that was closed goes on.
AppIdCheckedUnguarded(accepted) ==
    /\ waiting = "appId" /\ AllChecked /\ AllListed
    /\ waiting' = "nothing"
    /\ RunHelpers(accepted)
    /\ UNCHANGED <<pageVars, checkerVars, done, timer, notifyAtEnd, delegateDone, helpersClosed,
                   watchdogVars, responseVars>>

AppIdChecked(accepted) ==
    /\ waiting = "appId" /\ AllChecked /\ AllListed
    /\ waiting' = "nothing"
    /\ \/ done /\ UNCHANGED <<handler, running, stillRunning>>
       \/ ~done /\ RunHelpers(accepted)
    /\ UNCHANGED <<pageVars, checkerVars, done, timer, notifyAtEnd, delegateDone, helpersClosed,
                   watchdogVars, responseVars>>

AppIdRefused ==
    /\ waiting = "appId" /\ AllChecked /\ ~AllListed
    /\ waiting' = "nothing"
    /\ Notify("BAD_REQUEST")
    /\ UNCHANGED <<pageVars, checkerVars, timer, notifyAtEnd, stillRunning, running>>
-----------------------------------------------------------------------------
(***************************************************************************)
(* A helper answers, once; one that was closed may answer all the same     *)
(* (UsbHandlers), an ExternalHandler does not.  helperComplete_ of the     *)
(* DelegatingRequestHandler, then that of the Enroller.                    *)
(***************************************************************************)
Answers(h) == h \in running /\ running' = running \ {h}

HelperSucceeds(h) ==
    /\ Answers(h)
    /\ IF delegateDone THEN Silent ELSE Notify("OK")
    /\ UNCHANGED <<pageVars, checkerVars, waiting, timer, notifyAtEnd, stillRunning>>

HelperFails(h) ==
    /\ Answers(h)
    /\ \/ /\ delegateDone
          /\ Silent /\ UNCHANGED stillRunning
       \/ /\ ~delegateDone
          /\ stillRunning' = stillRunning - 1
          /\ IF stillRunning' = 0 THEN Notify("HELPER_ERROR") ELSE Silent
    /\ UNCHANGED <<pageVars, checkerVars, waiting, timer, notifyAtEnd>>

(***************************************************************************)
(* The timers.  The watchdog's callback sends the response itself.         *)
(***************************************************************************)
TimerExpires ==
    /\ timer
    /\ timer' = FALSE
    /\ IF notifyAtEnd THEN Notify("TIMEOUT") ELSE Silent
    /\ UNCHANGED <<pageVars, checkerVars, waiting, notifyAtEnd, stillRunning, running>>

\* Seeded fault: the watchdog closes the Enroller and tells nobody.
WatchdogTimeoutSilent ==
    /\ watchdog /\ ~timer
    /\ CloseEnroller /\ CloseWatchdog
    /\ UNCHANGED <<pageVars, checkerVars, waiting, timer, notifyAtEnd, stillRunning, running,
                   responseVars>>

WatchdogTimeout ==
    /\ watchdog /\ ~timer
    /\ CloseEnroller /\ CloseWatchdog
    /\ SendResponse("TIMEOUT")
    /\ UNCHANGED <<pageVars, checkerVars, waiting, timer, notifyAtEnd, stillRunning, running>>
-----------------------------------------------------------------------------
Checking ==
    /\ \/ \E a \in AppIds : FetchEnds(a)
       \/ CheckTimerExpires
    /\ UNCHANGED <<pageVars, enrollerVars, watchdogVars, helperVars, responseVars>>

Next ==
    \/ \E how \in Patience : HandleEnrollRequest(how)
    \/ InvalidRequest \/ OtherRequest \/ Disconnect
    \/ \E result \in BOOLEAN : InForeground(result) \/ OriginApproved(result)
    \/ TabKnown \/ TabUnknown \/ OriginRefused \/ AppIdRefused
    \/ \E same, bad \in SUBSET AppIds : OriginClaims(same, bad)
    \/ \E accepted \in SUBSET Helpers : AppIdChecked(accepted)
    \/ Checking
    \/ \E h \in Helpers : HelperSucceeds(h) \/ HelperFails(h)
    \/ TimerExpires \/ WatchdogTimeout

Spec == Init /\ [][Next]_vars

(***************************************************************************)
(* Only the timers are sure to come; promises and helpers may never.       *)
(***************************************************************************)
FairSpec ==
    /\ Spec
    /\ WF_vars(TimerExpires) /\ WF_vars(WatchdogTimeout)
    /\ WF_vars(Checking /\ CheckTimerExpires)
-----------------------------------------------------------------------------
(***************************************************************************)
(* At most one answer is sent.  sendResponseOnce does not see to it, nor   *)
(* do the watchdog's wrapped callbacks, which are not used: it takes the   *)
(* closing of each other by Enroller and watchdog.                         *)
(***************************************************************************)
OneEnrollResponse == Len(sent) <= 1

(***************************************************************************)
(* Once the request was answered or closed, no helper works on it that was *)
(* not told to stop, whichever check was under way.                        *)
(***************************************************************************)
HelpersStopped == done \/ wclosed => running \subseteq helpersClosed

(***************************************************************************)
(* An enroll request is answered, or its channel closes, though checks and *)
(* helpers never answer and whether a tab was found or not - unless its    *)
(* timeout is too short for a watchdog.                                    *)
(***************************************************************************)
EveryEnrollAnswered ==
    patience \in {"long", "short"} ~> sent # <<>> \/ ~portOpen

(***************************************************************************)
(* If every XMLHttpRequest ends, the check of the app ids does, whatever   *)
(* they end with and though the request is long answered: fetches are not  *)
(* repeated for ever.                                                      *)
(***************************************************************************)
FetchesEnd == \A a \in AppIds : WF_vars(Checking /\ FetchEnds(a))

AppIdCheckEnds == FetchesEnd => (fetching # {} ~> fetching = {})
=============================================================================

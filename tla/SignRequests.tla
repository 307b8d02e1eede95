---------------------------- MODULE SignRequests ----------------------------
(***************************************************************************)
(* The life of U2F sign requests for one appId and origin, from the message*)
(* that carries them to the response: u2fbackground.js (ports), signer.js  *)
(* (QueuedSignRequest and Signer), watchdog.js, webrequest.js and the      *)
(* TokenQueue they share.  Request r holds token r of the queue.           *)
(*                                                                         *)
(* JavaScript runs one callback at a time, but these objects call each     *)
(* other, and back, within one callback.  The variable stack holds the     *)
(* calls of the running callback that are still to be made, next call      *)
(* first; a new callback runs only when it is empty.                       *)
(*                                                                         *)
(* Timers have no clock here: a running timer may fire at any time, except *)
(* that the watchdog, set half a second or more later, fires after the     *)
(* request's own timers did.                                               *)
(***************************************************************************)
EXTENDS Naturals, Sequences

CONSTANTS
    MaxRequests,    \* bound on the number of sign requests in a run
    Ports,          \* message channels that requests come over
    NoPort,         \* stands for chrome.runtime.sendMessage: no channel
    Patience        \* the kinds of timeout requests come with, see below

ASSUME MaxRequestsAssumption == MaxRequests \in Nat
ASSUME PortsAssumption == NoPort \notin Ports

Requests == 1..MaxRequests
NoRequest == 0

(***************************************************************************)
(* A request's timeout decides which countdowns are ever armed: both the   *)
(* watchdog and the request's timer ("long"); only the watchdog, when the  *)
(* second attenuation leaves nothing ("short"); or neither, below half a   *)
(* second ("none").                                                        *)
(***************************************************************************)
ASSUME PatienceAssumption == Patience \subseteq {"long", "short", "none"}

Answers == {"OK", "HELPER_ERROR", "BAD_REQUEST", "TIMEOUT"}

VARIABLES
    lastId, completed, starting, timers, begins, overtaken,  \* TokenQueue
    port,               \* the channel each request came over
    openPorts,
    portCloseable,      \* port -> the request its closeable belongs to
    queuedTimers,       \* QueuedSignRequest.timer_ running
    begun, closed,      \* QueuedSignRequest.begun_, closed_
    checking,           \* the check a Signer waits for: "origin", "appId", "none"
    done,               \* Signer.done_
    signing,            \* requests with a helper handler running
    revived,            \* history: a helper was started for a Signer that was done
    watchdogs,          \* WatchdogRequestHandler.timer_ running
    calledBack,         \* WatchdogRequestHandler.calledBack_
    wclosed,            \* WatchdogRequestHandler.closed_
    wcloseable,         \* watchdogs that still have a closeable_
    responses,          \* the answers each web page received
    stack

queueVars == <<lastId, completed, starting, timers, begins, overtaken>>
portVars  == <<port, openPorts, portCloseable>>
queuedVars == <<queuedTimers, begun, closed>>
signerVars == <<checking, done, signing, revived>>
watchdogVars == <<watchdogs, calledBack, wclosed, wcloseable>>
vars == <<queueVars, portVars, queuedVars, signerVars, watchdogVars, responses, stack>>

Queue == INSTANCE TokenQueue WITH MaxTokens <- MaxRequests

Call(f, r) == [call |-> f, req |-> r, answer |-> "TIMEOUT"]
CallWith(f, r, a) == [call |-> f, req |-> r, answer |-> a]

Idle == stack = <<>>
Running(f) == stack # <<>> /\ Head(stack).call = f
Req == Head(stack).req
Answer == Head(stack).answer

(***************************************************************************)
(* The running call returns after making the given calls.                  *)
(***************************************************************************)
ThenCall(calls) == stack' = calls \o Tail(stack)
Return == ThenCall(<<>>)

(***************************************************************************)
(* RequestQueue.complete begins the request behind the one it removes.     *)
(***************************************************************************)
BeginBehind(r) ==
    IF \E u \in Queue!Members : Queue!IsNext(r, u)
      THEN <<Call("begin", CHOOSE u \in Queue!Members : Queue!IsNext(r, u))>>
      ELSE <<>>

Init ==
    /\ Queue!Init
    /\ port = [r \in Requests |-> NoPort]
    /\ openPorts = Ports
    /\ portCloseable = [p \in Ports |-> NoRequest]
    /\ queuedTimers = {} /\ begun = {} /\ closed = {}
    /\ checking = [r \in Requests |-> "none"] /\ done = {} /\ signing = {}
    /\ revived = {}
    /\ watchdogs = {} /\ calledBack = {} /\ wclosed = {} /\ wcloseable = {}
    /\ responses = [r \in Requests |-> <<>>]
    /\ stack = <<>>
-----------------------------------------------------------------------------
(***************************************************************************)
(* Callbacks of the browser: messages, timers, promises, disconnects.      *)
(***************************************************************************)

(***************************************************************************)
(* A valid sign request: validateAndEnqueueSignRequest makes its watchdog, *)
(* timer and QueuedSignRequest, queues it and returns the watchdog, which  *)
(* replaces whatever closeable the port had.                               *)
(***************************************************************************)
HandleSignRequest(how, p) ==
    /\ Idle
    /\ p = NoPort \/ p \in openPorts
    /\ Queue!QueueRequest(how = "long")
    /\ LET r == lastId + 1 IN
       /\ port' = [port EXCEPT ![r] = p]
       /\ portCloseable' = [q \in Ports |-> IF q = p THEN r ELSE portCloseable[q]]
       /\ queuedTimers' = IF how = "long" THEN queuedTimers \cup {r} ELSE queuedTimers
       /\ watchdogs' = IF how # "none" THEN watchdogs \cup {r} ELSE watchdogs
       /\ wcloseable' = wcloseable \cup {r}
    /\ UNCHANGED <<openPorts, begun, closed, signerVars, calledBack, wclosed,
                   responses, stack>>

(***************************************************************************)
(* Any other message on a channel: an invalid sign request, for which the  *)
(* handler answers at once and returns null, or a registration.  Its result*)
(* replaces the port's closeable as well.                                  *)
(***************************************************************************)
OtherRequest(p) ==
    /\ Idle
    /\ p \in openPorts
    /\ portCloseable' = [portCloseable EXCEPT ![p] = NoRequest]
    /\ UNCHANGED <<queueVars, port, openPorts, queuedVars, signerVars,
                   watchdogVars, responses, stack>>

(***************************************************************************)
(* The setTimeout(0) of queueRequest.                                      *)
(***************************************************************************)
StartNow(r) ==
    /\ Idle
    /\ Queue!StartNow(r)
    /\ stack' = IF r \in completed THEN <<>> ELSE <<Call("begin", r)>>
    /\ UNCHANGED <<portVars, queuedVars, signerVars, watchdogVars, responses>>

QueuedTimeout(r) ==
    /\ Idle
    /\ r \in queuedTimers
    /\ queuedTimers' = queuedTimers \ {r}
    /\ stack' = <<Call("close", r)>>
    /\ UNCHANGED <<queueVars, portVars, begun, closed, signerVars, watchdogVars, responses>>

(***************************************************************************)
(* The clone of the timer that queueRequest hangs the token's complete on. *)
(***************************************************************************)
TokenTimeout(r) ==
    /\ Idle
    /\ Queue!TimerFires(r)
    /\ stack' = BeginBehind(r)
    /\ UNCHANGED <<portVars, queuedVars, signerVars, watchdogVars, responses>>

(***************************************************************************)
(* WatchdogRequestHandler.timeout_; its callback is not a wrapped one.     *)
(***************************************************************************)
WatchdogTimeout(r) ==
    /\ Idle
    /\ r \in watchdogs
    /\ r \notin timers /\ r \notin queuedTimers
    /\ watchdogs' = watchdogs \ {r}
    /\ stack' = IF r \in calledBack \/ r \in wclosed THEN <<>>
                ELSE <<Call("respond", r)>>
    /\ UNCHANGED <<queueVars, portVars, queuedVars, signerVars,
                   calledBack, wclosed, wcloseable, responses>>

(***************************************************************************)
(* canClaimAppIds resolves: Signer.originChecked_.                         *)
(***************************************************************************)
OriginChecked(r, result) ==
    /\ Idle
    /\ checking[r] = "origin"
    /\ checking' = [checking EXCEPT ![r] = IF result THEN "appId" ELSE "none"]
    /\ stack' = IF result THEN <<>> ELSE <<CallWith("notify", r, "BAD_REQUEST")>>
    /\ UNCHANGED <<queueVars, portVars, queuedVars, done, signing, revived,
                   watchdogVars, responses>>

(***************************************************************************)
(* checkAppIds resolves: Signer.appIdChecked_ and, when the app ids are    *)
(* valid, doSign_.  result is FALSE as well when doSign_ returns false.    *)
(* Neither looks at done_: a Signer that was closed while it was checking  *)
(* still starts its helper.                                                *)
(***************************************************************************)
AppIdChecked(r, result) ==
    /\ Idle
    /\ checking[r] = "appId"
    /\ checking' = [checking EXCEPT ![r] = "none"]
    /\ signing' = IF result THEN signing \cup {r} ELSE signing
    /\ revived' = IF result THEN revived \cup ({r} \cap done) ELSE revived
    /\ stack' = IF result THEN <<>> ELSE <<CallWith("notify", r, "BAD_REQUEST")>>
    /\ UNCHANGED <<queueVars, portVars, queuedVars, done, watchdogVars, responses>>

(***************************************************************************)
(* The helper handler reports, once; what a handler reports that was       *)
(* closed (UsbHandlers) finds the Signer done and is ignored.              *)
(***************************************************************************)
HelperComplete(r, answer) ==
    /\ Idle
    /\ r \in signing
    /\ signing' = signing \ {r}
    /\ stack' = <<CallWith("notify", r, answer)>>
    /\ UNCHANGED <<queueVars, portVars, queuedVars, checking, done, revived,
                   watchdogVars, responses>>

Disconnect(p) ==
    /\ Idle
    /\ p \in openPorts
    /\ openPorts' = openPorts \ {p}
    /\ stack' = IF portCloseable[p] = NoRequest THEN <<>>
                ELSE <<Call("closeWatchdog", portCloseable[p])>>
    /\ UNCHANGED <<queueVars, port, portCloseable, queuedVars,
                   signerVars, watchdogVars, responses>>
-----------------------------------------------------------------------------
(***************************************************************************)
(* Calls within a callback.                                                *)
(***************************************************************************)

(***************************************************************************)
(* Seeded fault: an expired request is closed without telling the page.    *)
(***************************************************************************)
BeginExpiredSilent ==
    /\ Running("begin")
    /\ \/ /\ Req \notin queuedTimers
          /\ ThenCall(<<Call("close", Req)>>)
          /\ UNCHANGED <<queuedVars, checking>>
       \/ /\ Req \in queuedTimers
          /\ begun' = begun \cup {Req}
          /\ queuedTimers' = queuedTimers \ {Req}
          /\ checking' = [checking EXCEPT ![Req] = "origin"]
          /\ Return
          /\ UNCHANGED closed
    /\ UNCHANGED <<queueVars, portVars, done, signing, revived, watchdogVars, responses>>

(***************************************************************************)
(* QueuedSignRequest.begin.  A timer that was cleared counts as expired.   *)
(* setChallenges of a fresh Signer never returns false; it leaves the      *)
(* Signer waiting for canClaimAppIds.                                      *)
(***************************************************************************)
Begin ==
    /\ Running("begin")
    /\ \/ /\ Req \notin queuedTimers
          /\ ThenCall(<<Call("close", Req), Call("callback", Req)>>)
          /\ UNCHANGED <<queuedVars, checking>>
       \/ /\ Req \in queuedTimers
          /\ begun' = begun \cup {Req}
          /\ queuedTimers' = queuedTimers \ {Req}
          /\ checking' = [checking EXCEPT ![Req] = "origin"]
          /\ Return
          /\ UNCHANGED closed
    /\ UNCHANGED <<queueVars, portVars, done, signing, revived, watchdogVars, responses>>

(***************************************************************************)
(* Seeded fault: only a Signer that is closed gives its token back.        *)
(***************************************************************************)
CloseBegunOnly ==
    /\ Running("close")
    /\ IF Req \in closed THEN Return
       ELSE ThenCall((IF Req \in begun
                        THEN <<Call("closeSigner", Req), Call("complete", Req)>> ELSE <<>>)
                     \o <<Call("setClosed", Req)>>)
    /\ UNCHANGED <<queueVars, portVars, queuedVars, signerVars, watchdogVars, responses>>

(***************************************************************************)
(* Seeded fault: the token is given back while the Signer goes on.         *)
(***************************************************************************)
CloseKeepsSigner ==
    /\ Running("close")
    /\ IF Req \in closed THEN Return
       ELSE ThenCall(<<Call("complete", Req), Call("setClosed", Req)>>)
    /\ UNCHANGED <<queueVars, portVars, queuedVars, signerVars, watchdogVars, responses>>

(***************************************************************************)
(* QueuedSignRequest.close sets closed_ only after what it calls returned. *)
(***************************************************************************)
Close ==
    /\ Running("close")
    /\ IF Req \in closed THEN Return
       ELSE ThenCall((IF Req \in begun THEN <<Call("closeSigner", Req)>> ELSE <<>>)
                     \o <<Call("complete", Req), Call("setClosed", Req)>>)
    /\ UNCHANGED <<queueVars, portVars, queuedVars, signerVars, watchdogVars, responses>>

SetClosed ==
    /\ Running("setClosed")
    /\ closed' = closed \cup {Req}
    /\ Return
    /\ UNCHANGED <<queueVars, portVars, queuedTimers, begun, signerVars,
                   watchdogVars, responses>>

(***************************************************************************)
(* Signer.close: close the handler, then report TIMEOUT.                   *)
(***************************************************************************)
CloseSigner ==
    /\ Running("closeSigner")
    /\ signing' = signing \ {Req}
    /\ ThenCall(<<Call("notify", Req)>>)
    /\ UNCHANGED <<queueVars, portVars, queuedVars, checking, done, revived,
                   watchdogVars, responses>>

(***************************************************************************)
(* Signer.notifyError_ and notifySuccess_, then signerFailed_ or           *)
(* signerSucceeded_ of the QueuedSignRequest.                              *)
(***************************************************************************)
Notify ==
    /\ Running("notify")
    /\ \/ /\ Req \in done
          /\ Return
          /\ UNCHANGED <<done, signing>>
       \/ /\ Req \notin done
          /\ done' = done \cup {Req}
          /\ signing' = signing \ {Req}
          /\ ThenCall(<<Call("complete", Req), CallWith("callback", Req, Answer)>>)
    /\ UNCHANGED <<queueVars, portVars, queuedVars, checking, revived, watchdogVars,
                   responses>>

(***************************************************************************)
(* RequestToken.complete: leave the queue and begin the request behind.    *)
(***************************************************************************)
CompleteToken ==
    /\ Running("complete")
    /\ \/ /\ Req \in completed
          /\ Return
          /\ UNCHANGED queueVars
       \/ /\ Queue!Complete(Req)
          /\ ThenCall(BeginBehind(Req))
    /\ UNCHANGED <<portVars, queuedVars, signerVars, watchdogVars, responses>>

(***************************************************************************)
(* Seeded fault: a closed watchdog still passes the call on.               *)
(***************************************************************************)
WrappedCallbackUnchecked ==
    /\ Running("callback")
    /\ calledBack' = calledBack \cup {Req}
    /\ watchdogs' = watchdogs \ {Req}
    /\ ThenCall(<<CallWith("respond", Req, Answer)>>)
    /\ UNCHANGED <<queueVars, portVars, queuedVars, signerVars, wclosed, wcloseable, responses>>

(***************************************************************************)
(* A callback wrapped by the watchdog.                                     *)
(***************************************************************************)
WrappedCallback ==
    /\ Running("callback")
    /\ \/ /\ Req \in wclosed
          /\ Return
          /\ UNCHANGED <<calledBack, watchdogs>>
       \/ /\ Req \notin wclosed
          /\ calledBack' = calledBack \cup {Req}
          /\ watchdogs' = watchdogs \ {Req}
          /\ ThenCall(<<CallWith("respond", Req, Answer)>>)
    /\ UNCHANGED <<queueVars, portVars, queuedVars, signerVars, wclosed, wcloseable, responses>>

(***************************************************************************)
(* sendResponseOnce: its sentResponse is a copy, always false, so only the *)
(* watchdog it closes keeps a second response back.                        *)
(***************************************************************************)
Respond ==
    /\ Running("respond")
    /\ ThenCall(<<Call("closeWatchdog", Req), CallWith("send", Req, Answer)>>)
    /\ UNCHANGED <<queueVars, portVars, queuedVars, signerVars, watchdogVars, responses>>

CloseWatchdog ==
    /\ Running("closeWatchdog")
    /\ wclosed' = wclosed \cup {Req}
    /\ watchdogs' = watchdogs \ {Req}
    /\ ThenCall(IF Req \in wcloseable
                  THEN <<Call("close", Req), Call("dropCloseable", Req)>> ELSE <<>>)
    /\ UNCHANGED <<queueVars, portVars, queuedVars, signerVars, calledBack,
                   wcloseable, responses>>

DropCloseable ==
    /\ Running("dropCloseable")
    /\ wcloseable' = wcloseable \ {Req}
    /\ Return
    /\ UNCHANGED <<queueVars, portVars, queuedVars, signerVars, watchdogs,
                   calledBack, wclosed, responses>>

(***************************************************************************)
(* sendResponse throws, and is caught, when the page is gone.              *)
(***************************************************************************)
Send ==
    /\ Running("send")
    /\ responses' = IF port[Req] = NoPort \/ port[Req] \in openPorts
                      THEN [responses EXCEPT ![Req] = Append(@, Answer)]
                      ELSE responses
    /\ Return
    /\ UNCHANGED <<queueVars, portVars, queuedVars, signerVars, watchdogVars>>

RunCall ==
    \/ Begin \/ Close \/ SetClosed \/ CloseSigner \/ Notify \/ CompleteToken
    \/ WrappedCallback \/ Respond \/ CloseWatchdog \/ DropCloseable \/ Send

Next ==
    \/ RunCall
    \/ \E how \in Patience, p \in Ports \cup {NoPort} : HandleSignRequest(how, p)
    \/ \E p \in Ports : OtherRequest(p) \/ Disconnect(p)
    \/ \E r \in Requests :
         \/ StartNow(r) \/ QueuedTimeout(r) \/ TokenTimeout(r) \/ WatchdogTimeout(r)
         \/ \E result \in BOOLEAN : OriginChecked(r, result) \/ AppIdChecked(r, result)
         \/ \E answer \in {"OK", "HELPER_ERROR"} : HelperComplete(r, answer)

(***************************************************************************)
(* The browser finishes a callback and fires the timers that are due.  An  *)
(* origin or app id check, and a helper, may never answer.                 *)
(***************************************************************************)
Fairness ==
    /\ WF_vars(RunCall)
    /\ \A r \in Requests : /\ WF_vars(StartNow(r))
                           /\ WF_vars(QueuedTimeout(r))
                           /\ WF_vars(TokenTimeout(r))
                           /\ WF_vars(WatchdogTimeout(r))

Spec == Init /\ [][Next]_vars
FairSpec == Spec /\ Fairness
-----------------------------------------------------------------------------
Calls == {"begin", "close", "setClosed", "closeSigner", "notify", "complete",
          "callback", "respond", "closeWatchdog", "dropCloseable", "send"}

TypeOK ==
    /\ Queue!TypeOK
    /\ port \in [Requests -> Ports \cup {NoPort}]
    /\ openPorts \subseteq Ports
    /\ portCloseable \in [Ports -> 0..lastId]
    /\ queuedTimers \cup begun \cup closed \subseteq 1..lastId
    /\ checking \in [Requests -> {"origin", "appId", "none"}]
    /\ done \cup signing \cup revived \subseteq begun
    /\ watchdogs \cup calledBack \cup wclosed \cup wcloseable \subseteq 1..lastId
    /\ responses \in [Requests -> Seq(Answers)]
    /\ stack \in Seq([call : Calls, req : 1..lastId, answer : Answers])

PortOpen(r) == port[r] = NoPort \/ port[r] \in openPorts

(***************************************************************************)
(* A web page gets at most one response to a request, however the helper,  *)
(* the timers, the watchdog and the disconnect race.  sendResponseOnce's   *)
(* own sentinel does not achieve this (it is passed by value).             *)
(***************************************************************************)
AtMostOneResponse == \A r \in Requests : Len(responses[r]) <= 1

(***************************************************************************)
(* A request is at work from its begin until its Signer is done, and for as*)
(* long as its helper runs.                                                *)
(***************************************************************************)
AtWork == (begun \ done) \cup signing

(***************************************************************************)
(* Requests are signed one at a time: while no request was cancelled out   *)
(* of turn, two are at work together only if the token of one of them was  *)
(* completed by the expiry of its timer, or the helper of one of them was  *)
(* started after its Signer was done (closed while it waited for a check:  *)
(* originChecked_ and appIdChecked_ do not look at done_).                 *)
(***************************************************************************)
OneAtWork ==
    Idle /\ ~overtaken =>
        \A r, s \in AtWork :
            r # s => \E q \in {r, s} : q \notin timers \/ q \in revived

(***************************************************************************)
(* When a channel closes, the request whose closeable it holds is out of   *)
(* the queue, and its helper is stopped (unless started again by a check   *)
(* that answers a done Signer), by the end of the callback: whether it was *)
(* still queued, checking, with its helper, or just answering.  A request  *)
(* whose closeable was replaced is left to its timers.                     *)
(***************************************************************************)
DeadPortFreesQueue ==
    Idle =>
        \A p \in Ports \ openPorts :
            LET r == portCloseable[p] IN
            r # NoRequest => r \in completed /\ (r \in signing => r \in revived)

(***************************************************************************)
(* While no request was cancelled out of turn, a page that is told TIMEOUT *)
(* (other than by the helper) had its request's time run out.  A timer     *)
(* leaves timers only by firing, and is never there if armed with zero.    *)
(***************************************************************************)
TimeoutIsHonest ==
    ~overtaken =>
        \A r \in Requests : responses[r] = <<"TIMEOUT">> => r \notin timers

(***************************************************************************)
(* No sign request stays in the queue for good, whatever it waits for and  *)
(* however short its timeout: not even one whose channel is gone and whose *)
(* closeable was replaced by that of a later message.                      *)
(***************************************************************************)
EveryRequestLeavesQueue ==
    \A r \in Requests : r \in Queue!Issued ~> r \in completed

(***************************************************************************)
(* Every sign request on a channel that stays open is answered, even when  *)
(* checks and helpers never return.                                        *)
(***************************************************************************)
EveryRequestAnswered ==
    \A r \in Requests :
        r \in Queue!Issued ~> (Len(responses[r]) > 0 \/ ~PortOpen(r))
-----------------------------------------------------------------------------
(***************************************************************************)
(* signer.js:247 logs 'Queued request begun after timeout' where begin     *)
(* finds the timer expired: the request's time is then over.               *)
(***************************************************************************)
BegunExpiredMeansTimeout ==
    Running("begin") /\ Req \notin queuedTimers => Req \notin timers
=============================================================================

------------------------------ MODULE PageApi ------------------------------
(***************************************************************************)
(* The page's side of the conversation: u2f-api.js, and the Forwarder of   *)
(* u2f-comms.js for pages that reach the extension through an iframe.  The *)
(* extension answers a message at most once (SignRequests, EnrollRequests) *)
(* and in any order.                                                       *)
(*                                                                         *)
(* Everything the page asks for waits for one port, which is made on the   *)
(* first call.  A thunk is the callback that waits for it: to ask for the  *)
(* API version on behalf of a call, or to post the call's own request.     *)
(***************************************************************************)
EXTENDS Naturals, Sequences, FiniteSets

CONSTANT Calls          \* the calls of u2f.sign and u2f.register a page makes

NoThunk == [kind |-> "none", call |-> "none"]
Thunks == [kind : {"version", "request"}, call : Calls]

\* A mobile app stands in for the extension.
App == {"android", "ios"}

VARIABLES
    browser,        \* who answers: the extension ("runtime", "iframe") or an App
    called,         \* the calls made
    versionKnown,   \* js_api_version is defined
    port,           \* how far getMessagePort got; "open" once port_ is set
    connected,      \* messages reach the extension
    waitingForPort, \* waitingForPort_
    reqCounter,     \* reqCounter_
    callbackMap,    \* callbackMap_: the thunk whose callback an id belongs to
    posted,         \* messages with the extension: request id and thunk
    dropped,        \* calls whose response the extension dropped
    unread,         \* calls that the Android app answered without data
    results         \* what each call's callback was called with

apiVars == <<browser, called, versionKnown, port, connected, waitingForPort, reqCounter,
             callbackMap, posted, dropped, unread, results>>

ApiInit ==
    /\ browser \in {"runtime", "iframe"} \cup App
    /\ called = {} /\ versionKnown = FALSE
    /\ port = "none" /\ connected = TRUE
    /\ waitingForPort = <<>>
    /\ reqCounter = 0 /\ callbackMap = <<>>
    /\ posted = {} /\ dropped = {} /\ unread = {}
    /\ results = [c \in Calls |-> <<>>]

(***************************************************************************)
(* The thunks in s run in turn: each takes the next id, enters its         *)
(* callback and posts its message.  On a port to the mobile app the        *)
(* version is known at once, so a thunk that asks for it goes on to the    *)
(* request itself.  Ids are never reused, so callbackMap is a sequence.    *)
(***************************************************************************)
Message(thunk) == IF browser \in App THEN [thunk EXCEPT !.kind = "request"] ELSE thunk

Run(s) ==
    LET sent == [i \in 1..Len(s) |-> Message(s[i])] IN
    /\ reqCounter' = reqCounter + Len(s)
    /\ callbackMap' = callbackMap \o sent
    /\ posted' = IF connected
                   THEN posted \cup {[id |-> reqCounter + i, thunk |-> sent[i]] : i \in 1..Len(s)}
                   ELSE posted
    /\ versionKnown' = (versionKnown \/ (browser \in App /\ s # <<>>))

(***************************************************************************)
(* getMessagePort: a first message finds out whether the page may talk to  *)
(* the extension itself; if not, or without chrome.runtime, an iframe is   *)
(* set up.                                                                 *)
(***************************************************************************)
GetMessagePort ==
    port' = CASE browser = "runtime" -> "ping"
              [] browser = "iframe" -> "iframe"
              [] browser \in App -> "connecting"

\* Seeded fault: the thunk is queued before the queue is looked at.
GetPortSingletonPushesFirst(thunk) ==
    \/ /\ port = "open"
       /\ Run(<<thunk>>)
       /\ UNCHANGED <<port, waitingForPort>>
    \/ /\ port # "open"
       /\ waitingForPort' = Append(waitingForPort, thunk)
       /\ IF waitingForPort' = <<>> THEN GetMessagePort ELSE UNCHANGED port
       /\ UNCHANGED <<reqCounter, callbackMap, posted, versionKnown>>

GetPortSingleton(thunk) ==
    \/ /\ port = "open"
       /\ Run(<<thunk>>)
       /\ UNCHANGED <<port, waitingForPort>>
    \/ /\ port # "open"
       /\ IF waitingForPort = <<>> THEN GetMessagePort ELSE UNCHANGED port
       /\ waitingForPort' = Append(waitingForPort, thunk)
       /\ UNCHANGED <<reqCounter, callbackMap, posted, versionKnown>>

\* u2f.sign and u2f.register.
Call(c) ==
    /\ c \notin called
    /\ called' = called \cup {c}
    /\ GetPortSingleton([kind |-> IF versionKnown THEN "request" ELSE "version", call |-> c])
    /\ UNCHANGED <<browser, connected, dropped, unread, results>>
-----------------------------------------------------------------------------
(***************************************************************************)
(* The way to a port.                                                      *)
(***************************************************************************)
Moves(from, to) ==
    /\ port = from
    /\ port' = to
    /\ UNCHANGED <<browser, called, versionKnown, waitingForPort, reqCounter, callbackMap,
                   posted, dropped, unread, results>>

PingAnswered(lastError) ==
    /\ Moves("ping", IF lastError THEN "iframe" ELSE "connecting")
    /\ UNCHANGED connected

\* The iframe's load event: its port is sent along with 'init'.
IframeLoads == Moves("iframe", "init") /\ UNCHANGED connected

\* Forwarder.init: chrome.runtime.connect may yield nothing.
ForwarderInit(gotPort) ==
    /\ Moves("init", "ready")
    /\ connected' = gotPort

(***************************************************************************)
(* The port is there ('ready' came, or the setTimeout of the other ways):  *)
(* whoever waits is served.                                                *)
(***************************************************************************)
GotPort ==
    /\ port \in {"connecting", "ready"}
    /\ port' = "open"
    /\ Run(waitingForPort)
    /\ waitingForPort' = <<>>
    /\ UNCHANGED <<browser, called, connected, dropped, unread, results>>
-----------------------------------------------------------------------------
(***************************************************************************)
(* responseHandler_: a response to message m arrives, and may come again   *)
(* (more).  The answer to a question for the version lets the call go on.  *)
(* A response whose id nobody waits for is ignored.                        *)
(***************************************************************************)
Answered(m, more) ==
    /\ m \in posted
    /\ posted' = IF more THEN posted ELSE posted \ {m}

\* Seeded fault: the callback stays in the map.
ResponseKeepsCallback(m, more) ==
    LET cb == callbackMap[m.id] IN
    /\ cb.kind = "request"
    /\ Answered(m, more)
    /\ results' = [results EXCEPT ![cb.call] = Append(@, m.thunk)]
    /\ UNCHANGED <<browser, called, versionKnown, port, connected, waitingForPort, reqCounter,
                   callbackMap, dropped, unread>>

Response(m, more) ==
    LET cb == callbackMap[m.id] IN
    /\ cb.kind = "request"
    /\ Answered(m, more)
    /\ callbackMap' = [callbackMap EXCEPT ![m.id] = NoThunk]
    /\ results' = [results EXCEPT ![cb.call] = Append(@, m.thunk)]
    /\ UNCHANGED <<browser, called, versionKnown, port, connected, waitingForPort, reqCounter,
                   dropped, unread>>

VersionResponse(m, more) ==
    LET cb == callbackMap[m.id]
        request == [kind |-> "request", call |-> cb.call] IN
    /\ m \in posted /\ cb.kind = "version"
    /\ versionKnown' = TRUE
    /\ reqCounter' = reqCounter + 1
    /\ callbackMap' = Append([callbackMap EXCEPT ![m.id] = NoThunk], request)
    /\ posted' = (IF more THEN posted ELSE posted \ {m})
                   \cup {[id |-> reqCounter + 1, thunk |-> request]}
    /\ UNCHANGED <<browser, called, port, connected, waitingForPort, dropped, unread, results>>

UnknownResponse(m) ==
    /\ callbackMap[m.id] = NoThunk
    /\ Answered(m, FALSE)
    /\ UNCHANGED <<browser, called, versionKnown, port, connected, waitingForPort, reqCounter,
                   callbackMap, dropped, unread, results>>

(***************************************************************************)
(* onRequestUpdate_ of the port to the Android app: without data its       *)
(* message is null, on which responseHandler_ throws.                      *)
(***************************************************************************)
NullResponse(m) ==
    /\ browser = "android"
    /\ Answered(m, FALSE)
    /\ unread' = unread \cup {m.thunk.call}
    /\ UNCHANGED <<browser, called, versionKnown, port, connected, waitingForPort, reqCounter,
                   callbackMap, dropped, results>>

\* The port to the iOS app takes a handler for responses and registers nothing.
ResponseTo(id) ==
    /\ browser # "ios"
    /\ \E m \in posted :
         /\ m.id = id
         /\ \/ UnknownResponse(m) \/ NullResponse(m)
            \/ \E more \in BOOLEAN : VersionResponse(m, more) \/ Response(m, more)

(***************************************************************************)
(* The extension: it drops the response to a page in the background, and   *)
(* it may go away, which nothing tells the page.                           *)
(***************************************************************************)
Drop(m) ==
    /\ m \in posted /\ m.thunk.kind = "request"
    /\ posted' = posted \ {m}
    /\ dropped' = dropped \cup {m.thunk.call}
    /\ UNCHANGED <<browser, called, versionKnown, port, connected, waitingForPort, reqCounter,
                   callbackMap, unread, results>>

ExtensionGone ==
    /\ connected
    /\ connected' = FALSE /\ posted' = {}
    /\ UNCHANGED <<browser, called, versionKnown, port, waitingForPort, reqCounter, callbackMap,
                   dropped, unread, results>>
-----------------------------------------------------------------------------
MakesPort ==
    \/ \E lastError \in BOOLEAN : PingAnswered(lastError)
    \/ \E gotPort \in {connected, FALSE} : ForwarderInit(gotPort)
    \/ IframeLoads \/ GotPort

\* A question for the version and a request for each call.
Ids == 1..2 * Cardinality(Calls)

ApiNext ==
    \/ \E c \in Calls : Call(c)
    \/ MakesPort
    \/ \E id \in Ids : ResponseTo(id)
    \/ \E m \in posted : Drop(m)
    \/ ExtensionGone

ApiSpec == ApiInit /\ [][ApiNext]_apiVars

(***************************************************************************)
(* Messages, timers and the iframe arrive, and the extension answers or    *)
(* drops what it was sent, as EveryRequestAnswered and EveryEnrollAnswered *)
(* say it does.                                                            *)
(***************************************************************************)
FairApiSpec ==
    /\ ApiSpec
    /\ WF_apiVars(MakesPort)
    /\ \A id \in Ids : WF_apiVars(ResponseTo(id))
-----------------------------------------------------------------------------
(***************************************************************************)
(* The callback of a call is called at most once, and with the response to *)
(* its own request - not that of another call, nor the answer to a         *)
(* question for the version -, whatever the order of the responses, the    *)
(* calls and the making of the port, and though responses come twice.      *)
(***************************************************************************)
OwnResponseOnce ==
    \A c \in Calls : results[c] \in {<<>>, <<[kind |-> "request", call |-> c]>>}

(***************************************************************************)
(* Every call is called back, unless the extension drops its response or   *)
(* goes away: no thunk is left waiting for the port or for the version.    *)
(* Over a mobile app less is true: the port to the iOS app hears no        *)
(* response at all (u2f-api.js:498-503), and that to the Android app makes *)
(* responseHandler_ throw on an error without data (452-457, 605).         *)
(***************************************************************************)
EveryCallAnswered ==
    \A c \in Calls :
        c \in called ~> \/ results[c] # <<>> \/ c \in dropped \/ ~connected
                       \/ c \in unread \/ browser = "ios"
=============================================================================

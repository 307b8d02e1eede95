------------------------------ MODULE Gnubbies ------------------------------
(***************************************************************************)
(* The device manager, gnubbies.js, with the Gnubby objects that open keys *)
(* through it (open and close of gnubby.js).  It keeps the keys last       *)
(* enumerated, the open devices and their clients, and two kinds of        *)
(* callers that wait: for an enumeration and for a device to open.         *)
(*                                                                         *)
(* Callers are called back in loops that run to completion, and a callback *)
(* may call the manager again; running is the loop under way.  What the    *)
(* browser finds, and whether a device opens, is arbitrary: keys come and  *)
(* go at any time.  Drivers appear with their clients only: what a device  *)
(* does in between is in UsbGnubbyDevice and HidGnubbyDevice.              *)
(***************************************************************************)
EXTENDS Naturals, Sequences, SequencesExt

CONSTANTS
    Clients,        \* Gnubby objects
    Scanner,        \* a signer that enumerates, and opens what it finds
    Ids,            \* keys
    Namespaces,     \* the drivers registered: "hid" and "usb"
    Namespace,      \* the driver of each key
    Retries         \* enumerateRetriesRemaining: 3 in the source

ASSUME NamespaceAssumption == Namespace \in [Ids -> Namespaces] /\ Namespaces # {}
ASSUME ScannerAssumption == Scanner \notin Clients
ASSUME RetriesAssumption == Retries \in Nat

VARIABLES
    devs,               \* devs_: the keys last enumerated
    pendingEnumerate,   \* callers that wait for an enumeration
    rounds,             \* the enumerations under way
    openDevs,           \* openDevs_: open device -> its clients
    pendingOpens,       \* pendingOpens_: key being opened -> waiting clients
    opening,            \* calls of openImpl outstanding for each key
    handles,            \* devices opened and not destroyed for each key
    armed,              \* inactivityTimer is set
    running,            \* the loop of callbacks under way
    state,              \* of each client
    first, retries,     \* it opens the first key found; retries it has left
    closed, leaving     \* closed is set; removeClient is scheduled

scanVars == <<devs, pendingEnumerate, rounds>>
openVars == <<openDevs, pendingOpens, opening, handles>>
gnubbyVars == <<state, first, retries, closed, leaving>>
vars == <<scanVars, openVars, armed, running, gnubbyVars>>

Idle == [loop |-> "none"]
OK == "OK"  NODEVICE == "NODEVICE"  BUSY == "BUSY"

In(n) == {id \in Ids : Namespace[id] = n}

Init ==
    /\ devs = {} /\ pendingEnumerate = <<>> /\ rounds = <<>>
    /\ openDevs = [id \in {} |-> {}] /\ pendingOpens = [id \in {} |-> <<>>]
    /\ opening = [id \in Ids |-> 0] /\ handles = [id \in Ids |-> 0]
    /\ armed = FALSE /\ running = Idle
    /\ state = [c \in Clients |-> "new"]
    /\ first = {} /\ retries = [c \in Clients |-> Retries]
    /\ closed = {} /\ leaving = {}

Set(f, x, y) == [z \in DOMAIN f \cup {x} |-> IF z = x THEN y ELSE f[z]]
Unset(f, xs) == [z \in DOMAIN f \ xs |-> f[z]]
-----------------------------------------------------------------------------
(***************************************************************************)
(* enumerate, when the callers in waiting wait already: only the first of  *)
(* them starts a round, which asks every namespace.                        *)
(***************************************************************************)
Enumerate(who, waiting) ==
    /\ pendingEnumerate' = Append(waiting, who)
    /\ rounds' = IF waiting = <<>>
                   THEN Append(rounds, [found |-> {}, asked |-> Namespaces])
                   ELSE rounds

(***************************************************************************)
(* The callback that Gnubby.open gives addClient, called with an error: one*)
(* that was to open the first key found looks again, if the key is gone.   *)
(***************************************************************************)
Refused(c, rc, waiting) ==
    \/ /\ rc = NODEVICE /\ c \in first /\ retries[c] > 0
       /\ retries' = [retries EXCEPT ![c] = @ - 1]
       /\ state' = [state EXCEPT ![c] = "enumerating"]
       /\ Enumerate(c, waiting)
    \/ /\ rc # NODEVICE \/ c \notin first \/ retries[c] = 0
       /\ state' = [state EXCEPT ![c] = "failed"]
       /\ pendingEnumerate' = waiting
       /\ UNCHANGED <<retries, rounds>>

Opened(c) == state' = [state EXCEPT ![c] = "open"]

(***************************************************************************)
(* destroy of open devices: their clients learn that they are closed.      *)
(***************************************************************************)
ClientsOf(ids) == UNION {openDevs[id] : id \in ids}

\* Seeded fault: the clients are not told.
DestroySilently(ids) ==
    /\ openDevs' = Unset(openDevs, ids)
    /\ handles' = [id \in Ids |-> IF id \in ids THEN handles[id] - 1 ELSE handles[id]]
    /\ UNCHANGED closed

Destroy(ids) ==
    /\ openDevs' = Unset(openDevs, ids)
    /\ handles' = [id \in Ids |-> IF id \in ids THEN handles[id] - 1 ELSE handles[id]]
    /\ closed' = closed \cup ClientsOf(ids)

(***************************************************************************)
(* addClient: the device is gone, is open, or will be opened, once for all *)
(* who wait for it.                                                        *)
(***************************************************************************)
\* Seeded fault: the device is opened for every client that waits for it.
WaitForOwnOpen(c, id) ==
    /\ pendingOpens' = Set(pendingOpens, id,
                           IF id \in DOMAIN pendingOpens THEN Append(pendingOpens[id], c)
                                                         ELSE <<c>>)
    /\ opening' = [opening EXCEPT ![id] = @ + 1]

WaitForOpen(c, id) ==
    \/ /\ id \in DOMAIN pendingOpens
       /\ pendingOpens' = [pendingOpens EXCEPT ![id] = Append(@, c)]
       /\ UNCHANGED opening
    \/ /\ id \notin DOMAIN pendingOpens
       /\ pendingOpens' = Set(pendingOpens, id, <<c>>)
       /\ opening' = [opening EXCEPT ![id] = @ + 1]

AddClient(c, id, waiting) ==
    /\ armed' = TRUE
    /\ \/ /\ id \notin devs
          /\ Refused(c, NODEVICE, waiting)
          /\ UNCHANGED openVars
       \/ /\ id \in devs /\ id \in DOMAIN openDevs
          /\ openDevs' = [openDevs EXCEPT ![id] = @ \cup {c}]
          /\ Opened(c)
          /\ pendingEnumerate' = waiting
          /\ UNCHANGED <<rounds, retries, pendingOpens, opening, handles>>
       \/ /\ id \in devs /\ id \notin DOMAIN openDevs
          /\ WaitForOpen(c, id)
          /\ state' = [state EXCEPT ![c] = "opening"]
          /\ pendingEnumerate' = waiting
          /\ UNCHANGED <<rounds, retries, openDevs, handles>>
-----------------------------------------------------------------------------
(***************************************************************************)
(* Gnubby.open, by a caller that knows which key to open - at any time,    *)
(* also in a callback - or opens the first found; and a signer's scan.     *)
(* enumerate is never called in the callback of an enumeration.            *)
(***************************************************************************)
Fresh(c) == state[c] = "new" /\ c \notin closed

OpenWhich(c, id) ==
    /\ Fresh(c)
    /\ AddClient(c, id, pendingEnumerate)
    /\ UNCHANGED <<devs, running, first, closed, leaving>>

OpenFirst(c) ==
    /\ running = Idle
    /\ Fresh(c)
    /\ first' = first \cup {c}
    /\ state' = [state EXCEPT ![c] = "enumerating"]
    /\ Enumerate(c, pendingEnumerate)
    /\ UNCHANGED <<devs, openVars, armed, running, retries, closed, leaving>>

Scan ==
    /\ running = Idle
    /\ \A i \in DOMAIN pendingEnumerate : pendingEnumerate[i] # Scanner
    /\ Enumerate(Scanner, pendingEnumerate)
    /\ UNCHANGED <<devs, openVars, armed, running, gnubbyVars>>

(***************************************************************************)
(* A namespace answers a round: keys of it that are open and not found are *)
(* destroyed.  After the last answer all who wait are called back.         *)
(***************************************************************************)
Enumerated(i, n, found) ==
    LET ids == rounds[i].found \cup found
        asked == rounds[i].asked \ {n} IN
    /\ running = Idle
    /\ n \in rounds[i].asked
    /\ devs' = (devs \ In(n)) \cup found
    /\ Destroy((DOMAIN openDevs \cap In(n)) \ found)
    /\ \/ /\ asked # {}
          /\ rounds' = [rounds EXCEPT ![i] = [found |-> ids, asked |-> asked]]
          /\ UNCHANGED running
       \/ /\ asked = {}
          /\ rounds' = RemoveAt(rounds, i)
          /\ running' = [loop |-> "enumerated", ids |-> ids]
    /\ UNCHANGED <<pendingEnumerate, pendingOpens, opening, armed, state, first, retries,
                   leaving>>

(***************************************************************************)
(* One turn of the loop over pendingEnumerate.                             *)
(***************************************************************************)
ServeScanner ==
    /\ running.loop = "enumerated"
    /\ pendingEnumerate # <<>> /\ Head(pendingEnumerate) = Scanner
    /\ pendingEnumerate' = Tail(pendingEnumerate)
    /\ UNCHANGED <<devs, rounds, openVars, armed, running, gnubbyVars>>

ServeEnumeration ==
    LET c == Head(pendingEnumerate) IN
    /\ running.loop = "enumerated"
    /\ pendingEnumerate # <<>> /\ c # Scanner
    /\ \/ /\ running.ids = {}
          /\ state' = [state EXCEPT ![c] = "failed"]
          /\ pendingEnumerate' = Tail(pendingEnumerate)
          /\ UNCHANGED <<rounds, openVars, armed, retries>>
       \/ \E id \in running.ids : AddClient(c, id, Tail(pendingEnumerate))
    /\ UNCHANGED <<devs, running, first, closed, leaving>>

AllServed ==
    /\ running.loop = "enumerated"
    /\ pendingEnumerate = <<>>
    /\ running' = Idle
    /\ UNCHANGED <<scanVars, openVars, armed, gnubbyVars>>
-----------------------------------------------------------------------------
(***************************************************************************)
(* openCb: openImpl called back, and the loop over pendingOpens.  A device *)
(* just opened is not closing.                                             *)
(***************************************************************************)
OpenCompletes(id, rc) ==
    /\ running = Idle
    /\ opening[id] > 0
    /\ opening' = [opening EXCEPT ![id] = @ - 1]
    /\ running' = [loop |-> "opened", id |-> id, rc |-> rc]
    /\ \/ /\ rc = OK
          /\ openDevs' = Set(openDevs, id, {})
          /\ handles' = [handles EXCEPT ![id] = @ + 1]
       \/ rc # OK /\ UNCHANGED <<openDevs, handles>>
    /\ UNCHANGED <<scanVars, pendingOpens, armed, gnubbyVars>>

ServeOpen ==
    LET id == running.id
        c == Head(pendingOpens[id]) IN
    /\ running.loop = "opened"
    /\ pendingOpens[id] # <<>>
    /\ pendingOpens' = [pendingOpens EXCEPT ![id] = Tail(@)]
    /\ \/ /\ running.rc = OK
          /\ openDevs' = [openDevs EXCEPT ![id] = @ \cup {c}]
          /\ Opened(c)
          /\ UNCHANGED <<pendingEnumerate, rounds, retries>>
       \/ /\ running.rc # OK
          /\ Refused(c, running.rc, pendingEnumerate)
          /\ UNCHANGED openDevs
    /\ UNCHANGED <<devs, opening, handles, armed, running, first, closed, leaving>>

\* Seeded fault: the list of pending opens is not deleted.
OpenServedKeepsList ==
    /\ running.loop = "opened"
    /\ pendingOpens[running.id] = <<>>
    /\ running' = Idle
    /\ UNCHANGED <<scanVars, openVars, armed, gnubbyVars>>

OpenServed ==
    /\ running.loop = "opened"
    /\ pendingOpens[running.id] = <<>>
    /\ pendingOpens' = Unset(pendingOpens, {running.id})
    /\ running' = Idle
    /\ UNCHANGED <<scanVars, openDevs, opening, handles, armed, gnubbyVars>>
-----------------------------------------------------------------------------
(***************************************************************************)
(* Gnubby.close, at any time: one that has no device yet schedules nothing.*)
(***************************************************************************)
CloseGnubby(c) ==
    /\ state[c] # "new" /\ state[c] # "left"
    /\ closed' = closed \cup {c}
    /\ \/ /\ state[c] = "open"
          /\ state' = [state EXCEPT ![c] = "left"]
          /\ leaving' = leaving \cup {c}
       \/ state[c] # "open" /\ UNCHANGED <<state, leaving>>
    /\ UNCHANGED <<scanVars, openVars, armed, running, first, retries>>

RemoveClient(c) ==
    LET at == {id \in DOMAIN openDevs : c \in openDevs[id]}
        last == {id \in at : openDevs[id] = {c}} IN
    /\ running = Idle
    /\ c \in leaving
    /\ leaving' = leaving \ {c}
    /\ armed' = TRUE
    /\ \/ last # {} /\ Destroy(last)
       \/ /\ last = {}
          /\ openDevs' = [id \in DOMAIN openDevs |-> openDevs[id] \ {c}]
          /\ UNCHANGED <<handles, closed>>
    /\ UNCHANGED <<scanVars, pendingOpens, opening, running, state, first, retries>>

(***************************************************************************)
(* What a device does: a frame it publishes drops the clients that closed, *)
(* and it is destroyed when a transfer or a read fails.                    *)
(***************************************************************************)
PublishFrame(id) ==
    /\ running = Idle
    /\ id \in DOMAIN openDevs
    /\ openDevs[id] \cap closed # {}
    /\ openDevs' = [openDevs EXCEPT ![id] = @ \ closed]
    /\ UNCHANGED <<scanVars, pendingOpens, opening, handles, armed, running, gnubbyVars>>

DeviceFails(id) ==
    /\ running = Idle
    /\ id \in DOMAIN openDevs
    /\ Destroy({id})
    /\ UNCHANGED <<scanVars, pendingOpens, opening, armed, running, state, first, retries,
                   leaving>>

\* Seeded fault: open devices are left open.
InactivityTimeoutOnly ==
    /\ running = Idle
    /\ armed /\ DOMAIN pendingOpens = {}
    /\ armed' = FALSE
    /\ UNCHANGED <<scanVars, openVars, running, gnubbyVars>>

(***************************************************************************)
(* inactivityTimeout_, 30 seconds or more after the last addClient or      *)
(* removeClient: a device takes less to open.                              *)
(***************************************************************************)
InactivityTimeout ==
    /\ running = Idle
    /\ armed /\ DOMAIN pendingOpens = {}
    /\ armed' = FALSE
    /\ Destroy(DOMAIN openDevs)
    /\ UNCHANGED <<scanVars, pendingOpens, opening, running, state, first, retries, leaving>>
-----------------------------------------------------------------------------
EnumerationAnswers ==
    \E i \in DOMAIN rounds : \E n \in Namespaces, found \in SUBSET Ids :
        found \subseteq In(n) /\ Enumerated(i, n, found)

OpensComplete == \E id \in Ids, rc \in {OK, NODEVICE, BUSY} : OpenCompletes(id, rc)

RunLoop == ServeScanner \/ ServeEnumeration \/ AllServed \/ ServeOpen \/ OpenServed

Next ==
    \/ \E c \in Clients : \/ \E id \in Ids : OpenWhich(c, id)
                          \/ OpenFirst(c) \/ CloseGnubby(c) \/ RemoveClient(c)
    \/ Scan \/ EnumerationAnswers \/ RunLoop
    \/ OpensComplete \/ InactivityTimeout
    \/ \E id \in Ids : PublishFrame(id) \/ DeviceFails(id)

(***************************************************************************)
(* The browser answers enumerations and opens, whatever the answer, and the*)
(* inactivity timer fires.  Each waits in the event queue while a loop runs*)
(* and then has its turn: hence strong fairness.  Nobody need close.       *)
(***************************************************************************)
Fairness ==
    /\ WF_vars(EnumerationAnswers) /\ WF_vars(RunLoop)
    /\ SF_vars(OpensComplete) /\ SF_vars(InactivityTimeout)

Spec == Init /\ [][Next]_vars
FairSpec == Spec /\ Fairness
-----------------------------------------------------------------------------
Loops ==
    {Idle}
    \cup [loop : {"enumerated"}, ids : SUBSET Ids]
    \cup [loop : {"opened"}, id : Ids, rc : {OK, NODEVICE, BUSY}]

TypeOK ==
    /\ devs \subseteq Ids
    /\ pendingEnumerate \in Seq(Clients \cup {Scanner})
    /\ rounds \in Seq([found : SUBSET Ids, asked : SUBSET Namespaces])
    /\ DOMAIN openDevs \subseteq Ids /\ openDevs \in [DOMAIN openDevs -> SUBSET Clients]
    /\ DOMAIN pendingOpens \subseteq Ids
    /\ pendingOpens \in [DOMAIN pendingOpens -> Seq(Clients)]
    /\ opening \in [Ids -> Nat] /\ handles \in [Ids -> Nat]
    /\ armed \in BOOLEAN /\ running \in Loops
    /\ state \in [Clients -> {"new", "enumerating", "opening", "open", "failed", "left"}]
    /\ first \subseteq Clients /\ retries \in [Clients -> 0..Retries]
    /\ closed \subseteq Clients /\ leaving \subseteq closed

(***************************************************************************)
(* A key is never opened twice: a second handle would never be closed, and *)
(* over USB the second claim of the interface makes the key look busy.     *)
(***************************************************************************)
OneHandlePerKey == \A id \in Ids : handles[id] + opening[id] <= 1

(***************************************************************************)
(* A Gnubby that thinks it is open is a client of an open device, whatever *)
(* destroyed devices meanwhile: when its key goes it learns of it.         *)
(***************************************************************************)
OpenClientAttached ==
    \A c \in Clients : state[c] = "open" /\ c \notin closed =>
        \E id \in DOMAIN openDevs : c \in openDevs[id]

(***************************************************************************)
(* Every open is answered, though it may start over when keys come and go. *)
(***************************************************************************)
EveryOpenAnswered ==
    \A c \in Clients : state[c] \in {"enumerating", "opening"}
                       ~> state[c] \notin {"enumerating", "opening"}

(***************************************************************************)
(* A device whose clients have all closed is released in the end, also when*)
(* the last of them was dropped by a frame, or closed before it was open,  *)
(* and so is never removed.                                                *)
(***************************************************************************)
Abandoned(id) == id \in DOMAIN openDevs /\ openDevs[id] \subseteq closed

AbandonedDeviceReleased == \A id \in Ids : Abandoned(id) ~> ~Abandoned(id)
=============================================================================

---------------------------- MODULE GnubbyDevice ----------------------------
(***************************************************************************)
(* What the two low-level drivers, usbgnubbydevice.js and                  *)
(* hidgnubbydevice.js, have in common: the list of clients (Gnubby objects)*)
(* of an open device, how clients leave it, its destruction, and the lock  *)
(* that one client's channel may hold on it.                               *)
(*                                                                         *)
(* A Gnubby that is closed stays on the list until the removeClient it     *)
(* scheduled 300 ms later, or until the next frame is published, whichever *)
(* comes first.  closing is set, and dev cleared, by the same call, so one *)
(* variable stands for both.                                               *)
(***************************************************************************)
EXTENDS Naturals

CONSTANTS
    Clients,        \* Gnubby objects, each with a channel id of its own
    NoClient        \* lockCID 0

ASSUME NoClientAssumption == NoClient \notin Clients

VARIABLES
    clients,        \* clients
    closed,         \* Gnubbys whose closed is set
    leaving,        \* Gnubbys with a removeClient scheduled
    dead,           \* closing is set and dev is null
    lockCID,        \* the client whose channel holds the lock
    lockTID,        \* lockTID is set: it names one of the running timers
    lockTimers      \* the number of expiry timers of the lock that run

clientVars == <<clients, closed, leaving>>
lockVars == <<lockCID, lockTID, lockTimers>>
deviceVars == <<clientVars, dead, lockVars>>

Commands == {"SYNC", "LOCK", "UNLOCK", "OTHER"}     \* INIT counts as SYNC

InitDevice ==
    /\ clients = {} /\ closed = {} /\ leaving = {}
    /\ dead = FALSE
    /\ lockCID = NoClient /\ lockTID = FALSE /\ lockTimers = 0

(***************************************************************************)
(* publishFrame_: clients that are closed do not want the frame and are    *)
(* dropped from the list.                                                  *)
(***************************************************************************)
PublishFrame == clients' = clients \ closed

(***************************************************************************)
(* The timers that run once the one in lockTID, if any, was cleared.       *)
(***************************************************************************)
OtherTimers == IF lockTID THEN lockTimers - 1 ELSE lockTimers

(***************************************************************************)
(* destroy, of a device that is not dead already.                          *)
(***************************************************************************)
DestroyDevice ==
    /\ dead' = TRUE
    /\ clients' = {}
    /\ closed' = closed \cup clients
    /\ lockTID' = FALSE
    /\ lockTimers' = OtherTimers
    /\ UNCHANGED lockCID

(***************************************************************************)
(* Gnubbies.opened registers a client unless the device is closing.  The   *)
(* Gnubby may have been closed while it waited for the open (late): it had *)
(* no dev then, and so no removal was scheduled.                           *)
(***************************************************************************)
AddClient(c, late) ==
    /\ ~dead
    /\ c \notin clients \cup closed
    /\ clients' = clients \cup {c}
    /\ closed' = IF late THEN closed \cup {c} ELSE closed
    /\ UNCHANGED <<leaving, dead, lockVars>>

(***************************************************************************)
(* Gnubby.close.                                                           *)
(***************************************************************************)
LeaveDevice(c) ==
    /\ c \in clients \ closed
    /\ closed' = closed \cup {c}
    /\ leaving' = leaving \cup {c}
    /\ UNCHANGED <<clients, dead, lockVars>>

(***************************************************************************)
(* Gnubbies.removeClient: the last client to be removed destroys the       *)
(* device.  It finds nothing to do when a frame was published meanwhile.   *)
(***************************************************************************)
RemoveFromDevice(c) ==
    /\ c \in leaving
    /\ leaving' = leaving \ {c}
    /\ \/ clients = {c} /\ DestroyDevice
       \/ /\ clients # {c}
          /\ clients' = clients \ {c}
          /\ UNCHANGED <<closed, dead, lockVars>>

(***************************************************************************)
(* checkLock_.                                                             *)
(***************************************************************************)
Blocked(c, cmd) == lockCID \notin {NoClient, c} /\ cmd # "SYNC"

\* Seeded fault: the running timer is not cleared.
UpdateLockUncleared(c, cmd) ==
    \/ /\ lockCID \notin {NoClient, c}
       /\ UNCHANGED lockVars
    \/ /\ lockCID \in {NoClient, c}
       /\ lockCID' = CASE cmd = "LOCK"   -> c
                       [] cmd = "UNLOCK" -> NoClient
                       [] OTHER          -> lockCID
       /\ lockTID' = (lockCID' # NoClient)
       /\ lockTimers' = IF lockTID' THEN lockTimers + 1 ELSE lockTimers

(***************************************************************************)
(* updateLock_: whatever the command, the running timer is cleared, and set*)
(* anew if the channel holds the lock.                                     *)
(***************************************************************************)
UpdateLock(c, cmd) ==
    \/ /\ lockCID \notin {NoClient, c}
       /\ UNCHANGED lockVars
    \/ /\ lockCID \in {NoClient, c}
       /\ lockCID' = CASE cmd = "LOCK"   -> c
                       [] cmd = "UNLOCK" -> NoClient
                       [] OTHER          -> lockCID
       /\ lockTID' = (lockCID' # NoClient)
       /\ lockTimers' = IF lockTID' THEN OtherTimers + 1 ELSE OtherTimers

(***************************************************************************)
(* The callback of a timer of the lock.  It looks neither at who holds the *)
(* lock now nor at which timer lockTID is.                                 *)
(***************************************************************************)
ExpireLock ==
    /\ lockTimers > 0
    /\ lockTimers' = lockTimers - 1
    /\ lockTID' = FALSE
    /\ lockCID' = NoClient
    /\ UNCHANGED <<clientVars, dead>>
-----------------------------------------------------------------------------
DeviceTypeOK ==
    /\ clients \subseteq Clients
    /\ closed \subseteq Clients
    /\ leaving \subseteq closed
    /\ dead \in BOOLEAN
    /\ lockCID \in Clients \cup {NoClient}
    /\ lockTID \in BOOLEAN
    /\ lockTimers \in Nat
    /\ lockTID => lockTimers > 0

(***************************************************************************)
(* While a channel holds the lock of a live device one expiry timer runs,  *)
(* the one lockTID names, and while nobody does none runs: through every   *)
(* renewal, release, expiry and hand-over.  A second timer, or one left of *)
(* an earlier owner, would free the lock of whoever holds it by then; with *)
(* none the lock would never be freed.                                     *)
(***************************************************************************)
OneLockTimer ==
    ~dead => /\ lockTID <=> lockCID # NoClient
             /\ lockTimers = IF lockTID THEN 1 ELSE 0
=============================================================================

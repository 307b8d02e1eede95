-------------------------- MODULE HidGnubbyDevice --------------------------
(***************************************************************************)
(* hidgnubbydevice.js: the driver over chrome.hid.  A command is cut into  *)
(* frames; the frames wait in txqueue and are sent one by one, not waiting *)
(* for replies.  Replies are received by a read loop that runs as long as  *)
(* the device has clients: the first client to register starts it, and it  *)
(* destroys the device when it finds no client left.  A receive that calls *)
(* back with neither data nor an error breaks the loop.                    *)
(*                                                                         *)
(* Frames are numbered in the order they are queued.  updating is never set*)
(* by this code base and is left out.                                      *)
(***************************************************************************)
EXTENDS GnubbyDevice, Sequences

CONSTANTS
    MaxFrames,          \* bound on the number of frames queued in a run
    MaxFragments        \* bound on the number of frames of one command

ASSUME MaxFramesAssumption == MaxFrames \in Nat
ASSUME MaxFragmentsAssumption == MaxFragments \in Nat

VARIABLES
    txqueue,
    sending,        \* calls of chrome.hid.send outstanding
    pumps,          \* setTimeout(0)s outstanding that call writePump_
    receiving,      \* calls of chrome.hid.receive outstanding
    loops,          \* setTimeout(0)s outstanding that call readLoop_
    doomed,         \* ... that call destroy
    broken,         \* history: a read loop ended by throwing, and none was started since
    accepted,       \* the number of frames queued
    written         \* the last frame handed to chrome.hid.send

writeVars == <<txqueue, sending, pumps, accepted, written>>
readVars == <<receiving, loops, broken>>
vars == <<deviceVars, writeVars, readVars, doomed>>

Init ==
    /\ InitDevice
    /\ txqueue = <<>>
    /\ sending = 0 /\ pumps = 0
    /\ receiving = 0 /\ loops = 0
    /\ doomed = FALSE /\ broken = FALSE
    /\ accepted = 0 /\ written = 0

(***************************************************************************)
(* writePump_, when the queue is q.  Nothing in it looks whether a send is *)
(* outstanding.                                                            *)
(***************************************************************************)
WritePump(q) ==
    \/ /\ dead \/ q = <<>>
       /\ UNCHANGED <<sending, written>>
    \/ /\ ~dead /\ q # <<>>
       /\ sending' = sending + 1
       /\ written' = Head(q)

(***************************************************************************)
(* queueCommand, called by a client that is not closed, and its queueFrame_*)
(* for each of the n frames of the command.  Only the first can change who *)
(* holds the lock, and only the first can find txqueue empty.              *)
(***************************************************************************)
AcceptCommand(c, cmd, n) ==
    /\ ~Blocked(c, cmd)
    /\ UpdateLock(c, cmd)
    /\ accepted' = accepted + n
    /\ txqueue' = txqueue \o [i \in 1..n |-> accepted + i]
    /\ \/ txqueue = <<>> /\ WritePump(txqueue')
       \/ txqueue # <<>> /\ UNCHANGED <<sending, written>>
    /\ UNCHANGED <<clientVars, dead, pumps, readVars, doomed>>

RefuseCommand(c, cmd) ==
    /\ Blocked(c, cmd)
    /\ PublishFrame
    /\ UNCHANGED <<closed, leaving, dead, lockVars, writeVars, readVars, doomed>>

QueueCommand(c, cmd, n) ==
    /\ ~dead
    /\ c \in clients \ closed
    /\ accepted + n <= MaxFrames
    /\ AcceptCommand(c, cmd, n) \/ RefuseCommand(c, cmd)

(***************************************************************************)
(* Seeded faults: the pump is not called again; the frame sent is not      *)
(* shifted off.                                                            *)
(***************************************************************************)
TransferCompleteOnce(ok) ==
    /\ sending > 0
    /\ sending' = sending - 1
    /\ txqueue' = IF txqueue = <<>> THEN <<>> ELSE Tail(txqueue)
    /\ UNCHANGED <<deviceVars, readVars, doomed, pumps, accepted, written>>

TransferCompleteResends(ok) ==
    /\ sending > 0
    /\ sending' = sending - 1
    /\ pumps' = pumps + 1
    /\ UNCHANGED <<deviceVars, readVars, doomed, txqueue, accepted, written>>

(***************************************************************************)
(* transferComplete of writePump_.                                         *)
(***************************************************************************)
TransferComplete(ok) ==
    /\ sending > 0
    /\ sending' = sending - 1
    /\ \/ /\ ok
          /\ txqueue' = IF txqueue = <<>> THEN <<>> ELSE Tail(txqueue)
          /\ pumps' = IF txqueue' = <<>> THEN pumps ELSE pumps + 1
          /\ UNCHANGED doomed
       \/ /\ ~ok
          /\ doomed' = TRUE
          /\ UNCHANGED <<txqueue, pumps>>
    /\ UNCHANGED <<deviceVars, readVars, accepted, written>>

ScheduledWrite ==
    /\ pumps > 0
    /\ pumps' = pumps - 1
    /\ WritePump(txqueue)
    /\ UNCHANGED <<deviceVars, readVars, doomed, txqueue, accepted>>

(***************************************************************************)
(* Seeded fault: the read loop is not continued.                           *)
(***************************************************************************)
ReceivedOnce(result) ==
    /\ receiving > 0
    /\ receiving' = receiving - 1
    /\ PublishFrame
    /\ UNCHANGED <<closed, leaving, dead, lockVars, writeVars, loops, broken, doomed>>

(***************************************************************************)
(* The callback of chrome.hid.receive.  It takes an answer with no data for*)
(* an error, and when there is none ("empty") throws as it logs the text of*)
(* lastError, before it schedules the destroy.                             *)
(***************************************************************************)
Received(result) ==
    /\ receiving > 0
    /\ receiving' = receiving - 1
    /\ \/ /\ result = "data"
          /\ PublishFrame
          /\ loops' = loops + 1
          /\ UNCHANGED <<doomed, broken>>
       \/ /\ result = "error"
          /\ doomed' = TRUE
          /\ UNCHANGED <<clients, loops, broken>>
       \/ /\ result = "empty"
          /\ broken' = TRUE
          /\ UNCHANGED <<clients, loops, doomed>>
    /\ UNCHANGED <<closed, leaving, dead, lockVars, writeVars>>

(***************************************************************************)
(* Seeded fault: the loop ends without destroying the device.              *)
(***************************************************************************)
CleanUpEndsLoop ==
    /\ loops > 0
    /\ ~dead /\ clients = {}
    /\ loops' = loops - 1
    /\ UNCHANGED <<deviceVars, writeVars, receiving, broken, doomed>>

(***************************************************************************)
(* readLoop_, called by the setTimeout(0).                                 *)
(***************************************************************************)
CleanUp ==
    /\ loops > 0
    /\ ~dead /\ clients = {}
    /\ loops' = loops - 1
    /\ DestroyDevice
    /\ UNCHANGED <<leaving, writeVars, receiving, broken, doomed>>

ReadLoop ==
    /\ loops > 0
    /\ dead \/ clients # {}
    /\ loops' = loops - 1
    /\ receiving' = IF dead THEN receiving ELSE receiving + 1
    /\ UNCHANGED <<deviceVars, writeVars, broken, doomed>>

(***************************************************************************)
(* The first client of an empty list starts a read loop.                   *)
(***************************************************************************)
RegisterClient(c, late) ==
    /\ AddClient(c, late)
    /\ receiving' = IF clients = {} THEN receiving + 1 ELSE receiving
    /\ broken' = (broken /\ clients # {})
    /\ UNCHANGED <<writeVars, loops, doomed>>

DestroyScheduled ==
    /\ doomed
    /\ doomed' = FALSE
    /\ \/ ~dead /\ DestroyDevice
       \/ dead /\ UNCHANGED <<clients, closed, dead, lockVars>>
    /\ UNCHANGED <<leaving, writeVars, readVars>>

(***************************************************************************)
(* destroy, called by a Gnubby whose read timed out, or by Gnubbies when   *)
(* the device vanished or was inactive.                                    *)
(***************************************************************************)
Destroy ==
    /\ ~dead
    /\ DestroyDevice
    /\ UNCHANGED <<leaving, writeVars, readVars, doomed>>

CloseClient(c) == LeaveDevice(c) /\ UNCHANGED <<writeVars, readVars, doomed>>

DeregisterClient(c) == RemoveFromDevice(c) /\ UNCHANGED <<writeVars, readVars, doomed>>

LockExpires == ExpireLock /\ UNCHANGED <<writeVars, readVars, doomed>>

Next ==
    \/ \E c \in Clients :
         \/ \E cmd \in Commands, n \in 1..MaxFragments : QueueCommand(c, cmd, n)
         \/ \E late \in BOOLEAN : RegisterClient(c, late)
         \/ CloseClient(c) \/ DeregisterClient(c)
    \/ \E ok \in BOOLEAN : TransferComplete(ok)
    \/ \E result \in {"data", "error", "empty"} : Received(result)
    \/ ScheduledWrite \/ CleanUp \/ ReadLoop
    \/ DestroyScheduled \/ Destroy \/ LockExpires

(***************************************************************************)
(* Timers fire and every send calls back.  A receive may wait for ever: the*)
(* key sends only when it is asked.                                        *)
(***************************************************************************)
Fairness ==
    /\ WF_vars(ScheduledWrite) /\ WF_vars(CleanUp) /\ WF_vars(ReadLoop)
    /\ WF_vars(DestroyScheduled) /\ WF_vars(LockExpires)
    /\ WF_vars(\E ok \in BOOLEAN : TransferComplete(ok))
    /\ \A c \in Clients : WF_vars(DeregisterClient(c))

Spec == Init /\ [][Next]_vars
FairSpec == Spec /\ Fairness
-----------------------------------------------------------------------------
TypeOK ==
    /\ DeviceTypeOK
    /\ txqueue \in Seq(1..MaxFrames)
    /\ sending \in Nat /\ pumps \in Nat
    /\ receiving \in Nat /\ loops \in Nat
    /\ doomed \in BOOLEAN /\ broken \in BOOLEAN
    /\ accepted \in 0..MaxFrames /\ written \in 0..MaxFrames

(***************************************************************************)
(* Frames in txqueue are always on their way: a send is outstanding, the   *)
(* call that starts the next one is scheduled, or the device is being      *)
(* destroyed.  writePump_ (hidgnubbydevice.js) is only called for the first*)
(* frame and by a completed send, so a queue with neither would stay.      *)
(***************************************************************************)
SendNeverStalls ==
    txqueue # <<>> => dead \/ doomed \/ sending > 0 \/ pumps > 0

(***************************************************************************)
(* Frames are sent in the order they were queued, none left out and none   *)
(* twice: the fragments of a command are never mixed with another's.       *)
(***************************************************************************)
FramesInOrder == [][sending' > sending => written' = written + 1]_vars

(***************************************************************************)
(* While the device has clients, a receive is outstanding or about to be,  *)
(* or the device is being destroyed: otherwise replies would be lost.  The *)
(* one way out is a receive that called back with nothing: it leaves the   *)
(* clients with no loop, until their own timeouts destroy the device.      *)
(***************************************************************************)
ListensForClients ==
    clients # {} => receiving > 0 \/ loops > 0 \/ doomed \/ broken

(***************************************************************************)
(* A device whose clients have all left is destroyed, also when the last of*)
(* them was dropped by a frame that came in before its removeClient; unless*)
(* its read loop is gone by then, because a receive called back with       *)
(* nothing.                                                                *)
(***************************************************************************)
AbandonedDeviceDestroyed ==
    \A c \in Clients : c \in closed ~> (dead \/ clients # {} \/ broken)
=============================================================================

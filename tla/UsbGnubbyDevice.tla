-------------------------- MODULE UsbGnubbyDevice --------------------------
(***************************************************************************)
(* usbgnubbydevice.js: the driver over chrome.usb.  Commands of all clients*)
(* wait in txqueue.  The frame at its head is written, its reply read and  *)
(* published, and only then is it shifted off and the next one written;    *)
(* every one of these steps is a callback of its own, and clients may queue*)
(* commands, close or be removed between any two of them.                  *)
(*                                                                         *)
(* Frames are numbered in the order they are queued.  updating is never set*)
(* by this code base and is left out.                                      *)
(***************************************************************************)
EXTENDS GnubbyDevice, Sequences

CONSTANT MaxCommands    \* bound on the number of commands queued in a run

ASSUME MaxCommandsAssumption == MaxCommands \in Nat

VARIABLES
    txqueue,
    outTransferPending, inTransferPending,
    reads,          \* setTimeout(0)s outstanding that call readOneReply_
    shifts,         \* ... that shift txqueue and call writeOneRequest_
    doomed,         \* ... that call destroy
    threw,          \* 'inTransferPending!' or 'outTransferPending!' was thrown
    accepted,       \* the number of commands queued
    written,        \* the last frame handed to bulkTransfer out
    answered        \* the frame the last reply published was for

transferVars == <<outTransferPending, inTransferPending, reads, shifts, doomed, threw>>
historyVars == <<accepted, written, answered>>
vars == <<deviceVars, txqueue, transferVars, historyVars>>

Init ==
    /\ InitDevice
    /\ txqueue = <<>>
    /\ outTransferPending = FALSE /\ inTransferPending = FALSE
    /\ reads = 0 /\ shifts = 0
    /\ doomed = FALSE /\ threw = FALSE
    /\ accepted = 0 /\ written = 0 /\ answered = 0

(***************************************************************************)
(* writeOneRequest_, when the queue is q.                                  *)
(***************************************************************************)
WriteOneRequest(q) ==
    \/ /\ dead \/ q = <<>>
       /\ UNCHANGED <<outTransferPending, written, threw>>
    \/ /\ ~dead /\ q # <<>> /\ ~outTransferPending
       /\ outTransferPending' = TRUE
       /\ written' = Head(q)
       /\ UNCHANGED threw
    \/ /\ ~dead /\ q # <<>> /\ outTransferPending
       /\ threw' = TRUE
       /\ UNCHANGED <<outTransferPending, written>>

(***************************************************************************)
(* queueCommand, called by a client that is not closed.  While another     *)
(* client holds the lock the command is answered BUSY instead.             *)
(***************************************************************************)
AcceptCommand(c, cmd) ==
    /\ ~Blocked(c, cmd)
    /\ accepted' = accepted + 1
    /\ UpdateLock(c, cmd)
    /\ txqueue' = Append(txqueue, accepted + 1)
    /\ \/ txqueue = <<>> /\ WriteOneRequest(txqueue')
       \/ txqueue # <<>> /\ UNCHANGED <<outTransferPending, written, threw>>
    /\ UNCHANGED <<clientVars, dead, inTransferPending, reads, shifts, doomed, answered>>

RefuseCommand(c, cmd) ==
    /\ Blocked(c, cmd)
    /\ PublishFrame
    /\ UNCHANGED <<closed, leaving, dead, lockVars, txqueue, transferVars, historyVars>>

QueueCommand(c, cmd) ==
    /\ ~dead
    /\ c \in clients \ closed
    /\ accepted < MaxCommands
    /\ AcceptCommand(c, cmd) \/ RefuseCommand(c, cmd)

(***************************************************************************)
(* OutTransferComplete.                                                    *)
(***************************************************************************)
OutTransferComplete(ok) ==
    /\ outTransferPending
    /\ outTransferPending' = FALSE
    /\ reads' = IF ~dead /\ ok THEN reads + 1 ELSE reads
    /\ doomed' = (doomed \/ (~dead /\ ~ok))
    /\ UNCHANGED <<deviceVars, txqueue, inTransferPending, shifts, threw, historyVars>>

(***************************************************************************)
(* readOneReply_.                                                          *)
(***************************************************************************)
ReadOneReply ==
    /\ reads > 0
    /\ reads' = reads - 1
    /\ inTransferPending' = (inTransferPending \/ ~dead)
    /\ threw' = (threw \/ (~dead /\ inTransferPending))
    /\ UNCHANGED <<deviceVars, txqueue, outTransferPending, shifts, doomed, historyVars>>

(***************************************************************************)
(* Seeded fault: the frame is shifted off before its reply is published.   *)
(***************************************************************************)
InTransferCompleteShifts(ok) ==
    /\ inTransferPending /\ ~dead
    /\ inTransferPending' = FALSE
    /\ PublishFrame
    /\ answered' = written
    /\ txqueue' = Tail(txqueue)
    /\ shifts' = shifts + 1
    /\ UNCHANGED <<closed, leaving, dead, lockVars, outTransferPending, reads,
                   doomed, threw, accepted, written>>

(***************************************************************************)
(* inTransferComplete.  The frame answered stays at the head of txqueue, so*)
(* that clients who react to the reply do not start a second write.        *)
(***************************************************************************)
InTransferComplete(ok) ==
    /\ inTransferPending
    /\ inTransferPending' = FALSE
    /\ \/ /\ ~dead /\ ok
          /\ PublishFrame
          /\ answered' = written
          /\ shifts' = shifts + 1
          /\ UNCHANGED doomed
       \/ /\ dead \/ ~ok
          /\ doomed' = (doomed \/ ~dead)
          /\ UNCHANGED <<clients, answered, shifts>>
    /\ UNCHANGED <<closed, leaving, dead, lockVars, txqueue, outTransferPending,
                   reads, threw, accepted, written>>

(***************************************************************************)
(* Seeded fault: the frame sent is not shifted off.                        *)
(***************************************************************************)
WriteAgain ==
    /\ shifts > 0
    /\ shifts' = shifts - 1
    /\ WriteOneRequest(txqueue)
    /\ UNCHANGED <<deviceVars, txqueue, inTransferPending, reads, doomed, accepted, answered>>

(***************************************************************************)
(* The callback that drops the frame that was sent and writes the next.    *)
(***************************************************************************)
ShiftAndWrite ==
    /\ shifts > 0
    /\ shifts' = shifts - 1
    /\ txqueue' = IF txqueue = <<>> THEN <<>> ELSE Tail(txqueue)
    /\ WriteOneRequest(txqueue')
    /\ UNCHANGED <<deviceVars, inTransferPending, reads, doomed, accepted, answered>>

DestroyScheduled ==
    /\ doomed
    /\ doomed' = FALSE
    /\ \/ ~dead /\ DestroyDevice
       \/ dead /\ UNCHANGED <<clients, closed, dead, lockVars>>
    /\ UNCHANGED <<leaving, txqueue, outTransferPending, inTransferPending, reads,
                   shifts, threw, historyVars>>

(***************************************************************************)
(* destroy, called by a Gnubby whose read timed out, or by Gnubbies when   *)
(* the device vanished or was inactive.                                    *)
(***************************************************************************)
Destroy ==
    /\ ~dead
    /\ DestroyDevice
    /\ UNCHANGED <<leaving, txqueue, transferVars, historyVars>>

RegisterClient(c, late) ==
    AddClient(c, late) /\ UNCHANGED <<txqueue, transferVars, historyVars>>

CloseClient(c) ==
    LeaveDevice(c) /\ UNCHANGED <<txqueue, transferVars, historyVars>>

DeregisterClient(c) ==
    RemoveFromDevice(c) /\ UNCHANGED <<txqueue, transferVars, historyVars>>

LockExpires ==
    ExpireLock /\ UNCHANGED <<txqueue, transferVars, historyVars>>

Next ==
    \/ \E c \in Clients :
         \/ \E cmd \in Commands : QueueCommand(c, cmd)
         \/ \E late \in BOOLEAN : RegisterClient(c, late)
         \/ CloseClient(c) \/ DeregisterClient(c)
    \/ \E ok \in BOOLEAN : OutTransferComplete(ok) \/ InTransferComplete(ok)
    \/ ReadOneReply \/ ShiftAndWrite \/ DestroyScheduled
    \/ Destroy \/ LockExpires

(***************************************************************************)
(* Timers fire, and every bulkTransfer calls back: the key is responsive.  *)
(* When it is not, the read timeout of a Gnubby destroys the device.       *)
(***************************************************************************)
Fairness ==
    /\ WF_vars(ReadOneReply) /\ WF_vars(ShiftAndWrite) /\ WF_vars(DestroyScheduled)
    /\ WF_vars(LockExpires)
    /\ WF_vars(\E ok \in BOOLEAN : OutTransferComplete(ok))
    /\ WF_vars(\E ok \in BOOLEAN : InTransferComplete(ok))

Spec == Init /\ [][Next]_vars
FairSpec == Spec /\ Fairness
-----------------------------------------------------------------------------
TypeOK ==
    /\ DeviceTypeOK
    /\ txqueue \in Seq(1..MaxCommands)
    /\ outTransferPending \in BOOLEAN /\ inTransferPending \in BOOLEAN
    /\ reads \in Nat /\ shifts \in Nat
    /\ doomed \in BOOLEAN /\ threw \in BOOLEAN
    /\ accepted \in 0..MaxCommands /\ written \in 0..MaxCommands
    /\ answered \in 0..MaxCommands

(***************************************************************************)
(* writeOneRequest_ and readOneReply_ throw 'outTransferPending!' and      *)
(* 'inTransferPending!' if ever two transfers in one direction overlap;    *)
(* the throw would strand everything queued.  They never do.               *)
(***************************************************************************)
NeverThrows == ~threw

(***************************************************************************)
(* The pump never stalls: as long as a frame is queued, one callback is    *)
(* outstanding that will carry the queue on, or the device is being        *)
(* destroyed.  queueCommand on a non-empty queue relies on it.             *)
(***************************************************************************)
PumpNeverStalls ==
    txqueue # <<>> => \/ dead \/ doomed
                      \/ outTransferPending \/ inTransferPending
                      \/ reads > 0 \/ shifts > 0

(***************************************************************************)
(* The clients share the key as CommandChannel says: commands go out in    *)
(* the order queued, each once, one at a time, and are answered while the  *)
(* key responds.                                                           *)
(***************************************************************************)
Channel == INSTANCE CommandChannel WITH sent <- written, open <- ~dead

ImplementsChannel == Channel!FairSpec
ImplementsChannelSafely == Channel!Spec
=============================================================================

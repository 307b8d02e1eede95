----------------------- MODULE HidGnubbyDeviceProofs -----------------------
(***************************************************************************)
(* Proofs about HidGnubbyDevice, for any clients, any number of frames and *)
(* commands of any length: its types, the pump that carries txqueue to the *)
(* key in order and without a stall, and the read loop.                    *)
(***************************************************************************)
EXTENDS HidGnubbyDevice, TLAPS

USE NoClientAssumption, MaxFramesAssumption, MaxFragmentsAssumption
    DEF NoClientAssumption, MaxFramesAssumption, MaxFragmentsAssumption

(***************************************************************************)
(* What the operations shared with the USB driver do to the types.         *)
(***************************************************************************)
LEMMA DestroyTypes ==
    ASSUME DeviceTypeOK, DestroyDevice, leaving' \subseteq leaving
    PROVE  DeviceTypeOK'
<1>1. lockTID' = FALSE /\ lockTimers' \in Nat
  BY DEF DeviceTypeOK, DestroyDevice, OtherTimers
<1> QED
  BY <1>1 DEF DeviceTypeOK, DestroyDevice

LEMMA ExpireTypes ==
    ASSUME DeviceTypeOK, ExpireLock
    PROVE  DeviceTypeOK'
<1>1. lockTID' = FALSE /\ lockTimers' \in Nat
  BY DEF DeviceTypeOK, ExpireLock
<1> QED
  BY <1>1 DEF DeviceTypeOK, ExpireLock, clientVars

(***************************************************************************)
(* updateLock_ leaves the lock with a client or nobody, and its timer one  *)
(* of those that run.                                                      *)
(***************************************************************************)
LEMMA UpdateLockTypes ==
    ASSUME DeviceTypeOK, NEW c \in Clients, NEW cmd \in Commands, UpdateLock(c, cmd)
    PROVE  /\ lockCID' \in Clients \cup {NoClient}
           /\ lockTID' \in BOOLEAN /\ lockTimers' \in Nat
           /\ lockTID' => lockTimers' > 0
<1>1. CASE lockCID \notin {NoClient, c}
  BY <1>1 DEF DeviceTypeOK, UpdateLock, lockVars
<1>2. CASE lockCID \in {NoClient, c}
  <2>1. lockCID' \in {c, NoClient, lockCID}
    BY <1>2 DEF UpdateLock, Commands
  <2>2. OtherTimers \in Nat
    BY DEF OtherTimers, DeviceTypeOK
  <2>3. lockTID' = (lockCID' # NoClient)
        /\ lockTimers' = IF lockTID' THEN OtherTimers + 1 ELSE OtherTimers
    BY <1>2 DEF UpdateLock
  <2>4. lockTID' \in BOOLEAN /\ lockTimers' \in Nat /\ (lockTID' => lockTimers' > 0)
    BY <2>2, <2>3
  <2> QED
    BY <2>1, <2>4 DEF DeviceTypeOK
<1> QED
  BY <1>1, <1>2

(***************************************************************************)
(* queueFrame_, called once per fragment, appends the fragments' numbers in*)
(* order: the queue stays well typed, keeps its head, or begins with the   *)
(* first fragment.                                                         *)
(***************************************************************************)
LEMMA QueueFrames ==
    ASSUME TypeOK, NEW n \in 1..MaxFragments, accepted + n <= MaxFrames,
           txqueue' = txqueue \o [i \in 1..n |-> accepted + i]
    PROVE  /\ txqueue' \in Seq(1..MaxFrames)
           /\ txqueue' # <<>>
           /\ Len(txqueue') = Len(txqueue) + n
           /\ \A i \in 1..Len(txqueue) : txqueue'[i] = txqueue[i]
           /\ \A i \in 1..n : txqueue'[Len(txqueue) + i] = accepted + i
           /\ txqueue # <<>> => Head(txqueue') = Head(txqueue)
           /\ txqueue = <<>> => Head(txqueue') = accepted + 1
<1> DEFINE new == [i \in 1..n |-> accepted + i]
<1>1. accepted \in Nat /\ n \in Nat \ {0} /\ txqueue \in Seq(1..MaxFrames)
  BY DEF TypeOK
<1>2. new \in Seq(1..MaxFrames) /\ Len(new) = n /\ (\A i \in 1..n : new[i] = accepted + i)
  BY <1>1
<1>3. txqueue' = txqueue \o new
  OBVIOUS
<1> HIDE DEF new
<1>4. txqueue' \in Seq(1..MaxFrames) /\ Len(txqueue') = Len(txqueue) + n
  BY <1>1, <1>2, <1>3
<1>5. /\ \A i \in 1..Len(txqueue) : txqueue'[i] = txqueue[i]
      /\ \A i \in 1..n : txqueue'[Len(txqueue) + i] = accepted + i
  BY <1>1, <1>2, <1>3
<1>6. txqueue' # <<>> /\ Head(txqueue') = txqueue'[1]
  <2>1. \A q \in Seq(1..MaxFrames) : Len(q) > 0 => q # <<>> /\ Head(q) = q[1]
    OBVIOUS
  <2>2. Len(txqueue') > 0
    BY <1>1, <1>4
  <2> QED
    BY <1>4, <2>1, <2>2
<1>7. ASSUME txqueue # <<>> PROVE Head(txqueue') = Head(txqueue)
  <2>1. Len(txqueue) \in Nat \ {0} /\ Head(txqueue) = txqueue[1]
    BY <1>1, <1>7
  <2> QED
    BY <1>5, <1>6, <2>1
<1>8. ASSUME txqueue = <<>> PROVE Head(txqueue') = accepted + 1
  <2>1. Len(txqueue) = 0 /\ 1 \in 1..n
    BY <1>1, <1>8
  <2> QED
    BY <1>5, <1>6, <2>1
<1> QED
  BY <1>4, <1>5, <1>6, <1>7, <1>8

(***************************************************************************)
(* Shifting txqueue, empty or not, keeps it a queue of frames.             *)
(***************************************************************************)
LEMMA ShiftTypes ==
    ASSUME NEW q \in Seq(1..MaxFrames)
    PROVE  (IF q = <<>> THEN <<>> ELSE Tail(q)) \in Seq(1..MaxFrames)
<1>1. q # <<>> => Tail(q) \in Seq(1..MaxFrames)
  OBVIOUS
<1> QED
  BY <1>1

(***************************************************************************)
(* writePump_ hands out a frame of the queue it is given.                  *)
(***************************************************************************)
LEMMA WriteTypes ==
    ASSUME TypeOK, NEW q \in Seq(1..MaxFrames), WritePump(q)
    PROVE  sending' \in Nat /\ written' \in 0..MaxFrames
<1>1. q # <<>> => Head(q) \in 1..MaxFrames
  OBVIOUS
<1> QED
  BY <1>1 DEF TypeOK, WritePump

(***************************************************************************)
(* Every step of the driver and of its clients keeps its state well typed. *)
(***************************************************************************)
THEOREM TypeCorrect == Spec => []TypeOK
<1>1. Init => TypeOK
  <2>1. InitDevice => DeviceTypeOK
    <3>1. InitDevice => lockTID = FALSE /\ lockTimers \in Nat
      BY DEF InitDevice
    <3> QED
      BY <3>1 DEF InitDevice, DeviceTypeOK
  <2>3. Init => doomed = FALSE /\ broken = FALSE
    BY DEF Init
  <2>2. 0 \in 0..MaxFrames /\ <<>> \in Seq(1..MaxFrames) /\ 0 \in Nat
    OBVIOUS
  <2> QED
    BY <2>1, <2>2, <2>3 DEF Init, TypeOK
<1>2. TypeOK /\ [Next]_vars => TypeOK'
  <2> SUFFICES ASSUME TypeOK, [Next]_vars PROVE TypeOK'
    OBVIOUS
  <2> USE DEF deviceVars, clientVars, lockVars, writeVars, readVars
  <2>1. ASSUME NEW c \in Clients, NEW cmd \in Commands, NEW n \in 1..MaxFragments,
               QueueCommand(c, cmd, n)
        PROVE  TypeOK'
    <3>1. CASE AcceptCommand(c, cmd, n)
      <4>1. accepted + n \in 0..MaxFrames
        BY <2>1 DEF TypeOK, QueueCommand
      <4>2. txqueue' \in Seq(1..MaxFrames)
        BY <2>1, <3>1, QueueFrames DEF AcceptCommand, QueueCommand
      <4>3. sending' \in Nat /\ written' \in 0..MaxFrames
        BY <3>1, <4>2, WriteTypes DEF AcceptCommand, TypeOK
      <4>4. DeviceTypeOK'
        BY <3>1, UpdateLockTypes DEF TypeOK, DeviceTypeOK, AcceptCommand
      <4> QED
        BY <3>1, <4>1, <4>2, <4>3, <4>4 DEF TypeOK, AcceptCommand
    <3>2. CASE RefuseCommand(c, cmd)
      BY <3>2 DEF TypeOK, DeviceTypeOK, RefuseCommand, PublishFrame
    <3> QED
      BY <2>1, <3>1, <3>2 DEF QueueCommand
  <2>2. ASSUME NEW c \in Clients, NEW late \in BOOLEAN, RegisterClient(c, late)
        PROVE  TypeOK'
    <3>1. DeviceTypeOK'
      BY <2>2 DEF TypeOK, DeviceTypeOK, RegisterClient, AddClient
    <3>2. receiving' \in Nat
      BY <2>2 DEF TypeOK, RegisterClient
    <3>3. broken' \in BOOLEAN
      BY <2>2, Zenon DEF RegisterClient
    <3> QED
      BY <2>2, <3>1, <3>2, <3>3 DEF TypeOK, RegisterClient
  <2>3. ASSUME NEW c \in Clients, CloseClient(c)
        PROVE  TypeOK'
    BY <2>3 DEF TypeOK, DeviceTypeOK, CloseClient, LeaveDevice
  <2>4. ASSUME NEW c \in Clients, DeregisterClient(c)
        PROVE  TypeOK'
    <3>1. DeviceTypeOK'
      BY <2>4, DestroyTypes DEF TypeOK, DeviceTypeOK, DeregisterClient, RemoveFromDevice
    <3> QED
      BY <2>4, <3>1 DEF TypeOK, DeregisterClient
  <2>5. ASSUME NEW ok \in BOOLEAN, TransferComplete(ok)
        PROVE  TypeOK'
    <3>1. txqueue' \in Seq(1..MaxFrames)
      BY <2>5, ShiftTypes DEF TypeOK, TransferComplete
    <3>2. sending' \in Nat /\ pumps' \in Nat
      BY <2>5 DEF TypeOK, TransferComplete
    <3>3. doomed' \in BOOLEAN
      BY <2>5 DEF TypeOK, TransferComplete
    <3> QED
      BY <2>5, <3>1, <3>2, <3>3 DEF TypeOK, DeviceTypeOK, TransferComplete
  <2>6. ASSUME NEW result \in {"data", "error", "empty"}, Received(result)
        PROVE  TypeOK'
    <3>1. receiving' \in Nat /\ loops' \in Nat
      BY <2>6 DEF TypeOK, Received
    <3>3. doomed' \in BOOLEAN /\ broken' \in BOOLEAN
      BY <2>6 DEF TypeOK, Received
    <3>2. DeviceTypeOK'
      BY <2>6 DEF TypeOK, DeviceTypeOK, Received, PublishFrame
    <3> QED
      BY <2>6, <3>1, <3>2, <3>3 DEF TypeOK, Received
  <2>7. CASE ScheduledWrite
    <3>1. pumps' \in Nat /\ sending' \in Nat /\ written' \in 0..MaxFrames
      BY <2>7, WriteTypes DEF TypeOK, ScheduledWrite
    <3> QED
      BY <2>7, <3>1 DEF TypeOK, DeviceTypeOK, ScheduledWrite
  <2>8. CASE CleanUp
    <3>1. DeviceTypeOK'
      BY <2>8, DestroyTypes DEF TypeOK, CleanUp
    <3>2. loops' \in Nat
      BY <2>8 DEF TypeOK, CleanUp
    <3> QED
      BY <2>8, <3>1, <3>2 DEF TypeOK, CleanUp
  <2>9. CASE ReadLoop
    <3>1. receiving' \in Nat /\ loops' \in Nat
      BY <2>9 DEF TypeOK, ReadLoop
    <3> QED
      BY <2>9, <3>1 DEF TypeOK, DeviceTypeOK, ReadLoop
  <2>10. CASE DestroyScheduled \/ Destroy
    <3>1. DeviceTypeOK'
      BY <2>10, DestroyTypes DEF TypeOK, DeviceTypeOK, DestroyScheduled, Destroy
    <3> QED
      BY <2>10, <3>1 DEF TypeOK, DestroyScheduled, Destroy
  <2>11. CASE LockExpires
    <3>1. DeviceTypeOK'
      BY <2>11, ExpireTypes DEF TypeOK, LockExpires
    <3> QED
      BY <2>11, <3>1 DEF TypeOK, LockExpires, ExpireLock
  <2>12. CASE UNCHANGED vars
    BY <2>12 DEF TypeOK, DeviceTypeOK, vars
  <2> QED
    BY <2>1, <2>2, <2>3, <2>4, <2>5, <2>6, <2>7, <2>8, <2>9, <2>10, <2>11, <2>12
       DEF Next
<1> QED
  BY <1>1, <1>2, PTL DEF Spec
-----------------------------------------------------------------------------
(***************************************************************************)
(* The pump.  The frames in txqueue are the last ones queued, in order.  A *)
(* send or the timer that starts the next is outstanding, never both and   *)
(* never two; the frame it is about stays at the head of txqueue.          *)
(***************************************************************************)
QueueInOrder ==
    /\ Len(txqueue) <= accepted
    /\ \A i \in 1..Len(txqueue) : txqueue[i] = (accepted - Len(txqueue)) + i

OnePump ==
    /\ sending + pumps <= 1
    /\ sending = 1 => txqueue # <<>> /\ written = Head(txqueue)
    /\ pumps = 1 => txqueue # <<>> /\ (dead \/ Head(txqueue) = written + 1)
    /\ txqueue = <<>> => dead \/ written = accepted

PumpInv == QueueInOrder /\ OnePump /\ SendNeverStalls

(***************************************************************************)
(* Queued frames keep the order.                                           *)
(***************************************************************************)
LEMMA AppendInOrder ==
    ASSUME TypeOK, QueueInOrder, NEW n \in 1..MaxFragments, accepted + n <= MaxFrames,
           accepted' = accepted + n,
           txqueue' = txqueue \o [i \in 1..n |-> accepted + i]
    PROVE  QueueInOrder'
<1>1. Len(txqueue) \in Nat /\ accepted \in Nat /\ n \in Nat \ {0}
  BY DEF TypeOK
<1>2. /\ Len(txqueue') = Len(txqueue) + n
      /\ \A i \in 1..Len(txqueue) : txqueue'[i] = txqueue[i]
      /\ \A i \in 1..n : txqueue'[Len(txqueue) + i] = accepted + i
  BY QueueFrames
<1>3. ASSUME NEW i \in 1..Len(txqueue')
      PROVE  txqueue'[i] = (accepted' - Len(txqueue')) + i
  <2>1. (accepted' - Len(txqueue')) + i = (accepted - Len(txqueue)) + i
    BY <1>1, <1>2, <1>3
  <2>2. CASE i <= Len(txqueue)
    BY <1>1, <1>2, <1>3, <2>1, <2>2 DEF QueueInOrder
  <2>3. CASE i > Len(txqueue)
    <3>1. i - Len(txqueue) \in 1..n /\ Len(txqueue) + (i - Len(txqueue)) = i
      BY <1>1, <1>2, <1>3, <2>3
    <3>2. txqueue'[i] = accepted + (i - Len(txqueue))
      BY <1>2, <3>1
    <3> QED
      BY <1>1, <1>3, <2>1, <3>2
  <2> QED
    BY <1>1, <1>3, <2>2, <2>3
<1> QED
  BY <1>1, <1>2, <1>3 DEF QueueInOrder

(***************************************************************************)
(* Shifting the frame that was sent keeps the order, and the frame now at  *)
(* the head is the next one.                                               *)
(***************************************************************************)
LEMMA TailInOrder ==
    ASSUME TypeOK, QueueInOrder, txqueue # <<>>,
           accepted' = accepted, txqueue' = Tail(txqueue)
    PROVE  /\ QueueInOrder'
           /\ txqueue' = <<>> => Head(txqueue) = accepted
           /\ txqueue' # <<>> => Head(txqueue') = Head(txqueue) + 1
<1>1. Len(txqueue) \in Nat \ {0} /\ accepted \in Nat
  BY DEF TypeOK
<1>2. /\ Len(txqueue') = Len(txqueue) - 1
      /\ \A i \in 1..Len(txqueue') : txqueue'[i] = txqueue[i + 1]
  BY DEF TypeOK
<1>3. \A i \in 1..Len(txqueue') : txqueue'[i] = (accepted' - Len(txqueue')) + i
  BY <1>1, <1>2 DEF QueueInOrder
<1>4. Head(txqueue) = (accepted - Len(txqueue)) + 1
  BY <1>1 DEF QueueInOrder
<1>5. txqueue' \in Seq(1..MaxFrames)
  BY DEF TypeOK
<1>6. txqueue' = <<>> => Len(txqueue) = 1
  BY <1>1, <1>2
<1>7. txqueue' # <<>> => Len(txqueue') >= 1 /\ Head(txqueue') = txqueue'[1]
  <2>1. \A q \in Seq(1..MaxFrames) : q # <<>> => Len(q) >= 1 /\ Head(q) = q[1]
    OBVIOUS
  <2> QED
    BY <1>5, <2>1
<1> QED
  BY <1>1, <1>2, <1>3, <1>4, <1>6, <1>7 DEF QueueInOrder

(***************************************************************************)
(* Steps that leave the frames alone keep the pump's invariant, as long as *)
(* a device about to be destroyed stays so until it is dead.               *)
(***************************************************************************)
LEMMA PumpUntouched ==
    ASSUME PumpInv, UNCHANGED writeVars, dead => dead', doomed => dead' \/ doomed'
    PROVE  PumpInv'
<1>1. QueueInOrder'
  BY DEF PumpInv, QueueInOrder, writeVars
<1>2. OnePump'
  BY DEF PumpInv, OnePump, writeVars
<1>3. SendNeverStalls'
  BY DEF PumpInv, SendNeverStalls, writeVars
<1> QED
  BY <1>1, <1>2, <1>3 DEF PumpInv

(***************************************************************************)
(* What every step does to the frames: nothing, or it is one of the three  *)
(* that write.                                                             *)
(***************************************************************************)
LEMMA Writers ==
    ASSUME TypeOK, [Next]_vars
    PROVE  \/ \E c \in Clients, cmd \in Commands, n \in 1..MaxFragments :
                ~dead /\ accepted + n <= MaxFrames /\ AcceptCommand(c, cmd, n)
           \/ \E ok \in BOOLEAN : TransferComplete(ok)
           \/ ScheduledWrite
           \/ UNCHANGED writeVars /\ (dead => dead') /\ (doomed => dead' \/ doomed')
<1> USE DEF TypeOK, DeviceTypeOK, deviceVars, clientVars, lockVars, writeVars, readVars
<1>1. ASSUME NEW c \in Clients,
             (\E late \in BOOLEAN : RegisterClient(c, late)) \/ CloseClient(c) \/ DeregisterClient(c)
      PROVE  UNCHANGED writeVars /\ (dead => dead') /\ (doomed => dead' \/ doomed')
  BY <1>1 DEF RegisterClient, AddClient, CloseClient, LeaveDevice, DeregisterClient,
              RemoveFromDevice, DestroyDevice
<1>2. ASSUME NEW c \in Clients, NEW cmd \in Commands, RefuseCommand(c, cmd)
      PROVE  UNCHANGED writeVars /\ (dead => dead') /\ (doomed => dead' \/ doomed')
  BY <1>2 DEF RefuseCommand
<1>3. ASSUME NEW result \in {"data", "error", "empty"}, Received(result)
      PROVE  UNCHANGED writeVars /\ (dead => dead') /\ (doomed => dead' \/ doomed')
  BY <1>3 DEF Received
<1>4. CASE CleanUp \/ ReadLoop \/ DestroyScheduled \/ Destroy \/ LockExpires
  BY <1>4 DEF CleanUp, ReadLoop, DestroyScheduled, Destroy, LockExpires, ExpireLock,
              DestroyDevice
<1>5. CASE UNCHANGED vars
  BY <1>5 DEF vars
<1> QED
  BY <1>1, <1>2, <1>3, <1>4, <1>5 DEF Next, QueueCommand

(***************************************************************************)
(* A command queued while frames wait only joins them; the first frame of  *)
(* a command that finds txqueue empty is sent, and is the next one.        *)
(***************************************************************************)
LEMMA AcceptKeepsPump ==
    ASSUME TypeOK, PumpInv, ~dead,
           NEW c \in Clients, NEW cmd \in Commands, NEW n \in 1..MaxFragments,
           accepted + n <= MaxFrames, AcceptCommand(c, cmd, n)
    PROVE  PumpInv' /\ (sending' > sending => written' = written + 1)
<1>1. /\ accepted' = accepted + n /\ pumps' = pumps /\ doomed' = doomed /\ dead' = dead
      /\ txqueue' = txqueue \o [i \in 1..n |-> accepted + i]
  BY DEF AcceptCommand, readVars
<1>2. QueueInOrder'
  BY <1>1, AppendInOrder DEF PumpInv
<1>3. /\ txqueue' # <<>>
      /\ txqueue # <<>> => Head(txqueue') = Head(txqueue)
      /\ txqueue = <<>> => Head(txqueue') = accepted + 1
  BY <1>1, QueueFrames
<1>4. /\ sending \in Nat /\ pumps \in Nat
      /\ accepted \in Nat /\ written \in Nat
  BY DEF TypeOK
<1>5. CASE txqueue = <<>>
  <2>1. sending = 0 /\ pumps = 0 /\ written = accepted
    BY <1>4, <1>5 DEF PumpInv, OnePump
  <2>2. sending' = sending + 1 /\ written' = Head(txqueue')
    BY <1>1, <1>3, <1>5 DEF AcceptCommand, WritePump
  <2>3. sending' = 1 /\ pumps' = 0 /\ written' = written + 1
    BY <1>1, <1>3, <1>5, <2>1, <2>2
  <2>4. OnePump'
    BY <1>3, <2>2, <2>3 DEF OnePump
  <2>5. SendNeverStalls'
    BY <2>3 DEF SendNeverStalls
  <2> QED
    BY <1>2, <2>3, <2>4, <2>5 DEF PumpInv
<1>6. CASE txqueue # <<>>
  <2>1. sending' = sending /\ written' = written
    BY <1>6 DEF AcceptCommand
  <2>2. OnePump'
    BY <1>1, <1>3, <1>6, <2>1 DEF PumpInv, OnePump
  <2>3. SendNeverStalls'
    BY <1>1, <1>6, <2>1 DEF PumpInv, SendNeverStalls
  <2>4. ~(sending' > sending)
    BY <1>4, <2>1
  <2> QED
    BY <1>2, <2>2, <2>3, <2>4 DEF PumpInv
<1> QED
  BY <1>5, <1>6

(***************************************************************************)
(* A completed send shifts its own frame off and schedules the next, if    *)
(* any; a failed one leaves the queue and dooms the device.                *)
(***************************************************************************)
LEMMA CompleteKeepsPump ==
    ASSUME TypeOK, PumpInv, NEW ok \in BOOLEAN, TransferComplete(ok)
    PROVE  PumpInv' /\ ~(sending' > sending)
<1>1. /\ sending > 0 /\ sending' = sending - 1
      /\ accepted' = accepted /\ written' = written /\ dead' = dead
  BY DEF TransferComplete, deviceVars, readVars
<1>2. /\ sending \in Nat /\ pumps \in Nat
      /\ accepted \in Nat /\ written \in Nat
  BY DEF TypeOK
<1>3. /\ sending = 1 /\ pumps = 0 /\ sending' = 0 /\ ~(sending' > sending)
  BY <1>1, <1>2 DEF PumpInv, OnePump
<1>4. txqueue # <<>> /\ written = Head(txqueue)
  BY <1>3 DEF PumpInv, OnePump
<1>5. CASE ok
  <2>1. txqueue' = Tail(txqueue) /\ pumps' = IF txqueue' = <<>> THEN pumps ELSE pumps + 1
    BY <1>4, <1>5 DEF TransferComplete
  <2>2. /\ QueueInOrder'
        /\ txqueue' = <<>> => written' = accepted'
        /\ txqueue' # <<>> => Head(txqueue') = written' + 1
    BY <1>1, <1>4, <2>1, TailInOrder DEF PumpInv
  <2>3. OnePump'
    BY <1>3, <2>1, <2>2 DEF OnePump
  <2>4. SendNeverStalls'
    BY <1>3, <2>1 DEF SendNeverStalls
  <2> QED
    BY <1>3, <2>2, <2>3, <2>4 DEF PumpInv
<1>6. CASE ~ok
  <2>1. doomed' = TRUE /\ txqueue' = txqueue /\ pumps' = pumps
    BY <1>6 DEF TransferComplete
  <2>2. QueueInOrder'
    BY <1>1, <2>1 DEF PumpInv, QueueInOrder
  <2>3. OnePump'
    BY <1>3, <1>4, <2>1 DEF OnePump
  <2>4. SendNeverStalls'
    BY <2>1 DEF SendNeverStalls
  <2> QED
    BY <1>3, <2>2, <2>3, <2>4 DEF PumpInv
<1> QED
  BY <1>5, <1>6

(***************************************************************************)
(* The timer sends the frame that follows the last one sent.               *)
(***************************************************************************)
LEMMA ScheduledWriteKeepsPump ==
    ASSUME TypeOK, PumpInv, ScheduledWrite
    PROVE  PumpInv' /\ (sending' > sending => written' = written + 1)
<1>1. /\ pumps > 0 /\ pumps' = pumps - 1 /\ txqueue' = txqueue
      /\ accepted' = accepted /\ dead' = dead /\ doomed' = doomed
  BY DEF ScheduledWrite, deviceVars, readVars
<1>2. sending \in Nat /\ pumps \in Nat /\ accepted \in Nat /\ written \in Nat
  BY DEF TypeOK
<1>3. pumps = 1 /\ sending = 0 /\ pumps' = 0
  BY <1>1, <1>2 DEF PumpInv, OnePump
<1>4. txqueue # <<>> /\ (dead \/ Head(txqueue) = written + 1)
  BY <1>3 DEF PumpInv, OnePump
<1>5. QueueInOrder'
  BY <1>1 DEF PumpInv, QueueInOrder
<1>6. CASE dead
  <2>1. sending' = 0 /\ written' = written
    BY <1>3, <1>6 DEF ScheduledWrite, WritePump
  <2>2. OnePump' /\ SendNeverStalls'
    BY <1>1, <1>3, <1>4, <1>6, <2>1 DEF OnePump, SendNeverStalls
  <2> QED
    BY <1>3, <1>5, <2>1, <2>2 DEF PumpInv
<1>7. CASE ~dead
  <2>1. sending' = sending + 1 /\ written' = Head(txqueue)
    BY <1>4, <1>7 DEF ScheduledWrite, WritePump
  <2>2. sending' = 1 /\ written' = written + 1
    BY <1>3, <1>4, <1>7, <2>1
  <2>3. OnePump' /\ SendNeverStalls'
    BY <1>1, <1>3, <1>4, <2>1, <2>2 DEF OnePump, SendNeverStalls
  <2> QED
    BY <1>5, <2>2, <2>3 DEF PumpInv
<1> QED
  BY <1>6, <1>7

(***************************************************************************)
(* PumpInv is preserved by every step, and the frame a step hands to       *)
(* chrome.hid.send follows the one before.                                 *)
(***************************************************************************)
LEMMA PumpStep ==
    ASSUME TypeOK, PumpInv, [Next]_vars
    PROVE  PumpInv' /\ (sending' > sending => written' = written + 1)
<1>1. ASSUME UNCHANGED writeVars, dead => dead', doomed => dead' \/ doomed'
      PROVE  PumpInv' /\ (sending' > sending => written' = written + 1)
  <2>1. sending' = sending /\ sending \in Nat
    BY <1>1 DEF writeVars, TypeOK
  <2> QED
    BY <1>1, <2>1, PumpUntouched
<1> QED
  BY <1>1, Writers, AcceptKeepsPump, CompleteKeepsPump, ScheduledWriteKeepsPump

(***************************************************************************)
(* The pump's invariant holds in every reachable state.                    *)
(***************************************************************************)
THEOREM PumpInvariant == Spec => [](TypeOK /\ PumpInv)
<1>1. Init => PumpInv
  <2>1. Len(<<>>) = 0
    OBVIOUS
  <2> QED
    BY <2>1 DEF Init, PumpInv, QueueInOrder, OnePump, SendNeverStalls
<1>2. TypeOK /\ PumpInv /\ [Next]_vars => PumpInv'
  BY PumpStep
<1> QED
  BY <1>1, <1>2, TypeCorrect, PTL DEF Spec

(***************************************************************************)
(* Queued frames never wait for nothing, whenever commands, completions,   *)
(* failures and destructions come.                                         *)
(***************************************************************************)
THEOREM SendsNeverStall == Spec => []SendNeverStalls
<1>1. PumpInv => SendNeverStalls
  BY DEF PumpInv
<1> QED
  BY <1>1, PumpInvariant, PTL

(***************************************************************************)
(* Frames reach the key in the order they were queued, none skipped, none  *)
(* twice, and no command's fragments between another's.                    *)
(***************************************************************************)
THEOREM FramesAreSentInOrder == Spec => FramesInOrder
<1>1. TypeOK /\ PumpInv /\ [Next]_vars
        => [sending' > sending => written' = written + 1]_vars
  BY PumpStep
<1> QED
  BY <1>1, PumpInvariant, PTL DEF Spec, FramesInOrder
-----------------------------------------------------------------------------
(***************************************************************************)
(* The read loop.  A dead device has no clients, so a loop that stops, or  *)
(* a scheduled destroy that finds the device dead, leaves nobody waiting.  *)
(***************************************************************************)
ListenInv == ListensForClients /\ (dead => clients = {})

(***************************************************************************)
(* The loop is continued by whatever ends a receive or a timer, until the  *)
(* device has no clients; unless a receive called back with nothing.       *)
(***************************************************************************)
THEOREM DeviceListens == Spec => []ListensForClients
<1>1. Init => ListenInv
  BY DEF Init, InitDevice, ListenInv, ListensForClients
<1>2. TypeOK /\ ListenInv /\ [Next]_vars => ListenInv'
  <2> SUFFICES ASSUME TypeOK, ListenInv, [Next]_vars PROVE ListenInv'
    OBVIOUS
  <2>1. receiving \in Nat /\ loops \in Nat
    BY DEF TypeOK
  <2>2. ASSUME dead' = dead \/ clients' = {}, clients' \subseteq clients,
               receiving' = receiving, loops' = loops,
               doomed => doomed', broken => broken'
        PROVE  ListenInv'
    <3>1. clients' # {} => receiving' > 0 \/ loops' > 0 \/ doomed' \/ broken'
      BY <2>2 DEF ListenInv, ListensForClients
    <3>2. dead' => clients' = {}
      BY <2>2 DEF ListenInv
    <3> QED
      BY <3>1, <3>2 DEF ListenInv, ListensForClients
  <2> USE DEF deviceVars, clientVars, lockVars, writeVars, readVars
  <2>3. ASSUME NEW c \in Clients, NEW cmd \in Commands, NEW n \in 1..MaxFragments,
               QueueCommand(c, cmd, n)
        PROVE  ListenInv'
    <3>1. /\ dead' = dead /\ clients' \subseteq clients
          /\ receiving' = receiving /\ loops' = loops /\ doomed' = doomed
          /\ broken' = broken
      BY <2>3 DEF QueueCommand, AcceptCommand, RefuseCommand, PublishFrame
    <3> QED
      BY <2>1, <2>2, <3>1
  <2>4. ASSUME NEW c \in Clients, NEW late \in BOOLEAN, RegisterClient(c, late)
        PROVE  ListenInv'
    <3>1. ~dead' /\ loops' = loops /\ doomed' = doomed
      BY <2>4 DEF RegisterClient, AddClient
    <3>2. CASE clients = {}
      <4>1. receiving' = receiving + 1
        BY <2>4, <3>2 DEF RegisterClient
      <4> QED
        BY <2>1, <3>1, <4>1 DEF ListenInv, ListensForClients
    <3>3. CASE clients # {}
      <4>1. receiving' = receiving /\ (broken => broken')
        BY <2>4, <3>3, Zenon DEF RegisterClient
      <4> QED
        BY <3>1, <3>3, <4>1 DEF ListenInv, ListensForClients
    <3> QED
      BY <3>2, <3>3
  <2>5. ASSUME NEW c \in Clients, CloseClient(c) \/ DeregisterClient(c)
        PROVE  ListenInv'
    <3>1. /\ dead' = dead \/ clients' = {}
          /\ clients' \subseteq clients
          /\ receiving' = receiving /\ loops' = loops /\ doomed' = doomed
          /\ broken' = broken
      BY <2>5 DEF CloseClient, LeaveDevice, DeregisterClient, RemoveFromDevice,
                  DestroyDevice
    <3> QED
      BY <2>1, <2>2, <3>1
  <2>6. ASSUME NEW ok \in BOOLEAN, TransferComplete(ok)
        PROVE  ListenInv'
    <3>1. /\ dead' = dead /\ clients' = clients
          /\ receiving' = receiving /\ loops' = loops /\ (doomed => doomed')
          /\ broken' = broken
      BY <2>6 DEF TransferComplete
    <3> QED
      BY <2>1, <2>2, <3>1
  <2>7. ASSUME NEW result \in {"data", "error", "empty"}, Received(result)
        PROVE  ListenInv'
    <3>1. dead' = dead /\ clients' \subseteq clients
      BY <2>7 DEF Received, PublishFrame
    <3>2. loops' = loops + 1 \/ doomed' \/ broken'
      BY <2>7 DEF Received
    <3>3. loops' > 0 \/ doomed' \/ broken'
      BY <2>1, <3>2
    <3> QED
      BY <3>1, <3>3 DEF ListenInv, ListensForClients
  <2>8. CASE ReadLoop
    <3>1. /\ dead' = dead /\ clients' = clients /\ (dead \/ receiving' = receiving + 1)
          /\ broken' = broken
      BY <2>8 DEF ReadLoop
    <3> QED
      BY <2>1, <3>1 DEF ListenInv, ListensForClients
  <2>9. CASE CleanUp \/ DestroyScheduled \/ Destroy
    <3>1. clients' = {}
      BY <2>9 DEF CleanUp, DestroyScheduled, Destroy, DestroyDevice, ListenInv
    <3> QED
      BY <3>1 DEF ListenInv, ListensForClients
  <2>10. CASE ScheduledWrite \/ LockExpires \/ UNCHANGED vars
    <3>1. /\ dead' = dead /\ clients' = clients
          /\ receiving' = receiving /\ loops' = loops /\ doomed' = doomed
          /\ broken' = broken
      BY <2>10 DEF ScheduledWrite, LockExpires, ExpireLock, vars
    <3> QED
      BY <2>1, <2>2, <3>1
  <2> QED
    BY <2>3, <2>4, <2>5, <2>6, <2>7, <2>8, <2>9, <2>10 DEF Next
<1>3. ListenInv => ListensForClients
  BY DEF ListenInv
<1> QED
  BY <1>1, <1>2, <1>3, TypeCorrect, PTL DEF Spec
=============================================================================

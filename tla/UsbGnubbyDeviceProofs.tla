----------------------- MODULE UsbGnubbyDeviceProofs -----------------------
(***************************************************************************)
(* Proofs about UsbGnubbyDevice, for any clients and any number of         *)
(* commands: its types, its lock, and the pump that carries txqueue to the *)
(* key - it never throws, never stalls, and implements CommandChannel.     *)
(***************************************************************************)
EXTENDS UsbGnubbyDevice, TLAPS

USE NoClientAssumption, MaxCommandsAssumption
    DEF NoClientAssumption, MaxCommandsAssumption

(***************************************************************************)
(* What the operations shared with the HID driver do to the types.         *)
(***************************************************************************)
LEMMA DestroyTypes ==
    ASSUME DeviceTypeOK, DestroyDevice, leaving' \subseteq leaving
    PROVE  DeviceTypeOK'
<1>1. lockTID' = FALSE /\ lockTimers' \in Nat
  BY DEF DeviceTypeOK, DestroyDevice, OtherTimers
<1> QED
  BY <1>1 DEF DeviceTypeOK, DestroyDevice

LEMMA ExpireTypes ==
    ASSUME DeviceTypeOK, ExpireLock
    PROVE  DeviceTypeOK'
<1>1. lockTID' = FALSE /\ lockTimers' \in Nat
  BY DEF DeviceTypeOK, ExpireLock
<1> QED
  BY <1>1 DEF DeviceTypeOK, ExpireLock, clientVars

(***************************************************************************)
(* updateLock_ leaves the lock with a client or nobody, and its timer one  *)
(* of those that run.                                                      *)
(***************************************************************************)
LEMMA UpdateLockTypes ==
    ASSUME DeviceTypeOK, NEW c \in Clients, NEW cmd \in Commands, UpdateLock(c, cmd)
    PROVE  /\ lockCID' \in Clients \cup {NoClient}
           /\ lockTID' \in BOOLEAN /\ lockTimers' \in Nat
           /\ lockTID' => lockTimers' > 0
<1>1. CASE lockCID \notin {NoClient, c}
  BY <1>1 DEF DeviceTypeOK, UpdateLock, lockVars
<1>2. CASE lockCID \in {NoClient, c}
  <2>1. lockCID' \in {c, NoClient, lockCID}
    BY <1>2 DEF UpdateLock, Commands
  <2>2. OtherTimers \in Nat
    BY DEF OtherTimers, DeviceTypeOK
  <2>3. lockTID' = (lockCID' # NoClient)
        /\ lockTimers' = IF lockTID' THEN OtherTimers + 1 ELSE OtherTimers
    BY <1>2 DEF UpdateLock
  <2>4. lockTID' \in BOOLEAN /\ lockTimers' \in Nat /\ (lockTID' => lockTimers' > 0)
    BY <2>2, <2>3
  <2> QED
    BY <2>1, <2>4 DEF DeviceTypeOK
<1> QED
  BY <1>1, <1>2

(***************************************************************************)
(* writeOneRequest_ hands out a frame of the queue it is given.            *)
(***************************************************************************)
LEMMA WriteTypes ==
    ASSUME TypeOK, NEW q \in Seq(1..MaxCommands), WriteOneRequest(q)
    PROVE  /\ outTransferPending' \in BOOLEAN /\ threw' \in BOOLEAN
           /\ written' \in 0..MaxCommands
<1>1. q # <<>> => Head(q) \in 1..MaxCommands
  OBVIOUS
<1> QED
  <2>1. CASE dead \/ q = <<>>
    BY <2>1 DEF TypeOK, WriteOneRequest
  <2>2. CASE ~dead /\ q # <<>>
    <3>1. CASE outTransferPending
      BY <2>2, <3>1 DEF TypeOK, WriteOneRequest
    <3>2. CASE ~outTransferPending
      <4>1. outTransferPending' = TRUE /\ threw' = threw /\ written' = Head(q)
        BY <2>2, <3>2 DEF WriteOneRequest
      <4> QED
        BY <1>1, <2>2, <4>1 DEF TypeOK
    <3> QED
      BY <3>1, <3>2
  <2> QED
    BY <2>1, <2>2

(***************************************************************************)
(* Every step of the driver and of its clients keeps its state well typed. *)
(***************************************************************************)
THEOREM TypeCorrect == Spec => []TypeOK
<1>1. Init => TypeOK
  <2>1. InitDevice => DeviceTypeOK
    <3>1. InitDevice => lockTID = FALSE /\ lockTimers \in Nat
      BY DEF InitDevice
    <3> QED
      BY <3>1 DEF InitDevice, DeviceTypeOK
  <2>2. 0 \in 0..MaxCommands /\ <<>> \in Seq(1..MaxCommands)
    OBVIOUS
  <2>3. Init => /\ outTransferPending \in BOOLEAN /\ inTransferPending \in BOOLEAN
                /\ doomed \in BOOLEAN /\ threw \in BOOLEAN
    BY DEF Init
  <2>4. Init => /\ txqueue \in Seq(1..MaxCommands)
                /\ reads \in Nat /\ shifts \in Nat
                /\ accepted \in 0..MaxCommands /\ written \in 0..MaxCommands
                /\ answered \in 0..MaxCommands
    BY <2>2 DEF Init
  <2> QED
    BY <2>1, <2>3, <2>4 DEF Init, TypeOK
<1>2. TypeOK /\ [Next]_vars => TypeOK'
  <2> SUFFICES ASSUME TypeOK, [Next]_vars PROVE TypeOK'
    OBVIOUS
  <2> USE DEF deviceVars, clientVars, lockVars, transferVars, historyVars
  <2>1. ASSUME NEW c \in Clients, NEW cmd \in Commands, QueueCommand(c, cmd)
        PROVE  TypeOK'
    <3>1. CASE AcceptCommand(c, cmd)
      <4>1. accepted + 1 \in 1..MaxCommands
        BY <2>1 DEF TypeOK, QueueCommand
      <4>2. txqueue' \in Seq(1..MaxCommands)
        BY <3>1, <4>1 DEF TypeOK, AcceptCommand
      <4>3. /\ outTransferPending' \in BOOLEAN /\ threw' \in BOOLEAN
            /\ written' \in 0..MaxCommands
        <5>1. CASE txqueue = <<>>
          BY <3>1, <4>2, <5>1, WriteTypes DEF AcceptCommand
        <5>2. CASE txqueue # <<>>
          BY <3>1, <5>2 DEF AcceptCommand, TypeOK
        <5> QED
          BY <5>1, <5>2
      <4>4. DeviceTypeOK'
        BY <3>1, UpdateLockTypes DEF TypeOK, DeviceTypeOK, AcceptCommand
      <4> QED
        BY <3>1, <4>1, <4>2, <4>3, <4>4 DEF TypeOK, AcceptCommand
    <3>2. CASE RefuseCommand(c, cmd)
      BY <3>2 DEF TypeOK, DeviceTypeOK, RefuseCommand, PublishFrame
    <3> QED
      BY <2>1, <3>1, <3>2 DEF QueueCommand
  <2>2. ASSUME NEW c \in Clients, NEW late \in BOOLEAN, RegisterClient(c, late)
        PROVE  TypeOK'
    BY <2>2 DEF TypeOK, DeviceTypeOK, RegisterClient, AddClient
  <2>3. ASSUME NEW c \in Clients, CloseClient(c)
        PROVE  TypeOK'
    BY <2>3 DEF TypeOK, DeviceTypeOK, CloseClient, LeaveDevice
  <2>4. ASSUME NEW c \in Clients, DeregisterClient(c)
        PROVE  TypeOK'
    <3>1. DeviceTypeOK'
      BY <2>4, DestroyTypes DEF TypeOK, DeviceTypeOK, DeregisterClient, RemoveFromDevice
    <3> QED
      BY <2>4, <3>1 DEF TypeOK, DeregisterClient
  <2>5. ASSUME NEW ok \in BOOLEAN, OutTransferComplete(ok)
        PROVE  TypeOK'
    <3>1. reads' \in Nat /\ doomed' \in BOOLEAN
      BY <2>5 DEF TypeOK, DeviceTypeOK, OutTransferComplete
    <3> QED
      BY <2>5, <3>1 DEF TypeOK, DeviceTypeOK, OutTransferComplete
  <2>6. ASSUME NEW ok \in BOOLEAN, InTransferComplete(ok)
        PROVE  TypeOK'
    <3>1. CASE ~dead /\ ok
      <4>1. DeviceTypeOK'
        BY <2>6, <3>1 DEF TypeOK, DeviceTypeOK, InTransferComplete, PublishFrame
      <4>2. inTransferPending' \in BOOLEAN /\ doomed' \in BOOLEAN
        BY <2>6, <3>1 DEF TypeOK, InTransferComplete
      <4>3. shifts' \in Nat /\ answered' \in 0..MaxCommands
        BY <2>6, <3>1 DEF TypeOK, InTransferComplete
      <4> QED
        BY <2>6, <3>1, <4>1, <4>2, <4>3 DEF TypeOK, InTransferComplete
    <3>2. CASE dead \/ ~ok
      <4>1. doomed' \in BOOLEAN
        BY <2>6, <3>2 DEF TypeOK, DeviceTypeOK, InTransferComplete
      <4> QED
        BY <2>6, <3>2, <4>1 DEF TypeOK, DeviceTypeOK, InTransferComplete
    <3> QED
      BY <3>1, <3>2
  <2>7. CASE ReadOneReply
    BY <2>7 DEF TypeOK, DeviceTypeOK, ReadOneReply
  <2>8. CASE ShiftAndWrite
    <3>1. txqueue' \in Seq(1..MaxCommands)
      <4>1. CASE txqueue = <<>>
        BY <2>8, <4>1 DEF TypeOK, ShiftAndWrite
      <4>2. CASE txqueue # <<>>
        BY <2>8, <4>2 DEF TypeOK, ShiftAndWrite
      <4> QED
        BY <4>1, <4>2
    <3> QED
      BY <2>8, <3>1, WriteTypes DEF TypeOK, DeviceTypeOK, ShiftAndWrite
  <2>9. CASE DestroyScheduled
    <3>1. DeviceTypeOK'
      BY <2>9, DestroyTypes DEF TypeOK, DeviceTypeOK, DestroyScheduled
    <3> QED
      BY <2>9, <3>1 DEF TypeOK, DestroyScheduled
  <2>10. CASE Destroy
    BY <2>10, DestroyTypes DEF TypeOK, Destroy
  <2>11. CASE LockExpires
    <3>1. DeviceTypeOK'
      BY <2>11, ExpireTypes DEF TypeOK, LockExpires
    <3> QED
      BY <2>11, <3>1 DEF TypeOK, LockExpires, ExpireLock
  <2>12. CASE UNCHANGED vars
    BY <2>12 DEF TypeOK, DeviceTypeOK, vars
  <2> QED
    BY <2>1, <2>2, <2>3, <2>4, <2>5, <2>6, <2>7, <2>8, <2>9, <2>10, <2>11, <2>12
       DEF Next
<1> QED
  BY <1>1, <1>2, PTL DEF Spec

(***************************************************************************)
(* The lock of a live device always has its one expiry timer, and no other *)
(* runs, whoever sends what in whichever order.                            *)
(***************************************************************************)
THEOREM LockHasOneTimer == Spec => []OneLockTimer
<1>1. Init => OneLockTimer
  BY DEF Init, InitDevice, OneLockTimer
<1>2. TypeOK /\ OneLockTimer /\ [Next]_vars => OneLockTimer'
  <2> SUFFICES ASSUME TypeOK, OneLockTimer, [Next]_vars PROVE OneLockTimer'
    OBVIOUS
  <2>1. ASSUME NEW c \in Clients, NEW cmd \in Commands, UpdateLock(c, cmd), dead' = dead
        PROVE  OneLockTimer'
    <3>1. CASE lockCID \notin {NoClient, c}
      BY <2>1, <3>1 DEF UpdateLock, lockVars, OneLockTimer
    <3>2. CASE lockCID \in {NoClient, c}
      <4>1. ~dead => OtherTimers = 0
        BY DEF OtherTimers, OneLockTimer, TypeOK, DeviceTypeOK
      <4>2. /\ lockTID' = (lockCID' # NoClient)
            /\ lockTimers' = IF lockTID' THEN OtherTimers + 1 ELSE OtherTimers
        BY <2>1, <3>2 DEF UpdateLock
      <4>3. CASE lockCID' = NoClient
        BY <2>1, <4>1, <4>2, <4>3 DEF OneLockTimer
      <4>4. CASE lockCID' # NoClient
        <5>1. lockTID' = TRUE
          BY <4>2, <4>4, Zenon
        <5>2. lockTimers' = OtherTimers + 1
          BY <4>2, <5>1
        <5> QED
          BY <2>1, <4>1, <4>4, <5>1, <5>2 DEF OneLockTimer
      <4> QED
        BY <4>3, <4>4
    <3> QED
      BY <3>1, <3>2
  <2>2. ASSUME UNCHANGED <<dead, lockVars>>
        PROVE  OneLockTimer'
    BY <2>2 DEF lockVars, OneLockTimer
  <2>3. ASSUME NEW c \in Clients, NEW cmd \in Commands, QueueCommand(c, cmd)
        PROVE  OneLockTimer'
    BY <2>1, <2>2, <2>3 DEF QueueCommand, AcceptCommand, RefuseCommand
  <2>4. CASE LockExpires
    BY <2>4 DEF LockExpires, ExpireLock, OneLockTimer, TypeOK, DeviceTypeOK
  <2>5. ASSUME DestroyDevice
        PROVE  OneLockTimer'
    BY <2>5 DEF DestroyDevice, OneLockTimer
  <2>6. CASE Destroy \/ DestroyScheduled
    BY <2>2, <2>5, <2>6 DEF Destroy, DestroyScheduled
  <2>7. ASSUME NEW c \in Clients, NEW late \in BOOLEAN,
               RegisterClient(c, late) \/ CloseClient(c) \/ DeregisterClient(c)
        PROVE  OneLockTimer'
    BY <2>2, <2>5, <2>7 DEF RegisterClient, AddClient, CloseClient, LeaveDevice,
                            DeregisterClient, RemoveFromDevice
  <2>8. ASSUME NEW ok \in BOOLEAN, OutTransferComplete(ok) \/ InTransferComplete(ok)
        PROVE  OneLockTimer'
    BY <2>2, <2>8 DEF OutTransferComplete, InTransferComplete, deviceVars
  <2>9. CASE ReadOneReply \/ ShiftAndWrite \/ UNCHANGED vars
    BY <2>2, <2>9 DEF ReadOneReply, ShiftAndWrite, vars, deviceVars
  <2> QED
    BY <2>3, <2>4, <2>6, <2>7, <2>8, <2>9 DEF Next
<1> QED
  BY <1>1, <1>2, TypeCorrect, PTL DEF Spec
-----------------------------------------------------------------------------
(***************************************************************************)
(* The pump.  Each of its callbacks schedules exactly one other, so at most*)
(* one is outstanding; while one is, the frame it is about stays at the    *)
(* head of txqueue, and the queue holds the last frames accepted in order. *)
(***************************************************************************)
OneCallback ==
    /\ reads \in {0, 1} /\ shifts \in {0, 1}
    /\ outTransferPending => ~inTransferPending /\ reads = 0 /\ shifts = 0
    /\ inTransferPending => reads = 0 /\ shifts = 0
    /\ reads = 1 => shifts = 0

Awaiting == outTransferPending \/ inTransferPending \/ reads = 1

QueueInOrder ==
    /\ Len(txqueue) <= accepted
    /\ \A i \in 1..Len(txqueue) : txqueue[i] = (accepted - Len(txqueue)) + i

HeadIsOutstanding ==
    /\ txqueue = <<>> => written = accepted /\ answered = accepted
    /\ txqueue # <<>> => written = txqueue[1]
    /\ Awaiting => answered + 1 = written
    /\ shifts = 1 => answered = written

PumpInv ==
    /\ OneCallback
    /\ NeverThrows
    /\ Awaiting \/ shifts = 1 => txqueue # <<>>
    /\ PumpNeverStalls
    /\ QueueInOrder
    /\ ~dead => HeadIsOutstanding

(***************************************************************************)
(* Steps that leave the transfers and the queue alone keep the pump going. *)
(***************************************************************************)
LEMMA PumpUntouched ==
    ASSUME PumpInv, UNCHANGED <<txqueue, transferVars, historyVars>>, dead => dead'
    PROVE  PumpInv'
<1> USE DEF transferVars, historyVars
<1>1. OneCallback' /\ NeverThrows' /\ QueueInOrder'
  BY DEF PumpInv, OneCallback, NeverThrows, QueueInOrder
<1>2. (Awaiting \/ shifts = 1 => txqueue # <<>>)'
  BY DEF PumpInv, Awaiting
<1>3. PumpNeverStalls'
  BY DEF PumpInv, PumpNeverStalls
<1>4. ~dead' => HeadIsOutstanding'
  BY DEF PumpInv, HeadIsOutstanding, Awaiting
<1> QED
  BY <1>1, <1>2, <1>3, <1>4 DEF PumpInv

(***************************************************************************)
(* Appending the newest frame keeps the order.                             *)
(***************************************************************************)
LEMMA AppendInOrder ==
    ASSUME TypeOK, QueueInOrder,
           accepted' = accepted + 1, txqueue' = Append(txqueue, accepted + 1)
    PROVE  /\ QueueInOrder'
           /\ txqueue' # <<>>
           /\ txqueue # <<>> => txqueue'[1] = txqueue[1]
           /\ txqueue = <<>> => txqueue'[1] = accepted'
<1>1. Len(txqueue) \in Nat /\ accepted \in Nat
  BY DEF TypeOK
<1>2. /\ Len(txqueue') = Len(txqueue) + 1
      /\ \A i \in 1..Len(txqueue) : txqueue'[i] = txqueue[i]
      /\ txqueue'[Len(txqueue) + 1] = accepted + 1
  BY DEF TypeOK
<1>3. \A i \in 1..Len(txqueue') : txqueue'[i] = (accepted' - Len(txqueue')) + i
  BY <1>1, <1>2 DEF QueueInOrder
<1>4. txqueue' # <<>>
  BY <1>1, <1>2
<1>5. txqueue # <<>> => Len(txqueue) >= 1
  BY DEF TypeOK
<1> QED
  BY <1>1, <1>2, <1>3, <1>4, <1>5 DEF QueueInOrder

(***************************************************************************)
(* Dropping the oldest frame keeps the order, and the next has its number. *)
(***************************************************************************)
LEMMA TailInOrder ==
    ASSUME TypeOK, QueueInOrder, txqueue # <<>>,
           accepted' = accepted, txqueue' = Tail(txqueue)
    PROVE  /\ QueueInOrder'
           /\ txqueue' = <<>> => txqueue[1] = accepted
           /\ txqueue' # <<>> => txqueue'[1] = txqueue[1] + 1
<1>1. Len(txqueue) \in Nat \ {0} /\ accepted \in Nat
  BY DEF TypeOK
<1>2. /\ Len(txqueue') = Len(txqueue) - 1
      /\ \A i \in 1..Len(txqueue') : txqueue'[i] = txqueue[i + 1]
  BY DEF TypeOK
<1>3. \A i \in 1..Len(txqueue') : txqueue'[i] = (accepted' - Len(txqueue')) + i
  BY <1>1, <1>2 DEF QueueInOrder
<1>4. txqueue[1] = (accepted - Len(txqueue)) + 1
  BY <1>1 DEF QueueInOrder
<1>5. txqueue' \in Seq(1..MaxCommands)
  BY DEF TypeOK
<1>6. txqueue' = <<>> => Len(txqueue) = 1
  BY <1>1, <1>2
<1>7. txqueue' # <<>> => Len(txqueue') >= 1
  BY <1>5
<1> QED
  BY <1>1, <1>2, <1>3, <1>4, <1>6, <1>7 DEF QueueInOrder

(***************************************************************************)
(* PumpInv is preserved by every step.                                     *)
(***************************************************************************)
LEMMA PumpStep ==
    ASSUME TypeOK, TypeOK', PumpInv, [Next]_vars
    PROVE  PumpInv'
<1> USE DEF transferVars, historyVars
<1>1. ASSUME NEW c \in Clients, NEW cmd \in Commands, QueueCommand(c, cmd)
      PROVE  PumpInv'
  <2>1. CASE RefuseCommand(c, cmd)
    BY <2>1, PumpUntouched DEF RefuseCommand
  <2>2. CASE AcceptCommand(c, cmd)
    <3>1. /\ QueueInOrder'
          /\ txqueue' # <<>>
          /\ txqueue # <<>> => txqueue'[1] = txqueue[1]
          /\ txqueue = <<>> => txqueue'[1] = accepted'
      BY <2>2, AppendInOrder DEF AcceptCommand, PumpInv
    <3>2. /\ ~dead /\ ~dead'
          /\ UNCHANGED <<inTransferPending, reads, shifts, doomed, answered>>
          /\ accepted' = accepted + 1
      BY <1>1, <2>2 DEF QueueCommand, AcceptCommand
    <3>3. CASE txqueue # <<>>
      <4>1. UNCHANGED <<outTransferPending, written, threw>>
        BY <2>2, <3>3 DEF AcceptCommand
      <4>2. OneCallback' /\ NeverThrows' /\ PumpNeverStalls'
        BY <3>2, <3>3, <4>1 DEF PumpInv, OneCallback, NeverThrows, PumpNeverStalls
      <4>3. HeadIsOutstanding'
        BY <3>1, <3>2, <3>3, <4>1 DEF PumpInv, HeadIsOutstanding, Awaiting
      <4> QED
        BY <3>1, <4>2, <4>3 DEF PumpInv
    <3>4. CASE txqueue = <<>>
      <4>1. ~outTransferPending /\ ~inTransferPending /\ reads = 0 /\ shifts = 0
        BY <3>4 DEF PumpInv, Awaiting, OneCallback
      <4>2. WriteOneRequest(txqueue')
        BY <2>2, <3>4 DEF AcceptCommand
      <4>3. outTransferPending' /\ written' = Head(txqueue') /\ UNCHANGED threw
        BY <3>1, <3>2, <4>1, <4>2 DEF WriteOneRequest
      <4>4. OneCallback' /\ NeverThrows' /\ PumpNeverStalls'
        BY <3>2, <4>1, <4>3 DEF PumpInv, OneCallback, NeverThrows, PumpNeverStalls
      <4>5. HeadIsOutstanding'
        <5>1. written' = txqueue'[1]
          BY <3>1, <4>3 DEF TypeOK
        <5>2. answered' + 1 = written'
          BY <3>1, <3>2, <3>4, <5>1 DEF PumpInv, HeadIsOutstanding
        <5> QED
          BY <3>1, <3>2, <4>1, <5>1, <5>2 DEF HeadIsOutstanding
      <4> QED
        BY <3>1, <4>4, <4>5 DEF PumpInv
    <3> QED
      BY <3>3, <3>4
  <2> QED
    BY <1>1, <2>1, <2>2 DEF QueueCommand
<1>2. ASSUME NEW c \in Clients, NEW late \in BOOLEAN,
             RegisterClient(c, late) \/ CloseClient(c) \/ DeregisterClient(c)
      PROVE  PumpInv'
  BY <1>2, PumpUntouched DEF RegisterClient, AddClient, CloseClient, LeaveDevice,
                             DeregisterClient, RemoveFromDevice, DestroyDevice
<1>3. CASE Destroy \/ LockExpires \/ UNCHANGED vars
  BY <1>3, PumpUntouched DEF Destroy, DestroyDevice, LockExpires, ExpireLock, vars, deviceVars
<1>4. ASSUME NEW ok \in BOOLEAN, OutTransferComplete(ok)
      PROVE  PumpInv'
  <2>1. /\ outTransferPending /\ ~outTransferPending'
        /\ UNCHANGED <<dead, txqueue, inTransferPending, shifts, threw,
                       accepted, written, answered>>
    BY <1>4 DEF OutTransferComplete, deviceVars
  <2>2. txqueue # <<>> /\ ~inTransferPending /\ reads = 0 /\ shifts = 0
    BY <2>1 DEF PumpInv, OneCallback, Awaiting
  <2>3. reads' \in {0, 1} /\ (~dead => reads' = 1 \/ doomed')
    <3>1. CASE ~dead /\ ok
      BY <1>4, <2>2, <3>1 DEF OutTransferComplete
    <3>2. CASE ~dead /\ ~ok
      BY <1>4, <2>2, <3>2 DEF OutTransferComplete
    <3>3. CASE dead
      BY <1>4, <2>2, <3>3 DEF OutTransferComplete
    <3> QED
      BY <3>1, <3>2, <3>3
  <2>4. OneCallback' /\ NeverThrows' /\ PumpNeverStalls' /\ QueueInOrder'
    BY <2>1, <2>2, <2>3
       DEF PumpInv, OneCallback, NeverThrows, PumpNeverStalls, QueueInOrder
  <2>5. ~dead' => HeadIsOutstanding'
    BY <2>1, <2>2 DEF PumpInv, HeadIsOutstanding, Awaiting
  <2> QED
    BY <2>1, <2>2, <2>4, <2>5 DEF PumpInv
<1>5. ASSUME NEW ok \in BOOLEAN, InTransferComplete(ok)
      PROVE  PumpInv'
  <2>1. /\ inTransferPending /\ ~inTransferPending'
        /\ UNCHANGED <<dead, txqueue, outTransferPending, reads, threw, accepted, written>>
    BY <1>5 DEF InTransferComplete
  <2>2. txqueue # <<>> /\ ~outTransferPending /\ reads = 0 /\ shifts = 0
    BY <2>1 DEF PumpInv, OneCallback, Awaiting
  <2>3. /\ shifts' \in {0, 1}
        /\ ~dead => shifts' = 1 \/ doomed'
        /\ ~dead /\ shifts' = 1 => answered' = written
    <3>1. CASE ~dead /\ ok
      BY <1>5, <2>2, <3>1 DEF InTransferComplete
    <3>2. CASE ~dead /\ ~ok
      <4>1. shifts' = 0
        BY <1>5, <2>2, <3>2 DEF InTransferComplete
      <4>2. doomed'
        BY <1>5, <3>2, Zenon DEF InTransferComplete
      <4> QED
        BY <4>1, <4>2
    <3>3. CASE dead
      BY <1>5, <2>2, <3>3 DEF InTransferComplete
    <3> QED
      BY <3>1, <3>2, <3>3
  <2>4. OneCallback' /\ NeverThrows' /\ PumpNeverStalls' /\ QueueInOrder'
    BY <2>1, <2>2, <2>3
       DEF PumpInv, OneCallback, NeverThrows, PumpNeverStalls, QueueInOrder
  <2>5. ~dead' => HeadIsOutstanding'
    BY <2>1, <2>2, <2>3 DEF PumpInv, HeadIsOutstanding, Awaiting
  <2> QED
    BY <2>1, <2>2, <2>4, <2>5 DEF PumpInv
<1>6. CASE ReadOneReply
  <2>1. /\ reads = 1 /\ reads' = 0
        /\ UNCHANGED <<dead, txqueue, outTransferPending, shifts, doomed,
                       accepted, written, answered>>
    BY <1>6 DEF ReadOneReply, PumpInv, OneCallback, deviceVars
  <2>2. txqueue # <<>> /\ ~outTransferPending /\ ~inTransferPending /\ shifts = 0
    BY <2>1 DEF PumpInv, OneCallback, Awaiting
  <2>3. threw' = threw /\ inTransferPending' = ~dead
    BY <1>6, <2>2 DEF ReadOneReply, TypeOK, DeviceTypeOK
  <2>4. OneCallback' /\ NeverThrows' /\ PumpNeverStalls' /\ QueueInOrder'
    BY <2>1, <2>2, <2>3
       DEF PumpInv, OneCallback, NeverThrows, PumpNeverStalls, QueueInOrder
  <2>5. ~dead' => HeadIsOutstanding'
    BY <2>1, <2>2, <2>3 DEF PumpInv, HeadIsOutstanding, Awaiting
  <2> QED
    BY <2>1, <2>2, <2>4, <2>5 DEF PumpInv
<1>7. CASE ShiftAndWrite
  <2>1. /\ shifts = 1 /\ shifts' = 0
        /\ UNCHANGED <<dead, inTransferPending, reads, doomed, accepted, answered>>
    BY <1>7 DEF ShiftAndWrite, PumpInv, OneCallback, deviceVars
  <2>2. txqueue # <<>> /\ ~outTransferPending /\ ~inTransferPending /\ reads = 0
    BY <2>1 DEF PumpInv, OneCallback
  <2>3. txqueue' = Tail(txqueue) /\ WriteOneRequest(txqueue')
    BY <1>7, <2>2 DEF ShiftAndWrite
  <2>4. /\ QueueInOrder'
        /\ txqueue' = <<>> => txqueue[1] = accepted
        /\ txqueue' # <<>> => txqueue'[1] = txqueue[1] + 1
    BY <2>1, <2>2, <2>3, TailInOrder DEF PumpInv
  <2>5. CASE dead \/ txqueue' = <<>>
    <3>1. UNCHANGED <<outTransferPending, written, threw>>
      BY <2>2, <2>3, <2>5 DEF WriteOneRequest
    <3>2. OneCallback' /\ NeverThrows' /\ PumpNeverStalls'
      BY <2>1, <2>2, <2>5, <3>1 DEF PumpInv, OneCallback, NeverThrows, PumpNeverStalls
    <3>3. ~dead' => HeadIsOutstanding'
      BY <2>1, <2>2, <2>4, <2>5, <3>1 DEF PumpInv, HeadIsOutstanding, Awaiting
    <3> QED
      BY <2>1, <2>2, <2>4, <3>1, <3>2, <3>3 DEF PumpInv, Awaiting
  <2>6. CASE ~dead /\ txqueue' # <<>>
    <3>1. outTransferPending' /\ written' = Head(txqueue') /\ UNCHANGED threw
      BY <2>2, <2>3, <2>6 DEF WriteOneRequest
    <3>2. OneCallback' /\ NeverThrows' /\ PumpNeverStalls'
      BY <2>1, <2>2, <3>1 DEF PumpInv, OneCallback, NeverThrows, PumpNeverStalls
    <3>3. HeadIsOutstanding'
      <4>1. written' = txqueue'[1]
        BY <2>6, <3>1 DEF TypeOK
      <4>2. answered' + 1 = written'
        BY <2>1, <2>2, <2>4, <2>6, <4>1 DEF PumpInv, HeadIsOutstanding
      <4> QED
        BY <2>1, <2>6, <4>1, <4>2 DEF HeadIsOutstanding
    <3> QED
      BY <2>4, <2>6, <3>2, <3>3 DEF PumpInv
  <2> QED
    BY <2>5, <2>6
<1>8. CASE DestroyScheduled
  <2>1. /\ dead'
        /\ UNCHANGED <<txqueue, outTransferPending, inTransferPending, reads, shifts,
                       threw, accepted>>
    BY <1>8 DEF DestroyScheduled, DestroyDevice
  <2>2. OneCallback' /\ NeverThrows' /\ PumpNeverStalls' /\ QueueInOrder'
    BY <2>1 DEF PumpInv, OneCallback, NeverThrows, PumpNeverStalls, QueueInOrder
  <2> QED
    BY <2>1, <2>2 DEF PumpInv, Awaiting
<1> QED
  BY <1>1, <1>2, <1>3, <1>4, <1>5, <1>6, <1>7, <1>8 DEF Next

(***************************************************************************)
(* The pump's invariant holds of every run.                                *)
(***************************************************************************)
THEOREM PumpInvariant == Spec => []PumpInv
<1>1. Init => PumpInv
  BY DEF Init, InitDevice, PumpInv, OneCallback, NeverThrows, Awaiting, PumpNeverStalls,
         QueueInOrder, HeadIsOutstanding
<1>2. TypeOK /\ TypeOK' /\ PumpInv /\ [Next]_vars => PumpInv'
  BY PumpStep
<1> QED
  BY <1>1, <1>2, TypeCorrect, PTL DEF Spec

(***************************************************************************)
(* No two transfers in one direction overlap: neither throw is reached.    *)
(***************************************************************************)
THEOREM TransfersNeverOverlap == Spec => []NeverThrows
<1>1. PumpInv => NeverThrows
  BY DEF PumpInv
<1> QED
  BY <1>1, PumpInvariant, PTL

(***************************************************************************)
(* As long as a frame is queued, something will carry the queue on.        *)
(***************************************************************************)
THEOREM PumpIsNeverStalled == Spec => []PumpNeverStalls
<1>1. PumpInv => PumpNeverStalls
  BY DEF PumpInv
<1> QED
  BY <1>1, PumpInvariant, PTL
-----------------------------------------------------------------------------
(***************************************************************************)
(* The driver implements CommandChannel: every step is one of the channel's*)
(* or leaves what the channel speaks of unchanged.                         *)
(***************************************************************************)
THEOREM ImplementsCommandChannel == Spec => ImplementsChannelSafely
<1> USE DEF Channel!vars, transferVars, historyVars
<1>1. Init => Channel!Init
  BY DEF Init, InitDevice, Channel!Init
<1>2. TypeOK /\ PumpInv /\ [Next]_vars => [Channel!Next]_Channel!vars
  <2> SUFFICES ASSUME TypeOK, PumpInv, [Next]_vars
               PROVE  [Channel!Next]_Channel!vars
    OBVIOUS
  <2> USE DEF Channel!Next
  <2>1. ASSUME UNCHANGED <<accepted, written, answered>>, dead => dead'
        PROVE  [Channel!Next]_Channel!vars
    BY <2>1 DEF Channel!Close, TypeOK, DeviceTypeOK
  <2>2. ASSUME NEW c \in Clients, NEW cmd \in Commands, QueueCommand(c, cmd)
        PROVE  [Channel!Next]_Channel!vars
    <3>1. CASE RefuseCommand(c, cmd)
      BY <2>1, <3>1 DEF RefuseCommand
    <3>2. CASE AcceptCommand(c, cmd)
      <4>1. /\ ~dead /\ ~dead' /\ accepted < MaxCommands
            /\ accepted' = accepted + 1 /\ answered' = answered
        BY <2>2, <3>2 DEF QueueCommand, AcceptCommand
      <4>2. CASE txqueue # <<>>
        BY <3>2, <4>1, <4>2 DEF AcceptCommand, Channel!Accept
      <4>3. CASE txqueue = <<>>
        <5>1. ~outTransferPending /\ written = accepted /\ answered = accepted
          BY <4>1, <4>3 DEF PumpInv, Awaiting, HeadIsOutstanding
        <5>2. txqueue' = <<accepted + 1>>
          BY <3>2, <4>3 DEF AcceptCommand
        <5>3. written' = accepted + 1
          BY <3>2, <4>1, <4>3, <5>1, <5>2 DEF AcceptCommand, WriteOneRequest
        <5> QED
          BY <4>1, <5>1, <5>3 DEF Channel!AcceptAndSend
      <4> QED
        BY <4>2, <4>3
    <3> QED
      BY <2>2, <3>1, <3>2 DEF QueueCommand
  <2>3. ASSUME NEW c \in Clients, NEW late \in BOOLEAN,
               RegisterClient(c, late) \/ CloseClient(c) \/ DeregisterClient(c)
        PROVE  [Channel!Next]_Channel!vars
    BY <2>1, <2>3 DEF RegisterClient, AddClient, CloseClient, LeaveDevice,
                      DeregisterClient, RemoveFromDevice, DestroyDevice
  <2>4. CASE Destroy \/ LockExpires \/ DestroyScheduled \/ ReadOneReply \/ UNCHANGED vars
    BY <2>1, <2>4 DEF Destroy, DestroyDevice, LockExpires, ExpireLock, DestroyScheduled,
                      ReadOneReply, vars, deviceVars
  <2>5. ASSUME NEW ok \in BOOLEAN, OutTransferComplete(ok)
        PROVE  [Channel!Next]_Channel!vars
    BY <2>1, <2>5 DEF OutTransferComplete, deviceVars
  <2>6. ASSUME NEW ok \in BOOLEAN, InTransferComplete(ok)
        PROVE  [Channel!Next]_Channel!vars
    <3>1. UNCHANGED <<dead, accepted, written>>
      BY <2>6 DEF InTransferComplete
    <3>2. CASE dead \/ ~ok
      BY <2>1, <2>6, <3>1, <3>2 DEF InTransferComplete
    <3>3. CASE ~dead /\ ok
      <4>1. answered' = written
        BY <2>6, <3>3 DEF InTransferComplete
      <4>2. answered + 1 = written
        BY <2>6, <3>3 DEF InTransferComplete, PumpInv, HeadIsOutstanding, Awaiting
      <4>3. answered < written
        BY <4>2 DEF TypeOK
      <4> QED
        BY <3>1, <3>3, <4>1, <4>2, <4>3 DEF Channel!Answer
    <3> QED
      BY <3>2, <3>3
  <2>7. CASE ShiftAndWrite
    <3>1. UNCHANGED <<dead, accepted, answered>>
      BY <2>7 DEF ShiftAndWrite, deviceVars
    <3>2. shifts = 1 /\ txqueue # <<>> /\ ~outTransferPending
      BY <2>7 DEF ShiftAndWrite, PumpInv, OneCallback
    <3>3. txqueue' = Tail(txqueue) /\ WriteOneRequest(txqueue')
      BY <2>7, <3>2 DEF ShiftAndWrite
    <3>4. CASE dead \/ txqueue' = <<>>
      BY <2>1, <3>1, <3>2, <3>3, <3>4 DEF WriteOneRequest
    <3>5. CASE ~dead /\ txqueue' # <<>>
      <4>1. /\ QueueInOrder'
            /\ txqueue'[1] = txqueue[1] + 1
        BY <3>1, <3>2, <3>3, <3>5, TailInOrder DEF PumpInv
      <4>2. written = txqueue[1] /\ answered = written
        BY <3>2, <3>5 DEF PumpInv, HeadIsOutstanding
      <4>3. txqueue' \in Seq(1..MaxCommands)
        BY <3>2, <3>3 DEF TypeOK
      <4>4. written' = txqueue'[1]
        BY <3>2, <3>3, <3>5, <4>3 DEF WriteOneRequest
      <4>5. txqueue'[1] = (accepted - Len(txqueue')) + 1 /\ Len(txqueue') >= 1
        BY <3>1, <3>5, <4>1, <4>3 DEF QueueInOrder
      <4>6. written < accepted
        BY <4>1, <4>2, <4>3, <4>5 DEF TypeOK
      <4> QED
        BY <3>1, <3>5, <4>1, <4>2, <4>4, <4>6 DEF Channel!Send
    <3> QED
      BY <3>4, <3>5
  <2> QED
    BY <2>2, <2>3, <2>4, <2>5, <2>6, <2>7 DEF Next
<1> QED
  BY <1>1, <1>2, TypeCorrect, PumpInvariant, PTL
     DEF Spec, ImplementsChannelSafely, Channel!Spec
=============================================================================

---------------------------- MODULE GnubbyClient ----------------------------
(***************************************************************************)
(* gnubby.js: the clients of one open device.  A client first syncs with   *)
(* the key (usbgnubbyfactory.js), then exchanges commands with it, one at a*)
(* time.  Every frame the device publishes goes to all its clients, who    *)
(* keep the ones for their channel in rxframes and read them in callbacks  *)
(* of their own, so that a frame, a timeout and a close can meet in any    *)
(* order.  A client that gives up on a reply destroys the device for all.  *)
(*                                                                         *)
(* A client is a record, and the functions of gnubby.js are operators on   *)
(* it.  tasks are the setTimeout(0)s a client has outstanding, which run in*)
(* order.  Timers have no clock: one that runs may fire at any time.       *)
(* Frame callbacks of a read that ended do nothing, so they are dropped    *)
(* when it ends.  The key answers the commands it was sent in order, or    *)
(* not at all; a reply takes one frame or two.                             *)
(***************************************************************************)
EXTENDS Naturals, Sequences

CONSTANTS
    OwnClients,
    Others,         \* clients of other programs on the same key
    MaxExchanges,   \* bound on the commands a client exchanges
    Tries,          \* trycount of sync: 6 in the source
    MaxBusy         \* bound on the times the key answers BUSY

ASSUME TriesAssumption == Tries \in Nat \ {0, 1}
ASSUME OthersAssumption == OwnClients \cap Others = {}
ASSUME MaxExchangesAssumption == MaxExchanges \in Nat
ASSUME MaxBusyAssumption == MaxBusy \in Nat

VARIABLES
    shared,     \* isSharedAccess: the key allots channels, with INIT
    gnubby,     \* the state of each client
    members,    \* the clients of the device
    dead,       \* the device was destroyed
    wire,       \* the commands sent to the key, not yet answered
    asked,      \* the clients of other programs that asked for a channel
    busy,       \* the number of times it answered BUSY
    results,    \* what each exchange of a client reported, in order
    synced      \* what the sync of each client reported, in order

deviceVars == <<members, dead, wire, asked, busy>>
clientVars == <<shared, gnubby, deviceVars, results, synced>>

None == "none"
ReadTasks == {"init_frame", "cont_frame"}
NOTIFICATION_CID == <<"notification", 0>>
BROADCAST_CID == <<"broadcast", 0>>

NoData == <<>>

Task(fn) == [fn |-> fn, rc |-> "OK", data |-> NoData]
Frame(to, kind, data, more) ==
    [cid |-> to, kind |-> kind, data |-> data, code |-> "OK", more |-> more]
ErrorFrame(to, code) ==
    [cid |-> to, kind |-> "error", data |-> NoData, code |-> code, more |-> FALSE]
GoneFrame == ErrorFrame(NOTIFICATION_CID, "GONE")

(***************************************************************************)
(* defaultChannelId_, and the same with two random bytes mixed in; the     *)
(* random channels of two clients are taken to differ.                     *)
(***************************************************************************)
DefaultChannelId(c) == <<"default", c>>
RandomChannelId(c) == <<"random", c>>

ClientInit ==
    /\ shared \in BOOLEAN
    /\ gnubby = [c \in OwnClients |->
        [cid |-> DefaultChannelId(c), closed |-> FALSE, dev |-> TRUE,
         rxframes |-> <<>>, rxcb |-> None, tasks |-> <<>>,
         op |-> 0, reading |-> FALSE, msg |-> NoData, busyWait |-> FALSE,
         commandPending |-> FALSE, closingWhenIdle |-> FALSE,
         notifyOnClose |-> 0, notified |-> 0,
         mode |-> None, trycount |-> Tries, tid |-> FALSE, done |-> FALSE,
         synccnt |-> 0, leftover |-> FALSE]]
    /\ members = OwnClients /\ dead = FALSE /\ wire = <<>> /\ asked = {} /\ busy = 0
    /\ results = [c \in OwnClients |-> <<>>]
    /\ synced = [c \in OwnClients |-> <<>>]
-----------------------------------------------------------------------------
(***************************************************************************)
(* Frames: notifyFrame_ and receivedFrame.                                 *)
(***************************************************************************)
NotifyFrame(s, fn) ==
    IF s.rxframes # <<>> THEN [s EXCEPT !.tasks = Append(@, Task(fn))]
                         ELSE [s EXCEPT !.rxcb = fn]

Hears(s, f) == ~s.closed /\ f.cid \in {s.cid, NOTIFICATION_CID}

ReceivedFrame(s, f) ==
    IF ~Hears(s, f) THEN s
    ELSE [s EXCEPT !.rxframes = Append(@, f),
                   !.tasks = IF s.rxcb = None THEN @ ELSE Append(@, Task(s.rxcb)),
                   !.rxcb = None]

(***************************************************************************)
(* close, idleClose_ and closeWhenIdle.                                    *)
(***************************************************************************)
Close(s) ==
    [s EXCEPT !.closed = TRUE, !.dev = FALSE,
              !.rxframes = IF s.dev THEN <<>> ELSE @,
              !.rxcb = IF s.dev THEN None ELSE @]

IdleClose(s) ==
    [Close(s) EXCEPT !.notified = @ + s.notifyOnClose, !.notifyOnClose = 0]

IfClosingWhenIdle(s) == IF s.closingWhenIdle THEN IdleClose(s) ELSE s

CloseWhenIdle(s) ==
    IF s.commandPending THEN [s EXCEPT !.closingWhenIdle = TRUE, !.notifyOnClose = @ + 1]
                        ELSE [Close(s) EXCEPT !.notified = @ + 1]

(***************************************************************************)
(* read_ of an exchange: its start, init_frame, cont_frame and the end.    *)
(***************************************************************************)
StartRead(s) == NotifyFrame([s EXCEPT !.reading = TRUE], "init_frame")

\* A read waits for one frame at a time, so it has at most one task.
DropRead(tasks) ==
    LET reads == {i \in DOMAIN tasks : tasks[i].fn \in ReadTasks}
        i == CHOOSE j \in reads : TRUE IN
    IF reads = {} THEN tasks
                  ELSE SubSeq(tasks, 1, i - 1) \o SubSeq(tasks, i + 1, Len(tasks))

ScheduleCb(s, rc, data) ==
    IfClosingWhenIdle(
        [s EXCEPT !.commandPending = FALSE, !.reading = FALSE, !.msg = NoData,
                  !.rxcb = IF @ \in ReadTasks THEN None ELSE @,
                  !.tasks = Append(DropRead(@),
                                   [fn |-> "retryBusy", rc |-> rc, data |-> data])])

ReadError(s, f) ==
    ScheduleCb([s EXCEPT !.closed = @ \/ f.code = "GONE"], f.code, NoData)

InitFrame(s) ==
    LET f == Head(s.rxframes)
        t == [s EXCEPT !.rxframes = Tail(@)] IN
    CASE s.rxframes = <<>> -> s     \* throws 'rxframes empty!'
      [] s.rxframes # <<>> /\ f.kind = "error" -> ReadError(t, f)
      [] s.rxframes # <<>> /\ f.kind \notin {"error", "apdu"} -> NotifyFrame(t, "init_frame")
      [] s.rxframes # <<>> /\ f.kind = "apdu" /\ ~f.more -> ScheduleCb(t, "OK", f.data)
      [] s.rxframes # <<>> /\ f.kind = "apdu" /\ f.more ->
            NotifyFrame([t EXCEPT !.msg = f.data], "cont_frame")

ContFrame(s) ==
    LET f == Head(s.rxframes)
        t == [s EXCEPT !.rxframes = Tail(@)] IN
    CASE s.rxframes = <<>> -> s
      [] s.rxframes # <<>> /\ f.kind = "error" -> ReadError(t, f)
      [] s.rxframes # <<>> /\ f.kind \in {"apdu", "sync", "init"} -> NotifyFrame(t, "cont_frame")
      [] s.rxframes # <<>> /\ f.kind = "badcont" -> ScheduleCb(t, "INVALID_SEQ", NoData)
      [] s.rxframes # <<>> /\ f.kind = "cont" ->
            ScheduleCb(t, "OK", IF f.data = s.msg THEN f.data ELSE s.msg \o f.data)

(***************************************************************************)
(* sync.  The sentinel is a counter, or the nonce of an INIT: one per sync.*)
(***************************************************************************)
Sending(s) == [s EXCEPT !.synccnt = IF s.mode = "sync" THEN @ + 1 ELSE @,
                        !.cid = IF s.mode = "init" /\ @[1] = "default" THEN BROADCAST_CID ELSE @]

Sentinel(c, s) == [cid |-> Sending(s).cid, kind |-> s.mode,
                   data |-> <<c, IF s.mode = "sync" THEN s.synccnt + 1 ELSE 0>>]

SentinelEquals(c, s, f) ==
    /\ f.kind = s.mode
    /\ f.data = <<c, IF s.mode = "sync" THEN s.synccnt ELSE 0>>

ReturnValue(s, rc, unanswered) ==
    IfClosingWhenIdle(
        [s EXCEPT !.done = TRUE, !.leftover = @ \/ unanswered,
                  !.tasks = Append(@, [fn |-> "synced", rc |-> rc, data |-> NoData])])

(***************************************************************************)
(* callback and the completion actions.  A failed INIT reports and then    *)
(* goes on, as there is no return: it takes a random channel and would sync*)
(* on it, had it not reported; an unsupported INIT does so without a report*)
(* (Unsupported, to be followed by TimeoutLoop).                           *)
(***************************************************************************)
Stopped(s) == [s EXCEPT !.commandPending = FALSE, !.tid = FALSE]

Unsupported(c, s) == [Stopped(s) EXCEPT !.cid = RandomChannelId(c), !.mode = "sync"]

SyncFailed(c, s, rc, unanswered) ==
    LET t == ReturnValue(Stopped(s), rc, unanswered) IN
    IF s.mode = "init" THEN [t EXCEPT !.cid = RandomChannelId(c), !.mode = "sync"] ELSE t

\* Seeded fault: checkSentinel goes on listening.
SyncSucceededListens(s, f, unanswered) ==
    LET t == [Stopped(s) EXCEPT !.cid = IF s.mode = "init" THEN <<"allotted", f.data[1]>> ELSE @] IN
    NotifyFrame(ReturnValue(t, "OK", unanswered), "checkSentinel")

SyncSucceeded(s, f, unanswered) ==
    ReturnValue([Stopped(s) EXCEPT !.cid = IF s.mode = "init" THEN <<"allotted", f.data[1]>> ELSE @],
                "OK", unanswered)

\* Seeded fault: the next sentinel is not scheduled.
TryOnce(s) == NotifyFrame(Sending([s EXCEPT !.trycount = @ - 1]), "checkSentinel")

\* timeoutLoop, when it sends: not done, and tries are left.
Try(s) ==
    [NotifyFrame(Sending([s EXCEPT !.trycount = @ - 1]), "checkSentinel") EXCEPT !.tid = TRUE]
-----------------------------------------------------------------------------
(***************************************************************************)
(* A step of client c that leaves it as s, having sent cmds.               *)
(***************************************************************************)
Sends(cmds) == wire' = IF dead THEN wire ELSE wire \o cmds
Becomes(c, s) == gnubby' = [gnubby EXCEPT ![c] = s]

OnWire(c) == \E i \in DOMAIN wire : wire[i].from = c
Outstanding(c, s) == s.rxframes # <<>> \/ OnWire(c)
By(c, cmd) == <<[from |-> c, cid |-> cmd.cid, kind |-> cmd.kind, data |-> cmd.data]>>

(***************************************************************************)
(* timeoutLoop, called by sync and by its timer, or after an INIT that is  *)
(* not supported.  After close there is no device to send to: it throws.   *)
(***************************************************************************)
TimeoutLoop(c, s) ==
    \/ /\ s.done \/ (s.trycount > 0 /\ ~s.dev)
       /\ Becomes(c, s)
       /\ Sends(<<>>)
    \/ /\ ~s.done /\ s.trycount = 0
       /\ Becomes(c, SyncFailed(c, s, "TIMEOUT", Outstanding(c, s)))
       /\ Sends(<<>>)
    \/ /\ ~s.done /\ s.trycount > 0 /\ s.dev
       /\ Becomes(c, Try(s))
       /\ Sends(By(c, Sentinel(c, s)))

Sync(c) ==
    /\ gnubby[c].mode = None
    /\ \/ /\ gnubby[c].closed
          /\ Becomes(c, [gnubby[c] EXCEPT !.mode = "sync"])
          /\ synced' = [synced EXCEPT ![c] = Append(@, "GONE")]
          /\ UNCHANGED wire
       \/ /\ ~gnubby[c].closed
          /\ TimeoutLoop(c, [gnubby[c] EXCEPT !.mode = IF shared THEN "init" ELSE "sync"])
          /\ UNCHANGED synced
    /\ UNCHANGED <<shared, members, dead, asked, busy, results>>

SyncTimeout(c) ==
    /\ gnubby[c].tid
    /\ TimeoutLoop(c, [gnubby[c] EXCEPT !.tid = FALSE])
    /\ UNCHANGED <<shared, members, dead, asked, busy, results, synced>>
-----------------------------------------------------------------------------
(***************************************************************************)
(* The callbacks a client scheduled with setTimeout(0), oldest first.      *)
(***************************************************************************)
Due(c, fn) == gnubby[c].tasks # <<>> /\ Head(gnubby[c].tasks).fn = fn
Popped(c) == [gnubby[c] EXCEPT !.tasks = Tail(@)]

ReadFrame(c) ==
    /\ \/ Due(c, "init_frame") /\ Becomes(c, InitFrame(Popped(c)))
       \/ Due(c, "cont_frame") /\ Becomes(c, ContFrame(Popped(c)))
    /\ UNCHANGED <<shared, deviceVars, results, synced>>

CheckSentinel(c) ==
    LET s == Popped(c)
        f == Head(s.rxframes)
        t == [s EXCEPT !.rxframes = Tail(@)] IN
    /\ Due(c, "checkSentinel")
    /\ \/ s.rxframes = <<>> /\ Becomes(c, s) /\ Sends(<<>>)
       \/ /\ s.rxframes # <<>> /\ f.kind = "error"
          /\ \/ /\ f.code = "BUSY"
                /\ Becomes(c, NotifyFrame(Sending(t), "checkSentinel"))
                /\ Sends(By(c, Sentinel(c, t)))
             \/ /\ f.code = "INVALID_CMD" /\ s.mode = "init"
                /\ TimeoutLoop(c, Unsupported(c, t))
             \/ /\ f.code # "BUSY" /\ ~(f.code = "INVALID_CMD" /\ s.mode = "init")
                /\ Becomes(c, SyncFailed(c, [t EXCEPT !.closed = @ \/ f.code = "GONE"],
                                         f.code, Outstanding(c, t)))
                /\ Sends(<<>>)
       \/ /\ s.rxframes # <<>> /\ f.kind # "error"
          /\ IF SentinelEquals(c, s, f) THEN Becomes(c, SyncSucceeded(t, f, Outstanding(c, t)))
                                        ELSE Becomes(c, NotifyFrame(t, "checkSentinel"))
          /\ Sends(<<>>)
    /\ UNCHANGED <<shared, members, dead, asked, busy, results, synced>>

ReportSync(c) ==
    /\ Due(c, "synced")
    /\ Becomes(c, Popped(c))
    /\ synced' = [synced EXCEPT ![c] = Append(@, Head(gnubby[c].tasks).rc)]
    /\ UNCHANGED <<shared, deviceVars, results>>

(***************************************************************************)
(* exchange_, by a client that is in sync: retryBusy starts the work, and  *)
(* starts it again while the key is busy.                                  *)
(***************************************************************************)
Report(c, rc, data) ==
    results' = [results EXCEPT ![c] = Append(@, [op |-> gnubby[c].op, rc |-> rc, data |-> data])]

WriteAndRead(c, s) ==
    \/ /\ s.closed \/ ~s.dev
       /\ Becomes(c, [s EXCEPT !.busyWait = FALSE])
       /\ results' = [results EXCEPT ![c] = Append(@, [op |-> s.op, rc |-> "GONE", data |-> NoData])]
       /\ Sends(<<>>)
    \/ /\ ~s.closed /\ s.dev
       /\ Becomes(c, StartRead([s EXCEPT !.commandPending = TRUE]))
       /\ Sends(By(c, [cid |-> s.cid, kind |-> "apdu", data |-> <<c, s.op>>]))
       /\ UNCHANGED results

Exchange(c) ==
    LET s == gnubby[c] IN
    /\ synced[c] = <<"OK">>
    /\ s.op = Len(results[c]) /\ s.op < MaxExchanges
    /\ WriteAndRead(c, [s EXCEPT !.op = @ + 1, !.busyWait = TRUE])
    /\ UNCHANGED <<shared, members, dead, asked, busy, synced>>

RetryBusy(c) ==
    LET task == Head(gnubby[c].tasks)
        s == Popped(c) IN
    /\ Due(c, "retryBusy")
    /\ \/ /\ task.rc = "BUSY" /\ s.busyWait
          /\ WriteAndRead(c, s)
       \/ /\ task.rc # "BUSY" \/ ~s.busyWait
          /\ Becomes(c, [s EXCEPT !.busyWait = FALSE])
          /\ Report(c, task.rc, task.data)
          /\ Sends(<<>>)
    /\ UNCHANGED <<shared, members, dead, asked, busy, synced>>

BusyWaitExpires(c) ==
    /\ gnubby[c].busyWait
    /\ Becomes(c, [gnubby[c] EXCEPT !.busyWait = FALSE])
    /\ UNCHANGED <<shared, deviceVars, results, synced>>
-----------------------------------------------------------------------------
(***************************************************************************)
(* destroy: a GONE frame for all clients, and all clients closed.          *)
(***************************************************************************)
Gone(c) == IF c \in members THEN [ReceivedFrame(gnubby[c], GoneFrame) EXCEPT !.closed = TRUE]
                            ELSE gnubby[c]

Destroyed == dead' = TRUE /\ members' = {} /\ wire' = <<>>

\* Seeded fault: a device that does not answer is kept.
ReadTimeoutKeepsDevice(c) ==
    /\ gnubby[c].reading
    /\ Becomes(c, ScheduleCb(gnubby[c], "TIMEOUT", NoData))
    /\ UNCHANGED <<shared, deviceVars, results, synced>>

\* Seeded fault: the timeout is reported only while there is a device.
ReadTimeoutOfDevice(c) ==
    /\ gnubby[c].reading
    /\ gnubby[c].dev /\ ~dead
    /\ Destroyed
    /\ gnubby' = [d \in OwnClients |-> IF d = c THEN ScheduleCb(Gone(c), "TIMEOUT", NoData)
                                                ELSE Gone(d)]
    /\ UNCHANGED <<shared, asked, busy, results, synced>>

ReadTimeout(c) ==
    LET live == gnubby[c].dev /\ ~dead IN
    /\ gnubby[c].reading
    /\ \/ /\ live
          /\ Destroyed
          /\ gnubby' = [d \in OwnClients |-> IF d = c THEN ScheduleCb(Gone(c), "TIMEOUT", NoData)
                                                      ELSE Gone(d)]
       \/ /\ ~live
          /\ Becomes(c, ScheduleCb(gnubby[c], "TIMEOUT", NoData))
          /\ UNCHANGED <<members, dead, wire>>
    /\ UNCHANGED <<shared, asked, busy, results, synced>>

\* A transfer fails, or the key is gone.
DeviceGone ==
    /\ ~dead
    /\ Destroyed
    /\ gnubby' = [c \in OwnClients |-> Gone(c)]
    /\ UNCHANGED <<shared, asked, busy, results, synced>>

(***************************************************************************)
(* The key answers the oldest command and the driver publishes the frame.  *)
(* The first frame of a long reply leaves the second one to be sent.  A    *)
(* channel the key allots is named after the nonce it was asked with.      *)
(***************************************************************************)
Publish(f) ==
    /\ gnubby' = [c \in OwnClients |-> IF c \in members THEN ReceivedFrame(gnubby[c], f)
                                                        ELSE gnubby[c]]
    /\ members' = {c \in members : ~gnubby[c].closed}

Errors(cmd) ==
    {"OTHER"} \cup (IF busy < MaxBusy THEN {"BUSY"} ELSE {})
              \cup (IF cmd.kind = "init" THEN {"INVALID_CMD"} ELSE {})

KeyReplies ==
    LET cmd == Head(wire) IN
    /\ wire # <<>> /\ cmd.kind # "cont"
    /\ \/ Publish(Frame(cmd.cid, cmd.kind, cmd.data, FALSE)) /\ wire' = Tail(wire)
       \/ /\ cmd.kind = "apdu"
          /\ Publish(Frame(cmd.cid, "apdu", cmd.data, TRUE))
          /\ wire' = <<[cmd EXCEPT !.kind = "cont"]>> \o Tail(wire)
    /\ UNCHANGED <<shared, dead, asked, busy, results, synced>>

OthersInit(o) ==
    /\ shared /\ ~dead
    /\ o \notin asked
    /\ asked' = asked \cup {o}
    /\ Sends(By(o, [cid |-> BROADCAST_CID, kind |-> "init", data |-> <<o, 0>>]))
    /\ UNCHANGED <<shared, gnubby, members, dead, busy, results, synced>>

KeyContinues ==
    LET cmd == Head(wire) IN
    /\ wire # <<>> /\ cmd.kind = "cont"
    /\ \E kind \in {"cont", "badcont"} : Publish(Frame(cmd.cid, kind, cmd.data, FALSE))
    /\ wire' = Tail(wire)
    /\ UNCHANGED <<shared, dead, asked, busy, results, synced>>

KeyRefuses(e) ==
    /\ wire # <<>> /\ Head(wire).kind # "cont"
    /\ e \in Errors(Head(wire))
    /\ Publish(ErrorFrame(Head(wire).cid, e))
    /\ wire' = Tail(wire)
    /\ busy' = IF e = "BUSY" THEN busy + 1 ELSE busy
    /\ UNCHANGED <<shared, dead, asked, results, synced>>
-----------------------------------------------------------------------------
(***************************************************************************)
(* The owner of a client closes it, at any time, or asks once that it be   *)
(* closed when idle.                                                       *)
(***************************************************************************)
CloseNow(c) ==
    /\ ~gnubby[c].closed \/ gnubby[c].dev
    /\ Becomes(c, Close(gnubby[c]))
    /\ UNCHANGED <<shared, deviceVars, results, synced>>

AskClose(c) ==
    /\ gnubby[c].notified + gnubby[c].notifyOnClose = 0
    /\ Becomes(c, CloseWhenIdle(gnubby[c]))
    /\ UNCHANGED <<shared, deviceVars, results, synced>>

ClientStep(c) ==
    \/ ReadFrame(c) \/ CheckSentinel(c) \/ ReportSync(c) \/ RetryBusy(c)
    \/ SyncTimeout(c) \/ ReadTimeout(c) \/ BusyWaitExpires(c)

ClientNext ==
    \/ \E c \in OwnClients : ClientStep(c) \/ Sync(c) \/ Exchange(c) \/ CloseNow(c) \/ AskClose(c)
    \/ \E e \in {"BUSY", "OTHER", "INVALID_CMD"} : KeyRefuses(e)
    \/ \E o \in Others : OthersInit(o)
    \/ KeyReplies \/ KeyContinues \/ DeviceGone

ClientSpec == ClientInit /\ [][ClientNext]_clientVars

(***************************************************************************)
(* Callbacks that were scheduled run and timers that run fire.  The key may*)
(* stop answering.                                                         *)
(***************************************************************************)
FairClientSpec ==
    /\ ClientSpec
    /\ \A c \in OwnClients :
        /\ WF_clientVars(ReadFrame(c) \/ CheckSentinel(c) \/ ReportSync(c) \/ RetryBusy(c))
        /\ WF_clientVars(SyncTimeout(c))
        /\ WF_clientVars(ReadTimeout(c))
        /\ WF_clientVars(BusyWaitExpires(c))
-----------------------------------------------------------------------------
(***************************************************************************)
(* An exchange that reports OK reports the reply to its own command, whole:*)
(* no reply to an earlier exchange, nor frames of two replies.  (A sync    *)
(* that got its answer with another sentinel still outstanding may leave a *)
(* BUSY behind, which an exchange then takes for its own.)                 *)
(***************************************************************************)
OwnReply ==
    \A c \in OwnClients : \A i \in DOMAIN results[c] :
        results[c][i].rc = "OK" /\ ~gnubby[c].leftover =>
            results[c][i].data = <<c, results[c][i].op>>

(***************************************************************************)
(* A sync that sent one sentinel calls back at most once.  One that sent   *)
(* another may hear from both, also after it reported TIMEOUT.             *)
(***************************************************************************)
PromptSyncReportsOnce ==
    \A c \in OwnClients : Len(synced[c]) > 1 => gnubby[c].trycount < Tries - 1

(***************************************************************************)
(* Every exchange calls back, whatever the key, the other clients and      *)
(* close do, and everyone who asked to be told of the close is told.       *)
(***************************************************************************)
ExchangeAnswered ==
    \A c \in OwnClients :
        /\ \A n \in 1..MaxExchanges : gnubby[c].op = n ~> Len(results[c]) >= n
        /\ gnubby[c].notifyOnClose > 0 ~> gnubby[c].notifyOnClose = 0

(***************************************************************************)
(* Every sync calls back, unless its client closes: sync does not count as *)
(* a command outstanding, and closing loses it.                            *)
(***************************************************************************)
SyncAnswered ==
    \A c \in OwnClients : gnubby[c].mode # None ~> synced[c] # <<>> \/ ~gnubby[c].dev
=============================================================================

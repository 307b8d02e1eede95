---------------------------- MODULE GnubbiesProofs ----------------------------
(***************************************************************************)
(* Proofs about the two halves of a gnubby.                                *)
(*                                                                         *)
(* GnubbyClient, for any clients, tries and exchanges: an exchange reports *)
(* the reply to its own command, and a sync that needed one sentinel calls *)
(* back once.                                                              *)
(*                                                                         *)
(* Gnubbies, for any clients, keys and drivers: its types, that a key is   *)
(* never opened twice, and that a client that thinks it is open has an open*)
(* device.                                                                 *)
(***************************************************************************)
EXTENDS Gnubbies, GnubbyClient, Integers, TLAPS

(***************************************************************************)
(* The tasks of a client: which it has none of, which it has at most one   *)
(* of, and what the first sync and the exchanges that end will report.     *)
(***************************************************************************)
NoTask(tasks, fns) == \A i \in DOMAIN tasks : tasks[i].fn \notin fns
OneTask(tasks, fns) ==
    \A i, j \in DOMAIN tasks : tasks[i].fn \in fns /\ tasks[j].fn \in fns => i = j
ChecksFirst(tasks) ==
    \A i, j \in DOMAIN tasks :
        tasks[i].fn = "checkSentinel" /\ tasks[j].fn = "synced" => i < j
OKFirst(tasks) ==
    \E i \in DOMAIN tasks :
        /\ tasks[i].fn = "synced" /\ tasks[i].rc = "OK"
        /\ \A j \in 1..(i - 1) : tasks[j].fn # "synced"
Replies(tasks, data) ==
    \A i \in DOMAIN tasks :
        tasks[i].fn = "retryBusy" /\ tasks[i].rc = "OK" => tasks[i].data = data

SyncTasks == {"checkSentinel", "synced"}

(***************************************************************************)
(* The types that matter.  Sequences are of anything.                      *)
(***************************************************************************)
IsSeq(q) == \E S : q \in Seq(S)

Fields ==
    {"cid", "closed", "dev", "rxframes", "rxcb", "tasks", "op", "reading", "msg", "busyWait",
     "commandPending", "closingWhenIdle", "notifyOnClose", "notified", "mode", "trycount",
     "tid", "done", "synccnt", "leftover"}

OwnCids(c) == {DefaultChannelId(c), RandomChannelId(c), <<"allotted", c>>}
CommandKinds == {"init", "sync", "apdu", "cont"}

FrameOK(f) ==
    /\ f.kind \in CommandKinds \cup {"badcont", "error"}
    /\ f.kind = "error" => f.code # "OK"

RecordOK(c, s) ==
    /\ DOMAIN s = Fields
    /\ IsSeq(s.rxframes) /\ IsSeq(s.tasks)
    /\ {s.closed, s.dev, s.reading, s.tid, s.leftover} \subseteq BOOLEAN
    /\ s.op \in Nat /\ s.trycount \in 0..Tries
    /\ s.mode \in {None, "sync", "init"}
    /\ s.cid \in OwnCids(c) \cup {BROADCAST_CID}
    /\ s.mode # "init" => s.cid # BROADCAST_CID
    /\ s.rxcb \in ReadTasks \cup {None, "checkSentinel"}
    /\ s.rxcb # None => s.rxframes = <<>>
    /\ ~s.dev => s.closed /\ s.rxframes = <<>>
    /\ \A i \in DOMAIN s.rxframes : FrameOK(s.rxframes[i])

(***************************************************************************)
(* A client reads for one exchange at a time, and a read waits for one     *)
(* frame at a time.                                                        *)
(***************************************************************************)
OneRead(s) ==
    /\ OneTask(s.tasks, ReadTasks)
    /\ s.rxcb \in ReadTasks => s.reading /\ NoTask(s.tasks, ReadTasks)
    /\ ~s.reading => NoTask(s.tasks, ReadTasks) /\ s.msg = NoData

OneExchange(s, sy, rs) ==
    /\ IsSeq(sy) /\ IsSeq(rs)
    /\ OneTask(s.tasks, {"retryBusy"})
    /\ s.reading => NoTask(s.tasks, {"retryBusy"})
    /\ s.op = Len(rs) + (IF s.reading \/ ~NoTask(s.tasks, {"retryBusy"}) THEN 1 ELSE 0)
    /\ s.op > 0 => sy # <<>> /\ sy[1] = "OK"

Reported(c, s, rs) ==
    \A i \in DOMAIN rs : rs[i].rc = "OK" /\ ~s.leftover => rs[i].data = <<c, rs[i].op>>

(***************************************************************************)
(* The reply to the command of an exchange, on its way: the command is on  *)
(* the wire, or the frames it was answered with have come in.              *)
(***************************************************************************)
SentBy(c, w) == {i \in DOMAIN w : w[i].from = c}

OnlyCommand(c, s, w, kind) ==
    \E i \in DOMAIN w :
        /\ SentBy(c, w) = {i}
        /\ w[i].cid = s.cid /\ w[i].kind = kind /\ w[i].data = <<c, s.op>>

LastPart(f) == f.kind \in {"cont", "badcont"}
FirstPart(f) == f.kind = "apdu" /\ f.more

Arriving(c, s, w) ==
    LET f == s.rxframes
        own == <<c, s.op>> IN
    \/ OnlyCommand(c, s, w, "apdu") /\ f = <<>> /\ s.msg = NoData
    \/ OnlyCommand(c, s, w, "cont") /\ f = <<>> /\ s.msg = own
    \/ OnlyCommand(c, s, w, "cont") /\ s.msg = NoData /\ Len(f) = 1 /\ FirstPart(f[1])
    \/ /\ SentBy(c, w) = {} /\ s.msg = NoData /\ Len(f) = 1
       /\ f[1].kind = "error" \/ (f[1].kind = "apdu" /\ ~f[1].more)
    \/ SentBy(c, w) = {} /\ s.msg = own /\ Len(f) = 1 /\ LastPart(f[1])
    \/ SentBy(c, w) = {} /\ s.msg = NoData /\ Len(f) = 2 /\ FirstPart(f[1]) /\ LastPart(f[2])

(***************************************************************************)
(* A sync that sent no sentinel yet listens for none, and one that sent one*)
(* listens, is about to report, or has reported.                           *)
(***************************************************************************)
ReportInv(s, sy) ==
    /\ s.mode = None => s.trycount = Tries /\ sy = <<>>
    /\ s.trycount = Tries =>
         /\ Len(sy) <= 1
         /\ ~s.tid /\ s.rxcb # "checkSentinel" /\ NoTask(s.tasks, SyncTasks)
    /\ s.trycount = Tries - 1 =>
         /\ Len(sy) <= 1
         /\ OneTask(s.tasks, SyncTasks)
         /\ s.rxcb = "checkSentinel" \/ sy # <<>> => NoTask(s.tasks, SyncTasks)
         /\ sy # <<>> => s.rxcb # "checkSentinel"

Base(c, s, sy, rs) ==
    RecordOK(c, s) /\ OneRead(s) /\ OneExchange(s, sy, rs) /\ Reported(c, s, rs) /\ ReportInv(s, sy)

(***************************************************************************)
(* A client whose first sync succeeded with nothing left unanswered, and   *)
(* that is not closed: it listens for nothing but replies, and between     *)
(* exchanges there is none of its commands on the wire and no frame for it.*)
(***************************************************************************)
FirstOK(s, sy) == IF sy # <<>> THEN sy[1] = "OK" ELSE OKFirst(s.tasks)
Ready(s, sy) == ~s.closed /\ ~s.leftover /\ FirstOK(s, sy)

InSync(c, s, sy) ==
    /\ s.cid \in OwnCids(c) /\ s.mode # None /\ ~s.tid
    /\ s.rxcb # "checkSentinel"
    /\ ChecksFirst(s.tasks)
    /\ OneTask(s.tasks, {"synced"})
    /\ sy # <<>> => Len(sy) = 1 /\ NoTask(s.tasks, SyncTasks)

Quiet(c, s, w) == SentBy(c, w) = {} /\ s.rxframes = <<>>

ReadyInv(c, s, sy, w) ==
    Ready(s, sy) => InSync(c, s, sy) /\ IF s.reading THEN Arriving(c, s, w) ELSE Quiet(c, s, w)

(***************************************************************************)
(* What a client reads, closed or not, is the reply to its command.        *)
(***************************************************************************)
OwnFrames(frames, data) ==
    \A i \in DOMAIN frames : frames[i].kind # "error" => frames[i].data = data

Reading(c, s, sy) ==
    /\ s.closed \/ Ready(s, sy)
    /\ OwnFrames(s.rxframes, <<c, s.op>>)
    /\ s.msg \in {NoData, <<c, s.op>>}
    /\ s.rxcb = "init_frame" \/ ~NoTask(s.tasks, {"init_frame"}) => s.msg = NoData
    /\ s.rxcb = "cont_frame" \/ ~NoTask(s.tasks, {"cont_frame"}) => s.msg # NoData

ReadInv(c, s, sy) ==
    /\ s.reading /\ ~s.leftover => Reading(c, s, sy)
    /\ ~s.leftover => Replies(s.tasks, <<c, s.op>>)

ClientOK(c, s, sy, rs, w) == Base(c, s, sy, rs) /\ ReadyInv(c, s, sy, w) /\ ReadInv(c, s, sy)

(***************************************************************************)
(* The wire and the device.                                                *)
(***************************************************************************)
WireOK ==
    /\ IsSeq(wire)
    /\ \A i \in DOMAIN wire :
        /\ DOMAIN wire[i] = {"from", "cid", "kind", "data"}
        /\ wire[i].from \in OwnClients \cup Others
        /\ wire[i].cid \in OwnCids(wire[i].from) \cup {BROADCAST_CID}
        /\ wire[i].kind \in CommandKinds

DeviceOK ==
    /\ dead \in BOOLEAN
    /\ dead => members = {} /\ wire = <<>>
    /\ \A c \in OwnClients : c \notin members => gnubby[c].closed

ClientInv ==
    /\ DOMAIN gnubby = OwnClients /\ DOMAIN synced = OwnClients /\ DOMAIN results = OwnClients
    /\ WireOK /\ DeviceOK
    /\ \A c \in OwnClients : ClientOK(c, gnubby[c], synced[c], results[c], wire)
-----------------------------------------------------------------------------
(***************************************************************************)
(* Sequences of anything.                                                  *)
(***************************************************************************)
LEMMA SeqFacts ==
    ASSUME NEW q, IsSeq(q)
    PROVE  /\ Len(q) \in Nat /\ DOMAIN q = 1..Len(q)
           /\ q = <<>> <=> Len(q) = 0
           /\ q # <<>> => Head(q) = q[1] /\ 1 \in DOMAIN q
<1>1. PICK S : q \in Seq(S)
  BY DEF IsSeq
<1>2. QED
  BY <1>1

LEMMA AppendFacts ==
    ASSUME NEW q, IsSeq(q), NEW e
    PROVE  /\ IsSeq(Append(q, e)) /\ Len(Append(q, e)) = Len(q) + 1
           /\ DOMAIN Append(q, e) = 1..(Len(q) + 1)
           /\ Append(q, e)[Len(q) + 1] = e
           /\ \A i \in DOMAIN q : Append(q, e)[i] = q[i]
<1>1. PICK S : q \in Seq(S)
  BY DEF IsSeq
<1> DEFINE T == S \cup {e}
<1>2. q \in Seq(T) /\ e \in T
  BY <1>1
<1> HIDE DEF T
<1>3. Append(q, e) \in Seq(T)
  BY <1>2
<1>4. QED
  BY <1>2, <1>3 DEF IsSeq

LEMMA TailFacts ==
    ASSUME NEW q, IsSeq(q), q # <<>>
    PROVE  /\ IsSeq(Tail(q)) /\ Len(Tail(q)) = Len(q) - 1
           /\ DOMAIN Tail(q) = 1..(Len(q) - 1)
           /\ \A i \in DOMAIN Tail(q) : Tail(q)[i] = q[i + 1] /\ i + 1 \in DOMAIN q
<1>1. PICK S : q \in Seq(S)
  BY DEF IsSeq
<1>2. Tail(q) \in Seq(S)
  BY <1>1
<1>3. QED
  BY <1>1, <1>2 DEF IsSeq

Concats(q, r, d) ==
    /\ IsSeq(d) /\ Len(d) = Len(q) + Len(r)
    /\ DOMAIN d = 1..(Len(q) + Len(r))
    /\ \A i \in DOMAIN q : d[i] = q[i]
    /\ \A i \in 1..Len(r) : d[Len(q) + i] = r[i]

LEMMA ConcatFacts ==
    ASSUME NEW q, IsSeq(q), NEW r, IsSeq(r)
    PROVE  Concats(q, r, q \o r)
<1>1. PICK S : q \in Seq(S)
  BY DEF IsSeq
<1>2. PICK R : r \in Seq(R)
  BY DEF IsSeq
<1> DEFINE T == S \cup R
<1>3. q \in Seq(T) /\ r \in Seq(T)
  BY <1>1, <1>2
<1> HIDE DEF T
<1>4. q \o r \in Seq(T)
  BY <1>3
<1>5. QED
  BY <1>3, <1>4 DEF IsSeq, Concats

LEMMA OneElement ==
    ASSUME NEW e
    PROVE  IsSeq(<<e>>) /\ Len(<<e>>) = 1 /\ <<e>>[1] = e /\ DOMAIN <<e>> = 1..1
<1>1. <<e>> \in Seq({e}) /\ Len(<<e>>) = 1 /\ <<e>>[1] = e
  OBVIOUS
<1>2. DOMAIN <<e>> = 1..Len(<<e>>)
  BY <1>1
<1>3. QED
  BY <1>1, <1>2 DEF IsSeq

LEMMA EmptySequence == IsSeq(<<>>) /\ Len(<<>>) = 0 /\ DOMAIN <<>> = {}
<1>1. <<>> \in Seq({})
  OBVIOUS
<1>2. QED
  BY <1>1 DEF IsSeq

(***************************************************************************)
(* The oldest task is taken, a task is added, the read's task is dropped.  *)
(***************************************************************************)
LEMMA TasksTail ==
    ASSUME NEW ts, IsSeq(ts), ts # <<>>
    PROVE  /\ IsSeq(Tail(ts))
           /\ \A fns : NoTask(ts, fns) => NoTask(Tail(ts), fns) /\ Head(ts).fn \notin fns
           /\ \A fns : NoTask(Tail(ts), fns) /\ Head(ts).fn \notin fns => NoTask(ts, fns)
           /\ \A fns : OneTask(ts, fns) => OneTask(Tail(ts), fns)
           /\ \A fns : OneTask(ts, fns) /\ Head(ts).fn \in fns => NoTask(Tail(ts), fns)
           /\ ChecksFirst(ts) => ChecksFirst(Tail(ts))
           /\ ChecksFirst(ts) /\ Head(ts).fn = "synced" => NoTask(Tail(ts), {"checkSentinel"})
           /\ OKFirst(Tail(ts)) /\ Head(ts).fn # "synced" => OKFirst(ts)
           /\ Head(ts).fn = "synced" /\ Head(ts).rc = "OK" => OKFirst(ts)
           /\ \A data : Replies(ts, data) => Replies(Tail(ts), data)
           /\ \A data : Replies(ts, data) /\ Head(ts).fn = "retryBusy" /\ Head(ts).rc = "OK"
                          => Head(ts).data = data
<1>1. /\ Len(ts) \in Nat /\ DOMAIN ts = 1..Len(ts) /\ Head(ts) = ts[1] /\ 1 \in DOMAIN ts
      /\ IsSeq(Tail(ts)) /\ DOMAIN Tail(ts) = 1..(Len(ts) - 1)
      /\ \A i \in DOMAIN Tail(ts) : Tail(ts)[i] = ts[i + 1] /\ i + 1 \in DOMAIN ts
  BY SeqFacts, TailFacts
<1> DEFINE t == Tail(ts)
           h == Head(ts)
<1> HIDE DEF t, h
<1>2. /\ h = ts[1] /\ DOMAIN t = 1..(Len(ts) - 1)
      /\ \A i \in DOMAIN t : t[i] = ts[i + 1] /\ i + 1 \in DOMAIN ts
      /\ \A i \in DOMAIN ts : i # 1 => i - 1 \in DOMAIN t /\ t[i - 1] = ts[i]
  BY <1>1 DEF t, h
<1>3. \A fns : NoTask(ts, fns) => NoTask(t, fns) /\ h.fn \notin fns
  BY <1>1, <1>2 DEF NoTask
<1>4. \A fns : NoTask(t, fns) /\ h.fn \notin fns => NoTask(ts, fns)
  BY <1>1, <1>2 DEF NoTask
<1>5. \A fns : OneTask(ts, fns) => OneTask(t, fns)
  BY <1>1, <1>2 DEF OneTask
<1>6. \A fns : OneTask(ts, fns) /\ h.fn \in fns => NoTask(t, fns)
  BY <1>1, <1>2 DEF OneTask, NoTask
<1>7. ChecksFirst(ts) => ChecksFirst(t)
  BY <1>1, <1>2 DEF ChecksFirst
<1>8. ChecksFirst(ts) /\ h.fn = "synced" => NoTask(t, {"checkSentinel"})
  BY <1>1, <1>2 DEF ChecksFirst, NoTask
<1>9. OKFirst(t) /\ h.fn # "synced" => OKFirst(ts)
  <2> SUFFICES ASSUME OKFirst(t), h.fn # "synced" PROVE OKFirst(ts)
    OBVIOUS
  <2>1. PICK i \in DOMAIN t : /\ t[i].fn = "synced" /\ t[i].rc = "OK"
                              /\ \A j \in 1..(i - 1) : t[j].fn # "synced"
    BY DEF OKFirst
  <2>2. \A j \in 1..((i + 1) - 1) : j = 1 \/ (j - 1 \in 1..(i - 1) /\ t[j - 1] = ts[j])
    BY <1>1, <1>2, <2>1
  <2>3. \A j \in 1..((i + 1) - 1) : ts[j].fn # "synced"
    BY <1>2, <2>1, <2>2
  <2>4. QED
    BY <1>2, <2>1, <2>3 DEF OKFirst
<1>10. h.fn = "synced" /\ h.rc = "OK" => OKFirst(ts)
  BY <1>1, <1>2 DEF OKFirst
<1>11. \A data : Replies(ts, data) => Replies(t, data)
  BY <1>1, <1>2 DEF Replies
<1>12. \A data : Replies(ts, data) /\ h.fn = "retryBusy" /\ h.rc = "OK" => h.data = data
  BY <1>1, <1>2 DEF Replies
<1>13. QED
  BY <1>1, <1>3, <1>4, <1>5, <1>6, <1>7, <1>8, <1>9, <1>10, <1>11, <1>12 DEF t, h

LEMMA TasksAppend ==
    ASSUME NEW ts, IsSeq(ts), NEW e
    PROVE  /\ IsSeq(Append(ts, e))
           /\ \A fns : NoTask(Append(ts, e), fns) <=> NoTask(ts, fns) /\ e.fn \notin fns
           /\ \A fns : OneTask(ts, fns) /\ e.fn \notin fns => OneTask(Append(ts, e), fns)
           /\ \A fns : NoTask(ts, fns) => OneTask(Append(ts, e), fns)
           /\ ChecksFirst(ts) /\ e.fn # "checkSentinel" => ChecksFirst(Append(ts, e))
           /\ NoTask(ts, {"synced"}) /\ e.fn = "synced" => ChecksFirst(Append(ts, e))
           /\ OKFirst(Append(ts, e)) =>
                OKFirst(ts) \/ (e.fn = "synced" /\ e.rc = "OK" /\ NoTask(ts, {"synced"}))
           /\ \A data : Replies(ts, data) /\ (e.fn = "retryBusy" /\ e.rc = "OK" => e.data = data)
                          => Replies(Append(ts, e), data)
<1> DEFINE t == Append(ts, e)
<1> HIDE DEF t
<1>1. /\ Len(ts) \in Nat /\ DOMAIN ts = 1..Len(ts)
      /\ IsSeq(t) /\ DOMAIN t = 1..(Len(ts) + 1) /\ t[Len(ts) + 1] = e
      /\ \A i \in DOMAIN ts : t[i] = ts[i] /\ i \in DOMAIN t
      /\ \A i \in DOMAIN t : i \in DOMAIN ts \/ i = Len(ts) + 1
  BY SeqFacts, AppendFacts DEF t
<1>2. \A fns : NoTask(t, fns) <=> NoTask(ts, fns) /\ e.fn \notin fns
  BY <1>1 DEF NoTask
<1>3. \A fns : OneTask(ts, fns) /\ e.fn \notin fns => OneTask(t, fns)
  BY <1>1 DEF OneTask
<1>4. \A fns : NoTask(ts, fns) => OneTask(t, fns)
  BY <1>1 DEF OneTask, NoTask
<1>5. ChecksFirst(ts) /\ e.fn # "checkSentinel" => ChecksFirst(t)
  BY <1>1 DEF ChecksFirst
<1>6. NoTask(ts, {"synced"}) /\ e.fn = "synced" => ChecksFirst(t)
  BY <1>1 DEF ChecksFirst, NoTask
<1>7. OKFirst(t) => OKFirst(ts) \/ (e.fn = "synced" /\ e.rc = "OK" /\ NoTask(ts, {"synced"}))
  BY <1>1 DEF OKFirst, NoTask
<1>8. \A data : Replies(ts, data) /\ (e.fn = "retryBusy" /\ e.rc = "OK" => e.data = data)
                  => Replies(t, data)
  BY <1>1 DEF Replies
<1>9. QED
  BY <1>1, <1>2, <1>3, <1>4, <1>5, <1>6, <1>7, <1>8 DEF t

LEMMA SubSeqFacts ==
    ASSUME NEW q, IsSeq(q), NEW k \in DOMAIN q
    PROVE  LET d == SubSeq(q, 1, k - 1) \o SubSeq(q, k + 1, Len(q)) IN
           /\ IsSeq(d) /\ DOMAIN d = 1..(Len(q) - 1)
           /\ \A i \in DOMAIN d : d[i] = q[IF i < k THEN i ELSE i + 1]
<1>1. PICK S : q \in Seq(S)
  BY DEF IsSeq
<1>2. k \in 1..Len(q) /\ Len(q) \in Nat
  BY <1>1
<1>3. PICK a : a = SubSeq(q, 1, k - 1)
  OBVIOUS
<1>4. PICK b : b = SubSeq(q, k + 1, Len(q))
  OBVIOUS
<1>5. a \in Seq(S) /\ Len(a) = k - 1 /\ \A i \in 1..(k - 1) : a[i] = q[i]
  BY <1>1, <1>2, <1>3
<1>6. b \in Seq(S) /\ Len(b) = Len(q) - k /\ \A i \in 1..(Len(q) - k) : b[i] = q[k + i]
  BY <1>1, <1>2, <1>4
<1>7. a \o b \in Seq(S) /\ Len(a \o b) = Len(q) - 1
  BY <1>2, <1>5, <1>6
<1>8. ASSUME NEW i \in 1..(Len(q) - 1)
      PROVE  (a \o b)[i] = q[IF i < k THEN i ELSE i + 1]
  <2>1. CASE i < k
    BY <1>2, <1>5, <1>6, <2>1
  <2>2. CASE ~(i < k)
    <3>1. i - Len(a) \in 1..(Len(q) - k) /\ k + (i - Len(a)) = i + 1
      BY <1>2, <1>5, <2>2
    <3>2. a \in Seq(S) /\ b \in Seq(S) /\ i \in (Len(a) + 1)..(Len(a) + Len(b))
      BY <1>2, <1>5, <1>6, <2>2
    <3>3. (a \o b)[i] = b[i - Len(a)]
      BY <3>2
    <3>4. QED
      BY <1>6, <2>2, <3>1, <3>3
  <2>3. QED
    BY <2>1, <2>2
<1>9. DOMAIN (a \o b) = 1..(Len(q) - 1)
  BY <1>7
<1>10. QED
  BY <1>3, <1>4, <1>7, <1>8, <1>9 DEF IsSeq

LEMMA TasksDrop ==
    ASSUME NEW ts, IsSeq(ts), OneTask(ts, ReadTasks)
    PROVE  /\ IsSeq(DropRead(ts))
           /\ NoTask(DropRead(ts), ReadTasks)
           /\ \A fns : NoTask(ts, fns) => NoTask(DropRead(ts), fns)
           /\ \A fns : OneTask(ts, fns) => OneTask(DropRead(ts), fns)
           /\ ChecksFirst(ts) => ChecksFirst(DropRead(ts))
           /\ OKFirst(DropRead(ts)) => OKFirst(ts)
           /\ \A data : Replies(ts, data) => Replies(DropRead(ts), data)
<1> DEFINE reads == {i \in DOMAIN ts : ts[i].fn \in ReadTasks}
           d == DropRead(ts)
<1>1. CASE reads = {}
  <2>1. d = ts
    BY <1>1 DEF DropRead
  <2>2. NoTask(ts, ReadTasks)
    BY <1>1 DEF NoTask
  <2>3. QED
    BY <2>1, <2>2
<1>2. CASE reads # {}
  <2> DEFINE k == CHOOSE j \in reads : TRUE
  <2>1. k \in reads
    BY <1>2
  <2>2. d = SubSeq(ts, 1, k - 1) \o SubSeq(ts, k + 1, Len(ts))
    BY <1>2 DEF DropRead
  <2>3. k \in DOMAIN ts /\ ts[k].fn \in ReadTasks /\ \A i \in DOMAIN ts : i # k => ts[i].fn \notin ReadTasks
    BY <2>1 DEF OneTask
  <2> HIDE DEF k, d, reads
  <2>4. /\ IsSeq(d) /\ DOMAIN d = 1..(Len(ts) - 1)
        /\ \A i \in DOMAIN d : d[i] = ts[IF i < k THEN i ELSE i + 1]
    BY <2>2, <2>3, SubSeqFacts
  <2>5. Len(ts) \in Nat /\ DOMAIN ts = 1..Len(ts)
    BY SeqFacts
  <2> DEFINE m(i) == IF i < k THEN i ELSE i + 1
  <2>6. /\ \A i \in DOMAIN d : m(i) \in DOMAIN ts /\ m(i) # k /\ d[i] = ts[m(i)]
        /\ \A i, j \in DOMAIN d : (m(i) = m(j) => i = j) /\ (m(i) < m(j) => i < j)
    BY <2>3, <2>4, <2>5
  <2>7. \A j \in DOMAIN ts : j = k \/ \E i \in DOMAIN d : m(i) = j
    <3>1. ASSUME NEW j \in DOMAIN ts, j # k PROVE \E i \in DOMAIN d : m(i) = j
      <4>1. CASE j < k
        BY <2>3, <2>4, <2>5, <4>1
      <4>2. CASE ~(j < k)
        <5>1. j - 1 \in DOMAIN d /\ m(j - 1) = j
          BY <2>3, <2>4, <2>5, <3>1, <4>2
        <5>2. QED
          BY <5>1
      <4>3. QED
        BY <4>1, <4>2
    <3>2. QED
      BY <3>1
  <2> HIDE DEF m
  <2>8. NoTask(d, ReadTasks)
    BY <2>3, <2>6 DEF NoTask
  <2>9. \A fns : NoTask(ts, fns) => NoTask(d, fns)
    BY <2>6 DEF NoTask
  <2>10. \A fns : OneTask(ts, fns) => OneTask(d, fns)
    BY <2>6 DEF OneTask
  <2>11. ChecksFirst(ts) => ChecksFirst(d)
    BY <2>6 DEF ChecksFirst
  <2>12. OKFirst(d) => OKFirst(ts)
    <3> SUFFICES ASSUME OKFirst(d) PROVE OKFirst(ts)
      OBVIOUS
    <3>1. PICK i \in DOMAIN d : /\ d[i].fn = "synced" /\ d[i].rc = "OK"
                                /\ \A j \in 1..(i - 1) : d[j].fn # "synced"
      BY DEF OKFirst
    <3>2. ASSUME NEW j \in 1..(m(i) - 1) PROVE ts[j].fn # "synced"
      <4>1. j \in DOMAIN ts /\ m(i) \in DOMAIN ts /\ j < m(i)
        BY <2>5, <2>6
      <4>2. CASE j = k
        BY <2>3, <4>2 DEF ReadTasks
      <4>3. ASSUME j # k PROVE ts[j].fn # "synced"
        <5>1. PICK l \in DOMAIN d : m(l) = j
          BY <2>7, <4>1, <4>3
        <5>2. l < i
          BY <2>6, <4>1, <5>1
        <5>3. l \in 1..(i - 1)
          BY <2>4, <2>5, <5>2
        <5>4. QED
          BY <2>6, <3>1, <5>1, <5>3
      <4>4. QED
        BY <4>2, <4>3
    <3>3. QED
      BY <2>6, <3>1, <3>2 DEF OKFirst
  <2>13. \A data : Replies(ts, data) => Replies(d, data)
    BY <2>6 DEF Replies
  <2>14. QED
    BY <2>4, <2>8, <2>9, <2>10, <2>11, <2>12, <2>13 DEF d
<1>3. QED
  BY <1>1, <1>2
-----------------------------------------------------------------------------
(***************************************************************************)
(* What a function of gnubby.js changes.  The invariant does not depend on *)
(* the fields in IdleFields, and holds of a client that is closed.               *)
(***************************************************************************)
IdleFields ==
    {"busyWait", "commandPending", "closingWhenIdle", "notifyOnClose", "notified", "done",
     "synccnt"}

Same(s, t, changed) == DOMAIN t = Fields /\ \A f \in Fields \ changed : t[f] = s[f]

LEMMA Alike ==
    ASSUME NEW c, NEW s, NEW t, NEW sy, NEW rs, NEW w,
           ClientOK(c, s, sy, rs, w), Same(s, t, IdleFields)
    PROVE  ClientOK(c, t, sy, rs, w)
<1>1. /\ DOMAIN t = Fields
      /\ t.cid = s.cid /\ t.closed = s.closed /\ t.dev = s.dev /\ t.rxframes = s.rxframes
      /\ t.rxcb = s.rxcb /\ t.tasks = s.tasks /\ t.op = s.op /\ t.reading = s.reading
      /\ t.msg = s.msg /\ t.mode = s.mode /\ t.trycount = s.trycount /\ t.tid = s.tid
      /\ t.leftover = s.leftover
  BY DEF Same, Fields, IdleFields
<1>2. RecordOK(c, t)
  BY <1>1 DEF ClientOK, Base, RecordOK
<1>3. OneRead(t) /\ OneExchange(t, sy, rs) /\ Reported(c, t, rs) /\ ReportInv(t, sy)
  BY <1>1 DEF ClientOK, Base, OneRead, OneExchange, Reported, ReportInv
<1>4. ReadyInv(c, t, sy, w)
  BY <1>1 DEF ClientOK, ReadyInv, Ready, FirstOK, InSync, Arriving, OnlyCommand, Quiet
<1>5. ReadInv(c, t, sy)
  BY <1>1 DEF ClientOK, ReadInv, Reading, Ready, FirstOK
<1>6. QED
  BY <1>2, <1>3, <1>4, <1>5 DEF ClientOK, Base

LEMMA ClosedOK ==
    ASSUME NEW c, NEW s, NEW t, NEW sy, NEW rs, NEW w,
           ClientOK(c, s, sy, rs, w),
           Same(s, t, IdleFields \cup {"closed", "dev", "rxframes", "rxcb"}),
           t.closed = TRUE, t.dev = FALSE, t.rxframes = <<>>, t.rxcb \in {None, s.rxcb}
    PROVE  ClientOK(c, t, sy, rs, w)
<1>1. /\ DOMAIN t = Fields
      /\ t.cid = s.cid /\ t.tasks = s.tasks /\ t.op = s.op /\ t.reading = s.reading
      /\ t.msg = s.msg /\ t.mode = s.mode /\ t.trycount = s.trycount /\ t.tid = s.tid
      /\ t.leftover = s.leftover
  BY DEF Same, Fields, IdleFields
<1>2. RecordOK(c, t)
  <2>1. RecordOK(c, s) /\ IsSeq(<<>>) /\ DOMAIN <<>> = {}
    BY EmptySequence DEF ClientOK, Base
  <2>2. IsSeq(t.rxframes) /\ IsSeq(t.tasks) /\ \A i \in DOMAIN t.rxframes : FrameOK(t.rxframes[i])
    BY <1>1, <2>1 DEF RecordOK
  <2>3. QED
    BY <1>1, <2>1, <2>2 DEF RecordOK
<1>3. None # "checkSentinel" /\ None \notin ReadTasks /\ None \notin {"init_frame", "cont_frame"}
  BY DEF None, ReadTasks
<1>4. OneRead(t)
  BY <1>1, <1>3 DEF ClientOK, Base, OneRead
<1>5. OneExchange(t, sy, rs) /\ Reported(c, t, rs)
  BY <1>1 DEF ClientOK, Base, OneExchange, Reported
<1>6. ReportInv(t, sy)
  BY <1>1, <1>3 DEF ClientOK, Base, ReportInv
<1>7. ReadyInv(c, t, sy, w)
  BY DEF ReadyInv, Ready
<1>8. ReadInv(c, t, sy)
  <2>1. OwnFrames(t.rxframes, <<c, t.op>>)
    BY EmptySequence DEF OwnFrames
  <2>2. QED
    BY <1>1, <1>3, <2>1 DEF ClientOK, ReadInv, Reading
<1>9. QED
  BY <1>2, <1>4, <1>5, <1>6, <1>7, <1>8 DEF ClientOK, Base

LEMMA CloseFields ==
    ASSUME NEW s, DOMAIN s = Fields
    PROVE  /\ Same(s, Close(s), {"closed", "dev", "rxframes", "rxcb"})
           /\ Close(s).closed = TRUE /\ Close(s).dev = FALSE
           /\ s.dev => Close(s).rxframes = <<>> /\ Close(s).rxcb = None
           /\ ~s.dev => Close(s).rxframes = s.rxframes /\ Close(s).rxcb = s.rxcb
BY DEF Close, Same, Fields

LEMMA CloseOK ==
    ASSUME NEW c, NEW s, NEW sy, NEW rs, NEW w, ClientOK(c, s, sy, rs, w)
    PROVE  /\ ClientOK(c, Close(s), sy, rs, w)
           /\ ClientOK(c, IfClosingWhenIdle(s), sy, rs, w)
           /\ ClientOK(c, CloseWhenIdle(s), sy, rs, w)
           /\ Ready(IfClosingWhenIdle(s), sy) => Ready(s, sy)
           /\ IfClosingWhenIdle(s).mode = s.mode
<1>1. DOMAIN s = Fields /\ s.dev \in BOOLEAN /\ (~s.dev => s.rxframes = <<>>)
  BY DEF ClientOK, Base, RecordOK
<1> DEFINE x == Close(s)
           y == IdleClose(s)
           z == [Close(s) EXCEPT !.notified = @ + 1]
           v == [s EXCEPT !.closingWhenIdle = TRUE, !.notifyOnClose = @ + 1]
           shut == IdleFields \cup {"closed", "dev", "rxframes", "rxcb"}
<1>2. /\ Same(s, x, {"closed", "dev", "rxframes", "rxcb"})
      /\ x.closed = TRUE /\ x.dev = FALSE /\ x.rxframes = <<>> /\ x.rxcb \in {None, s.rxcb}
  BY <1>1, CloseFields
<1> HIDE DEF x
<1>3. ClientOK(c, x, sy, rs, w)
  <2>1. Same(s, x, shut)
    BY <1>2 DEF Same
  <2>2. QED
    BY <1>2, <2>1, ClosedOK
<1>4. /\ Same(x, y, IdleFields) /\ Same(x, z, IdleFields) /\ Same(s, v, IdleFields)
      /\ y.closed = TRUE /\ y.mode = s.mode
  <2>1. y = [x EXCEPT !.notified = @ + s.notifyOnClose, !.notifyOnClose = 0]
    BY DEF x, IdleClose
  <2>2. z = [x EXCEPT !.notified = @ + 1]
    BY DEF x
  <2>3. Same(x, y, IdleFields) /\ y.closed = x.closed /\ y.mode = x.mode
    BY <1>2, <2>1 DEF Same, IdleFields, Fields
  <2>4. Same(x, z, IdleFields)
    BY <1>2, <2>2 DEF Same, IdleFields, Fields
  <2>5. Same(s, v, IdleFields)
    BY <1>1 DEF Same, IdleFields, Fields
  <2>6. x.mode = s.mode
    BY <1>2 DEF Same, Fields
  <2>7. QED
    BY <1>2, <2>3, <2>4, <2>5, <2>6
<1> HIDE DEF y, z, v
<1>5. ClientOK(c, y, sy, rs, w) /\ ClientOK(c, z, sy, rs, w) /\ ClientOK(c, v, sy, rs, w)
  BY <1>3, <1>4, Alike
<1>6. IfClosingWhenIdle(s) = IF s.closingWhenIdle THEN y ELSE s
  BY DEF IfClosingWhenIdle, y
<1>7. CloseWhenIdle(s) = IF s.commandPending THEN v ELSE z
  BY DEF CloseWhenIdle, z, v, x
<1>8. QED
  BY <1>3, <1>4, <1>5, <1>6, <1>7 DEF x, Ready

(***************************************************************************)
(* A client that is not ready: nothing is said of the wire.                *)
(***************************************************************************)
Unready(c, s, sy, rs) == Base(c, s, sy, rs) /\ ReadInv(c, s, sy) /\ ~Ready(s, sy)

LEMMA UnreadyOK ==
    ASSUME NEW c, NEW s, NEW sy, NEW rs, NEW w, Unready(c, s, sy, rs)
    PROVE  ClientOK(c, s, sy, rs, w)
BY DEF Unready, ClientOK, ReadyInv

\* The fields that no sync changes, but for the frames and callbacks.
LEMMA UnreadyAlike ==
    ASSUME NEW c, NEW s, NEW t, NEW sy, NEW rs, Unready(c, s, sy, rs),
           Same(s, t, IdleFields \cup {"cid", "mode", "tid"}),
           t.cid \in OwnCids(c) \cup {BROADCAST_CID}, t.mode # "init" => t.cid # BROADCAST_CID,
           t.mode \in {None, "sync", "init"}, t.mode = None => s.mode = None,
           t.tid \in BOOLEAN, t.tid => s.tid \/ s.trycount # Tries
    PROVE  Unready(c, t, sy, rs)
<1>1. /\ DOMAIN t = Fields
      /\ t.closed = s.closed /\ t.dev = s.dev /\ t.rxframes = s.rxframes
      /\ t.rxcb = s.rxcb /\ t.tasks = s.tasks /\ t.op = s.op /\ t.reading = s.reading
      /\ t.msg = s.msg /\ t.trycount = s.trycount /\ t.leftover = s.leftover
  BY DEF Same, Fields, IdleFields
<1>2. RecordOK(c, t)
  BY <1>1 DEF Unready, Base, RecordOK
<1>3. OneRead(t) /\ OneExchange(t, sy, rs) /\ Reported(c, t, rs) /\ ReportInv(t, sy)
  BY <1>1 DEF Unready, Base, OneRead, OneExchange, Reported, ReportInv
<1>4. ReadInv(c, t, sy) /\ ~Ready(t, sy)
  BY <1>1 DEF Unready, ReadInv, Reading, Ready, FirstOK
<1>5. QED
  BY <1>2, <1>3, <1>4 DEF Unready, Base

LEMMA UnreadyFrameRead ==
    ASSUME NEW c, NEW s, NEW sy, NEW rs, Unready(c, s, sy, rs), s.rxframes # <<>>
    PROVE  LET t == [s EXCEPT !.rxframes = Tail(@)] IN
           /\ Unready(c, t, sy, rs) /\ t.rxcb = None /\ Same(s, t, {"rxframes"})
<1> DEFINE t == [s EXCEPT !.rxframes = Tail(@)]
<1>1. RecordOK(c, s)
  BY DEF Unready, Base
<1>2. /\ DOMAIN t = Fields /\ t.rxframes = Tail(s.rxframes)
      /\ t.cid = s.cid /\ t.closed = s.closed /\ t.dev = s.dev
      /\ t.rxcb = s.rxcb /\ t.tasks = s.tasks /\ t.op = s.op /\ t.reading = s.reading
      /\ t.msg = s.msg /\ t.mode = s.mode /\ t.trycount = s.trycount /\ t.tid = s.tid
      /\ t.leftover = s.leftover /\ Same(s, t, {"rxframes"})
  BY <1>1 DEF RecordOK, Fields, Same
<1> HIDE DEF t
<1>3. /\ IsSeq(t.rxframes)
      /\ \A i \in DOMAIN t.rxframes : t.rxframes[i] = s.rxframes[i + 1] /\ i + 1 \in DOMAIN s.rxframes
  BY <1>1, <1>2, TailFacts DEF RecordOK
<1>4. s.rxcb = None
  BY <1>1 DEF RecordOK
<1>5. RecordOK(c, t)
  <2>1. s.dev
    BY <1>1 DEF RecordOK
  <2>2. QED
    BY <1>1, <1>2, <1>3, <1>4, <2>1 DEF RecordOK
<1>6. OneRead(t) /\ OneExchange(t, sy, rs) /\ Reported(c, t, rs) /\ ReportInv(t, sy)
  BY <1>2 DEF Unready, Base, OneRead, OneExchange, Reported, ReportInv
<1>7. ~Ready(t, sy)
  BY <1>2 DEF Unready, Ready, FirstOK
<1>8. ReadInv(c, t, sy)
  <2>1. \A data : OwnFrames(s.rxframes, data) => OwnFrames(t.rxframes, data)
    BY <1>3 DEF OwnFrames
  <2>2. QED
    BY <1>2, <1>7, <2>1 DEF Unready, ReadInv, Reading
<1>9. QED
  BY <1>2, <1>4, <1>5, <1>6, <1>7, <1>8 DEF Unready, Base, t

LEMMA NotifyFields ==
    ASSUME NEW s, DOMAIN s = Fields, NEW fn
    PROVE  /\ Same(s, NotifyFrame(s, fn), {"tasks", "rxcb"})
           /\ s.rxframes = <<>> =>
                NotifyFrame(s, fn).rxcb = fn /\ NotifyFrame(s, fn).tasks = s.tasks
           /\ s.rxframes # <<>> =>
                /\ NotifyFrame(s, fn).rxcb = s.rxcb
                /\ NotifyFrame(s, fn).tasks = Append(s.tasks, Task(fn))
BY DEF NotifyFrame, Same, Fields

(***************************************************************************)
(* A sync that goes on: it has sent a sentinel, and listens for it, or     *)
(* reports, nowhere else.                                                  *)
(***************************************************************************)
Free(s, sy) ==
    /\ s.trycount # Tries
    /\ s.trycount = Tries - 1 => sy = <<>> /\ NoTask(s.tasks, SyncTasks)

LEMMA UnreadyListens ==
    ASSUME NEW c, NEW s, NEW sy, NEW rs, Unready(c, s, sy, rs), Free(s, sy)
    PROVE  Unready(c, NotifyFrame(s, "checkSentinel"), sy, rs)
<1> DEFINE t == NotifyFrame(s, "checkSentinel")
           task == Task("checkSentinel")
<1>1. RecordOK(c, s) /\ DOMAIN s = Fields
  BY DEF Unready, Base, RecordOK
<1>2. /\ Same(s, t, {"tasks", "rxcb"})
      /\ s.rxframes = <<>> => t.rxcb = "checkSentinel" /\ t.tasks = s.tasks
      /\ s.rxframes # <<>> => t.rxcb = s.rxcb /\ t.tasks = Append(s.tasks, task)
  BY <1>1, NotifyFields
<1>3. /\ DOMAIN t = Fields /\ t.rxframes = s.rxframes
      /\ t.cid = s.cid /\ t.closed = s.closed /\ t.dev = s.dev
      /\ t.op = s.op /\ t.reading = s.reading
      /\ t.msg = s.msg /\ t.mode = s.mode /\ t.trycount = s.trycount /\ t.tid = s.tid
      /\ t.leftover = s.leftover
  BY <1>2 DEF Fields, Same
<1> HIDE DEF t
<1>4. task.fn = "checkSentinel"
  BY DEF Task
<1> HIDE DEF task
<1>5. CASE s.rxframes = <<>>
  <2>1. t.rxcb = "checkSentinel" /\ t.tasks = s.tasks
    BY <1>2, <1>5
  <2>2. RecordOK(c, t)
    BY <1>1, <1>3, <1>5, <2>1 DEF RecordOK
  <2>3. OneRead(t) /\ OneExchange(t, sy, rs) /\ Reported(c, t, rs)
    BY <1>3, <2>1 DEF Unready, Base, OneRead, OneExchange, Reported, ReadTasks
  <2>4. ReportInv(t, sy)
    BY <1>3, <2>1 DEF Unready, Base, ReportInv, Free
  <2>5. ReadInv(c, t, sy) /\ ~Ready(t, sy)
    BY <1>3, <2>1 DEF Unready, ReadInv, Reading, Ready, FirstOK
  <2>6. QED
    BY <2>2, <2>3, <2>4, <2>5 DEF Unready, Base, t
<1>6. CASE s.rxframes # <<>>
  <2>1. t.rxcb = None /\ s.rxcb = None /\ t.tasks = Append(s.tasks, task)
    BY <1>1, <1>2, <1>6 DEF RecordOK
  <2>2. /\ IsSeq(t.tasks)
        /\ \A fns : NoTask(t.tasks, fns) <=> NoTask(s.tasks, fns) /\ "checkSentinel" \notin fns
        /\ \A fns : OneTask(s.tasks, fns) /\ "checkSentinel" \notin fns => OneTask(t.tasks, fns)
        /\ NoTask(s.tasks, SyncTasks) => OneTask(t.tasks, SyncTasks)
        /\ OKFirst(t.tasks) => OKFirst(s.tasks)
        /\ \A data : Replies(s.tasks, data) => Replies(t.tasks, data)
    BY <1>1, <1>4, <2>1, TasksAppend DEF RecordOK
  <2>3. RecordOK(c, t)
    BY <1>1, <1>3, <2>1, <2>2 DEF RecordOK
  <2>4. OneRead(t)
    BY <1>3, <2>1, <2>2 DEF Unready, Base, OneRead, ReadTasks, None
  <2>5. OneExchange(t, sy, rs) /\ Reported(c, t, rs)
    BY <1>3, <2>2 DEF Unready, Base, OneExchange, Reported
  <2>6. ReportInv(t, sy)
    BY <1>3, <2>1, <2>2 DEF Unready, Base, ReportInv, Free, None
  <2>7. ~Ready(t, sy)
    BY <1>3, <2>2 DEF Unready, Ready, FirstOK
  <2>8. ReadInv(c, t, sy)
    BY <1>3, <2>1, <2>2, <2>7 DEF Unready, ReadInv, Reading, None
  <2>9. QED
    BY <2>3, <2>4, <2>5, <2>6, <2>7, <2>8 DEF Unready, Base, t
<1>7. QED
  BY <1>5, <1>6

LEMMA UnreadySends ==
    ASSUME NEW c, NEW s, NEW sy, NEW rs, Unready(c, s, sy, rs), s.mode # None
    PROVE  /\ Unready(c, Sending(s), sy, rs)
           /\ Same(s, Sending(s), {"cid", "synccnt"})
<1>1. /\ Same(s, Sending(s), {"cid", "synccnt"})
      /\ Sending(s).cid \in {s.cid, BROADCAST_CID}
      /\ s.mode # "init" => Sending(s).cid = s.cid
  BY DEF Unready, Base, RecordOK, Sending, Same, Fields
<1>2. RecordOK(c, s)
  BY DEF Unready, Base
<1>3. Same(s, Sending(s), IdleFields \cup {"cid", "mode", "tid"})
  BY <1>1 DEF Same, IdleFields
<1>4. Sending(s).mode = s.mode /\ Sending(s).tid = s.tid
  BY <1>1 DEF Same, Fields
<1>5. Sending(s).cid \in OwnCids(c) \cup {BROADCAST_CID}
  BY <1>1, <1>2 DEF RecordOK
<1>6. Unready(c, Sending(s), sy, rs)
  BY <1>1, <1>2, <1>3, <1>4, <1>5, UnreadyAlike DEF RecordOK
<1>7. QED
  BY <1>1, <1>6

(***************************************************************************)
(* returnValue: a sync that failed, and one that succeeded.                *)
(***************************************************************************)
Returned(s, rc, unanswered) ==
    [s EXCEPT !.done = TRUE, !.leftover = @ \/ unanswered,
              !.tasks = Append(@, [fn |-> "synced", rc |-> rc, data |-> NoData])]

LEMMA ReturnedFields ==
    ASSUME NEW c, NEW s, RecordOK(c, s), NEW rc, NEW unanswered \in BOOLEAN
    PROVE  LET t == Returned(s, rc, unanswered) IN
           /\ DOMAIN t = Fields /\ t.rxframes = s.rxframes /\ t.rxcb = s.rxcb
           /\ t.cid = s.cid /\ t.closed = s.closed /\ t.dev = s.dev
           /\ t.op = s.op /\ t.reading = s.reading
           /\ t.msg = s.msg /\ t.mode = s.mode /\ t.trycount = s.trycount /\ t.tid = s.tid
           /\ t.leftover = (s.leftover \/ unanswered) /\ t.leftover \in BOOLEAN
           /\ IsSeq(t.tasks)
           /\ \A fns : NoTask(t.tasks, fns) <=> NoTask(s.tasks, fns) /\ "synced" \notin fns
           /\ \A fns : OneTask(s.tasks, fns) /\ "synced" \notin fns => OneTask(t.tasks, fns)
           /\ \A fns : NoTask(s.tasks, fns) => OneTask(t.tasks, fns)
           /\ NoTask(s.tasks, {"synced"}) => ChecksFirst(t.tasks)
           /\ OKFirst(t.tasks) =>
                OKFirst(s.tasks) \/ (rc = "OK" /\ NoTask(s.tasks, {"synced"}))
           /\ \A data : Replies(s.tasks, data) => Replies(t.tasks, data)
<1> DEFINE t == Returned(s, rc, unanswered)
           e == [fn |-> "synced", rc |-> rc, data |-> NoData]
<1>1. /\ DOMAIN t = Fields /\ t.rxframes = s.rxframes /\ t.rxcb = s.rxcb
      /\ t.cid = s.cid /\ t.closed = s.closed /\ t.dev = s.dev
      /\ t.op = s.op /\ t.reading = s.reading
      /\ t.msg = s.msg /\ t.mode = s.mode /\ t.trycount = s.trycount /\ t.tid = s.tid
      /\ t.leftover = (s.leftover \/ unanswered) /\ t.tasks = Append(s.tasks, e)
  BY DEF RecordOK, Fields, Returned
<1>2. e.fn = "synced" /\ e.rc = rc /\ e.fn # "retryBusy" /\ e.fn # "checkSentinel"
  OBVIOUS
<1> HIDE DEF t, e
<1>3. IsSeq(s.tasks) /\ s.leftover \in BOOLEAN
  BY DEF RecordOK
<1>4. /\ IsSeq(t.tasks)
      /\ \A fns : NoTask(t.tasks, fns) <=> NoTask(s.tasks, fns) /\ e.fn \notin fns
      /\ \A fns : OneTask(s.tasks, fns) /\ e.fn \notin fns => OneTask(t.tasks, fns)
      /\ \A fns : NoTask(s.tasks, fns) => OneTask(t.tasks, fns)
      /\ NoTask(s.tasks, {"synced"}) => ChecksFirst(t.tasks)
      /\ OKFirst(t.tasks) =>
            OKFirst(s.tasks) \/ (e.rc = "OK" /\ NoTask(s.tasks, {"synced"}))
      /\ \A data : Replies(s.tasks, data) => Replies(t.tasks, data)
  BY <1>1, <1>2, <1>3, TasksAppend
<1>5. QED
  BY <1>1, <1>2, <1>3, <1>4 DEF t

LEMMA ReturnedOK ==
    ASSUME NEW c, NEW s, NEW sy, NEW rs, NEW rc, NEW unanswered \in BOOLEAN,
           Unready(c, s, sy, rs), Free(s, sy),
           s.trycount = Tries - 1 => s.rxcb # "checkSentinel"
    PROVE  LET t == Returned(s, rc, unanswered) IN
           /\ Base(c, t, sy, rs)
           /\ ReadInv(c, t, sy)
           /\ rc # "OK" => Unready(c, t, sy, rs)
           /\ t.mode = s.mode
<1> DEFINE t == Returned(s, rc, unanswered)
<1>1. RecordOK(c, s)
  BY DEF Unready, Base
<1>2. /\ DOMAIN t = Fields /\ t.rxframes = s.rxframes /\ t.rxcb = s.rxcb
      /\ t.cid = s.cid /\ t.closed = s.closed /\ t.dev = s.dev
      /\ t.op = s.op /\ t.reading = s.reading
      /\ t.msg = s.msg /\ t.mode = s.mode /\ t.trycount = s.trycount /\ t.tid = s.tid
      /\ t.leftover = (s.leftover \/ unanswered) /\ t.leftover \in BOOLEAN
      /\ IsSeq(t.tasks)
      /\ \A fns : NoTask(t.tasks, fns) <=> NoTask(s.tasks, fns) /\ "synced" \notin fns
      /\ \A fns : OneTask(s.tasks, fns) /\ "synced" \notin fns => OneTask(t.tasks, fns)
      /\ \A fns : NoTask(s.tasks, fns) => OneTask(t.tasks, fns)
      /\ OKFirst(t.tasks) =>
            OKFirst(s.tasks) \/ (rc = "OK" /\ NoTask(s.tasks, {"synced"}))
      /\ \A data : Replies(s.tasks, data) => Replies(t.tasks, data)
  BY <1>1, ReturnedFields
<1> HIDE DEF t
<1>3. RecordOK(c, t)
  BY <1>1, <1>2 DEF RecordOK
<1>4. OneRead(t)
  BY <1>2 DEF Unready, Base, OneRead, ReadTasks
<1>5. OneExchange(t, sy, rs) /\ Reported(c, t, rs)
  BY <1>2 DEF Unready, Base, OneExchange, Reported
<1>6. ReportInv(t, sy)
  BY <1>2 DEF Unready, Base, ReportInv, Free
<1>7. ReadInv(c, t, sy)
  <2>1. ASSUME ~t.leftover PROVE Replies(t.tasks, <<c, t.op>>)
    BY <1>2, <2>1 DEF Unready, ReadInv
  <2>2. ASSUME t.reading, ~t.leftover PROVE Reading(c, t, sy)
    <3>1. s.closed /\ Reading(c, s, sy)
      BY <1>2, <2>2 DEF Unready, ReadInv, Reading
    <3>2. QED
      BY <1>2, <3>1 DEF Reading
  <2>3. QED
    BY <2>1, <2>2 DEF ReadInv
<1>8. rc # "OK" => ~Ready(t, sy)
  BY <1>2 DEF Unready, Ready, FirstOK
<1>9. QED
  BY <1>2, <1>3, <1>4, <1>5, <1>6, <1>7, <1>8 DEF Unready, Base, t

LEMMA StoppedOK ==
    ASSUME NEW c, NEW s, NEW sy, NEW rs, Unready(c, s, sy, rs)
    PROVE  /\ Unready(c, Stopped(s), sy, rs)
           /\ Same(s, Stopped(s), {"commandPending", "tid"})
           /\ Stopped(s).tid = FALSE
<1>1. RecordOK(c, s)
  BY DEF Unready, Base
<1>2. Same(s, Stopped(s), {"commandPending", "tid"}) /\ Stopped(s).tid = FALSE
  BY <1>1 DEF RecordOK, Stopped, Same, Fields
<1>3. /\ Same(s, Stopped(s), IdleFields \cup {"cid", "mode", "tid"})
      /\ Stopped(s).mode = s.mode /\ Stopped(s).cid = s.cid
  BY <1>2 DEF Same, IdleFields, Fields
<1>4. Unready(c, Stopped(s), sy, rs)
  BY <1>1, <1>2, <1>3, UnreadyAlike DEF RecordOK
<1>5. QED
  BY <1>2, <1>4

LEMMA SyncFailedOK ==
    ASSUME NEW c, NEW s, NEW sy, NEW rs, NEW rc, NEW unanswered \in BOOLEAN, NEW w,
           Unready(c, s, sy, rs), Free(s, sy), rc # "OK",
           s.trycount = Tries - 1 => s.rxcb # "checkSentinel"
    PROVE  ClientOK(c, SyncFailed(c, s, rc, unanswered), sy, rs, w)
<1> DEFINE u == Stopped(s)
           v == Returned(u, rc, unanswered)
           t == IfClosingWhenIdle(v)
           x == [t EXCEPT !.cid = RandomChannelId(c), !.mode = "sync"]
<1>1. Unready(c, u, sy, rs) /\ Same(s, u, {"commandPending", "tid"})
  BY StoppedOK
<1>2. u.trycount = s.trycount /\ u.tasks = s.tasks /\ u.rxcb = s.rxcb /\ u.mode = s.mode
  BY <1>1 DEF Same, Fields
<1> HIDE DEF u
<1>3. Free(u, sy) /\ (u.trycount = Tries - 1 => u.rxcb # "checkSentinel")
  BY <1>2 DEF Free
<1>4. Unready(c, v, sy, rs) /\ v.mode = s.mode
  BY <1>1, <1>2, <1>3, ReturnedOK
<1> HIDE DEF v
<1>5. ClientOK(c, t, sy, rs, w) /\ ~Ready(t, sy) /\ t.mode = s.mode
  BY <1>4, CloseOK, UnreadyOK DEF Unready
<1>6. SyncFailed(c, s, rc, unanswered) = IF s.mode = "init" THEN x ELSE t
  BY DEF SyncFailed, ReturnValue, Returned, t, v, u
<1> HIDE DEF t
<1>7. CASE s.mode = "init"
  <2>1. Unready(c, t, sy, rs) /\ RecordOK(c, t)
    BY <1>5 DEF ClientOK, Unready, Base
  <2>2. /\ Same(t, x, IdleFields \cup {"cid", "mode", "tid"})
        /\ x.cid = RandomChannelId(c) /\ x.mode = "sync" /\ x.tid = t.tid
    BY <2>1 DEF Same, IdleFields, Fields, RecordOK
  <2> HIDE DEF x
  <2>3. x.cid \in OwnCids(c) /\ x.cid # BROADCAST_CID
    BY <2>2 DEF OwnCids, RandomChannelId, BROADCAST_CID
  <2>4. x.tid \in BOOLEAN /\ (x.tid => t.tid) /\ x.mode # None
    BY <2>1, <2>2 DEF RecordOK, None
  <2>5. Unready(c, x, sy, rs)
    BY <2>1, <2>2, <2>3, <2>4, UnreadyAlike
  <2>6. QED
    BY <1>6, <1>7, <2>5, UnreadyOK
<1>8. CASE s.mode # "init"
  BY <1>5, <1>6, <1>8
<1>9. QED
  BY <1>7, <1>8

LEMMA SyncSucceededOK ==
    ASSUME NEW c, NEW s, NEW sy, NEW rs, NEW f, NEW unanswered \in BOOLEAN, NEW w,
           Unready(c, s, sy, rs), Free(s, sy), s.mode # None, s.rxcb = None,
           SentinelEquals(c, s, f), ~unanswered => Quiet(c, s, w)
    PROVE  ClientOK(c, SyncSucceeded(s, f, unanswered), sy, rs, w)
<1> DEFINE u == Stopped(s)
           n == [u EXCEPT !.cid = IF s.mode = "init" THEN <<"allotted", f.data[1]>> ELSE @]
           v == Returned(n, "OK", unanswered)
<1>1. Unready(c, u, sy, rs) /\ Same(s, u, {"commandPending", "tid"}) /\ u.tid = FALSE
  BY StoppedOK
<1>2. /\ u.trycount = s.trycount /\ u.tasks = s.tasks /\ u.rxcb = s.rxcb /\ u.mode = s.mode
      /\ u.cid = s.cid /\ u.rxframes = s.rxframes /\ u.closed = s.closed
  BY <1>1 DEF Same, Fields
<1> HIDE DEF u
<1>3. RecordOK(c, u)
  BY <1>1 DEF Unready, Base
<1>4. n.cid \in OwnCids(c) /\ n.cid # BROADCAST_CID
  <2>1. CASE s.mode = "init"
    <3>1. f.data[1] = c
      BY <2>1 DEF SentinelEquals
    <3>2. n.cid = <<"allotted", c>>
      BY <1>3, <2>1, <3>1 DEF RecordOK, Fields
    <3>3. QED
      BY <3>2 DEF OwnCids, BROADCAST_CID
  <2>2. CASE s.mode # "init"
    <3>1. n.cid = u.cid
      BY <1>3, <2>2 DEF RecordOK, Fields
    <3>2. QED
      BY <1>2, <1>3, <2>2, <3>1 DEF RecordOK
  <2>3. QED
    BY <2>1, <2>2
<1>5. Same(u, n, {"cid"})
  BY <1>3 DEF RecordOK, Same, Fields
<1> HIDE DEF n
<1>6. /\ n.trycount = s.trycount /\ n.tasks = s.tasks /\ n.rxcb = None /\ n.mode = s.mode
      /\ n.tid = FALSE /\ n.rxframes = s.rxframes /\ DOMAIN n = Fields
  BY <1>1, <1>2, <1>5 DEF Same, Fields
<1>7. Unready(c, n, sy, rs)
  <2>1. Same(u, n, IdleFields \cup {"cid", "mode", "tid"})
    BY <1>5 DEF Same
  <2>2. QED
    BY <1>1, <1>2, <1>3, <1>4, <1>6, <2>1, UnreadyAlike DEF RecordOK
<1>8. Free(n, sy) /\ (n.trycount = Tries - 1 => n.rxcb # "checkSentinel")
  BY <1>6 DEF Free, None
<1>9. Base(c, v, sy, rs) /\ ReadInv(c, v, sy)
  BY <1>7, <1>8, ReturnedOK
<1>10. RecordOK(c, n)
  BY <1>7 DEF Unready, Base
<1>11. /\ v.rxframes = s.rxframes /\ v.rxcb = None /\ v.cid = n.cid /\ v.closed = n.closed
       /\ v.mode = s.mode /\ v.tid = FALSE /\ v.leftover = (n.leftover \/ unanswered)
       /\ \A fns : NoTask(s.tasks, fns) => OneTask(v.tasks, fns)
       /\ NoTask(s.tasks, {"synced"}) => ChecksFirst(v.tasks)
       /\ OKFirst(v.tasks) => OKFirst(s.tasks) \/ NoTask(s.tasks, {"synced"})
  BY <1>6, <1>10, ReturnedFields
<1> HIDE DEF v
<1>12. ReadyInv(c, v, sy, w)
  <2> SUFFICES ASSUME Ready(v, sy)
               PROVE  InSync(c, v, sy) /\ ~v.reading /\ Quiet(c, v, w)
    BY DEF ReadyInv
  <2>1. ~n.closed /\ ~n.leftover /\ ~unanswered
    BY <1>11 DEF Ready
  <2>2. ~FirstOK(n, sy)
    BY <1>7, <2>1 DEF Unready, Ready
  <2>3. sy = <<>> /\ NoTask(s.tasks, {"synced"})
    BY <1>6, <1>11, <2>2 DEF Ready, FirstOK
  <2>4. InSync(c, v, sy)
    BY <1>4, <1>11, <2>3 DEF InSync, None
  <2>5. ~v.reading
    <3>1. v.op = 0 \/ ~(v.op > 0)
      BY <1>9, <2>3 DEF Base, OneExchange
    <3>2. v.reading \in BOOLEAN /\ v.op \in Nat /\ Len(rs) \in Nat
      BY <1>9, SeqFacts DEF Base, RecordOK, OneExchange
    <3>3. v.op = 0 /\ v.op = Len(rs) + (IF v.reading \/ ~NoTask(v.tasks, {"retryBusy"}) THEN 1 ELSE 0)
      BY <1>9, <3>1, <3>2 DEF Base, OneExchange
    <3>4. QED
      BY <3>2, <3>3
  <2>6. Quiet(c, v, w)
    BY <1>11, <2>1 DEF Quiet
  <2>7. QED
    BY <2>4, <2>5, <2>6
<1>13. ClientOK(c, v, sy, rs, w)
  BY <1>9, <1>12 DEF ClientOK
<1>14. SyncSucceeded(s, f, unanswered) = IfClosingWhenIdle(v)
  BY DEF SyncSucceeded, ReturnValue, Returned, v, n, u
<1>15. QED
  BY <1>13, <1>14, CloseOK

(***************************************************************************)
(* timeoutLoop: a sync that sends, and one that gives up.                  *)
(***************************************************************************)
LEMMA TryOK ==
    ASSUME NEW c, NEW s, NEW sy, NEW rs,
           Unready(c, s, sy, rs), s.mode # None, s.trycount > 0, s.trycount = Tries => sy = <<>>
    PROVE  Unready(c, Try(s), sy, rs)
<1> DEFINE u == [s EXCEPT !.trycount = @ - 1]
           v == Sending(u)
           n == NotifyFrame(v, "checkSentinel")
           t == [n EXCEPT !.tid = TRUE]
<1>1. RecordOK(c, s)
  BY DEF Unready, Base
<1>2. /\ DOMAIN u = Fields /\ u.rxframes = s.rxframes /\ u.rxcb = s.rxcb /\ u.tasks = s.tasks
      /\ u.cid = s.cid /\ u.closed = s.closed /\ u.dev = s.dev
      /\ u.op = s.op /\ u.reading = s.reading
      /\ u.msg = s.msg /\ u.mode = s.mode /\ u.trycount = s.trycount - 1 /\ u.tid = s.tid
      /\ u.leftover = s.leftover
  BY <1>1 DEF RecordOK, Fields
<1> HIDE DEF u
<1>3. Tries \in Nat /\ u.trycount \in 0..Tries /\ u.trycount # Tries
  BY <1>1, <1>2, TriesAssumption DEF RecordOK
<1>4. u.trycount = Tries - 1 => sy = <<>> /\ NoTask(u.tasks, SyncTasks) /\ u.rxcb # "checkSentinel"
  BY <1>1, <1>2, <1>3 DEF Unready, Base, RecordOK, ReportInv
<1>5. Unready(c, u, sy, rs)
  <2>1. RecordOK(c, u)
    BY <1>1, <1>2, <1>3 DEF RecordOK
  <2>2. OneRead(u) /\ OneExchange(u, sy, rs) /\ Reported(c, u, rs)
    BY <1>2 DEF Unready, Base, OneRead, OneExchange, Reported
  <2>3. ReportInv(u, sy)
    <3>1. NoTask(u.tasks, SyncTasks) => OneTask(u.tasks, SyncTasks)
      BY DEF NoTask, OneTask
    <3>2. QED
      BY <1>2, <1>3, <1>4, <3>1, EmptySequence DEF ReportInv
  <2>4. ReadInv(c, u, sy) /\ ~Ready(u, sy)
    BY <1>2 DEF Unready, ReadInv, Reading, Ready, FirstOK
  <2>5. QED
    BY <2>1, <2>2, <2>3, <2>4 DEF Unready, Base
<1>6. Unready(c, v, sy, rs) /\ Same(u, v, {"cid", "synccnt"})
  BY <1>2, <1>5, UnreadySends
<1>7. Free(v, sy) /\ v.trycount # Tries /\ DOMAIN v = Fields
  BY <1>3, <1>4, <1>6 DEF Free, Same, Fields
<1> HIDE DEF v
<1>8. Unready(c, n, sy, rs)
  BY <1>6, <1>7, UnreadyListens
<1>9. RecordOK(c, n) /\ Same(v, n, {"tasks", "rxcb"})
  BY <1>7, <1>8, NotifyFields DEF Unready, Base
<1>10. n.trycount # Tries
  BY <1>7, <1>9 DEF Same, Fields
<1> HIDE DEF n
<1>11. /\ Same(n, t, IdleFields \cup {"cid", "mode", "tid"})
       /\ t.cid = n.cid /\ t.mode = n.mode /\ t.tid = TRUE
  BY <1>9 DEF RecordOK, Same, Fields
<1> HIDE DEF t
<1>12. Unready(c, t, sy, rs)
  BY <1>8, <1>9, <1>10, <1>11, UnreadyAlike DEF RecordOK
<1>13. QED
  BY <1>12 DEF Try, t, n, v, u
-----------------------------------------------------------------------------
(***************************************************************************)
(* A client that reads, or is about to report, exchanges: it is in sync.   *)
(***************************************************************************)
LEMMA ExchangeSynced ==
    ASSUME NEW c, NEW s, NEW sy, NEW rs, Base(c, s, sy, rs),
           s.reading \/ ~NoTask(s.tasks, {"retryBusy"})
    PROVE  s.op = Len(rs) + 1 /\ sy # <<>> /\ sy[1] = "OK"
<1>1. s.op = Len(rs) + 1 /\ Len(rs) \in Nat
  BY SeqFacts DEF Base, OneExchange
<1>2. QED
  BY <1>1 DEF Base, OneExchange

(***************************************************************************)
(* A callback that reads a frame is taken from the tasks.                  *)
(***************************************************************************)
LEMMA PoppedOK ==
    ASSUME NEW c, NEW s, NEW sy, NEW rs, NEW w, ClientOK(c, s, sy, rs, w),
           s.tasks # <<>>, Head(s.tasks).fn \in ReadTasks \cup {"checkSentinel"}
    PROVE  LET t == [s EXCEPT !.tasks = Tail(@)] IN
           /\ ClientOK(c, t, sy, rs, w)
           /\ Head(s.tasks).fn \in ReadTasks =>
                NoTask(t.tasks, ReadTasks) /\ t.rxcb \notin ReadTasks /\ t.reading
           /\ Head(s.tasks).fn = "init_frame" /\ ~t.leftover => t.msg = NoData
           /\ Head(s.tasks).fn = "cont_frame" /\ ~t.leftover => t.msg # NoData
           /\ Head(s.tasks).fn = "checkSentinel" =>
                Free(t, sy) /\ (t.rxframes # <<>> => ~Ready(t, sy))
<1> DEFINE t == [s EXCEPT !.tasks = Tail(@)]
           fn == Head(s.tasks).fn
<1>1. RecordOK(c, s) /\ OneRead(s) /\ OneExchange(s, sy, rs) /\ Base(c, s, sy, rs)
  BY DEF ClientOK, Base
<1>2. /\ DOMAIN t = Fields /\ t.rxframes = s.rxframes /\ t.rxcb = s.rxcb
      /\ t.tasks = Tail(s.tasks)
      /\ t.cid = s.cid /\ t.closed = s.closed /\ t.dev = s.dev
      /\ t.op = s.op /\ t.reading = s.reading
      /\ t.msg = s.msg /\ t.mode = s.mode /\ t.trycount = s.trycount /\ t.tid = s.tid
      /\ t.leftover = s.leftover
  BY <1>1 DEF RecordOK, Fields
<1> HIDE DEF t
<1>3. /\ IsSeq(t.tasks)
      /\ \A fns : NoTask(s.tasks, fns) => NoTask(t.tasks, fns) /\ fn \notin fns
      /\ \A fns : NoTask(t.tasks, fns) /\ fn \notin fns => NoTask(s.tasks, fns)
      /\ \A fns : OneTask(s.tasks, fns) => OneTask(t.tasks, fns)
      /\ \A fns : OneTask(s.tasks, fns) /\ fn \in fns => NoTask(t.tasks, fns)
      /\ ChecksFirst(s.tasks) => ChecksFirst(t.tasks)
      /\ OKFirst(t.tasks) /\ fn # "synced" => OKFirst(s.tasks)
      /\ \A data : Replies(s.tasks, data) => Replies(t.tasks, data)
  BY <1>1, <1>2, TasksTail DEF RecordOK
<1>4. fn # "retryBusy" /\ fn # "synced"
  BY DEF ReadTasks
<1> HIDE DEF fn
<1>5. RecordOK(c, t)
  BY <1>1, <1>2, <1>3 DEF RecordOK
<1>6. OneRead(t)
  BY <1>1, <1>2, <1>3 DEF OneRead
<1>7. OneExchange(t, sy, rs)
  BY <1>1, <1>2, <1>3, <1>4 DEF OneExchange
<1>8. Reported(c, t, rs)
  BY <1>2 DEF ClientOK, Base, Reported
<1>9. ReportInv(t, sy)
  BY <1>2, <1>3 DEF ClientOK, Base, ReportInv
<1>10. ReadyInv(c, t, sy, w)
  <2> SUFFICES ASSUME Ready(t, sy)
               PROVE  InSync(c, t, sy) /\ IF t.reading THEN Arriving(c, t, w) ELSE Quiet(c, t, w)
    BY DEF ReadyInv
  <2>1. Ready(s, sy)
    BY <1>2, <1>3, <1>4 DEF Ready, FirstOK
  <2>2. InSync(c, t, sy)
    BY <1>2, <1>3, <2>1 DEF ClientOK, ReadyInv, InSync
  <2>3. IF t.reading THEN Arriving(c, t, w) ELSE Quiet(c, t, w)
    BY <1>2, <2>1 DEF ClientOK, ReadyInv, Arriving, OnlyCommand, Quiet
  <2>4. QED
    BY <2>2, <2>3
<1>11. ReadInv(c, t, sy)
  <2>1. ASSUME t.reading, ~t.leftover PROVE Reading(c, t, sy)
    <3>1. Reading(c, s, sy)
      BY <1>2, <2>1 DEF ClientOK, ReadInv
    <3>2. sy # <<>>
      BY <1>1, <1>2, <2>1, ExchangeSynced
    <3>3. Ready(s, sy) => Ready(t, sy)
      BY <1>2, <3>2 DEF Ready, FirstOK
    <3>4. QED
      BY <1>2, <1>3, <3>1, <3>3 DEF Reading
  <2>2. ASSUME ~t.leftover PROVE Replies(t.tasks, <<c, t.op>>)
    BY <1>2, <1>3, <2>2 DEF ClientOK, ReadInv
  <2>3. QED
    BY <2>1, <2>2 DEF ReadInv
<1>12. ASSUME fn \in ReadTasks
       PROVE  NoTask(t.tasks, ReadTasks) /\ t.rxcb \notin ReadTasks /\ t.reading
  <2>1. ~NoTask(s.tasks, ReadTasks)
    BY <1>3, <1>12
  <2>2. s.reading \in BOOLEAN
    BY <1>1 DEF RecordOK
  <2>3. QED
    BY <1>1, <1>2, <1>3, <1>12, <2>1, <2>2 DEF OneRead
<1>13. ASSUME fn \in ReadTasks, ~t.leftover
       PROVE  /\ fn = "init_frame" => t.msg = NoData
              /\ fn = "cont_frame" => t.msg # NoData
  <2>1. Reading(c, s, sy)
    BY <1>2, <1>12, <1>13 DEF ClientOK, ReadInv
  <2>2. ~NoTask(s.tasks, {fn})
    BY <1>3
  <2>3. QED
    BY <1>2, <2>1, <2>2 DEF Reading
<1>14. ASSUME fn = "checkSentinel" PROVE Free(t, sy) /\ (t.rxframes # <<>> => ~Ready(t, sy))
  <2>1. fn \in SyncTasks /\ ~NoTask(s.tasks, SyncTasks)
    BY <1>3, <1>14 DEF SyncTasks
  <2>2. Free(t, sy)
    BY <1>2, <1>3, <2>1 DEF ClientOK, Base, ReportInv, Free
  <2>3. ASSUME Ready(t, sy) PROVE t.rxframes = <<>>
    <3>1. Ready(s, sy)
      BY <1>2, <1>3, <1>4, <2>3 DEF Ready, FirstOK
    <3>2. sy = <<>>
      BY <2>1, <3>1 DEF ClientOK, ReadyInv, InSync
    <3>3. ~s.reading
      BY <1>1, <3>2, ExchangeSynced
    <3>4. QED
      BY <1>2, <3>1, <3>3 DEF ClientOK, ReadyInv, Quiet
  <2>4. QED
    BY <2>2, <2>3
<1>15. QED
  BY <1>5, <1>6, <1>7, <1>8, <1>9, <1>10, <1>11, <1>12, <1>13, <1>14
     DEF ClientOK, Base, t, fn, ReadTasks

(***************************************************************************)
(* A read that ends, and one that waits for a frame.                       *)
(***************************************************************************)
LEMMA ScheduleCbOK ==
    ASSUME NEW c, NEW s, NEW sy, NEW rs, NEW w, NEW rc, NEW data,
           Base(c, s, sy, rs), s.reading,
           Ready(s, sy) => InSync(c, s, sy) /\ Quiet(c, s, w),
           rc = "OK" /\ ~s.leftover => data = <<c, s.op>>
    PROVE  ClientOK(c, ScheduleCb(s, rc, data), sy, rs, w)
<1> DEFINE e == [fn |-> "retryBusy", rc |-> rc, data |-> data]
           d == DropRead(s.tasks)
           v == [s EXCEPT !.commandPending = FALSE, !.reading = FALSE, !.msg = NoData,
                          !.rxcb = IF @ \in ReadTasks THEN None ELSE @,
                          !.tasks = Append(DropRead(@), e)]
<1>1. RecordOK(c, s) /\ OneRead(s) /\ OneExchange(s, sy, rs)
  BY DEF Base
<1>2. /\ DOMAIN v = Fields /\ v.rxframes = s.rxframes
      /\ v.rxcb \in {None, s.rxcb} /\ v.rxcb \notin ReadTasks
      /\ v.tasks = Append(d, e)
      /\ v.cid = s.cid /\ v.closed = s.closed /\ v.dev = s.dev
      /\ v.op = s.op /\ v.reading = FALSE
      /\ v.msg = NoData /\ v.mode = s.mode /\ v.trycount = s.trycount /\ v.tid = s.tid
      /\ v.leftover = s.leftover
  BY <1>1 DEF RecordOK, Fields, ReadTasks, None
<1> HIDE DEF v, d
<1>3. e.fn = "retryBusy" /\ e.rc = rc /\ e.data = data
  OBVIOUS
<1> HIDE DEF e
<1>4. /\ IsSeq(d) /\ NoTask(d, ReadTasks)
      /\ \A fns : NoTask(s.tasks, fns) => NoTask(d, fns)
      /\ \A fns : OneTask(s.tasks, fns) => OneTask(d, fns)
      /\ ChecksFirst(s.tasks) => ChecksFirst(d)
  BY <1>1, TasksDrop DEF RecordOK, OneRead, d
<1>5. /\ IsSeq(v.tasks)
      /\ \A fns : NoTask(v.tasks, fns) <=> NoTask(d, fns) /\ e.fn \notin fns
      /\ \A fns : OneTask(d, fns) /\ e.fn \notin fns => OneTask(v.tasks, fns)
      /\ \A fns : NoTask(d, fns) => OneTask(v.tasks, fns)
      /\ ChecksFirst(d) /\ e.fn # "checkSentinel" => ChecksFirst(v.tasks)
      /\ \A x : Replies(d, x) /\ (e.fn = "retryBusy" /\ e.rc = "OK" => e.data = x)
                     => Replies(v.tasks, x)
  BY <1>2, <1>4, TasksAppend
<1>6. NoTask(s.tasks, {"retryBusy"}) /\ NoTask(d, {"retryBusy"}) /\ \A x : Replies(d, x)
  <2>1. NoTask(s.tasks, {"retryBusy"})
    BY <1>1 DEF OneExchange
  <2>2. NoTask(d, {"retryBusy"})
    BY <1>4, <2>1
  <2>3. QED
    BY <2>1, <2>2 DEF NoTask, Replies
<1>7. s.op = Len(rs) + 1 /\ sy # <<>>
  BY ExchangeSynced
<1>8. RecordOK(c, v)
  BY <1>1, <1>2, <1>5 DEF RecordOK
<1>9. OneRead(v)
  <2>1. NoTask(v.tasks, ReadTasks)
    BY <1>3, <1>4, <1>5 DEF ReadTasks
  <2>2. OneTask(v.tasks, ReadTasks)
    BY <2>1 DEF NoTask, OneTask
  <2>3. QED
    BY <1>2, <2>1, <2>2 DEF OneRead
<1>10. OneExchange(v, sy, rs)
  <2>1. ~NoTask(v.tasks, {"retryBusy"}) /\ OneTask(v.tasks, {"retryBusy"})
    BY <1>3, <1>5, <1>6
  <2>2. QED
    BY <1>1, <1>2, <1>7, <2>1 DEF OneExchange
<1>11. Reported(c, v, rs)
  BY <1>2 DEF Base, Reported
<1>12. ReportInv(v, sy)
  <2>1. "retryBusy" \notin SyncTasks /\ None # "checkSentinel"
    BY DEF SyncTasks, None
  <2>2. /\ NoTask(s.tasks, SyncTasks) => NoTask(v.tasks, SyncTasks)
        /\ OneTask(s.tasks, SyncTasks) => OneTask(v.tasks, SyncTasks)
    BY <1>3, <1>4, <1>5, <2>1
  <2>3. QED
    BY <1>2, <2>1, <2>2 DEF Base, ReportInv
<1>13. ReadyInv(c, v, sy, w)
  <2> SUFFICES ASSUME Ready(v, sy) PROVE InSync(c, v, sy) /\ Quiet(c, v, w)
    BY <1>2 DEF ReadyInv
  <2>1. Ready(s, sy)
    BY <1>2, <1>7 DEF Ready, FirstOK
  <2>2. Quiet(c, v, w)
    BY <1>2, <2>1 DEF Quiet
  <2>3. "retryBusy" \notin SyncTasks /\ None # "checkSentinel"
    BY DEF SyncTasks, None
  <2>4. /\ NoTask(s.tasks, SyncTasks) => NoTask(v.tasks, SyncTasks)
        /\ OneTask(s.tasks, {"synced"}) => OneTask(v.tasks, {"synced"})
        /\ ChecksFirst(s.tasks) => ChecksFirst(v.tasks)
    BY <1>3, <1>4, <1>5, <2>3
  <2>5. InSync(c, v, sy)
    BY <1>2, <2>1, <2>3, <2>4 DEF InSync
  <2>6. QED
    BY <2>2, <2>5
<1>14. ReadInv(c, v, sy)
  <2>1. ASSUME ~v.leftover PROVE Replies(v.tasks, <<c, v.op>>)
    BY <1>2, <1>3, <1>5, <1>6, <2>1
  <2>2. QED
    BY <1>2, <2>1 DEF ReadInv
<1>15. ClientOK(c, v, sy, rs, w)
  BY <1>8, <1>9, <1>10, <1>11, <1>12, <1>13, <1>14 DEF ClientOK, Base
<1>16. ScheduleCb(s, rc, data) = IfClosingWhenIdle(v)
  BY DEF ScheduleCb, v, e
<1>17. QED
  BY <1>15, <1>16, CloseOK

LEMMA ReadsOn ==
    ASSUME NEW c, NEW s, NEW sy, NEW rs, NEW w, NEW fn \in ReadTasks,
           Base(c, s, sy, rs), s.reading, NoTask(s.tasks, ReadTasks), s.rxcb \notin ReadTasks,
           Ready(s, sy) => InSync(c, s, sy) /\ Arriving(c, s, w),
           ~s.leftover =>
             /\ s.closed \/ Ready(s, sy)
             /\ OwnFrames(s.rxframes, <<c, s.op>>)
             /\ fn = "init_frame" => s.msg = NoData
             /\ fn = "cont_frame" => s.msg = <<c, s.op>>
    PROVE  ClientOK(c, NotifyFrame(s, fn), sy, rs, w)
<1> DEFINE t == NotifyFrame(s, fn)
           e == Task(fn)
<1>1. RecordOK(c, s) /\ OneRead(s) /\ OneExchange(s, sy, rs) /\ DOMAIN s = Fields
  BY DEF Base, RecordOK
<1>2. /\ Same(s, t, {"tasks", "rxcb"})
      /\ s.rxframes = <<>> => t.rxcb = fn /\ t.tasks = s.tasks
      /\ s.rxframes # <<>> => t.rxcb = s.rxcb /\ t.tasks = Append(s.tasks, e)
  BY <1>1, NotifyFields
<1>3. /\ DOMAIN t = Fields /\ t.rxframes = s.rxframes
      /\ t.cid = s.cid /\ t.closed = s.closed /\ t.dev = s.dev
      /\ t.op = s.op /\ t.reading = s.reading
      /\ t.msg = s.msg /\ t.mode = s.mode /\ t.trycount = s.trycount /\ t.tid = s.tid
      /\ t.leftover = s.leftover
  BY <1>2 DEF Fields, Same
<1> HIDE DEF t
<1>4. e.fn = fn /\ fn \in {"init_frame", "cont_frame"}
  BY DEF Task, ReadTasks
<1> HIDE DEF e
<1>5. sy # <<>> /\ (Ready(t, sy) <=> Ready(s, sy))
  BY <1>3, ExchangeSynced DEF Ready, FirstOK
<1>6. Arriving(c, s, w) => Arriving(c, t, w)
  BY <1>3 DEF Arriving, OnlyCommand
<1>7. NoData # <<c, s.op>>
  BY DEF NoData
<1>8. CASE s.rxframes = <<>>
  <2>1. t.rxcb = fn /\ t.tasks = s.tasks
    BY <1>2, <1>8
  <2>2. RecordOK(c, t)
    BY <1>1, <1>3, <1>8, <2>1 DEF RecordOK
  <2>3. OneRead(t) /\ OneExchange(t, sy, rs) /\ Reported(c, t, rs)
    BY <1>3, <2>1 DEF Base, OneRead, OneExchange, Reported
  <2>4. ReportInv(t, sy)
    BY <1>3, <1>4, <2>1 DEF Base, ReportInv
  <2>5. ReadyInv(c, t, sy, w)
    BY <1>3, <1>4, <1>5, <1>6, <2>1 DEF ReadyInv, InSync
  <2>6. ReadInv(c, t, sy)
    <3>1. NoTask(t.tasks, {"init_frame"}) /\ NoTask(t.tasks, {"cont_frame"})
          /\ NoTask(t.tasks, {"retryBusy"})
      BY <1>1, <2>1 DEF NoTask, ReadTasks, OneExchange
    <3>2. \A x : Replies(t.tasks, x)
      BY <3>1 DEF NoTask, Replies
    <3>3. QED
      BY <1>3, <1>4, <1>5, <1>7, <2>1, <3>1, <3>2 DEF ReadInv, Reading
  <2>7. QED
    BY <2>2, <2>3, <2>4, <2>5, <2>6 DEF ClientOK, Base, t
<1>9. CASE s.rxframes # <<>>
  <2>1. t.rxcb = None /\ s.rxcb = None /\ t.tasks = Append(s.tasks, e)
    BY <1>1, <1>2, <1>9 DEF RecordOK
  <2>2. /\ IsSeq(t.tasks)
        /\ \A fns : NoTask(t.tasks, fns) <=> NoTask(s.tasks, fns) /\ fn \notin fns
        /\ \A fns : OneTask(s.tasks, fns) /\ fn \notin fns => OneTask(t.tasks, fns)
        /\ \A fns : NoTask(s.tasks, fns) => OneTask(t.tasks, fns)
        /\ ChecksFirst(s.tasks) => ChecksFirst(t.tasks)
    <3>1. IsSeq(s.tasks)
      BY <1>1 DEF RecordOK
    <3>2. /\ IsSeq(t.tasks)
          /\ \A fns : NoTask(t.tasks, fns) <=> NoTask(s.tasks, fns) /\ e.fn \notin fns
          /\ \A fns : OneTask(s.tasks, fns) /\ e.fn \notin fns => OneTask(t.tasks, fns)
          /\ \A fns : NoTask(s.tasks, fns) => OneTask(t.tasks, fns)
          /\ ChecksFirst(s.tasks) /\ e.fn # "checkSentinel" => ChecksFirst(t.tasks)
      BY <2>1, <3>1, TasksAppend
    <3>3. QED
      BY <1>4, <3>2
  <2>3. "init_frame" \notin SyncTasks /\ "cont_frame" \notin SyncTasks /\ fn \notin SyncTasks
    BY <1>4 DEF SyncTasks
  <2>4. RecordOK(c, t)
    BY <1>1, <1>3, <2>1, <2>2 DEF RecordOK
  <2>5. OneRead(t)
    BY <1>3, <2>1, <2>2 DEF OneRead, ReadTasks, None
  <2>6. OneExchange(t, sy, rs) /\ Reported(c, t, rs)
    BY <1>3, <1>4, <2>2 DEF Base, OneExchange, Reported
  <2>7. ReportInv(t, sy)
    BY <1>3, <2>1, <2>2, <2>3 DEF Base, ReportInv, None
  <2>8. ReadyInv(c, t, sy, w)
    <3>1. InSync(c, s, sy) => InSync(c, t, sy)
      BY <1>3, <1>4, <2>1, <2>2, <2>3 DEF InSync
    <3>2. QED
      BY <1>3, <1>5, <1>6, <3>1 DEF ReadyInv
  <2>9. ReadInv(c, t, sy)
    <3>1. NoTask(s.tasks, {"init_frame"}) /\ NoTask(s.tasks, {"cont_frame"})
          /\ NoTask(t.tasks, {"retryBusy"})
      BY <1>1, <1>4, <2>2 DEF NoTask, ReadTasks, OneExchange
    <3>2. \A x : Replies(t.tasks, x)
      BY <3>1 DEF NoTask, Replies
    <3>3. /\ fn = "init_frame" => NoTask(t.tasks, {"cont_frame"})
          /\ fn = "cont_frame" => NoTask(t.tasks, {"init_frame"})
      BY <2>2, <3>1
    <3>4. QED
      BY <1>3, <1>4, <1>5, <1>7, <2>1, <3>2, <3>3 DEF ReadInv, Reading, None
  <2>10. QED
    BY <2>4, <2>5, <2>6, <2>7, <2>8, <2>9 DEF ClientOK, Base, t
<1>10. QED
  BY <1>8, <1>9

(***************************************************************************)
(* init_frame and cont_frame, of a read that is the client's only task.    *)
(***************************************************************************)
TookFrame(c, s, t, sy, rs) ==
    /\ Base(c, t, sy, rs) /\ t.reading /\ t.rxcb = None
    /\ t.tasks = s.tasks /\ t.op = s.op /\ t.leftover = s.leftover /\ t.cid = s.cid
    /\ Ready(t, sy) => Ready(s, sy)
    /\ t.closed = s.closed => (Ready(t, sy) <=> Ready(s, sy))
    /\ InSync(c, s, sy) => InSync(c, t, sy)
    /\ Len(t.rxframes) = Len(s.rxframes) - 1
    /\ t.rxframes = <<>> <=> Len(s.rxframes) = 1
    /\ Len(s.rxframes) = 2 => Len(t.rxframes) = 1 /\ t.rxframes[1] = s.rxframes[2]
    /\ \A data : OwnFrames(s.rxframes, data) =>
         /\ OwnFrames(t.rxframes, data)
         /\ Head(s.rxframes).kind # "error" => Head(s.rxframes).data = data
    /\ FrameOK(Head(s.rxframes)) /\ Head(s.rxframes) = s.rxframes[1]

LEMMA FrameTaken ==
    ASSUME NEW c, NEW s, NEW t, NEW sy, NEW rs, Base(c, s, sy, rs), s.reading,
           s.rxframes # <<>>,
           Same(s, t, {"rxframes", "closed", "msg"}), t.rxframes = Tail(s.rxframes),
           t.closed \in BOOLEAN, s.closed => t.closed
    PROVE  TookFrame(c, s, t, sy, rs)
<1>1. RecordOK(c, s)
  BY DEF Base
<1>2. /\ DOMAIN t = Fields
      /\ t.cid = s.cid /\ t.dev = s.dev
      /\ t.rxcb = s.rxcb /\ t.tasks = s.tasks /\ t.op = s.op /\ t.reading = s.reading
      /\ t.mode = s.mode /\ t.trycount = s.trycount /\ t.tid = s.tid
      /\ t.leftover = s.leftover
  BY DEF Same, Fields
<1>3. /\ IsSeq(s.rxframes) /\ Len(s.rxframes) \in Nat
      /\ Head(s.rxframes) = s.rxframes[1] /\ 1 \in DOMAIN s.rxframes
  BY <1>1, SeqFacts DEF RecordOK
<1>4. /\ IsSeq(t.rxframes) /\ Len(t.rxframes) = Len(s.rxframes) - 1
      /\ DOMAIN t.rxframes = 1..(Len(s.rxframes) - 1)
      /\ \A i \in DOMAIN t.rxframes : t.rxframes[i] = s.rxframes[i + 1] /\ i + 1 \in DOMAIN s.rxframes
  BY <1>3, TailFacts
<1>5. t.rxframes = <<>> <=> Len(t.rxframes) = 0
  BY <1>4, SeqFacts
<1>6. s.rxcb = None /\ s.dev
  BY <1>1 DEF RecordOK
<1>7. RecordOK(c, t)
  BY <1>1, <1>2, <1>4, <1>6 DEF RecordOK
<1>8. OneRead(t) /\ OneExchange(t, sy, rs) /\ Reported(c, t, rs) /\ ReportInv(t, sy)
  BY <1>2 DEF Base, OneRead, OneExchange, Reported, ReportInv
<1>9. /\ Ready(t, sy) => Ready(s, sy)
      /\ t.closed = s.closed => (Ready(t, sy) <=> Ready(s, sy))
  BY <1>1, <1>2 DEF Ready, FirstOK, RecordOK
<1>10. InSync(c, s, sy) => InSync(c, t, sy)
  BY <1>2 DEF InSync
<1>11. \A data : OwnFrames(s.rxframes, data) =>
         /\ OwnFrames(t.rxframes, data)
         /\ Head(s.rxframes).kind # "error" => Head(s.rxframes).data = data
  BY <1>3, <1>4 DEF OwnFrames
<1>12. Len(s.rxframes) = 2 => Len(t.rxframes) = 1 /\ t.rxframes[1] = s.rxframes[2]
  BY <1>4
<1>13. FrameOK(Head(s.rxframes))
  BY <1>1, <1>3 DEF RecordOK
<1>14. t.rxframes = <<>> <=> Len(s.rxframes) = 1
  BY <1>3, <1>4, <1>5
<1>15. QED
  BY <1>2, <1>3, <1>4, <1>6, <1>7, <1>8, <1>9, <1>10, <1>11, <1>12, <1>13, <1>14
     DEF Base, TookFrame

Awaits(c, s, sy, rs, w) ==
    /\ ClientOK(c, s, sy, rs, w)
    /\ NoTask(s.tasks, ReadTasks) /\ s.rxcb \notin ReadTasks /\ s.reading

LEMMA ReadErrorOK ==
    ASSUME NEW c, NEW s, NEW sy, NEW rs, NEW w, Awaits(c, s, sy, rs, w), s.rxframes # <<>>,
           Head(s.rxframes).kind = "error"
    PROVE  ClientOK(c, ReadError([s EXCEPT !.rxframes = Tail(@)], Head(s.rxframes)), sy, rs, w)
<1> DEFINE f == Head(s.rxframes)
           t == [s EXCEPT !.rxframes = Tail(@)]
           u == [t EXCEPT !.closed = @ \/ f.code = "GONE"]
<1>1. Base(c, s, sy, rs) /\ RecordOK(c, s) /\ s.reading
  BY DEF Awaits, ClientOK, Base
<1>2. /\ Same(s, u, {"rxframes", "closed", "msg"}) /\ u.rxframes = Tail(s.rxframes)
      /\ u.closed \in BOOLEAN /\ (s.closed => u.closed)
  BY <1>1 DEF RecordOK, Same, Fields
<1> HIDE DEF u
<1>3. /\ Base(c, u, sy, rs) /\ u.reading /\ u.leftover = s.leftover /\ u.op = s.op
      /\ Ready(u, sy) => Ready(s, sy)
      /\ InSync(c, s, sy) => InSync(c, u, sy)
      /\ u.rxframes = <<>> <=> Len(s.rxframes) = 1
      /\ FrameOK(f) /\ f = s.rxframes[1]
  BY <1>1, <1>2, FrameTaken DEF TookFrame
<1>4. f.code # "OK"
  BY <1>3 DEF FrameOK
<1>5. ASSUME Ready(u, sy) PROVE InSync(c, u, sy) /\ Quiet(c, u, w)
  <2>1. InSync(c, s, sy) /\ Arriving(c, s, w)
    BY <1>1, <1>3, <1>5 DEF Awaits, ClientOK, ReadyInv
  <2>2. SentBy(c, w) = {} /\ Len(s.rxframes) = 1
    BY <1>3, <2>1 DEF Arriving, FirstPart, LastPart
  <2>3. QED
    BY <1>3, <2>1, <2>2 DEF Quiet
<1>6. ClientOK(c, ScheduleCb(u, f.code, NoData), sy, rs, w)
  BY <1>3, <1>4, <1>5, ScheduleCbOK
<1>7. QED
  BY <1>6 DEF ReadError, u, t

LEMMA InitFrameOK ==
    ASSUME NEW c, NEW s, NEW sy, NEW rs, NEW w, Awaits(c, s, sy, rs, w),
           ~s.leftover => s.msg = NoData
    PROVE  ClientOK(c, InitFrame(s), sy, rs, w)
<1> DEFINE f == Head(s.rxframes)
           t == [s EXCEPT !.rxframes = Tail(@)]
           u == [t EXCEPT !.msg = f.data]
<1>1. CASE s.rxframes = <<>>
  BY <1>1 DEF InitFrame, Awaits
<1>2. CASE s.rxframes # <<>>
  <2>1. Base(c, s, sy, rs) /\ RecordOK(c, s) /\ s.reading /\ ReadInv(c, s, sy)
    BY DEF Awaits, ClientOK, Base
  <2>2. /\ Same(s, t, {"rxframes", "closed", "msg"}) /\ t.rxframes = Tail(s.rxframes)
        /\ t.closed = s.closed /\ s.closed \in BOOLEAN /\ t.msg = s.msg
        /\ Same(s, u, {"rxframes", "closed", "msg"}) /\ u.rxframes = Tail(s.rxframes)
        /\ u.closed = s.closed /\ u.msg = f.data
    BY <2>1 DEF RecordOK, Same, Fields
  <2> HIDE DEF t, u
  <2>3. /\ Base(c, t, sy, rs) /\ t.reading /\ t.rxcb = None
        /\ t.tasks = s.tasks /\ t.op = s.op /\ t.leftover = s.leftover
        /\ Ready(t, sy) <=> Ready(s, sy)
        /\ InSync(c, s, sy) => InSync(c, t, sy)
        /\ t.rxframes = <<>> <=> Len(s.rxframes) = 1
        /\ OwnFrames(s.rxframes, <<c, s.op>>) =>
             OwnFrames(t.rxframes, <<c, s.op>>) /\ (f.kind # "error" => f.data = <<c, s.op>>)
        /\ FrameOK(f) /\ f = s.rxframes[1]
    <3>1. TookFrame(c, s, t, sy, rs)
      BY <1>2, <2>1, <2>2, FrameTaken
    <3>2. QED
      BY <2>2, <3>1 DEF TookFrame
  <2>4. /\ Base(c, u, sy, rs) /\ u.reading /\ u.rxcb = None
        /\ u.tasks = s.tasks /\ u.op = s.op /\ u.leftover = s.leftover /\ u.cid = s.cid
        /\ Ready(u, sy) <=> Ready(s, sy)
        /\ InSync(c, s, sy) => InSync(c, u, sy)
        /\ u.rxframes = <<>> <=> Len(s.rxframes) = 1
        /\ Len(s.rxframes) = 2 => Len(u.rxframes) = 1 /\ u.rxframes[1] = s.rxframes[2]
        /\ OwnFrames(s.rxframes, <<c, s.op>>) => OwnFrames(u.rxframes, <<c, s.op>>)
    <3>1. TookFrame(c, s, u, sy, rs)
      BY <1>2, <2>1, <2>2, FrameTaken
    <3>2. QED
      BY <2>2, <3>1 DEF TookFrame
  <2>5. NoData # <<c, s.op>> /\ None \notin ReadTasks
    BY DEF NoData, None, ReadTasks
  <2>6. Ready(s, sy) => InSync(c, s, sy) /\ Arriving(c, s, w) /\ s.msg = NoData
    BY <2>1 DEF Awaits, ClientOK, ReadyInv, Ready
  <2>7. ~s.leftover => (s.closed \/ Ready(s, sy)) /\ OwnFrames(s.rxframes, <<c, s.op>>)
    BY <2>1 DEF ReadInv, Reading
  <2>8. CASE f.kind = "error"
    BY <1>2, <2>8, ReadErrorOK DEF InitFrame
  <2>9. CASE f.kind \notin {"error", "apdu"}
    <3>1. ~Ready(s, sy)
      BY <1>2, <2>3, <2>5, <2>6, <2>9 DEF Arriving, FirstPart
    <3>2. ~t.leftover => t.closed /\ OwnFrames(t.rxframes, <<c, t.op>>) /\ t.msg = NoData
      BY <2>2, <2>3, <2>7, <3>1
    <3>3. NoTask(t.tasks, ReadTasks) /\ t.rxcb \notin ReadTasks /\ ~Ready(t, sy)
      BY <2>3, <2>5, <3>1 DEF Awaits
    <3>4. ClientOK(c, NotifyFrame(t, "init_frame"), sy, rs, w)
      BY <2>3, <3>2, <3>3, ReadsOn DEF ReadTasks
    <3>5. QED
      BY <1>2, <2>9, <3>4 DEF InitFrame, t
  <2>10. CASE f.kind = "apdu" /\ ~f.more
    <3>1. ASSUME Ready(t, sy) PROVE InSync(c, t, sy) /\ Quiet(c, t, w)
      <4>1. SentBy(c, w) = {} /\ Len(s.rxframes) = 1
        BY <1>2, <2>3, <2>5, <2>6, <2>10, <3>1 DEF Arriving, FirstPart, LastPart
      <4>2. QED
        BY <2>3, <2>6, <3>1, <4>1 DEF Quiet
    <3>2. ~t.leftover => f.data = <<c, t.op>>
      BY <2>3, <2>7, <2>10
    <3>3. ClientOK(c, ScheduleCb(t, "OK", f.data), sy, rs, w)
      BY <2>3, <3>1, <3>2, ScheduleCbOK
    <3>4. QED
      BY <1>2, <2>10, <3>3 DEF InitFrame, t
  <2>11. CASE f.kind = "apdu" /\ f.more
    <3>1. ~u.leftover =>
            (u.closed \/ Ready(u, sy)) /\ OwnFrames(u.rxframes, <<c, u.op>>) /\ u.msg = <<c, u.op>>
      BY <2>2, <2>3, <2>4, <2>7, <2>11
    <3>2. NoTask(u.tasks, ReadTasks) /\ u.rxcb \notin ReadTasks
      BY <2>4, <2>5 DEF Awaits
    <3>3. ASSUME Ready(u, sy) PROVE InSync(c, u, sy) /\ Arriving(c, u, w)
      <4>1. u.msg = <<c, u.op>>
        BY <3>1, <3>3 DEF Ready
      <4>2. \/ OnlyCommand(c, s, w, "cont") /\ Len(s.rxframes) = 1
            \/ SentBy(c, w) = {} /\ Len(s.rxframes) = 2 /\ LastPart(s.rxframes[2])
        BY <1>2, <2>3, <2>4, <2>5, <2>6, <2>11, <3>3 DEF Arriving, FirstPart, LastPart
      <4>3. OnlyCommand(c, s, w, "cont") => OnlyCommand(c, u, w, "cont")
        BY <2>4 DEF OnlyCommand
      <4>4. Arriving(c, u, w)
        BY <2>4, <4>1, <4>2, <4>3 DEF Arriving
      <4>5. QED
        BY <2>4, <2>6, <3>3, <4>4
    <3>4. ClientOK(c, NotifyFrame(u, "cont_frame"), sy, rs, w)
      BY <2>4, <3>1, <3>2, <3>3, ReadsOn DEF ReadTasks
    <3>5. QED
      BY <1>2, <2>11, <3>4 DEF InitFrame, t, u
  <2>12. QED
    BY <2>8, <2>9, <2>10, <2>11
<1>3. QED
  BY <1>1, <1>2

LEMMA ContFrameOK ==
    ASSUME NEW c, NEW s, NEW sy, NEW rs, NEW w, Awaits(c, s, sy, rs, w),
           ~s.leftover => s.msg # NoData
    PROVE  ClientOK(c, ContFrame(s), sy, rs, w)
<1> DEFINE f == Head(s.rxframes)
           t == [s EXCEPT !.rxframes = Tail(@)]
           data == IF f.data = s.msg THEN f.data ELSE s.msg \o f.data
<1>1. CASE s.rxframes = <<>>
  BY <1>1 DEF ContFrame, Awaits
<1>2. CASE s.rxframes # <<>>
  <2>1. Base(c, s, sy, rs) /\ RecordOK(c, s) /\ s.reading /\ ReadInv(c, s, sy)
    BY DEF Awaits, ClientOK, Base
  <2>2. /\ Same(s, t, {"rxframes", "closed", "msg"}) /\ t.rxframes = Tail(s.rxframes)
        /\ t.closed = s.closed /\ s.closed \in BOOLEAN /\ t.msg = s.msg
    BY <2>1 DEF RecordOK, Same, Fields
  <2> HIDE DEF t
  <2>3. /\ Base(c, t, sy, rs) /\ t.reading /\ t.rxcb = None
        /\ t.tasks = s.tasks /\ t.op = s.op /\ t.leftover = s.leftover
        /\ Ready(t, sy) <=> Ready(s, sy)
        /\ InSync(c, s, sy) => InSync(c, t, sy)
        /\ t.rxframes = <<>> <=> Len(s.rxframes) = 1
        /\ OwnFrames(s.rxframes, <<c, s.op>>) =>
             OwnFrames(t.rxframes, <<c, s.op>>) /\ (f.kind # "error" => f.data = <<c, s.op>>)
        /\ FrameOK(f) /\ f = s.rxframes[1]
    <3>1. TookFrame(c, s, t, sy, rs)
      BY <1>2, <2>1, <2>2, FrameTaken
    <3>2. QED
      BY <2>2, <3>1 DEF TookFrame
  <2>4. None \notin ReadTasks
    BY DEF None, ReadTasks
  <2>5. ~s.leftover => /\ s.closed \/ Ready(s, sy)
                       /\ OwnFrames(s.rxframes, <<c, s.op>>)
                       /\ s.msg = <<c, s.op>>
    BY <2>1 DEF ReadInv, Reading
  <2>6. Ready(s, sy) => InSync(c, s, sy) /\ Arriving(c, s, w) /\ s.msg # NoData
    BY <2>1 DEF Awaits, ClientOK, ReadyInv, Ready
  <2>7. Ready(s, sy) => SentBy(c, w) = {} /\ Len(s.rxframes) = 1 /\ LastPart(f)
    BY <1>2, <2>3, <2>6 DEF Arriving
  <2>8. CASE f.kind = "error"
    BY <1>2, <2>8, ReadErrorOK DEF ContFrame
  <2>9. CASE f.kind \in {"apdu", "sync", "init"}
    <3>1. ~Ready(s, sy)
      BY <2>7, <2>9 DEF LastPart
    <3>2. ~t.leftover => t.closed /\ OwnFrames(t.rxframes, <<c, t.op>>) /\ t.msg = <<c, t.op>>
      BY <2>2, <2>3, <2>5, <3>1
    <3>3. NoTask(t.tasks, ReadTasks) /\ t.rxcb \notin ReadTasks /\ ~Ready(t, sy)
      BY <2>3, <2>4, <3>1 DEF Awaits
    <3>4. ClientOK(c, NotifyFrame(t, "cont_frame"), sy, rs, w)
      BY <2>3, <3>2, <3>3, ReadsOn DEF ReadTasks
    <3>5. QED
      BY <1>2, <2>9, <3>4 DEF ContFrame, t
  <2>10. CASE f.kind = "badcont"
    <3>1. Ready(t, sy) => InSync(c, t, sy) /\ Quiet(c, t, w)
      BY <2>3, <2>6, <2>7 DEF Quiet
    <3>2. ClientOK(c, ScheduleCb(t, "INVALID_SEQ", NoData), sy, rs, w)
      BY <2>3, <3>1, ScheduleCbOK
    <3>3. QED
      BY <1>2, <2>10, <3>2 DEF ContFrame, t
  <2>11. CASE f.kind = "cont"
    <3>1. Ready(t, sy) => InSync(c, t, sy) /\ Quiet(c, t, w)
      BY <2>3, <2>6, <2>7 DEF Quiet
    <3>2. ~t.leftover => data = <<c, t.op>>
      BY <2>3, <2>5, <2>11
    <3> HIDE DEF data
    <3>3. ClientOK(c, ScheduleCb(t, "OK", data), sy, rs, w)
      BY <2>3, <3>1, <3>2, ScheduleCbOK
    <3>4. QED
      BY <1>2, <2>11, <3>3 DEF ContFrame, t, data
  <2>12. QED
    BY <2>3, <2>8, <2>9, <2>10, <2>11 DEF FrameOK, CommandKinds
<1>3. QED
  BY <1>1, <1>2
-----------------------------------------------------------------------------
(***************************************************************************)
(* No client that is closed opens again.                                   *)
(***************************************************************************)
Stays(s, t) == DOMAIN t = Fields /\ (s.closed => t.closed)

LEMMA SameStays ==
    ASSUME NEW s, NEW t, NEW changed, Same(s, t, changed), "closed" \notin changed
    PROVE  Stays(s, t)
BY DEF Same, Stays, Fields

LEMMA CloseStays ==
    ASSUME NEW s, DOMAIN s = Fields
    PROVE  Stays(s, Close(s)) /\ Stays(s, IfClosingWhenIdle(s)) /\ Stays(s, CloseWhenIdle(s))
<1>1. DOMAIN Close(s) = Fields /\ Close(s).closed = TRUE
  BY CloseFields DEF Same
<1>2. Stays(s, IdleClose(s))
  BY <1>1 DEF IdleClose, Stays, Fields
<1>3. Stays(s, [Close(s) EXCEPT !.notified = @ + 1])
  BY <1>1 DEF Stays, Fields
<1>4. Stays(s, s) /\ Stays(s, [s EXCEPT !.closingWhenIdle = TRUE, !.notifyOnClose = @ + 1])
  BY DEF Stays, Fields
<1>5. QED
  BY <1>1, <1>2, <1>3, <1>4 DEF IfClosingWhenIdle, CloseWhenIdle, Stays

LEMMA StaysTransitive ==
    ASSUME NEW s, NEW t, NEW u, Stays(s, t), Stays(t, u)
    PROVE  Stays(s, u)
BY DEF Stays

LEMMA FunctionsStay ==
    ASSUME NEW s, DOMAIN s = Fields
    PROVE  /\ \A fn : Stays(s, NotifyFrame(s, fn))
           /\ \A rc, data : Stays(s, ScheduleCb(s, rc, data))
           /\ \A rc, unanswered : Stays(s, ReturnValue(s, rc, unanswered))
           /\ Stays(s, Sending(s)) /\ Stays(s, Stopped(s)) /\ Stays(s, Try(s))
<1>1. \A fn : Stays(s, NotifyFrame(s, fn))
  BY NotifyFields, SameStays
<1>2. ASSUME NEW rc, NEW data PROVE Stays(s, ScheduleCb(s, rc, data))
  <2> DEFINE t == [s EXCEPT !.commandPending = FALSE, !.reading = FALSE, !.msg = NoData,
                            !.rxcb = IF @ \in ReadTasks THEN None ELSE @,
                            !.tasks = Append(DropRead(@),
                                             [fn |-> "retryBusy", rc |-> rc, data |-> data])]
  <2>1. Stays(s, t)
    BY DEF Stays, Fields
  <2>2. Stays(t, IfClosingWhenIdle(t))
    BY <2>1, CloseStays DEF Stays
  <2>3. ScheduleCb(s, rc, data) = IfClosingWhenIdle(t)
    BY DEF ScheduleCb
  <2>4. QED
    BY <2>1, <2>2, <2>3, StaysTransitive
<1>3. ASSUME NEW rc, NEW unanswered PROVE Stays(s, ReturnValue(s, rc, unanswered))
  <2> DEFINE t == [s EXCEPT !.done = TRUE, !.leftover = @ \/ unanswered,
                            !.tasks = Append(@, [fn |-> "synced", rc |-> rc, data |-> NoData])]
  <2>1. Stays(s, t)
    BY DEF Stays, Fields
  <2>2. Stays(t, IfClosingWhenIdle(t))
    BY <2>1, CloseStays DEF Stays
  <2>3. ReturnValue(s, rc, unanswered) = IfClosingWhenIdle(t)
    BY DEF ReturnValue
  <2>4. QED
    BY <2>1, <2>2, <2>3, StaysTransitive
<1>4. \A t : DOMAIN t = Fields => Stays(t, Sending(t))
  BY DEF Stays, Sending, Fields
<1>5. Stays(s, Stopped(s))
  BY DEF Stays, Stopped, Fields
<1>6. Stays(s, Try(s))
  <2> DEFINE u == [s EXCEPT !.trycount = @ - 1]
             v == Sending(u)
             n == NotifyFrame(v, "checkSentinel")
  <2>1. Stays(s, u)
    BY DEF Stays, Fields
  <2>2. Stays(u, v)
    BY <1>4, <2>1 DEF Stays
  <2> HIDE DEF v
  <2>3. Stays(v, n)
    BY <2>2, NotifyFields, SameStays DEF Stays
  <2> HIDE DEF n
  <2>4. Stays(n, [n EXCEPT !.tid = TRUE])
    BY <2>3 DEF Stays, Fields
  <2>5. Stays(s, [n EXCEPT !.tid = TRUE])
    BY <2>1, <2>2, <2>3, <2>4, StaysTransitive
  <2>6. QED
    BY <2>5 DEF Try, n, v, u
<1>7. QED
  BY <1>1, <1>2, <1>3, <1>4, <1>5, <1>6

LEMMA ReadStays ==
    ASSUME NEW s, DOMAIN s = Fields, s.rxframes # <<>> => FrameOK(Head(s.rxframes))
    PROVE  Stays(s, InitFrame(s)) /\ Stays(s, ContFrame(s))
<1> DEFINE f == Head(s.rxframes)
           t == [s EXCEPT !.rxframes = Tail(@)]
           u == [t EXCEPT !.closed = @ \/ f.code = "GONE"]
           v == [t EXCEPT !.msg = f.data]
<1>1. Stays(s, s) /\ Stays(s, t) /\ Stays(s, u) /\ Stays(s, v)
  BY DEF Stays, Fields
<1>2. /\ Stays(s, ReadError(t, f))
      /\ \A rc, data : Stays(s, ScheduleCb(t, rc, data))
      /\ \A fn : Stays(s, NotifyFrame(t, fn)) /\ Stays(s, NotifyFrame(v, fn))
  <2>1. DOMAIN t = Fields /\ DOMAIN u = Fields /\ DOMAIN v = Fields
    BY <1>1 DEF Stays
  <2>2. ReadError(t, f) = ScheduleCb(u, f.code, NoData)
    BY DEF ReadError
  <2> HIDE DEF t, u, v
  <2>3. QED
    BY <1>1, <2>1, <2>2, FunctionsStay, StaysTransitive
<1>3. Stays(s, InitFrame(s))
  <2>1. InitFrame(s) \in {s, ReadError(t, f), NotifyFrame(t, "init_frame"),
                          ScheduleCb(t, "OK", f.data), NotifyFrame(v, "cont_frame")}
    BY DEF InitFrame
  <2>2. QED
    BY <1>1, <1>2, <2>1
<1>4. Stays(s, ContFrame(s))
  <2> DEFINE data == IF f.data = s.msg THEN f.data ELSE s.msg \o f.data
  <2>1. ContFrame(s) \in {s, ReadError(t, f), NotifyFrame(t, "cont_frame"),
                          ScheduleCb(t, "INVALID_SEQ", NoData), ScheduleCb(t, "OK", data)}
    <3>1. CASE s.rxframes = <<>>
      BY <3>1 DEF ContFrame
    <3>2. CASE s.rxframes # <<>>
      <4>1. f.kind \in {"init", "sync", "apdu", "cont", "badcont", "error"}
        BY <3>2 DEF FrameOK, CommandKinds
      <4>2. CASE f.kind = "error"
        BY <3>2, <4>2 DEF ContFrame
      <4>3. CASE f.kind \in {"apdu", "sync", "init"}
        BY <3>2, <4>3 DEF ContFrame
      <4>4. CASE f.kind = "badcont"
        BY <3>2, <4>4 DEF ContFrame
      <4>5. CASE f.kind = "cont"
        BY <3>2, <4>5 DEF ContFrame
      <4>6. QED
        BY <4>1, <4>2, <4>3, <4>4, <4>5
    <3>3. QED
      BY <3>1, <3>2
  <2> HIDE DEF f, t, v, data
  <2>2. QED
    BY <1>1, <1>2, <2>1
<1>5. QED
  BY <1>3, <1>4
-----------------------------------------------------------------------------
(***************************************************************************)
(* The commands of a client, when the wire changes at its ends for another.*)
(***************************************************************************)
Keeps(c, w, x) ==
    /\ SentBy(c, w) = {} => SentBy(c, x) = {}
    /\ \A s, kind : OnlyCommand(c, s, w, kind) => OnlyCommand(c, s, x, kind)

LEMMA KeepsOK ==
    ASSUME NEW c, NEW s, NEW sy, NEW rs, NEW w, NEW x,
           ClientOK(c, s, sy, rs, w), Keeps(c, w, x)
    PROVE  ClientOK(c, s, sy, rs, x)
<1>1. Arriving(c, s, w) => Arriving(c, s, x)
  BY DEF Keeps, Arriving
<1>2. Quiet(c, s, w) => Quiet(c, s, x)
  BY DEF Keeps, Quiet
<1>3. QED
  BY <1>1, <1>2 DEF ClientOK, ReadyInv

LEMMA KeepsSame ==
    ASSUME NEW c, NEW w
    PROVE  Keeps(c, w, w)
BY DEF Keeps

LEMMA WireShifts ==
    ASSUME NEW c, NEW w, NEW x,
           \A i \in SentBy(c, w) : \E j \in SentBy(c, x) : x[j] = w[i],
           SentBy(c, x) # {} => SentBy(c, w) # {},
           \A j, k \in SentBy(c, x) : j # k => \E i, l \in SentBy(c, w) : i # l
    PROVE  Keeps(c, w, x)
<1>1. ASSUME NEW s, NEW kind, OnlyCommand(c, s, w, kind)
      PROVE  OnlyCommand(c, s, x, kind)
  <2>1. PICK i \in DOMAIN w :
          /\ SentBy(c, w) = {i}
          /\ w[i].cid = s.cid /\ w[i].kind = kind /\ w[i].data = <<c, s.op>>
    BY <1>1 DEF OnlyCommand
  <2>2. PICK j \in SentBy(c, x) : x[j] = w[i]
    BY <2>1
  <2>3. SentBy(c, x) = {j} /\ j \in DOMAIN x
    BY <2>1, <2>2 DEF SentBy
  <2>4. QED
    BY <2>1, <2>2, <2>3 DEF OnlyCommand
<1>2. QED
  BY <1>1 DEF Keeps

Grows(w, x, e) ==
    /\ IsSeq(x) /\ DOMAIN x = 1..(Len(w) + 1)
    /\ \A i \in DOMAIN w : x[i] = w[i]
    /\ x[Len(w) + 1] = e

LEMMA WireEnd ==
    ASSUME NEW w, IsSeq(w), NEW e
    PROVE  Grows(w, w \o <<e>>, e)
<1>1. PICK z : z = <<e>> /\ IsSeq(z) /\ Len(z) = 1 /\ z[1] = e /\ DOMAIN z = 1..1
  BY OneElement
<1>2. PICK x : x = w \o z
  OBVIOUS
<1>3. /\ IsSeq(x) /\ DOMAIN x = 1..(Len(w) + Len(z))
      /\ \A i \in DOMAIN w : x[i] = w[i]
      /\ \A i \in 1..Len(z) : x[Len(w) + i] = z[i]
  <2>1. Concats(w, z, x)
    BY <1>1, <1>2, ConcatFacts
  <2>2. QED
    BY <2>1 DEF Concats
<1>4. 1 \in 1..Len(z)
  BY <1>1
<1>5. x[Len(w) + 1] = e
  BY <1>1, <1>3, <1>4
<1>6. IsSeq(x) /\ DOMAIN x = 1..(Len(w) + 1) /\ \A i \in DOMAIN w : x[i] = w[i]
  BY <1>1, <1>3
<1>7. Grows(w, x, e)
  BY <1>5, <1>6 DEF Grows
<1>8. x = w \o <<e>>
  BY <1>1, <1>2
<1>9. QED
  BY <1>7, <1>8

OnlyEntry(c, x, e) == \E i \in DOMAIN x : SentBy(c, x) = {i} /\ x[i] = e

LEMMA WireGrows ==
    ASSUME NEW w, IsSeq(w), NEW e, NEW x, Grows(w, x, e)
    PROVE  /\ \A c : e.from # c => Keeps(c, w, x)
           /\ \A c : e.from = c /\ SentBy(c, w) = {} => OnlyEntry(c, x, e)
           /\ IsSeq(x)
           /\ \A i \in DOMAIN x : x[i] = e \/ (i \in DOMAIN w /\ x[i] = w[i])
<1>1. /\ IsSeq(x) /\ Len(w) \in Nat /\ DOMAIN w = 1..Len(w) /\ DOMAIN x = 1..(Len(w) + 1)
      /\ \A i \in DOMAIN w : x[i] = w[i]
      /\ x[Len(w) + 1] = e
  BY SeqFacts DEF Grows
<1>2. ASSUME NEW c, e.from # c PROVE Keeps(c, w, x)
  <2>1. \A i \in SentBy(c, x) : i \in SentBy(c, w)
    BY <1>1, <1>2 DEF SentBy
  <2>2. \A i \in SentBy(c, w) : i \in SentBy(c, x) /\ x[i] = w[i]
    BY <1>1 DEF SentBy
  <2>3. QED
    BY <2>1, <2>2, WireShifts
<1>3. ASSUME NEW c, e.from = c, SentBy(c, w) = {}
      PROVE  OnlyEntry(c, x, e)
  <2>1. ASSUME NEW i \in DOMAIN x PROVE x[i].from = c <=> i = Len(w) + 1
    <3>1. i = Len(w) + 1 \/ (i \in DOMAIN w /\ x[i] = w[i] /\ i # Len(w) + 1)
      BY <1>1
    <3>2. QED
      BY <1>1, <1>3, <3>1 DEF SentBy
  <2>2. Len(w) + 1 \in DOMAIN x
    BY <1>1
  <2>3. SentBy(c, x) = {Len(w) + 1}
    BY <2>1, <2>2 DEF SentBy
  <2>4. QED
    BY <1>1, <2>2, <2>3 DEF OnlyEntry
<1>4. QED
  BY <1>1, <1>2, <1>3

LEMMA WireShrinks ==
    ASSUME NEW w, IsSeq(w), w # <<>>
    PROVE  /\ \A c : Head(w).from # c => Keeps(c, w, Tail(w))
           /\ \A c : SentBy(c, w) = {1} => SentBy(c, Tail(w)) = {}
           /\ IsSeq(Tail(w)) /\ Head(w) = w[1] /\ 1 \in DOMAIN w
           /\ \A i \in DOMAIN Tail(w) : i + 1 \in DOMAIN w /\ Tail(w)[i] = w[i + 1]
<1> DEFINE x == Tail(w)
<1>1. /\ Len(w) \in Nat /\ DOMAIN w = 1..Len(w) /\ Head(w) = w[1] /\ 1 \in DOMAIN w
      /\ IsSeq(x) /\ DOMAIN x = 1..(Len(w) - 1)
      /\ \A i \in DOMAIN x : x[i] = w[i + 1] /\ i + 1 \in DOMAIN w
  BY SeqFacts, TailFacts
<1> HIDE DEF x
<1>2. ASSUME NEW c, Head(w).from # c PROVE Keeps(c, w, x)
  <2>1. \A i \in SentBy(c, x) : i + 1 \in SentBy(c, w)
    BY <1>1 DEF SentBy
  <2>2. ASSUME NEW i \in SentBy(c, w) PROVE i - 1 \in SentBy(c, x) /\ x[i - 1] = w[i]
    <3>1. i \in DOMAIN w /\ i # 1 /\ w[i].from = c
      BY <1>1, <1>2 DEF SentBy
    <3>2. i - 1 \in DOMAIN x /\ (i - 1) + 1 = i
      BY <1>1, <3>1
    <3>3. QED
      BY <1>1, <3>1, <3>2 DEF SentBy
  <2>3. SentBy(c, x) \subseteq Int
    BY <1>1 DEF SentBy
  <2>4. \A j, k \in SentBy(c, x) : j # k => j + 1 # k + 1
    BY <2>3
  <2>5. QED
    BY <2>1, <2>2, <2>4, WireShifts
<1>3. ASSUME NEW c, SentBy(c, w) = {1} PROVE SentBy(c, x) = {}
  <2>1. ASSUME NEW i \in DOMAIN x, x[i].from = c PROVE FALSE
    <3>1. i + 1 \in SentBy(c, w) /\ i \in Nat /\ i >= 1
      BY <1>1, <2>1 DEF SentBy
    <3>2. QED
      BY <1>3, <3>1
  <2>2. QED
    BY <2>1 DEF SentBy
<1>4. QED
  BY <1>1, <1>2, <1>3 DEF x

Continues(w, x, e) ==
    /\ \A c : e.from # c => Keeps(c, w, x)
    /\ \A c : SentBy(c, w) = {1} => SentBy(c, x) = {1}
    /\ IsSeq(x) /\ 1 \in DOMAIN x /\ x[1] = e
    /\ \A i \in DOMAIN x : i = 1 \/ (i \in DOMAIN w /\ x[i] = w[i])

LEMMA WireContinues ==
    ASSUME NEW w, IsSeq(w), w # <<>>, NEW e, e.from = Head(w).from
    PROVE  Continues(w, <<e>> \o Tail(w), e)
<1>0. PICK t : t = Tail(w)
  OBVIOUS
<1>1. PICK z : z = <<e>> /\ IsSeq(z) /\ Len(z) = 1 /\ z[1] = e /\ DOMAIN z = 1..1
  BY OneElement
<1>2. /\ Len(w) \in Nat /\ DOMAIN w = 1..Len(w) /\ Head(w) = w[1] /\ 1 \in DOMAIN w
      /\ IsSeq(t) /\ DOMAIN t = 1..(Len(w) - 1) /\ Len(t) = Len(w) - 1
      /\ \A i \in DOMAIN t : t[i] = w[i + 1] /\ i + 1 \in DOMAIN w
  BY <1>0, SeqFacts, TailFacts
<1>3. PICK x : x = z \o t
  OBVIOUS
<1>4. /\ IsSeq(x) /\ DOMAIN x = 1..(Len(z) + Len(t))
      /\ \A i \in DOMAIN z : x[i] = z[i]
      /\ \A i \in 1..Len(t) : x[Len(z) + i] = t[i]
  <2>1. Concats(z, t, x)
    BY <1>1, <1>2, <1>3, ConcatFacts
  <2>2. QED
    BY <2>1 DEF Concats
<1>5. DOMAIN x = DOMAIN w /\ x[1] = e
  <2>1. 1 \in DOMAIN z
    BY <1>1
  <2>2. x[1] = z[1]
    BY <1>4, <2>1
  <2>3. DOMAIN x = 1..(Len(z) + Len(t))
    BY <1>4
  <2>4. Len(z) + Len(t) = Len(w)
    BY <1>1, <1>2
  <2>5. QED
    BY <1>1, <1>2, <2>2, <2>3, <2>4
<1>6. ASSUME NEW i \in DOMAIN x, i # 1 PROVE x[i] = w[i]
  <2>1. i - 1 \in DOMAIN t /\ 1 + (i - 1) = i /\ (i - 1) + 1 = i
    BY <1>2, <1>5, <1>6
  <2>2. x[i] = t[i - 1]
    BY <1>1, <1>4, <2>1
  <2>3. QED
    BY <1>2, <2>1, <2>2
<1>7. \A c : SentBy(c, x) = SentBy(c, w)
  BY <1>2, <1>5, <1>6 DEF SentBy
<1>8. ASSUME NEW c, e.from # c PROVE Keeps(c, w, x)
  <2>1. \A i \in SentBy(c, w) : i # 1 /\ i \in DOMAIN x /\ x[i] = w[i]
    BY <1>2, <1>5, <1>6, <1>8 DEF SentBy
  <2>2. QED
    BY <1>7, <2>1, WireShifts
<1>9. IsSeq(x) /\ 1 \in DOMAIN x
  BY <1>2, <1>4, <1>5
<1>10. Continues(w, x, e)
  BY <1>2, <1>5, <1>6, <1>7, <1>8, <1>9 DEF Continues
<1>11. x = <<e>> \o Tail(w)
  BY <1>0, <1>1, <1>3
<1>12. QED
  BY <1>10, <1>11
-----------------------------------------------------------------------------
(***************************************************************************)
(* A step of one client, and what it sends.                                *)
(***************************************************************************)
OthersKeep(c) == \A d \in OwnClients : d # c => Keeps(d, wire, wire')

LEMMA SendsNothing ==
    ASSUME WireOK, Sends(<<>>)
    PROVE  wire' = wire
<1>1. IsSeq(wire)
  BY DEF WireOK
<1>2. PICK S : wire \in Seq(S)
  BY <1>1 DEF IsSeq
<1>3. wire \o <<>> = wire
  BY <1>2
<1>4. QED
  BY <1>3 DEF Sends

LEMMA SendsOK ==
    ASSUME WireOK, dead => wire = <<>>, NEW o \in OwnClients \cup Others, NEW cmd,
           cmd.cid \in OwnCids(o) \cup {BROADCAST_CID}, cmd.kind \in CommandKinds,
           Sends(By(o, cmd))
    PROVE  WireOK' /\ (dead => wire' = <<>>) /\ OthersKeep(o)
<1> DEFINE e == [from |-> o, cid |-> cmd.cid, kind |-> cmd.kind, data |-> cmd.data]
<1>1. /\ DOMAIN e = {"from", "cid", "kind", "data"}
      /\ e.from = o /\ e.cid = cmd.cid /\ e.kind = cmd.kind
  OBVIOUS
<1>2. IsSeq(wire)
  BY DEF WireOK
<1>3. wire' = IF dead THEN wire ELSE wire \o <<e>>
  BY DEF Sends, By
<1> HIDE DEF e
<1>4. CASE dead
  BY <1>3, <1>4, KeepsSame DEF WireOK, OthersKeep
<1>5. CASE ~dead
  <2>1. Grows(wire, wire', e)
    BY <1>2, <1>3, <1>5, WireEnd
  <2>2. /\ \A c : e.from # c => Keeps(c, wire, wire')
        /\ IsSeq(wire')
        /\ \A i \in DOMAIN wire' : wire'[i] = e \/ (i \in DOMAIN wire /\ wire'[i] = wire[i])
    BY <1>2, <2>1, WireGrows
  <2>3. WireOK'
    BY <1>1, <2>2 DEF WireOK
  <2>4. QED
    BY <1>1, <1>5, <2>2, <2>3 DEF OthersKeep
<1>6. QED
  BY <1>4, <1>5

LEMMA ClientSteps ==
    ASSUME ClientInv, NEW c \in OwnClients, NEW t, Becomes(c, t),
           DOMAIN synced' = OwnClients, DOMAIN results' = OwnClients,
           \A d \in OwnClients : d # c => synced'[d] = synced[d] /\ results'[d] = results[d],
           WireOK', OthersKeep(c), dead => wire' = <<>>, UNCHANGED <<members, dead>>,
           ClientOK(c, t, synced'[c], results'[c], wire'), Stays(gnubby[c], t)
    PROVE  ClientInv'
<1>1. DOMAIN gnubby' = OwnClients /\ gnubby'[c] = t /\ \A d \in OwnClients : d # c => gnubby'[d] = gnubby[d]
  BY DEF ClientInv, Becomes
<1>2. \A d \in OwnClients : ClientOK(d, gnubby'[d], synced'[d], results'[d], wire')
  <2>1. ASSUME NEW d \in OwnClients, d # c
        PROVE  ClientOK(d, gnubby'[d], synced'[d], results'[d], wire')
    <3>1. ClientOK(d, gnubby[d], synced[d], results[d], wire)
      BY DEF ClientInv
    <3>2. Keeps(d, wire, wire')
      BY <2>1 DEF OthersKeep
    <3>3. ClientOK(d, gnubby[d], synced[d], results[d], wire')
      BY <3>1, <3>2, KeepsOK
    <3>4. QED
      BY <1>1, <2>1, <3>3
  <2>2. QED
    BY <1>1, <2>1
<1>3. DeviceOK'
  <2>1. \A d \in OwnClients : gnubby[d].closed => gnubby'[d].closed
    BY <1>1 DEF Stays
  <2>2. DeviceOK
    BY DEF ClientInv
  <2>3. QED
    BY <2>1, <2>2 DEF DeviceOK
<1>4. QED
  BY <1>1, <1>2, <1>3 DEF ClientInv

\* Of a step that sends nothing, and reports nothing.
LEMMA QuietSteps ==
    ASSUME ClientInv, NEW c \in OwnClients, NEW t, Becomes(c, t),
           UNCHANGED <<members, dead, wire, synced, results>>,
           ClientOK(c, t, synced[c], results[c], wire), Stays(gnubby[c], t)
    PROVE  ClientInv'
<1>1. OthersKeep(c)
  BY KeepsSame DEF OthersKeep
<1>2. /\ DOMAIN synced' = OwnClients /\ DOMAIN results' = OwnClients
      /\ WireOK' /\ (dead => wire' = <<>>)
  BY DEF ClientInv, WireOK, DeviceOK
<1>3. ClientOK(c, t, synced'[c], results'[c], wire')
  OBVIOUS
<1>4. QED
  BY <1>1, <1>2, <1>3, ClientSteps

LEMMA ClientFacts ==
    ASSUME ClientInv, NEW c \in OwnClients
    PROVE  /\ ClientOK(c, gnubby[c], synced[c], results[c], wire)
           /\ Base(c, gnubby[c], synced[c], results[c])
           /\ RecordOK(c, gnubby[c]) /\ DOMAIN gnubby[c] = Fields
           /\ DOMAIN synced = OwnClients /\ DOMAIN results = OwnClients
           /\ WireOK /\ DeviceOK /\ (dead => wire = <<>>)
BY DEF ClientInv, ClientOK, Base, RecordOK, DeviceOK
-----------------------------------------------------------------------------
(***************************************************************************)
(* The callbacks, the timers and the calls of a client.                    *)
(***************************************************************************)
LEMMA PoppedStays ==
    ASSUME NEW c \in OwnClients, DOMAIN gnubby[c] = Fields
    PROVE  Stays(gnubby[c], Popped(c))
BY DEF Popped, Stays, Fields

LEMMA ReadFrameOK ==
    ASSUME ClientInv, NEW c \in OwnClients, ReadFrame(c)
    PROVE  ClientInv'
<1> DEFINE s == gnubby[c]
           p == Popped(c)
<1>1. ClientOK(c, s, synced[c], results[c], wire) /\ DOMAIN s = Fields
  BY ClientFacts
<1>2. UNCHANGED <<members, dead, wire, synced, results>>
  BY DEF ReadFrame, deviceVars
<1>3. Due(c, "init_frame") \/ Due(c, "cont_frame")
  BY DEF ReadFrame
<1>4. s.tasks # <<>> /\ Head(s.tasks).fn \in {"init_frame", "cont_frame"}
  BY <1>3 DEF Due
<1>5. /\ Awaits(c, p, synced[c], results[c], wire)
      /\ Head(s.tasks).fn = "init_frame" /\ ~p.leftover => p.msg = NoData
      /\ Head(s.tasks).fn = "cont_frame" /\ ~p.leftover => p.msg # NoData
  BY <1>1, <1>4, PoppedOK DEF Popped, Awaits, ReadTasks
<1>6. Stays(s, p) /\ DOMAIN p = Fields
  BY <1>1, PoppedStays DEF Stays
<1>7. p.rxframes # <<>> => FrameOK(Head(p.rxframes))
  <2>1. RecordOK(c, p)
    BY <1>5 DEF Awaits, ClientOK, Base
  <2>2. QED
    BY <2>1, SeqFacts DEF RecordOK
<1>8. Stays(s, InitFrame(p)) /\ Stays(s, ContFrame(p))
  BY <1>6, <1>7, ReadStays, StaysTransitive
<1>9. CASE Due(c, "init_frame") /\ Becomes(c, InitFrame(p))
  <2>1. ClientOK(c, InitFrame(p), synced[c], results[c], wire)
    BY <1>5, <1>9, InitFrameOK DEF Due
  <2>2. QED
    BY <1>2, <1>8, <1>9, <2>1, QuietSteps
<1>10. CASE Due(c, "cont_frame") /\ Becomes(c, ContFrame(p))
  <2>1. ClientOK(c, ContFrame(p), synced[c], results[c], wire)
    BY <1>5, <1>10, ContFrameOK DEF Due
  <2>2. QED
    BY <1>2, <1>8, <1>10, <2>1, QuietSteps
<1>11. QED
  BY <1>9, <1>10 DEF ReadFrame

LEMMA SyncStays ==
    ASSUME NEW c, NEW s, DOMAIN s = Fields
    PROVE  /\ \A rc, unanswered : Stays(s, SyncFailed(c, s, rc, unanswered))
           /\ \A f, unanswered : Stays(s, SyncSucceeded(s, f, unanswered))
           /\ Stays(s, Unsupported(c, s))
<1> DEFINE u == Stopped(s)
<1>1. Stays(s, u) /\ DOMAIN u = Fields
  BY FunctionsStay DEF Stays
<1> HIDE DEF u
<1>2. ASSUME NEW rc, NEW unanswered PROVE Stays(s, SyncFailed(c, s, rc, unanswered))
  <2> DEFINE t == ReturnValue(u, rc, unanswered)
  <2>1. Stays(s, t)
    BY <1>1, FunctionsStay, StaysTransitive
  <2> HIDE DEF t
  <2>2. Stays(s, [t EXCEPT !.cid = RandomChannelId(c), !.mode = "sync"])
    BY <2>1 DEF Stays, Fields
  <2>3. QED
    BY <2>1, <2>2 DEF SyncFailed, t, u
<1>3. ASSUME NEW f, NEW unanswered PROVE Stays(s, SyncSucceeded(s, f, unanswered))
  <2> DEFINE t == [u EXCEPT !.cid = IF s.mode = "init" THEN <<"allotted", f.data[1]>> ELSE @]
  <2>1. Stays(s, t) /\ DOMAIN t = Fields
    BY <1>1 DEF Stays, Fields
  <2>2. SyncSucceeded(s, f, unanswered) = ReturnValue(t, "OK", unanswered)
    BY DEF SyncSucceeded, u
  <2> HIDE DEF t
  <2>3. QED
    BY <2>1, <2>2, FunctionsStay, StaysTransitive
<1>4. Stays(s, Unsupported(c, s))
  <2>1. Stays(s, [u EXCEPT !.cid = RandomChannelId(c), !.mode = "sync"])
    BY <1>1 DEF Stays, Fields
  <2>2. QED
    BY <2>1 DEF Unsupported, u
<1>5. QED
  BY <1>2, <1>3, <1>4

LEMMA SentinelOK ==
    ASSUME NEW c, NEW s, NEW sy, NEW rs, Unready(c, s, sy, rs), s.mode # None
    PROVE  /\ Sentinel(c, s).cid \in OwnCids(c) \cup {BROADCAST_CID}
           /\ Sentinel(c, s).kind \in CommandKinds
<1>1. RecordOK(c, Sending(s)) /\ RecordOK(c, s)
  BY UnreadySends DEF Unready, Base
<1>2. Sentinel(c, s).cid = Sending(s).cid /\ Sentinel(c, s).kind = s.mode
  BY DEF Sentinel
<1>3. QED
  BY <1>1, <1>2 DEF RecordOK, CommandKinds

LEMMA TimeoutLoopOK ==
    ASSUME ClientInv, NEW c \in OwnClients, NEW s, Unready(c, s, synced[c], results[c]),
           s.mode # None, s.trycount = Tries => synced[c] = <<>>, Stays(gnubby[c], s),
           TimeoutLoop(c, s), UNCHANGED <<members, dead, synced, results>>
    PROVE  ClientInv'
<1> DEFINE sy == synced[c]
           rs == results[c]
<1>1. RecordOK(c, s) /\ DOMAIN s = Fields /\ Tries \in Nat \ {0, 1}
  BY TriesAssumption DEF Unready, Base, RecordOK
<1>2. /\ DOMAIN synced' = OwnClients /\ DOMAIN results' = OwnClients
      /\ synced'[c] = sy /\ results'[c] = rs /\ WireOK /\ (dead => wire = <<>>)
  BY ClientFacts
<1>3. CASE Becomes(c, s) /\ Sends(<<>>)
  <2>1. wire' = wire
    BY <1>2, <1>3, SendsNothing
  <2>2. ClientOK(c, s, sy, rs, wire)
    BY UnreadyOK
  <2>3. QED
    BY <1>3, <2>1, <2>2, QuietSteps
<1>4. CASE /\ s.trycount = 0
           /\ Becomes(c, SyncFailed(c, s, "TIMEOUT", Outstanding(c, s)))
           /\ Sends(<<>>)
  <2> DEFINE t == SyncFailed(c, s, "TIMEOUT", Outstanding(c, s))
  <2>1. wire' = wire
    BY <1>2, <1>4, SendsNothing
  <2>2. Free(s, sy) /\ s.trycount # Tries - 1
    BY <1>1, <1>4 DEF Free
  <2>3. Outstanding(c, s) \in BOOLEAN
    BY DEF Outstanding
  <2>4. ClientOK(c, t, sy, rs, wire)
    BY <2>2, <2>3, SyncFailedOK
  <2>5. Stays(gnubby[c], t)
    BY <1>1, SyncStays, StaysTransitive
  <2> HIDE DEF t
  <2>6. QED
    BY <1>4, <2>1, <2>4, <2>5, QuietSteps DEF t
<1>5. CASE /\ s.trycount > 0
           /\ Becomes(c, Try(s))
           /\ Sends(By(c, Sentinel(c, s)))
  <2>1. Unready(c, Try(s), sy, rs)
    BY <1>5, TryOK
  <2>2. ClientOK(c, Try(s), sy, rs, wire')
    BY <2>1, UnreadyOK
  <2>3. WireOK' /\ (dead => wire' = <<>>) /\ OthersKeep(c)
    BY <1>2, <1>5, SentinelOK, SendsOK
  <2>4. Stays(gnubby[c], Try(s))
    BY <1>1, FunctionsStay, StaysTransitive
  <2>5. QED
    BY <1>2, <1>5, <2>2, <2>3, <2>4, ClientSteps
<1>6. QED
  BY <1>3, <1>4, <1>5 DEF TimeoutLoop

LEMMA SyncTimeoutOK ==
    ASSUME ClientInv, NEW c \in OwnClients, SyncTimeout(c)
    PROVE  ClientInv'
<1> DEFINE s == gnubby[c]
           t == [s EXCEPT !.tid = FALSE]
<1>1. ClientOK(c, s, synced[c], results[c], wire) /\ RecordOK(c, s)
  BY ClientFacts
<1>2. s.tid /\ TimeoutLoop(c, t) /\ UNCHANGED <<members, dead, synced, results>>
  BY DEF SyncTimeout
<1>3. s.mode # None /\ s.trycount # Tries
  BY <1>1, <1>2 DEF ClientOK, Base, ReportInv
<1>4. Unready(c, s, synced[c], results[c])
  BY <1>1, <1>2 DEF ClientOK, ReadyInv, InSync, Unready
<1>5. /\ Same(s, t, IdleFields \cup {"cid", "mode", "tid"}) /\ t.tid = FALSE
      /\ t.mode = s.mode /\ t.cid = s.cid /\ t.trycount = s.trycount
      /\ Stays(s, t)
  BY <1>1 DEF RecordOK, Same, IdleFields, Fields, Stays
<1> HIDE DEF t
<1>6. Unready(c, t, synced[c], results[c])
  BY <1>1, <1>4, <1>5, UnreadyAlike DEF RecordOK
<1>7. QED
  BY <1>2, <1>3, <1>5, <1>6, TimeoutLoopOK

LEMMA UnreadyCloses ==
    ASSUME NEW c, NEW s, NEW sy, NEW rs, Unready(c, s, sy, rs), NEW gone \in BOOLEAN
    PROVE  LET t == [s EXCEPT !.closed = @ \/ gone] IN
           Unready(c, t, sy, rs) /\ Same(s, t, {"closed"}) /\ Stays(s, t)
<1> DEFINE t == [s EXCEPT !.closed = @ \/ gone]
<1>1. RecordOK(c, s)
  BY DEF Unready, Base
<1>2. /\ DOMAIN t = Fields /\ t.closed = (s.closed \/ gone)
      /\ t.cid = s.cid /\ t.dev = s.dev /\ t.rxframes = s.rxframes
      /\ t.rxcb = s.rxcb /\ t.tasks = s.tasks /\ t.op = s.op /\ t.reading = s.reading
      /\ t.msg = s.msg /\ t.mode = s.mode /\ t.trycount = s.trycount /\ t.tid = s.tid
      /\ t.leftover = s.leftover /\ Same(s, t, {"closed"})
  BY <1>1 DEF RecordOK, Fields, Same
<1> HIDE DEF t
<1>3. RecordOK(c, t)
  BY <1>1, <1>2 DEF RecordOK
<1>4. OneRead(t) /\ OneExchange(t, sy, rs) /\ Reported(c, t, rs) /\ ReportInv(t, sy)
  BY <1>2 DEF Unready, Base, OneRead, OneExchange, Reported, ReportInv
<1>5. ~Ready(t, sy)
  BY <1>1, <1>2 DEF Unready, Ready, FirstOK, RecordOK
<1>6. ReadInv(c, t, sy)
  BY <1>1, <1>2 DEF Unready, ReadInv, Reading, RecordOK
<1>7. QED
  BY <1>2, <1>3, <1>4, <1>5, <1>6 DEF Unready, Base, Stays, t

LEMMA CheckSentinelOK ==
    ASSUME ClientInv, NEW c \in OwnClients, CheckSentinel(c)
    PROVE  ClientInv'
<1> DEFINE s == Popped(c)
           f == Head(s.rxframes)
           t == [s EXCEPT !.rxframes = Tail(@)]
           sy == synced[c]
           rs == results[c]
<1>1. /\ ClientOK(c, gnubby[c], sy, rs, wire) /\ DOMAIN gnubby[c] = Fields
      /\ WireOK /\ (dead => wire = <<>>)
      /\ DOMAIN synced = OwnClients /\ DOMAIN results = OwnClients
  BY ClientFacts
<1>2. UNCHANGED <<members, dead, synced, results>> /\ Due(c, "checkSentinel")
  BY DEF CheckSentinel
<1>3. /\ ClientOK(c, s, sy, rs, wire) /\ Free(s, sy)
      /\ s.rxframes # <<>> => ~Ready(s, sy)
  BY <1>1, <1>2, PoppedOK DEF Due, Popped
<1>4. Stays(gnubby[c], s) /\ DOMAIN s = Fields
  BY <1>1, PoppedStays DEF Stays
<1> HIDE DEF s
<1>5. Sends(<<>>) => wire' = wire
  BY <1>1, SendsNothing
<1>6. CASE s.rxframes = <<>> /\ Becomes(c, s) /\ Sends(<<>>)
  BY <1>2, <1>3, <1>4, <1>5, <1>6, QuietSteps
<1>7. ASSUME s.rxframes # <<>>
      PROVE  /\ Unready(c, t, sy, rs) /\ t.rxcb = None /\ Free(t, sy) /\ t.mode # None
             /\ Same(s, t, {"rxframes"}) /\ FrameOK(f) /\ Stays(gnubby[c], t)
             /\ DOMAIN t = Fields /\ t.mode = s.mode
  <2>1. Unready(c, s, sy, rs) /\ RecordOK(c, s)
    BY <1>3, <1>7 DEF ClientOK, Unready, Base
  <2>2. Unready(c, t, sy, rs) /\ t.rxcb = None /\ Same(s, t, {"rxframes"})
    BY <1>7, <2>1, UnreadyFrameRead
  <2>3. t.trycount = s.trycount /\ t.tasks = s.tasks /\ t.mode = s.mode /\ DOMAIN t = Fields
    BY <2>2 DEF Same, Fields
  <2>4. Free(t, sy)
    BY <1>3, <2>3 DEF Free
  <2>5. t.mode # None
    BY <2>2, <2>4 DEF Unready, Base, ReportInv, Free
  <2>6. FrameOK(f)
    BY <1>7, <2>1, SeqFacts DEF RecordOK
  <2>7. Stays(gnubby[c], t)
    BY <1>4, <2>2, SameStays, StaysTransitive
  <2>8. QED
    BY <2>2, <2>3, <2>4, <2>5, <2>6, <2>7
<1> HIDE DEF f, t
<1>8. CASE /\ s.rxframes # <<>>
           /\ Becomes(c, NotifyFrame(Sending(t), "checkSentinel"))
           /\ Sends(By(c, Sentinel(c, t)))
  <2> DEFINE u == Sending(t)
             n == NotifyFrame(u, "checkSentinel")
  <2>1. Unready(c, u, sy, rs) /\ Same(t, u, {"cid", "synccnt"})
    BY <1>7, <1>8, UnreadySends
  <2>2. u.trycount = t.trycount /\ u.tasks = t.tasks /\ DOMAIN u = Fields
    BY <2>1 DEF Same, Fields
  <2>3. Free(u, sy)
    BY <1>7, <1>8, <2>2 DEF Free
  <2>4. ClientOK(c, n, sy, rs, wire')
    BY <2>1, <2>3, UnreadyListens, UnreadyOK
  <2>5. Stays(gnubby[c], n)
    BY <1>7, <1>8, <2>2, FunctionsStay, StaysTransitive
  <2>6. WireOK' /\ (dead => wire' = <<>>) /\ OthersKeep(c)
    BY <1>1, <1>7, <1>8, SentinelOK, SendsOK
  <2> HIDE DEF n
  <2>7. Becomes(c, n)
    BY <1>8 DEF n
  <2>8. QED
    BY <1>1, <1>2, <2>4, <2>5, <2>6, <2>7, ClientSteps
<1>9. CASE s.rxframes # <<>> /\ TimeoutLoop(c, Unsupported(c, t))
  <2> DEFINE u == Stopped(t)
             n == Unsupported(c, t)
  <2>1. Unready(c, u, sy, rs) /\ Same(t, u, {"commandPending", "tid"}) /\ u.tid = FALSE
    BY <1>7, <1>9, StoppedOK
  <2>2. n = [u EXCEPT !.cid = RandomChannelId(c), !.mode = "sync"]
    BY DEF Unsupported
  <2>3. u.trycount = t.trycount /\ DOMAIN u = Fields
    BY <2>1 DEF Same, Fields
  <2> HIDE DEF u
  <2>4. /\ Same(u, n, IdleFields \cup {"cid", "mode", "tid"})
        /\ n.cid = RandomChannelId(c) /\ n.mode = "sync" /\ n.tid = FALSE
        /\ n.trycount = t.trycount
    BY <2>1, <2>2, <2>3 DEF Same, IdleFields, Fields
  <2>5. n.cid \in OwnCids(c) /\ n.cid # BROADCAST_CID /\ n.mode # None
    BY <2>4 DEF OwnCids, RandomChannelId, BROADCAST_CID, None
  <2>6. Stays(gnubby[c], n)
    BY <1>7, <1>9, SyncStays, StaysTransitive
  <2> HIDE DEF n
  <2>7. Unready(c, n, sy, rs)
    BY <2>1, <2>4, <2>5, UnreadyAlike
  <2>8. n.trycount # Tries
    BY <1>7, <1>9, <2>4 DEF Free
  <2>9. TimeoutLoop(c, n)
    BY <1>9 DEF n
  <2>10. QED
    BY <1>2, <2>5, <2>6, <2>7, <2>8, <2>9, TimeoutLoopOK
<1>10. CASE /\ s.rxframes # <<>> /\ f.kind = "error"
            /\ Becomes(c, SyncFailed(c, [t EXCEPT !.closed = @ \/ f.code = "GONE"],
                                     f.code, Outstanding(c, t)))
            /\ Sends(<<>>)
  <2> DEFINE u == [t EXCEPT !.closed = @ \/ f.code = "GONE"]
             n == SyncFailed(c, u, f.code, Outstanding(c, t))
  <2>1. Unready(c, u, sy, rs) /\ Same(t, u, {"closed"}) /\ Stays(t, u)
    BY <1>7, <1>10, UnreadyCloses
  <2>2. u.trycount = t.trycount /\ u.tasks = t.tasks /\ u.rxcb = t.rxcb /\ DOMAIN u = Fields
    BY <2>1 DEF Same, Fields
  <2> HIDE DEF u
  <2>3. Free(u, sy) /\ u.rxcb # "checkSentinel"
    BY <1>7, <1>10, <2>2 DEF Free, None
  <2>4. Outstanding(c, t) \in BOOLEAN /\ f.code # "OK"
    BY <1>7, <1>10 DEF Outstanding, FrameOK
  <2>5. ClientOK(c, n, sy, rs, wire)
    BY <2>1, <2>3, <2>4, SyncFailedOK
  <2>6. Stays(gnubby[c], n)
    BY <1>7, <1>10, <2>1, <2>2, SyncStays, StaysTransitive
  <2> HIDE DEF n
  <2>7. Becomes(c, n)
    BY <1>10 DEF n, u
  <2>8. QED
    BY <1>2, <1>5, <1>10, <2>5, <2>6, <2>7, QuietSteps
<1>11. CASE /\ s.rxframes # <<>> /\ SentinelEquals(c, s, f)
            /\ Becomes(c, SyncSucceeded(t, f, Outstanding(c, t)))
            /\ Sends(<<>>)
  <2> DEFINE n == SyncSucceeded(t, f, Outstanding(c, t))
  <2>1. t.mode = s.mode /\ t.synccnt = s.synccnt
    BY <1>7, <1>11 DEF Same, Fields
  <2>2. SentinelEquals(c, t, f)
    BY <1>11, <2>1 DEF SentinelEquals
  <2>3. Outstanding(c, t) \in BOOLEAN /\ (~Outstanding(c, t) => Quiet(c, t, wire))
    BY DEF Outstanding, OnWire, Quiet, SentBy
  <2>4. ClientOK(c, n, sy, rs, wire)
    BY <1>7, <1>11, <2>2, <2>3, SyncSucceededOK
  <2>5. Stays(gnubby[c], n)
    BY <1>7, <1>11, SyncStays, StaysTransitive
  <2> HIDE DEF n
  <2>6. Becomes(c, n)
    BY <1>11 DEF n
  <2>7. QED
    BY <1>2, <1>5, <1>11, <2>4, <2>5, <2>6, QuietSteps
<1>12. CASE /\ s.rxframes # <<>> /\ Becomes(c, NotifyFrame(t, "checkSentinel"))
            /\ Sends(<<>>)
  <2> DEFINE n == NotifyFrame(t, "checkSentinel")
  <2>1. ClientOK(c, n, sy, rs, wire)
    BY <1>7, <1>12, UnreadyListens, UnreadyOK
  <2>2. Stays(gnubby[c], n)
    BY <1>7, <1>12, FunctionsStay, StaysTransitive
  <2> HIDE DEF n
  <2>3. Becomes(c, n)
    BY <1>12 DEF n
  <2>4. QED
    BY <1>2, <1>5, <1>12, <2>1, <2>2, <2>3, QuietSteps
<1>13. QED
  BY <1>6, <1>8, <1>9, <1>10, <1>11, <1>12 DEF CheckSentinel, s, f, t

LEMMA SyncOK ==
    ASSUME ClientInv, NEW c \in OwnClients, Sync(c)
    PROVE  ClientInv'
<1> DEFINE s == gnubby[c]
           sy == synced[c]
           rs == results[c]
           go == [s EXCEPT !.mode = IF shared THEN "init" ELSE "sync"]
           t == [s EXCEPT !.mode = "sync"]
<1>1. /\ ClientOK(c, s, sy, rs, wire) /\ RecordOK(c, s) /\ Base(c, s, sy, rs)
      /\ WireOK /\ (dead => wire = <<>>)
      /\ DOMAIN synced = OwnClients /\ DOMAIN results = OwnClients
  BY ClientFacts
<1>2. s.mode = None /\ UNCHANGED <<members, dead, results>>
  BY DEF Sync
<1>3. s.trycount = Tries /\ sy = <<>>
  BY <1>1, <1>2 DEF Base, ReportInv
<1>4. ~s.reading /\ NoTask(s.tasks, {"retryBusy"}) /\ s.op = 0
  <2>1. ~s.reading /\ NoTask(s.tasks, {"retryBusy"})
    BY <1>1, <1>3, ExchangeSynced
  <2>2. s.op \in Nat /\ ~(s.op > 0)
    BY <1>1, <1>3 DEF Base, RecordOK, OneExchange
  <2>3. QED
    BY <2>1, <2>2
<1>5. CASE /\ s.closed
           /\ Becomes(c, t)
           /\ synced' = [synced EXCEPT ![c] = Append(@, "GONE")]
           /\ UNCHANGED wire
  <2>1. /\ DOMAIN t = Fields /\ t.mode = "sync"
        /\ t.cid = s.cid /\ t.closed = s.closed /\ t.dev = s.dev /\ t.rxframes = s.rxframes
        /\ t.rxcb = s.rxcb /\ t.tasks = s.tasks /\ t.op = s.op /\ t.reading = s.reading
        /\ t.msg = s.msg /\ t.trycount = s.trycount /\ t.tid = s.tid
        /\ t.leftover = s.leftover /\ Stays(s, t)
    BY <1>1 DEF RecordOK, Fields, Stays
  <2> HIDE DEF t
  <2>2. /\ synced'[c] = <<"GONE">> /\ DOMAIN synced' = OwnClients
        /\ \A d \in OwnClients : d # c => synced'[d] = synced[d]
    BY <1>1, <1>3, <1>5
  <2>3. IsSeq(<<"GONE">>) /\ Len(<<"GONE">>) = 1 /\ <<"GONE">> # <<>>
    BY OneElement
  <2>4. RecordOK(c, t)
    BY <1>1, <1>2, <2>1 DEF RecordOK, None
  <2>5. OneRead(t) /\ OneExchange(t, <<"GONE">>, rs) /\ Reported(c, t, rs)
    BY <1>1, <1>4, <2>1, <2>3 DEF Base, OneRead, OneExchange, Reported
  <2>6. ReportInv(t, <<"GONE">>)
    <3>1. Tries # Tries - 1
      BY TriesAssumption
    <3>2. QED
      BY <1>1, <1>3, <2>1, <2>3, <3>1 DEF Base, ReportInv, None
  <2>7. ReadyInv(c, t, <<"GONE">>, wire)
    BY <1>5, <2>1 DEF ReadyInv, Ready
  <2>8. ReadInv(c, t, <<"GONE">>)
    BY <1>1, <1>4, <2>1 DEF ClientOK, ReadInv
  <2>9. ClientOK(c, t, synced'[c], results'[c], wire')
    BY <1>2, <1>5, <2>2, <2>4, <2>5, <2>6, <2>7, <2>8 DEF ClientOK, Base
  <2>10. OthersKeep(c) /\ WireOK' /\ (dead => wire' = <<>>)
    BY <1>1, <1>5, KeepsSame DEF OthersKeep, WireOK
  <2>11. Becomes(c, t)
    BY <1>5
  <2>12. QED
    BY <1>1, <1>2, <2>1, <2>2, <2>9, <2>10, <2>11, ClientSteps
<1>6. CASE TimeoutLoop(c, go) /\ UNCHANGED synced
  <2>1. /\ go.mode \in {"init", "sync"} /\ go.cid = s.cid /\ go.tid = s.tid
        /\ Same(s, go, IdleFields \cup {"cid", "mode", "tid"}) /\ Stays(s, go)
    BY <1>1 DEF RecordOK, Fields, Same, IdleFields, Stays
  <2>2. ~Ready(s, sy)
    BY <1>1, <1>2 DEF ClientOK, ReadyInv, InSync
  <2>3. Unready(c, s, sy, rs)
    BY <1>1, <2>2 DEF ClientOK, Unready
  <2> HIDE DEF go
  <2>4. go.mode # None /\ go.cid # BROADCAST_CID
    BY <1>1, <1>2, <2>1 DEF RecordOK, None
  <2>5. Unready(c, go, sy, rs)
    BY <1>1, <2>1, <2>3, <2>4, UnreadyAlike DEF RecordOK
  <2>6. QED
    BY <1>2, <1>3, <1>6, <2>1, <2>4, <2>5, TimeoutLoopOK
<1>7. QED
  BY <1>5, <1>6 DEF Sync

LEMMA ReportSyncOK ==
    ASSUME ClientInv, NEW c \in OwnClients, ReportSync(c)
    PROVE  ClientInv'
<1> DEFINE s == gnubby[c]
           h == Head(s.tasks)
           t == Popped(c)
           sy == synced[c]
           rs == results[c]
           so == Append(sy, h.rc)
<1>1. /\ ClientOK(c, s, sy, rs, wire) /\ RecordOK(c, s) /\ Base(c, s, sy, rs)
      /\ WireOK /\ (dead => wire = <<>>)
      /\ DOMAIN synced = OwnClients /\ DOMAIN results = OwnClients
  BY ClientFacts
<1>2. /\ UNCHANGED <<members, dead, wire, results>> /\ s.tasks # <<>> /\ h.fn = "synced"
      /\ Becomes(c, t) /\ synced' = [synced EXCEPT ![c] = so]
  BY DEF ReportSync, Due, deviceVars
<1>3. /\ DOMAIN t = Fields /\ t.rxframes = s.rxframes /\ t.rxcb = s.rxcb
      /\ t.tasks = Tail(s.tasks)
      /\ t.cid = s.cid /\ t.closed = s.closed /\ t.dev = s.dev
      /\ t.op = s.op /\ t.reading = s.reading
      /\ t.msg = s.msg /\ t.mode = s.mode /\ t.trycount = s.trycount /\ t.tid = s.tid
      /\ t.leftover = s.leftover /\ Stays(s, t)
  BY <1>1 DEF RecordOK, Fields, Popped, Stays
<1> HIDE DEF t
<1>4. IsSeq(s.tasks) /\ IsSeq(sy) /\ Len(sy) \in Nat /\ (sy = <<>> <=> Len(sy) = 0)
  BY <1>1, SeqFacts DEF RecordOK, Base, OneExchange
<1>5. /\ IsSeq(t.tasks)
      /\ \A fns : NoTask(s.tasks, fns) => NoTask(t.tasks, fns) /\ h.fn \notin fns
      /\ \A fns : NoTask(t.tasks, fns) /\ h.fn \notin fns => NoTask(s.tasks, fns)
      /\ \A fns : OneTask(s.tasks, fns) => OneTask(t.tasks, fns)
      /\ \A fns : OneTask(s.tasks, fns) /\ h.fn \in fns => NoTask(t.tasks, fns)
      /\ ChecksFirst(s.tasks) => ChecksFirst(t.tasks)
      /\ ChecksFirst(s.tasks) /\ h.fn = "synced" => NoTask(t.tasks, {"checkSentinel"})
      /\ h.fn = "synced" /\ h.rc = "OK" => OKFirst(s.tasks)
      /\ \A data : Replies(s.tasks, data) => Replies(t.tasks, data)
  BY <1>2, <1>3, <1>4, TasksTail
<1>6. /\ IsSeq(so) /\ Len(so) = Len(sy) + 1 /\ so # <<>>
      /\ sy = <<>> => so[1] = h.rc
      /\ sy # <<>> => so[1] = sy[1]
  <2>1. /\ IsSeq(so) /\ Len(so) = Len(sy) + 1 /\ so[Len(sy) + 1] = h.rc
        /\ \A i \in DOMAIN sy : so[i] = sy[i]
    BY <1>4, AppendFacts
  <2> HIDE DEF so
  <2>2. so = <<>> <=> Len(so) = 0
    BY <2>1, SeqFacts
  <2>3. sy # <<>> => 1 \in DOMAIN sy
    BY <1>4, SeqFacts
  <2>4. QED
    BY <1>4, <2>1, <2>2, <2>3
<1> HIDE DEF h, so
<1>7. "synced" \in SyncTasks /\ "synced" \notin ReadTasks
  BY DEF SyncTasks, ReadTasks
<1>8. RecordOK(c, t)
  BY <1>1, <1>3, <1>5 DEF RecordOK
<1>9. OneRead(t) /\ Reported(c, t, rs)
  BY <1>1, <1>3, <1>5 DEF Base, OneRead, Reported
<1>10. OneExchange(t, so, rs)
  BY <1>1, <1>2, <1>3, <1>5, <1>6 DEF Base, OneExchange
<1>11. ~NoTask(s.tasks, SyncTasks)
  BY <1>2, <1>5, <1>7
<1>12. ReportInv(t, so)
  <2>1. s.trycount # Tries /\ s.mode # None
    BY <1>1, <1>11 DEF Base, ReportInv
  <2>2. ASSUME s.trycount = Tries - 1
        PROVE  sy = <<>> /\ s.rxcb # "checkSentinel" /\ NoTask(t.tasks, SyncTasks)
    BY <1>1, <1>2, <1>5, <1>7, <1>11, <2>2 DEF Base, ReportInv
  <2>3. NoTask(t.tasks, SyncTasks) => OneTask(t.tasks, SyncTasks)
    BY DEF NoTask, OneTask
  <2>4. ASSUME s.trycount = Tries - 1 PROVE Len(so) <= 1
    BY <1>4, <1>6, <2>2, <2>4
  <2>5. QED
    BY <1>3, <2>1, <2>2, <2>3, <2>4 DEF ReportInv
<1>13. Ready(s, sy) => sy = <<>> /\ InSync(c, s, sy)
  BY <1>1, <1>11 DEF ClientOK, ReadyInv, InSync
<1>14. ASSUME Ready(t, so) PROVE Ready(s, sy)
  BY <1>2, <1>3, <1>5, <1>6, <1>14 DEF Ready, FirstOK
<1>15. ReadyInv(c, t, so, wire)
  <2> SUFFICES ASSUME Ready(t, so)
               PROVE  InSync(c, t, so) /\ ~t.reading /\ Quiet(c, t, wire)
    BY DEF ReadyInv
  <2>1. sy = <<>> /\ InSync(c, s, sy) /\ Ready(s, sy)
    BY <1>13, <1>14
  <2>2. ~s.reading
    BY <1>1, <2>1, ExchangeSynced
  <2>3. Quiet(c, s, wire)
    BY <1>1, <2>1, <2>2 DEF ClientOK, ReadyInv
  <2>4. NoTask(t.tasks, {"synced"}) /\ NoTask(t.tasks, {"checkSentinel"})
    BY <1>2, <1>5, <2>1 DEF InSync
  <2>5. NoTask(t.tasks, SyncTasks)
    BY <2>4 DEF NoTask, SyncTasks
  <2>6. Len(so) = 1
    BY <1>4, <1>6, <2>1
  <2>7. InSync(c, t, so)
    BY <1>3, <1>5, <2>1, <2>5, <2>6 DEF InSync
  <2>8. QED
    BY <1>3, <2>2, <2>3, <2>7 DEF Quiet
<1>16. ReadInv(c, t, so)
  <2>1. ASSUME t.reading, ~t.leftover PROVE Reading(c, t, so)
    <3>1. Reading(c, s, sy)
      BY <1>1, <1>3, <2>1 DEF ClientOK, ReadInv
    <3>2. sy # <<>>
      BY <1>1, <1>3, <2>1, ExchangeSynced
    <3>3. s.closed
      BY <1>13, <3>1, <3>2 DEF Reading
    <3>4. QED
      BY <1>3, <1>5, <3>1, <3>3 DEF Reading
  <2>2. ASSUME ~t.leftover PROVE Replies(t.tasks, <<c, t.op>>)
    BY <1>1, <1>3, <1>5, <2>2 DEF ClientOK, ReadInv
  <2>3. QED
    BY <2>1, <2>2 DEF ReadInv
<1>17. ClientOK(c, t, so, rs, wire)
  BY <1>8, <1>9, <1>10, <1>12, <1>15, <1>16 DEF ClientOK, Base
<1>18. /\ synced'[c] = so /\ DOMAIN synced' = OwnClients
       /\ \A d \in OwnClients : d # c => synced'[d] = synced[d]
  BY <1>1, <1>2
<1>19. OthersKeep(c) /\ WireOK' /\ (dead => wire' = <<>>)
  BY <1>1, <1>2, KeepsSame DEF OthersKeep, WireOK
<1>20. ClientOK(c, t, synced'[c], results'[c], wire')
  BY <1>2, <1>17, <1>18
<1>21. QED
  BY <1>1, <1>2, <1>3, <1>18, <1>19, <1>20, ClientSteps

(***************************************************************************)
(* An exchange: what it reports, and what it sends.                        *)
(***************************************************************************)
Exchanging(c, s, sy, rs, w) ==
    /\ RecordOK(c, s) /\ OneRead(s) /\ Reported(c, s, rs) /\ ReportInv(s, sy)
    /\ IsSeq(sy) /\ IsSeq(rs) /\ sy # <<>> /\ sy[1] = "OK"
    /\ ~s.reading /\ NoTask(s.tasks, {"retryBusy"}) /\ s.op = Len(rs) + 1
    /\ Ready(s, sy) => InSync(c, s, sy) /\ Quiet(c, s, w)

LEMMA ReportOK ==
    ASSUME NEW c, NEW s, NEW sy, NEW rs, NEW w, Exchanging(c, s, sy, rs, w), NEW e,
           e.rc = "OK" /\ ~s.leftover => e.data = <<c, e.op>>
    PROVE  LET t == [s EXCEPT !.busyWait = FALSE] IN
           ClientOK(c, t, sy, Append(rs, e), w) /\ Stays(s, t)
<1> DEFINE t == [s EXCEPT !.busyWait = FALSE]
           ro == Append(rs, e)
<1>1. /\ DOMAIN t = Fields
      /\ t.cid = s.cid /\ t.closed = s.closed /\ t.dev = s.dev /\ t.rxframes = s.rxframes
      /\ t.rxcb = s.rxcb /\ t.tasks = s.tasks /\ t.op = s.op /\ t.reading = s.reading
      /\ t.msg = s.msg /\ t.mode = s.mode /\ t.trycount = s.trycount /\ t.tid = s.tid
      /\ t.leftover = s.leftover /\ Stays(s, t)
  BY DEF Exchanging, RecordOK, Fields, Stays
<1> HIDE DEF t
<1>2. /\ IsSeq(ro) /\ Len(ro) = Len(rs) + 1 /\ DOMAIN ro = 1..(Len(rs) + 1)
      /\ ro[Len(rs) + 1] = e /\ \A i \in DOMAIN rs : ro[i] = rs[i]
  BY AppendFacts DEF Exchanging
<1>3. Len(rs) \in Nat /\ DOMAIN rs = 1..Len(rs)
  BY SeqFacts DEF Exchanging
<1> HIDE DEF ro
<1>4. RecordOK(c, t) /\ OneRead(t) /\ ReportInv(t, sy)
  BY <1>1 DEF Exchanging, RecordOK, OneRead, ReportInv
<1>5. Reported(c, t, ro)
  <2>1. \A i \in DOMAIN ro : i = Len(rs) + 1 \/ i \in DOMAIN rs
    BY <1>2, <1>3
  <2>2. QED
    BY <1>1, <1>2, <2>1 DEF Exchanging, Reported
<1>6. OneExchange(t, sy, ro)
  <2>1. OneTask(t.tasks, {"retryBusy"}) /\ NoTask(t.tasks, {"retryBusy"})
    BY <1>1 DEF Exchanging, NoTask, OneTask
  <2>2. QED
    BY <1>1, <1>2, <1>3, <2>1 DEF Exchanging, OneExchange
<1>7. ReadyInv(c, t, sy, w)
  BY <1>1 DEF Exchanging, ReadyInv, Ready, FirstOK, InSync, Quiet
<1>8. ReadInv(c, t, sy)
  BY <1>1 DEF Exchanging, ReadInv, Replies, NoTask
<1>9. QED
  BY <1>1, <1>4, <1>5, <1>6, <1>7, <1>8 DEF ClientOK, Base, t, ro

LEMMA StartReadOK ==
    ASSUME NEW c, NEW s, NEW sy, NEW rs, NEW w, Exchanging(c, s, sy, rs, w), IsSeq(w),
           ~s.closed, NEW e, e.from = c, e.cid = s.cid, e.kind = "apdu", e.data = <<c, s.op>>,
           NEW x, Grows(w, x, e)
    PROVE  LET t == StartRead([s EXCEPT !.commandPending = TRUE]) IN
           ClientOK(c, t, sy, rs, x) /\ Stays(s, t)
<1> DEFINE p == [s EXCEPT !.commandPending = TRUE]
           u == [p EXCEPT !.reading = TRUE]
<1>1. /\ DOMAIN u = Fields
      /\ u.cid = s.cid /\ u.closed = s.closed /\ u.dev = s.dev /\ u.rxframes = s.rxframes
      /\ u.rxcb = s.rxcb /\ u.tasks = s.tasks /\ u.op = s.op /\ u.reading = TRUE
      /\ u.msg = s.msg /\ u.mode = s.mode /\ u.trycount = s.trycount /\ u.tid = s.tid
      /\ u.leftover = s.leftover /\ Stays(s, u)
  BY DEF Exchanging, RecordOK, Fields, Stays
<1> HIDE DEF u
<1>2. RecordOK(c, u) /\ OneRead(u) /\ ReportInv(u, sy) /\ Reported(c, u, rs)
  BY <1>1 DEF Exchanging, RecordOK, OneRead, ReportInv, Reported
<1>3. OneExchange(u, sy, rs)
  <2>1. OneTask(u.tasks, {"retryBusy"})
    BY <1>1 DEF Exchanging, NoTask, OneTask
  <2>2. QED
    BY <1>1, <2>1 DEF Exchanging, OneExchange
<1>4. NoTask(u.tasks, ReadTasks) /\ u.rxcb \notin ReadTasks /\ u.msg = NoData
  BY <1>1 DEF Exchanging, OneRead
<1>5. Ready(u, sy) <=> Ready(s, sy)
  BY <1>1 DEF Ready, FirstOK
<1>6. ASSUME Ready(u, sy) PROVE InSync(c, u, sy) /\ Arriving(c, u, x)
  <2>1. InSync(c, s, sy) /\ Quiet(c, s, w)
    BY <1>5, <1>6 DEF Exchanging
  <2>2. InSync(c, u, sy)
    BY <1>1, <2>1 DEF InSync
  <2>3. OnlyEntry(c, x, e)
    <3>1. SentBy(c, w) = {}
      BY <2>1 DEF Quiet
    <3>2. QED
      BY <3>1, WireGrows
  <2>4. OnlyCommand(c, u, x, "apdu")
    BY <1>1, <2>3 DEF OnlyCommand, OnlyEntry
  <2>5. Arriving(c, u, x)
    BY <1>1, <1>4, <2>1, <2>4 DEF Arriving, Quiet
  <2>6. QED
    BY <2>2, <2>5
<1>7. ASSUME ~u.leftover
      PROVE  Ready(u, sy) /\ OwnFrames(u.rxframes, <<c, u.op>>)
  <2>1. Ready(u, sy)
    BY <1>1, <1>7 DEF Exchanging, Ready, FirstOK
  <2>2. u.rxframes = <<>>
    BY <1>1, <1>5, <2>1 DEF Exchanging, Quiet
  <2>3. QED
    BY <2>1, <2>2, EmptySequence DEF OwnFrames
<1>8. ClientOK(c, NotifyFrame(u, "init_frame"), sy, rs, x)
  <2>1. Base(c, u, sy, rs) /\ "init_frame" \in ReadTasks
    BY <1>2, <1>3 DEF Base, ReadTasks
  <2>2. QED
    BY <1>1, <1>4, <1>6, <1>7, <2>1, ReadsOn
<1>9. Stays(s, NotifyFrame(u, "init_frame"))
  BY <1>1, FunctionsStay, StaysTransitive
<1>10. QED
  BY <1>8, <1>9 DEF StartRead, u, p

LEMMA ReportStepOK ==
    ASSUME ClientInv, NEW c \in OwnClients, NEW s, NEW e,
           Exchanging(c, s, synced[c], results[c], wire), Stays(gnubby[c], s),
           e.rc = "OK" /\ ~s.leftover => e.data = <<c, e.op>>,
           Becomes(c, [s EXCEPT !.busyWait = FALSE]),
           results' = [results EXCEPT ![c] = Append(@, e)],
           Sends(<<>>), UNCHANGED <<members, dead, synced>>
    PROVE  ClientInv'
<1> DEFINE t == [s EXCEPT !.busyWait = FALSE]
           ro == Append(results[c], e)
<1>1. /\ DOMAIN synced = OwnClients /\ DOMAIN results = OwnClients
      /\ WireOK /\ (dead => wire = <<>>)
  BY ClientFacts
<1>2. wire' = wire
  BY <1>1, SendsNothing
<1>3. ClientOK(c, t, synced[c], ro, wire) /\ Stays(s, t)
  BY ReportOK
<1>4. Stays(gnubby[c], t)
  BY <1>3, StaysTransitive
<1> HIDE DEF t, ro
<1>5. results' = [results EXCEPT ![c] = ro] /\ Becomes(c, t)
  BY DEF t, ro
<1>6. /\ results'[c] = ro /\ DOMAIN results' = OwnClients
      /\ \A d \in OwnClients : d # c => results'[d] = results[d]
  BY <1>1, <1>5
<1>7. OthersKeep(c) /\ WireOK' /\ (dead => wire' = <<>>)
  BY <1>1, <1>2, KeepsSame DEF OthersKeep, WireOK
<1>8. ClientOK(c, t, synced'[c], results'[c], wire')
  BY <1>2, <1>3, <1>6
<1>9. DOMAIN synced' = OwnClients /\ \A d \in OwnClients : synced'[d] = synced[d]
  BY <1>1
<1>10. QED
  BY <1>4, <1>5, <1>6, <1>7, <1>8, <1>9, ClientSteps

LEMMA WriteAndReadOK ==
    ASSUME ClientInv, NEW c \in OwnClients, NEW s,
           Exchanging(c, s, synced[c], results[c], wire), Stays(gnubby[c], s),
           WriteAndRead(c, s), UNCHANGED <<members, dead, synced>>
    PROVE  ClientInv'
<1>1. /\ DOMAIN synced = OwnClients /\ DOMAIN results = OwnClients
      /\ WireOK /\ (dead => wire = <<>>) /\ DeviceOK
  BY ClientFacts
<1>2. CASE /\ Becomes(c, [s EXCEPT !.busyWait = FALSE])
           /\ results' = [results EXCEPT ![c] = Append(@, [op |-> s.op, rc |-> "GONE", data |-> NoData])]
           /\ Sends(<<>>)
  <2> DEFINE e == [op |-> s.op, rc |-> "GONE", data |-> NoData]
  <2>1. e.rc # "OK"
    OBVIOUS
  <2> HIDE DEF e
  <2>2. results' = [results EXCEPT ![c] = Append(@, e)]
    BY <1>2 DEF e
  <2>3. QED
    BY <1>2, <2>1, <2>2, ReportStepOK
<1>3. CASE /\ ~s.closed
           /\ Becomes(c, StartRead([s EXCEPT !.commandPending = TRUE]))
           /\ Sends(By(c, [cid |-> s.cid, kind |-> "apdu", data |-> <<c, s.op>>]))
           /\ UNCHANGED results
  <2> DEFINE cmd == [cid |-> s.cid, kind |-> "apdu", data |-> <<c, s.op>>]
             t == StartRead([s EXCEPT !.commandPending = TRUE])
  <2> DEFINE e == [from |-> c, cid |-> cmd.cid, kind |-> cmd.kind, data |-> cmd.data]
  <2>1. e.from = c /\ e.cid = s.cid /\ e.kind = "apdu" /\ e.data = <<c, s.op>>
    OBVIOUS
  <2>2. cmd.cid = s.cid /\ cmd.kind = "apdu"
    OBVIOUS
  <2> HIDE DEF cmd, e
  <2>3. Sends(<<e>>) /\ Sends(By(c, cmd))
    BY <1>3 DEF By, cmd, e
  <2>4. ~dead
    BY <1>1, <1>3 DEF DeviceOK, Stays
  <2>5. IsSeq(wire)
    BY <1>1 DEF WireOK
  <2>6. Grows(wire, wire', e)
    BY <2>3, <2>4, <2>5, WireEnd DEF Sends
  <2>7. ClientOK(c, t, synced[c], results[c], wire') /\ Stays(s, t)
    BY <1>3, <2>1, <2>5, <2>6, StartReadOK
  <2>8. Stays(gnubby[c], t)
    BY <2>7, StaysTransitive
  <2>9. cmd.cid \in OwnCids(c) \cup {BROADCAST_CID} /\ cmd.kind \in CommandKinds
    BY <2>2 DEF Exchanging, RecordOK, CommandKinds
  <2>10. WireOK' /\ (dead => wire' = <<>>) /\ OthersKeep(c)
    BY <1>1, <2>3, <2>9, SendsOK
  <2> HIDE DEF t
  <2>11. Becomes(c, t)
    BY <1>3 DEF t
  <2>12. QED
    BY <1>1, <1>3, <2>7, <2>8, <2>10, <2>11, ClientSteps
<1>4. QED
  BY <1>2, <1>3 DEF WriteAndRead

LEMMA ExchangeOK ==
    ASSUME ClientInv, NEW c \in OwnClients, Exchange(c)
    PROVE  ClientInv'
<1> DEFINE s == gnubby[c]
           t == [s EXCEPT !.op = @ + 1, !.busyWait = TRUE]
           sy == synced[c]
           rs == results[c]
<1>1. ClientOK(c, s, sy, rs, wire) /\ RecordOK(c, s) /\ Base(c, s, sy, rs)
  BY ClientFacts
<1>2. /\ sy = <<"OK">> /\ s.op = Len(rs) /\ WriteAndRead(c, t)
      /\ UNCHANGED <<members, dead, synced>>
  BY DEF Exchange
<1>3. /\ DOMAIN t = Fields /\ t.op = s.op + 1
      /\ t.cid = s.cid /\ t.closed = s.closed /\ t.dev = s.dev /\ t.rxframes = s.rxframes
      /\ t.rxcb = s.rxcb /\ t.tasks = s.tasks /\ t.reading = s.reading
      /\ t.msg = s.msg /\ t.mode = s.mode /\ t.trycount = s.trycount /\ t.tid = s.tid
      /\ t.leftover = s.leftover /\ Stays(s, t)
  BY <1>1 DEF RecordOK, Fields, Stays
<1> HIDE DEF t
<1>4. ~s.reading /\ NoTask(s.tasks, {"retryBusy"})
  BY <1>1, <1>2, ExchangeSynced DEF RecordOK
<1>5. IsSeq(sy) /\ sy # <<>> /\ sy[1] = "OK" /\ IsSeq(rs)
  BY <1>1, <1>2 DEF Base, OneExchange
<1>6. RecordOK(c, t) /\ OneRead(t) /\ Reported(c, t, rs) /\ ReportInv(t, sy)
  BY <1>1, <1>3 DEF Base, RecordOK, OneRead, Reported, ReportInv
<1>7. Ready(t, sy) => InSync(c, t, sy) /\ Quiet(c, t, wire)
  BY <1>1, <1>3, <1>4 DEF ClientOK, ReadyInv, Ready, FirstOK, InSync, Quiet
<1>8. Exchanging(c, t, sy, rs, wire)
  BY <1>2, <1>3, <1>4, <1>5, <1>6, <1>7 DEF Exchanging
<1>9. QED
  BY <1>2, <1>3, <1>8, WriteAndReadOK

LEMMA RetryBusyOK ==
    ASSUME ClientInv, NEW c \in OwnClients, RetryBusy(c)
    PROVE  ClientInv'
<1> DEFINE s == gnubby[c]
           h == Head(s.tasks)
           t == Popped(c)
           sy == synced[c]
           rs == results[c]
<1>1. ClientOK(c, s, sy, rs, wire) /\ RecordOK(c, s) /\ Base(c, s, sy, rs)
  BY ClientFacts
<1>2. s.tasks # <<>> /\ h.fn = "retryBusy" /\ UNCHANGED <<members, dead, synced>>
  BY DEF RetryBusy, Due
<1>3. /\ DOMAIN t = Fields /\ t.rxframes = s.rxframes /\ t.rxcb = s.rxcb
      /\ t.tasks = Tail(s.tasks)
      /\ t.cid = s.cid /\ t.closed = s.closed /\ t.dev = s.dev
      /\ t.op = s.op /\ t.reading = s.reading
      /\ t.msg = s.msg /\ t.mode = s.mode /\ t.trycount = s.trycount /\ t.tid = s.tid
      /\ t.leftover = s.leftover /\ Stays(s, t)
  BY <1>1 DEF RecordOK, Fields, Popped, Stays
<1> HIDE DEF t
<1>4. IsSeq(s.tasks)
  BY <1>1 DEF RecordOK
<1>5. /\ IsSeq(t.tasks)
      /\ \A fns : NoTask(s.tasks, fns) => NoTask(t.tasks, fns) /\ h.fn \notin fns
      /\ \A fns : NoTask(t.tasks, fns) /\ h.fn \notin fns => NoTask(s.tasks, fns)
      /\ \A fns : OneTask(s.tasks, fns) => OneTask(t.tasks, fns)
      /\ \A fns : OneTask(s.tasks, fns) /\ h.fn \in fns => NoTask(t.tasks, fns)
      /\ ChecksFirst(s.tasks) => ChecksFirst(t.tasks)
      /\ OKFirst(t.tasks) /\ h.fn # "synced" => OKFirst(s.tasks)
      /\ \A data : Replies(s.tasks, data) /\ h.fn = "retryBusy" /\ h.rc = "OK"
                     => h.data = data
  BY <1>2, <1>3, <1>4, TasksTail
<1> HIDE DEF h
<1>6. ~NoTask(s.tasks, {"retryBusy"})
  BY <1>2, <1>5
<1>7. /\ s.op = Len(rs) + 1 /\ sy # <<>> /\ sy[1] = "OK" /\ IsSeq(sy) /\ IsSeq(rs)
      /\ ~s.reading /\ NoTask(t.tasks, {"retryBusy"})
  BY <1>1, <1>2, <1>5, <1>6, ExchangeSynced DEF Base, OneExchange
<1>8. RecordOK(c, t) /\ Reported(c, t, rs)
  BY <1>1, <1>3, <1>5 DEF Base, RecordOK, Reported
<1>9. OneRead(t)
  BY <1>1, <1>3, <1>5 DEF Base, OneRead
<1>10. ReportInv(t, sy)
  BY <1>1, <1>3, <1>5 DEF Base, ReportInv
<1>11. Ready(t, sy) => InSync(c, t, sy) /\ Quiet(c, t, wire)
  <2>1. Ready(t, sy) => Ready(s, sy)
    BY <1>3, <1>7 DEF Ready, FirstOK
  <2>2. Ready(s, sy) => InSync(c, s, sy) /\ Quiet(c, s, wire)
    BY <1>1, <1>7 DEF ClientOK, ReadyInv
  <2>3. InSync(c, s, sy) => InSync(c, t, sy)
    BY <1>3, <1>5 DEF InSync
  <2>4. Quiet(c, s, wire) => Quiet(c, t, wire)
    BY <1>3 DEF Quiet
  <2>5. QED
    BY <2>1, <2>2, <2>3, <2>4
<1>12. Exchanging(c, t, sy, rs, wire)
  BY <1>3, <1>7, <1>8, <1>9, <1>10, <1>11 DEF Exchanging
<1>13. CASE WriteAndRead(c, t)
  BY <1>2, <1>3, <1>12, <1>13, WriteAndReadOK
<1>14. CASE /\ Becomes(c, [t EXCEPT !.busyWait = FALSE])
            /\ Report(c, h.rc, h.data)
            /\ Sends(<<>>)
  <2> DEFINE e == [op |-> s.op, rc |-> h.rc, data |-> h.data]
  <2>1. e.op = s.op /\ e.rc = h.rc /\ e.data = h.data
    OBVIOUS
  <2> HIDE DEF e
  <2>2. results' = [results EXCEPT ![c] = Append(@, e)]
    BY <1>14 DEF Report, e
  <2>3. e.rc = "OK" /\ ~t.leftover => e.data = <<c, e.op>>
    BY <1>1, <1>2, <1>3, <1>5, <2>1 DEF ClientOK, ReadInv
  <2>4. QED
    BY <1>2, <1>3, <1>12, <1>14, <2>2, <2>3, ReportStepOK
<1>15. QED
  BY <1>13, <1>14 DEF RetryBusy, t, h

LEMMA BusyWaitExpiresOK ==
    ASSUME ClientInv, NEW c \in OwnClients, BusyWaitExpires(c)
    PROVE  ClientInv'
<1> DEFINE s == gnubby[c]
           t == [s EXCEPT !.busyWait = FALSE]
<1>1. ClientOK(c, s, synced[c], results[c], wire) /\ DOMAIN s = Fields
  BY ClientFacts
<1>2. Becomes(c, t) /\ UNCHANGED <<members, dead, wire, synced, results>>
  BY DEF BusyWaitExpires, deviceVars
<1>3. Same(s, t, IdleFields) /\ Stays(s, t)
  BY <1>1 DEF Same, IdleFields, Fields, Stays
<1> HIDE DEF t
<1>4. ClientOK(c, t, synced[c], results[c], wire)
  BY <1>1, <1>3, Alike
<1>5. QED
  BY <1>2, <1>3, <1>4, QuietSteps

LEMMA CloseNowOK ==
    ASSUME ClientInv, NEW c \in OwnClients, CloseNow(c)
    PROVE  ClientInv'
<1>1. ClientOK(c, gnubby[c], synced[c], results[c], wire) /\ DOMAIN gnubby[c] = Fields
  BY ClientFacts
<1>2. Becomes(c, Close(gnubby[c])) /\ UNCHANGED <<members, dead, wire, synced, results>>
  BY DEF CloseNow, deviceVars
<1>3. ClientOK(c, Close(gnubby[c]), synced[c], results[c], wire) /\ Stays(gnubby[c], Close(gnubby[c]))
  BY <1>1, CloseOK, CloseStays
<1>4. QED
  BY <1>2, <1>3, QuietSteps

LEMMA AskCloseOK ==
    ASSUME ClientInv, NEW c \in OwnClients, AskClose(c)
    PROVE  ClientInv'
<1> DEFINE t == CloseWhenIdle(gnubby[c])
<1>1. ClientOK(c, gnubby[c], synced[c], results[c], wire) /\ DOMAIN gnubby[c] = Fields
  BY ClientFacts
<1>2. Becomes(c, t) /\ UNCHANGED <<members, dead, wire, synced, results>>
  BY DEF AskClose, deviceVars
<1>3. ClientOK(c, t, synced[c], results[c], wire) /\ Stays(gnubby[c], t)
  BY <1>1, CloseOK, CloseStays
<1>4. QED
  BY <1>2, <1>3, QuietSteps
-----------------------------------------------------------------------------
(***************************************************************************)
(* The frames the device publishes: what hearing one does to a client.     *)
(***************************************************************************)
Heard(c, s, t, sy, rs, f) ==
    /\ Base(c, t, sy, rs) /\ DOMAIN t = Fields
    /\ t.closed = s.closed /\ t.cid = s.cid /\ t.op = s.op /\ t.msg = s.msg
    /\ t.reading = s.reading /\ t.leftover = s.leftover /\ t.dev = s.dev
    /\ t.rxframes = Append(s.rxframes, f)
    /\ Ready(t, sy) => Ready(s, sy)
    /\ Ready(t, sy) /\ InSync(c, s, sy) => InSync(c, t, sy)
    /\ sy # <<>> /\ Ready(s, sy) => Ready(t, sy)
    /\ \A data : OwnFrames(s.rxframes, data) /\ (f.kind = "error" \/ f.data = data)
                   => OwnFrames(t.rxframes, data)
    /\ t.rxcb = None
    /\ \A fn \in ReadTasks : ~NoTask(t.tasks, {fn}) => s.rxcb = fn \/ ~NoTask(s.tasks, {fn})
    /\ \A data : Replies(s.tasks, data) => Replies(t.tasks, data)

LEMMA HeardOK ==
    ASSUME NEW c, NEW s, NEW sy, NEW rs, Base(c, s, sy, rs), NEW f, FrameOK(f), Hears(s, f)
    PROVE  Heard(c, s, ReceivedFrame(s, f), sy, rs, f)
<1> DEFINE t == ReceivedFrame(s, f)
           e == Task(s.rxcb)
<1>1. RecordOK(c, s) /\ ~s.closed
  BY DEF Base, Hears
<1>2. /\ DOMAIN t = Fields /\ t.rxcb = None /\ t.rxframes = Append(s.rxframes, f)
      /\ t.tasks = IF s.rxcb = None THEN s.tasks ELSE Append(s.tasks, e)
      /\ t.cid = s.cid /\ t.closed = s.closed /\ t.dev = s.dev
      /\ t.op = s.op /\ t.reading = s.reading
      /\ t.msg = s.msg /\ t.mode = s.mode /\ t.trycount = s.trycount /\ t.tid = s.tid
      /\ t.leftover = s.leftover
  BY <1>1 DEF RecordOK, Fields, ReceivedFrame
<1>3. e.fn = s.rxcb
  BY DEF Task
<1> HIDE DEF t, e
<1>4. /\ s.rxcb \in ReadTasks \cup {None, "checkSentinel"}
      /\ IsSeq(s.rxframes) /\ IsSeq(s.tasks)
  BY <1>1 DEF RecordOK
<1>5. /\ IsSeq(t.rxframes)
      /\ \A i \in DOMAIN t.rxframes :
           t.rxframes[i] = f \/ (i \in DOMAIN s.rxframes /\ t.rxframes[i] = s.rxframes[i])
  <2>1. /\ IsSeq(t.rxframes) /\ DOMAIN t.rxframes = 1..(Len(s.rxframes) + 1)
        /\ t.rxframes[Len(s.rxframes) + 1] = f
        /\ \A i \in DOMAIN s.rxframes : t.rxframes[i] = s.rxframes[i]
    BY <1>2, <1>4, AppendFacts
  <2>2. Len(s.rxframes) \in Nat /\ DOMAIN s.rxframes = 1..Len(s.rxframes)
    BY <1>4, SeqFacts
  <2>3. QED
    BY <2>1, <2>2
<1>6. CASE s.rxcb = None
  <2>1. t.tasks = s.tasks
    BY <1>2, <1>6
  <2>2. RecordOK(c, t)
    BY <1>1, <1>2, <1>5, <2>1 DEF RecordOK
  <2>3. OneRead(t) /\ OneExchange(t, sy, rs) /\ Reported(c, t, rs) /\ ReportInv(t, sy)
    BY <1>2, <1>6, <2>1 DEF Base, OneRead, OneExchange, Reported, ReportInv, None, ReadTasks
  <2>4. (Ready(t, sy) <=> Ready(s, sy)) /\ (InSync(c, s, sy) => InSync(c, t, sy))
    BY <1>2, <2>1 DEF Ready, FirstOK, InSync, None
  <2>5. QED
    BY <1>2, <1>5, <2>1, <2>2, <2>3, <2>4 DEF Heard, Base, OwnFrames, t
<1>7. CASE s.rxcb # None
  <2>1. t.tasks = Append(s.tasks, e)
    BY <1>2, <1>7
  <2>2. /\ IsSeq(t.tasks)
        /\ \A fns : NoTask(t.tasks, fns) <=> NoTask(s.tasks, fns) /\ s.rxcb \notin fns
        /\ \A fns : OneTask(s.tasks, fns) /\ s.rxcb \notin fns => OneTask(t.tasks, fns)
        /\ \A fns : NoTask(s.tasks, fns) => OneTask(t.tasks, fns)
        /\ ChecksFirst(s.tasks) /\ s.rxcb # "checkSentinel" => ChecksFirst(t.tasks)
        /\ OKFirst(t.tasks) => OKFirst(s.tasks) \/ s.rxcb = "synced"
        /\ \A data : Replies(s.tasks, data) /\ s.rxcb # "retryBusy" => Replies(t.tasks, data)
    BY <1>3, <1>4, <2>1, TasksAppend
  <2>3. s.rxcb \in {"init_frame", "cont_frame", "checkSentinel"}
    BY <1>4, <1>7 DEF ReadTasks
  <2>4. RecordOK(c, t)
    BY <1>1, <1>2, <1>5, <2>2 DEF RecordOK
  <2>5. OneRead(t)
    BY <1>2, <2>2 DEF Base, OneRead, None, ReadTasks
  <2>6. OneExchange(t, sy, rs) /\ Reported(c, t, rs)
    BY <1>2, <2>2, <2>3 DEF Base, OneExchange, Reported
  <2>7. ReportInv(t, sy)
    <3>1. \A fns : NoTask(t.tasks, fns) => OneTask(t.tasks, fns)
      BY DEF NoTask, OneTask
    <3>2. s.rxcb \in SyncTasks => s.rxcb = "checkSentinel"
      BY <2>3 DEF SyncTasks
    <3>3. QED
      BY <1>2, <2>2, <3>1, <3>2 DEF Base, ReportInv, None
  <2>8. /\ Ready(t, sy) => Ready(s, sy)
        /\ sy # <<>> /\ Ready(s, sy) => Ready(t, sy)
    BY <1>2, <2>2, <2>3 DEF Ready, FirstOK
  <2>9. InSync(c, s, sy) => InSync(c, t, sy)
    BY <1>2, <2>2, <2>3 DEF InSync, None, SyncTasks
  <2>10. \A data : Replies(s.tasks, data) => Replies(t.tasks, data)
    BY <2>2, <2>3
  <2>11. \A fn \in ReadTasks : ~NoTask(t.tasks, {fn}) => s.rxcb = fn \/ ~NoTask(s.tasks, {fn})
    BY <2>2
  <2>12. QED
    BY <1>2, <1>5, <2>4, <2>5, <2>6, <2>7, <2>8, <2>9, <2>10, <2>11 DEF Heard, Base, OwnFrames, t
<1>8. QED
  BY <1>6, <1>7

(***************************************************************************)
(* The device is destroyed.                                                *)
(***************************************************************************)
LEMMA GoneFrameOK ==
    ASSUME NEW c, NEW s, NEW sy, NEW rs, NEW w, NEW x, ClientOK(c, s, sy, rs, w)
    PROVE  LET t == [ReceivedFrame(s, GoneFrame) EXCEPT !.closed = TRUE] IN
           /\ ClientOK(c, t, sy, rs, x)
           /\ t.closed = TRUE /\ t.reading = s.reading /\ DOMAIN t = Fields
<1> DEFINE r == ReceivedFrame(s, GoneFrame)
           t == [r EXCEPT !.closed = TRUE]
           f == GoneFrame
<1>1. Base(c, s, sy, rs) /\ ReadInv(c, s, sy) /\ RecordOK(c, s)
  BY DEF ClientOK, Base
<1>2. f.kind = "error" /\ f.code = "GONE" /\ f.cid = NOTIFICATION_CID
  BY DEF GoneFrame, ErrorFrame
<1>3. FrameOK(f)
  BY <1>2 DEF FrameOK, CommandKinds
<1> HIDE DEF f
<1>4. /\ Base(c, r, sy, rs) /\ DOMAIN r = Fields /\ r.reading = s.reading
      /\ r.leftover = s.leftover /\ r.op = s.op /\ r.msg = s.msg
      /\ ~s.leftover => Replies(r.tasks, <<c, s.op>>)
      /\ s.reading /\ ~s.leftover =>
           /\ OwnFrames(r.rxframes, <<c, s.op>>)
           /\ r.rxcb = "init_frame" \/ ~NoTask(r.tasks, {"init_frame"}) => s.msg = NoData
           /\ r.rxcb = "cont_frame" \/ ~NoTask(r.tasks, {"cont_frame"}) => s.msg # NoData
           /\ s.msg \in {NoData, <<c, s.op>>}
  <2>1. CASE Hears(s, f)
    <3>1. Heard(c, s, r, sy, rs, f)
      BY <1>1, <1>3, <2>1, HeardOK DEF f
    <3> HIDE DEF r
    <3>2. /\ Base(c, r, sy, rs) /\ DOMAIN r = Fields /\ r.reading = s.reading
          /\ r.leftover = s.leftover /\ r.op = s.op /\ r.msg = s.msg /\ r.rxcb = None
          /\ \A data : Replies(s.tasks, data) => Replies(r.tasks, data)
          /\ \A data : OwnFrames(s.rxframes, data) => OwnFrames(r.rxframes, data)
          /\ \A fn \in ReadTasks : ~NoTask(r.tasks, {fn}) => s.rxcb = fn \/ ~NoTask(s.tasks, {fn})
      BY <1>2, <3>1 DEF Heard
    <3>3. "init_frame" \in ReadTasks /\ "cont_frame" \in ReadTasks
      BY DEF ReadTasks
    <3>4. s.reading /\ ~s.leftover => Reading(c, s, sy)
      BY <1>1 DEF ReadInv
    <3>5. QED
      BY <1>1, <3>2, <3>3, <3>4 DEF ReadInv, Reading, None
  <2>2. CASE ~Hears(s, f)
    <3>1. r = s
      BY <2>2 DEF ReceivedFrame, f
    <3> HIDE DEF r
    <3>2. QED
      BY <1>1, <3>1 DEF ReadInv, Reading, RecordOK
  <2>3. QED
    BY <2>1, <2>2
<1> HIDE DEF r
<1>5. /\ DOMAIN t = Fields /\ t.closed = TRUE
      /\ t.cid = r.cid /\ t.dev = r.dev /\ t.rxframes = r.rxframes
      /\ t.rxcb = r.rxcb /\ t.tasks = r.tasks /\ t.op = r.op /\ t.reading = r.reading
      /\ t.msg = r.msg /\ t.mode = r.mode /\ t.trycount = r.trycount /\ t.tid = r.tid
      /\ t.leftover = r.leftover
  BY <1>4 DEF Fields
<1> HIDE DEF t
<1>6. RecordOK(c, t)
  BY <1>4, <1>5 DEF Base, RecordOK
<1>7. OneRead(t) /\ OneExchange(t, sy, rs) /\ Reported(c, t, rs) /\ ReportInv(t, sy)
  BY <1>4, <1>5 DEF Base, OneRead, OneExchange, Reported, ReportInv
<1>8. ReadyInv(c, t, sy, x)
  BY <1>5 DEF ReadyInv, Ready
<1>9. ReadInv(c, t, sy)
  BY <1>4, <1>5 DEF ReadInv, Reading
<1>10. QED
  BY <1>4, <1>5, <1>6, <1>7, <1>8, <1>9 DEF ClientOK, Base, t, r, f

LEMMA GoneOK ==
    ASSUME ClientInv, NEW c \in OwnClients, NEW x
    PROVE  /\ ClientOK(c, Gone(c), synced[c], results[c], x)
           /\ Gone(c).closed = TRUE /\ Gone(c).reading = gnubby[c].reading
           /\ DOMAIN Gone(c) = Fields
<1>1. ClientOK(c, gnubby[c], synced[c], results[c], wire) /\ RecordOK(c, gnubby[c]) /\ DeviceOK
  BY ClientFacts
<1>2. CASE c \in members
  <2>1. Gone(c) = [ReceivedFrame(gnubby[c], GoneFrame) EXCEPT !.closed = TRUE]
    BY <1>2 DEF Gone
  <2>2. QED
    BY <1>1, <2>1, GoneFrameOK
<1>3. CASE c \notin members
  <2>1. Gone(c) = gnubby[c]
    BY <1>3 DEF Gone
  <2>2. gnubby[c].closed = TRUE /\ ~Ready(gnubby[c], synced[c])
    BY <1>1, <1>3 DEF DeviceOK, Ready, RecordOK
  <2>3. ClientOK(c, gnubby[c], synced[c], results[c], x)
    BY <1>1, <2>2 DEF ClientOK, ReadyInv
  <2>4. QED
    BY <1>1, <2>1, <2>2, <2>3 DEF RecordOK
<1>4. QED
  BY <1>2, <1>3

LEMMA DestroyedOK ==
    ASSUME ClientInv, Destroyed, UNCHANGED <<synced, results>>, DOMAIN gnubby' = OwnClients,
           \A c \in OwnClients :
             gnubby'[c].closed /\ ClientOK(c, gnubby'[c], synced[c], results[c], <<>>)
    PROVE  ClientInv'
<1>1. WireOK'
  BY EmptySequence DEF WireOK, Destroyed
<1>2. DeviceOK'
  BY DEF DeviceOK, Destroyed
<1>3. wire' = <<>>
  BY DEF Destroyed
<1>4. \A c \in OwnClients : ClientOK(c, gnubby'[c], synced'[c], results'[c], wire')
  BY <1>3
<1>5. QED
  BY <1>1, <1>2, <1>4 DEF ClientInv

LEMMA DeviceGoneOK ==
    ASSUME ClientInv, DeviceGone
    PROVE  ClientInv'
<1>1. /\ Destroyed /\ gnubby' = [c \in OwnClients |-> Gone(c)]
      /\ UNCHANGED <<synced, results>>
  BY DEF DeviceGone
<1>2. \A c \in OwnClients : /\ gnubby'[c] = Gone(c)
                            /\ Gone(c).closed = TRUE
                            /\ ClientOK(c, Gone(c), synced[c], results[c], <<>>)
  BY <1>1, GoneOK
<1>3. QED
  BY <1>1, <1>2, DestroyedOK

LEMMA ReadTimeoutOK ==
    ASSUME ClientInv, NEW c \in OwnClients, ReadTimeout(c)
    PROVE  ClientInv'
<1>1. gnubby[c].reading /\ UNCHANGED <<synced, results>>
  BY DEF ReadTimeout
<1>2. "TIMEOUT" # "OK"
  OBVIOUS
<1>3. CASE /\ Destroyed
           /\ gnubby' = [d \in OwnClients |-> IF d = c THEN ScheduleCb(Gone(c), "TIMEOUT", NoData)
                                                       ELSE Gone(d)]
  <2> DEFINE t == ScheduleCb(Gone(c), "TIMEOUT", NoData)
  <2>1. \A d \in OwnClients : /\ ClientOK(d, Gone(d), synced[d], results[d], <<>>)
                              /\ Gone(d).closed = TRUE
                              /\ Gone(d).reading = gnubby[d].reading /\ DOMAIN Gone(d) = Fields
    BY GoneOK
  <2>2. Base(c, Gone(c), synced[c], results[c]) /\ Gone(c).reading /\ ~Ready(Gone(c), synced[c])
    BY <1>1, <2>1 DEF ClientOK, Ready
  <2>3. ClientOK(c, t, synced[c], results[c], <<>>)
    BY <1>2, <2>2, ScheduleCbOK
  <2>4. Stays(Gone(c), t)
    BY <2>1, FunctionsStay
  <2>5. t.closed
    BY <2>1, <2>4 DEF Stays
  <2> HIDE DEF t
  <2>6. /\ DOMAIN gnubby' = OwnClients
        /\ \A d \in OwnClients : gnubby'[d] = IF d = c THEN t ELSE Gone(d)
    BY <1>3 DEF t
  <2>7. QED
    BY <1>1, <1>3, <2>1, <2>3, <2>5, <2>6, DestroyedOK
<1>4. CASE /\ ~(gnubby[c].dev /\ ~dead)
           /\ Becomes(c, ScheduleCb(gnubby[c], "TIMEOUT", NoData))
           /\ UNCHANGED <<members, dead, wire>>
  <2> DEFINE t == ScheduleCb(gnubby[c], "TIMEOUT", NoData)
  <2>1. /\ RecordOK(c, gnubby[c]) /\ Base(c, gnubby[c], synced[c], results[c]) /\ DeviceOK
        /\ DOMAIN gnubby[c] = Fields
    BY ClientFacts
  <2>2. ~Ready(gnubby[c], synced[c])
    BY <1>4, <2>1 DEF RecordOK, DeviceOK, Ready
  <2>3. ClientOK(c, t, synced[c], results[c], wire)
    BY <1>1, <1>2, <2>1, <2>2, ScheduleCbOK
  <2>4. Stays(gnubby[c], t)
    BY <2>1, FunctionsStay
  <2> HIDE DEF t
  <2>5. Becomes(c, t)
    BY <1>4 DEF t
  <2>6. QED
    BY <1>1, <1>4, <2>3, <2>4, <2>5, QuietSteps
<1>5. QED
  BY <1>3, <1>4 DEF ReadTimeout
-----------------------------------------------------------------------------
(***************************************************************************)
(* The key answers.  The channels of two clients differ, so a client that  *)
(* is ready hears the answers to its own commands, and no others.          *)
(***************************************************************************)
LEMMA ChannelsDiffer ==
    ASSUME NEW c, NEW d, NEW cid, cid \in OwnCids(c), cid \in OwnCids(d) \cup {BROADCAST_CID}
    PROVE  c = d /\ cid # NOTIFICATION_CID
<1>1. \/ cid = <<"default", c>> \/ cid = <<"random", c>> \/ cid = <<"allotted", c>>
  BY DEF OwnCids, DefaultChannelId, RandomChannelId
<1>2. \/ cid = <<"default", d>> \/ cid = <<"random", d>> \/ cid = <<"allotted", d>>
      \/ cid = <<"broadcast", 0>>
  BY DEF OwnCids, DefaultChannelId, RandomChannelId, BROADCAST_CID
<1>3. cid[1] \in {"default", "random", "allotted"} /\ cid[2] = c
  BY <1>1
<1>4. cid[2] = d \/ cid[1] = "broadcast"
  BY <1>2
<1>5. cid # <<"notification", 0>>
  BY <1>3
<1>6. QED
  BY <1>3, <1>4, <1>5 DEF NOTIFICATION_CID

LEMMA NotNotified ==
    ASSUME NEW d, NEW cid \in OwnCids(d) \cup {BROADCAST_CID}
    PROVE  cid # NOTIFICATION_CID
<1>1. \/ cid = <<"default", d>> \/ cid = <<"random", d>> \/ cid = <<"allotted", d>>
      \/ cid = <<"broadcast", 0>>
  BY DEF OwnCids, DefaultChannelId, RandomChannelId, BROADCAST_CID
<1>2. cid[1] # "notification"
  BY <1>1
<1>3. QED
  BY <1>2 DEF NOTIFICATION_CID

\* What is on its way to a ready client whose command is the oldest one.
Expects(c, s, w) ==
    LET f == s.rxframes IN
    /\ s.reading /\ SentBy(c, w) = {1} /\ w[1].cid = s.cid /\ w[1].data = <<c, s.op>>
    /\ \/ w[1].kind = "apdu" /\ f = <<>> /\ s.msg = NoData
       \/ w[1].kind = "cont" /\ f = <<>> /\ s.msg = <<c, s.op>>
       \/ w[1].kind = "cont" /\ s.msg = NoData /\ Len(f) = 1 /\ FirstPart(f[1])

LEMMA OldestCommand ==
    ASSUME ClientInv, wire # <<>>, NEW c \in OwnClients, Ready(gnubby[c], synced[c]),
           NEW f, f.cid = Head(wire).cid
    PROVE  /\ Hears(gnubby[c], f) <=> Head(wire).from = c
           /\ Head(wire).from = c => Expects(c, gnubby[c], wire)
<1> DEFINE s == gnubby[c]
           cmd == Head(wire)
<1>1. /\ ClientOK(c, s, synced[c], results[c], wire) /\ RecordOK(c, s) /\ WireOK
  BY ClientFacts
<1>2. /\ IsSeq(wire) /\ 1 \in DOMAIN wire /\ cmd = wire[1]
      /\ cmd.from \in OwnClients \cup Others
      /\ cmd.cid \in OwnCids(cmd.from) \cup {BROADCAST_CID}
  BY <1>1, SeqFacts DEF WireOK
<1> HIDE DEF cmd
<1>3. InSync(c, s, synced[c]) /\ IF s.reading THEN Arriving(c, s, wire) ELSE Quiet(c, s, wire)
  BY <1>1 DEF ClientOK, ReadyInv
<1>4. s.cid \in OwnCids(c) /\ ~s.closed
  BY <1>3 DEF InSync, Ready
<1>5. Hears(s, f) <=> cmd.cid = s.cid
  <2>1. cmd.cid # NOTIFICATION_CID
    BY <1>2, NotNotified
  <2>2. QED
    BY <1>4, <2>1 DEF Hears, cmd
<1>6. ASSUME cmd.cid = s.cid PROVE cmd.from = c
  <2>1. cmd.cid \in OwnCids(c)
    BY <1>4, <1>6
  <2>2. QED
    BY <1>2, <2>1, ChannelsDiffer
<1>7. ASSUME cmd.from = c PROVE cmd.cid = s.cid /\ Expects(c, s, wire)
  <2>1. 1 \in SentBy(c, wire)
    BY <1>2, <1>7 DEF SentBy
  <2>2. s.reading /\ Arriving(c, s, wire)
    BY <1>3, <2>1 DEF Quiet
  <2>3. \A kind : OnlyCommand(c, s, wire, kind) =>
          /\ SentBy(c, wire) = {1} /\ wire[1].cid = s.cid
          /\ wire[1].data = <<c, s.op>> /\ wire[1].kind = kind
    BY <2>1 DEF OnlyCommand
  <2>4. QED
    BY <1>2, <2>1, <2>2, <2>3 DEF Arriving, Expects
<1>8. QED
  BY <1>5, <1>6, <1>7 DEF cmd

\* The client the answer is for, once it heard it.
Delivered(c, s, f, x) ==
    /\ s.reading
    /\ f.kind = "error" \/ f.data = <<c, s.op>>
    /\ \A t : /\ t.rxframes = Append(s.rxframes, f)
              /\ t.cid = s.cid /\ t.op = s.op /\ t.msg = s.msg
              => Arriving(c, t, x)

LEMMA PublishOK ==
    ASSUME ClientInv, NEW f, FrameOK(f), Publish(f), wire # <<>>, f.cid = Head(wire).cid,
           UNCHANGED <<dead, synced, results>>, WireOK',
           \A c : Head(wire).from # c => Keeps(c, wire, wire'),
           \A c \in OwnClients : Expects(c, gnubby[c], wire) => Delivered(c, gnubby[c], f, wire')
    PROVE  ClientInv'
<1>1. /\ DOMAIN gnubby' = OwnClients
      /\ \A c \in OwnClients :
           gnubby'[c] = IF c \in members THEN ReceivedFrame(gnubby[c], f) ELSE gnubby[c]
      /\ members' = {c \in members : ~gnubby[c].closed}
  BY DEF Publish
<1>2. ASSUME NEW c \in OwnClients, Hears(gnubby[c], f)
      PROVE  /\ ClientOK(c, ReceivedFrame(gnubby[c], f), synced[c], results[c], wire')
             /\ ReceivedFrame(gnubby[c], f).closed = gnubby[c].closed
  <2> DEFINE s == gnubby[c]
             t == ReceivedFrame(s, f)
             sy == synced[c]
             rs == results[c]
  <2>1. ClientOK(c, s, sy, rs, wire) /\ Base(c, s, sy, rs)
    BY ClientFacts
  <2>2. Heard(c, s, t, sy, rs, f)
    BY <1>2, <2>1, HeardOK
  <2> HIDE DEF t
  <2>3. Ready(s, sy) => InSync(c, s, sy) /\ Delivered(c, s, f, wire')
    <3>1. ASSUME Ready(s, sy) PROVE Expects(c, s, wire)
      BY <1>2, <3>1, OldestCommand
    <3>2. QED
      BY <2>1, <3>1 DEF ClientOK, ReadyInv
  <2>4. ReadyInv(c, t, sy, wire')
    <3> SUFFICES ASSUME Ready(t, sy) PROVE InSync(c, t, sy) /\ t.reading /\ Arriving(c, t, wire')
      BY DEF ReadyInv
    <3>1. InSync(c, s, sy) /\ Delivered(c, s, f, wire') /\ InSync(c, t, sy)
      BY <2>2, <2>3 DEF Heard
    <3>2. t.reading
      BY <2>2, <3>1 DEF Heard, Delivered
    <3>3. Arriving(c, t, wire')
      BY <2>2, <3>1 DEF Heard, Delivered
    <3>4. QED
      BY <3>1, <3>2, <3>3
  <2>5. ReadInv(c, t, sy)
    <3>1. ASSUME t.reading, ~t.leftover PROVE Reading(c, t, sy)
      <4>1. s.reading /\ ~s.leftover /\ Reading(c, s, sy) /\ ~s.closed
        BY <1>2, <2>1, <2>2, <3>1 DEF Heard, ClientOK, ReadInv, Hears
      <4>2. Ready(s, sy)
        BY <4>1 DEF Reading
      <4>3. f.kind = "error" \/ f.data = <<c, s.op>>
        BY <2>3, <4>2 DEF Delivered
      <4>4. sy # <<>>
        BY <2>1, <4>1, ExchangeSynced
      <4>5. Ready(t, sy) /\ OwnFrames(t.rxframes, <<c, t.op>>)
        BY <2>2, <4>1, <4>2, <4>3, <4>4 DEF Heard, Reading
      <4>6. "init_frame" \in ReadTasks /\ "cont_frame" \in ReadTasks
        BY DEF ReadTasks
      <4>7. /\ t.msg = s.msg /\ t.op = s.op /\ t.rxcb = None
            /\ \A fn \in ReadTasks : ~NoTask(t.tasks, {fn}) => s.rxcb = fn \/ ~NoTask(s.tasks, {fn})
        BY <2>2 DEF Heard
      <4>8. QED
        BY <4>1, <4>5, <4>6, <4>7 DEF Reading, None
    <3>2. ASSUME ~t.leftover PROVE Replies(t.tasks, <<c, t.op>>)
      BY <2>1, <2>2, <3>2 DEF Heard, ClientOK, ReadInv
    <3>3. QED
      BY <3>1, <3>2 DEF ReadInv
  <2>6. Base(c, t, sy, rs) /\ t.closed = s.closed
    BY <2>2 DEF Heard
  <2>7. QED
    BY <2>4, <2>5, <2>6 DEF ClientOK, t
<1>3. ASSUME NEW c \in OwnClients, ~Hears(gnubby[c], f)
      PROVE  ClientOK(c, gnubby[c], synced[c], results[c], wire')
  <2>1. ClientOK(c, gnubby[c], synced[c], results[c], wire)
    BY ClientFacts
  <2>2. CASE Ready(gnubby[c], synced[c])
    <3>1. Head(wire).from # c
      BY <1>3, <2>2, OldestCommand
    <3>2. Keeps(c, wire, wire')
      BY <3>1
    <3>3. QED
      BY <2>1, <3>2, KeepsOK
  <2>3. CASE ~Ready(gnubby[c], synced[c])
    BY <2>1, <2>3 DEF ClientOK, ReadyInv
  <2>4. QED
    BY <2>2, <2>3
<1>4. ASSUME NEW c \in OwnClients, c \notin members
      PROVE  gnubby[c].closed
  BY <1>4 DEF ClientInv, DeviceOK
<1>5. ASSUME NEW c \in OwnClients
      PROVE  /\ ClientOK(c, gnubby'[c], synced'[c], results'[c], wire')
             /\ gnubby[c].closed => gnubby'[c].closed
  <2>1. CASE c \in members /\ Hears(gnubby[c], f)
    BY <1>1, <1>2, <2>1
  <2>2. CASE c \notin members \/ ~Hears(gnubby[c], f)
    <3>1. ~Hears(gnubby[c], f)
      BY <1>4, <2>2 DEF Hears
    <3>2. gnubby'[c] = gnubby[c]
      BY <1>1, <3>1 DEF ReceivedFrame
    <3>3. QED
      BY <1>3, <3>1, <3>2
  <2>3. QED
    BY <2>1, <2>2
<1>6. DeviceOK'
  <2>1. DeviceOK /\ ~dead
    BY DEF ClientInv, DeviceOK
  <2>2. \A c \in OwnClients : c \notin members' => gnubby'[c].closed
    BY <1>1, <1>4, <1>5
  <2>3. QED
    BY <2>1, <2>2 DEF DeviceOK
<1>7. QED
  BY <1>1, <1>5, <1>6 DEF ClientInv

\* The next command takes the place of the oldest one.
LEMMA WireShrinksOK ==
    ASSUME WireOK, wire # <<>>, wire' = Tail(wire)
    PROVE  /\ WireOK' /\ (\A c : Head(wire).from # c => Keeps(c, wire, wire'))
           /\ \A c : SentBy(c, wire) = {1} => SentBy(c, wire') = {}
           /\ Head(wire) = wire[1] /\ wire[1].kind \in CommandKinds
<1>1. IsSeq(wire)
  BY DEF WireOK
<1>2. /\ \A c : Head(wire).from # c => Keeps(c, wire, wire')
      /\ \A c : SentBy(c, wire) = {1} => SentBy(c, wire') = {}
      /\ IsSeq(wire') /\ Head(wire) = wire[1] /\ 1 \in DOMAIN wire
      /\ \A i \in DOMAIN wire' : i + 1 \in DOMAIN wire /\ wire'[i] = wire[i + 1]
  BY <1>1, WireShrinks
<1>3. WireOK'
  BY <1>2 DEF WireOK
<1>4. QED
  BY <1>2, <1>3 DEF WireOK

\* The last frame of a reply arrives.
LEMMA LastFrame ==
    ASSUME NEW c, NEW s, NEW w, NEW x, Expects(c, s, w), IsSeq(s.rxframes),
           SentBy(c, x) = {}, NEW f,
           \/ w[1].kind # "cont" /\ (f.kind = "error" \/ (f.kind = "apdu" /\ ~f.more /\ f.data = w[1].data))
           \/ w[1].kind = "cont" /\ LastPart(f) /\ f.data = w[1].data
    PROVE  Delivered(c, s, f, x)
<1>1. s.reading /\ w[1].data = <<c, s.op>>
  BY DEF Expects
<1>2. f.kind = "error" \/ f.data = <<c, s.op>>
  BY <1>1
<1>3. ASSUME NEW t, t.rxframes = Append(s.rxframes, f), t.cid = s.cid, t.op = s.op, t.msg = s.msg
      PROVE  Arriving(c, t, x)
  <2> DEFINE q == t.rxframes
  <2>1. /\ IsSeq(q) /\ Len(q) = Len(s.rxframes) + 1 /\ q[Len(s.rxframes) + 1] = f
        /\ \A i \in DOMAIN s.rxframes : q[i] = s.rxframes[i]
    BY <1>3, AppendFacts
  <2>2. /\ Len(s.rxframes) \in Nat /\ DOMAIN s.rxframes = 1..Len(s.rxframes)
        /\ s.rxframes = <<>> => Len(s.rxframes) = 0
    BY SeqFacts
  <2> HIDE DEF q
  <2>3. s.rxframes = <<>> => Len(q) = 1 /\ q[1] = f
    BY <2>1, <2>2
  <2>4. Len(s.rxframes) = 1 => Len(q) = 2 /\ q[2] = f /\ q[1] = s.rxframes[1]
    BY <2>1, <2>2
  <2>5. CASE w[1].kind = "apdu" /\ s.rxframes = <<>> /\ s.msg = NoData
    BY <1>3, <2>3, <2>5 DEF Arriving, q
  <2>6. CASE w[1].kind = "cont" /\ s.rxframes = <<>> /\ s.msg = <<c, s.op>>
    BY <1>3, <2>3, <2>6 DEF Arriving, q
  <2>7. CASE w[1].kind = "cont" /\ s.msg = NoData /\ Len(s.rxframes) = 1 /\ FirstPart(s.rxframes[1])
    BY <1>3, <2>4, <2>7 DEF Arriving, q
  <2>8. QED
    BY <2>5, <2>6, <2>7 DEF Expects
<1>4. QED
  BY <1>1, <1>2, <1>3 DEF Delivered

\* The first of two frames of a reply arrives.
LEMMA FirstFrame ==
    ASSUME NEW c, NEW s, NEW w, NEW x, Expects(c, s, w), w[1].kind # "cont",
           SentBy(c, x) = {1}, 1 \in DOMAIN x, x[1].kind = "cont",
           x[1].cid = w[1].cid, x[1].data = w[1].data,
           NEW f, FirstPart(f), f.data = w[1].data
    PROVE  Delivered(c, s, f, x)
<1>1. s.reading /\ f.data = <<c, s.op>> /\ s.rxframes = <<>> /\ s.msg = NoData
  BY DEF Expects
<1>2. ASSUME NEW t, t.rxframes = Append(s.rxframes, f), t.cid = s.cid, t.op = s.op, t.msg = s.msg
      PROVE  Arriving(c, t, x)
  <2>1. Len(t.rxframes) = 1 /\ t.rxframes[1] = f
    BY <1>1, <1>2, EmptySequence, AppendFacts
  <2>2. OnlyCommand(c, t, x, "cont")
    BY <1>2 DEF OnlyCommand, Expects
  <2>3. QED
    BY <1>1, <1>2, <2>1, <2>2 DEF Arriving
<1>3. QED
  BY <1>1, <1>2 DEF Delivered

LEMMA KeyAnswersLast ==
    ASSUME ClientInv, NEW f, FrameOK(f), Publish(f), wire # <<>>, wire' = Tail(wire),
           f.cid = Head(wire).cid, UNCHANGED <<dead, synced, results>>,
           \/ /\ Head(wire).kind # "cont"
              /\ f.kind = "error"
                   \/ (f.kind = Head(wire).kind /\ ~f.more /\ f.data = Head(wire).data)
           \/ Head(wire).kind = "cont" /\ LastPart(f) /\ f.data = Head(wire).data
    PROVE  ClientInv'
<1>1. WireOK
  BY DEF ClientInv
<1>2. /\ WireOK' /\ (\A c : Head(wire).from # c => Keeps(c, wire, wire'))
      /\ \A c : SentBy(c, wire) = {1} => SentBy(c, wire') = {}
      /\ Head(wire) = wire[1]
  BY <1>1, WireShrinksOK
<1>3. ASSUME NEW c \in OwnClients, Expects(c, gnubby[c], wire)
      PROVE  Delivered(c, gnubby[c], f, wire')
  <2>1. IsSeq(gnubby[c].rxframes)
    BY ClientFacts DEF RecordOK
  <2>2. SentBy(c, wire') = {} /\ wire[1].kind \in {"apdu", "cont"}
    BY <1>2, <1>3 DEF Expects
  <2>3. \/ /\ wire[1].kind # "cont"
           /\ f.kind = "error" \/ (f.kind = "apdu" /\ ~f.more /\ f.data = wire[1].data)
        \/ wire[1].kind = "cont" /\ LastPart(f) /\ f.data = wire[1].data
    BY <1>2, <2>2
  <2>4. QED
    BY <1>3, <2>1, <2>2, <2>3, LastFrame
<1>4. QED
  BY <1>2, <1>3, PublishOK

LEMMA KeyAnswersFirst ==
    ASSUME ClientInv, NEW f, FrameOK(f), Publish(f), wire # <<>>,
           Head(wire).kind # "cont", wire' = <<[Head(wire) EXCEPT !.kind = "cont"]>> \o Tail(wire),
           f.cid = Head(wire).cid, f.data = Head(wire).data, FirstPart(f),
           UNCHANGED <<dead, synced, results>>
    PROVE  ClientInv'
<1> DEFINE cmd == Head(wire)
           e == [cmd EXCEPT !.kind = "cont"]
<1>1. WireOK /\ IsSeq(wire)
  BY DEF ClientInv, WireOK
<1>2. 1 \in DOMAIN wire /\ cmd = wire[1]
  BY <1>1, SeqFacts
<1>3. DOMAIN cmd = {"from", "cid", "kind", "data"}
  BY <1>1, <1>2 DEF WireOK
<1> HIDE DEF cmd
<1>4. /\ DOMAIN e = {"from", "cid", "kind", "data"}
      /\ e.from = cmd.from /\ e.cid = cmd.cid /\ e.data = cmd.data /\ e.kind = "cont"
  BY <1>3
<1> HIDE DEF e
<1>5. PICK x : x = <<e>> \o Tail(wire)
  OBVIOUS
<1>6. wire' = x
  BY <1>5 DEF e, cmd
<1>7. e.from = Head(wire).from
  BY <1>4 DEF cmd
<1>8. /\ \A c : e.from # c => Keeps(c, wire, x)
      /\ \A c : SentBy(c, wire) = {1} => SentBy(c, x) = {1}
      /\ IsSeq(x) /\ 1 \in DOMAIN x /\ x[1] = e
      /\ \A i \in DOMAIN x : i = 1 \/ (i \in DOMAIN wire /\ x[i] = wire[i])
  <2>1. Continues(wire, x, e)
    BY <1>1, <1>5, <1>7, WireContinues
  <2>2. QED
    BY <2>1 DEF Continues
<1>9. WireOK'
  <2>1. \A i \in DOMAIN x :
          /\ DOMAIN x[i] = {"from", "cid", "kind", "data"}
          /\ x[i].from \in OwnClients \cup Others
          /\ x[i].cid \in OwnCids(x[i].from) \cup {BROADCAST_CID}
          /\ x[i].kind \in CommandKinds
    BY <1>1, <1>2, <1>4, <1>8 DEF WireOK, CommandKinds
  <2>2. QED
    BY <1>6, <1>8, <2>1 DEF WireOK
<1>10. ASSUME NEW c \in OwnClients, Expects(c, gnubby[c], wire)
       PROVE  Delivered(c, gnubby[c], f, x)
  <2>1. SentBy(c, x) = {1}
    BY <1>8, <1>10 DEF Expects
  <2>2. x[1].kind = "cont" /\ x[1].cid = wire[1].cid /\ x[1].data = wire[1].data /\ f.data = wire[1].data
    BY <1>2, <1>4, <1>8 DEF cmd
  <2>3. wire[1].kind # "cont"
    BY <1>2 DEF cmd
  <2>4. QED
    BY <1>8, <1>10, <2>1, <2>2, <2>3, FirstFrame
<1>11. /\ \A c : Head(wire).from # c => Keeps(c, wire, wire')
       /\ \A c \in OwnClients : Expects(c, gnubby[c], wire) => Delivered(c, gnubby[c], f, wire')
  BY <1>6, <1>7, <1>8, <1>10
<1>12. QED
  BY <1>9, <1>11, PublishOK

LEMMA KeyRepliesOK ==
    ASSUME ClientInv, KeyReplies
    PROVE  ClientInv'
<1> DEFINE cmd == Head(wire)
           f == Frame(cmd.cid, cmd.kind, cmd.data, FALSE)
           g == Frame(cmd.cid, "apdu", cmd.data, TRUE)
<1>1. wire # <<>> /\ cmd.kind # "cont" /\ UNCHANGED <<dead, synced, results>>
  BY DEF KeyReplies
<1>2. cmd.kind \in CommandKinds
  BY <1>1, SeqFacts DEF ClientInv, WireOK
<1>3. /\ f.kind = cmd.kind /\ f.cid = cmd.cid /\ f.data = cmd.data /\ ~f.more
      /\ g.kind = "apdu" /\ g.cid = cmd.cid /\ g.data = cmd.data /\ g.more
  BY DEF Frame
<1>4. FrameOK(f) /\ FrameOK(g) /\ FirstPart(g)
  BY <1>2, <1>3 DEF FrameOK, CommandKinds, FirstPart
<1>5. CASE Publish(f) /\ wire' = Tail(wire)
  <2> HIDE DEF f
  <2>1. QED
    BY <1>1, <1>3, <1>4, <1>5, KeyAnswersLast
<1>6. CASE Publish(g) /\ wire' = <<[cmd EXCEPT !.kind = "cont"]>> \o Tail(wire)
  <2> HIDE DEF g
  <2>1. QED
    BY <1>1, <1>3, <1>4, <1>6, KeyAnswersFirst
<1>7. QED
  BY <1>5, <1>6 DEF KeyReplies

LEMMA KeyContinuesOK ==
    ASSUME ClientInv, KeyContinues
    PROVE  ClientInv'
<1> DEFINE cmd == Head(wire)
<1>1. wire # <<>> /\ cmd.kind = "cont" /\ wire' = Tail(wire) /\ UNCHANGED <<dead, synced, results>>
  BY DEF KeyContinues
<1>2. PICK kind \in {"cont", "badcont"} : Publish(Frame(cmd.cid, kind, cmd.data, FALSE))
  BY DEF KeyContinues
<1> DEFINE f == Frame(cmd.cid, kind, cmd.data, FALSE)
<1>3. f.kind = kind /\ f.cid = cmd.cid /\ f.data = cmd.data
  BY DEF Frame
<1>4. FrameOK(f) /\ LastPart(f)
  BY <1>2, <1>3 DEF FrameOK, CommandKinds, LastPart
<1>5. Publish(f)
  BY <1>2
<1> HIDE DEF f
<1>6. QED
  BY <1>1, <1>3, <1>4, <1>5, KeyAnswersLast

LEMMA KeyRefusesOK ==
    ASSUME ClientInv, NEW e \in {"BUSY", "OTHER", "INVALID_CMD"}, KeyRefuses(e)
    PROVE  ClientInv'
<1> DEFINE cmd == Head(wire)
           f == ErrorFrame(cmd.cid, e)
<1>1. /\ wire # <<>> /\ cmd.kind # "cont" /\ wire' = Tail(wire) /\ Publish(f)
      /\ UNCHANGED <<dead, synced, results>>
  BY DEF KeyRefuses
<1>2. f.kind = "error" /\ f.cid = cmd.cid /\ f.code = e
  BY DEF ErrorFrame
<1>3. FrameOK(f)
  BY <1>2 DEF FrameOK
<1> HIDE DEF f
<1>4. QED
  BY <1>1, <1>2, <1>3, KeyAnswersLast

LEMMA OthersInitOK ==
    ASSUME ClientInv, NEW o \in Others, OthersInit(o)
    PROVE  ClientInv'
<1> DEFINE cmd == [cid |-> BROADCAST_CID, kind |-> "init", data |-> <<o, 0>>]
<1>1. cmd.cid \in OwnCids(o) \cup {BROADCAST_CID} /\ cmd.kind \in CommandKinds
  BY DEF CommandKinds
<1>2. Sends(By(o, cmd)) /\ UNCHANGED <<gnubby, members, dead, results, synced>>
  BY DEF OthersInit
<1> HIDE DEF cmd
<1>3. WireOK /\ DeviceOK /\ (dead => wire = <<>>)
  BY DEF ClientInv, DeviceOK
<1>4. WireOK' /\ (dead => wire' = <<>>) /\ OthersKeep(o)
  BY <1>1, <1>2, <1>3, SendsOK
<1>5. \A d \in OwnClients : Keeps(d, wire, wire')
  BY <1>4, OthersAssumption DEF OthersKeep
<1>6. \A d \in OwnClients : ClientOK(d, gnubby'[d], synced'[d], results'[d], wire')
  BY <1>2, <1>5, KeepsOK DEF ClientInv
<1>7. DeviceOK'
  BY <1>2, <1>3, <1>4 DEF DeviceOK
<1>8. QED
  BY <1>2, <1>4, <1>6, <1>7 DEF ClientInv
-----------------------------------------------------------------------------
(***************************************************************************)
(* Every reachable state satisfies the invariant.                          *)
(***************************************************************************)
LEMMA ClientStarts ==
    ASSUME ClientInit
    PROVE  ClientInv
<1>1. WireOK /\ DeviceOK
  BY EmptySequence DEF ClientInit, WireOK, DeviceOK
<1>2. ASSUME NEW c \in OwnClients PROVE ClientOK(c, gnubby[c], synced[c], results[c], wire)
  <2> DEFINE s == gnubby[c]
  <2>1. synced[c] = <<>> /\ results[c] = <<>>
    BY DEF ClientInit
  <2>2. /\ DOMAIN s = Fields
        /\ s.rxframes = <<>> /\ s.rxcb = None /\ s.tasks = <<>>
        /\ s.cid = DefaultChannelId(c) /\ s.closed = FALSE /\ s.dev = TRUE
        /\ s.op = 0 /\ s.reading = FALSE /\ s.msg = NoData /\ s.mode = None
        /\ s.trycount = Tries /\ s.tid = FALSE /\ s.leftover = FALSE
    BY DEF ClientInit, Fields
  <2> HIDE DEF s
  <2>3. /\ \A fns : NoTask(s.tasks, fns) /\ OneTask(s.tasks, fns)
        /\ \A data : Replies(s.tasks, data)
        /\ ~OKFirst(s.tasks)
    BY <2>2, EmptySequence DEF NoTask, OneTask, Replies, OKFirst
  <2>4. RecordOK(c, s)
    <3>1. s.cid \in OwnCids(c) /\ s.cid # BROADCAST_CID
      <4>1. s.cid = <<"default", c>>
        BY <2>2 DEF DefaultChannelId
      <4>2. s.cid[1] # "broadcast"
        BY <4>1
      <4>3. QED
        BY <2>2, <4>2 DEF OwnCids, BROADCAST_CID
    <3>2. IsSeq(s.rxframes) /\ IsSeq(s.tasks) /\ DOMAIN s.rxframes = {}
      BY <2>2, EmptySequence
    <3>3. Tries \in 0..Tries
      BY TriesAssumption
    <3>4. {s.closed, s.dev, s.reading, s.tid, s.leftover} \subseteq BOOLEAN
      BY <2>2
    <3>5. QED
      BY <2>2, <3>1, <3>2, <3>3, <3>4 DEF RecordOK, None
  <2>5. OneRead(s)
    BY <2>2, <2>3 DEF OneRead, None, ReadTasks
  <2>6. OneExchange(s, <<>>, <<>>)
    BY <2>2, <2>3, EmptySequence DEF OneExchange
  <2>7. Reported(c, s, <<>>)
    BY EmptySequence DEF Reported
  <2>8. ReportInv(s, <<>>)
    BY <2>2, <2>3, EmptySequence, TriesAssumption DEF ReportInv, None
  <2>9. ReadyInv(c, s, <<>>, wire) /\ ReadInv(c, s, <<>>)
    BY <2>2, <2>3 DEF ReadyInv, ReadInv, Ready, FirstOK
  <2>10. QED
    BY <2>1, <2>4, <2>5, <2>6, <2>7, <2>8, <2>9 DEF ClientOK, Base, s
<1>3. DOMAIN gnubby = OwnClients /\ DOMAIN synced = OwnClients /\ DOMAIN results = OwnClients
  BY DEF ClientInit
<1>4. QED
  BY <1>1, <1>2, <1>3 DEF ClientInv

LEMMA ClientStutters ==
    ASSUME ClientInv, UNCHANGED clientVars
    PROVE  ClientInv'
BY DEF ClientInv, clientVars, deviceVars, WireOK, DeviceOK

(***************************************************************************)
(* Whatever the key answers, the other clients do and the timers cut off:  *)
(* a client that is in sync has, between exchanges, no command on the wire *)
(* and no frame to read, and while it reads, its command or the frames of  *)
(* the reply are all there is for it.                                      *)
(***************************************************************************)
THEOREM ClientInvariant == ClientSpec => []ClientInv
<1>1. ClientInit => ClientInv
  BY ClientStarts
<1>2. ClientInv /\ [ClientNext]_clientVars => ClientInv'
  <2> SUFFICES ASSUME ClientInv, [ClientNext]_clientVars
               PROVE  ClientInv'
    OBVIOUS
  <2>1. ASSUME NEW c \in OwnClients, ClientStep(c)
        PROVE  ClientInv'
    BY <2>1, ReadFrameOK, CheckSentinelOK, ReportSyncOK, RetryBusyOK, SyncTimeoutOK, ReadTimeoutOK,
       BusyWaitExpiresOK DEF ClientStep
  <2>2. ASSUME NEW c \in OwnClients, Sync(c) \/ Exchange(c) \/ CloseNow(c) \/ AskClose(c)
        PROVE  ClientInv'
    BY <2>2, SyncOK, ExchangeOK, CloseNowOK, AskCloseOK
  <2>3. ASSUME NEW e \in {"BUSY", "OTHER", "INVALID_CMD"}, KeyRefuses(e)
        PROVE  ClientInv'
    BY <2>3, KeyRefusesOK
  <2>4. ASSUME NEW o \in Others, OthersInit(o)
        PROVE  ClientInv'
    BY <2>4, OthersInitOK
  <2>5. CASE KeyReplies \/ KeyContinues \/ DeviceGone
    BY <2>5, KeyRepliesOK, KeyContinuesOK, DeviceGoneOK
  <2>6. CASE UNCHANGED clientVars
    BY <2>6, ClientStutters
  <2>7. QED
    BY <2>1, <2>2, <2>3, <2>4, <2>5, <2>6 DEF ClientNext
<1>3. QED
  BY <1>1, <1>2, PTL DEF ClientSpec

(***************************************************************************)
(* For any number of clients, tries, exchanges and BUSY answers: what an   *)
(* exchange reports as OK is the whole reply to its own command, after a   *)
(* sync that left no sentinel unanswered.                                  *)
(***************************************************************************)
THEOREM OwnReplyCorrect == ClientSpec => []OwnReply
<1>1. ClientInv => OwnReply
  BY DEF ClientInv, ClientOK, Base, Reported, OwnReply
<1>2. QED
  BY <1>1, ClientInvariant, PTL

(***************************************************************************)
(* A sync that got by with one sentinel calls back at most once.           *)
(***************************************************************************)
THEOREM PromptSyncReportsOnceCorrect == ClientSpec => []PromptSyncReportsOnce
<1>1. ClientInv => PromptSyncReportsOnce
  <2> SUFFICES ASSUME ClientInv, NEW c \in OwnClients, Len(synced[c]) > 1
               PROVE  gnubby[c].trycount < Tries - 1
    BY DEF PromptSyncReportsOnce
  <2>1. RecordOK(c, gnubby[c]) /\ ReportInv(gnubby[c], synced[c]) /\ IsSeq(synced[c])
    BY ClientFacts DEF Base, OneExchange
  <2>2. Len(synced[c]) \in Nat /\ ~(Len(synced[c]) <= 1)
    BY <2>1, SeqFacts
  <2>3. gnubby[c].trycount # Tries /\ gnubby[c].trycount # Tries - 1
    BY <2>1, <2>2 DEF ReportInv
  <2>4. QED
    BY <2>1, <2>3, TriesAssumption DEF RecordOK
<1>2. QED
  BY <1>1, ClientInvariant, PTL
-----------------------------------------------------------------------------

USE NamespaceAssumption, ScannerAssumption, RetriesAssumption
    DEF NamespaceAssumption, ScannerAssumption, RetriesAssumption
(***************************************************************************)
(* The loop over the callers that wait for key id to open is running.      *)
(***************************************************************************)
ServingOpen(id) == running.loop = "opened" /\ running.id = id

(***************************************************************************)
(* A key is either being opened or open, and it is being opened exactly    *)
(* when someone waits for it and the loop over those who wait has not      *)
(* begun.  While that loop runs, the key is open if and only if openImpl   *)
(* said so.                                                                *)
(***************************************************************************)
KeyInv(id) ==
    /\ handles[id] = IF id \in DOMAIN openDevs THEN 1 ELSE 0
    /\ opening[id] <= 1
    /\ opening[id] = 1 => id \in DOMAIN pendingOpens /\ id \notin DOMAIN openDevs
                          /\ ~ServingOpen(id)
    /\ id \in DOMAIN pendingOpens => opening[id] = 1 \/ ServingOpen(id)
    /\ ServingOpen(id) => /\ id \in DOMAIN pendingOpens
                          /\ id \in DOMAIN openDevs <=> running.rc = OK

HandleInv == \A id \in Ids : KeyInv(id)

Inv == TypeOK /\ HandleInv /\ OpenClientAttached

Waiters == Seq(Clients \cup {Scanner})
Rounds == Seq([found : SUBSET Ids, asked : SUBSET Namespaces])
States == {"new", "enumerating", "opening", "open", "failed", "left"}
-----------------------------------------------------------------------------
(***************************************************************************)
(* enumerate adds the caller to those in waiting, and at most one round.   *)
(***************************************************************************)
LEMMA EnumerateTypes ==
    ASSUME TypeOK, NEW who \in Clients \cup {Scanner}, NEW waiting \in Waiters,
           Enumerate(who, waiting)
    PROVE  pendingEnumerate' \in Waiters /\ rounds' \in Rounds
<1>1. pendingEnumerate' \in Waiters
  BY DEF Enumerate, Waiters
<1>2. [found |-> {}, asked |-> Namespaces] \in [found : SUBSET Ids, asked : SUBSET Namespaces]
  OBVIOUS
<1>3. rounds' \in Rounds
  <2>1. rounds \in Rounds
    BY DEF TypeOK, Rounds
  <2>2. \A r \in [found : SUBSET Ids, asked : SUBSET Namespaces] : Append(rounds, r) \in Rounds
    BY <2>1 DEF Rounds
  <2>3. Append(rounds, [found |-> {}, asked |-> Namespaces]) \in Rounds
    BY <1>2, <2>2
  <2>4. QED
    BY <2>1, <2>3 DEF Enumerate
<1>4. QED
  BY <1>1, <1>3

(***************************************************************************)
(* A client refused is not open, and what it waits for is well typed.      *)
(***************************************************************************)
LEMMA RefusedTypes ==
    ASSUME TypeOK, NEW c \in Clients, NEW rc, NEW waiting \in Waiters,
           Refused(c, rc, waiting)
    PROVE  /\ pendingEnumerate' \in Waiters /\ rounds' \in Rounds
           /\ state' \in [Clients -> States] /\ retries' \in [Clients -> 0..Retries]
           /\ \A d \in Clients : state'[d] = "open" => state[d] = "open"
<1>1. /\ state' \in [Clients -> States]
      /\ \A d \in Clients : state'[d] = "open" => state[d] = "open"
  BY DEF Refused, TypeOK, States
<1>2. CASE Enumerate(c, waiting) /\ retries[c] > 0
           /\ retries' = [retries EXCEPT ![c] = @ - 1]
  <2>1. pendingEnumerate' \in Waiters /\ rounds' \in Rounds
    BY <1>2, EnumerateTypes
  <2>2. retries' \in [Clients -> 0..Retries]
    BY <1>2 DEF TypeOK
  <2>3. QED
    BY <1>1, <2>1, <2>2
<1>3. CASE pendingEnumerate' = waiting /\ UNCHANGED <<retries, rounds>>
  BY <1>1, <1>3 DEF TypeOK, Rounds
<1>4. QED
  BY <1>2, <1>3 DEF Refused

(***************************************************************************)
(* A client opened: the others are as they were.                           *)
(***************************************************************************)
LEMMA OpenedTypes ==
    ASSUME TypeOK, NEW c \in Clients, Opened(c)
    PROVE  /\ state' \in [Clients -> States]
           /\ \A d \in Clients : state'[d] = "open" => d = c \/ state[d] = "open"
  BY DEF Opened, TypeOK, States

(***************************************************************************)
(* Destroying open devices closes their clients and their handles.         *)
(***************************************************************************)
LEMMA DestroyShape ==
    ASSUME TypeOK, HandleInv, NEW ids \in SUBSET DOMAIN openDevs, Destroy(ids)
    PROVE  /\ DOMAIN openDevs' = DOMAIN openDevs \ ids
           /\ openDevs' \in [DOMAIN openDevs' -> SUBSET Clients]
           /\ \A id \in DOMAIN openDevs' : openDevs'[id] = openDevs[id]
           /\ handles' \in [Ids -> Nat]
           /\ \A id \in Ids : handles'[id] = IF id \in DOMAIN openDevs' THEN 1 ELSE 0
           /\ closed \subseteq closed' /\ closed' \subseteq Clients
           /\ \A id \in ids : openDevs[id] \subseteq closed'
<1> USE DEF Destroy, TypeOK
<1>1. /\ DOMAIN openDevs' = DOMAIN openDevs \ ids
      /\ \A id \in DOMAIN openDevs' : openDevs'[id] = openDevs[id]
  BY DEF Unset
<1>2. openDevs' \in [DOMAIN openDevs' -> SUBSET Clients]
  BY <1>1 DEF Unset
<1>3. \A id \in Ids : handles[id] = IF id \in DOMAIN openDevs THEN 1 ELSE 0
  BY DEF HandleInv, KeyInv
<1>4. \A id \in Ids : handles'[id] = IF id \in DOMAIN openDevs' THEN 1 ELSE 0
  BY <1>1, <1>3
<1>5. handles' \in [Ids -> Nat]
  BY <1>3
<1>6. \A id \in ids : openDevs[id] \subseteq ClientsOf(ids) /\ ClientsOf(ids) \subseteq Clients
  BY DEF ClientsOf
<1>7. ClientsOf(ids) \subseteq Clients
  BY DEF ClientsOf
<1>8. QED
  BY <1>1, <1>2, <1>4, <1>5, <1>6, <1>7
-----------------------------------------------------------------------------
(***************************************************************************)
(* What does not touch the keys keeps their invariant.                     *)
(***************************************************************************)
LEMMA KeysKept ==
    ASSUME HandleInv, DOMAIN pendingOpens' = DOMAIN pendingOpens,
           DOMAIN openDevs' = DOMAIN openDevs, UNCHANGED <<opening, handles, running>>
    PROVE  HandleInv'
  BY DEF HandleInv, KeyInv, ServingOpen

(***************************************************************************)
(* Clients stay attached when no other becomes open and each open device   *)
(* keeps those of its clients that are not closed.                         *)
(***************************************************************************)
Attached(c) == \E id \in DOMAIN openDevs : c \in openDevs[id]
AttachedNext(c) == \E id \in DOMAIN openDevs' : c \in openDevs'[id]

LEMMA AttachedKept ==
    ASSUME OpenClientAttached, closed \subseteq closed',
           \A c \in Clients : state'[c] = "open" => state[c] = "open" \/ AttachedNext(c),
           \A c \in Clients : Attached(c) => c \in closed' \/ AttachedNext(c)
    PROVE  OpenClientAttached'
  BY DEF OpenClientAttached, Attached, AttachedNext
-----------------------------------------------------------------------------
(***************************************************************************)
(* Waiting for a key to open: openImpl is called for it if nobody waited,  *)
(* and by KeyInv it was neither open nor being opened then.                *)
(***************************************************************************)
LEMMA WaitForOpenShape ==
    ASSUME TypeOK, HandleInv, NEW c \in Clients, NEW id \in Ids \ DOMAIN openDevs,
           WaitForOpen(c, id), UNCHANGED <<openDevs, handles, running>>
    PROVE  /\ DOMAIN pendingOpens' \subseteq Ids
           /\ pendingOpens' \in [DOMAIN pendingOpens' -> Seq(Clients)]
           /\ opening' \in [Ids -> Nat]
           /\ HandleInv'
<1>1. CASE /\ id \in DOMAIN pendingOpens
           /\ pendingOpens' = [pendingOpens EXCEPT ![id] = Append(@, c)]
           /\ UNCHANGED opening
  <2>1. DOMAIN pendingOpens' = DOMAIN pendingOpens
    BY <1>1
  <2>2. Append(pendingOpens[id], c) \in Seq(Clients)
    BY <1>1 DEF TypeOK
  <2>3. HandleInv'
    BY <1>1, <2>1, KeysKept
  <2>4. QED
    BY <1>1, <2>1, <2>2, <2>3 DEF TypeOK
<1>2. CASE /\ id \notin DOMAIN pendingOpens
           /\ pendingOpens' = Set(pendingOpens, id, <<c>>)
           /\ opening' = [opening EXCEPT ![id] = @ + 1]
  <2>1. DOMAIN pendingOpens' = DOMAIN pendingOpens \cup {id}
    BY <1>2 DEF Set
  <2>2. pendingOpens' \in [DOMAIN pendingOpens' -> Seq(Clients)]
    <3>1. <<c>> \in Seq(Clients)
      OBVIOUS
    <3>2. QED
      BY <1>2, <2>1, <3>1 DEF Set, TypeOK
  <2>3. opening[id] = 0 /\ ~ServingOpen(id)
    <3>1. opening[id] \in Nat
      BY DEF TypeOK
    <3>2. opening[id] <= 1 /\ opening[id] # 1 /\ ~ServingOpen(id)
      BY <1>2 DEF HandleInv, KeyInv
    <3>3. QED
      BY <3>1, <3>2
  <2>4. opening' \in [Ids -> Nat] /\ opening'[id] = 1
        /\ \A k \in Ids \ {id} : opening'[k] = opening[k]
    BY <1>2, <2>3 DEF TypeOK
  <2>5. KeyInv(id)'
    BY <2>1, <2>3, <2>4 DEF KeyInv, ServingOpen, HandleInv
  <2>6. ASSUME NEW k \in Ids \ {id} PROVE KeyInv(k)'
    BY <2>1, <2>4 DEF KeyInv, ServingOpen, HandleInv
  <2>7. QED
    BY <2>1, <2>2, <2>4, <2>5, <2>6 DEF HandleInv, TypeOK
<1>3. QED
  BY <1>1, <1>2 DEF WaitForOpen

(***************************************************************************)
(* addClient, by whichever caller.                                         *)
(***************************************************************************)
LEMMA AddClientStep ==
    ASSUME Inv, NEW c \in Clients, NEW id \in Ids, NEW waiting \in Waiters,
           AddClient(c, id, waiting), UNCHANGED <<devs, running, first, closed, leaving>>
    PROVE  Inv'
<1> USE DEF Inv
<1>1. armed' = TRUE
  BY DEF AddClient
<1>2. CASE Refused(c, NODEVICE, waiting) /\ UNCHANGED openVars
  <2>1. /\ pendingEnumerate' \in Waiters /\ rounds' \in Rounds
        /\ state' \in [Clients -> States] /\ retries' \in [Clients -> 0..Retries]
        /\ \A d \in Clients : state'[d] = "open" => state[d] = "open"
    BY <1>2, RefusedTypes
  <2>2. TypeOK'
    BY <1>1, <1>2, <2>1 DEF TypeOK, openVars, Waiters, Rounds, States
  <2>3. HandleInv'
    BY <1>2, KeysKept DEF openVars
  <2>4. OpenClientAttached'
    BY <1>2, <2>1, AttachedKept DEF Attached, AttachedNext, openVars
  <2>5. QED
    BY <2>2, <2>3, <2>4
<1>3. CASE /\ id \in DOMAIN openDevs
           /\ openDevs' = [openDevs EXCEPT ![id] = @ \cup {c}]
           /\ Opened(c) /\ pendingEnumerate' = waiting
           /\ UNCHANGED <<rounds, retries, pendingOpens, opening, handles>>
  <2>1. /\ state' \in [Clients -> States]
        /\ \A d \in Clients : state'[d] = "open" => d = c \/ state[d] = "open"
    BY <1>3, OpenedTypes
  <2>2. /\ DOMAIN openDevs' = DOMAIN openDevs
        /\ openDevs' \in [DOMAIN openDevs' -> SUBSET Clients]
        /\ c \in openDevs'[id]
        /\ \A k \in DOMAIN openDevs : openDevs[k] \subseteq openDevs'[k]
    BY <1>3 DEF TypeOK
  <2>3. TypeOK'
    BY <1>1, <1>3, <2>1, <2>2 DEF TypeOK, Waiters, States
  <2>4. HandleInv'
    BY <1>3, <2>2, KeysKept
  <2>5. OpenClientAttached'
    BY <1>3, <2>1, <2>2, AttachedKept DEF Attached, AttachedNext
  <2>6. QED
    BY <2>3, <2>4, <2>5
<1>4. CASE /\ id \notin DOMAIN openDevs /\ WaitForOpen(c, id)
           /\ state' = [state EXCEPT ![c] = "opening"] /\ pendingEnumerate' = waiting
           /\ UNCHANGED <<rounds, retries, openDevs, handles>>
  <2>1. /\ DOMAIN pendingOpens' \subseteq Ids
        /\ pendingOpens' \in [DOMAIN pendingOpens' -> Seq(Clients)]
        /\ opening' \in [Ids -> Nat]
        /\ HandleInv'
    BY <1>4, WaitForOpenShape
  <2>2. /\ state' \in [Clients -> States]
        /\ \A d \in Clients : state'[d] = "open" => state[d] = "open"
    BY <1>4 DEF TypeOK, States
  <2>3. TypeOK'
    BY <1>1, <1>4, <2>1, <2>2 DEF TypeOK, Waiters, States
  <2>4. OpenClientAttached'
    BY <1>4, <2>2, AttachedKept DEF Attached, AttachedNext
  <2>5. QED
    BY <2>1, <2>3, <2>4
<1>5. QED
  BY <1>2, <1>3, <1>4 DEF AddClient
-----------------------------------------------------------------------------
(***************************************************************************)
(* Devices are destroyed only between the loops over those who wait for a  *)
(* device to open, and their clients learn of it.                          *)
(***************************************************************************)
LEMMA DestroyStep ==
    ASSUME Inv, NEW ids \in SUBSET DOMAIN openDevs, Destroy(ids),
           running.loop # "opened", running'.loop # "opened",
           UNCHANGED <<pendingOpens, opening, state>>
    PROVE  /\ DOMAIN openDevs' \subseteq Ids
           /\ openDevs' \in [DOMAIN openDevs' -> SUBSET Clients]
           /\ handles' \in [Ids -> Nat]
           /\ closed \subseteq closed' /\ closed' \subseteq Clients
           /\ HandleInv' /\ OpenClientAttached'
<1> USE DEF Inv
<1>1. /\ DOMAIN openDevs' = DOMAIN openDevs \ ids
      /\ openDevs' \in [DOMAIN openDevs' -> SUBSET Clients]
      /\ \A id \in DOMAIN openDevs' : openDevs'[id] = openDevs[id]
      /\ handles' \in [Ids -> Nat]
      /\ \A id \in Ids : handles'[id] = IF id \in DOMAIN openDevs' THEN 1 ELSE 0
      /\ closed \subseteq closed' /\ closed' \subseteq Clients
      /\ \A id \in ids : openDevs[id] \subseteq closed'
  BY DestroyShape
<1>2. ASSUME NEW id \in Ids PROVE KeyInv(id)'
  <2>1. KeyInv(id) /\ ~ServingOpen(id) /\ ~ServingOpen(id)'
    BY DEF HandleInv, ServingOpen
  <2>2. QED
    BY <1>1, <2>1 DEF KeyInv
<1>3. OpenClientAttached'
  <2>1. \A c \in Clients : Attached(c) => c \in closed' \/ AttachedNext(c)
    BY <1>1 DEF Attached, AttachedNext
  <2>2. QED
    BY <1>1, <2>1, AttachedKept
<1>4. QED
  BY <1>1, <1>2, <1>3 DEF HandleInv, TypeOK

(***************************************************************************)
(* The actions, in the order of Next.                                      *)
(***************************************************************************)
LEMMA EnumerateStep ==
    ASSUME Inv, NEW who \in Clients \cup {Scanner}, Enumerate(who, pendingEnumerate),
           UNCHANGED <<devs, openVars, armed, running, retries, closed, leaving>>,
           first' \in SUBSET Clients, state' \in [Clients -> States],
           \A d \in Clients : state'[d] = "open" => state[d] = "open"
    PROVE  Inv'
<1> USE DEF Inv
<1>1. pendingEnumerate \in Waiters
  BY DEF TypeOK, Waiters
<1>2. pendingEnumerate' \in Waiters /\ rounds' \in Rounds
  BY <1>1, EnumerateTypes
<1>3. TypeOK'
  BY <1>2 DEF TypeOK, openVars, Waiters, Rounds, States
<1>4. HandleInv'
  BY KeysKept DEF openVars
<1>5. OpenClientAttached'
  BY AttachedKept DEF Attached, AttachedNext, openVars
<1>6. QED
  BY <1>3, <1>4, <1>5

LEMMA OpenFirstStep == ASSUME Inv, NEW c \in Clients, OpenFirst(c) PROVE Inv'
<1>1. /\ first' \in SUBSET Clients /\ state' \in [Clients -> States]
      /\ \A d \in Clients : state'[d] = "open" => state[d] = "open"
  BY DEF OpenFirst, Inv, TypeOK, States
<1>2. QED
  BY <1>1, EnumerateStep DEF OpenFirst

LEMMA ScanStep == ASSUME Inv, Scan PROVE Inv'
<1>1. /\ first' \in SUBSET Clients /\ state' \in [Clients -> States]
      /\ \A d \in Clients : state'[d] = "open" => state[d] = "open"
  BY DEF Scan, Inv, TypeOK, States, gnubbyVars
<1>2. QED
  BY <1>1, EnumerateStep DEF Scan, gnubbyVars

LEMMA OpenWhichStep ==
    ASSUME Inv, NEW c \in Clients, NEW id \in Ids, OpenWhich(c, id) PROVE Inv'
<1>1. pendingEnumerate \in Waiters
  BY DEF Inv, TypeOK, Waiters
<1>2. QED
  BY <1>1, AddClientStep DEF OpenWhich

LEMMA CloseStep == ASSUME Inv, NEW c \in Clients, CloseGnubby(c) PROVE Inv'
<1> USE DEF Inv, CloseGnubby
<1>1. /\ state' \in [Clients -> States]
      /\ \A d \in Clients : state'[d] = "open" => state[d] = "open"
  BY DEF TypeOK, States
<1>2. TypeOK'
  <2>1. closed' \subseteq Clients /\ leaving' \subseteq closed'
    BY DEF TypeOK
  <2>2. QED
    BY <1>1, <2>1 DEF TypeOK, scanVars, openVars, States
<1>3. HandleInv'
  BY KeysKept DEF openVars
<1>4. OpenClientAttached'
  BY <1>1, AttachedKept DEF Attached, AttachedNext, openVars
<1>5. QED
  BY <1>2, <1>3, <1>4

LEMMA RemoveClientStep == ASSUME Inv, NEW c \in Clients, RemoveClient(c) PROVE Inv'
<1> USE DEF Inv
<1> DEFINE at == {id \in DOMAIN openDevs : c \in openDevs[id]}
           last == {id \in at : openDevs[id] = {c}}
<1>1. /\ running = Idle /\ c \in leaving /\ leaving' = leaving \ {c} /\ armed' = TRUE
      /\ UNCHANGED <<scanVars, pendingOpens, opening, running, state, first, retries>>
      /\ \/ last # {} /\ Destroy(last)
         \/ /\ openDevs' = [id \in DOMAIN openDevs |-> openDevs[id] \ {c}]
            /\ UNCHANGED <<handles, closed>>
  BY DEF RemoveClient
<1>2. CASE Destroy(last)
  <2>1. last \in SUBSET DOMAIN openDevs
    OBVIOUS
  <2>2. running.loop # "opened" /\ running'.loop # "opened"
    BY <1>1 DEF Idle
  <2> HIDE DEF last, at
  <2>3. /\ DOMAIN openDevs' \subseteq Ids
        /\ openDevs' \in [DOMAIN openDevs' -> SUBSET Clients]
        /\ handles' \in [Ids -> Nat]
        /\ closed \subseteq closed' /\ closed' \subseteq Clients
        /\ HandleInv' /\ OpenClientAttached'
    BY <1>1, <1>2, <2>1, <2>2, DestroyStep
  <2>4. TypeOK'
    BY <1>1, <2>3 DEF TypeOK, scanVars
  <2>5. QED
    BY <2>3, <2>4
<1>3. CASE /\ openDevs' = [id \in DOMAIN openDevs |-> openDevs[id] \ {c}]
           /\ UNCHANGED <<handles, closed>>
  <2> HIDE DEF last, at
  <2>1. /\ DOMAIN openDevs' = DOMAIN openDevs
        /\ openDevs' \in [DOMAIN openDevs' -> SUBSET Clients]
        /\ \A id \in DOMAIN openDevs : openDevs[id] \ {c} \subseteq openDevs'[id]
    BY <1>3 DEF TypeOK
  <2>2. c \in closed'
    BY <1>1, <1>3 DEF TypeOK
  <2>3. TypeOK'
    BY <1>1, <1>3, <2>1 DEF TypeOK, scanVars
  <2>4. HandleInv'
    BY <1>1, <1>3, <2>1, KeysKept
  <2>5. \A d \in Clients : Attached(d) => d \in closed' \/ AttachedNext(d)
    BY <2>1, <2>2 DEF Attached, AttachedNext
  <2>6. OpenClientAttached'
    BY <1>1, <1>3, <2>5, AttachedKept
  <2>7. QED
    BY <2>3, <2>4, <2>6
<1>4. QED
  <2> HIDE DEF last, at
  <2>1. QED
    BY <1>1, <1>2, <1>3
-----------------------------------------------------------------------------
(***************************************************************************)
(* The list of rounds without one of them.                                 *)
(***************************************************************************)
LEMMA RemoveAtTypes ==
    ASSUME NEW S, NEW s \in Seq(S), NEW i \in DOMAIN s PROVE RemoveAt(s, i) \in Seq(S)
<1>1. i \in Nat /\ i >= 1 /\ i <= Len(s) /\ Len(s) \in Nat
  OBVIOUS
<1>2. SubSeq(s, 1, i - 1) \in Seq(S)
  BY <1>1
<1>3. SubSeq(s, i + 1, Len(s)) \in Seq(S)
  BY <1>1
<1>4. QED
  BY <1>2, <1>3 DEF RemoveAt

(***************************************************************************)
(* A namespace's answer destroys devices that are gone.                    *)
(***************************************************************************)
LEMMA EnumeratedStep ==
    ASSUME Inv, NEW i \in DOMAIN rounds, NEW n \in Namespaces, NEW found \in SUBSET Ids,
           Enumerated(i, n, found)
    PROVE  Inv'
<1> USE DEF Inv
<1> DEFINE ids == rounds[i].found \cup found
           left == rounds[i].asked \ {n}
           gone == (DOMAIN openDevs \cap In(n)) \ found
<1>1. /\ running = Idle /\ devs' = (devs \ In(n)) \cup found /\ Destroy(gone)
      /\ \/ /\ rounds' = [rounds EXCEPT ![i] = [found |-> ids, asked |-> left]]
            /\ UNCHANGED running
         \/ /\ rounds' = RemoveAt(rounds, i)
            /\ running' = [loop |-> "enumerated", ids |-> ids]
      /\ UNCHANGED <<pendingEnumerate, pendingOpens, opening, armed, state, first, retries,
                     leaving>>
  BY DEF Enumerated
<1>2. rounds \in Rounds /\ rounds[i] \in [found : SUBSET Ids, asked : SUBSET Namespaces]
  <2>1. rounds \in Rounds
    BY DEF TypeOK, Rounds
  <2>2. \A S : rounds \in Seq(S) => rounds[i] \in S
    OBVIOUS
  <2>3. QED
    BY <2>1, <2>2 DEF Rounds
<1>3. ids \subseteq Ids /\ left \subseteq Namespaces
  BY <1>2
<1>4. gone \in SUBSET DOMAIN openDevs
  OBVIOUS
<1> HIDE DEF ids, left, gone
<1>5. rounds' \in Rounds
  <2>1. RemoveAt(rounds, i) \in Rounds
    BY <1>2, RemoveAtTypes DEF Rounds
  <2>2. [found |-> ids, asked |-> left] \in [found : SUBSET Ids, asked : SUBSET Namespaces]
    BY <1>3
  <2>3. \A r \in [found : SUBSET Ids, asked : SUBSET Namespaces] :
          [rounds EXCEPT ![i] = r] \in Rounds
    BY <1>2 DEF Rounds
  <2>4. [rounds EXCEPT ![i] = [found |-> ids, asked |-> left]] \in Rounds
    BY <2>2, <2>3
  <2>5. QED
    BY <1>1, <2>1, <2>4
<1>6. running' \in Loops /\ running.loop # "opened" /\ running'.loop # "opened"
  BY <1>1, <1>3 DEF Idle, Loops
<1>7. /\ DOMAIN openDevs' \subseteq Ids
      /\ openDevs' \in [DOMAIN openDevs' -> SUBSET Clients]
      /\ handles' \in [Ids -> Nat]
      /\ closed \subseteq closed' /\ closed' \subseteq Clients
      /\ HandleInv' /\ OpenClientAttached'
  BY <1>1, <1>4, <1>6, DestroyStep
<1>8. devs' \subseteq Ids
  BY <1>1 DEF TypeOK
<1>9. TypeOK'
  BY <1>1, <1>5, <1>6, <1>7, <1>8 DEF TypeOK, Rounds
<1>10. QED
  BY <1>7, <1>9

(***************************************************************************)
(* The tail of those who wait for an enumeration.                          *)
(***************************************************************************)
LEMMA WaitersTail ==
    ASSUME TypeOK, pendingEnumerate # <<>>
    PROVE  /\ Head(pendingEnumerate) \in Clients \cup {Scanner}
           /\ Tail(pendingEnumerate) \in Waiters
  BY DEF TypeOK, Waiters

(***************************************************************************)
(* The loop over those who wait for an enumeration calls the scanner back, *)
(* a client, or ends.                                                      *)
(***************************************************************************)
LEMMA ServeScannerStep == ASSUME Inv, ServeScanner PROVE Inv'
<1> USE DEF Inv, ServeScanner
<1>1. TypeOK'
  BY WaitersTail DEF TypeOK, Waiters, openVars, gnubbyVars
<1>2. HandleInv'
  BY KeysKept DEF openVars
<1>3. OpenClientAttached'
  BY AttachedKept DEF Attached, AttachedNext, openVars, gnubbyVars
<1>4. QED
  BY <1>1, <1>2, <1>3

LEMMA ServeEnumerationStep == ASSUME Inv, ServeEnumeration PROVE Inv'
<1> USE DEF Inv
<1> DEFINE c == Head(pendingEnumerate)
<1>1. /\ pendingEnumerate # <<>> /\ c # Scanner /\ running.loop = "enumerated"
      /\ UNCHANGED <<devs, running, first, closed, leaving>>
  BY DEF ServeEnumeration
<1>2. c \in Clients /\ Tail(pendingEnumerate) \in Waiters
  BY <1>1, WaitersTail
<1>3. CASE /\ state' = [state EXCEPT ![c] = "failed"]
           /\ pendingEnumerate' = Tail(pendingEnumerate)
           /\ UNCHANGED <<rounds, openVars, armed, retries>>
  <2> HIDE DEF c
  <2>1. /\ state' \in [Clients -> States]
        /\ \A d \in Clients : state'[d] = "open" => state[d] = "open"
    BY <1>2, <1>3 DEF TypeOK, States
  <2>2. TypeOK'
    BY <1>1, <1>2, <1>3, <2>1 DEF TypeOK, Waiters, openVars, States
  <2>3. HandleInv'
    BY <1>1, <1>3, KeysKept DEF openVars
  <2>4. OpenClientAttached'
    BY <1>1, <1>3, <2>1, AttachedKept DEF Attached, AttachedNext, openVars
  <2>5. QED
    BY <2>2, <2>3, <2>4
<1>4. CASE \E id \in running.ids : AddClient(c, id, Tail(pendingEnumerate))
  <2>1. running.ids \subseteq Ids
    BY <1>1 DEF TypeOK, Loops, Idle
  <2>2. PICK id \in Ids : AddClient(c, id, Tail(pendingEnumerate))
    BY <1>4, <2>1
  <2> HIDE DEF c
  <2>3. QED
    BY <1>1, <1>2, <2>2, AddClientStep
<1>5. QED
  BY <1>3, <1>4 DEF ServeEnumeration

LEMMA AllServedStep == ASSUME Inv, AllServed PROVE Inv'
<1> USE DEF Inv, AllServed
<1>1. TypeOK'
  BY DEF TypeOK, Loops, scanVars, openVars, gnubbyVars
<1>2. HandleInv'
  BY DEF HandleInv, KeyInv, ServingOpen, Idle, openVars
<1>3. OpenClientAttached'
  BY AttachedKept DEF Attached, AttachedNext, openVars, gnubbyVars
<1>4. QED
  BY <1>1, <1>2, <1>3
-----------------------------------------------------------------------------
(***************************************************************************)
(* openImpl called back: a key is opened only when nobody has it open, and *)
(* the loop over those who wait for it begins.                             *)
(***************************************************************************)
LEMMA OpenCompletesStep ==
    ASSUME Inv, NEW id \in Ids, NEW rc \in {OK, NODEVICE, BUSY}, OpenCompletes(id, rc)
    PROVE  Inv'
<1> USE DEF Inv
<1>1. /\ running = Idle /\ opening[id] > 0
      /\ opening' = [opening EXCEPT ![id] = @ - 1]
      /\ running' = [loop |-> "opened", id |-> id, rc |-> rc]
      /\ \/ /\ rc = OK
            /\ openDevs' = Set(openDevs, id, {})
            /\ handles' = [handles EXCEPT ![id] = @ + 1]
         \/ rc # OK /\ UNCHANGED <<openDevs, handles>>
      /\ UNCHANGED <<scanVars, pendingOpens, armed, gnubbyVars>>
  BY DEF OpenCompletes
<1>2. opening[id] \in Nat /\ opening[id] <= 1
  BY DEF TypeOK, HandleInv, KeyInv
<1>3. opening[id] = 1
  BY <1>1, <1>2
<1>4. /\ id \in DOMAIN pendingOpens /\ id \notin DOMAIN openDevs /\ handles[id] = 0
  BY <1>3 DEF HandleInv, KeyInv
<1>5. /\ opening' \in [Ids -> Nat] /\ opening'[id] = 0
      /\ \A k \in Ids \ {id} : opening'[k] = opening[k]
  BY <1>1, <1>3 DEF TypeOK
<1>6. /\ ServingOpen(id)' /\ running'.rc = rc /\ running' \in Loops
      /\ \A k \in Ids \ {id} : ~ServingOpen(k)' /\ ~ServingOpen(k)
  <2>1. running'.loop = "opened" /\ running'.id = id /\ running'.rc = rc
    BY <1>1
  <2>2. running' \in Loops
    BY <1>1 DEF Loops
  <2>3. \A k \in Ids : ~ServingOpen(k)
    BY <1>1 DEF ServingOpen, Idle
  <2>4. QED
    BY <2>1, <2>2, <2>3 DEF ServingOpen
<1>7. /\ DOMAIN openDevs' = IF rc = OK THEN DOMAIN openDevs \cup {id} ELSE DOMAIN openDevs
      /\ openDevs' \in [DOMAIN openDevs' -> SUBSET Clients]
      /\ \A k \in DOMAIN openDevs : k \in DOMAIN openDevs' /\ openDevs'[k] = openDevs[k]
  <2>1. CASE rc = OK /\ openDevs' = Set(openDevs, id, {})
    <3>1. DOMAIN openDevs' = DOMAIN openDevs \cup {id}
      BY <2>1 DEF Set
    <3>2. \A k \in DOMAIN openDevs : openDevs'[k] = openDevs[k]
      BY <1>4, <2>1 DEF Set
    <3>3. openDevs' \in [DOMAIN openDevs' -> SUBSET Clients]
      BY <2>1, <3>1 DEF Set, TypeOK
    <3>4. QED
      BY <2>1, <3>1, <3>2, <3>3
  <2>2. CASE rc # OK /\ openDevs' = openDevs
    BY <2>2 DEF TypeOK
  <2>3. QED
    BY <1>1, <2>1, <2>2
<1>8. /\ handles' \in [Ids -> Nat]
      /\ handles'[id] = IF rc = OK THEN 1 ELSE 0
      /\ \A k \in Ids \ {id} : handles'[k] = handles[k]
  <2>1. handles \in [Ids -> Nat] /\ handles[id] = 0
    BY <1>4 DEF TypeOK
  <2>2. \/ rc = OK /\ handles' = [handles EXCEPT ![id] = @ + 1]
        \/ rc # OK /\ handles' = handles
    BY <1>1
  <2>3. QED
    BY <2>1, <2>2
<1>9. TypeOK'
  <2>1. DOMAIN openDevs' \subseteq Ids
    BY <1>7 DEF TypeOK
  <2>2. QED
    BY <1>1, <1>5, <1>6, <1>7, <1>8, <2>1 DEF TypeOK, scanVars, gnubbyVars
<1>10. HandleInv'
  <2>1. KeyInv(id)'
    BY <1>1, <1>4, <1>5, <1>6, <1>7, <1>8 DEF KeyInv
  <2>2. ASSUME NEW k \in Ids \ {id} PROVE KeyInv(k)'
    BY <1>1, <1>5, <1>6, <1>7, <1>8 DEF KeyInv, HandleInv
  <2>3. QED
    BY <2>1, <2>2 DEF HandleInv
<1>11. OpenClientAttached'
  <2>1. \A c \in Clients : Attached(c) => AttachedNext(c)
    BY <1>7 DEF Attached, AttachedNext
  <2>2. QED
    BY <1>1, <2>1, AttachedKept DEF gnubbyVars
<1>12. QED
  BY <1>9, <1>10, <1>11

(***************************************************************************)
(* One turn of that loop: the client is attached if the device is open,    *)
(* and refused otherwise.                                                  *)
(***************************************************************************)
LEMMA ServeOpenStep == ASSUME Inv, ServeOpen PROVE Inv'
<1> USE DEF Inv
<1> DEFINE id == running.id
           c == Head(pendingOpens[id])
<1>1. /\ running.loop = "opened" /\ pendingOpens[id] # <<>>
      /\ pendingOpens' = [pendingOpens EXCEPT ![id] = Tail(@)]
      /\ UNCHANGED <<devs, opening, handles, armed, running, first, closed, leaving>>
  BY DEF ServeOpen
<1>2. id \in Ids /\ ServingOpen(id)
  BY <1>1 DEF TypeOK, Loops, Idle, ServingOpen
<1>3. id \in DOMAIN pendingOpens /\ (id \in DOMAIN openDevs <=> running.rc = OK)
  BY <1>2 DEF HandleInv, KeyInv
<1>4. c \in Clients /\ Tail(pendingOpens[id]) \in Seq(Clients)
  BY <1>1, <1>3 DEF TypeOK
<1>5. CASE /\ running.rc = OK
           /\ openDevs' = [openDevs EXCEPT ![id] = @ \cup {c}]
           /\ Opened(c)
           /\ UNCHANGED <<pendingEnumerate, rounds, retries>>
  <2> HIDE DEF c, id
  <2>1. /\ state' \in [Clients -> States]
        /\ \A d \in Clients : state'[d] = "open" => d = c \/ state[d] = "open"
    BY <1>4, <1>5, OpenedTypes
  <2>2. /\ DOMAIN openDevs' = DOMAIN openDevs
        /\ openDevs' \in [DOMAIN openDevs' -> SUBSET Clients]
        /\ c \in openDevs'[id]
        /\ \A k \in DOMAIN openDevs : openDevs[k] \subseteq openDevs'[k]
    BY <1>3, <1>4, <1>5 DEF TypeOK
  <2>3. /\ DOMAIN pendingOpens' = DOMAIN pendingOpens
        /\ pendingOpens' \in [DOMAIN pendingOpens' -> Seq(Clients)]
    BY <1>1, <1>3, <1>4 DEF TypeOK
  <2>4. TypeOK'
    BY <1>1, <1>5, <2>1, <2>2, <2>3 DEF TypeOK, States
  <2>5. HandleInv'
    BY <1>1, <2>2, <2>3, KeysKept
  <2>6. AttachedNext(c) /\ \A d \in Clients : Attached(d) => AttachedNext(d)
    BY <1>3, <1>5, <2>2 DEF Attached, AttachedNext
  <2>7. OpenClientAttached'
    BY <1>1, <2>1, <2>6, AttachedKept
  <2>8. QED
    BY <2>4, <2>5, <2>7
<1>6. CASE Refused(c, running.rc, pendingEnumerate) /\ UNCHANGED openDevs
  <2> HIDE DEF c, id
  <2>1. pendingEnumerate \in Waiters
    BY DEF TypeOK, Waiters
  <2>2. /\ pendingEnumerate' \in Waiters /\ rounds' \in Rounds
        /\ state' \in [Clients -> States] /\ retries' \in [Clients -> 0..Retries]
        /\ \A d \in Clients : state'[d] = "open" => state[d] = "open"
    BY <1>4, <1>6, <2>1, RefusedTypes
  <2>3. /\ DOMAIN pendingOpens' = DOMAIN pendingOpens
        /\ pendingOpens' \in [DOMAIN pendingOpens' -> Seq(Clients)]
    BY <1>1, <1>3, <1>4 DEF TypeOK
  <2>4. TypeOK'
    BY <1>1, <1>6, <2>2, <2>3 DEF TypeOK, Waiters, Rounds, States
  <2>5. HandleInv'
    BY <1>1, <1>6, <2>3, KeysKept
  <2>6. OpenClientAttached'
    BY <1>1, <1>6, <2>2, AttachedKept DEF Attached, AttachedNext
  <2>7. QED
    BY <2>4, <2>5, <2>6
<1>7. QED
  BY <1>5, <1>6 DEF ServeOpen

(***************************************************************************)
(* The loop ends: nobody waits for the key any more.                       *)
(***************************************************************************)
LEMMA OpenServedStep == ASSUME Inv, OpenServed PROVE Inv'
<1> USE DEF Inv
<1>1. /\ running.loop = "opened" /\ running' = Idle
      /\ pendingOpens' = Unset(pendingOpens, {running.id})
      /\ UNCHANGED <<scanVars, openDevs, opening, handles, armed, gnubbyVars>>
  BY DEF OpenServed
<1>2. /\ DOMAIN pendingOpens' = DOMAIN pendingOpens \ {running.id}
      /\ pendingOpens' \in [DOMAIN pendingOpens' -> Seq(Clients)]
  BY <1>1 DEF Unset, TypeOK
<1>3. TypeOK'
  BY <1>1, <1>2 DEF TypeOK, Loops, scanVars, gnubbyVars
<1>4. ASSUME NEW id \in Ids PROVE KeyInv(id)'
  <2>1. ~ServingOpen(id)'
    BY <1>1 DEF ServingOpen, Idle
  <2>2. KeyInv(id) /\ (ServingOpen(id) <=> running.id = id)
    BY <1>1 DEF HandleInv, ServingOpen
  <2>3. QED
    BY <1>1, <1>2, <2>1, <2>2 DEF KeyInv
<1>5. OpenClientAttached'
  BY <1>1, AttachedKept DEF Attached, AttachedNext, gnubbyVars
<1>6. QED
  BY <1>3, <1>4, <1>5 DEF HandleInv

(***************************************************************************)
(* A frame drops clients that closed.                                      *)
(***************************************************************************)
LEMMA PublishFrameStep == ASSUME Inv, NEW id \in Ids, PublishFrame(id) PROVE Inv'
<1> USE DEF Inv
<1>1. /\ openDevs' = [openDevs EXCEPT ![id] = @ \ closed] /\ id \in DOMAIN openDevs
      /\ UNCHANGED <<scanVars, pendingOpens, opening, handles, armed, running, gnubbyVars>>
  BY DEF PublishFrame
<1>2. /\ DOMAIN openDevs' = DOMAIN openDevs
      /\ openDevs' \in [DOMAIN openDevs' -> SUBSET Clients]
      /\ \A k \in DOMAIN openDevs : openDevs[k] \ closed \subseteq openDevs'[k]
  BY <1>1 DEF TypeOK
<1>3. TypeOK'
  BY <1>1, <1>2 DEF TypeOK, scanVars, gnubbyVars
<1>4. HandleInv'
  BY <1>1, <1>2, KeysKept
<1>5. \A c \in Clients : Attached(c) => c \in closed' \/ AttachedNext(c)
  BY <1>1, <1>2 DEF Attached, AttachedNext, gnubbyVars
<1>6. OpenClientAttached'
  BY <1>1, <1>5, AttachedKept DEF gnubbyVars
<1>7. QED
  BY <1>3, <1>4, <1>6

(***************************************************************************)
(* Devices that fail, or that the inactivity timer releases, are destroyed.*)
(***************************************************************************)
LEMMA ReleaseStep ==
    ASSUME Inv, NEW ids \in SUBSET DOMAIN openDevs, Destroy(ids), running = Idle,
           armed' \in BOOLEAN,
           UNCHANGED <<scanVars, pendingOpens, opening, running, state, first, retries,
                       leaving>>
    PROVE  Inv'
<1>1. running.loop # "opened" /\ running'.loop # "opened"
  BY DEF Idle
<1>2. /\ DOMAIN openDevs' \subseteq Ids
      /\ openDevs' \in [DOMAIN openDevs' -> SUBSET Clients]
      /\ handles' \in [Ids -> Nat]
      /\ closed \subseteq closed' /\ closed' \subseteq Clients
      /\ HandleInv' /\ OpenClientAttached'
  BY <1>1, DestroyStep
<1>3. TypeOK'
  BY <1>2 DEF Inv, TypeOK, scanVars
<1>4. QED
  BY <1>2, <1>3 DEF Inv

LEMMA DeviceFailsStep == ASSUME Inv, NEW id \in Ids, DeviceFails(id) PROVE Inv'
<1>1. armed' \in BOOLEAN /\ {id} \in SUBSET DOMAIN openDevs
  BY DEF DeviceFails, Inv, TypeOK
<1>2. QED
  BY <1>1, ReleaseStep DEF DeviceFails

LEMMA InactivityStep == ASSUME Inv, InactivityTimeout PROVE Inv'
<1>1. armed' \in BOOLEAN /\ DOMAIN openDevs \in SUBSET DOMAIN openDevs
  BY DEF InactivityTimeout
<1>2. QED
  BY <1>1, ReleaseStep DEF InactivityTimeout
-----------------------------------------------------------------------------
(***************************************************************************)
(* The invariant holds at first and every step keeps it.                   *)
(***************************************************************************)
LEMMA InvAtFirst == Init => Inv
<1> SUFFICES ASSUME Init PROVE Inv
  OBVIOUS
<1>1. DOMAIN openDevs = {} /\ DOMAIN pendingOpens = {}
  BY DEF Init
<1>2. TypeOK
  <2>1. /\ openDevs \in [DOMAIN openDevs -> SUBSET Clients]
        /\ pendingOpens \in [DOMAIN pendingOpens -> Seq(Clients)]
    BY DEF Init
  <2>2. pendingEnumerate \in Seq(Clients \cup {Scanner})
        /\ rounds \in Seq([found : SUBSET Ids, asked : SUBSET Namespaces])
    BY DEF Init
  <2>3. running \in Loops
    BY DEF Init, Loops
  <2>4. /\ opening \in [Ids -> Nat] /\ handles \in [Ids -> Nat]
        /\ retries \in [Clients -> 0..Retries]
    BY DEF Init
  <2>5. QED
    BY <1>1, <2>1, <2>2, <2>3, <2>4 DEF Init, TypeOK
<1>3. HandleInv
  BY <1>1 DEF Init, HandleInv, KeyInv, ServingOpen, Idle
<1>4. OpenClientAttached
  BY DEF Init, OpenClientAttached
<1>5. QED
  BY <1>2, <1>3, <1>4 DEF Inv

LEMMA InvStep == Inv /\ [Next]_vars => Inv'
<1> SUFFICES ASSUME Inv, [Next]_vars PROVE Inv'
  OBVIOUS
<1>1. ASSUME NEW c \in Clients,
             (\E id \in Ids : OpenWhich(c, id)) \/ OpenFirst(c) \/ CloseGnubby(c)
                \/ RemoveClient(c)
      PROVE  Inv'
  BY <1>1, OpenWhichStep, OpenFirstStep, CloseStep, RemoveClientStep
<1>2. CASE Scan
  BY <1>2, ScanStep
<1>3. CASE EnumerationAnswers
  BY <1>3, EnumeratedStep DEF EnumerationAnswers
<1>4. CASE RunLoop
  BY <1>4, ServeScannerStep, ServeEnumerationStep, AllServedStep, ServeOpenStep,
     OpenServedStep DEF RunLoop
<1>5. CASE OpensComplete
  BY <1>5, OpenCompletesStep DEF OpensComplete
<1>6. CASE InactivityTimeout
  BY <1>6, InactivityStep
<1>7. ASSUME NEW id \in Ids, PublishFrame(id) \/ DeviceFails(id) PROVE Inv'
  BY <1>7, PublishFrameStep, DeviceFailsStep
<1>8. CASE UNCHANGED vars
  <2>1. TypeOK'
    BY <1>8 DEF Inv, TypeOK, vars, scanVars, openVars, gnubbyVars
  <2>2. HandleInv'
    BY <1>8, KeysKept DEF Inv, vars, openVars
  <2>3. OpenClientAttached'
    BY <1>8, AttachedKept DEF Inv, Attached, AttachedNext, vars, openVars, gnubbyVars
  <2>4. QED
    BY <2>1, <2>2, <2>3 DEF Inv
<1>9. QED
  BY <1>1, <1>2, <1>3, <1>4, <1>5, <1>6, <1>7, <1>8 DEF Next

(***************************************************************************)
(* The manager's state is well typed: in particular no device is destroyed *)
(* more often than it was opened, which needs the rest of the invariant.   *)
(***************************************************************************)
THEOREM TypeCorrect == Spec => []TypeOK
<1>1. Inv => TypeOK
  BY DEF Inv
<1>2. QED
  BY <1>1, InvAtFirst, InvStep, PTL DEF Spec

(***************************************************************************)
(* A key is never opened twice, however many Gnubbys ask for it, in        *)
(* callbacks of other keys too, and whatever the drivers report: addClient *)
(* calls openImpl only for a key that is not open and that nobody waits    *)
(* for.                                                                    *)
(***************************************************************************)
THEOREM KeysOpenedOnce == Spec => []OneHandlePerKey
<1>1. Inv => OneHandlePerKey
  <2> SUFFICES ASSUME Inv, NEW id \in Ids PROVE handles[id] + opening[id] <= 1
    BY DEF OneHandlePerKey
  <2>1. opening[id] \in Nat /\ opening[id] <= 1
    BY DEF Inv, TypeOK, HandleInv, KeyInv
  <2>2. handles[id] = 0 \/ (handles[id] = 1 /\ opening[id] # 1)
    BY DEF Inv, HandleInv, KeyInv
  <2>3. QED
    BY <2>1, <2>2
<1>2. QED
  BY <1>1, InvAtFirst, InvStep, PTL DEF Spec

(***************************************************************************)
(* A Gnubby that is open, and was not told that its device went, is among  *)
(* the clients of an open device: every way a device is destroyed tells    *)
(* its clients, and every way a client is dropped follows its closing.     *)
(***************************************************************************)
THEOREM OpenClientsAttached == Spec => []OpenClientAttached
<1>1. Inv => OpenClientAttached
  BY DEF Inv
<1>2. QED
  BY <1>1, InvAtFirst, InvStep, PTL DEF Spec
=============================================================================

------------------------- MODULE SignRequestsProofs -------------------------
(***************************************************************************)
(* Proofs about SignRequests, for any number of requests and ports: its    *)
(* types, that it drives the queue only as TokenQueue allows, that a page  *)
(* gets at most one response, that a TIMEOUT is honest, and that signers   *)
(* overlap only after a timeout.                                           *)
(*                                                                         *)
(* Most of the state of a callback is on the stack of calls it has yet to  *)
(* make, so most invariants speak of the calls on it and of their order.   *)
(*                                                                         *)
(* The last part is about SingleSigner, which signs with one key: for any  *)
(* challenges, the key it opens is closed or handed over, and it reports   *)
(* that the key knows none of them only when it tried them all.            *)
(***************************************************************************)
EXTENDS SignRequests, SingleSigner, Integers, WellFoundedInduction, TLAPS

(***************************************************************************)
(* What RequestQueueProofs shows of TokenQueue is used, which says nothing *)
(* of the links of the list.                                               *)
(***************************************************************************)
NoLinks == [t \in 1..MaxRequests |-> 0]
QueueProofs == INSTANCE RequestQueueProofs
                 WITH MaxTokens <- MaxRequests, head <- 0, tail <- 0,
                      prev <- NoLinks, next <- NoLinks, threw <- FALSE

USE MaxRequestsAssumption, PortsAssumption, PatienceAssumption
    DEF MaxRequestsAssumption, PortsAssumption, PatienceAssumption
-----------------------------------------------------------------------------
(***************************************************************************)
(* The stack.                                                              *)
(***************************************************************************)
CallRecords == [call : Calls, req : 1..lastId, answer : Answers]

(***************************************************************************)
(* The running call was replaced by n others; the rest of the stack is as  *)
(* it was.                                                                 *)
(***************************************************************************)
Shifted(n) ==
    /\ stack' \in Seq(CallRecords)
    /\ DOMAIN stack' = 1..((n + Len(stack)) - 1)
    /\ \A i \in DOMAIN stack' :
         i > n => /\ (i - n) + 1 \in DOMAIN stack /\ (i - n) + 1 > 1
                  /\ stack'[i] = stack[(i - n) + 1]
    /\ \A j \in DOMAIN stack :
         j > 1 => /\ (j + n) - 1 \in DOMAIN stack' /\ (j + n) - 1 > n
                  /\ stack'[(j + n) - 1] = stack[j]

(***************************************************************************)
(* A callback begins with at most one call to make.                        *)
(***************************************************************************)
Started(a) == stack' = <<a>> /\ DOMAIN stack' = {1} /\ stack'[1] = a

(***************************************************************************)
(* What ThenCall does to the stack, for any calls.                         *)
(***************************************************************************)
LEMMA PushShape ==
    ASSUME NEW S, NEW s \in Seq(S), s # <<>>, NEW calls \in Seq(S),
           NEW t, t = calls \o Tail(s)
    PROVE  /\ t \in Seq(S)
           /\ DOMAIN t = 1..((Len(calls) + Len(s)) - 1)
           /\ \A i \in 1..Len(calls) : i \in DOMAIN t /\ t[i] = calls[i]
           /\ \A i \in DOMAIN t :
                i > Len(calls) => /\ (i - Len(calls)) + 1 \in DOMAIN s
                                  /\ (i - Len(calls)) + 1 > 1
                                  /\ t[i] = s[(i - Len(calls)) + 1]
           /\ \A j \in DOMAIN s :
                j > 1 => /\ (j + Len(calls)) - 1 \in DOMAIN t
                         /\ (j + Len(calls)) - 1 > Len(calls)
                         /\ t[(j + Len(calls)) - 1] = s[j]
<1>1. Len(s) \in Nat \ {0} /\ DOMAIN s = 1..Len(s) /\ Len(calls) \in Nat
  OBVIOUS
<1>2. /\ Tail(s) \in Seq(S) /\ Len(Tail(s)) = Len(s) - 1
      /\ \A k \in 1..(Len(s) - 1) : Tail(s)[k] = s[k + 1]
  OBVIOUS
<1>3. /\ t \in Seq(S) /\ Len(t) = Len(calls) + Len(Tail(s)) /\ DOMAIN t = 1..Len(t)
      /\ \A i \in 1..Len(calls) : t[i] = calls[i]
      /\ \A k \in 1..Len(Tail(s)) : t[Len(calls) + k] = Tail(s)[k]
  BY <1>2
<1>4. DOMAIN t = 1..((Len(calls) + Len(s)) - 1)
  BY <1>1, <1>2, <1>3
<1>5. ASSUME NEW i \in DOMAIN t, i > Len(calls)
      PROVE  /\ (i - Len(calls)) + 1 \in DOMAIN s
             /\ (i - Len(calls)) + 1 > 1
             /\ t[i] = s[(i - Len(calls)) + 1]
  <2>1. i - Len(calls) \in 1..(Len(s) - 1) /\ i = Len(calls) + (i - Len(calls))
    BY <1>1, <1>4, <1>5
  <2> QED
    BY <1>1, <1>2, <1>3, <2>1
<1>6. ASSUME NEW j \in DOMAIN s, j > 1
      PROVE  /\ (j + Len(calls)) - 1 \in DOMAIN t
             /\ (j + Len(calls)) - 1 > Len(calls)
             /\ t[(j + Len(calls)) - 1] = s[j]
  <2>1. /\ j - 1 \in 1..(Len(s) - 1) /\ (j - 1) + 1 = j
        /\ (j + Len(calls)) - 1 = Len(calls) + (j - 1)
    BY <1>1, <1>6
  <2> QED
    BY <1>1, <1>2, <1>3, <1>4, <2>1
<1>7. \A i \in 1..Len(calls) : i \in DOMAIN t /\ t[i] = calls[i]
  BY <1>1, <1>3, <1>4
<1> QED
  BY <1>3, <1>4, <1>5, <1>6, <1>7

(***************************************************************************)
(* The same for the numbers of calls that occur.                           *)
(***************************************************************************)
LEMMA ReturnShape ==
    ASSUME stack \in Seq(CallRecords), stack # <<>>, Return
    PROVE  Shifted(0)
<1>1. stack' = <<>> \o Tail(stack) /\ <<>> \in Seq(CallRecords) /\ Len(<<>>) = 0
  BY DEF Return, ThenCall
<1> QED
  BY <1>1, PushShape DEF Shifted

LEMMA PushOne ==
    ASSUME stack \in Seq(CallRecords), stack # <<>>,
           NEW a \in CallRecords, ThenCall(<<a>>)
    PROVE  Shifted(1) /\ 1 \in DOMAIN stack' /\ stack'[1] = a
<1>1. /\ stack' = <<a>> \o Tail(stack) /\ <<a>> \in Seq(CallRecords) /\ Len(<<a>>) = 1
      /\ <<a>>[1] = a
  BY DEF ThenCall
<1> QED
  BY <1>1, PushShape DEF Shifted

LEMMA PushTwo ==
    ASSUME stack \in Seq(CallRecords), stack # <<>>,
           NEW a \in CallRecords, NEW b \in CallRecords, ThenCall(<<a, b>>)
    PROVE  /\ Shifted(2) /\ 1 \in DOMAIN stack' /\ 2 \in DOMAIN stack'
           /\ stack'[1] = a /\ stack'[2] = b
<1>1. /\ stack' = <<a, b>> \o Tail(stack) /\ <<a, b>> \in Seq(CallRecords)
      /\ Len(<<a, b>>) = 2 /\ <<a, b>>[1] = a /\ <<a, b>>[2] = b
  BY DEF ThenCall
<1> QED
  BY <1>1, PushShape DEF Shifted

LEMMA PushThree ==
    ASSUME stack \in Seq(CallRecords), stack # <<>>,
           NEW a \in CallRecords, NEW b \in CallRecords, NEW c \in CallRecords,
           ThenCall(<<a, b, c>>)
    PROVE  /\ Shifted(3)
           /\ 1 \in DOMAIN stack' /\ 2 \in DOMAIN stack' /\ 3 \in DOMAIN stack'
           /\ stack'[1] = a /\ stack'[2] = b /\ stack'[3] = c
<1>1. /\ stack' = <<a, b, c>> \o Tail(stack) /\ <<a, b, c>> \in Seq(CallRecords)
      /\ Len(<<a, b, c>>) = 3
      /\ <<a, b, c>>[1] = a /\ <<a, b, c>>[2] = b /\ <<a, b, c>>[3] = c
  BY DEF ThenCall
<1> QED
  BY <1>1, PushShape DEF Shifted

LEMMA ConcatThree ==
    ASSUME NEW S, NEW a \in S, NEW b \in S, NEW c \in S
    PROVE  <<a>> \o <<b, c>> = <<a, b, c>>
<1>1. /\ <<a>> \in Seq(S) /\ <<b, c>> \in Seq(S) /\ Len(<<a>>) = 1 /\ Len(<<b, c>>) = 2
      /\ <<a, b, c>> \in Seq(S) /\ Len(<<a, b, c>>) = 3
  OBVIOUS
<1>2. /\ <<a>> \o <<b, c>> \in Seq(S) /\ Len(<<a>> \o <<b, c>>) = 3
      /\ (<<a>> \o <<b, c>>)[1] = a /\ (<<a>> \o <<b, c>>)[2] = b
      /\ (<<a>> \o <<b, c>>)[3] = c
  BY <1>1
<1>3. \A s, t \in Seq(S) :
        Len(s) = 3 /\ Len(t) = 3 /\ s[1] = t[1] /\ s[2] = t[2] /\ s[3] = t[3] => s = t
  OBVIOUS
<1> QED
  BY <1>1, <1>2, <1>3

(***************************************************************************)
(* Every call a callback pushes is well formed, and the top of the stack   *)
(* is the running call.                                                    *)
(***************************************************************************)
LEMMA CallTypes ==
    ASSUME NEW f \in Calls, NEW r \in 1..lastId, NEW a \in Answers
    PROVE  /\ Call(f, r) \in CallRecords /\ CallWith(f, r, a) \in CallRecords
           /\ Call(f, r).call = f /\ Call(f, r).req = r /\ Call(f, r).answer = "TIMEOUT"
           /\ CallWith(f, r, a).call = f /\ CallWith(f, r, a).req = r
           /\ CallWith(f, r, a).answer = a
  BY DEF Call, CallWith, CallRecords, Answers

Top(f) ==
    /\ stack # <<>> /\ 1 \in DOMAIN stack
    /\ stack[1].call = f /\ stack[1].req = Req /\ stack[1].answer = Answer
    /\ Req \in 1..lastId /\ Answer \in Answers

LEMMA RunningShape ==
    ASSUME stack \in Seq(CallRecords), NEW f, Running(f)
    PROVE  Top(f)
<1>1. stack # <<>> /\ 1 \in DOMAIN stack /\ Head(stack) = stack[1] /\ stack[1] \in CallRecords
  BY DEF Running
<1> QED
  BY <1>1 DEF Running, Top, Req, Answer, CallRecords

(***************************************************************************)
(* What each call does to the stack.                                       *)
(***************************************************************************)
LEMMA BeginShape ==
    ASSUME stack \in Seq(CallRecords), Begin
    PROVE  /\ Top("begin")
           /\ \/ /\ Req \notin queuedTimers
                 /\ Shifted(2) /\ 1 \in DOMAIN stack' /\ 2 \in DOMAIN stack'
                 /\ stack'[1] = Call("close", Req) /\ stack'[2] = Call("callback", Req)
                 /\ UNCHANGED <<queuedVars, checking>>
              \/ /\ Req \in queuedTimers
                 /\ Shifted(0)
                 /\ begun' = begun \cup {Req}
                 /\ queuedTimers' = queuedTimers \ {Req}
                 /\ checking' = [checking EXCEPT ![Req] = "origin"]
                 /\ UNCHANGED closed
<1>1. Top("begin")
  BY RunningShape DEF Begin
<1>2. Call("close", Req) \in CallRecords /\ Call("callback", Req) \in CallRecords
  BY <1>1, CallTypes DEF Top, Calls, Answers
<1>3. CASE Req \notin queuedTimers
  BY <1>1, <1>2, <1>3, PushTwo DEF Begin, Top
<1>4. CASE Req \in queuedTimers
  BY <1>1, <1>4, ReturnShape DEF Begin, Top
<1> QED
  BY <1>1, <1>3, <1>4

LEMMA CloseShape ==
    ASSUME stack \in Seq(CallRecords), Close
    PROVE  /\ Top("close")
           /\ \/ Req \in closed /\ Shifted(0)
              \/ /\ Req \notin closed /\ Req \in begun
                 /\ Shifted(3)
                 /\ 1 \in DOMAIN stack' /\ 2 \in DOMAIN stack' /\ 3 \in DOMAIN stack'
                 /\ stack'[1] = Call("closeSigner", Req)
                 /\ stack'[2] = Call("complete", Req) /\ stack'[3] = Call("setClosed", Req)
              \/ /\ Req \notin closed /\ Req \notin begun
                 /\ Shifted(2) /\ 1 \in DOMAIN stack' /\ 2 \in DOMAIN stack'
                 /\ stack'[1] = Call("complete", Req) /\ stack'[2] = Call("setClosed", Req)
<1>1. Top("close")
  BY RunningShape DEF Close
<1>2. /\ Call("closeSigner", Req) \in CallRecords /\ Call("complete", Req) \in CallRecords
      /\ Call("setClosed", Req) \in CallRecords
  BY <1>1, CallTypes DEF Top, Calls, Answers
<1>3. CASE Req \in closed
  BY <1>1, <1>3, ReturnShape DEF Close, Top
<1>4. CASE Req \notin closed /\ Req \in begun
  <2>1. ThenCall(<<Call("closeSigner", Req)>>
                 \o <<Call("complete", Req), Call("setClosed", Req)>>)
    BY <1>4 DEF Close
  <2>2. <<Call("closeSigner", Req)>> \o <<Call("complete", Req), Call("setClosed", Req)>>
          = <<Call("closeSigner", Req), Call("complete", Req), Call("setClosed", Req)>>
    BY <1>2, ConcatThree
  <2>3. ThenCall(<<Call("closeSigner", Req), Call("complete", Req), Call("setClosed", Req)>>)
    BY <2>1, <2>2
  <2> QED
    BY <1>1, <1>2, <1>4, <2>3, PushThree DEF Top
<1>5. CASE Req \notin closed /\ Req \notin begun
  <2>1. ThenCall(<<>> \o <<Call("complete", Req), Call("setClosed", Req)>>)
    BY <1>5 DEF Close
  <2>2. <<>> \o <<Call("complete", Req), Call("setClosed", Req)>>
          = <<Call("complete", Req), Call("setClosed", Req)>>
    BY <1>2
  <2>3. ThenCall(<<Call("complete", Req), Call("setClosed", Req)>>)
    BY <2>1, <2>2
  <2> QED
    BY <1>1, <1>2, <1>5, <2>3, PushTwo DEF Top
<1> QED
  BY <1>1, <1>3, <1>4, <1>5

LEMMA SetClosedShape ==
    ASSUME stack \in Seq(CallRecords), SetClosed
    PROVE  Top("setClosed") /\ Shifted(0)
  BY RunningShape, ReturnShape DEF SetClosed, Top

LEMMA CloseSignerShape ==
    ASSUME stack \in Seq(CallRecords), CloseSigner
    PROVE  /\ Top("closeSigner")
           /\ Shifted(1) /\ 1 \in DOMAIN stack' /\ stack'[1] = Call("notify", Req)
<1>1. Top("closeSigner")
  BY RunningShape DEF CloseSigner
<1>2. Call("notify", Req) \in CallRecords
  BY <1>1, CallTypes DEF Top, Calls, Answers
<1> QED
  BY <1>1, <1>2, PushOne DEF CloseSigner, Top

LEMMA NotifyShape ==
    ASSUME stack \in Seq(CallRecords), Notify
    PROVE  /\ Top("notify")
           /\ \/ Req \in done /\ Shifted(0) /\ UNCHANGED <<done, signing>>
              \/ /\ Req \notin done
                 /\ done' = done \cup {Req} /\ signing' = signing \ {Req}
                 /\ Shifted(2) /\ 1 \in DOMAIN stack' /\ 2 \in DOMAIN stack'
                 /\ stack'[1] = Call("complete", Req)
                 /\ stack'[2] = CallWith("callback", Req, Answer)
<1>1. Top("notify")
  BY RunningShape DEF Notify
<1>2. Call("complete", Req) \in CallRecords /\ CallWith("callback", Req, Answer) \in CallRecords
  BY <1>1, CallTypes DEF Top, Calls, Answers
<1>3. CASE Req \in done
  BY <1>1, <1>3, ReturnShape DEF Notify, Top
<1>4. CASE Req \notin done
  BY <1>1, <1>2, <1>4, PushTwo DEF Notify, Top
<1> QED
  BY <1>1, <1>3, <1>4

(***************************************************************************)
(* The request that BeginBehind begins is the one whose begin the queue    *)
(* counts.                                                                 *)
(***************************************************************************)
LEMMA RemoveShape ==
    ASSUME Queue!TypeOK, NEW r \in Queue!Members, Queue!Remove(r)
    PROVE  /\ lastId' = lastId /\ starting' = starting
           /\ completed' = completed \cup {r}
           /\ overtaken => overtaken'
           /\ \/ BeginBehind(r) = <<>> /\ begins' = begins
              \/ \E u \in Queue!Members :
                   /\ r < u
                   /\ BeginBehind(r) = <<Call("begin", u)>>
                   /\ begins' = [begins EXCEPT ![u] = @ + 1]
<1> USE DEF Queue!TypeOK, Queue!Members, Queue!Issued, Queue!Tokens
<1>1. CASE \E u \in Queue!Members : Queue!IsNext(r, u)
  <2>1. PICK u \in Queue!Members : Queue!IsNext(r, u)
    BY <1>1
  <2>2. \A v \in Queue!Members : Queue!IsNext(r, v) => v = u
    BY <2>1 DEF Queue!IsNext
  <2>3. (CHOOSE v \in Queue!Members : Queue!IsNext(r, v)) = u
    BY <2>1, <2>2
  <2>4. BeginBehind(r) = <<Call("begin", u)>>
    BY <1>1, <2>3 DEF BeginBehind
  <2>5. r < u
    BY <2>1 DEF Queue!IsNext
  <2>6. begins' = [begins EXCEPT ![u] = @ + 1]
    BY <2>1, <2>2, <2>5 DEF Queue!Remove
  <2> QED
    BY <2>1, <2>4, <2>5, <2>6 DEF Queue!Remove
<1>2. CASE ~ \E u \in Queue!Members : Queue!IsNext(r, u)
  <2>1. BeginBehind(r) = <<>>
    BY <1>2 DEF BeginBehind
  <2>2. begins' = begins
    BY <1>2 DEF Queue!Remove
  <2> QED
    BY <2>1, <2>2 DEF Queue!Remove
<1> QED
  BY <1>1, <1>2

LEMMA CompleteShape ==
    ASSUME stack \in Seq(CallRecords), Queue!TypeOK, CompleteToken
    PROVE  /\ Top("complete")
           /\ lastId' = lastId /\ timers' = timers /\ starting' = starting
           /\ completed' = completed \cup {Req}
           /\ overtaken => overtaken'
           /\ \/ Shifted(0) /\ begins' = begins
              \/ \E u \in Queue!Members :
                   /\ u \in 1..lastId /\ Req < u /\ u \notin completed'
                   /\ begins' = [begins EXCEPT ![u] = @ + 1]
                   /\ Shifted(1) /\ 1 \in DOMAIN stack' /\ stack'[1] = Call("begin", u)
<1>1. Top("complete")
  BY RunningShape DEF CompleteToken
<1>2. CASE Req \in completed /\ Return /\ UNCHANGED queueVars
  BY <1>1, <1>2, ReturnShape DEF Top, queueVars
<1>3. CASE Queue!Complete(Req) /\ ThenCall(BeginBehind(Req))
  <2>1. Req \in Queue!Members /\ Queue!Remove(Req) /\ timers' = timers
    BY <1>3 DEF Queue!Complete
  <2>2. CASE BeginBehind(Req) = <<>> /\ begins' = begins
    <3>1. Return
      BY <1>3, <2>2 DEF Return
    <3> QED
      BY <1>1, <2>1, <2>2, <3>1, RemoveShape, ReturnShape DEF Top
  <2>3. ASSUME NEW u \in Queue!Members,
               Req < u, BeginBehind(Req) = <<Call("begin", u)>>,
               begins' = [begins EXCEPT ![u] = @ + 1]
        PROVE  /\ u \in 1..lastId /\ Req < u /\ u \notin completed'
               /\ begins' = [begins EXCEPT ![u] = @ + 1]
               /\ Shifted(1) /\ 1 \in DOMAIN stack' /\ stack'[1] = Call("begin", u)
    <3>1. u \in 1..lastId /\ u \notin completed /\ u # Req
      BY <1>1, <2>3 DEF Queue!Members, Queue!Issued, Top
    <3>2. u \notin completed'
      BY <2>1, <3>1, RemoveShape
    <3>3. Call("begin", u) \in CallRecords
      BY <3>1, CallTypes DEF Calls, Answers
    <3> QED
      BY <1>1, <1>3, <2>3, <3>1, <3>2, <3>3, PushOne DEF Top
  <2> QED
    BY <1>1, <2>1, <2>2, <2>3, RemoveShape
<1> QED
  BY <1>1, <1>2, <1>3 DEF CompleteToken

LEMMA WrappedCallbackShape ==
    ASSUME stack \in Seq(CallRecords), WrappedCallback
    PROVE  /\ Top("callback")
           /\ \/ Req \in wclosed /\ Shifted(0) /\ UNCHANGED <<calledBack, watchdogs>>
              \/ /\ Req \notin wclosed
                 /\ calledBack' = calledBack \cup {Req} /\ watchdogs' = watchdogs \ {Req}
                 /\ Shifted(1) /\ 1 \in DOMAIN stack'
                 /\ stack'[1] = CallWith("respond", Req, Answer)
<1>1. Top("callback")
  BY RunningShape DEF WrappedCallback
<1>2. CallWith("respond", Req, Answer) \in CallRecords
  BY <1>1, CallTypes DEF Top, Calls
<1>3. CASE Req \in wclosed
  BY <1>1, <1>3, ReturnShape DEF WrappedCallback, Top
<1>4. CASE Req \notin wclosed
  BY <1>1, <1>2, <1>4, PushOne DEF WrappedCallback, Top
<1> QED
  BY <1>1, <1>3, <1>4

LEMMA RespondShape ==
    ASSUME stack \in Seq(CallRecords), Respond
    PROVE  /\ Top("respond")
           /\ Shifted(2) /\ 1 \in DOMAIN stack' /\ 2 \in DOMAIN stack'
           /\ stack'[1] = Call("closeWatchdog", Req)
           /\ stack'[2] = CallWith("send", Req, Answer)
<1>1. Top("respond")
  BY RunningShape DEF Respond
<1>2. Call("closeWatchdog", Req) \in CallRecords /\ CallWith("send", Req, Answer) \in CallRecords
  BY <1>1, CallTypes DEF Top, Calls, Answers
<1> QED
  BY <1>1, <1>2, PushTwo DEF Respond, Top

LEMMA CloseWatchdogShape ==
    ASSUME stack \in Seq(CallRecords), CloseWatchdog
    PROVE  /\ Top("closeWatchdog")
           /\ \/ Shifted(0)
              \/ /\ Shifted(2) /\ 1 \in DOMAIN stack' /\ 2 \in DOMAIN stack'
                 /\ stack'[1] = Call("close", Req) /\ stack'[2] = Call("dropCloseable", Req)
<1>1. Top("closeWatchdog")
  BY RunningShape DEF CloseWatchdog
<1>2. Call("close", Req) \in CallRecords /\ Call("dropCloseable", Req) \in CallRecords
  BY <1>1, CallTypes DEF Top, Calls, Answers
<1>3. CASE Req \in wcloseable
  BY <1>1, <1>2, <1>3, PushTwo DEF CloseWatchdog, Top
<1>4. CASE Req \notin wcloseable
  <2>1. Return
    BY <1>4 DEF CloseWatchdog, Return
  <2> QED
    BY <1>1, <2>1, ReturnShape DEF Top
<1> QED
  BY <1>1, <1>3, <1>4

LEMMA LastShapes ==
    ASSUME stack \in Seq(CallRecords)
    PROVE  /\ DropCloseable => Top("dropCloseable") /\ Shifted(0)
           /\ Send => Top("send") /\ Shifted(0)
  BY RunningShape, ReturnShape DEF DropCloseable, Send, Top
-----------------------------------------------------------------------------
(***************************************************************************)
(* The queue.  QueueProofs speaks of an instance of TokenQueue of its      *)
(* own; its definitions are those of Queue.                                *)
(***************************************************************************)
LEMMA QueueStepIsProofs ==
    [Queue!Next]_queueVars => [QueueProofs!Next]_(QueueProofs!vars)
  BY DEF Queue!Next, QueueProofs!Next, queueVars, QueueProofs!vars,
         Queue!Tokens, QueueProofs!Tokens, Queue!Issued, QueueProofs!Issued,
         Queue!Members, QueueProofs!Members, Queue!IsHead, QueueProofs!IsHead,
         Queue!IsNext, QueueProofs!IsNext, Queue!QueueRequest, QueueProofs!QueueRequest,
         Queue!StartNow, QueueProofs!StartNow, Queue!Complete, QueueProofs!Complete,
         Queue!TimerFires, QueueProofs!TimerFires, Queue!Remove, QueueProofs!Remove

LEMMA QueueTypesAreProofs == Queue!TypeOK <=> QueueProofs!TypeOK
  BY DEF Queue!TypeOK, QueueProofs!TypeOK, Queue!Tokens, QueueProofs!Tokens,
         Queue!Issued, QueueProofs!Issued

(***************************************************************************)
(* Every step of this module is one of the queue's, or leaves it alone.    *)
(***************************************************************************)
LEMMA QueueStep ==
    ASSUME Queue!TypeOK, [Next]_vars
    PROVE  [Queue!Next]_queueVars /\ Queue!TypeOK'
<1>1. [Queue!Next]_queueVars
  <2>1. ASSUME NEW how \in Patience, NEW p \in Ports \cup {NoPort}, HandleSignRequest(how, p)
        PROVE  [Queue!Next]_queueVars
    <3>1. \E armed \in BOOLEAN : Queue!QueueRequest(armed)
      BY <2>1 DEF HandleSignRequest
    <3> QED
      BY <3>1 DEF Queue!Next
  <2>2. ASSUME NEW r \in Requests, StartNow(r) \/ TokenTimeout(r)
        PROVE  [Queue!Next]_queueVars
    BY <2>2 DEF StartNow, TokenTimeout, Queue!Next, Requests, Queue!Tokens
  <2>3. CASE CompleteToken
    <3>1. CASE Queue!Complete(Req)
      <4>1. Req \in Queue!Tokens
        BY <3>1 DEF Queue!Complete, Queue!Members, Queue!Issued, Queue!Tokens, Queue!TypeOK
      <4> QED
        BY <3>1, <4>1 DEF Queue!Next
    <3> QED
      BY <2>3, <3>1 DEF CompleteToken
  <2>4. CASE RunCall /\ ~CompleteToken
    BY <2>4 DEF RunCall, Begin, Close, SetClosed, CloseSigner, Notify, WrappedCallback,
                Respond, CloseWatchdog, DropCloseable, Send
  <2>5. ASSUME NEW p \in Ports, OtherRequest(p) \/ Disconnect(p)
        PROVE  [Queue!Next]_queueVars
    BY <2>5 DEF OtherRequest, Disconnect
  <2>6. ASSUME NEW r \in Requests, QueuedTimeout(r) \/ WatchdogTimeout(r)
        PROVE  [Queue!Next]_queueVars
    BY <2>6 DEF QueuedTimeout, WatchdogTimeout
  <2>7. ASSUME NEW r \in Requests, NEW result \in BOOLEAN,
               OriginChecked(r, result) \/ AppIdChecked(r, result)
        PROVE  [Queue!Next]_queueVars
    BY <2>7 DEF OriginChecked, AppIdChecked
  <2>8. ASSUME NEW r \in Requests, NEW answer \in {"OK", "HELPER_ERROR"},
               HelperComplete(r, answer)
        PROVE  [Queue!Next]_queueVars
    BY <2>8 DEF HelperComplete
  <2>9. CASE UNCHANGED vars
    BY <2>9 DEF vars, queueVars
  <2> QED
    BY <2>1, <2>2, <2>3, <2>4, <2>5, <2>6, <2>7, <2>8, <2>9 DEF Next
<1>2. QueueProofs!TypeOK'
  <2>1. QueueProofs!MaxTokensAssumption
    BY DEF QueueProofs!MaxTokensAssumption
  <2>2. QueueProofs!TypeOK /\ [QueueProofs!Next]_(QueueProofs!vars)
    BY <1>1, QueueStepIsProofs, QueueTypesAreProofs
  <2> QED
    BY <2>1, <2>2, QueueProofs!TypeStep
<1> QED
  BY <1>1, <1>2 DEF Queue!TypeOK, QueueProofs!TypeOK, Queue!Tokens, QueueProofs!Tokens,
                    Queue!Issued, QueueProofs!Issued

(***************************************************************************)
(* Sign requests use their queue only as TokenQueue allows, whatever nests *)
(* in whatever callback.                                                   *)
(***************************************************************************)
LEMMA QueueIsUsedRightly == Spec => Queue!Spec
<1>1. Init => Queue!Init /\ Queue!TypeOK
  <2>1. 0 \in 0..MaxRequests
    OBVIOUS
  <2>2. Queue!Init => lastId \in 0..MaxRequests /\ begins \in [Queue!Tokens -> Nat]
    BY <2>1 DEF Queue!Init
  <2>3. Queue!Init => Queue!TypeOK
    BY <2>2 DEF Queue!Init, Queue!TypeOK, Queue!Issued
  <2> QED
    BY <2>3 DEF Init
<1>2. Queue!TypeOK /\ [Next]_vars => [Queue!Next]_queueVars /\ Queue!TypeOK'
  BY QueueStep
<1> QED
  BY <1>1, <1>2, PTL DEF Spec, Queue!Spec, Queue!vars, queueVars

(***************************************************************************)
(* So what is proved of TokenQueue holds of sign requests: while no request*)
(* was cancelled out of turn only the head of the queue is in service, and *)
(* is begun once.                                                          *)
(***************************************************************************)
THEOREM SignsServedSerially == Spec => [](Queue!TypeOK /\ Queue!SerialService)
<1>1. QueueProofs!MaxTokensAssumption
  BY DEF QueueProofs!MaxTokensAssumption
<1>2. QueueProofs!Spec => []QueueProofs!SerialService
  BY <1>1, QueueProofs!ServesSerially
<1>3. QueueProofs!Spec => []QueueProofs!TypeOK
  BY <1>1, QueueProofs!TypeCorrect
<1>4. Queue!Init => QueueProofs!Init
  BY DEF Queue!Init, QueueProofs!Init, Queue!Tokens, QueueProofs!Tokens
<1>5. QueueProofs!SerialService => Queue!SerialService
  BY DEF QueueProofs!SerialService, Queue!SerialService, QueueProofs!Members,
         Queue!Members, QueueProofs!IsHead, Queue!IsHead, QueueProofs!Issued, Queue!Issued
<1>6. Queue!Spec => QueueProofs!Spec
  BY <1>4, QueueStepIsProofs, PTL
     DEF Queue!Spec, QueueProofs!Spec, Queue!vars, queueVars
<1> QED
  BY <1>2, <1>3, <1>5, <1>6, QueueTypesAreProofs, QueueIsUsedRightly, PTL
-----------------------------------------------------------------------------
(***************************************************************************)
(* Types.  TypeOK says that only begun requests have a Signer; for that    *)
(* the calls to a Signer on the stack, and its checks, must be of begun    *)
(* requests.                                                               *)
(***************************************************************************)
SignersBegun ==
    /\ \A i \in DOMAIN stack :
         stack[i].call \in {"notify", "closeSigner"} => stack[i].req \in begun
    /\ \A r \in Requests : checking[r] # "none" => r \in begun

TypeInv == TypeOK /\ SignersBegun

(***************************************************************************)
(* A callback that starts with no call or with one.                        *)
(***************************************************************************)
LEMMA StartShape ==
    /\ \A a : stack' = <<a>> => Started(a)
    /\ \A a \in CallRecords : <<a>> \in Seq(CallRecords)
    /\ stack = <<>> => DOMAIN stack = {}
  BY DEF Started

(***************************************************************************)
(* The calls on the stack stay those of begun requests when the rest of    *)
(* the stack moves and at most new calls are put on top.                   *)
(***************************************************************************)
LEMMA ShiftedSigners ==
    ASSUME SignersBegun, NEW n \in Nat, Shifted(n), begun \subseteq begun',
           \A i \in DOMAIN stack' : i <= n /\ stack'[i].call \in {"notify", "closeSigner"}
                                      => stack'[i].req \in begun',
           checking' = checking
    PROVE  SignersBegun'
<1>1. ASSUME NEW i \in DOMAIN stack', stack'[i].call \in {"notify", "closeSigner"}
      PROVE  stack'[i].req \in begun'
  <2>1. CASE i <= n
    BY <1>1, <2>1
  <2>2. CASE i > n
    BY <1>1, <2>2 DEF Shifted, SignersBegun
  <2>3. i \in Nat
    BY <1>1 DEF Shifted
  <2> QED
    BY <2>1, <2>2, <2>3
<1> QED
  BY <1>1 DEF SignersBegun

(***************************************************************************)
(* A call within a callback keeps the types.                               *)
(***************************************************************************)
LEMMA RunTypes ==
    ASSUME TypeInv, RunCall, Queue!TypeOK'
    PROVE  TypeInv'
<1> USE DEF TypeInv, portVars, queuedVars, signerVars, watchdogVars
<1>1. stack \in Seq(CallRecords)
  BY DEF TypeOK, CallRecords
<1>2. ASSUME NEW n \in Nat, Shifted(n), lastId' = lastId
      PROVE  stack' \in Seq([call : Calls, req : 1..lastId', answer : Answers])
  BY <1>2 DEF Shifted, CallRecords
<1>3. 0 \in Nat /\ 1 \in Nat /\ 2 \in Nat /\ 3 \in Nat
  OBVIOUS
<1>4. CASE Begin
  <2>1. lastId' = lastId
    BY <1>4 DEF Begin, queueVars
  <2>2. CASE Req \notin queuedTimers
    <3>1. /\ Shifted(2) /\ stack'[1] = Call("close", Req) /\ stack'[2] = Call("callback", Req)
          /\ UNCHANGED <<queuedVars, checking>>
      BY <1>1, <1>4, <2>2, BeginShape
    <3>2. SignersBegun'
      <4>1. \A i \in DOMAIN stack' : i <= 2 => i = 1 \/ i = 2
        BY <3>1 DEF Shifted
      <4> QED
        BY <1>3, <3>1, <4>1, ShiftedSigners DEF Call
    <3>3. TypeOK'
      BY <1>2, <1>3, <1>4, <2>1, <3>1 DEF TypeOK, Begin
    <3> QED
      BY <3>2, <3>3
  <2>3. CASE Req \in queuedTimers
    <3>1. /\ Shifted(0) /\ begun' = begun \cup {Req} /\ queuedTimers' = queuedTimers \ {Req}
          /\ checking' = [checking EXCEPT ![Req] = "origin"] /\ closed' = closed
      BY <1>1, <1>4, <2>3, BeginShape
    <3>2. SignersBegun'
      <4>1. \A i \in DOMAIN stack' : stack'[i].call \in {"notify", "closeSigner"}
                                       => stack'[i].req \in begun'
        BY <3>1 DEF Shifted, SignersBegun
      <4>2. \A r \in Requests : checking'[r] # "none" => r \in begun'
        BY <3>1 DEF SignersBegun, TypeOK
      <4> QED
        BY <4>1, <4>2 DEF SignersBegun
    <3>3. Req \in 1..lastId /\ Req \in Requests
      BY <2>3 DEF TypeOK, Queue!TypeOK, Requests
    <3>4. TypeOK'
      BY <1>2, <1>3, <1>4, <2>1, <3>1, <3>3 DEF TypeOK, Begin
    <3> QED
      BY <3>2, <3>4
  <2> QED
    BY <2>2, <2>3
<1>5. CASE Close
  <2>1. lastId' = lastId /\ checking' = checking /\ begun' = begun
    BY <1>5 DEF Close, queueVars
  <2>2. \E n \in {0, 2, 3} :
           /\ Shifted(n)
           /\ \A i \in DOMAIN stack' :
                i <= n /\ stack'[i].call \in {"notify", "closeSigner"} => stack'[i].req \in begun
    <3>1. \A i \in DOMAIN stack' : i \in Nat /\ i >= 1
      BY <1>1, <1>5, CloseShape DEF Shifted
    <3>2. CASE Shifted(0)
      BY <3>1, <3>2
    <3>3. CASE /\ Req \in begun /\ Shifted(3)
               /\ stack'[1] = Call("closeSigner", Req)
               /\ stack'[2] = Call("complete", Req) /\ stack'[3] = Call("setClosed", Req)
      <4>1. \A i \in DOMAIN stack' : i <= 3 => i = 1 \/ i = 2 \/ i = 3
        BY <3>1
      <4> QED
        BY <3>3, <4>1 DEF Call
    <3>4. CASE /\ Shifted(2)
               /\ stack'[1] = Call("complete", Req) /\ stack'[2] = Call("setClosed", Req)
      <4>1. \A i \in DOMAIN stack' : i <= 2 => i = 1 \/ i = 2
        BY <3>1
      <4> QED
        BY <3>4, <4>1 DEF Call
    <3> QED
      BY <1>1, <1>5, <3>2, <3>3, <3>4, CloseShape
  <2>3. SignersBegun'
    BY <1>3, <2>1, <2>2, ShiftedSigners
  <2>4. stack' \in Seq([call : Calls, req : 1..lastId', answer : Answers])
    BY <1>2, <1>3, <2>1, <2>2
  <2>5. UNCHANGED <<portVars, queuedVars, signerVars, watchdogVars, responses>>
    BY <1>5 DEF Close
  <2>6. TypeOK'
    BY <2>1, <2>4, <2>5 DEF TypeOK
  <2> QED
    BY <2>3, <2>6
<1>6. ASSUME Shifted(0), lastId' = lastId, UNCHANGED <<checking, begun>> PROVE SignersBegun'
  <2>1. \A i \in DOMAIN stack' : ~(i <= 0)
    BY <1>6 DEF Shifted
  <2> QED
    BY <1>3, <1>6, <2>1, ShiftedSigners
<1>7. ASSUME NEW a, Shifted(1), stack'[1] = a, lastId' = lastId, UNCHANGED <<checking, begun>>,
             a.call \in {"notify", "closeSigner"} => a.req \in begun
      PROVE  SignersBegun'
  <2>1. \A i \in DOMAIN stack' : i <= 1 => i = 1
    BY <1>7 DEF Shifted
  <2> QED
    BY <1>3, <1>7, <2>1, ShiftedSigners
<1>8. ASSUME NEW a, NEW b, Shifted(2), stack'[1] = a, stack'[2] = b,
             lastId' = lastId, UNCHANGED <<checking, begun>>,
             a.call \notin {"notify", "closeSigner"}, b.call \notin {"notify", "closeSigner"}
      PROVE  SignersBegun'
  <2>1. \A i \in DOMAIN stack' : i <= 2 => i = 1 \/ i = 2
    BY <1>8 DEF Shifted
  <2> QED
    BY <1>3, <1>8, <2>1, ShiftedSigners
<1>9. CASE SetClosed
  <2>1. Top("setClosed") /\ Shifted(0) /\ lastId' = lastId /\ UNCHANGED <<checking, begun>>
    BY <1>1, <1>9, SetClosedShape DEF SetClosed, queueVars
  <2> QED
    BY <1>2, <1>3, <1>6, <1>9, <2>1 DEF TypeOK, SetClosed, Top
<1>10. CASE CloseSigner
  <2>1. /\ Top("closeSigner") /\ Shifted(1) /\ stack'[1] = Call("notify", Req)
        /\ lastId' = lastId /\ UNCHANGED <<checking, begun>>
    BY <1>1, <1>10, CloseSignerShape DEF CloseSigner, queueVars
  <2>2. SignersBegun'
    BY <1>7, <2>1 DEF Call, SignersBegun, Top
  <2> QED
    BY <1>2, <1>3, <1>10, <2>1, <2>2 DEF TypeOK, CloseSigner
<1>11. CASE Notify
  <2>1. /\ Top("notify") /\ lastId' = lastId /\ UNCHANGED <<checking, begun>>
        /\ \/ Shifted(0) /\ UNCHANGED <<done, signing>>
           \/ /\ Shifted(2) /\ stack'[1] = Call("complete", Req)
              /\ stack'[2] = CallWith("callback", Req, Answer)
              /\ done' = done \cup {Req} /\ signing' = signing \ {Req}
    BY <1>1, <1>11, NotifyShape DEF Notify, queueVars
  <2>2. Req \in begun
    BY <2>1 DEF SignersBegun, Top
  <2>3. SignersBegun'
    BY <1>6, <1>8, <2>1 DEF Call, CallWith
  <2> QED
    BY <1>2, <1>3, <1>11, <2>1, <2>2, <2>3 DEF TypeOK, Notify
<1>12. CASE CompleteToken
  <2>1. /\ lastId' = lastId /\ UNCHANGED <<checking, begun>>
        /\ Shifted(0) \/ \E u \in Queue!Members : Shifted(1) /\ stack'[1] = Call("begin", u)
    BY <1>1, <1>12, CompleteShape DEF CompleteToken, TypeOK
  <2>2. SignersBegun'
    <3>1. ASSUME NEW u \in Queue!Members, Shifted(1), stack'[1] = Call("begin", u)
          PROVE  SignersBegun'
      <4>1. Call("begin", u).call = "begin"
        BY DEF Call
      <4> QED
        BY <1>7, <2>1, <3>1, <4>1
    <3> QED
      BY <1>6, <2>1, <3>1
  <2>3. stack' \in Seq([call : Calls, req : 1..lastId', answer : Answers])
    BY <1>2, <1>3, <2>1
  <2>4. UNCHANGED <<portVars, queuedVars, signerVars, watchdogVars, responses>>
    BY <1>12 DEF CompleteToken
  <2>5. lastId' = lastId
    BY <2>1
  <2>6. TypeOK'
    BY <2>3, <2>4, <2>5 DEF TypeOK
  <2> QED
    BY <2>2, <2>6
<1>13. CASE WrappedCallback
  <2>1. /\ Top("callback") /\ lastId' = lastId /\ UNCHANGED <<checking, begun>>
        /\ Shifted(0) \/ (Shifted(1) /\ stack'[1] = CallWith("respond", Req, Answer))
        /\ watchdogs' \subseteq watchdogs /\ calledBack' \subseteq calledBack \cup {Req}
    BY <1>1, <1>13, WrappedCallbackShape DEF WrappedCallback, queueVars
  <2>2. SignersBegun'
    BY <1>6, <1>7, <2>1 DEF CallWith
  <2> QED
    BY <1>2, <1>3, <1>13, <2>1, <2>2 DEF TypeOK, WrappedCallback, Top
<1>14. CASE Respond
  <2>1. /\ Shifted(2) /\ stack'[1] = Call("closeWatchdog", Req)
        /\ stack'[2] = CallWith("send", Req, Answer)
        /\ lastId' = lastId /\ UNCHANGED <<checking, begun>>
    BY <1>1, <1>14, RespondShape DEF Respond, queueVars
  <2>2. SignersBegun'
    BY <1>8, <2>1 DEF Call, CallWith
  <2> QED
    BY <1>2, <1>3, <1>14, <2>1, <2>2 DEF TypeOK, Respond
<1>15. CASE CloseWatchdog
  <2>1. /\ Top("closeWatchdog") /\ lastId' = lastId /\ UNCHANGED <<checking, begun>>
        /\ \/ Shifted(0)
           \/ /\ Shifted(2) /\ stack'[1] = Call("close", Req)
              /\ stack'[2] = Call("dropCloseable", Req)
    BY <1>1, <1>15, CloseWatchdogShape DEF CloseWatchdog, queueVars
  <2>2. SignersBegun'
    BY <1>6, <1>8, <2>1 DEF Call
  <2> QED
    BY <1>2, <1>3, <1>15, <2>1, <2>2 DEF TypeOK, CloseWatchdog, Top
<1>16. CASE DropCloseable
  <2>1. Shifted(0) /\ lastId' = lastId /\ UNCHANGED <<checking, begun>>
    BY <1>1, <1>16, LastShapes DEF DropCloseable, queueVars
  <2> QED
    BY <1>2, <1>3, <1>6, <1>16, <2>1 DEF TypeOK, DropCloseable
<1>17. CASE Send
  <2>1. Top("send") /\ Shifted(0) /\ lastId' = lastId /\ UNCHANGED <<checking, begun>>
    BY <1>1, <1>17, LastShapes DEF Send, queueVars
  <2>2. responses' \in [Requests -> Seq(Answers)]
    <3>1. \A s \in Seq(Answers) : Append(s, Answer) \in Seq(Answers)
      BY <2>1 DEF Top
    <3> QED
      BY <1>17, <3>1 DEF TypeOK, Send
  <2> QED
    BY <1>2, <1>3, <1>6, <1>17, <2>1, <2>2 DEF TypeOK, Send
<1> QED
  BY <1>4, <1>5, <1>9, <1>10, <1>11, <1>12, <1>13, <1>14, <1>15, <1>16, <1>17 DEF RunCall

(***************************************************************************)
(* A callback of the browser, which starts with an empty stack, keeps the  *)
(* types.                                                                  *)
(***************************************************************************)
LEMMA NewRequestTypes ==
    ASSUME TypeInv, Queue!TypeOK', NEW how \in Patience, NEW p \in Ports \cup {NoPort},
           HandleSignRequest(how, p)
    PROVE  TypeInv'
<1> USE DEF TypeInv
<1>1. /\ lastId' = lastId + 1 /\ lastId \in Nat /\ lastId + 1 \in Requests
      /\ stack = <<>> /\ stack' = <<>>
      /\ UNCHANGED <<openPorts, begun, closed, checking, done, signing, revived, calledBack,
                     wclosed, responses>>
  BY DEF HandleSignRequest, Idle, signerVars, Queue!QueueRequest, TypeOK, Queue!TypeOK,
         Requests
<1>2. \A r \in 1..lastId : r \in 1..lastId'
  BY <1>1
<1>3. port' \in [Requests -> Ports \cup {NoPort}]
  BY <1>1 DEF HandleSignRequest, TypeOK
<1>4. portCloseable' \in [Ports -> 0..lastId']
  BY <1>1 DEF HandleSignRequest, TypeOK
<1>5. /\ queuedTimers' \subseteq queuedTimers \cup {lastId'}
      /\ watchdogs' \subseteq watchdogs \cup {lastId'}
      /\ wcloseable' = wcloseable \cup {lastId'}
  BY <1>1 DEF HandleSignRequest
<1>6. lastId' \in 1..lastId'
  BY <1>1
<1>7. /\ queuedTimers' \cup begun' \cup closed' \subseteq 1..lastId'
      /\ watchdogs' \cup calledBack' \cup wclosed' \cup wcloseable' \subseteq 1..lastId'
  BY <1>1, <1>2, <1>5, <1>6 DEF TypeOK
<1>8. stack' \in Seq([call : Calls, req : 1..lastId', answer : Answers])
  BY <1>1
<1>9. TypeOK'
  BY <1>1, <1>3, <1>4, <1>7, <1>8 DEF TypeOK
<1>10. SignersBegun'
  BY <1>1 DEF SignersBegun
<1> QED
  BY <1>9, <1>10

LEMMA CallbackTypes ==
    ASSUME TypeInv, Queue!TypeOK', stack = <<>>, lastId' = lastId,
           stack' = <<>> \/ \E a \in CallRecords : stack' = <<a>> /\
              (a.call \in {"notify", "closeSigner"} => a.req \in begun),
           UNCHANGED <<port, calledBack, wclosed, wcloseable, begun, closed,
                       done, responses>>,
           openPorts' \subseteq openPorts, queuedTimers' \subseteq queuedTimers,
           watchdogs' \subseteq watchdogs,
           portCloseable' \in [Ports -> 0..lastId],
           checking' \in [Requests -> {"origin", "appId", "none"}],
           \A r \in Requests : checking'[r] # "none" => checking[r] # "none",
           signing' \subseteq begun, revived' \subseteq begun
    PROVE  TypeInv'
<1> USE DEF TypeInv
<1>1. stack' \in Seq(CallRecords)
  <2>1. CASE stack' = <<>>
    BY <2>1
  <2>2. ASSUME NEW a \in CallRecords, stack' = <<a>> PROVE stack' \in Seq(CallRecords)
    BY <2>2, StartShape
  <2> QED
    BY <2>1, <2>2
<1>2. TypeOK'
  BY <1>1 DEF TypeOK, CallRecords
<1>3. \A i \in DOMAIN stack' : stack'[i].call \in {"notify", "closeSigner"}
                                 => stack'[i].req \in begun'
  <2>1. ASSUME NEW a \in CallRecords, stack' = <<a>>,
               a.call \in {"notify", "closeSigner"} => a.req \in begun
        PROVE  \A i \in DOMAIN stack' : stack'[i].call \in {"notify", "closeSigner"}
                                          => stack'[i].req \in begun'
    BY <2>1, StartShape DEF Started
  <2> QED
    BY <2>1
<1>4. SignersBegun'
  BY <1>3 DEF SignersBegun
<1> QED
  BY <1>2, <1>4

LEMMA TypeStep ==
    ASSUME TypeInv, [Next]_vars
    PROVE  TypeInv'
<1> USE DEF portVars, queuedVars, signerVars, watchdogVars, TypeInv
<1>1. Queue!TypeOK'
  BY QueueStep DEF TypeOK
<1>2. \A r \in Requests, f \in Calls, a \in Answers :
        r \in 1..lastId => Call(f, r) \in CallRecords /\ CallWith(f, r, a) \in CallRecords
                           /\ Call(f, r).call = f /\ Call(f, r).req = r
                           /\ CallWith(f, r, a).call = f /\ CallWith(f, r, a).req = r
  BY CallTypes
<1>3. /\ \A r \in 1..lastId : r \in Requests
      /\ begun \subseteq 1..lastId /\ queuedTimers \subseteq 1..lastId
      /\ signing \subseteq begun /\ revived \subseteq begun
      /\ watchdogs \subseteq 1..lastId /\ timers \subseteq 1..lastId
      /\ starting \subseteq 1..lastId
  BY DEF TypeOK, Queue!TypeOK, Queue!Issued, Requests
<1>4. /\ portCloseable \in [Ports -> 0..lastId]
      /\ checking \in [Requests -> {"origin", "appId", "none"}]
  BY DEF TypeOK
<1>5. ASSUME NEW p \in Ports, OtherRequest(p) PROVE TypeInv'
  <2>1. portCloseable' \in [Ports -> 0..lastId]
    BY <1>4, <1>5 DEF OtherRequest, NoRequest, TypeOK, Queue!TypeOK
  <2> QED
    BY <1>1, <1>3, <1>4, <1>5, <2>1, CallbackTypes DEF OtherRequest, Idle, queueVars
<1>6. ASSUME NEW p \in Ports, Disconnect(p) PROVE TypeInv'
  <2>1. ASSUME portCloseable[p] # NoRequest
        PROVE  Call("closeWatchdog", portCloseable[p]) \in CallRecords
    BY <1>3, <1>4, <2>1, CallTypes DEF NoRequest, Calls, Answers
  <2>2. \A r : Call("closeWatchdog", r).call \notin {"notify", "closeSigner"}
    BY DEF Call
  <2>3. /\ stack = <<>> /\ openPorts' = openPorts \ {p}
        /\ stack' = <<>> \/ (portCloseable[p] # NoRequest
                             /\ stack' = <<Call("closeWatchdog", portCloseable[p])>>)
        /\ UNCHANGED <<queueVars, port, portCloseable, queuedVars, signerVars,
                       watchdogVars, responses>>
    BY <1>6 DEF Disconnect, Idle
  <2> QED
    BY <1>1, <1>3, <1>4, <2>1, <2>2, <2>3, CallbackTypes DEF queueVars
<1>7. ASSUME NEW r \in Requests, StartNow(r) PROVE TypeInv'
  <2>1. /\ r \in starting /\ stack = <<>> /\ lastId' = lastId
        /\ stack' = <<>> \/ stack' = <<Call("begin", r)>>
        /\ UNCHANGED <<portVars, queuedVars, signerVars, watchdogVars, responses>>
    BY <1>7 DEF StartNow, Idle, Queue!StartNow
  <2>2. Call("begin", r) \in CallRecords /\ Call("begin", r).call = "begin"
    BY <1>2, <1>3, <2>1 DEF Calls, Answers
  <2> QED
    BY <1>1, <1>3, <1>4, <2>1, <2>2, CallbackTypes
<1>8. ASSUME NEW r \in Requests, QueuedTimeout(r) PROVE TypeInv'
  <2>1. /\ r \in queuedTimers /\ stack = <<>> /\ lastId' = lastId
        /\ queuedTimers' = queuedTimers \ {r}
        /\ stack' = <<Call("close", r)>>
        /\ UNCHANGED <<portVars, begun, closed, signerVars, watchdogVars, responses>>
    BY <1>8 DEF QueuedTimeout, Idle, queueVars
  <2>2. Call("close", r) \in CallRecords /\ Call("close", r).call = "close"
    BY <1>2, <1>3, <2>1 DEF Calls, Answers
  <2> QED
    BY <1>1, <1>3, <1>4, <2>1, <2>2, CallbackTypes
<1>9. ASSUME NEW r \in Requests, TokenTimeout(r) PROVE TypeInv'
  <2>1. /\ stack = <<>> /\ lastId' = lastId /\ stack' = BeginBehind(r)
        /\ UNCHANGED <<portVars, queuedVars, signerVars, watchdogVars, responses>>
    BY <1>9 DEF TokenTimeout, Idle, Queue!TimerFires, Queue!Remove
  <2>2. stack' = <<>> \/ \E u \in Queue!Members : stack' = <<Call("begin", u)>>
    <3>1. CASE \E u \in Queue!Members : Queue!IsNext(r, u)
      BY <2>1, <3>1 DEF BeginBehind
    <3>2. CASE ~ \E u \in Queue!Members : Queue!IsNext(r, u)
      BY <2>1, <3>2 DEF BeginBehind
    <3> QED
      BY <3>1, <3>2
  <2>3. \A u \in Queue!Members :
          Call("begin", u) \in CallRecords /\ Call("begin", u).call = "begin"
    BY <1>2, <1>3 DEF Queue!Members, Queue!Issued, Calls, Answers
  <2> QED
    BY <1>1, <1>3, <1>4, <2>1, <2>2, <2>3, CallbackTypes
<1>10. ASSUME NEW r \in Requests, WatchdogTimeout(r) PROVE TypeInv'
  <2>1. /\ r \in watchdogs /\ stack = <<>> /\ lastId' = lastId
        /\ watchdogs' = watchdogs \ {r}
        /\ stack' = <<>> \/ stack' = <<Call("respond", r)>>
        /\ UNCHANGED <<portVars, queuedVars, signerVars, calledBack, wclosed, wcloseable,
                       responses>>
    BY <1>10 DEF WatchdogTimeout, Idle, queueVars
  <2>2. Call("respond", r) \in CallRecords /\ Call("respond", r).call = "respond"
    BY <1>2, <1>3, <2>1 DEF Calls, Answers
  <2> QED
    BY <1>1, <1>3, <1>4, <2>1, <2>2, CallbackTypes
<1>11. ASSUME NEW r \in Requests, NEW result \in BOOLEAN,
              OriginChecked(r, result) \/ AppIdChecked(r, result)
       PROVE  TypeInv'
  <2>1. /\ checking[r] # "none" /\ stack = <<>> /\ lastId' = lastId
        /\ stack' = <<>> \/ stack' = <<CallWith("notify", r, "BAD_REQUEST")>>
        /\ UNCHANGED <<portVars, queuedVars, done, watchdogVars, responses>>
        /\ signing' \subseteq signing \cup {r} /\ revived' \subseteq revived \cup {r}
        /\ checking' \in [Requests -> {"origin", "appId", "none"}]
        /\ \A s \in Requests : checking'[s] # "none" => checking[s] # "none"
    BY <1>4, <1>11 DEF OriginChecked, AppIdChecked, Idle, queueVars
  <2>2. r \in begun
    BY <2>1 DEF SignersBegun
  <2>3. /\ CallWith("notify", r, "BAD_REQUEST") \in CallRecords
        /\ CallWith("notify", r, "BAD_REQUEST").req = r
    BY <1>2, <1>3, <2>2 DEF Calls, Answers
  <2> QED
    BY <1>1, <1>3, <1>4, <2>1, <2>2, <2>3, CallbackTypes
<1>12. ASSUME NEW r \in Requests, NEW answer \in {"OK", "HELPER_ERROR"},
              HelperComplete(r, answer)
       PROVE  TypeInv'
  <2>1. /\ r \in signing /\ stack = <<>> /\ lastId' = lastId
        /\ stack' = <<CallWith("notify", r, answer)>>
        /\ signing' = signing \ {r}
        /\ UNCHANGED <<portVars, queuedVars, checking, done, revived, watchdogVars, responses>>
    BY <1>12 DEF HelperComplete, Idle, queueVars
  <2>2. /\ CallWith("notify", r, answer) \in CallRecords
        /\ CallWith("notify", r, answer).req = r
    BY <1>2, <1>3, <2>1 DEF Calls, Answers
  <2> QED
    BY <1>1, <1>3, <1>4, <2>1, <2>2, CallbackTypes
<1>13. CASE UNCHANGED vars
  BY <1>13 DEF vars, queueVars, TypeOK, SignersBegun, Queue!TypeOK, Queue!Issued, Queue!Tokens
<1>14. CASE RunCall
  BY <1>1, <1>14, RunTypes
<1> QED
  BY <1>1, <1>5, <1>6, <1>7, <1>8, <1>9, <1>10, <1>11, <1>12, <1>13, <1>14, NewRequestTypes
     DEF Next

(***************************************************************************)
(* Every reachable state is well typed.                                    *)
(***************************************************************************)
THEOREM TypeCorrect == Spec => []TypeInv
<1>1. Init => TypeInv
  <2>1. Init => Queue!TypeOK
    <3>1. 0 \in 0..MaxRequests
      OBVIOUS
    <3>2. Queue!Init => lastId \in 0..MaxRequests /\ begins \in [Queue!Tokens -> Nat]
      BY <3>1 DEF Queue!Init
    <3> QED
      BY <3>2 DEF Init, Queue!Init, Queue!TypeOK, Queue!Issued
  <2>2. Init => SignersBegun
    BY DEF Init, SignersBegun
  <2>3. Init => lastId = 0
    BY DEF Init, Queue!Init
  <2>4. <<>> \in Seq(Answers) /\ 0 \in 0..0
        /\ <<>> \in Seq([call : Calls, req : 1..0, answer : Answers])
    OBVIOUS
  <2>5. Init => /\ port \in [Requests -> Ports \cup {NoPort}] /\ openPorts \subseteq Ports
                /\ portCloseable \in [Ports -> 0..lastId]
                /\ checking \in [Requests -> {"origin", "appId", "none"}]
                /\ responses \in [Requests -> Seq(Answers)]
                /\ stack \in Seq([call : Calls, req : 1..lastId, answer : Answers])
    BY <2>3, <2>4 DEF Init, NoRequest
  <2> QED
    BY <2>1, <2>2, <2>5 DEF Init, TypeInv, TypeOK
<1>2. TypeInv /\ [Next]_vars => TypeInv'
  BY TypeStep
<1> QED
  BY <1>1, <1>2, PTL DEF Spec
-----------------------------------------------------------------------------
(***************************************************************************)
(* One response.  An answer on its way to the page is a respond or a send  *)
(* on the stack.  A request has at most one, none once it was answered;    *)
(* and the watchdog is closed, so that no other callback gets through,     *)
(* unless the call that closes it is the very next one.                    *)
(***************************************************************************)
Answering(i) == stack[i].call \in {"respond", "send"}

AnswerInv ==
    /\ \A r \in Requests :
         responses[r] # <<>> => Len(responses[r]) = 1 /\ r \in wclosed
    /\ \A i \in DOMAIN stack :
         Answering(i) =>
           /\ responses[stack[i].req] = <<>>
           /\ \/ stack[i].req \in wclosed
              \/ /\ stack[1].call \in {"respond", "closeWatchdog"}
                 /\ stack[1].req = stack[i].req
           /\ \A j \in DOMAIN stack :
                Answering(j) /\ stack[j].req = stack[i].req => i = j

(***************************************************************************)
(* Calls that answer nothing may come and go.                              *)
(***************************************************************************)
LEMMA ShiftedAnswers ==
    ASSUME AnswerInv, NEW n \in Nat, Shifted(n),
           \A i \in DOMAIN stack' : i <= n => ~Answering(i)',
           responses' = responses, wclosed \subseteq wclosed',
           stack[1].call \notin {"respond", "closeWatchdog"} \/ stack[1].req \in wclosed'
    PROVE  AnswerInv'
<1>1. ASSUME NEW i \in DOMAIN stack', Answering(i)'
      PROVE  /\ i \in Nat /\ i > n /\ (i - n) + 1 \in DOMAIN stack
             /\ stack'[i] = stack[(i - n) + 1] /\ Answering((i - n) + 1)
  <2>1. i \in Nat /\ i > n
    BY <1>1 DEF Shifted
  <2> QED
    BY <1>1, <2>1 DEF Shifted, Answering
<1>2. ASSUME NEW i \in DOMAIN stack', Answering(i)'
      PROVE  /\ responses'[stack'[i].req] = <<>>
             /\ stack'[i].req \in wclosed'
             /\ \A j \in DOMAIN stack' :
                  Answering(j)' /\ stack'[j].req = stack'[i].req => i = j
  <2>1. /\ i > n /\ (i - n) + 1 \in DOMAIN stack
        /\ stack'[i] = stack[(i - n) + 1] /\ Answering((i - n) + 1)
    BY <1>1, <1>2
  <2>2. responses'[stack'[i].req] = <<>>
    BY <2>1 DEF AnswerInv
  <2>3. stack'[i].req \in wclosed'
    BY <2>1 DEF AnswerInv
  <2>4. ASSUME NEW j \in DOMAIN stack', Answering(j)', stack'[j].req = stack'[i].req
        PROVE  i = j
    <3>1. /\ (j - n) + 1 \in DOMAIN stack /\ stack'[j] = stack[(j - n) + 1]
          /\ Answering((j - n) + 1)
      BY <1>1, <2>4
    <3>2. (i - n) + 1 = (j - n) + 1
      BY <2>1, <2>4, <3>1 DEF AnswerInv
    <3>3. i \in Nat /\ j \in Nat
      BY <1>1, <1>2, <2>4
    <3> QED
      BY <3>2, <3>3
  <2> QED
    BY <2>2, <2>3, <2>4
<1>3. \A r \in Requests : responses'[r] # <<>> => Len(responses'[r]) = 1 /\ r \in wclosed'
  BY DEF AnswerInv
<1> QED
  BY <1>2, <1>3 DEF AnswerInv

(***************************************************************************)
(* The calls that do answer.                                               *)
(***************************************************************************)
LEMMA CallbackAnswers ==
    ASSUME TypeInv, AnswerInv, WrappedCallback
    PROVE  AnswerInv'
<1>1. stack \in Seq(CallRecords)
  BY DEF TypeInv, TypeOK, CallRecords
<1>2. responses' = responses /\ wclosed' = wclosed /\ stack[1].call = "callback"
      /\ 1 \in DOMAIN stack
  BY <1>1, WrappedCallbackShape DEF WrappedCallback, Top
<1>3. CASE Shifted(0)
  <2>1. \A i \in DOMAIN stack' : ~(i <= 0)
    BY <1>3 DEF Shifted
  <2> QED
    BY <1>2, <1>3, <2>1, ShiftedAnswers
<1>4. CASE Req \notin wclosed /\ Shifted(1) /\ stack'[1] = CallWith("respond", Req, Answer)
  <2>1. stack'[1].call = "respond" /\ stack'[1].req = Req /\ 1 \in DOMAIN stack'
    BY <1>1, <1>4, WrappedCallbackShape DEF CallWith
  <2>2. Req \in Requests
    BY <1>1, WrappedCallbackShape DEF Top, TypeInv, TypeOK, Queue!TypeOK, Requests
  <2>3. responses[Req] = <<>>
    BY <1>4, <2>2 DEF AnswerInv
  <2>4. \A i \in DOMAIN stack : ~(Answering(i) /\ stack[i].req = Req)
    BY <1>2, <1>4 DEF AnswerInv
  <2>5. ASSUME NEW i \in DOMAIN stack', Answering(i)', i # 1
        PROVE  /\ i \in Nat /\ (i - 1) + 1 \in DOMAIN stack
               /\ stack'[i] = stack[(i - 1) + 1] /\ Answering((i - 1) + 1)
               /\ stack'[i].req # Req /\ stack'[i].req \in wclosed
               /\ responses[stack'[i].req] = <<>>
    <3>1. i \in Nat /\ i > 1
      BY <1>4, <2>5 DEF Shifted
    <3>2. /\ (i - 1) + 1 \in DOMAIN stack
          /\ stack'[i] = stack[(i - 1) + 1] /\ Answering((i - 1) + 1)
      BY <1>4, <2>5, <3>1 DEF Shifted, Answering
    <3> QED
      BY <1>2, <2>4, <3>1, <3>2 DEF AnswerInv
  <2>6. ASSUME NEW i \in DOMAIN stack', NEW j \in DOMAIN stack',
               Answering(i)', Answering(j)', stack'[j].req = stack'[i].req
        PROVE  i = j
    <3>1. CASE i = 1 \/ j = 1
      BY <2>1, <2>5, <2>6, <3>1
    <3>2. CASE i # 1 /\ j # 1
      <4>1. (i - 1) + 1 = (j - 1) + 1
        BY <2>5, <2>6, <3>2 DEF AnswerInv
      <4> QED
        BY <2>5, <2>6, <3>2, <4>1
    <3> QED
      BY <3>1, <3>2
  <2>7. ASSUME NEW i \in DOMAIN stack', Answering(i)'
        PROVE  /\ responses'[stack'[i].req] = <<>>
               /\ \/ stack'[i].req \in wclosed'
                  \/ stack'[1].call = "respond" /\ stack'[1].req = stack'[i].req
    BY <1>2, <2>1, <2>3, <2>5, <2>7
  <2> QED
    BY <1>2, <2>6, <2>7 DEF AnswerInv
<1> QED
  BY <1>1, <1>3, <1>4, WrappedCallbackShape

LEMMA RespondAnswers ==
    ASSUME TypeInv, AnswerInv, Respond
    PROVE  AnswerInv'
<1>1. stack \in Seq(CallRecords)
  BY DEF TypeInv, TypeOK, CallRecords
<1>2. /\ 1 \in DOMAIN stack /\ stack[1].call = "respond" /\ stack[1].req = Req
      /\ Shifted(2) /\ 1 \in DOMAIN stack' /\ 2 \in DOMAIN stack'
      /\ stack'[1].call = "closeWatchdog" /\ stack'[1].req = Req
      /\ stack'[2].call = "send" /\ stack'[2].req = Req
      /\ responses' = responses /\ wclosed' = wclosed
  BY <1>1, RespondShape DEF Respond, Top, Call, CallWith, watchdogVars
<1>3. ASSUME NEW i \in DOMAIN stack', Answering(i)', i # 2
      PROVE  /\ i \in Nat /\ (i - 2) + 1 \in DOMAIN stack /\ (i - 2) + 1 > 1
             /\ stack'[i] = stack[(i - 2) + 1] /\ Answering((i - 2) + 1)
             /\ stack'[i].req # Req /\ stack'[i].req \in wclosed
             /\ responses[stack'[i].req] = <<>>
  <2>1. i \in Nat /\ i > 2
    BY <1>2, <1>3 DEF Shifted, Answering
  <2>2. /\ (i - 2) + 1 \in DOMAIN stack /\ (i - 2) + 1 > 1
        /\ stack'[i] = stack[(i - 2) + 1] /\ Answering((i - 2) + 1)
    BY <1>2, <1>3, <2>1 DEF Shifted, Answering
  <2>3. stack'[i].req # Req
    BY <1>2, <2>2 DEF AnswerInv, Answering
  <2> QED
    BY <1>2, <2>1, <2>2, <2>3 DEF AnswerInv
<1>4. responses[Req] = <<>>
  BY <1>2 DEF AnswerInv, Answering
<1>5. ASSUME NEW i \in DOMAIN stack', NEW j \in DOMAIN stack',
             Answering(i)', Answering(j)', stack'[j].req = stack'[i].req
      PROVE  i = j
  <2>1. CASE i = 2 \/ j = 2
    BY <1>2, <1>3, <1>5, <2>1
  <2>2. CASE i # 2 /\ j # 2
    <3>1. (i - 2) + 1 = (j - 2) + 1
      BY <1>3, <1>5, <2>2 DEF AnswerInv
    <3> QED
      BY <1>3, <1>5, <2>2, <3>1
  <2> QED
    BY <2>1, <2>2
<1>6. ASSUME NEW i \in DOMAIN stack', Answering(i)'
      PROVE  /\ responses'[stack'[i].req] = <<>>
             /\ \/ stack'[i].req \in wclosed'
                \/ stack'[1].call = "closeWatchdog" /\ stack'[1].req = stack'[i].req
  BY <1>2, <1>3, <1>4, <1>6
<1> QED
  BY <1>2, <1>5, <1>6 DEF AnswerInv

LEMMA SendAnswers ==
    ASSUME TypeInv, AnswerInv, Send
    PROVE  AnswerInv'
<1>1. stack \in Seq(CallRecords)
  BY DEF TypeInv, TypeOK, CallRecords
<1>2. /\ 1 \in DOMAIN stack /\ stack[1].call = "send" /\ stack[1].req = Req
      /\ Req \in 1..lastId /\ Answer \in Answers /\ Shifted(0) /\ wclosed' = wclosed
  BY <1>1, LastShapes DEF Send, Top, watchdogVars
<1>3. Req \in Requests /\ responses \in [Requests -> Seq(Answers)]
  BY <1>2 DEF TypeInv, TypeOK, Queue!TypeOK, Requests
<1>4. responses[Req] = <<>> /\ Req \in wclosed
  BY <1>2 DEF AnswerInv, Answering
<1>5. ASSUME NEW r \in Requests, responses'[r] # <<>>
      PROVE  Len(responses'[r]) = 1 /\ r \in wclosed'
  <2>1. CASE r = Req
    <3>1. responses'[r] \in {<<>>, Append(<<>>, Answer)}
      BY <1>3, <1>4, <2>1 DEF Send
    <3>2. Len(Append(<<>>, Answer)) = 1
      OBVIOUS
    <3> QED
      BY <1>2, <1>4, <1>5, <2>1, <3>1, <3>2
  <2>2. CASE r # Req
    <3>1. responses'[r] = responses[r]
      BY <1>3, <2>2 DEF Send
    <3> QED
      BY <1>2, <1>5, <3>1 DEF AnswerInv
  <2> QED
    BY <2>1, <2>2
<1>6. ASSUME NEW i \in DOMAIN stack', Answering(i)'
      PROVE  /\ i \in Nat /\ (i - 0) + 1 \in DOMAIN stack
             /\ stack'[i] = stack[(i - 0) + 1] /\ Answering((i - 0) + 1)
             /\ stack'[i].req # Req /\ stack'[i].req \in wclosed
             /\ responses[stack'[i].req] = <<>>
  <2>1. i \in Nat /\ i > 0
    BY <1>2, <1>6 DEF Shifted
  <2>2. /\ (i - 0) + 1 \in DOMAIN stack /\ (i - 0) + 1 > 1
        /\ stack'[i] = stack[(i - 0) + 1] /\ Answering((i - 0) + 1)
    BY <1>2, <1>6, <2>1 DEF Shifted, Answering
  <2>3. stack'[i].req # Req
    BY <1>2, <2>2 DEF AnswerInv, Answering
  <2> QED
    BY <1>2, <2>1, <2>2, <2>3 DEF AnswerInv
<1>7. ASSUME NEW i \in DOMAIN stack', Answering(i)'
      PROVE  /\ responses'[stack'[i].req] = <<>> /\ stack'[i].req \in wclosed'
             /\ \A j \in DOMAIN stack' :
                  Answering(j)' /\ stack'[j].req = stack'[i].req => i = j
  <2>1. stack'[i].req \in Requests
    BY <1>1, <1>6, <1>7 DEF CallRecords, TypeInv, TypeOK, Queue!TypeOK, Requests
  <2>2. responses'[stack'[i].req] = <<>>
    BY <1>3, <1>6, <1>7, <2>1 DEF Send
  <2>3. ASSUME NEW j \in DOMAIN stack', Answering(j)', stack'[j].req = stack'[i].req
        PROVE  i = j
    <3>1. (i - 0) + 1 = (j - 0) + 1
      BY <1>6, <1>7, <2>3 DEF AnswerInv
    <3> QED
      BY <1>6, <1>7, <2>3, <3>1
  <2> QED
    BY <1>2, <1>6, <1>7, <2>2, <2>3
<1> QED
  BY <1>5, <1>7 DEF AnswerInv
-----------------------------------------------------------------------------
(***************************************************************************)
(* What a callback of the browser starts, and what it does to the queue    *)
(* and the timers: everything the safety invariants depend on.             *)
(***************************************************************************)
Unmoved == UNCHANGED <<queueVars, queuedTimers>>

NewRequest ==
    /\ stack' = <<>>
    /\ lastId' = lastId + 1 /\ lastId + 1 \in Requests
    /\ timers \subseteq timers' /\ timers' \subseteq timers \cup {lastId'}
    /\ queuedTimers \subseteq queuedTimers' /\ queuedTimers' \subseteq queuedTimers \cup {lastId'}
    /\ lastId' \in timers' => lastId' \in queuedTimers'
    /\ UNCHANGED <<completed, begins, overtaken>>

StartsNothing == stack' = <<>> /\ Unmoved

StartsHead(r) ==
    /\ r \in starting
    /\ UNCHANGED <<lastId, completed, timers, overtaken, queuedTimers>>
    /\ \/ stack' = <<>> /\ begins' = begins
       \/ /\ r \in Queue!Members
          /\ stack' = <<Call("begin", r)>>
          /\ begins' = [begins EXCEPT ![r] = @ + 1]

ClosesQueued(r) ==
    /\ r \in queuedTimers /\ queuedTimers' = queuedTimers \ {r}
    /\ stack' = <<Call("close", r)>>
    /\ UNCHANGED queueVars

ExpiresToken(r) ==
    /\ r \in timers /\ timers' = timers \ {r}
    /\ completed' = completed \cup {r} /\ lastId' = lastId
    /\ overtaken => overtaken'
    /\ UNCHANGED queuedTimers
    /\ \/ stack' = <<>> /\ begins' = begins
       \/ \E u \in Queue!Members :
            /\ u \notin completed'
            /\ stack' = <<Call("begin", u)>>
            /\ begins' = [begins EXCEPT ![u] = @ + 1]

TimesOut(r) ==
    /\ r \in 1..lastId /\ r \notin timers /\ r \notin wclosed
    /\ stack' = <<Call("respond", r)>>
    /\ Unmoved

Notifies(r, a) ==
    /\ r \in begun /\ a # "TIMEOUT"
    /\ stack' = <<CallWith("notify", r, a)>>
    /\ Unmoved

ClosesWatchdog(r) ==
    /\ r \in 1..lastId
    /\ stack' = <<Call("closeWatchdog", r)>>
    /\ Unmoved

LEMMA CallbackKinds ==
    ASSUME TypeInv, Next, ~RunCall
    PROVE  /\ stack = <<>>
           /\ UNCHANGED <<begun, closed, done, wclosed, responses>>
           /\ \/ NewRequest \/ StartsNothing
              \/ \E r \in Requests :
                   \/ StartsHead(r) \/ ClosesQueued(r) \/ ExpiresToken(r)
                   \/ TimesOut(r) \/ ClosesWatchdog(r)
                   \/ \E a \in Answers : Notifies(r, a)
<1> DEFINE Goal ==
           /\ stack = <<>>
           /\ UNCHANGED <<begun, closed, done, wclosed, responses>>
           /\ \/ NewRequest \/ StartsNothing
              \/ \E r \in Requests :
                   \/ StartsHead(r) \/ ClosesQueued(r) \/ ExpiresToken(r)
                   \/ TimesOut(r) \/ ClosesWatchdog(r)
                   \/ \E a \in Answers : Notifies(r, a)
<1> USE DEF portVars, queuedVars, signerVars, watchdogVars, Unmoved, queueVars, Idle
<1>1. /\ Queue!TypeOK /\ watchdogs \subseteq 1..lastId /\ signing \subseteq begun
      /\ portCloseable \in [Ports -> 0..lastId]
      /\ timers \subseteq 1..lastId /\ completed \subseteq 1..lastId /\ starting \subseteq 1..lastId
      /\ lastId \in 0..MaxRequests
      /\ \A r \in Requests : checking[r] # "none" => r \in begun
  BY DEF TypeInv, TypeOK, SignersBegun, Queue!TypeOK, Queue!Issued
<1>2. ASSUME NEW how \in Patience, NEW p \in Ports \cup {NoPort}, HandleSignRequest(how, p)
      PROVE  Goal
  <2>1. NewRequest
    <3>1. /\ lastId' = lastId + 1 /\ lastId < MaxRequests
          /\ timers' = IF how = "long" THEN timers \cup {lastId + 1} ELSE timers
          /\ queuedTimers' = IF how = "long" THEN queuedTimers \cup {lastId + 1}
                             ELSE queuedTimers
          /\ stack' = <<>> /\ UNCHANGED <<completed, begins, overtaken>>
      BY <1>2 DEF HandleSignRequest, Queue!QueueRequest
    <3>2. lastId + 1 \in Requests /\ lastId + 1 \notin timers
      BY <1>1, <3>1 DEF Requests
    <3> QED
      BY <3>1, <3>2 DEF NewRequest
  <2> QED
    BY <1>2, <2>1 DEF HandleSignRequest
<1>3. ASSUME NEW p \in Ports, OtherRequest(p) PROVE Goal
  BY <1>3 DEF OtherRequest, StartsNothing
<1>4. ASSUME NEW p \in Ports, Disconnect(p) PROVE Goal
  <2>1. CASE portCloseable[p] = NoRequest
    BY <1>4, <2>1 DEF Disconnect, StartsNothing
  <2>2. CASE portCloseable[p] # NoRequest
    <3>1. portCloseable[p] \in Requests /\ portCloseable[p] \in 1..lastId
      BY <1>1, <2>2 DEF NoRequest, Requests
    <3>2. ClosesWatchdog(portCloseable[p])
      BY <1>4, <2>2, <3>1 DEF Disconnect, ClosesWatchdog
    <3> QED
      BY <1>4, <3>1, <3>2 DEF Disconnect
  <2> QED
    BY <2>1, <2>2
<1>5. ASSUME NEW r \in Requests, StartNow(r) PROVE Goal
  <2>1. StartsHead(r)
    BY <1>1, <1>5 DEF StartNow, Queue!StartNow, StartsHead, Queue!Members, Queue!Issued
  <2> QED
    BY <1>5, <2>1 DEF StartNow
<1>6. ASSUME NEW r \in Requests, QueuedTimeout(r) PROVE Goal
  <2>1. ClosesQueued(r)
    BY <1>6 DEF QueuedTimeout, ClosesQueued
  <2> QED
    BY <1>6, <2>1 DEF QueuedTimeout
<1>7. ASSUME NEW r \in Requests, TokenTimeout(r) PROVE Goal
  <2>1. ExpiresToken(r)
    <3>1. r \in timers /\ timers' = timers \ {r} /\ stack' = BeginBehind(r)
          /\ UNCHANGED queuedTimers
      BY <1>7 DEF TokenTimeout, Queue!TimerFires
    <3>2. CASE r \in Queue!Members /\ Queue!Remove(r)
      <4>1. /\ lastId' = lastId /\ completed' = completed \cup {r} /\ (overtaken => overtaken')
            /\ \/ BeginBehind(r) = <<>> /\ begins' = begins
               \/ \E u \in Queue!Members :
                   /\ r < u
                   /\ BeginBehind(r) = <<Call("begin", u)>>
                   /\ begins' = [begins EXCEPT ![u] = @ + 1]
        BY <1>1, <3>2, RemoveShape
      <4>2. \A u \in Queue!Members : r < u => u \notin completed \cup {r}
        BY <1>1 DEF Queue!Members, Queue!Issued
      <4> QED
        BY <3>1, <4>1, <4>2 DEF ExpiresToken
    <3>3. CASE r \in completed /\ UNCHANGED <<lastId, completed, starting, begins, overtaken>>
      <4>1. BeginBehind(r) = <<>>
        BY <3>3 DEF BeginBehind, Queue!IsNext, Queue!Members
      <4> QED
        BY <3>1, <3>3, <4>1 DEF ExpiresToken
    <3> QED
      BY <1>7, <3>2, <3>3 DEF TokenTimeout, Queue!TimerFires
  <2> QED
    BY <1>7, <2>1 DEF TokenTimeout
<1>8. ASSUME NEW r \in Requests, WatchdogTimeout(r) PROVE Goal
  <2>1. StartsNothing \/ TimesOut(r)
    BY <1>1, <1>8 DEF WatchdogTimeout, StartsNothing, TimesOut
  <2> QED
    BY <1>8, <2>1 DEF WatchdogTimeout
<1>9. ASSUME NEW r \in Requests, NEW result \in BOOLEAN,
             OriginChecked(r, result) \/ AppIdChecked(r, result)
      PROVE  Goal
  <2>1. /\ stack = <<>> /\ UNCHANGED <<begun, closed, done, wclosed, responses>>
        /\ Unmoved /\ checking[r] # "none"
        /\ stack' = <<>> \/ stack' = <<CallWith("notify", r, "BAD_REQUEST")>>
    BY <1>9 DEF OriginChecked, AppIdChecked
  <2>2. r \in begun /\ "BAD_REQUEST" \in Answers /\ "BAD_REQUEST" # "TIMEOUT"
    BY <1>1, <2>1 DEF Answers
  <2>3. StartsNothing \/ Notifies(r, "BAD_REQUEST")
    BY <2>1, <2>2 DEF StartsNothing, Notifies
  <2> QED
    BY <2>1, <2>2, <2>3
<1>10. ASSUME NEW r \in Requests, NEW answer \in {"OK", "HELPER_ERROR"},
              HelperComplete(r, answer)
       PROVE  Goal
  <2>1. Notifies(r, answer) /\ answer \in Answers
    BY <1>1, <1>10 DEF HelperComplete, Notifies, Answers
  <2> QED
    BY <1>10, <2>1 DEF HelperComplete
<1> QED
  BY <1>2, <1>3, <1>4, <1>5, <1>6, <1>7, <1>8, <1>9, <1>10 DEF Next

(***************************************************************************)
(* Calls and callbacks that answer nothing.                                *)
(***************************************************************************)
LEMMA StartedAnswers ==
    ASSUME AnswerInv, stack = <<>>, responses' = responses, wclosed' = wclosed,
           stack' = <<>> \/ \E a : stack' = <<a>> /\ a.call \notin {"respond", "send"}
    PROVE  AnswerInv'
<1>1. \A i \in DOMAIN stack' : ~Answering(i)'
  <2>1. CASE stack' = <<>>
    BY <2>1
  <2>2. ASSUME NEW a, stack' = <<a>>, a.call \notin {"respond", "send"}
        PROVE  \A i \in DOMAIN stack' : ~Answering(i)'
    BY <2>2, StartShape DEF Started, Answering
  <2> QED
    BY <2>1, <2>2
<1> QED
  BY <1>1 DEF AnswerInv

LEMMA TimeoutAnswers ==
    ASSUME TypeInv, AnswerInv, stack = <<>>, responses' = responses, wclosed' = wclosed,
           NEW r \in Requests, TimesOut(r)
    PROVE  AnswerInv'
<1>1. stack' = <<Call("respond", r)>> /\ r \notin wclosed
  BY DEF TimesOut
<1>2. DOMAIN stack' = {1} /\ stack'[1].call = "respond" /\ stack'[1].req = r
  BY <1>1, StartShape DEF Started, Call
<1>3. responses[r] = <<>>
  BY <1>1 DEF AnswerInv
<1> QED
  BY <1>2, <1>3 DEF AnswerInv

LEMMA AnswerStep ==
    ASSUME TypeInv, AnswerInv, [Next]_vars
    PROVE  AnswerInv'
<1>1. stack \in Seq(CallRecords) /\ Queue!TypeOK
  BY DEF TypeInv, TypeOK, CallRecords
<1>2. 0 \in Nat /\ 1 \in Nat /\ 2 \in Nat /\ 3 \in Nat
  OBVIOUS
<1>3. ASSUME NEW n \in {0, 1, 2, 3}, Shifted(n),
             n >= 1 => stack'[1].call \notin {"respond", "send"},
             n >= 2 => stack'[2].call \notin {"respond", "send"},
             n >= 3 => stack'[3].call \notin {"respond", "send"},
             responses' = responses, wclosed \subseteq wclosed',
             stack[1].call \notin {"respond", "closeWatchdog"} \/ stack[1].req \in wclosed'
      PROVE  AnswerInv'
  <2>1. ASSUME NEW i \in DOMAIN stack', i <= n PROVE ~Answering(i)'
    <3>1. i \in Nat /\ i >= 1
      BY <1>3, <2>1 DEF Shifted
    <3>2. i = 1 \/ i = 2 \/ i = 3
      BY <1>3, <2>1, <3>1
    <3> QED
      BY <1>3, <2>1, <3>2 DEF Answering
  <2> QED
    BY <1>2, <1>3, <2>1, ShiftedAnswers
<1>4. CASE RunCall
  <2> USE DEF watchdogVars, Top, Call, CallWith
  <2>1. CASE Begin
    <3>1. responses' = responses /\ wclosed' = wclosed
      BY <2>1 DEF Begin
    <3>2. stack[1].call = "begin" /\
          \/ Shifted(2) /\ stack'[1].call = "close" /\ stack'[2].call = "callback"
          \/ Shifted(0)
      BY <1>1, <2>1, BeginShape
    <3> QED
      BY <1>3, <3>1, <3>2
  <2>2. CASE Close
    <3>1. responses' = responses /\ wclosed' = wclosed
      BY <2>2 DEF Close
    <3>2. stack[1].call = "close" /\
          \/ Shifted(0)
          \/ /\ Shifted(3) /\ stack'[1].call = "closeSigner"
             /\ stack'[2].call = "complete" /\ stack'[3].call = "setClosed"
          \/ Shifted(2) /\ stack'[1].call = "complete" /\ stack'[2].call = "setClosed"
      BY <1>1, <2>2, CloseShape
    <3> QED
      BY <1>3, <3>1, <3>2
  <2>3. CASE SetClosed \/ DropCloseable
    <3>1. responses' = responses /\ wclosed' = wclosed
      BY <2>3 DEF SetClosed, DropCloseable
    <3>2. stack[1].call \in {"setClosed", "dropCloseable"} /\ Shifted(0)
      BY <1>1, <2>3, SetClosedShape, LastShapes
    <3> QED
      BY <1>3, <3>1, <3>2
  <2>4. CASE CloseSigner
    <3>1. responses' = responses /\ wclosed' = wclosed
      BY <2>4 DEF CloseSigner
    <3>2. stack[1].call = "closeSigner" /\ Shifted(1) /\ stack'[1].call = "notify"
      BY <1>1, <2>4, CloseSignerShape
    <3> QED
      BY <1>3, <3>1, <3>2
  <2>5. CASE Notify
    <3>1. responses' = responses /\ wclosed' = wclosed
      BY <2>5 DEF Notify
    <3>2. stack[1].call = "notify" /\
          \/ Shifted(0)
          \/ Shifted(2) /\ stack'[1].call = "complete" /\ stack'[2].call = "callback"
      BY <1>1, <2>5, NotifyShape
    <3> QED
      BY <1>3, <3>1, <3>2
  <2>6. CASE CompleteToken
    <3>1. responses' = responses /\ wclosed' = wclosed
      BY <2>6 DEF CompleteToken
    <3>2. stack[1].call = "complete" /\
          \/ Shifted(0)
          \/ Shifted(1) /\ stack'[1].call = "begin"
      <4>1. \A u : Call("begin", u).call = "begin"
        BY DEF Call
      <4>2. /\ Top("complete")
            /\ Shifted(0) \/ \E u : Shifted(1) /\ stack'[1] = Call("begin", u)
        BY <1>1, <2>6, CompleteShape
      <4> QED
        BY <4>1, <4>2
    <3> QED
      BY <1>3, <3>1, <3>2
  <2>7. CASE WrappedCallback
    BY <2>7, CallbackAnswers
  <2>8. CASE Respond
    BY <2>8, RespondAnswers
  <2>9. CASE CloseWatchdog
    <3>1. responses' = responses /\ wclosed' = wclosed \cup {Req}
      BY <2>9 DEF CloseWatchdog
    <3>2. stack[1].req = Req /\
          \/ Shifted(0)
          \/ Shifted(2) /\ stack'[1].call = "close" /\ stack'[2].call = "dropCloseable"
      BY <1>1, <2>9, CloseWatchdogShape
    <3> QED
      BY <1>3, <3>1, <3>2
  <2>10. CASE Send
    BY <2>10, SendAnswers
  <2> QED
    BY <1>4, <2>1, <2>2, <2>3, <2>4, <2>5, <2>6, <2>7, <2>8, <2>9, <2>10 DEF RunCall
<1>5. CASE Next /\ ~RunCall
  <2>1. stack = <<>> /\ responses' = responses /\ wclosed' = wclosed
    BY <1>5, CallbackKinds
  <2>2. \A r \in Requests, a \in Answers :
          StartsHead(r) \/ ClosesQueued(r) \/ ExpiresToken(r) \/ ClosesWatchdog(r) \/ Notifies(r, a)
            => stack' = <<>> \/ \E b : stack' = <<b>> /\ b.call \notin {"respond", "send"}
    <3>1. \A r, a : /\ Call("begin", r).call = "begin" /\ Call("close", r).call = "close"
                    /\ Call("closeWatchdog", r).call = "closeWatchdog"
                    /\ CallWith("notify", r, a).call = "notify"
      BY DEF Call, CallWith
    <3> QED
      BY <3>1 DEF StartsHead, ClosesQueued, ExpiresToken, ClosesWatchdog, Notifies
  <2>3. NewRequest \/ StartsNothing => stack' = <<>>
    BY DEF NewRequest, StartsNothing
  <2>4. CASE stack' = <<>> \/ \E b : stack' = <<b>> /\ b.call \notin {"respond", "send"}
    BY <2>1, <2>4, StartedAnswers
  <2>5. ASSUME NEW r \in Requests, TimesOut(r) PROVE AnswerInv'
    BY <2>1, <2>5, TimeoutAnswers
  <2>6. \/ NewRequest \/ StartsNothing
        \/ \E r \in Requests : TimesOut(r)
        \/ \E r \in Requests, a \in Answers :
             \/ StartsHead(r) \/ ClosesQueued(r) \/ ExpiresToken(r) \/ ClosesWatchdog(r)
             \/ Notifies(r, a)
    <3>1. Next /\ ~RunCall /\ TypeInv
      BY <1>5
    <3>2. "OK" \in Answers
      BY DEF Answers
    <3> QED
      BY <3>1, <3>2, CallbackKinds
  <2>7. CASE \E r \in Requests, a \in Answers :
               \/ StartsHead(r) \/ ClosesQueued(r) \/ ExpiresToken(r) \/ ClosesWatchdog(r)
               \/ Notifies(r, a)
    BY <2>2, <2>4, <2>7
  <2> QED
    BY <2>3, <2>4, <2>5, <2>6, <2>7
<1>6. CASE UNCHANGED vars
  BY <1>6 DEF vars, watchdogVars, AnswerInv, Answering
<1> QED
  BY <1>4, <1>5, <1>6

(***************************************************************************)
(* Every call that may answer a page is accounted for.                     *)
(***************************************************************************)
LEMMA AnswersAccountedFor == Spec => []AnswerInv
<1>1. Init => AnswerInv
  BY DEF Init, AnswerInv
<1>2. TypeInv /\ AnswerInv /\ [Next]_vars => AnswerInv'
  BY AnswerStep
<1> QED
  BY <1>1, <1>2, TypeCorrect, PTL DEF Spec

(***************************************************************************)
(* A page gets at most one response to a sign request, although the object *)
(* that should guard it is passed by value.                                *)
(***************************************************************************)
THEOREM RespondsOnce == Spec => []AtMostOneResponse
<1>1. AnswerInv => AtMostOneResponse
  <2> SUFFICES ASSUME AnswerInv, NEW r \in Requests PROVE Len(responses[r]) <= 1
    BY DEF AtMostOneResponse
  <2>1. CASE responses[r] = <<>>
    BY <2>1
  <2>2. CASE responses[r] # <<>>
    <3>1. Len(responses[r]) = 1
      BY <2>2 DEF AnswerInv
    <3>2. 1 <= 1
      OBVIOUS
    <3> QED
      BY <3>1, <3>2
  <2> QED
    BY <2>1, <2>2
<1> QED
  BY <1>1, AnswersAccountedFor, PTL
-----------------------------------------------------------------------------
(***************************************************************************)
(* The order of the calls on the stack.  A call pushes calls of its own    *)
(* request, or begins a later one; so the requests decrease down the stack,*)
(* and a request that is about to begin has no other call outstanding.     *)
(***************************************************************************)
StackOrder ==
    /\ \A i \in DOMAIN stack : stack[i].call \in {"begin", "respond"} => i = 1
    /\ \A i, j \in DOMAIN stack : i < j => stack[j].req <= stack[i].req
    /\ \A i, j \in DOMAIN stack : i < j /\ stack[i].call = "begin"
                                    => stack[j].req < stack[i].req
    /\ \A i \in DOMAIN stack : stack[i].call = "begin" => stack[i].req \in Queue!Members

(***************************************************************************)
(* The two ways a call replaces itself.                                    *)
(***************************************************************************)
SameRequest(n) ==
    /\ Shifted(n)
    /\ \A i \in DOMAIN stack' :
         i <= n => /\ stack'[i].req = Req
                   /\ stack'[i].call # "begin"
                   /\ stack'[i].call = "respond" => i = 1

BeginsNext(u) ==
    /\ Shifted(1) /\ 1 \in DOMAIN stack' /\ stack'[1] = Call("begin", u)
    /\ u \in 1..lastId /\ Req < u /\ u \notin completed'
    /\ begins' = [begins EXCEPT ![u] = @ + 1]

(***************************************************************************)
(* What running a call does to the state the invariants below speak of.    *)
(***************************************************************************)
LEMMA RunEffects ==
    ASSUME TypeInv, RunCall
    PROVE  /\ 1 \in DOMAIN stack /\ stack[1].req = Req /\ Req \in 1..lastId
           /\ stack[1].call \in Calls /\ stack[1].answer = Answer
           /\ lastId' = lastId /\ timers' = timers /\ (overtaken => overtaken')
           /\ completed \subseteq completed' /\ wclosed \subseteq wclosed'
           /\ done \subseteq done' /\ closed \subseteq closed'
           /\ \/ \E n \in {0, 1, 2, 3} : SameRequest(n) /\ begins' = begins
              \/ \E u : BeginsNext(u)
           /\ ~Begin => UNCHANGED <<begun, queuedTimers>>
           /\ ~CompleteToken => UNCHANGED <<completed, begins, overtaken>>
<1>1. stack \in Seq(CallRecords) /\ Queue!TypeOK
  BY DEF TypeInv, TypeOK, CallRecords
<1> DEFINE Changes ==
             /\ lastId' = lastId /\ timers' = timers /\ (overtaken => overtaken')
             /\ completed \subseteq completed' /\ wclosed \subseteq wclosed'
             /\ done \subseteq done' /\ closed \subseteq closed'
             /\ ~Begin => UNCHANGED <<begun, queuedTimers>>
             /\ ~CompleteToken => UNCHANGED <<completed, begins, overtaken>>
           Runs(f) == Top(f) /\ f \in Calls
           Moves == \/ \E n \in {0, 1, 2, 3} : SameRequest(n) /\ begins' = begins
                    \/ \E u : BeginsNext(u)
<1>2. ASSUME Shifted(0), begins' = begins PROVE Moves
  <2>1. SameRequest(0)
    BY <1>2 DEF SameRequest, Shifted
  <2> QED
    BY <1>2, <2>1
<1>3. ASSUME Shifted(1), begins' = begins, stack'[1].req = Req, stack'[1].call # "begin"
      PROVE  Moves
  <2>1. SameRequest(1)
    BY <1>3 DEF SameRequest, Shifted
  <2> QED
    BY <1>3, <2>1
<1>4. ASSUME Shifted(2), begins' = begins,
             stack'[1].req = Req, stack'[1].call \notin {"begin", "respond"},
             stack'[2].req = Req, stack'[2].call \notin {"begin", "respond"}
      PROVE  Moves
  <2>1. \A i \in DOMAIN stack' : i <= 2 => i = 1 \/ i = 2
    BY <1>4 DEF Shifted
  <2>2. SameRequest(2)
    BY <1>4, <2>1 DEF SameRequest
  <2> QED
    BY <1>4, <2>2
<1>5. ASSUME Shifted(3), begins' = begins,
             stack'[1].req = Req, stack'[1].call \notin {"begin", "respond"},
             stack'[2].req = Req, stack'[2].call \notin {"begin", "respond"},
             stack'[3].req = Req, stack'[3].call \notin {"begin", "respond"}
      PROVE  Moves
  <2>1. \A i \in DOMAIN stack' : i <= 3 => i = 1 \/ i = 2 \/ i = 3
    BY <1>5 DEF Shifted
  <2>2. SameRequest(3)
    BY <1>5, <2>1 DEF SameRequest
  <2> QED
    BY <1>5, <2>2
<1>6. \A f, a :
        /\ Call(f, Req).req = Req /\ Call(f, Req).call = f
        /\ CallWith(f, Req, a).req = Req /\ CallWith(f, Req, a).call = f
  BY DEF Call, CallWith
<1>7. {"begin", "close", "setClosed", "closeSigner", "notify", "complete",
       "callback", "respond", "closeWatchdog", "dropCloseable", "send"} = Calls
  BY DEF Calls
<1> HIDE DEF Moves
<1>8. CASE Begin
  <2>1. Changes
    BY <1>8 DEF Begin, queueVars, signerVars, watchdogVars, queuedVars
  <2>2. begins' = begins
    BY <1>8 DEF Begin, queueVars
  <2>3. Moves
    BY <1>1, <1>2, <1>4, <1>6, <1>7, <1>8, <2>2, BeginShape
  <2> QED
    BY <1>1, <1>7, <1>8, <2>1, <2>3, BeginShape DEF Moves, Top
<1>9. CASE Close
  <2>1. Changes /\ begins' = begins
    BY <1>9 DEF Close, queueVars, signerVars, watchdogVars, queuedVars
  <2>2. Moves
    BY <1>1, <1>2, <1>4, <1>5, <1>6, <1>7, <1>9, <2>1, CloseShape
  <2> QED
    BY <1>1, <1>7, <1>9, <2>1, <2>2, CloseShape DEF Moves, Top
<1>10. CASE SetClosed
  <2>1. Changes /\ begins' = begins
    BY <1>10 DEF SetClosed, queueVars, signerVars, watchdogVars, queuedVars
  <2> QED
    BY <1>1, <1>2, <1>7, <1>10, <2>1, SetClosedShape DEF Moves, Top
<1>11. CASE CloseSigner
  <2>1. Changes /\ begins' = begins
    BY <1>11 DEF CloseSigner, queueVars, signerVars, watchdogVars, queuedVars
  <2>2. Moves
    BY <1>1, <1>3, <1>6, <1>7, <1>11, <2>1, CloseSignerShape
  <2> QED
    BY <1>1, <1>7, <1>11, <2>1, <2>2, CloseSignerShape DEF Moves, Top
<1>12. CASE Notify
  <2>1. Changes /\ begins' = begins
    BY <1>12 DEF Notify, queueVars, signerVars, watchdogVars, queuedVars
  <2>2. Moves
    BY <1>1, <1>2, <1>4, <1>6, <1>7, <1>12, <2>1, NotifyShape DEF Top
  <2> QED
    BY <1>1, <1>7, <1>12, <2>1, <2>2, NotifyShape DEF Moves, Top
<1>13. CASE CompleteToken
  <2>1. Changes
    BY <1>1, <1>13, CompleteShape DEF CompleteToken, queueVars, signerVars, watchdogVars, queuedVars
  <2>2. Moves
    <3>1. CASE Shifted(0) /\ begins' = begins
      BY <1>2, <3>1
    <3>2. ASSUME NEW u \in Queue!Members, u \in 1..lastId, Req < u, u \notin completed',
                 begins' = [begins EXCEPT ![u] = @ + 1],
                 Shifted(1), 1 \in DOMAIN stack', stack'[1] = Call("begin", u)
          PROVE  Moves
      BY <3>2 DEF Moves, BeginsNext
    <3> QED
      BY <1>1, <1>13, <3>1, <3>2, CompleteShape
  <2> QED
    BY <1>1, <1>7, <1>13, <2>1, <2>2, CompleteShape DEF Moves, Top
<1>14. CASE WrappedCallback
  <2>1. Changes /\ begins' = begins
    BY <1>14 DEF WrappedCallback, queueVars, signerVars, watchdogVars, queuedVars
  <2>2. Moves
    BY <1>1, <1>2, <1>3, <1>6, <1>7, <1>14, <2>1, WrappedCallbackShape DEF Top
  <2> QED
    BY <1>1, <1>7, <1>14, <2>1, <2>2, WrappedCallbackShape DEF Moves, Top
<1>15. CASE Respond
  <2>1. Changes /\ begins' = begins
    BY <1>15 DEF Respond, queueVars, signerVars, watchdogVars, queuedVars
  <2>2. Moves
    BY <1>1, <1>4, <1>6, <1>7, <1>15, <2>1, RespondShape DEF Top
  <2> QED
    BY <1>1, <1>7, <1>15, <2>1, <2>2, RespondShape DEF Moves, Top
<1>16. CASE CloseWatchdog
  <2>1. Changes /\ begins' = begins
    BY <1>16 DEF CloseWatchdog, queueVars, signerVars, watchdogVars, queuedVars
  <2>2. Moves
    BY <1>1, <1>2, <1>4, <1>6, <1>7, <1>16, <2>1, CloseWatchdogShape
  <2> QED
    BY <1>1, <1>7, <1>16, <2>1, <2>2, CloseWatchdogShape DEF Moves, Top
<1>17. CASE DropCloseable \/ Send
  <2>1. Changes /\ begins' = begins
    BY <1>17 DEF DropCloseable, Send, queueVars, signerVars, watchdogVars, queuedVars
  <2> QED
    BY <1>1, <1>2, <1>7, <1>17, <2>1, LastShapes DEF Moves, Top
<1> QED
  BY <1>8, <1>9, <1>10, <1>11, <1>12, <1>13, <1>14, <1>15, <1>16, <1>17 DEF RunCall

LEMMA OrderStep ==
    ASSUME TypeInv, StackOrder, [Next]_vars
    PROVE  StackOrder'
<1>1. stack \in Seq(CallRecords) /\ lastId \in Nat
  BY DEF TypeInv, TypeOK, CallRecords, Queue!TypeOK
<1>2. \A i \in DOMAIN stack : i \in Nat /\ i >= 1 /\ stack[i].req \in 1..lastId
  <2>1. \A i \in DOMAIN stack : i \in Nat /\ i >= 1 /\ stack[i] \in CallRecords
    BY <1>1
  <2> QED
    BY <2>1 DEF CallRecords
<1>3. CASE RunCall
  <2>1. /\ 1 \in DOMAIN stack /\ stack[1].req = Req /\ Req \in 1..lastId
        /\ lastId' = lastId /\ completed \subseteq completed'
    BY <1>3, RunEffects
  <2>2. \A i \in DOMAIN stack : stack[i].req <= Req
    BY <1>2, <2>1 DEF StackOrder
  <2>3. ASSUME NEW n \in {0, 1, 2, 3}, SameRequest(n) PROVE StackOrder'
    <3>1. ASSUME NEW i \in DOMAIN stack', i > n
          PROVE  /\ i \in Nat /\ (i - n) + 1 \in DOMAIN stack /\ (i - n) + 1 > 1
                 /\ stack'[i] = stack[(i - n) + 1]
                 /\ stack'[i].call \notin {"begin", "respond"}
                 /\ stack'[i].req <= Req /\ stack'[i].req \in 1..lastId
      <4>1. /\ i \in Nat /\ (i - n) + 1 \in DOMAIN stack /\ (i - n) + 1 > 1
            /\ stack'[i] = stack[(i - n) + 1]
        BY <2>3, <3>1 DEF SameRequest, Shifted
      <4> QED
        BY <1>2, <2>2, <4>1 DEF StackOrder
    <3>2. \A i \in DOMAIN stack' :
            /\ i \in Nat /\ i >= 1
            /\ i <= n => stack'[i].req = Req /\ stack'[i].call # "begin"
                         /\ (stack'[i].call = "respond" => i = 1)
      BY <2>3 DEF SameRequest, Shifted
    <3>3. \A i \in DOMAIN stack' : stack'[i].call # "begin"
      BY <3>1, <3>2
    <3>4. \A i \in DOMAIN stack' : stack'[i].call = "respond" => i = 1
      BY <3>1, <3>2
    <3>5. ASSUME NEW i \in DOMAIN stack', NEW j \in DOMAIN stack', i < j
          PROVE  stack'[j].req <= stack'[i].req
      <4>1. CASE i <= n /\ j <= n
        BY <2>1, <3>2, <4>1
      <4>2. CASE i <= n /\ j > n
        BY <3>1, <3>2, <4>2
      <4>3. CASE i > n /\ j > n
        <5>1. (i - n) + 1 < (j - n) + 1
          BY <3>2, <3>5
        <5> QED
          BY <3>1, <4>3, <5>1 DEF StackOrder
      <4> QED
        BY <3>2, <3>5, <4>1, <4>2, <4>3
    <3> QED
      BY <3>3, <3>4, <3>5 DEF StackOrder
  <2>4. ASSUME NEW u, BeginsNext(u) PROVE StackOrder'
    <3>1. ASSUME NEW i \in DOMAIN stack', i > 1
          PROVE  /\ i \in Nat /\ (i - 1) + 1 \in DOMAIN stack /\ (i - 1) + 1 > 1
                 /\ stack'[i] = stack[(i - 1) + 1]
                 /\ stack'[i].call \notin {"begin", "respond"}
                 /\ stack'[i].req <= Req /\ stack'[i].req \in 1..lastId
      <4>1. /\ i \in Nat /\ (i - 1) + 1 \in DOMAIN stack /\ (i - 1) + 1 > 1
            /\ stack'[i] = stack[(i - 1) + 1]
        BY <2>4, <3>1 DEF BeginsNext, Shifted
      <4> QED
        BY <1>2, <2>2, <4>1 DEF StackOrder
    <3>2. \A i \in DOMAIN stack' : i \in Nat /\ (i = 1 \/ i > 1)
      BY <2>4 DEF BeginsNext, Shifted
    <3>3. /\ stack'[1].req = u /\ stack'[1].call = "begin" /\ Req < u /\ u \in 1..lastId
          /\ u \notin completed'
      BY <2>4 DEF BeginsNext, Call
    <3>4. \A i \in DOMAIN stack' : stack'[i].call \in {"begin", "respond"} => i = 1
      BY <3>1, <3>2
    <3>5. ASSUME NEW i \in DOMAIN stack', NEW j \in DOMAIN stack', i < j
          PROVE  /\ stack'[j].req <= stack'[i].req
                 /\ stack'[i].call = "begin" => stack'[j].req < stack'[i].req
      <4>1. CASE i = 1
        <5>1. stack'[j].req <= Req /\ stack'[j].req \in 1..lastId
          BY <3>1, <3>2, <3>5, <4>1
        <5> QED
          BY <1>1, <2>1, <3>3, <4>1, <5>1
      <4>2. CASE i > 1
        <5>1. j > 1 /\ (i - 1) + 1 < (j - 1) + 1
          BY <3>2, <3>5, <4>2
        <5> QED
          BY <3>1, <4>2, <5>1 DEF StackOrder
      <4> QED
        BY <3>2, <4>1, <4>2
    <3>6. u \in Queue!Members'
      BY <2>1, <3>3 DEF Queue!Members, Queue!Issued
    <3> QED
      BY <3>2, <3>3, <3>4, <3>5, <3>6, <3>1 DEF StackOrder
  <2> QED
    BY <1>3, <2>3, <2>4, RunEffects
<1>4. CASE Next /\ ~RunCall
  <2>1. stack = <<>>
    BY <1>4, CallbackKinds
  <2>2. ASSUME stack' = <<>> PROVE StackOrder'
    BY <2>2 DEF StackOrder
  <2>3. ASSUME NEW a, stack' = <<a>>, a.call = "begin" => a.req \in Queue!Members'
        PROVE  StackOrder'
    <3>1. DOMAIN stack' = {1} /\ stack'[1] = a
      BY <2>3, StartShape DEF Started
    <3>2. \A i, j \in DOMAIN stack' : ~(i < j) /\ i = j
      BY <3>1
    <3> QED
      <4>1. \A i, j \in DOMAIN stack' : i < j => FALSE
        BY <3>2
      <4>2. \A i \in DOMAIN stack' : i = 1 /\ stack'[i] = a
        BY <3>1
      <4> QED
        BY <2>3, <4>1, <4>2 DEF StackOrder
  <2>4. ASSUME NEW r \in Requests,
               \/ StartsHead(r) \/ ClosesQueued(r) \/ ExpiresToken(r)
               \/ TimesOut(r) \/ ClosesWatchdog(r)
               \/ \E a \in Answers : Notifies(r, a)
        PROVE  StackOrder'
    <3>1. CASE StartsHead(r)
      <4>1. CASE r \in Queue!Members /\ stack' = <<Call("begin", r)>>
        <5>1. r \in Queue!Members' /\ Call("begin", r).req = r
          BY <3>1, <4>1 DEF StartsHead, Queue!Members, Queue!Issued, Call
        <5> QED
          BY <2>3, <4>1, <5>1
      <4> QED
        BY <2>2, <3>1, <4>1 DEF StartsHead
    <3>2. CASE ExpiresToken(r)
      <4>1. ASSUME NEW u \in Queue!Members, u \notin completed', stack' = <<Call("begin", u)>>
            PROVE  StackOrder'
        <5>1. u \in Queue!Members' /\ Call("begin", u).req = u
          BY <3>2, <4>1 DEF ExpiresToken, Queue!Members, Queue!Issued, Call
        <5> QED
          BY <2>3, <4>1, <5>1
      <4> QED
        BY <2>2, <3>2, <4>1 DEF ExpiresToken
    <3>3. CASE ClosesQueued(r) \/ TimesOut(r) \/ ClosesWatchdog(r)
               \/ \E a \in Answers : Notifies(r, a)
      <4>1. \E b : stack' = <<b>> /\ b.call # "begin"
        <5>1. \A a : /\ Call("close", r).call # "begin" /\ Call("respond", r).call # "begin"
                     /\ Call("closeWatchdog", r).call # "begin"
                     /\ CallWith("notify", r, a).call # "begin"
          BY DEF Call, CallWith
        <5> QED
          BY <3>3, <5>1 DEF ClosesQueued, TimesOut, ClosesWatchdog, Notifies
      <4> QED
        BY <2>3, <4>1
    <3> QED
      BY <2>4, <3>1, <3>2, <3>3
  <2>5. NewRequest \/ StartsNothing => stack' = <<>>
    BY DEF NewRequest, StartsNothing
  <2> QED
    BY <1>4, <2>2, <2>4, <2>5, CallbackKinds
<1>5. CASE UNCHANGED vars
  BY <1>5 DEF vars, queueVars, StackOrder, Queue!Members, Queue!Issued
<1> QED
  BY <1>3, <1>4, <1>5
-----------------------------------------------------------------------------
(***************************************************************************)
(* The queue has counted every begin that happened or is about to, and a   *)
(* request's timer is cleared when it begins.                              *)
(***************************************************************************)
BeginsCounted ==
    /\ \A r \in begun : begins[r] >= 1
    /\ \A i \in DOMAIN stack :
         stack[i].call = "begin" =>
           /\ begins[stack[i].req] >= 1
           /\ stack[i].req \in begun => begins[stack[i].req] >= 2
    /\ begun \cap queuedTimers = {}

(***************************************************************************)
(* The queue begins u next, from an empty stack or from a running call.    *)
(***************************************************************************)
LEMMA BeginIsCounted ==
    ASSUME TypeInv, BeginsCounted, begun' = begun, queuedTimers' = queuedTimers,
           NEW u \in 1..lastId, begins' = [begins EXCEPT ![u] = @ + 1],
           \A i \in DOMAIN stack' :
              stack'[i].call = "begin" => stack'[i] = Call("begin", u)
    PROVE  BeginsCounted'
<1>1. begins \in [Requests -> Nat] /\ u \in Requests /\ begun \subseteq Requests
  BY DEF TypeInv, TypeOK, Queue!TypeOK, Queue!Tokens, Requests
<1>2. /\ begins'[u] = begins[u] + 1
      /\ \A r \in Requests : begins[r] \in Nat /\ begins'[r] >= begins[r]
  BY <1>1
<1>3. \A r \in begun' : begins'[r] >= 1
  <2>1. ASSUME NEW r \in begun PROVE begins'[r] >= 1
    <3>1. begins[r] >= 1 /\ begins[r] \in Nat /\ begins'[r] \in Nat /\ begins'[r] >= begins[r]
      BY <1>1, <1>2, <2>1 DEF BeginsCounted
    <3> QED
      BY <3>1
  <2> QED
    BY <2>1
<1>4. begins'[u] >= 1 /\ (u \in begun' => begins'[u] >= 2)
  BY <1>1, <1>2 DEF BeginsCounted
<1>5. Call("begin", u).req = u
  BY DEF Call
<1> QED
  BY <1>3, <1>4, <1>5 DEF BeginsCounted

LEMMA CountedStep ==
    ASSUME TypeInv, StackOrder, BeginsCounted, [Next]_vars
    PROVE  BeginsCounted'
<1>1. stack \in Seq(CallRecords) /\ Queue!TypeOK
  BY DEF TypeInv, TypeOK, CallRecords
<1>2. ASSUME begun' = begun, queuedTimers' \subseteq queuedTimers, begins' = begins,
             \A i \in DOMAIN stack' : stack'[i].call # "begin"
      PROVE  BeginsCounted'
  BY <1>2 DEF BeginsCounted
<1>3. CASE Begin
  <2>1. /\ 1 \in DOMAIN stack /\ stack[1].call = "begin" /\ stack[1].req = Req
        /\ begins' = begins
    BY <1>1, <1>3, BeginShape DEF Top, Begin, queueVars
  <2>2. ASSUME NEW n \in {0, 2}, Shifted(n),
               \A i \in DOMAIN stack' : i <= n => stack'[i].call # "begin"
        PROVE  \A i \in DOMAIN stack' : stack'[i].call # "begin"
    BY <2>2 DEF Shifted, StackOrder
  <2>3. \A i \in DOMAIN stack' : stack'[i].call # "begin"
    <3>1. CASE Shifted(0)
      <4>1. \A i \in DOMAIN stack' : ~(i <= 0)
        BY <3>1 DEF Shifted
      <4> QED
        BY <2>2, <3>1, <4>1
    <3>2. CASE Shifted(2) /\ stack'[1] = Call("close", Req) /\ stack'[2] = Call("callback", Req)
      <4>1. \A i \in DOMAIN stack' : i <= 2 => i = 1 \/ i = 2
        BY <3>2 DEF Shifted
      <4>2. Call("close", Req).call # "begin" /\ Call("callback", Req).call # "begin"
        BY DEF Call
      <4> QED
        BY <2>2, <3>2, <4>1, <4>2
    <3> QED
      BY <1>1, <1>3, <3>1, <3>2, BeginShape
  <2>4. CASE UNCHANGED <<begun, queuedTimers>>
    BY <1>2, <2>1, <2>3, <2>4
  <2>5. CASE begun' = begun \cup {Req} /\ queuedTimers' = queuedTimers \ {Req}
    <3>1. begins[Req] >= 1
      BY <2>1 DEF BeginsCounted
    <3> QED
      BY <2>1, <2>3, <2>5, <3>1 DEF BeginsCounted
  <2> QED
    BY <1>1, <1>3, <2>4, <2>5, BeginShape DEF queuedVars
<1>4. CASE RunCall /\ ~Begin
  <2>1. /\ 1 \in DOMAIN stack /\ stack[1].req = Req /\ Req \in 1..lastId
        /\ begun' = begun /\ queuedTimers' = queuedTimers
    BY <1>4, RunEffects
  <2>2. ASSUME NEW n \in {0, 1, 2, 3}, SameRequest(n), begins' = begins PROVE BeginsCounted'
    <3>1. \A i \in DOMAIN stack' : i \in Nat /\ stack'[i].call # "begin"
      BY <2>2 DEF SameRequest, Shifted, StackOrder
    <3> QED
      BY <1>2, <2>1, <2>2, <3>1
  <2>3. ASSUME NEW u, BeginsNext(u) PROVE BeginsCounted'
    <3>1. /\ u \in 1..lastId /\ begins' = [begins EXCEPT ![u] = @ + 1]
          /\ stack'[1] = Call("begin", u)
      BY <2>3 DEF BeginsNext
    <3>2. \A i \in DOMAIN stack' : i = 1 \/ stack'[i].call # "begin"
      BY <2>3 DEF BeginsNext, Shifted, StackOrder
    <3> QED
      BY <2>1, <3>1, <3>2, BeginIsCounted
  <2> QED
    BY <1>4, <2>2, <2>3, RunEffects
<1>5. CASE Next /\ ~RunCall
  <2>1. stack = <<>> /\ begun' = begun
    BY <1>5, CallbackKinds
  <2>2. CASE NewRequest
    <3>1. begins' = begins /\ queuedTimers' \subseteq queuedTimers \cup {lastId'}
          /\ lastId' = lastId + 1 /\ stack' = <<>>
      BY <2>2 DEF NewRequest
    <3>2. lastId' \notin begun
      BY <3>1 DEF TypeInv, TypeOK, Queue!TypeOK
    <3>3. begun' \cap queuedTimers' = {}
      BY <2>1, <3>1, <3>2 DEF BeginsCounted
    <3>4. \A i \in DOMAIN stack' : FALSE
      BY <3>1
    <3> QED
      BY <2>1, <3>1, <3>3, <3>4 DEF BeginsCounted
  <2>3. ASSUME stack' = <<>>, begins' = begins, queuedTimers' = queuedTimers PROVE BeginsCounted'
    <3>1. \A i \in DOMAIN stack' : FALSE
      BY <2>3
    <3> QED
      BY <1>2, <2>1, <2>3, <3>1
  <2>4. ASSUME NEW u \in 1..lastId, stack' = <<Call("begin", u)>>, queuedTimers' = queuedTimers,
               begins' = [begins EXCEPT ![u] = @ + 1]
        PROVE  BeginsCounted'
    <3>1. \A i \in DOMAIN stack' : stack'[i] = Call("begin", u)
      BY <2>4, StartShape DEF Started
    <3> QED
      BY <2>1, <2>4, <3>1, BeginIsCounted
  <2>5. ASSUME NEW a, stack' = <<a>>, a.call # "begin", begins' = begins,
               queuedTimers' \subseteq queuedTimers
        PROVE  BeginsCounted'
    <3>1. \A i \in DOMAIN stack' : stack'[i].call # "begin"
      BY <2>5, StartShape DEF Started
    <3> QED
      BY <1>2, <2>1, <2>5, <3>1
  <2>6. \A r, a : /\ Call("close", r).call # "begin" /\ Call("respond", r).call # "begin"
                  /\ Call("closeWatchdog", r).call # "begin"
                  /\ CallWith("notify", r, a).call # "begin"
    BY DEF Call, CallWith
  <2>7. Queue!Members \subseteq 1..lastId
    BY DEF Queue!Members, Queue!Issued
  <2>8. ASSUME NEW r \in Requests,
               \/ StartsHead(r) \/ ClosesQueued(r) \/ ExpiresToken(r)
               \/ TimesOut(r) \/ ClosesWatchdog(r)
               \/ \E a \in Answers : Notifies(r, a)
        PROVE  BeginsCounted'
    <3>1. CASE StartsHead(r)
      BY <2>3, <2>4, <2>7, <3>1 DEF StartsHead
    <3>2. CASE ClosesQueued(r)
      BY <2>5, <2>6, <3>2 DEF ClosesQueued, queueVars
    <3>3. CASE ExpiresToken(r)
      BY <2>3, <2>4, <2>7, <3>3 DEF ExpiresToken
    <3>4. CASE TimesOut(r) \/ ClosesWatchdog(r)
      BY <2>5, <2>6, <3>4 DEF TimesOut, ClosesWatchdog, Unmoved, queueVars
    <3>5. ASSUME NEW a \in Answers, Notifies(r, a) PROVE BeginsCounted'
      BY <2>5, <2>6, <3>5 DEF Notifies, Unmoved, queueVars
    <3> QED
      BY <2>8, <3>1, <3>2, <3>3, <3>4, <3>5
  <2>9. CASE StartsNothing
    BY <2>3, <2>9 DEF StartsNothing, Unmoved, queueVars
  <2> QED
    BY <1>5, <2>2, <2>8, <2>9, CallbackKinds
<1>6. CASE UNCHANGED vars
  BY <1>6 DEF vars, queueVars, queuedVars, BeginsCounted
<1> QED
  BY <1>3, <1>4, <1>5, <1>6
-----------------------------------------------------------------------------
(***************************************************************************)
(* Closing a request completes its token, and a token completed before its *)
(* timer fires has a Signer that is done: Signers overlap only after a     *)
(* timeout.                                                                *)
(***************************************************************************)
Before(calls, r, j) ==
    \E i \in DOMAIN stack : i < j /\ stack[i].call \in calls /\ stack[i].req = r

BeforeNext(calls, r, j) ==
    \E i \in DOMAIN stack' : i < j /\ stack'[i].call \in calls /\ stack'[i].req = r

SignerCalls == {"closeSigner", "notify"}

SignerTokens ==
    /\ closed \subseteq completed
    /\ \A j \in DOMAIN stack :
         stack[j].call = "setClosed" =>
           stack[j].req \in completed \/ Before({"complete"}, stack[j].req, j)
    /\ \A j \in DOMAIN stack :
         stack[j].call = "complete" /\ stack[j].req \in begun =>
           stack[j].req \in done \/ Before(SignerCalls, stack[j].req, j)
    /\ begun \cap completed \cap timers \subseteq done

(***************************************************************************)
(* A call before another stays before it, unless it is the running one.    *)
(***************************************************************************)
LEMMA StaysBefore ==
    ASSUME NEW n \in Nat, Shifted(n), NEW j \in DOMAIN stack', j > n,
           NEW calls, NEW r, Before(calls, r, (j - n) + 1)
    PROVE  \/ BeforeNext(calls, r, j)
           \/ stack[1].call \in calls /\ stack[1].req = r
<1>1. PICK i \in DOMAIN stack : /\ i < (j - n) + 1
                                /\ stack[i].call \in calls /\ stack[i].req = r
  BY DEF Before
<1>2. CASE i > 1
  <2>1. /\ (i + n) - 1 \in DOMAIN stack' /\ (i + n) - 1 > n
        /\ stack'[(i + n) - 1] = stack[i]
    BY <1>2 DEF Shifted
  <2>2. i \in Int /\ j \in Int
    BY DEF Shifted
  <2>3. (i + n) - 1 < j
    BY <1>1, <2>2
  <2> QED
    BY <1>1, <2>1, <2>3 DEF BeforeNext
<1>3. CASE ~(i > 1)
  <2>1. i = 1
    BY <1>3 DEF Shifted
  <2> QED
    BY <1>1, <2>1
<1> QED
  BY <1>2, <1>3

(***************************************************************************)
(* What a call must see to for the rest of the stack to keep SignerTokens. *)
(***************************************************************************)
LEMMA CarriedTokens ==
    ASSUME SignerTokens, NEW n \in Nat, Shifted(n),
           completed \subseteq completed', done \subseteq done', closed' \subseteq completed',
           \A j \in DOMAIN stack :
              j > 1 /\ stack[j].req \in begun' => stack[j].req \in begun,
           stack[1].call = "complete" => stack[1].req \in completed',
           \/ stack[1].call \notin SignerCalls
           \/ stack[1].req \in done'
           \/ BeforeNext(SignerCalls, stack[1].req, n + 1),
           \A j \in DOMAIN stack' :
              j <= n =>
                /\ stack'[j].call = "setClosed" =>
                     \/ stack'[j].req \in completed'
                     \/ BeforeNext({"complete"}, stack'[j].req, j)
                /\ stack'[j].call = "complete" /\ stack'[j].req \in begun' =>
                     \/ stack'[j].req \in done'
                     \/ BeforeNext(SignerCalls, stack'[j].req, j),
           begun' \cap completed' \cap timers' \subseteq done'
    PROVE  SignerTokens'
<1>1. ASSUME NEW j \in DOMAIN stack', j > n
      PROVE  /\ j \in Nat /\ (j - n) + 1 \in DOMAIN stack /\ (j - n) + 1 > 1
             /\ stack'[j] = stack[(j - n) + 1]
  BY <1>1 DEF Shifted
<1>2. \A j \in DOMAIN stack' : j <= n \/ j > n
  BY DEF Shifted
<1>3. ASSUME NEW j \in DOMAIN stack', stack'[j].call = "setClosed"
      PROVE  stack'[j].req \in completed' \/ BeforeNext({"complete"}, stack'[j].req, j)
  <2>1. CASE j > n
    <3>1. \/ stack'[j].req \in completed
          \/ Before({"complete"}, stack'[j].req, (j - n) + 1)
      BY <1>1, <1>3, <2>1 DEF SignerTokens
    <3>2. CASE Before({"complete"}, stack'[j].req, (j - n) + 1)
      BY <2>1, <3>2, StaysBefore
    <3> QED
      BY <3>1, <3>2
  <2> QED
    BY <1>2, <1>3, <2>1
<1>4. ASSUME NEW j \in DOMAIN stack', stack'[j].call = "complete", stack'[j].req \in begun'
      PROVE  stack'[j].req \in done' \/ BeforeNext(SignerCalls, stack'[j].req, j)
  <2>1. CASE j > n
    <3>1. stack'[j].req \in done \/ Before(SignerCalls, stack'[j].req, (j - n) + 1)
      BY <1>1, <1>4, <2>1 DEF SignerTokens
    <3>2. CASE Before(SignerCalls, stack'[j].req, (j - n) + 1)
      <4>1. CASE BeforeNext(SignerCalls, stack[1].req, n + 1) /\ stack[1].req = stack'[j].req
        <5>1. PICK i \in DOMAIN stack' : /\ i < n + 1 /\ stack'[i].call \in SignerCalls
                                         /\ stack'[i].req = stack'[j].req
          BY <4>1 DEF BeforeNext
        <5>2. i < j
          <6>1. i \in Int /\ j \in Int /\ n \in Int
            BY DEF Shifted
          <6> QED
            BY <2>1, <5>1, <6>1
        <5> QED
          BY <5>1, <5>2 DEF BeforeNext
      <4> QED
        BY <2>1, <3>2, <4>1, StaysBefore
    <3> QED
      BY <3>1, <3>2
  <2> QED
    BY <1>2, <1>4, <2>1
<1> QED
  BY <1>3, <1>4 DEF SignerTokens, Before, BeforeNext

(***************************************************************************)
(* A call that completes, closes and begins nothing, and pushes no call    *)
(* that the invariant speaks of.                                           *)
(***************************************************************************)
LEMMA QuietTokens ==
    ASSUME TypeInv, SignerTokens, NEW n \in {0, 1, 2, 3}, Shifted(n),
           UNCHANGED <<completed, begun, closed, timers>>, done \subseteq done',
           \/ stack[1].call \notin {"complete", "closeSigner", "notify"}
           \/ stack[1].call = "notify" /\ stack[1].req \in done',
           \A j \in DOMAIN stack' :
              j <= n => /\ stack'[j].call # "setClosed"
                        /\ stack'[j].call = "complete" => stack'[j].req \in done'
    PROVE  SignerTokens'
<1>1. n \in Nat
  OBVIOUS
<1>2. closed' \subseteq completed' /\ begun' \cap completed' \cap timers' \subseteq done'
  BY DEF SignerTokens
<1> QED
  BY <1>1, <1>2, CarriedTokens DEF SignerCalls

LEMMA RunTokens ==
    ASSUME TypeInv, StackOrder, SignerTokens, RunCall
    PROVE  SignerTokens'
<1>1. stack \in Seq(CallRecords) /\ Queue!TypeOK
  BY DEF TypeInv, TypeOK, CallRecords
<1>2. 0 \in {0, 1, 2, 3} /\ 1 \in {0, 1, 2, 3} /\ 2 \in {0, 1, 2, 3} /\ 3 \in {0, 1, 2, 3}
      /\ 0 \in Nat /\ 1 \in Nat /\ 2 \in Nat /\ 3 \in Nat
  OBVIOUS
<1>3. \A f, a : /\ Call(f, Req).call = f /\ Call(f, Req).req = Req
                /\ CallWith(f, Req, a).call = f /\ CallWith(f, Req, a).req = Req
  BY DEF Call, CallWith
<1> USE DEF queueVars, queuedVars, signerVars
<1>4. ASSUME Shifted(0) PROVE \A j \in DOMAIN stack' : ~(j <= 0)
  BY <1>4 DEF Shifted
<1>5. ASSUME Shifted(1) PROVE \A j \in DOMAIN stack' : j <= 1 => j = 1
  BY <1>5 DEF Shifted
<1>6. ASSUME Shifted(2) PROVE \A j \in DOMAIN stack' : j <= 2 => j = 1 \/ j = 2
  BY <1>6 DEF Shifted
<1>7. ASSUME Shifted(3) PROVE \A j \in DOMAIN stack' : j <= 3 => j = 1 \/ j = 2 \/ j = 3
  BY <1>7 DEF Shifted
<1>8. CASE Begin
  <2>1. /\ 1 \in DOMAIN stack /\ stack[1].call = "begin" /\ stack[1].req = Req
        /\ UNCHANGED <<completed, closed, timers, done>>
    BY <1>1, <1>8, BeginShape DEF Top, Begin
  <2>2. CASE begun' = begun /\ Shifted(2)
             /\ stack'[1] = Call("close", Req) /\ stack'[2] = Call("callback", Req)
    <3>1. \A j \in DOMAIN stack' : j <= 2 => stack'[j].call \in {"close", "callback"}
      BY <1>3, <1>6, <2>2
    <3> QED
      BY <1>2, <2>1, <2>2, <3>1, QuietTokens
  <2>3. CASE begun' = begun \cup {Req} /\ Shifted(0)
    <3>1. \A j \in DOMAIN stack : j > 1 => stack[j].req # Req
      <4>1. ASSUME NEW j \in DOMAIN stack, j > 1 PROVE stack[j].req # Req
        <5>1. 1 < j
          BY <4>1
        <5>2. stack[j].req < stack[1].req
          BY <2>1, <5>1 DEF StackOrder
        <5>3. stack[1].req \in Nat
          BY <2>1, <1>1, <1>8, BeginShape DEF Top
        <5> QED
          BY <2>1, <5>2, <5>3
      <4> QED
        BY <4>1
    <3>2. Req \notin completed
      BY <2>1 DEF StackOrder, Queue!Members
    <3>3. closed' \subseteq completed' /\ begun' \cap completed' \cap timers' \subseteq done'
      BY <2>1, <2>3, <3>2 DEF SignerTokens
    <3>4. \A j \in DOMAIN stack : j > 1 /\ stack[j].req \in begun' => stack[j].req \in begun
      BY <2>3, <3>1
    <3> QED
      BY <1>2, <1>4, <2>1, <2>3, <3>3, <3>4, CarriedTokens DEF SignerCalls
  <2> QED
    BY <1>1, <1>8, <2>2, <2>3, BeginShape
<1>9. CASE Close
  <2>1. /\ stack[1].call = "close" /\ stack[1].req = Req
        /\ UNCHANGED <<completed, begun, closed, timers, done>>
    BY <1>1, <1>9, CloseShape DEF Top, Close
  <2>2. CASE Shifted(0)
    BY <1>2, <1>4, <2>1, <2>2, QuietTokens
  <2>3. closed' \subseteq completed' /\ begun' \cap completed' \cap timers' \subseteq done'
    BY <2>1 DEF SignerTokens
  <2>4. CASE /\ Shifted(3)
             /\ 1 \in DOMAIN stack' /\ 2 \in DOMAIN stack' /\ 3 \in DOMAIN stack'
             /\ stack'[1] = Call("closeSigner", Req)
             /\ stack'[2] = Call("complete", Req) /\ stack'[3] = Call("setClosed", Req)
    <3>1. /\ stack'[1].call = "closeSigner" /\ stack'[1].req = Req
          /\ stack'[2].call = "complete" /\ stack'[2].req = Req
          /\ stack'[3].call = "setClosed" /\ stack'[3].req = Req
      BY <1>3, <2>4
    <3>2. BeforeNext(SignerCalls, Req, 2) /\ BeforeNext({"complete"}, Req, 3)
      <4>1. 1 < 2 /\ 2 < 3
        OBVIOUS
      <4> QED
        BY <2>4, <3>1, <4>1 DEF BeforeNext, SignerCalls
    <3>3. \A j \in DOMAIN stack' :
            j <= 3 =>
              /\ stack'[j].call = "setClosed" => BeforeNext({"complete"}, stack'[j].req, j)
              /\ stack'[j].call = "complete" => BeforeNext(SignerCalls, stack'[j].req, j)
      BY <1>7, <2>4, <3>1, <3>2
    <3> QED
      BY <1>2, <2>1, <2>3, <2>4, <3>3, CarriedTokens DEF SignerCalls
  <2>5. CASE /\ Req \notin begun /\ Shifted(2) /\ 1 \in DOMAIN stack' /\ 2 \in DOMAIN stack'
             /\ stack'[1] = Call("complete", Req) /\ stack'[2] = Call("setClosed", Req)
    <3>1. /\ stack'[1].call = "complete" /\ stack'[1].req = Req
          /\ stack'[2].call = "setClosed" /\ stack'[2].req = Req
      BY <1>3, <2>5
    <3>2. BeforeNext({"complete"}, Req, 2)
      <4>1. 1 < 2
        OBVIOUS
      <4> QED
        BY <2>5, <3>1, <4>1 DEF BeforeNext
    <3>3. \A j \in DOMAIN stack' :
            j <= 2 =>
              /\ stack'[j].call = "setClosed" => BeforeNext({"complete"}, stack'[j].req, j)
              /\ stack'[j].call = "complete" => stack'[j].req \notin begun'
      BY <1>6, <2>1, <2>5, <3>1, <3>2
    <3> QED
      BY <1>2, <2>1, <2>3, <2>5, <3>3, CarriedTokens DEF SignerCalls
  <2> QED
    BY <1>1, <1>9, <2>2, <2>4, <2>5, CloseShape
<1>10. CASE SetClosed
  <2>1. /\ 1 \in DOMAIN stack /\ stack[1].call = "setClosed" /\ stack[1].req = Req /\ Shifted(0)
        /\ UNCHANGED <<completed, begun, timers, done>> /\ closed' = closed \cup {Req}
    BY <1>1, <1>10, SetClosedShape DEF Top, SetClosed
  <2>2. Req \in completed
    <3>1. ~Before({"complete"}, Req, 1)
      BY <1>1 DEF Before
    <3> QED
      BY <2>1, <3>1 DEF SignerTokens
  <2>3. closed' \subseteq completed' /\ begun' \cap completed' \cap timers' \subseteq done'
    BY <2>1, <2>2 DEF SignerTokens
  <2> QED
    BY <1>2, <1>4, <2>1, <2>3, CarriedTokens DEF SignerCalls
<1>11. CASE CloseSigner
  <2>1. /\ stack[1].call = "closeSigner" /\ stack[1].req = Req
        /\ Shifted(1) /\ 1 \in DOMAIN stack' /\ stack'[1] = Call("notify", Req)
        /\ UNCHANGED <<completed, begun, closed, timers, done>>
    BY <1>1, <1>11, CloseSignerShape DEF Top, CloseSigner
  <2>2. stack'[1].call = "notify" /\ stack'[1].req = Req
    BY <1>3, <2>1
  <2>3. BeforeNext(SignerCalls, Req, 1 + 1)
    <3>1. 1 < 1 + 1
      OBVIOUS
    <3> QED
      BY <2>1, <2>2, <3>1 DEF BeforeNext, SignerCalls
  <2>4. closed' \subseteq completed' /\ begun' \cap completed' \cap timers' \subseteq done'
    BY <2>1 DEF SignerTokens
  <2>5. \A j \in DOMAIN stack' : j <= 1 => stack'[j].call = "notify"
    BY <1>5, <2>1, <2>2
  <2> QED
    BY <1>2, <2>1, <2>3, <2>4, <2>5, CarriedTokens DEF SignerCalls
<1>12. CASE Notify
  <2>1. /\ stack[1].call = "notify" /\ stack[1].req = Req
        /\ UNCHANGED <<completed, begun, closed, timers>>
        /\ done \subseteq done' /\ Req \in done'
    BY <1>1, <1>12, NotifyShape DEF Top, Notify
  <2>2. CASE Shifted(0)
    BY <1>2, <1>4, <2>1, <2>2, QuietTokens
  <2>3. CASE /\ Shifted(2) /\ stack'[1] = Call("complete", Req)
             /\ stack'[2] = CallWith("callback", Req, Answer)
    <3>1. \A j \in DOMAIN stack' :
            j <= 2 => stack'[j].req = Req /\ stack'[j].call \in {"complete", "callback"}
      BY <1>3, <1>6, <2>3
    <3> QED
      BY <1>2, <2>1, <2>3, <3>1, QuietTokens
  <2> QED
    BY <1>1, <1>12, <2>2, <2>3, NotifyShape
<1>13. CASE CompleteToken
  <2>1. /\ 1 \in DOMAIN stack /\ stack[1].call = "complete" /\ stack[1].req = Req
        /\ completed' = completed \cup {Req}
        /\ UNCHANGED <<begun, closed, timers, done>>
    BY <1>1, <1>13, CompleteShape DEF Top, CompleteToken
  <2>2. Req \in begun => Req \in done
    <3>1. ~Before(SignerCalls, Req, 1)
      BY <1>1 DEF Before
    <3> QED
      BY <2>1, <3>1 DEF SignerTokens
  <2>3. closed' \subseteq completed' /\ begun' \cap completed' \cap timers' \subseteq done'
    BY <2>1, <2>2 DEF SignerTokens
  <2>4. CASE Shifted(0)
    BY <1>2, <1>4, <2>1, <2>3, <2>4, CarriedTokens DEF SignerCalls
  <2>5. ASSUME NEW u, Shifted(1), stack'[1] = Call("begin", u) PROVE SignerTokens'
    <3>1. \A j \in DOMAIN stack' : j <= 1 => stack'[j].call = "begin"
      BY <1>5, <2>5 DEF Call
    <3> QED
      BY <1>2, <2>1, <2>3, <2>5, <3>1, CarriedTokens DEF SignerCalls
  <2> QED
    BY <1>1, <1>13, <2>4, <2>5, CompleteShape
<1>14. CASE WrappedCallback
  <2>1. /\ stack[1].call = "callback"
        /\ UNCHANGED <<completed, begun, closed, timers, done>>
    BY <1>1, <1>14, WrappedCallbackShape DEF Top, WrappedCallback
  <2>2. CASE Shifted(0)
    BY <1>2, <1>4, <2>1, <2>2, QuietTokens
  <2>3. CASE Shifted(1) /\ stack'[1] = CallWith("respond", Req, Answer)
    <3>1. \A j \in DOMAIN stack' : j <= 1 => stack'[j].call = "respond"
      BY <1>3, <1>5, <2>3
    <3> QED
      BY <1>2, <2>1, <2>3, <3>1, QuietTokens
  <2> QED
    BY <1>1, <1>14, <2>2, <2>3, WrappedCallbackShape
<1>15. CASE Respond
  <2>1. /\ stack[1].call = "respond" /\ Shifted(2)
        /\ stack'[1] = Call("closeWatchdog", Req) /\ stack'[2] = CallWith("send", Req, Answer)
        /\ UNCHANGED <<completed, begun, closed, timers, done>>
    BY <1>1, <1>15, RespondShape DEF Top, Respond
  <2>2. \A j \in DOMAIN stack' : j <= 2 => stack'[j].call \in {"closeWatchdog", "send"}
    BY <1>3, <1>6, <2>1
  <2> QED
    BY <1>2, <2>1, <2>2, QuietTokens
<1>16. CASE CloseWatchdog
  <2>1. /\ stack[1].call = "closeWatchdog"
        /\ UNCHANGED <<completed, begun, closed, timers, done>>
    BY <1>1, <1>16, CloseWatchdogShape DEF Top, CloseWatchdog
  <2>2. CASE Shifted(0)
    BY <1>2, <1>4, <2>1, <2>2, QuietTokens
  <2>3. CASE /\ Shifted(2) /\ stack'[1] = Call("close", Req)
             /\ stack'[2] = Call("dropCloseable", Req)
    <3>1. \A j \in DOMAIN stack' : j <= 2 => stack'[j].call \in {"close", "dropCloseable"}
      BY <1>3, <1>6, <2>3
    <3> QED
      BY <1>2, <2>1, <2>3, <3>1, QuietTokens
  <2> QED
    BY <1>1, <1>16, <2>2, <2>3, CloseWatchdogShape
<1>17. CASE DropCloseable \/ Send
  <2>1. /\ stack[1].call \in {"dropCloseable", "send"} /\ Shifted(0)
        /\ UNCHANGED <<completed, begun, closed, timers, done>>
    BY <1>1, <1>17, LastShapes DEF Top, DropCloseable, Send
  <2> QED
    BY <1>2, <1>4, <2>1, QuietTokens
<1> QED
  BY <1>8, <1>9, <1>10, <1>11, <1>12, <1>13, <1>14, <1>15, <1>16, <1>17 DEF RunCall

LEMMA TokensStep ==
    ASSUME TypeInv, StackOrder, SignerTokens, [Next]_vars
    PROVE  SignerTokens'
<1>1. CASE RunCall
  BY <1>1, RunTokens
<1>2. CASE Next /\ ~RunCall
  <2>1. UNCHANGED <<begun, closed, done>>
    BY <1>2, CallbackKinds
  <2>2. ASSUME completed \subseteq completed',
               begun' \cap completed' \cap timers' \subseteq begun \cap completed \cap timers,
               \A j \in DOMAIN stack' : stack'[j].call \notin {"setClosed", "complete"}
        PROVE  SignerTokens'
    BY <2>1, <2>2 DEF SignerTokens
  <2>3. CASE NewRequest
    <3>1. /\ completed' = completed /\ timers' \subseteq timers \cup {lastId'}
          /\ lastId' = lastId + 1 /\ stack' = <<>>
      BY <2>3 DEF NewRequest
    <3>2. lastId' \notin begun
      BY <3>1 DEF TypeInv, TypeOK, Queue!TypeOK
    <3>3. \A i \in DOMAIN stack' : FALSE
      BY <3>1
    <3> QED
      BY <2>1, <2>2, <3>1, <3>2, <3>3
  <2>4. ASSUME stack' = <<>>
        PROVE  \A j \in DOMAIN stack' : stack'[j].call \notin {"setClosed", "complete"}
    BY <2>4
  <2>5. ASSUME NEW a, stack' = <<a>>, a.call \notin {"setClosed", "complete"}
        PROVE  \A j \in DOMAIN stack' : stack'[j].call \notin {"setClosed", "complete"}
    BY <2>5, StartShape DEF Started
  <2>6. \A r, a : /\ Call("close", r).call = "close" /\ Call("respond", r).call = "respond"
                  /\ Call("closeWatchdog", r).call = "closeWatchdog"
                  /\ Call("begin", r).call = "begin"
                  /\ CallWith("notify", r, a).call = "notify"
    BY DEF Call, CallWith
  <2>7. ASSUME NEW r \in Requests,
               \/ StartsHead(r) \/ ClosesQueued(r) \/ ExpiresToken(r)
               \/ TimesOut(r) \/ ClosesWatchdog(r)
               \/ \E a \in Answers : Notifies(r, a)
        PROVE  SignerTokens'
    <3>1. CASE StartsHead(r)
      BY <2>1, <2>2, <2>4, <2>5, <2>6, <3>1 DEF StartsHead
    <3>2. CASE ClosesQueued(r)
      BY <2>1, <2>2, <2>5, <2>6, <3>2 DEF ClosesQueued, queueVars
    <3>3. CASE ExpiresToken(r)
      <4>1. \A j \in DOMAIN stack' : stack'[j].call \notin {"setClosed", "complete"}
        BY <2>4, <2>5, <2>6, <3>3 DEF ExpiresToken
      <4> QED
        BY <2>1, <2>2, <3>3, <4>1 DEF ExpiresToken
    <3>4. CASE TimesOut(r) \/ ClosesWatchdog(r)
      BY <2>1, <2>2, <2>5, <2>6, <3>4 DEF TimesOut, ClosesWatchdog, Unmoved, queueVars
    <3>5. ASSUME NEW a \in Answers, Notifies(r, a) PROVE SignerTokens'
      BY <2>1, <2>2, <2>5, <2>6, <3>5 DEF Notifies, Unmoved, queueVars
    <3> QED
      BY <2>7, <3>1, <3>2, <3>3, <3>4, <3>5
  <2>8. CASE StartsNothing
    BY <2>1, <2>2, <2>4, <2>8 DEF StartsNothing, Unmoved, queueVars
  <2> QED
    BY <1>2, <2>3, <2>7, <2>8, CallbackKinds
<1>3. CASE UNCHANGED vars
  BY <1>3 DEF vars, queueVars, queuedVars, signerVars, SignerTokens, Before
<1> QED
  BY <1>1, <1>2, <1>3

LEMMA OrderTokensAndBegins ==
    Spec => [](TypeInv /\ StackOrder /\ BeginsCounted /\ SignerTokens)
<1>1. Init => StackOrder /\ BeginsCounted /\ SignerTokens
  <2>1. Init => (\A i \in DOMAIN stack : FALSE) /\ begun = {} /\ closed = {}
    BY DEF Init
  <2> QED
    BY <2>1 DEF StackOrder, BeginsCounted, SignerTokens
<1>2. TypeInv /\ StackOrder /\ BeginsCounted /\ SignerTokens /\ [Next]_vars
        => StackOrder' /\ BeginsCounted' /\ SignerTokens'
  BY OrderStep, CountedStep, TokensStep
<1> QED
  BY <1>1, <1>2, TypeCorrect, PTL DEF Spec

(***************************************************************************)
(* A Signer that is done has a helper only if a check started one for it.  *)
(***************************************************************************)
DoneHelpers == done \cap signing \subseteq revived

LEMMA DoneHelpersStep ==
    ASSUME DoneHelpers, [Next]_vars
    PROVE  DoneHelpers'
<1> USE DEF DoneHelpers, signerVars
<1>1. ASSUME UNCHANGED signerVars PROVE DoneHelpers'
  BY <1>1
<1>2. CASE Begin \/ CloseSigner \/ Notify
  BY <1>2 DEF Begin, CloseSigner, Notify
<1>3. CASE Close \/ SetClosed \/ CompleteToken \/ WrappedCallback \/ Respond \/ CloseWatchdog
             \/ DropCloseable \/ Send
  BY <1>1, <1>3 DEF Close, SetClosed, CompleteToken, WrappedCallback, Respond, CloseWatchdog,
                    DropCloseable, Send
<1>4. ASSUME NEW how \in Patience, NEW p \in Ports \cup {NoPort}, HandleSignRequest(how, p)
      PROVE  DoneHelpers'
  BY <1>1, <1>4 DEF HandleSignRequest
<1>5. ASSUME NEW p \in Ports, OtherRequest(p) \/ Disconnect(p)
      PROVE  DoneHelpers'
  BY <1>1, <1>5 DEF OtherRequest, Disconnect
<1>6. ASSUME NEW r \in Requests,
             StartNow(r) \/ QueuedTimeout(r) \/ TokenTimeout(r) \/ WatchdogTimeout(r)
      PROVE  DoneHelpers'
  BY <1>1, <1>6 DEF StartNow, QueuedTimeout, TokenTimeout, WatchdogTimeout
<1>7. ASSUME NEW r \in Requests, NEW result \in BOOLEAN, OriginChecked(r, result)
      PROVE  DoneHelpers'
  BY <1>7 DEF OriginChecked
<1>8. ASSUME NEW r \in Requests, NEW result \in BOOLEAN, AppIdChecked(r, result)
      PROVE  DoneHelpers'
  BY <1>8 DEF AppIdChecked
<1>9. ASSUME NEW r \in Requests, NEW answer \in {"OK", "HELPER_ERROR"}, HelperComplete(r, answer)
      PROVE  DoneHelpers'
  BY <1>9 DEF HelperComplete
<1>10. CASE UNCHANGED vars
  BY <1>1, <1>10 DEF vars
<1> QED
  BY <1>2, <1>3, <1>4, <1>5, <1>6, <1>7, <1>8, <1>9, <1>10 DEF Next, RunCall

(***************************************************************************)
(* Two requests are at work together only after the timer of one of them   *)
(* ran out or a helper was started for a done Signer: otherwise neither is *)
(* done, so both tokens are in the queue, and both were begun.             *)
(***************************************************************************)
THEOREM SignersTakeTurns == Spec => []OneAtWork
<1>1. TypeInv /\ BeginsCounted /\ SignerTokens /\ Queue!SerialService /\ DoneHelpers => OneAtWork
  <2> SUFFICES ASSUME TypeInv, BeginsCounted, SignerTokens, Queue!SerialService, DoneHelpers,
                      ~overtaken, NEW r \in AtWork, NEW s \in AtWork,
                      \A q \in {r, s} : q \in timers /\ q \notin revived
               PROVE  r = s
    BY DEF OneAtWork
  <2>1. ASSUME NEW t \in AtWork, t \in timers, t \notin revived
        PROVE  t \in Nat /\ Queue!IsHead(t)
    <3>1. t \in begun \ done
      BY <2>1 DEF AtWork, DoneHelpers, TypeInv, TypeOK
    <3>2. t \in Queue!Members /\ t \in Nat
      BY <2>1, <3>1 DEF SignerTokens, Queue!Members, Queue!Issued, TypeInv, TypeOK, Queue!TypeOK
    <3>3. begins[t] > 0
      <4>1. begins[t] \in Nat /\ begins[t] >= 1
        BY <3>1 DEF BeginsCounted, TypeInv, TypeOK, Queue!TypeOK, Queue!Tokens
      <4> QED
        BY <4>1
    <3> QED
      BY <3>2, <3>3 DEF Queue!SerialService
  <2>2. r <= s /\ s <= r /\ r \in Nat /\ s \in Nat
    BY <2>1 DEF Queue!IsHead
  <2> QED
    BY <2>2
<1>2. Init => DoneHelpers
  BY DEF Init, DoneHelpers
<1> QED
  BY <1>1, <1>2, DoneHelpersStep, OrderTokensAndBegins, SignsServedSerially, PTL DEF Spec
-----------------------------------------------------------------------------
(***************************************************************************)
(* A request whose token timer still runs is queued with its own timer     *)
(* running, or has begun, or is completed, or about to be.                 *)
(***************************************************************************)
OnStack(calls, r) ==
    \E i \in DOMAIN stack : stack[i].call \in calls /\ stack[i].req = r

TimersHeld ==
    \A r \in timers : \/ r \in queuedTimers \cup begun \cup completed
                      \/ OnStack({"close", "complete"}, r)

OnStackNext(calls, r) ==
    \E i \in DOMAIN stack' : stack'[i].call \in calls /\ stack'[i].req = r

LEMMA StaysOnStack ==
    ASSUME NEW n \in Nat, Shifted(n), NEW calls, NEW r, OnStack(calls, r)
    PROVE  \/ OnStackNext(calls, r)
           \/ stack[1].call \in calls /\ stack[1].req = r
<1>1. PICK i \in DOMAIN stack : stack[i].call \in calls /\ stack[i].req = r
  BY DEF OnStack
<1>2. CASE i > 1
  BY <1>1, <1>2 DEF Shifted, OnStackNext
<1>3. CASE ~(i > 1)
  <2>1. i = 1
    BY <1>3 DEF Shifted
  <2> QED
    BY <1>1, <2>1
<1> QED
  BY <1>2, <1>3

LEMMA HeldStep ==
    ASSUME TypeInv, SignerTokens, TimersHeld, [Next]_vars
    PROVE  TimersHeld'
<1>1. stack \in Seq(CallRecords) /\ Queue!TypeOK
  BY DEF TypeInv, TypeOK, CallRecords
<1>2. CASE RunCall
  <2>1. /\ 1 \in DOMAIN stack /\ stack[1].req = Req
        /\ timers' = timers /\ completed \subseteq completed'
        /\ \E n \in Nat : Shifted(n)
    BY <1>2, RunEffects DEF SameRequest, BeginsNext
  <2>2. queuedTimers \cup begun \subseteq queuedTimers' \cup begun'
    <3>1. CASE Begin
      BY <1>1, <3>1, BeginShape DEF queuedVars
    <3> QED
      BY <1>2, <3>1, RunEffects
  <2>3. ASSUME stack[1].call \in {"close", "complete"}
        PROVE  Req \in completed' \/ OnStackNext({"close", "complete"}, Req)
    <3>1. CASE stack[1].call = "complete"
      <4>1. CompleteToken
        BY <1>1, <1>2, <3>1, BeginShape, CloseShape, SetClosedShape, CloseSignerShape, NotifyShape,
           WrappedCallbackShape, RespondShape, CloseWatchdogShape, LastShapes DEF RunCall, Top
      <4> QED
        BY <1>1, <4>1, CompleteShape
    <3>2. CASE stack[1].call = "close"
      <4>1. Close
        BY <1>1, <1>2, <3>2, BeginShape, CompleteShape, SetClosedShape, CloseSignerShape, NotifyShape,
           WrappedCallbackShape, RespondShape, CloseWatchdogShape, LastShapes DEF RunCall, Top
      <4>2. CASE Req \in closed
        BY <2>1, <4>2 DEF SignerTokens
      <4>3. Call("complete", Req).call = "complete" /\ Call("complete", Req).req = Req
        BY DEF Call
      <4>4. CASE Req \notin closed
        <5>1. \E i \in DOMAIN stack' : stack'[i] = Call("complete", Req)
          BY <1>1, <4>1, <4>4, CloseShape
        <5>2. PICK i \in DOMAIN stack' : stack'[i] = Call("complete", Req)
          BY <5>1
        <5>3. stack'[i].call = "complete" /\ stack'[i].req = Req
          BY <4>3, <5>2
        <5> QED
          BY <5>3 DEF OnStackNext
      <4> QED
        BY <4>2, <4>4
    <3> QED
      BY <2>3, <3>1, <3>2
  <2>4. ASSUME NEW r \in timers, OnStack({"close", "complete"}, r)
        PROVE  r \in completed' \/ OnStackNext({"close", "complete"}, r)
    BY <2>1, <2>3, <2>4, StaysOnStack
  <2>5. \A r \in timers' : \/ r \in queuedTimers' \cup begun' \cup completed'
                            \/ OnStackNext({"close", "complete"}, r)
    BY <2>1, <2>2, <2>4 DEF TimersHeld
  <2> QED
    BY <2>5 DEF TimersHeld, OnStack, OnStackNext
<1>3. CASE Next /\ ~RunCall
  <2>1. stack = <<>> /\ begun' = begun /\ (\A i \in DOMAIN stack : FALSE)
    BY <1>3, CallbackKinds
  <2>2. timers \subseteq queuedTimers \cup begun \cup completed
    BY <2>1 DEF TimersHeld, OnStack
  <2>3. ASSUME completed \subseteq completed', timers' \subseteq timers,
               queuedTimers \subseteq queuedTimers'
        PROVE  TimersHeld'
    BY <2>1, <2>2, <2>3 DEF TimersHeld
  <2>4. CASE NewRequest
    BY <2>1, <2>2, <2>4 DEF NewRequest, TimersHeld
  <2>5. ASSUME NEW r \in Requests,
               \/ StartsHead(r) \/ ClosesQueued(r) \/ ExpiresToken(r)
               \/ TimesOut(r) \/ ClosesWatchdog(r)
               \/ \E a \in Answers : Notifies(r, a)
        PROVE  TimersHeld'
    <3>1. CASE StartsHead(r)
      BY <2>3, <3>1 DEF StartsHead
    <3>2. CASE ClosesQueued(r)
      <4>1. /\ timers' = timers /\ completed' = completed /\ queuedTimers' = queuedTimers \ {r}
            /\ stack' = <<Call("close", r)>>
        BY <3>2 DEF ClosesQueued, queueVars
      <4>2. /\ DOMAIN stack' = {1} /\ stack'[1] = Call("close", r)
            /\ Call("close", r).call = "close" /\ Call("close", r).req = r
        BY <4>1, StartShape DEF Started, Call
      <4>3. OnStack({"close", "complete"}, r)'
        BY <4>2 DEF OnStack
      <4> QED
        BY <2>1, <2>2, <4>1, <4>3 DEF TimersHeld
    <3>3. CASE ExpiresToken(r)
      BY <2>3, <3>3 DEF ExpiresToken
    <3>4. CASE TimesOut(r) \/ ClosesWatchdog(r)
      BY <2>3, <3>4 DEF TimesOut, ClosesWatchdog, Unmoved, queueVars
    <3>5. ASSUME NEW a \in Answers, Notifies(r, a) PROVE TimersHeld'
      BY <2>3, <3>5 DEF Notifies, Unmoved, queueVars
    <3> QED
      BY <2>5, <3>1, <3>2, <3>3, <3>4, <3>5
  <2>6. CASE StartsNothing
    BY <2>3, <2>6 DEF StartsNothing, Unmoved, queueVars
  <2> QED
    BY <1>3, <2>4, <2>5, <2>6, CallbackKinds
<1>4. CASE UNCHANGED vars
  BY <1>4 DEF vars, queueVars, queuedVars, TimersHeld, OnStack
<1> QED
  BY <1>2, <1>3, <1>4
-----------------------------------------------------------------------------
(***************************************************************************)
(* While no request was cancelled out of turn, a TIMEOUT on its way to the *)
(* page is that of a request whose timer ran out, or whose watchdog will   *)
(* hold it back.  A request closed by its own timer before it began tells  *)
(* its page nothing.                                                       *)
(***************************************************************************)
Honest(c) ==
    /\ c.call \in {"respond", "send"} /\ c.answer = "TIMEOUT" => c.req \notin timers
    /\ c.call \in {"callback", "notify"} /\ c.answer = "TIMEOUT"
         => c.req \notin timers \/ c.req \in wclosed
    /\ c.call \in {"close", "closeSigner"} => c.req \notin timers \/ c.req \in wclosed

HonestNext(c) ==
    /\ c.call \in {"respond", "send"} /\ c.answer = "TIMEOUT" => c.req \notin timers'
    /\ c.call \in {"callback", "notify"} /\ c.answer = "TIMEOUT"
         => c.req \notin timers' \/ c.req \in wclosed'
    /\ c.call \in {"close", "closeSigner"} => c.req \notin timers' \/ c.req \in wclosed'

ClosesUnbegun == stack[1].call = "close" /\ stack[1].req \notin begun

HonestStack ==
    ~overtaken =>
        \A i \in DOMAIN stack : Honest(stack[i]) \/ (i = 1 /\ ClosesUnbegun)

LEMMA CarriedHonesty ==
    ASSUME HonestStack, NEW n \in Nat, Shifted(n), timers' = timers,
           wclosed \subseteq wclosed', overtaken => overtaken',
           ~overtaken' => \A i \in DOMAIN stack' : i <= n => HonestNext(stack'[i])
    PROVE  HonestStack'
<1>1. ASSUME ~overtaken', NEW i \in DOMAIN stack' PROVE HonestNext(stack'[i])
  <2>1. CASE i > n
    <3>1. /\ (i - n) + 1 \in DOMAIN stack /\ (i - n) + 1 > 1
          /\ stack'[i] = stack[(i - n) + 1]
      BY <2>1 DEF Shifted
    <3>2. (i - n) + 1 # 1
      BY <3>1
    <3>3. Honest(stack'[i])
      BY <1>1, <3>1, <3>2 DEF HonestStack
    <3> QED
      BY <3>3 DEF Honest, HonestNext
  <2>2. i <= n \/ i > n
    BY DEF Shifted
  <2> QED
    BY <1>1, <2>1, <2>2
<1> QED
  BY <1>1 DEF HonestStack, Honest, HonestNext

(***************************************************************************)
(* A begin that finds its request's timer cleared comes after it ran out:  *)
(* otherwise the request would have begun before, or be closing now.       *)
(***************************************************************************)
LEMMA BegunExpired ==
    ASSUME TypeInv, StackOrder, BeginsCounted, TimersHeld, Queue!SerialService, ~overtaken,
           1 \in DOMAIN stack, stack[1].call = "begin", stack[1].req = Req,
           Req \notin queuedTimers
    PROVE  Req \notin timers
<1> SUFFICES ASSUME Req \in timers PROVE FALSE
  OBVIOUS
<1>1. stack \in Seq(CallRecords)
  BY DEF TypeInv, TypeOK, CallRecords
<1>2. Req \in Queue!Members /\ Req \in Nat
  BY DEF StackOrder, Queue!Members, Queue!Issued
<1>3. Req \notin begun
  <2>1. CASE Req \in begun
    <3>1. begins[Req] >= 2 /\ begins[Req] <= 1 /\ begins[Req] \in Nat
      BY <1>2, <2>1 DEF BeginsCounted, Queue!SerialService, TypeInv, TypeOK, Queue!TypeOK,
                        Queue!Tokens
    <3> QED
      BY <3>1
  <2> QED
    BY <2>1
<1>4. OnStack({"close", "complete"}, Req)
  BY <1>2, <1>3 DEF TimersHeld, Queue!Members
<1>5. PICK i \in DOMAIN stack : stack[i].call \in {"close", "complete"} /\ stack[i].req = Req
  BY <1>4 DEF OnStack
<1>6. i \in Nat /\ i # 1 /\ i >= 1
  BY <1>1, <1>5
<1>7. stack[i].req < stack[1].req
  BY <1>5, <1>6 DEF StackOrder
<1> QED
  BY <1>2, <1>5, <1>7

LEMMA RunHonesty ==
    ASSUME TypeInv, StackOrder, BeginsCounted, TimersHeld, Queue!SerialService,
           HonestStack, RunCall
    PROVE  HonestStack'
<1>1. stack \in Seq(CallRecords) /\ Queue!TypeOK
  BY DEF TypeInv, TypeOK, CallRecords
<1>2. 0 \in Nat /\ 1 \in Nat /\ 2 \in Nat /\ 3 \in Nat
  OBVIOUS
<1>3. \A f, a : /\ Call(f, Req).call = f /\ Call(f, Req).req = Req
                /\ CallWith(f, Req, a).call = f /\ CallWith(f, Req, a).req = Req
                /\ CallWith(f, Req, a).answer = a
  BY DEF Call, CallWith
<1>4. /\ 1 \in DOMAIN stack /\ stack[1].req = Req /\ stack[1].answer = Answer
      /\ timers' = timers /\ (overtaken => overtaken') /\ wclosed \subseteq wclosed'
  BY RunEffects
<1>5. ASSUME ~overtaken', stack[1].call # "close" PROVE Honest(stack[1])
  BY <1>4, <1>5 DEF HonestStack, ClosesUnbegun
<1>6. ASSUME Shifted(0) PROVE HonestStack'
  <2>1. \A j \in DOMAIN stack' : ~(j <= 0)
    BY <1>6 DEF Shifted
  <2> QED
    BY <1>2, <1>4, <1>6, <2>1, CarriedHonesty
<1>7. ASSUME NEW a, Shifted(1), stack'[1] = a, ~overtaken' => HonestNext(a) PROVE HonestStack'
  <2>1. \A j \in DOMAIN stack' : j <= 1 => j = 1
    BY <1>7 DEF Shifted
  <2> QED
    BY <1>2, <1>4, <1>7, <2>1, CarriedHonesty
<1>8. ASSUME NEW a, NEW b, Shifted(2), stack'[1] = a, stack'[2] = b,
             ~overtaken' => HonestNext(a) /\ HonestNext(b)
      PROVE  HonestStack'
  <2>1. \A j \in DOMAIN stack' : j <= 2 => j = 1 \/ j = 2
    BY <1>8 DEF Shifted
  <2> QED
    BY <1>2, <1>4, <1>8, <2>1, CarriedHonesty
<1>9. \A c : c.call \in {"complete", "setClosed", "begin", "closeWatchdog", "dropCloseable"}
                => HonestNext(c)
  BY DEF HonestNext
<1>10. CASE Begin
  <2>1. stack[1].call = "begin" /\ overtaken' = overtaken
    BY <1>1, <1>10, BeginShape DEF Top, Begin, queueVars
  <2>2. CASE Req \notin queuedTimers /\ Shifted(2)
             /\ stack'[1] = Call("close", Req) /\ stack'[2] = Call("callback", Req)
    <3>1. ASSUME ~overtaken' PROVE Req \notin timers'
      BY <1>4, <2>1, <2>2, <3>1, BegunExpired
    <3>2. ~overtaken' => HonestNext(Call("close", Req)) /\ HonestNext(Call("callback", Req))
      BY <1>3, <3>1 DEF HonestNext
    <3> QED
      BY <1>8, <2>2, <3>2
  <2> QED
    BY <1>1, <1>6, <1>10, <2>2, BeginShape
<1>11. CASE Close
  <2>1. stack[1].call = "close"
    BY <1>1, <1>11, CloseShape DEF Top
  <2>2. CASE /\ Req \in begun /\ Shifted(3)
             /\ stack'[1] = Call("closeSigner", Req)
             /\ stack'[2] = Call("complete", Req) /\ stack'[3] = Call("setClosed", Req)
    <3>1. \A j \in DOMAIN stack' : j <= 3 => j = 1 \/ j = 2 \/ j = 3
      BY <2>2 DEF Shifted
    <3>2. ASSUME ~overtaken' PROVE HonestNext(Call("closeSigner", Req))
      <4>1. Honest(stack[1])
        BY <1>4, <2>2, <3>2 DEF HonestStack, ClosesUnbegun
      <4>2. Req \notin timers' \/ Req \in wclosed'
        BY <1>4, <2>1, <4>1 DEF Honest
      <4> QED
        BY <1>3, <4>2 DEF HonestNext
    <3>3. HonestNext(Call("complete", Req)) /\ HonestNext(Call("setClosed", Req))
      BY <1>3, <1>9
    <3> QED
      BY <1>2, <1>4, <2>2, <3>1, <3>2, <3>3, CarriedHonesty
  <2>3. CASE Shifted(2) /\ stack'[1] = Call("complete", Req) /\ stack'[2] = Call("setClosed", Req)
    BY <1>3, <1>8, <1>9, <2>3
  <2> QED
    BY <1>1, <1>6, <1>11, <2>2, <2>3, CloseShape
<1>12. CASE SetClosed
  BY <1>1, <1>6, <1>12, SetClosedShape
<1>13. CASE CloseSigner
  <2>1. stack[1].call = "closeSigner" /\ Shifted(1) /\ stack'[1] = Call("notify", Req)
    BY <1>1, <1>13, CloseSignerShape DEF Top
  <2>2. ~overtaken' => HonestNext(Call("notify", Req))
    BY <1>3, <1>4, <1>5, <2>1 DEF Honest, HonestNext
  <2> QED
    BY <1>7, <2>1, <2>2
<1>14. CASE Notify
  <2>1. CASE /\ stack[1].call = "notify"
             /\ Shifted(2) /\ stack'[1] = Call("complete", Req)
             /\ stack'[2] = CallWith("callback", Req, Answer)
    <3>1. ~overtaken' => HonestNext(CallWith("callback", Req, Answer))
      BY <1>3, <1>4, <1>5, <2>1 DEF Honest, HonestNext
    <3>2. HonestNext(Call("complete", Req))
      BY <1>3, <1>9
    <3> QED
      BY <1>8, <2>1, <3>1, <3>2
  <2> QED
    BY <1>1, <1>6, <1>14, <2>1, NotifyShape DEF Top
<1>15. CASE CompleteToken
  <2>1. ASSUME NEW u, Shifted(1), stack'[1] = Call("begin", u) PROVE HonestStack'
    <3>1. Call("begin", u).call = "begin"
      BY DEF Call
    <3> QED
      BY <1>7, <1>9, <2>1, <3>1
  <2> QED
    BY <1>1, <1>6, <1>15, <2>1, CompleteShape
<1>16. CASE WrappedCallback
  <2>1. CASE /\ stack[1].call = "callback" /\ Req \notin wclosed
             /\ Shifted(1) /\ stack'[1] = CallWith("respond", Req, Answer)
    <3>1. ~overtaken' => HonestNext(CallWith("respond", Req, Answer))
      BY <1>3, <1>4, <1>5, <2>1 DEF Honest, HonestNext
    <3> QED
      BY <1>7, <2>1, <3>1
  <2> QED
    BY <1>1, <1>6, <1>16, <2>1, WrappedCallbackShape DEF Top
<1>17. CASE Respond
  <2>1. /\ stack[1].call = "respond" /\ Shifted(2)
        /\ stack'[1] = Call("closeWatchdog", Req) /\ stack'[2] = CallWith("send", Req, Answer)
    BY <1>1, <1>17, RespondShape DEF Top
  <2>2. ~overtaken' => HonestNext(CallWith("send", Req, Answer))
    BY <1>3, <1>4, <1>5, <2>1 DEF Honest, HonestNext
  <2>3. HonestNext(Call("closeWatchdog", Req))
    BY <1>3, <1>9
  <2> QED
    BY <1>8, <2>1, <2>2, <2>3
<1>18. CASE CloseWatchdog
  <2>1. CASE /\ Shifted(2) /\ stack'[1] = Call("close", Req)
             /\ stack'[2] = Call("dropCloseable", Req)
    <3>1. Req \in wclosed'
      BY <1>18 DEF CloseWatchdog
    <3>2. HonestNext(Call("close", Req))
      BY <1>3, <3>1 DEF HonestNext
    <3>3. HonestNext(Call("dropCloseable", Req))
      BY <1>3, <1>9
    <3> QED
      BY <1>8, <2>1, <3>2, <3>3
  <2> QED
    BY <1>1, <1>6, <1>18, <2>1, CloseWatchdogShape
<1>19. CASE DropCloseable \/ Send
  BY <1>1, <1>6, <1>19, LastShapes
<1> QED
  BY <1>10, <1>11, <1>12, <1>13, <1>14, <1>15, <1>16, <1>17, <1>18, <1>19 DEF RunCall

LEMMA HonestyStep ==
    ASSUME TypeInv, StackOrder, BeginsCounted, TimersHeld, Queue!SerialService,
           HonestStack, [Next]_vars
    PROVE  HonestStack'
<1>1. CASE RunCall
  BY <1>1, RunHonesty
<1>2. CASE Next /\ ~RunCall
  <2>1. begun' = begun /\ wclosed' = wclosed
    BY <1>2, CallbackKinds
  <2>2. ASSUME stack' = <<>> PROVE HonestStack'
    <3>1. \A i \in DOMAIN stack' : FALSE
      BY <2>2
    <3> QED
      BY <3>1 DEF HonestStack
  <2>3. ASSUME NEW a, stack' = <<a>>,
               HonestNext(a) \/ (a.call = "close" /\ a.req \notin begun')
        PROVE  HonestStack'
    <3>1. DOMAIN stack' = {1} /\ stack'[1] = a
      BY <2>3, StartShape DEF Started
    <3>2. \A i \in DOMAIN stack' : i = 1 /\ stack'[i] = a
      BY <3>1
    <3> QED
      BY <2>3, <3>1, <3>2 DEF HonestStack, Honest, HonestNext, ClosesUnbegun
  <2>4. \A f, r, a : /\ Call(f, r).call = f /\ Call(f, r).req = r
                     /\ CallWith(f, r, a).call = f /\ CallWith(f, r, a).answer = a
    BY DEF Call, CallWith
  <2>5. ASSUME NEW r \in Requests,
               \/ StartsHead(r) \/ ClosesQueued(r) \/ ExpiresToken(r)
               \/ TimesOut(r) \/ ClosesWatchdog(r)
               \/ \E a \in Answers : Notifies(r, a)
        PROVE  HonestStack'
    <3>1. \A u : HonestNext(Call("begin", u)) /\ HonestNext(Call("closeWatchdog", u))
      BY <2>4 DEF HonestNext
    <3>2. CASE StartsHead(r) \/ ExpiresToken(r) \/ ClosesWatchdog(r)
      BY <2>2, <2>3, <3>1, <3>2 DEF StartsHead, ExpiresToken, ClosesWatchdog
    <3>3. CASE ClosesQueued(r)
      <4>1. r \notin begun'
        BY <2>1, <3>3 DEF ClosesQueued, BeginsCounted
      <4> QED
        BY <2>3, <2>4, <3>3, <4>1 DEF ClosesQueued
    <3>4. CASE TimesOut(r)
      <4>1. r \notin timers'
        BY <3>4 DEF TimesOut, Unmoved, queueVars
      <4>2. HonestNext(Call("respond", r))
        BY <2>4, <4>1 DEF HonestNext
      <4> QED
        BY <2>3, <3>4, <4>2 DEF TimesOut
    <3>5. ASSUME NEW a \in Answers, Notifies(r, a) PROVE HonestStack'
      <4>1. HonestNext(CallWith("notify", r, a))
        BY <2>4, <3>5 DEF HonestNext, Notifies
      <4> QED
        BY <2>3, <3>5, <4>1 DEF Notifies
    <3> QED
      BY <2>5, <3>2, <3>3, <3>4, <3>5
  <2>6. NewRequest \/ StartsNothing => stack' = <<>>
    BY DEF NewRequest, StartsNothing
  <2> QED
    BY <1>2, <2>2, <2>5, <2>6, CallbackKinds
<1>3. CASE UNCHANGED vars
  BY <1>3 DEF vars, queueVars, queuedVars, watchdogVars, HonestStack, Honest, ClosesUnbegun
<1> QED
  BY <1>1, <1>2, <1>3

(***************************************************************************)
(* What was sent: nothing yet for a request to come, and no early TIMEOUT. *)
(***************************************************************************)
SentHonestly ==
    /\ \A r \in Requests : r \notin Queue!Issued => responses[r] = <<>>
    /\ TimeoutIsHonest

LEMMA SentStep ==
    ASSUME TypeInv, AnswerInv, HonestStack, SentHonestly, [Next]_vars
    PROVE  SentHonestly'
<1>1. stack \in Seq(CallRecords) /\ Queue!TypeOK
  BY DEF TypeInv, TypeOK, CallRecords
<1>2. ASSUME responses' = responses, timers' \subseteq timers, overtaken => overtaken',
             lastId' = lastId
      PROVE  SentHonestly'
  BY <1>2 DEF SentHonestly, TimeoutIsHonest, Queue!Issued
<1>3. CASE Send
  <2>1. /\ 1 \in DOMAIN stack /\ stack[1].call = "send" /\ stack[1].req = Req
        /\ stack[1].answer = Answer /\ Req \in 1..lastId /\ Answer \in Answers
        /\ UNCHANGED queueVars
    BY <1>1, <1>3, LastShapes DEF Send, Top
  <2>2. Req \in Requests /\ responses \in [Requests -> Seq(Answers)]
    BY <2>1 DEF TypeInv, TypeOK, Queue!TypeOK, Requests
  <2>3. responses[Req] = <<>>
    BY <2>1 DEF AnswerInv, Answering
  <2>4. responses'[Req] \in {<<>>, <<Answer>>}
    <3>1. responses'[Req] \in {<<>>, Append(<<>>, Answer)}
      BY <1>3, <2>2, <2>3 DEF Send
    <3>2. Append(<<>>, Answer) = <<Answer>>
      OBVIOUS
    <3> QED
      BY <3>1, <3>2
  <2>5. \A r \in Requests : r # Req => responses'[r] = responses[r]
    BY <1>3, <2>2 DEF Send
  <2>6. \A r \in Requests : r \notin Queue!Issued' => responses'[r] = <<>>
    BY <2>1, <2>5 DEF SentHonestly, Queue!Issued, queueVars
  <2>7. ASSUME ~overtaken', NEW r \in Requests, responses'[r] = <<"TIMEOUT">>
        PROVE  r \notin timers'
    <3>1. ~overtaken /\ timers' = timers
      BY <2>1, <2>7 DEF queueVars
    <3>2. CASE r = Req
      <4>1. Answer = "TIMEOUT"
        <5>1. <<"TIMEOUT">> # <<>> /\ (<<Answer>> = <<"TIMEOUT">> => Answer = "TIMEOUT")
          OBVIOUS
        <5> QED
          BY <2>4, <2>7, <3>2, <5>1
      <4>2. Honest(stack[1])
        BY <2>1, <3>1 DEF HonestStack, ClosesUnbegun
      <4> QED
        BY <2>1, <3>1, <3>2, <4>1, <4>2 DEF Honest
    <3>3. CASE r # Req
      BY <2>5, <2>7, <3>1, <3>3 DEF SentHonestly, TimeoutIsHonest
    <3> QED
      BY <3>2, <3>3
  <2> QED
    BY <2>6, <2>7 DEF SentHonestly, TimeoutIsHonest
<1>4. CASE RunCall /\ ~Send
  <2>1. responses' = responses
    BY <1>4 DEF RunCall, Begin, Close, SetClosed, CloseSigner, Notify, CompleteToken,
                WrappedCallback, Respond, CloseWatchdog, DropCloseable
  <2> QED
    BY <1>2, <1>4, <2>1, RunEffects
<1>5. CASE Next /\ ~RunCall
  <2>1. responses' = responses
    BY <1>5, CallbackKinds
  <2>2. CASE NewRequest
    <3>1. /\ lastId' = lastId + 1 /\ lastId + 1 \in Requests /\ overtaken' = overtaken
          /\ timers' \subseteq timers \cup {lastId'}
      BY <2>2 DEF NewRequest
    <3>2. lastId' \notin Queue!Issued /\ \A r : r \in Queue!Issued => r \in Queue!Issued'
      BY <1>1, <3>1 DEF Queue!Issued, Queue!TypeOK
    <3>3. responses[lastId'] = <<>>
      BY <3>1, <3>2 DEF SentHonestly
    <3>4. <<>> # <<"TIMEOUT">>
      OBVIOUS
    <3>5. ASSUME ~overtaken', NEW r \in Requests, responses'[r] = <<"TIMEOUT">>
          PROVE  r \notin timers'
      BY <2>1, <3>1, <3>3, <3>4, <3>5 DEF SentHonestly, TimeoutIsHonest
    <3> QED
      BY <2>1, <3>2, <3>5 DEF SentHonestly, TimeoutIsHonest
  <2>3. ASSUME NEW r \in Requests,
               \/ StartsHead(r) \/ ClosesQueued(r) \/ ExpiresToken(r)
               \/ TimesOut(r) \/ ClosesWatchdog(r)
               \/ \E a \in Answers : Notifies(r, a)
        PROVE  SentHonestly'
    BY <1>2, <2>1, <2>3 DEF StartsHead, ClosesQueued, ExpiresToken, TimesOut, ClosesWatchdog,
                            Notifies, Unmoved, queueVars
  <2>4. CASE StartsNothing
    BY <1>2, <2>1, <2>4 DEF StartsNothing, Unmoved, queueVars
  <2> QED
    BY <1>5, <2>2, <2>3, <2>4, CallbackKinds
<1>6. CASE UNCHANGED vars
  BY <1>2, <1>6 DEF vars, queueVars
<1> QED
  BY <1>3, <1>4, <1>5, <1>6

(***************************************************************************)
(* The timers' invariant alone.                                            *)
(***************************************************************************)
LEMMA TimersAreHeld == Spec => []TimersHeld
<1>1. Init => TimersHeld
  BY DEF Init, Queue!Init, TimersHeld
<1>2. TypeInv /\ SignerTokens /\ TimersHeld /\ [Next]_vars => TimersHeld'
  BY HeldStep
<1> QED
  BY <1>1, <1>2, OrderTokensAndBegins, PTL DEF Spec

(***************************************************************************)
(* A page told TIMEOUT had its request's time run out, unless some request *)
(* was cancelled out of turn.                                              *)
(***************************************************************************)
THEOREM TimeoutsAreHonest == Spec => []TimeoutIsHonest
<1>1. Init => HonestStack /\ SentHonestly
  <2>1. Init => (\A i \in DOMAIN stack : FALSE) /\ (\A r \in Requests : responses[r] = <<>>)
                /\ timers = {}
    BY DEF Init, Queue!Init
  <2> QED
    BY <2>1 DEF HonestStack, SentHonestly, TimeoutIsHonest
<1>2. ASSUME TypeInv, StackOrder, BeginsCounted, TimersHeld, Queue!SerialService,
             AnswerInv, HonestStack, SentHonestly, [Next]_vars
      PROVE  HonestStack' /\ SentHonestly'
  <2>1. HonestStack'
    BY <1>2, HonestyStep
  <2>2. SentHonestly'
    BY <1>2, SentStep
  <2> QED
    BY <2>1, <2>2
<1>3. SentHonestly => TimeoutIsHonest
  BY DEF SentHonestly
<1> QED
  BY <1>1, <1>2, <1>3, OrderTokensAndBegins, TimersAreHeld, AnswersAccountedFor,
     SignsServedSerially, PTL DEF Spec
-----------------------------------------------------------------------------
(***************************************************************************)
(* SingleSigner, the gnubby.  A signer that lost its open gnubby handed it *)
(* over, or is one of the two cases GnubbyReleased excepts; one that still *)
(* has it did not report, unless it handed it over.  While the key is being*)
(* opened nothing else goes on.                                            *)
(***************************************************************************)
Handed == \E i \in DOMAIN results : results[i].handed
Lost ==
    \/ \E i \in DOMAIN results : results[i].handed \/ results[i].code = "SYNC_FAILED"
    \/ closeCalled = "busy"

BeingOpened == state \in {"OPENING", "BUSY"} /\ opening

ReleaseInv ==
    /\ device = "open" => gnubby = "attached" \/ Lost
    /\ gnubby = "attached" /\ results # <<>> => Handed
    /\ state = "CLOSED" => gnubby = "none"
    /\ opening \/ reopen \/ state = "INIT" =>
         cmd = "none" /\ reply = NoReply /\ ~touch /\ ~closingWhenIdle /\ gnubby # "attached"
    /\ opening /\ state \notin {"OPENING", "BUSY"} => closeCalled = "busy"
    /\ BeingOpened => results = <<>>
    /\ reopen => ~opening /\ (state = "BUSY" \/ gnubby = "none") /\ results = <<>>
    /\ state = "INIT" => ~opening /\ ~reopen /\ gnubby = "none" /\ results = <<>>
    /\ gnubby # "none" => state # "INIT"
    /\ opening /\ state = "OPENING" => gnubby = "none"
    /\ calling => results # <<>>

(***************************************************************************)
(* SingleSigner, the challenges.  Every challenge before the one at hand,  *)
(* and every key handle noted as refused, was put to the key or was for    *)
(* another version; while it signs, so was the one at hand.                *)
(***************************************************************************)
Tried == {KeyHandle[j] : j \in asked \cup foreign}

CommandCodes == {"OK", "BUSY", "GONE", "TIMEOUT", "OTHER"}

TriedInv ==
    /\ index \in Nat \ {0}
    /\ asked \subseteq Challenges
    /\ cached \subseteq Tried
    /\ \A i \in Challenges : i < index => KeyHandle[i] \in Tried
    /\ state = "SIGNING" => index \in asked
    /\ reply # NoReply =>
         reply[2] \in IF reply[1] = "sign" THEN CommandCodes \cup {"WAIT_TOUCH", "WRONG_DATA"}
                                          ELSE CommandCodes

-----------------------------------------------------------------------------
Outcomes == [code : {"OK", "BUSY", "GONE", "TIMEOUT", "OTHER", "WRONG_DATA",
                     "NODEVICE", "SYNC_FAILED"}, handed : BOOLEAN]
ResultCodes == {"OK", "BUSY", "GONE", "TIMEOUT", "OTHER", "WRONG_DATA", "NODEVICE",
                "SYNC_FAILED"}

SingleTypeOK ==
    /\ count \in Nat /\ foreign \subseteq Challenges
    /\ results \in Seq(Outcomes)

WrongData == \E i \in DOMAIN results : results[i].code = "WRONG_DATA"
AllTried == \A i \in Challenges : KeyHandle[i] \in Tried

SignerInv == SingleTypeOK /\ ReleaseInv /\ TriedInv /\ (WrongData => AllTried)

(***************************************************************************)
(* One more report.                                                        *)
(***************************************************************************)
LEMMA ReportAdds ==
    ASSUME SingleTypeOK, NEW code \in ResultCodes, NEW handed \in BOOLEAN,
           CallsBack(code, handed), closeCalled' = closeCalled
    PROVE  /\ results' \in Seq(Outcomes) /\ results' # <<>>
           /\ Handed => Handed'
           /\ Lost => Lost'
           /\ handed => Handed'
           /\ code = "SYNC_FAILED" => Lost'
           /\ WrongData' => WrongData \/ code = "WRONG_DATA"
<1> DEFINE r == Result(code, handed)
<1>1. r \in Outcomes /\ r.code = code /\ r.handed = handed
  BY DEF Result, Outcomes, ResultCodes
<1>2. results \in Seq(Outcomes) /\ results' = Append(results, r)
  BY DEF SingleTypeOK, Outcomes, CallsBack
<1> HIDE DEF r
<1>3. /\ results' \in Seq(Outcomes) /\ Len(results) \in Nat
      /\ DOMAIN results = 1..Len(results) /\ DOMAIN results' = 1..(Len(results) + 1)
      /\ results'[Len(results) + 1] = r
      /\ \A i \in DOMAIN results : i \in DOMAIN results' /\ results'[i] = results[i]
  BY <1>1, <1>2
<1>4. Len(results) + 1 \in DOMAIN results'
  BY <1>3
<1>5. results' # <<>>
  BY <1>4
<1>6. (Handed => Handed') /\ (handed => Handed')
  BY <1>1, <1>3, <1>4 DEF Handed
<1>7. (Lost => Lost') /\ (code = "SYNC_FAILED" => Lost')
  BY <1>1, <1>3, <1>4 DEF Lost
<1>8. WrongData' => WrongData \/ code = "WRONG_DATA"
  <2>1. \A i \in DOMAIN results' : i \in DOMAIN results \/ i = Len(results) + 1
    BY <1>3
  <2>2. QED
    BY <1>1, <1>3, <2>1 DEF WrongData
<1>9. QED
  BY <1>3, <1>5, <1>6, <1>7, <1>8

LEMMA HandedIsLost == Handed => Lost
  BY DEF Handed, Lost

(***************************************************************************)
(* goToError_ and goToSuccess_ hand the gnubby over or close it.           *)
(***************************************************************************)
LEMMA ReportReleases ==
    ASSUME SingleTypeOK, ReleaseInv, NEW code \in ResultCodes,
           GoToError(code) \/ GoToSuccess(code),
           ~opening, ~reopen, state # "INIT", UNCHANGED <<openVars, closeCalled>>
    PROVE  /\ ReleaseInv' /\ results' \in Seq(Outcomes)
           /\ WrongData' => WrongData \/ code = "WRONG_DATA"
<1>1. CASE /\ CallsBack(code, TRUE) \/ (CallsBack(code, gnubby = "attached"))
           /\ state' = "COMPLETE"
           /\ UNCHANGED <<gnubby, device, cmd, closingWhenIdle>>
  <2>1. PICK handed \in BOOLEAN : CallsBack(code, handed) /\ (gnubby = "attached" => handed)
    BY <1>1
  <2>2. /\ results' \in Seq(Outcomes) /\ results' # <<>>
        /\ Lost => Lost'
        /\ handed => Handed'
        /\ WrongData' => WrongData \/ code = "WRONG_DATA"
    BY <2>1, ReportAdds
  <2>3. QED
    BY <1>1, <2>1, <2>2 DEF ReleaseInv, BeingOpened, openVars
<1>2. CASE /\ CallsBack(code, FALSE)
           /\ \/ /\ gnubby = "none"
                 /\ state' = "COMPLETE"
                 /\ UNCHANGED <<gnubby, device, cmd, closingWhenIdle>>
              \/ /\ gnubby # "none"
                 /\ state' = "CLOSED"
                 /\ gnubby' = "none"
                 /\ device' = IF gnubby = "attached" THEN "closed" ELSE device
                 /\ UNCHANGED <<cmd, closingWhenIdle>>
  <2>1. /\ results' \in Seq(Outcomes) /\ results' # <<>>
        /\ Lost => Lost'
        /\ WrongData' => WrongData \/ code = "WRONG_DATA"
    BY <1>2, ReportAdds
  <2>2. QED
    BY <1>2, <2>1 DEF ReleaseInv, BeingOpened, openVars
<1>3. QED
  BY <1>1, <1>2 DEF GoToError, GoToSuccess

LEMMA LostKept ==
    ASSUME UNCHANGED <<results, closeCalled>>
    PROVE  (Lost' <=> Lost) /\ (Handed' <=> Handed) /\ (WrongData' <=> WrongData)
  BY DEF Lost, Handed, WrongData

(***************************************************************************)
(* A command of the gnubby, or nothing.                                    *)
(***************************************************************************)
LEMMA CommandReleases ==
    ASSUME ReleaseInv, NEW c, ~opening, ~reopen, state # "INIT",
           UNCHANGED <<openVars, closeCalled>>,
           \/ Command(c) /\ state' \in {state, "SIGNING"}
           \/ Quiet /\ (state' = state \/ state' = "IDLE")
    PROVE  ReleaseInv'
<1>1. UNCHANGED <<gnubby, device, closingWhenIdle, results, calling>>
  BY DEF Command, Quiet
<1>2. (Lost' <=> Lost) /\ (Handed' <=> Handed)
  BY <1>1, LostKept
<1>3. state' # "INIT" /\ (state' = "CLOSED" => state = "CLOSED")
  OBVIOUS
<1>4. QED
  BY <1>1, <1>2, <1>3 DEF ReleaseInv, BeingOpened, openVars
(***************************************************************************)
(* A set of natural numbers has a least member.                            *)
(***************************************************************************)
LEMMA LeastMember ==
    ASSUME NEW T \in SUBSET Nat, T # {}
    PROVE  \E m \in T : \A k \in T : m <= k
<1>1. PICK m \in T : \A k \in T : ~(<<k, m>> \in OpToRel(<, Nat))
  BY WFMin, NatLessThanWellFounded, Zenon
<1>2. \A k \in T : ~(k < m)
  BY <1>1, Zenon DEF OpToRel
<1>3. QED
  BY <1>2

(***************************************************************************)
(* A challenge skipped because its key handle was refused before leads back*)
(* to one that was tried.                                                  *)
(***************************************************************************)
LEMMA SkippedWereTried ==
    ASSUME SingleTypeOK, NEW i \in Nat \ {0}, NEW j \in Nat, j <= count,
           NEW known \in SUBSET Tried, Skipped(i, j, known)
    PROVE  \A k \in i..j : KeyHandle[k] \in Tried
<1> DEFINE T == {k \in i..j : KeyHandle[k] \notin Tried}
<1> SUFFICES ASSUME T # {} PROVE FALSE
  OBVIOUS
<1>1. T \in SUBSET Nat
  OBVIOUS
<1>2. PICK m \in T : \A k \in T : m <= k
  BY <1>1, LeastMember
<1>3. m \in i..j /\ KeyHandle[m] \notin Tried
  BY <1>2
<1>4. \A k \in i..(m - 1) : KeyHandle[k] \in Tried
  <2>1. \A k \in i..(m - 1) : k \in i..j /\ ~(m <= k)
    BY <1>3
  <2>2. QED
    BY <1>2, <2>1
<1>5. m \in foreign \/ KeyHandle[m] \in known \cup Handles(i, m - 1)
  BY <1>3 DEF Skipped
<1>6. CASE m \in foreign
  BY <1>3, <1>6 DEF Tried
<1>7. CASE KeyHandle[m] \in known \cup Handles(i, m - 1)
  BY <1>3, <1>4, <1>7 DEF Handles
<1>8. QED
  BY <1>5, <1>6, <1>7

(***************************************************************************)
(* When no challenge is left to put to the key, all the rest was skipped.  *)
(***************************************************************************)
LEMMA NoneUnknown ==
    ASSUME SingleTypeOK, NEW i \in Nat \ {0}, NEW known, FirstUnknown(i, known) = {}
    PROVE  Skipped(i, count, known)
<1> DEFINE T == {j \in i..count : ~Skipped(i, j, known)}
<1>0. count \in Nat
  BY DEF SingleTypeOK
<1> SUFFICES ASSUME ~Skipped(i, count, known) PROVE FALSE
  OBVIOUS
<1>1. i <= count
  BY <1>0 DEF Skipped
<1>2. T \in SUBSET Nat /\ T # {}
  BY <1>0, <1>1
<1>3. PICK j \in T : \A k \in T : j <= k
  BY <1>2, LeastMember
<1>4. j \in i..count /\ ~Skipped(i, j, known)
  BY <1>3
<1>5. Skipped(i, j - 1, known)
  <2>1. CASE j = i
    BY <1>4, <2>1 DEF Skipped
  <2>2. CASE j # i
    <3>1. j - 1 \in i..count /\ ~(j <= j - 1)
      BY <1>0, <1>4, <2>2
    <3>2. QED
      BY <1>3, <3>1
  <2>3. QED
    BY <2>1, <2>2
<1>6. QED
  BY <1>4, <1>5 DEF FirstUnknown
-----------------------------------------------------------------------------
(***************************************************************************)
(* What keeps TriedInv while nothing new is put to the key.                *)
(***************************************************************************)
LEMMA TriedKept ==
    ASSUME TriedInv, UNCHANGED <<count, foreign, asked>>,
           cached' \subseteq Tried, index' \in Nat \ {0},
           \A k \in Challenges : k < index' => KeyHandle[k] \in Tried,
           state' = "SIGNING" => index' \in asked,
           reply' = NoReply \/ reply' = reply
    PROVE  TriedInv' /\ Tried' = Tried /\ (AllTried' <=> AllTried)
<1>1. Tried' = Tried /\ Challenges' = Challenges
  BY DEF Tried, Challenges
<1>2. QED
  BY <1>1 DEF TriedInv, AllTried

(***************************************************************************)
(* doSign_, called when all challenges before i were tried, as were those  *)
(* with the key handles known.                                             *)
(***************************************************************************)
LEMMA DoSignStep ==
    ASSUME SignerInv, NEW i \in Nat \ {0}, NEW known \in SUBSET Tried, DoSign(i, known),
           \A k \in Challenges : k < i => KeyHandle[k] \in Tried,
           ~opening, ~reopen, state # "INIT", reply' = NoReply,
           UNCHANGED <<constVars, openVars, closeCalled>>
    PROVE  SignerInv'
<1> USE DEF SignerInv
<1>1. count \in Nat /\ foreign \subseteq Challenges
      /\ UNCHANGED <<count, foreign>> /\ Challenges' = Challenges
  BY DEF SingleTypeOK, constVars, Challenges
<1>2. CASE /\ gnubby = "none" /\ Quiet /\ UNCHANGED <<state, signVars>>
  <2>1. ReleaseInv' /\ UNCHANGED results
    BY <1>2, CommandReleases DEF Quiet
  <2>2. TriedInv' /\ (AllTried' <=> AllTried)
    BY <1>1, <1>2, TriedKept DEF TriedInv, signVars
  <2>3. WrongData' <=> WrongData
    BY <2>1 DEF WrongData
  <2>4. QED
    BY <1>1, <2>1, <2>2, <2>3 DEF SingleTypeOK
<1>3. CASE /\ gnubby # "none" /\ GoToError("TIMEOUT")
           /\ index' = i /\ cached' = known
           /\ UNCHANGED <<touch, asked>>
  <2>1. "TIMEOUT" \in ResultCodes /\ "TIMEOUT" # "WRONG_DATA"
    BY DEF ResultCodes
  <2>2. ReleaseInv' /\ results' \in Seq(Outcomes) /\ (WrongData' => WrongData)
    BY <1>3, <2>1, ReportReleases
  <2>3. state' # "SIGNING"
    BY <1>3 DEF GoToError
  <2>4. TriedInv' /\ (AllTried' <=> AllTried)
    BY <1>1, <1>3, <2>3, TriedKept
  <2>5. QED
    BY <1>1, <2>2, <2>4 DEF SingleTypeOK
<1>4. CASE /\ gnubby # "none" /\ FirstUnknown(i, known) = {}
           /\ index' = IF i <= count THEN count ELSE i
           /\ cached' = known \cup Handles(i, count)
           /\ GoToSuccess("WRONG_DATA") \/ GoToError("WRONG_DATA")
           /\ UNCHANGED <<touch, asked>>
  <2>1. "WRONG_DATA" \in ResultCodes
    BY DEF ResultCodes
  <2>2. ReleaseInv' /\ results' \in Seq(Outcomes)
    BY <1>4, <2>1, ReportReleases
  <2>3. \A k \in i..count : KeyHandle[k] \in Tried
    BY <1>1, <1>4, NoneUnknown, SkippedWereTried
  <2>4. AllTried
    BY <1>1, <2>3 DEF AllTried, Challenges
  <2>5. state' # "SIGNING"
    BY <1>4 DEF GoToError, GoToSuccess
  <2>6. cached' \subseteq Tried
    BY <1>4, <2>3 DEF Handles
  <2>7. index' \in Nat \ {0}
    BY <1>1, <1>4
  <2>8. TriedInv' /\ (AllTried' <=> AllTried)
    BY <1>1, <1>4, <2>4, <2>5, <2>6, <2>7, TriedKept DEF AllTried
  <2>9. QED
    BY <1>1, <2>2, <2>4, <2>8 DEF SingleTypeOK
<1>5. ASSUME gnubby # "none", NEW j \in FirstUnknown(i, known),
             index' = j, cached' = known \cup Handles(i, j - 1), asked' = asked \cup {j},
             state' = "SIGNING", Command("sign")
      PROVE  SignerInv'
  <2>1. ReleaseInv' /\ UNCHANGED results
    BY <1>5, CommandReleases DEF Command
  <2>2. j \in i..count /\ Skipped(i, j - 1, known)
    BY <1>5 DEF FirstUnknown
  <2>3. j \in Nat \ {0} /\ j \in Challenges /\ j - 1 \in Nat /\ j - 1 <= count
    BY <1>1, <2>2 DEF Challenges
  <2>4. \A k \in i..(j - 1) : KeyHandle[k] \in Tried
    BY <2>2, <2>3, SkippedWereTried
  <2>5. Tried \subseteq Tried'
    BY <1>1, <1>5 DEF Tried
  <2>6. \A k \in Challenges : k < j => KeyHandle[k] \in Tried
    BY <1>1, <2>3, <2>4 DEF Challenges
  <2>7. cached' \subseteq Tried
    BY <1>5, <2>4 DEF Handles
  <2>8. TriedInv'
    BY <1>1, <1>5, <2>3, <2>5, <2>6, <2>7 DEF TriedInv
  <2>9. (WrongData' <=> WrongData) /\ (AllTried => AllTried')
    BY <1>1, <2>1, <2>5 DEF WrongData, AllTried
  <2>10. QED
    BY <1>1, <2>1, <2>8, <2>9 DEF SingleTypeOK
<1>6. QED
  BY <1>2, <1>3, <1>4, <1>5 DEF DoSign
-----------------------------------------------------------------------------
(***************************************************************************)
(* A step that reports; it reports WRONG_DATA only when all were tried.    *)
(***************************************************************************)
LEMMA ReportStep ==
    ASSUME SignerInv, NEW code \in ResultCodes, GoToError(code) \/ GoToSuccess(code),
           code = "WRONG_DATA" => AllTried, cached' \subseteq Tried,
           ~opening, ~reopen, state # "INIT", reply' = NoReply \/ reply' = reply,
           UNCHANGED <<constVars, openVars, closeCalled, index, asked>>
    PROVE  SignerInv'
<1> USE DEF SignerInv
<1>1. count \in Nat /\ foreign \subseteq Challenges
      /\ UNCHANGED <<count, foreign>> /\ Challenges' = Challenges
  BY DEF SingleTypeOK, constVars, Challenges
<1>2. /\ ReleaseInv' /\ results' \in Seq(Outcomes)
      /\ WrongData' => WrongData \/ code = "WRONG_DATA"
  BY ReportReleases
<1>3. state' # "SIGNING"
  BY DEF GoToError, GoToSuccess
<1>4. TriedInv' /\ (AllTried' <=> AllTried)
  BY <1>1, <1>3, TriedKept DEF TriedInv
<1>5. QED
  BY <1>1, <1>2, <1>4 DEF SingleTypeOK

(***************************************************************************)
(* A step that has the gnubby do something, or nothing.                    *)
(***************************************************************************)
LEMMA CommandStep ==
    ASSUME SignerInv, NEW c, ~opening, ~reopen, state # "INIT",
           \/ Command(c) /\ state' = state
           \/ Quiet /\ (state' = state \/ state' = "IDLE"),
           reply' = NoReply \/ reply' = reply,
           UNCHANGED <<constVars, openVars, closeCalled, index, cached, asked>>
    PROVE  SignerInv'
<1> USE DEF SignerInv
<1>1. count \in Nat /\ foreign \subseteq Challenges
      /\ UNCHANGED <<count, foreign>> /\ Challenges' = Challenges
  BY DEF SingleTypeOK, constVars, Challenges
<1>2. ReleaseInv' /\ UNCHANGED results
  BY CommandReleases DEF Command, Quiet
<1>3. TriedInv' /\ (AllTried' <=> AllTried)
  BY <1>1, TriedKept DEF TriedInv
<1>4. WrongData' <=> WrongData
  BY <1>2 DEF WrongData
<1>5. QED
  BY <1>1, <1>2, <1>3, <1>4 DEF SingleTypeOK

(***************************************************************************)
(* A callback of a command runs when nothing is being opened.              *)
(***************************************************************************)
LEMMA RepliedWhen ==
    ASSUME SignerInv, NEW c, Replied(c)
    PROVE  /\ ~opening /\ ~reopen /\ state # "INIT" /\ reply' = NoReply
           /\ Rc \in CommandCodes \cup {"WAIT_TOUCH", "WRONG_DATA"}
           /\ c # "sign" => Rc \in CommandCodes
           /\ index \in Nat \ {0} /\ cached \subseteq Tried
           /\ \A k \in Challenges : k < index => KeyHandle[k] \in Tried
           /\ state = "SIGNING" => index \in asked /\ index \in Challenges
  BY DEF SignerInv, ReleaseInv, TriedInv, Replied, Rc

LEMMA VersionCallbackStep == ASSUME SignerInv, VersionCallback PROVE SignerInv'
<1>1. Replied("version") /\ UNCHANGED <<constVars, openVars, expired, closeCalled>>
  BY DEF VersionCallback
<1>2. /\ ~opening /\ ~reopen /\ state # "INIT" /\ reply' = NoReply
      /\ Rc \in CommandCodes
      /\ index \in Nat \ {0} /\ cached \in SUBSET Tried
      /\ \A k \in Challenges : k < index => KeyHandle[k] \in Tried
  BY <1>1, RepliedWhen
<1>3. ASSUME NEW code \in ResultCodes, code # "WRONG_DATA", GoToError(code), UNCHANGED signVars
      PROVE  SignerInv'
  BY <1>1, <1>2, <1>3, ReportStep DEF signVars
<1>4. "TIMEOUT" \in ResultCodes /\ Rc \in ResultCodes /\ Rc # "WRONG_DATA"
  BY <1>2 DEF ResultCodes, CommandCodes
<1>5. ASSUME UNCHANGED signVars,
             \/ Command("sync_version") /\ state' = state
             \/ Quiet /\ (state' = state \/ state' = "IDLE")
      PROVE  SignerInv'
  BY <1>1, <1>2, <1>5, CommandStep DEF signVars
<1>6. ASSUME DoSign(index, cached) PROVE SignerInv'
  BY <1>1, <1>2, <1>6, DoSignStep
<1>7. QED
  BY <1>3, <1>4, <1>5, <1>6 DEF VersionCallback

LEMMA VersionSyncedStep == ASSUME SignerInv, VersionSynced PROVE SignerInv'
<1>1. /\ Replied("sync_version")
      /\ UNCHANGED <<constVars, openVars, signVars, expired, closeCalled>>
  BY DEF VersionSynced
<1>2. /\ ~opening /\ ~reopen /\ state # "INIT" /\ reply' = NoReply
      /\ Rc \in CommandCodes /\ cached \subseteq Tried
  BY <1>1, RepliedWhen
<1>3. Rc \in ResultCodes /\ Rc # "WRONG_DATA"
  BY <1>2 DEF ResultCodes, CommandCodes
<1>4. CASE GoToError(Rc)
  BY <1>1, <1>2, <1>3, <1>4, ReportStep DEF signVars
<1>5. CASE \/ Command("version") /\ state' = state
           \/ Quiet /\ state' = state
  BY <1>1, <1>2, <1>5, CommandStep DEF signVars
<1>6. QED
  BY <1>4, <1>5 DEF VersionSynced

(***************************************************************************)
(* signCallback_: the challenge at hand was put to the key.                *)
(***************************************************************************)
LEMMA SignCallbackStep == ASSUME SignerInv, SignCallback PROVE SignerInv'
<1>1. Replied("sign") /\ UNCHANGED <<constVars, openVars, expired, closeCalled>>
  BY DEF SignCallback
<1>2. /\ ~opening /\ ~reopen /\ state # "INIT" /\ reply' = NoReply
      /\ Rc \in CommandCodes \cup {"WAIT_TOUCH", "WRONG_DATA"}
      /\ index \in Nat \ {0} /\ cached \in SUBSET Tried
      /\ \A k \in Challenges : k < index => KeyHandle[k] \in Tried
      /\ state = "SIGNING" => index \in asked /\ index \in Challenges
  BY <1>1, RepliedWhen
<1>3. CASE Quiet /\ state' = state /\ UNCHANGED <<index, cached, asked>>
  BY <1>1, <1>2, <1>3, CommandStep
<1>4. CASE Rc \in {"GONE", "OK"} /\ (GoToError(Rc) \/ GoToSuccess(Rc)) /\ UNCHANGED signVars
  <2>1. Rc \in ResultCodes /\ Rc # "WRONG_DATA"
    BY <1>4 DEF ResultCodes
  <2>2. QED
    BY <1>1, <1>2, <1>4, <2>1, ReportStep DEF signVars
<1>5. CASE state = "SIGNING" /\ Command("sync_sign") /\ UNCHANGED <<state, signVars>>
  BY <1>1, <1>2, <1>5, CommandStep DEF signVars
<1>6. CASE DoSign(index, cached)
  BY <1>1, <1>2, <1>6, DoSignStep
<1>7. CASE state = "SIGNING" /\ Rc \in {"WRONG_DATA", "OTHER"} /\ Refused
  <2>1. index \in asked /\ index \in Challenges /\ KeyHandle[index] \in Tried
    BY <1>2, <1>7 DEF Tried
  <2>2. Cached \in SUBSET Tried
    BY <1>2, <2>1 DEF Cached
  <2>3. count \in Nat
    BY DEF SignerInv, SingleTypeOK
  <2>4. CASE index < count /\ DoSign(index + 1, Cached)
    <3>1. \A k \in Challenges : k < index + 1 => k < index \/ k = index
      BY <1>2, <2>3 DEF Challenges
    <3>2. \A k \in Challenges : k < index + 1 => KeyHandle[k] \in Tried
      BY <1>2, <2>1, <3>1
    <3>3. index + 1 \in Nat \ {0}
      BY <1>2
    <3>4. QED
      BY <1>1, <1>2, <2>2, <2>4, <3>2, <3>3, DoSignStep
  <2>5. CASE /\ index = count \/ (Rc \notin Invalid /\ forEnroll)
             /\ cached' = Cached
             /\ GoToSuccess(Rc) \/ GoToError(Rc)
             /\ UNCHANGED <<touch, index, asked>>
    <3>1. Rc \in ResultCodes
      BY <1>7 DEF ResultCodes
    <3>2. Rc = "WRONG_DATA" => AllTried
      <4>1. Rc = "WRONG_DATA" => index = count
        BY <2>5 DEF Invalid
      <4>2. index = count => \A k \in Challenges : k < index \/ k = index
        BY <2>3 DEF Challenges
      <4>3. QED
        BY <1>2, <2>1, <4>1, <4>2 DEF AllTried
    <3>3. QED
      BY <1>1, <1>2, <2>2, <2>5, <3>1, <3>2, ReportStep
  <2>6. QED
    BY <1>7, <2>4, <2>5 DEF Refused
<1>8. QED
  BY <1>3, <1>4, <1>5, <1>6, <1>7 DEF SignCallback, signVars

(***************************************************************************)
(* The callback of the sync that signCallback_ starts, and the timer that  *)
(* has the user asked again for a touch.                                   *)
(***************************************************************************)
LEMMA SignSyncedStep == ASSUME SignerInv, SignSynced PROVE SignerInv'
<1>1. Replied("sync_sign") /\ UNCHANGED <<constVars, openVars, expired, closeCalled>>
  BY DEF SignSynced
<1>2. /\ ~opening /\ ~reopen /\ state # "INIT" /\ reply' = NoReply
      /\ Rc \in CommandCodes
      /\ index \in Nat \ {0} /\ cached \in SUBSET Tried
      /\ \A k \in Challenges : k < index => KeyHandle[k] \in Tried
  BY <1>1, RepliedWhen
<1>3. Rc \in ResultCodes /\ Rc # "WRONG_DATA"
  BY <1>2 DEF ResultCodes, CommandCodes
<1>4. CASE GoToError(Rc) /\ UNCHANGED signVars
  BY <1>1, <1>2, <1>3, <1>4, ReportStep DEF signVars
<1>5. CASE DoSign(index, cached)
  BY <1>1, <1>2, <1>5, DoSignStep
<1>6. QED
  BY <1>4, <1>5 DEF SignSynced

LEMMA TouchTimerStep == ASSUME SignerInv, TouchTimer PROVE SignerInv'
<1>1. /\ touch /\ UNCHANGED <<constVars, openVars, reply, expired, closeCalled>>
      /\ UNCHANGED <<index, cached, asked>>
  BY DEF TouchTimer
<1>2. ~opening /\ ~reopen /\ state # "INIT" /\ cached \subseteq Tried
  BY <1>1 DEF SignerInv, ReleaseInv, TriedInv
<1>3. "TIMEOUT" \in ResultCodes /\ "TIMEOUT" # "WRONG_DATA"
  BY DEF ResultCodes
<1>4. CASE GoToError("TIMEOUT")
  BY <1>1, <1>2, <1>3, <1>4, ReportStep
<1>5. CASE \/ Command("sign") /\ state' = state
           \/ Quiet /\ state' = state
  BY <1>1, <1>2, <1>5, CommandStep
<1>6. QED
  BY <1>4, <1>5 DEF TouchTimer

(***************************************************************************)
(* A step that leaves the challenges alone.                                *)
(***************************************************************************)
LEMMA ChallengesKept ==
    ASSUME SignerInv, UNCHANGED <<constVars, signVars>>, state' = "SIGNING" => state = "SIGNING",
           reply' = NoReply \/ reply' = reply
    PROVE  TriedInv' /\ (AllTried' <=> AllTried)
<1>1. UNCHANGED <<count, foreign, asked>>
  BY DEF constVars, signVars
<1>2. QED
  BY <1>1, TriedKept DEF SignerInv, TriedInv, signVars

LEMMA StartStep == ASSUME SignerInv, Start PROVE SignerInv'
<1>1. TriedInv' /\ (AllTried' <=> AllTried)
  BY ChallengesKept DEF Start, gnubbyVars
<1>2. (Lost' <=> Lost) /\ (Handed' <=> Handed) /\ (WrongData' <=> WrongData)
  BY LostKept DEF Start
<1>3. ReleaseInv'
  BY <1>2 DEF Start, SignerInv, ReleaseInv, BeingOpened, gnubbyVars, signVars
<1>4. SingleTypeOK'
  BY DEF Start, SignerInv, SingleTypeOK, constVars, Challenges
<1>5. QED
  BY <1>1, <1>2, <1>3, <1>4 DEF SignerInv

(***************************************************************************)
(* close: while a busy gnubby is opened again, the one that comes is lost. *)
(***************************************************************************)
LEMMA OwnerClosesStep == ASSUME SignerInv, OwnerCloses PROVE SignerInv'
<1>1. /\ closeCalled = "no" /\ closeCalled' = IF opening /\ state = "BUSY" THEN "busy" ELSE "yes"
      /\ CloseSingle(state) /\ UNCHANGED <<constVars, openVars, signVars, expired, calling, results>>
  BY DEF OwnerCloses
<1>2. reply' = reply /\ (state' = "SIGNING" => state = "SIGNING")
  BY <1>1 DEF CloseSingle, gnubbyVars
<1>3. TriedInv' /\ (AllTried' <=> AllTried)
  BY <1>1, <1>2, ChallengesKept
<1>4. (Lost => Lost') /\ (Handed' <=> Handed) /\ (WrongData' <=> WrongData)
  BY <1>1 DEF Lost, Handed, WrongData
<1>5. ReleaseInv'
  <2>1. ReleaseInv /\ UNCHANGED <<opening, reopen, touch, calling, results>>
    BY <1>1 DEF SignerInv, openVars, signVars
  <2>2. CASE gnubby = "none" /\ state' = state /\ UNCHANGED gnubbyVars
    <3>1. UNCHANGED <<gnubby, device, cmd, closingWhenIdle, reply>>
      BY <2>2 DEF gnubbyVars
    <3>2. opening => state \in {"OPENING", "BUSY"}
      BY <1>1, <2>1 DEF ReleaseInv
    <3>3. QED
      BY <1>4, <2>1, <2>2, <3>1, <3>2 DEF ReleaseInv, BeingOpened
  <2>3. CASE /\ gnubby # "none" /\ cmd \in Exchanges
             /\ state' = "CLOSING" /\ closingWhenIdle' = TRUE
             /\ UNCHANGED <<gnubby, device, cmd, reply>>
    <3>1. ~opening /\ ~reopen
      BY <2>1, <2>3 DEF ReleaseInv, Exchanges
    <3>2. QED
      BY <1>4, <2>1, <2>3, <3>1 DEF ReleaseInv, BeingOpened
  <2>4. CASE /\ gnubby # "none" /\ state' = "CLOSED" /\ gnubby' = "none"
             /\ device' = IF gnubby = "attached" THEN "closed" ELSE device
             /\ cmd' = "none" /\ UNCHANGED <<closingWhenIdle, reply>>
    <3>1. opening => closeCalled' = "busy"
      BY <1>1, <2>1, <2>4 DEF ReleaseInv
    <3>2. QED
      BY <1>4, <2>1, <2>4, <3>1 DEF ReleaseInv, BeingOpened
  <2>5. QED
    BY <1>1, <2>2, <2>3, <2>4 DEF CloseSingle
<1>6. SingleTypeOK'
  BY <1>1 DEF SignerInv, SingleTypeOK, constVars, Challenges
<1>7. QED
  BY <1>3, <1>4, <1>5, <1>6 DEF SignerInv

(***************************************************************************)
(* A success hands the gnubby to the caller of completeCb_.                *)
(***************************************************************************)
LEMMA ReturnsStep == ASSUME SignerInv, Returns PROVE SignerInv'
<1> DEFINE last == results[Len(results)]
<1>1. /\ calling /\ ~calling'
      /\ gnubby' = IF last.handed /\ (forEnroll \/ last.code # "WRONG_DATA") THEN "none" ELSE gnubby
      /\ UNCHANGED <<constVars, state, openVars, device, cmd, closingWhenIdle, reply, signVars,
                     results, closeCalled>>
  BY DEF Returns
<1>2. results \in Seq(Outcomes) /\ results # <<>>
  BY <1>1 DEF SignerInv, SingleTypeOK, ReleaseInv
<1>3. Len(results) \in DOMAIN results
  <2>1. \A S : results \in Seq(S) => Len(results) \in DOMAIN results
    BY <1>2
  <2>2. QED
    BY <1>2, <2>1
<1>4. last.handed => Handed
  BY <1>3 DEF Handed
<1> HIDE DEF last
<1>5. gnubby' = gnubby \/ (gnubby' = "none" /\ Handed)
  BY <1>1, <1>4
<1>6. TriedInv' /\ (AllTried' <=> AllTried)
  BY <1>1, ChallengesKept
<1>7. (Lost' <=> Lost) /\ (Handed' <=> Handed) /\ (WrongData' <=> WrongData)
  BY <1>1, LostKept
<1>8. ReleaseInv'
  BY <1>1, <1>5, <1>7, HandedIsLost
    DEF SignerInv, ReleaseInv, BeingOpened, openVars, signVars
<1>9. SingleTypeOK'
  BY <1>1 DEF SignerInv, SingleTypeOK, constVars, Challenges
<1>10. QED
  BY <1>6, <1>7, <1>8, <1>9 DEF SignerInv

(***************************************************************************)
(* openCallback_: only while a signer waits for it does its gnubby change. *)
(***************************************************************************)
LEMMA OpenCallbackStep ==
    ASSUME SignerInv, NEW rc \in ResultCodes, NEW hasDevice \in BOOLEAN,
           rc # "WRONG_DATA", hasDevice => rc \in {"OK", "SYNC_FAILED"},
           OpenCallback(rc, hasDevice)
    PROVE  SignerInv'
<1>1. /\ opening /\ ~opening' /\ ~calling
      /\ UNCHANGED <<constVars, reply, signVars, closeCalled>>
      /\ state' = "SIGNING" => state = "SIGNING"
  BY DEF OpenCallback
<1>2. /\ cmd = "none" /\ reply = NoReply /\ ~touch /\ ~closingWhenIdle /\ gnubby # "attached"
      /\ ~reopen /\ state # "INIT"
  BY <1>1 DEF SignerInv, ReleaseInv
<1>3. TriedInv' /\ (AllTried' <=> AllTried)
  BY <1>1, ChallengesKept
<1>4. SingleTypeOK /\ ReleaseInv /\ ~touch' /\ reply' = NoReply
      /\ UNCHANGED <<count, foreign>> /\ Challenges' = Challenges
  BY <1>1, <1>2 DEF SignerInv, signVars, constVars, Challenges
<1> DEFINE Done == ReleaseInv' /\ results' \in Seq(Outcomes) /\ (WrongData' => WrongData)
<1>5. ASSUME state \notin {"OPENING", "BUSY"},
             UNCHANGED <<state, reopen, gnubby, cmd, closingWhenIdle, results, calling>>
      PROVE  Done
  <2>1. Lost /\ (Lost' <=> Lost) /\ (Handed' <=> Handed) /\ (WrongData' <=> WrongData)
    BY <1>1, <1>4, <1>5, LostKept DEF ReleaseInv, Lost
  <2>2. ReleaseInv'
    BY <1>1, <1>2, <1>4, <1>5, <2>1 DEF ReleaseInv, BeingOpened
  <2>3. QED
    BY <1>4, <1>5, <2>1, <2>2 DEF SingleTypeOK
<1>6. ASSUME state \in {"OPENING", "BUSY"},
             gnubby' = "attached", device' = "open", cmd' = "version",
             UNCHANGED <<state, reopen, closingWhenIdle, results, calling>>
      PROVE  Done
  <2>1. results = <<>> /\ (Lost' <=> Lost) /\ (Handed' <=> Handed) /\ (WrongData' <=> WrongData)
    BY <1>1, <1>4, <1>6, LostKept DEF ReleaseInv, BeingOpened
  <2>2. ReleaseInv'
    BY <1>1, <1>2, <1>4, <1>6, <2>1 DEF ReleaseInv, BeingOpened
  <2>3. QED
    BY <1>4, <1>6, <2>1, <2>2 DEF SingleTypeOK
<1>7. ASSUME state \in {"OPENING", "BUSY"},
             gnubby' = "unattached", state' = "BUSY", reopen' = TRUE,
             UNCHANGED <<device, cmd, closingWhenIdle, results, calling>>
      PROVE  Done
  <2>1. results = <<>> /\ (Lost' <=> Lost) /\ (Handed' <=> Handed) /\ (WrongData' <=> WrongData)
    BY <1>1, <1>4, <1>7, LostKept DEF ReleaseInv, BeingOpened
  <2>2. ReleaseInv'
    BY <1>1, <1>2, <1>4, <1>7, <2>1 DEF ReleaseInv, BeingOpened
  <2>3. QED
    BY <1>4, <1>7, <2>1, <2>2 DEF SingleTypeOK
<1>8. ASSUME NEW d, NEW st \in {"COMPLETE", "CLOSED"}, state \in {"OPENING", "BUSY"},
             CallsBack(rc, FALSE), gnubby' = "none", state' = st, device' = d,
             d = "open" => device = "open" \/ rc = "SYNC_FAILED",
             UNCHANGED <<reopen, cmd, closingWhenIdle>>
      PROVE  Done
  <2>1. /\ results' \in Seq(Outcomes) /\ results' # <<>>
        /\ Handed => Handed'
        /\ Lost => Lost'
        /\ rc = "SYNC_FAILED" => Lost'
        /\ WrongData' => WrongData
    BY <1>1, <1>4, <1>8, ReportAdds
  <2>2. ReleaseInv'
    BY <1>1, <1>2, <1>4, <1>8, <2>1 DEF ReleaseInv, BeingOpened
  <2>3. QED
    BY <2>1, <2>2
<1>9. Done
  <2> HIDE DEF Done
  <2>1. CASE /\ state \in {"OPENING", "BUSY"} /\ rc = "BUSY" /\ expired
             /\ CallsBack("BUSY", FALSE)
             /\ gnubby' = "none"
             /\ state' = "CLOSED"
             /\ UNCHANGED <<reopen, device, cmd, closingWhenIdle>>
    BY <1>8, <2>1
  <2>2. CASE /\ state \in {"OPENING", "BUSY"} /\ rc \notin {"OK", "BUSY"}
             /\ device' = IF hasDevice THEN "open" ELSE device
             /\ CallsBack(rc, FALSE)
             /\ state' = IF gnubby = "none" THEN "COMPLETE" ELSE "CLOSED"
             /\ gnubby' = "none"
             /\ UNCHANGED <<reopen, cmd, closingWhenIdle>>
    <3>1. device' = "open" => device = "open" \/ rc = "SYNC_FAILED"
      BY <2>2
    <3>2. state' \in {"COMPLETE", "CLOSED"}
      BY <2>2
    <3>3. QED
      BY <1>8, <2>2, <3>1, <3>2
  <2>3. QED
    BY <1>5, <1>6, <1>7, <2>1, <2>2 DEF OpenCallback
<1>10. QED
  BY <1>3, <1>4, <1>9 DEF SignerInv, SingleTypeOK

LEMMA OpenedStep == ASSUME SignerInv, Opened PROVE SignerInv'
<1>1. {"OK", "BUSY", "NODEVICE", "SYNC_FAILED"} \subseteq ResultCodes
  BY DEF ResultCodes
<1>2. QED
  BY <1>1, OpenCallbackStep DEF Opened

(***************************************************************************)
(* The timer that opens a busy gnubby again.                               *)
(***************************************************************************)
LEMMA ReopenStep == ASSUME SignerInv, Reopen PROVE SignerInv'
<1>1. /\ reopen /\ ~reopen' /\ ~calling /\ opening' = (opening \/ gnubby # "none")
      /\ UNCHANGED <<constVars, state, gnubbyVars, signVars, calling, results, closeCalled>>
  BY DEF Reopen
<1>2. /\ cmd = "none" /\ reply = NoReply /\ ~touch /\ ~closingWhenIdle /\ gnubby # "attached"
      /\ ~opening /\ (state = "BUSY" \/ gnubby = "none") /\ results = <<>> /\ state # "INIT"
  BY <1>1 DEF SignerInv, ReleaseInv
<1>3. TriedInv' /\ (AllTried' <=> AllTried)
  BY <1>1, ChallengesKept DEF gnubbyVars
<1>4. (Lost' <=> Lost) /\ (Handed' <=> Handed) /\ (WrongData' <=> WrongData)
  BY <1>1, LostKept
<1>5. opening' => state = "BUSY"
  BY <1>1, <1>2
<1>6. ReleaseInv'
  BY <1>1, <1>2, <1>4, <1>5 DEF SignerInv, ReleaseInv, BeingOpened, gnubbyVars, signVars
<1>7. SingleTypeOK'
  BY <1>1 DEF SignerInv, SingleTypeOK, constVars, Challenges
<1>8. QED
  BY <1>3, <1>4, <1>6, <1>7 DEF SignerInv

(***************************************************************************)
(* A command ends with one of its codes.                                   *)
(***************************************************************************)
LEMMA EndsStep == ASSUME SignerInv, Ends PROVE SignerInv'
<1>1. PICK rc \in Codes : CommandEnds(rc)
  BY DEF Ends
<1>2. /\ ~calling /\ cmd # "none" /\ cmd' = "none" /\ reply' = <<cmd, rc>> /\ closingWhenIdle' = FALSE
      /\ UNCHANGED <<constVars, openVars, signVars, expired, calling, results, closeCalled>>
      /\ \/ gnubby' = "none" /\ device' = "closed" /\ state' = "CLOSED"
         \/ UNCHANGED <<gnubby, device, state>>
  BY <1>1 DEF CommandEnds
<1>3. ~opening /\ ~reopen /\ state # "INIT"
  BY <1>2 DEF SignerInv, ReleaseInv
<1>4. (Lost' <=> Lost) /\ (Handed' <=> Handed) /\ (WrongData' <=> WrongData)
  BY <1>2, LostKept
<1>5. ReleaseInv'
  BY <1>2, <1>3, <1>4 DEF SignerInv, ReleaseInv, BeingOpened, openVars, signVars
<1>6. rc \in IF cmd = "sign" THEN CommandCodes \cup {"WAIT_TOUCH", "WRONG_DATA"} ELSE CommandCodes
  BY DEF Codes, CommandCodes
<1>7. UNCHANGED <<count, foreign, asked, cached, index>> /\ Challenges' = Challenges /\ Tried' = Tried
  BY <1>2 DEF constVars, signVars, Challenges, Tried
<1>8. TriedInv' /\ (AllTried' <=> AllTried)
  BY <1>2, <1>6, <1>7 DEF SignerInv, TriedInv, AllTried
<1>9. SingleTypeOK'
  BY <1>2, <1>7 DEF SignerInv, SingleTypeOK
<1>10. QED
  BY <1>4, <1>5, <1>8, <1>9 DEF SignerInv

(***************************************************************************)
(* A step that leaves alone what SignerInv speaks of.                      *)
(***************************************************************************)
LEMMA NothingStep ==
    ASSUME SignerInv,
           UNCHANGED <<constVars, state, openVars, gnubbyVars, signVars, calling, results,
                       closeCalled>>
    PROVE  SignerInv'
<1>1. TriedInv' /\ (AllTried' <=> AllTried)
  BY ChallengesKept DEF gnubbyVars
<1>2. (Lost' <=> Lost) /\ (Handed' <=> Handed) /\ (WrongData' <=> WrongData)
  BY LostKept
<1>3. ReleaseInv'
  BY <1>2 DEF SignerInv, ReleaseInv, BeingOpened, openVars, gnubbyVars, signVars
<1>4. SingleTypeOK'
  BY DEF SignerInv, SingleTypeOK, constVars, Challenges
<1>5. QED
  BY <1>1, <1>2, <1>3, <1>4 DEF SignerInv

LEMMA SignerInitHolds == SingleInit => SignerInv
<1> SUFFICES ASSUME SingleInit PROVE SignerInv
  OBVIOUS
<1>1. SingleTypeOK
  BY MaxChallengesAssumption DEF SingleInit, SingleTypeOK
<1>2. ReleaseInv
  BY DEF SingleInit, ReleaseInv, BeingOpened
<1>3. TriedInv
  BY <1>1 DEF SingleInit, TriedInv, Challenges, SingleTypeOK
<1>4. ~WrongData
  BY DEF SingleInit, WrongData
<1>5. QED
  BY <1>1, <1>2, <1>3, <1>4 DEF SignerInv

LEMMA SignerStepHolds == SignerInv /\ [SingleNext]_singleVars => SignerInv'
<1> SUFFICES ASSUME SignerInv, [SingleNext]_singleVars PROVE SignerInv'
  OBVIOUS
<1>1. CASE TimerExpires \/ UNCHANGED singleVars
  BY <1>1, NothingStep DEF TimerExpires, singleVars
<1>2. QED
  BY <1>1, StartStep, OwnerClosesStep, ReturnsStep, OpenedStep, ReopenStep, EndsStep,
     TouchTimerStep, VersionCallbackStep, VersionSyncedStep, SignCallbackStep, SignSyncedStep
     DEF SingleNext

(***************************************************************************)
(* singlesigner.js: the inductive invariant of a signer that both theorems *)
(* below follow from.                                                      *)
(***************************************************************************)
THEOREM SignerInvariant == SingleSpec => []SignerInv
  BY SignerInitHolds, SignerStepHolds, PTL DEF SingleSpec

(***************************************************************************)
(* singlesigner.js, goToError_, goToSuccess_ and close: when a signer is   *)
(* through, the gnubby it opened is closed or was handed to its owner, but *)
(* for the two that are lost.                                              *)
(***************************************************************************)
THEOREM GnubbyClosedOrHanded == SingleSpec => []GnubbyReleased
<1>1. SignerInv => GnubbyReleased
  <2> SUFFICES ASSUME SignerInv, Finished, device = "open"
               PROVE  Lost
    BY DEF GnubbyReleased, Lost
  <2>1. CASE gnubby = "attached"
    <3>1. results # <<>>
      BY <2>1 DEF SignerInv, ReleaseInv, Finished
    <3>2. QED
      BY <2>1, <3>1, HandedIsLost DEF SignerInv, ReleaseInv
  <2>2. QED
    BY <2>1 DEF SignerInv, ReleaseInv
<1>2. QED
  BY <1>1, SignerInvariant, PTL

(***************************************************************************)
(* singlesigner.js, doSign_ and signCallback_: a key is reported not to    *)
(* know any challenge only when every one was put to it, or was for another*)
(* version, or shares a key handle with such, however many there are.      *)
(***************************************************************************)
THEOREM EveryChallengeTried == SingleSpec => []NoneSkipped
<1>1. SignerInv => NoneSkipped
  <2> SUFFICES ASSUME SignerInv, WrongData
               PROVE  \A i \in Challenges :
                        \E j \in asked \cup foreign : KeyHandle[i] = KeyHandle[j]
    BY DEF NoneSkipped, WrongData
  <2>1. AllTried
    BY DEF SignerInv
  <2>2. QED
    BY <2>1 DEF AllTried, Tried
<1>2. QED
  BY <1>1, SignerInvariant, PTL
=============================================================================

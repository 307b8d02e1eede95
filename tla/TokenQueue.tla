----------------------------- MODULE TokenQueue -----------------------------
(***************************************************************************)
(* What a RequestQueue (requestqueue.js) promises its callers, without the *)
(* linked list it is built from.  Requests get tokens 1, 2, 3, ... in the  *)
(* order they are queued, so the set of tokens still in the queue is the   *)
(* queue: its head is the smallest member and the token behind t is the    *)
(* smallest member above t.                                                *)
(*                                                                         *)
(* A token leaves the queue when its owner calls complete(), when it is    *)
(* cancelled, or when the clone of the request's timer fires.  Any of the  *)
(* three may happen to a token anywhere in the queue.                      *)
(***************************************************************************)
EXTENDS Naturals

CONSTANT MaxTokens      \* bound on the number of requests queued in a run

ASSUME MaxTokensAssumption == MaxTokens \in Nat

VARIABLES
    lastId,         \* RequestQueue.id_: the newest token
    completed,      \* tokens whose completed_ is set
    starting,       \* tokens with a setTimeout(0) of queueRequest outstanding
    timers,         \* tokens whose clone of the request timer is running
    begins,         \* how many times each token's beginCb has been called
    overtaken       \* history: some token behind another was completed first

vars == <<lastId, completed, starting, timers, begins, overtaken>>

Tokens == 1..MaxTokens
Issued == 1..lastId

(***************************************************************************)
(* Tokens still linked into the list.                                      *)
(***************************************************************************)
Members == Issued \ completed

IsHead(t) == t \in Members /\ \A u \in Members : t <= u

IsNext(t, u) ==
    /\ t \in Members /\ u \in Members
    /\ t < u
    /\ \A v \in Members : v <= t \/ u <= v

Init ==
    /\ lastId = 0
    /\ completed = {}
    /\ starting = {}
    /\ timers = {}
    /\ begins = [t \in Tokens |-> 0]
    /\ overtaken = FALSE

(***************************************************************************)
(* Seeded fault: every request is scheduled to start.                      *)
(***************************************************************************)
QueueRequestStartsAll(armed) ==
    /\ lastId < MaxTokens
    /\ lastId' = lastId + 1
    /\ starting' = starting \cup {lastId + 1}
    /\ timers' = IF armed THEN timers \cup {lastId + 1} ELSE timers
    /\ UNCHANGED <<completed, begins, overtaken>>

(***************************************************************************)
(* queueRequest.  A countdown that has already expired (armed = FALSE)     *)
(* yields a clone that never fires: CountdownTimer.setTimeout arms nothing *)
(* for zero milliseconds.                                                  *)
(***************************************************************************)
QueueRequest(armed) ==
    /\ lastId < MaxTokens
    /\ lastId' = lastId + 1
    /\ starting' = IF Members = {} THEN starting \cup {lastId + 1} ELSE starting
    /\ timers' = IF armed THEN timers \cup {lastId + 1} ELSE timers
    /\ UNCHANGED <<completed, begins, overtaken>>

(***************************************************************************)
(* The setTimeout(0) of a request that found the queue empty.              *)
(***************************************************************************)
StartNow(t) ==
    /\ t \in starting
    /\ starting' = starting \ {t}
    /\ begins' = IF t \in completed THEN begins
                 ELSE [begins EXCEPT ![t] = @ + 1]
    /\ UNCHANGED <<lastId, completed, timers, overtaken>>

(***************************************************************************)
(* The token's completion proper: unlink it and begin the one behind it.   *)
(***************************************************************************)
Remove(t) ==
    /\ completed' = completed \cup {t}
    /\ overtaken' = (overtaken \/ ~IsHead(t))
    /\ \/ \E u \in Members : /\ IsNext(t, u)
                             /\ begins' = [begins EXCEPT ![u] = @ + 1]
       \/ /\ \A u \in Members : u <= t
          /\ UNCHANGED begins
    /\ UNCHANGED <<lastId, starting>>

Complete(t) ==
    /\ t \in Members
    /\ Remove(t)
    /\ UNCHANGED timers

TimerFires(t) ==
    /\ t \in timers
    /\ timers' = timers \ {t}
    /\ \/ t \in Members /\ Remove(t)
       \/ t \in completed /\ UNCHANGED <<lastId, completed, starting, begins, overtaken>>

Next ==
    \/ \E armed \in BOOLEAN : QueueRequest(armed)
    \/ \E t \in Tokens : StartNow(t)
    \/ \E t \in Tokens : Complete(t)
    \/ \E t \in Tokens : TimerFires(t)

(***************************************************************************)
(* Timers fire, and a request that has been begun is eventually completed  *)
(* by its owner: the sign helper reports an outcome before its own timeout.*)
(* Nothing makes an owner complete a request that was never begun.         *)
(***************************************************************************)
Fairness ==
    \A t \in Tokens :
        /\ WF_vars(StartNow(t))
        /\ WF_vars(TimerFires(t))
        /\ WF_vars(Complete(t) /\ begins[t] > 0)

Spec == Init /\ [][Next]_vars
FairSpec == Spec /\ Fairness
-----------------------------------------------------------------------------
TypeOK ==
    /\ lastId \in 0..MaxTokens
    /\ completed \subseteq Issued
    /\ starting \subseteq Issued
    /\ timers \subseteq Issued
    /\ begins \in [Tokens -> Nat]
    /\ overtaken \in BOOLEAN

(***************************************************************************)
(* The queue never stalls: the request at the head has been begun or its   *)
(* start is scheduled, whatever order tokens were completed in.  complete()*)
(* begins the token behind the one it removes and nobody else ever begins  *)
(* a queued request, so one missed start would strand every later request. *)
(***************************************************************************)
HeadStarted ==
    \A t \in Members : IsHead(t) => begins[t] > 0 \/ t \in starting

(***************************************************************************)
(* As long as tokens are completed in queue order the queue serialises its *)
(* requests: only the head has been begun, and only once.                  *)
(***************************************************************************)
SerialService ==
    ~overtaken =>
        \A t \in Members : /\ begins[t] > 0 => IsHead(t)
                           /\ begins[t] <= 1
                           /\ t \in starting => begins[t] = 0

(***************************************************************************)
(* A request is never begun again after it was completed: neither the      *)
(* pending setTimeout(0) nor a late complete() of its predecessor revives  *)
(* it.                                                                     *)
(***************************************************************************)
NoLateBegin ==
    [][\A t \in Tokens : t \in completed => begins'[t] = begins[t]]_vars

(***************************************************************************)
(* No request is stranded: one that is queued is eventually begun or       *)
(* removed.                                                                *)
(***************************************************************************)
EventuallyServed ==
    \A t \in Tokens : t \in Members ~> (begins[t] > 0 \/ t \in completed)
=============================================================================

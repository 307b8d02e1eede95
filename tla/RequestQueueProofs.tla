------------------------- MODULE RequestQueueProofs -------------------------
(***************************************************************************)
(* TokenQueue's safety properties, and then that the linked list of        *)
(* requestqueue.js is well linked after every sequence of operations and   *)
(* implements TokenQueue, for every bound MaxTokens.                       *)
(***************************************************************************)
EXTENDS RequestQueue, Integers, TLAPS

USE MaxTokensAssumption DEF MaxTokensAssumption

(***************************************************************************)
(* Every step of the queue keeps its state well typed: completed tokens,   *)
(* pending starts and running timers all belong to issued tokens.          *)
(***************************************************************************)
LEMMA TypeStep == ASSUME TypeOK, [Next]_vars PROVE TypeOK'
<1> USE DEF TypeOK, Tokens, Issued
<1>1. ASSUME NEW armed \in BOOLEAN, QueueRequest(armed) PROVE TypeOK'
  BY <1>1 DEF QueueRequest, Members
<1>2. ASSUME NEW t \in Tokens, StartNow(t) PROVE TypeOK'
  BY <1>2 DEF StartNow
<1>3. ASSUME NEW t \in Members, Remove(t), timers' \subseteq timers
      PROVE TypeOK'
  <2>1. begins' \in [Tokens -> Nat]
    BY <1>3 DEF Remove, Members
  <2>2. QED
    BY <1>3, <2>1 DEF Remove, Members
<1>4. ASSUME NEW t \in Tokens, Complete(t) PROVE TypeOK'
  BY <1>3, <1>4 DEF Complete
<1>5. ASSUME NEW t \in Tokens, TimerFires(t) PROVE TypeOK'
  <2>1. CASE t \in Members /\ Remove(t)
    BY <1>3, <1>5, <2>1 DEF TimerFires
  <2>2. CASE t \in completed
               /\ UNCHANGED <<lastId, completed, starting, begins, overtaken>>
    BY <1>5, <2>2 DEF TimerFires
  <2>3. QED
    BY <1>5, <2>1, <2>2 DEF TimerFires
<1>6. CASE UNCHANGED vars
  BY <1>6 DEF vars
<1>7. QED
  BY <1>1, <1>2, <1>4, <1>5, <1>6 DEF Next

(***************************************************************************)
(* The queue's state is well typed in every reachable state.               *)
(***************************************************************************)
THEOREM TypeCorrect == Spec => []TypeOK
<1>1. Init => TypeOK
  <2>1. MaxTokens \in Nat
    OBVIOUS
  <2>2. Init => lastId \in 0..MaxTokens
    BY <2>1 DEF Init
  <2>3. Init => begins \in [Tokens -> Nat]
    BY DEF Init
  <2>4. QED
    BY <2>2, <2>3 DEF Init, TypeOK, Tokens, Issued
<1>2. TypeOK /\ [Next]_vars => TypeOK'
  BY TypeStep
<1>3. QED
  BY <1>1, <1>2, PTL DEF Spec

(***************************************************************************)
(* Completing a token keeps the head started: if the head stays, so does   *)
(* its start; if the head is the one removed, the token behind it is begun *)
(* by the same step.                                                       *)
(***************************************************************************)
LEMMA RemoveKeepsHeadStarted ==
  ASSUME TypeOK, HeadStarted, NEW t \in Members, Remove(t)
  PROVE  HeadStarted'
<1> USE DEF TypeOK, Tokens, Issued, Members
<1> SUFFICES ASSUME NEW h \in Members', IsHead(h)'
             PROVE  (begins[h] > 0 \/ h \in starting)'
  BY DEF HeadStarted
<1>1. /\ lastId' = lastId /\ starting' = starting
      /\ completed' = completed \cup {t}
      /\ Members' = Members \ {t} /\ h \in Members /\ h # t
  BY DEF Remove
<1>2. \A u \in Tokens : begins'[u] \in Nat /\ begins'[u] >= begins[u]
  BY DEF Remove
<1>3. CASE IsHead(h)
  BY <1>1, <1>2, <1>3 DEF HeadStarted
<1>4. CASE ~IsHead(h)
  <2>1. t < h /\ (\A v \in Members : v <= t \/ h <= v)
    BY <1>1, <1>4 DEF IsHead
  <2>2. PICK u \in Members : /\ IsNext(t, u)
                             /\ begins' = [begins EXCEPT ![u] = @ + 1]
    BY <1>1, <2>1 DEF Remove
  <2>3. u = h
    BY <1>1, <2>1, <2>2 DEF IsNext
  <2>4. QED
    BY <1>1, <2>2, <2>3
<1>5. QED
  BY <1>3, <1>4

(***************************************************************************)
(* The queue never stalls, for any number of requests and any order of     *)
(* completions, cancellations and timer firings.                           *)
(***************************************************************************)
THEOREM NeverStalls == Spec => []HeadStarted
<1>1. Init => HeadStarted
  BY DEF Init, HeadStarted, Members, Issued
<1>2. TypeOK /\ HeadStarted /\ [Next]_vars => HeadStarted'
  <2> SUFFICES ASSUME TypeOK, HeadStarted, [Next]_vars PROVE HeadStarted'
    OBVIOUS
  <2>1. ASSUME NEW armed \in BOOLEAN, QueueRequest(armed) PROVE HeadStarted'
    <3> USE DEF TypeOK, Tokens, Issued, Members
    <3>1. Members' = Members \cup {lastId + 1} /\ begins' = begins
      BY <2>1 DEF QueueRequest
    <3>2. CASE Members = {}
      BY <2>1, <3>1, <3>2 DEF QueueRequest, HeadStarted
    <3>3. CASE Members # {}
      <4>1. ASSUME NEW h \in Members', IsHead(h)'
            PROVE  h \in Members /\ IsHead(h)
        <5>1. PICK m \in Members : m < lastId + 1
          BY <3>3
        <5>2. h # lastId + 1
          BY <3>1, <4>1, <5>1 DEF IsHead
        <5>3. QED
          BY <3>1, <4>1, <5>2 DEF IsHead
      <4>2. QED
        BY <2>1, <3>1, <3>3, <4>1 DEF QueueRequest, HeadStarted
    <3>4. QED
      BY <3>2, <3>3
  <2>2. ASSUME NEW t \in Tokens, StartNow(t) PROVE HeadStarted'
    <3> USE DEF TypeOK, Tokens, Issued, Members
    <3>1. Members' = Members /\ (\A h \in Members : IsHead(h)' <=> IsHead(h))
      BY <2>2 DEF StartNow, IsHead
    <3>2. ASSUME NEW h \in Members, begins[h] > 0 \/ h \in starting
          PROVE  (begins[h] > 0 \/ h \in starting)'
      BY <2>2, <3>2 DEF StartNow
    <3>3. QED
      BY <3>1, <3>2 DEF HeadStarted
  <2>3. ASSUME NEW t \in Tokens, Complete(t) PROVE HeadStarted'
    BY <2>3, RemoveKeepsHeadStarted DEF Complete
  <2>4. ASSUME NEW t \in Tokens, TimerFires(t) PROVE HeadStarted'
    <3>1. CASE t \in Members /\ Remove(t)
      BY <3>1, RemoveKeepsHeadStarted
    <3>2. CASE UNCHANGED <<lastId, completed, starting, begins, overtaken>>
      BY <3>2 DEF HeadStarted, IsHead, Members, Issued
    <3>3. QED
      BY <2>4, <3>1, <3>2 DEF TimerFires
  <2>5. CASE UNCHANGED vars
    BY <2>5 DEF vars, HeadStarted, IsHead, Members, Issued
  <2>6. QED
    BY <2>1, <2>2, <2>3, <2>4, <2>5 DEF Next
<1>3. QED
  BY <1>1, <1>2, TypeCorrect, PTL DEF Spec

(***************************************************************************)
(* SerialService is not inductive alone: a token that has been begun and   *)
(* is at the head must not still be scheduled to start, and tokens not yet *)
(* issued have not been begun.                                             *)
(***************************************************************************)
SerialInv ==
    /\ SerialService
    /\ ~overtaken => \A t \in Members : t \in starting => IsHead(t)
    /\ \A t \in Tokens \ Issued : begins[t] = 0

(***************************************************************************)
(* Completing a token keeps service serial: when it was the head, the one  *)
(* token begun is the new head and had not been begun before.              *)
(***************************************************************************)
LEMMA RemoveKeepsSerial ==
  ASSUME TypeOK, SerialInv, NEW t \in Members, Remove(t)
  PROVE  SerialInv'
<1> USE DEF TypeOK, Tokens, Issued, Members
<1>1. /\ lastId' = lastId /\ starting' = starting
      /\ completed' = completed \cup {t}
      /\ Members' = Members \ {t}
  BY DEF Remove
<1>2. \A u \in (Tokens \ Issued)' : begins'[u] = 0
  BY <1>1 DEF Remove, SerialInv
<1>3. CASE overtaken'
  BY <1>2, <1>3 DEF SerialInv, SerialService
<1>4. CASE ~overtaken'
  <2>1. IsHead(t) /\ ~overtaken
    BY <1>4 DEF Remove
  <2>2. \A u \in Members : u # t => begins[u] = 0 /\ u \notin starting
    BY <2>1 DEF SerialInv, SerialService, IsHead
  <2>3. CASE \A u \in Members : u <= t
    BY <1>1, <1>2, <2>1, <2>3 DEF IsHead, SerialInv, SerialService
  <2>4. CASE \E u \in Members : /\ IsNext(t, u)
                                /\ begins' = [begins EXCEPT ![u] = @ + 1]
    <3>1. PICK u \in Members : /\ IsNext(t, u)
                               /\ begins' = [begins EXCEPT ![u] = @ + 1]
      BY <2>4
    <3>2. IsHead(u)'
      BY <1>1, <2>1, <3>1 DEF IsHead, IsNext
    <3>3. begins'[u] = 1 /\ (\A v \in Members : v # u /\ v # t => begins'[v] = 0)
      BY <2>2, <3>1 DEF IsNext
    <3>4. QED
      BY <1>1, <1>2, <2>2, <3>2, <3>3 DEF SerialInv, SerialService
  <2>5. QED
    BY <2>3, <2>4 DEF Remove
<1>5. QED
  BY <1>3, <1>4

(***************************************************************************)
(* While tokens are completed in queue order, only the head of the queue   *)
(* is ever in service, and it is begun once.                               *)
(***************************************************************************)
THEOREM ServesSerially == Spec => []SerialService
<1>1. Init => SerialInv
  BY DEF Init, SerialInv, SerialService, Members, Issued, Tokens
<1>2. TypeOK /\ SerialInv /\ [Next]_vars => SerialInv'
  <2> SUFFICES ASSUME TypeOK, SerialInv, [Next]_vars PROVE SerialInv'
    OBVIOUS
  <2>1. ASSUME NEW armed \in BOOLEAN, QueueRequest(armed) PROVE SerialInv'
    <3> USE DEF TypeOK, Tokens, Issued, Members
    <3>1. /\ Members' = Members \cup {lastId + 1}
          /\ begins' = begins /\ overtaken' = overtaken
          /\ begins[lastId + 1] = 0
          /\ \A t \in (Tokens \ Issued)' : begins'[t] = 0
      BY <2>1 DEF QueueRequest, SerialInv
    <3>2. \A t \in Members : IsHead(t) => IsHead(t)'
      BY <3>1 DEF IsHead
    <3>3. CASE Members = {}
      <4>1. Members' = {lastId + 1}
        BY <3>1, <3>3
      <4>2. \A t \in Members' : IsHead(t)' /\ begins'[t] = 0
        BY <3>1, <4>1 DEF IsHead
      <4>3. QED
        BY <3>1, <4>2 DEF SerialInv, SerialService
    <3>4. CASE Members # {}
      BY <2>1, <3>1, <3>2, <3>4 DEF QueueRequest, SerialInv, SerialService
    <3>5. QED
      BY <3>3, <3>4
  <2>2. ASSUME NEW t \in Tokens, StartNow(t) PROVE SerialInv'
    <3> USE DEF TypeOK, Tokens, Issued, Members
    <3>1. /\ Members' = Members /\ lastId' = lastId /\ overtaken' = overtaken
          /\ \A h \in Members : IsHead(h)' <=> IsHead(h)
      BY <2>2 DEF StartNow, IsHead
    <3>2. CASE t \in completed
      BY <2>2, <3>1, <3>2 DEF StartNow, SerialInv, SerialService
    <3>3. CASE t \notin completed
      BY <2>2, <3>1, <3>3 DEF StartNow, SerialInv, SerialService
    <3>4. QED
      BY <3>2, <3>3
  <2>3. ASSUME NEW t \in Tokens, Complete(t) PROVE SerialInv'
    BY <2>3, RemoveKeepsSerial DEF Complete
  <2>4. ASSUME NEW t \in Tokens, TimerFires(t) PROVE SerialInv'
    <3>1. CASE t \in Members /\ Remove(t)
      BY <3>1, RemoveKeepsSerial
    <3>2. CASE UNCHANGED <<lastId, completed, starting, begins, overtaken>>
      BY <3>2 DEF SerialInv, SerialService, IsHead, Members, Issued
    <3>3. QED
      BY <2>4, <3>1, <3>2 DEF TimerFires
  <2>5. CASE UNCHANGED vars
    BY <2>5 DEF vars, SerialInv, SerialService, IsHead, Members, Issued
  <2>6. QED
    BY <2>1, <2>2, <2>3, <2>4, <2>5 DEF Next
<1>3. SerialInv => SerialService
  BY DEF SerialInv
<1>4. QED
  BY <1>1, <1>2, <1>3, TypeCorrect, PTL DEF Spec

(***************************************************************************)
(* No completed request is ever begun again.                               *)
(***************************************************************************)
THEOREM NeverBegunLate == Spec => NoLateBegin
<1>1. TypeOK /\ [Next]_vars
        => [\A t \in Tokens : t \in completed => begins'[t] = begins[t]]_vars
  <2> SUFFICES ASSUME TypeOK, Next, NEW t \in Tokens, t \in completed
               PROVE  begins'[t] = begins[t]
    BY DEF vars
  <2> USE DEF TypeOK, Tokens, Issued, Members
  <2>1. ASSUME NEW s \in Members, Remove(s) PROVE begins'[t] = begins[t]
    BY <2>1 DEF Remove
  <2>2. QED
    BY <2>1 DEF Next, QueueRequest, StartNow, Complete, TimerFires
<1>2. QED
  BY <1>1, TypeCorrect, PTL DEF Spec, NoLateBegin
-----------------------------------------------------------------------------
USE DEF Tokens, NoToken

(***************************************************************************)
(* The inductive invariant: the links are right, so nothing ever threw.    *)
(***************************************************************************)
ListInv == ListTypeOK /\ WellLinked /\ NeverThrows

In == Members

(***************************************************************************)
(* u comes just after r among the tokens Q.                                *)
(***************************************************************************)
Follows(Q, r, u) ==
    /\ r \in Q /\ u \in Q /\ r < u
    /\ \A v \in Q : v <= r \/ u <= v

(***************************************************************************)
(* A token has one predecessor and one successor.                          *)
(***************************************************************************)
LEMMA FollowsUnique ==
  ASSUME NEW Q \in SUBSET Int, NEW r \in Q, NEW u \in Q, NEW v \in Q
  PROVE  /\ Follows(Q, r, v) /\ Follows(Q, u, v) => r = u
         /\ Follows(Q, v, r) /\ Follows(Q, v, u) => r = u
<1>1. r \in Int /\ u \in Int /\ v \in Int
  OBVIOUS
<1>2. QED
  BY <1>1 DEF Follows

(***************************************************************************)
(* Taking out a token joins its neighbours, as removeToken_ does.          *)
(***************************************************************************)
LEMMA FollowsJoin ==
  ASSUME NEW Q \in SUBSET Int, NEW r \in Q, NEW u \in Q, NEW v \in Q,
         Follows(Q, r, u), Follows(Q, u, v)
  PROVE  Follows(Q \ {u}, r, v)
<1>1. r \in Int /\ u \in Int /\ v \in Int
  OBVIOUS
<1>2. r < v /\ r # u /\ v # u
  BY <1>1 DEF Follows
<1>3. ASSUME NEW w \in Q \ {u} PROVE w <= r \/ v <= w
  <2>1. w \in Int /\ w # u /\ (w <= r \/ u <= w) /\ (w <= u \/ v <= w)
    BY DEF Follows
  <2>2. QED
    BY <1>1, <2>1
<1>4. QED
  BY <1>2, <1>3 DEF Follows

(***************************************************************************)
(* The tokens in the list are those queued and not completed.              *)
(***************************************************************************)
LEMMA InDef == In = 1..lastId \ completed
  BY DEF In, Members, Issued

(***************************************************************************)
(* IsNext, the token RequestQueue.complete begins, is Follows among In.    *)
(***************************************************************************)
LEMMA IsNextDef ==
  \A t, u : IsNext(t, u) <=> Follows(In, t, u)
  BY DEF In, IsNext, Follows

(***************************************************************************)
(* The head of the list is the oldest token of In.                         *)
(***************************************************************************)
LEMMA IsHeadDef ==
  \A t : IsHead(t) <=> t \in In /\ \A u \in In : t <= u
  BY DEF In, IsHead

(***************************************************************************)
(* What the links of a token in the list say about its neighbours.         *)
(***************************************************************************)
LEMMA Links ==
  ASSUME ListInv, NEW t \in In
  PROVE  /\ t \in 1..lastId /\ head \in In /\ tail \in In
         /\ head <= t /\ t <= tail
         /\ next[t] = 0 <=> t = tail
         /\ prev[t] = 0 <=> t = head
         /\ t # tail => IsNext(t, next[t]) /\ next[t] \in In
         /\ t # head => IsNext(prev[t], t) /\ prev[t] \in In
<1>1. In # {} /\ In \subseteq 1..lastId
  BY InDef
<1>2. /\ head \in In /\ tail \in In /\ head <= t /\ t <= tail
      /\ t = tail => next[t] = 0
      /\ t # tail => IsNext(t, next[t])
      /\ t = head => prev[t] = 0
      /\ t # head => IsNext(prev[t], t)
  BY <1>1 DEF ListInv, WellLinked, In
<1>3. lastId \in Nat /\ t \in 1..lastId
  BY <1>1 DEF ListInv, ListTypeOK
<1>4. t # tail => next[t] \in In
  BY <1>2, IsNextDef DEF Follows
<1>5. next[t] = 0 <=> t = tail
  BY <1>1, <1>2, <1>3, <1>4
<1>6. t # head => prev[t] \in In
  BY <1>2, IsNextDef DEF Follows
<1>7. prev[t] = 0 <=> t = head
  BY <1>1, <1>2, <1>3, <1>6
<1>8. QED
  BY <1>1, <1>2, <1>3, <1>4, <1>5, <1>6, <1>7

(***************************************************************************)
(* What removeToken_ computes, its cases on head_ and tail_ folded away.   *)
(***************************************************************************)
LEMMA RemoveEffect ==
  ASSUME ListInv, NEW t \in In, RemoveToken(t)
  PROVE  /\ head' = IF head = t THEN next[t] ELSE head
         /\ tail' = IF tail = t THEN prev[t] ELSE tail
         /\ prev' = [s \in Tokens |-> IF s = t THEN 0
                                      ELSE IF s = next[t] THEN prev[t] ELSE prev[s]]
         /\ next' = [s \in Tokens |-> IF s = t THEN 0
                                      ELSE IF s = prev[t] THEN next[t] ELSE next[s]]
         /\ threw' = FALSE
<1>1. /\ prev \in [Tokens -> 0..lastId] /\ next \in [Tokens -> 0..lastId]
      /\ t \in Tokens /\ lastId \in 0..MaxTokens /\ threw = FALSE
  <2>1. t \in 1..lastId
    BY Links
  <2>2. QED
    BY <2>1 DEF ListInv, ListTypeOK, NeverThrows
<1>2. /\ next[t] = 0 <=> t = tail
      /\ prev[t] = 0 <=> t = head
  BY Links
<1>3. next[t] # t /\ prev[t] # t
  <2>1. t # tail => t < next[t]
    BY Links, IsNextDef DEF Follows
  <2>2. t # head => prev[t] < t
    BY Links, IsNextDef DEF Follows
  <2>3. QED
    BY <1>1, <1>2, <2>1, <2>2
<1>4. next[t] \in 0..lastId /\ prev[t] \in 0..lastId /\ 0 \notin Tokens
  BY <1>1
<1>5. head' = IF head = t THEN next[t] ELSE head
  BY <1>2 DEF RemoveToken
<1>6. tail' = IF tail = t THEN prev[t] ELSE tail
  BY <1>2 DEF RemoveToken
<1>7. prev' = [s \in Tokens |-> IF s = t THEN 0
                                ELSE IF s = next[t] THEN prev[t] ELSE prev[s]]
  <2> DEFINE only  == head = t /\ tail = t
             prev1 == IF next[t] # 0 THEN [prev EXCEPT ![next[t]] = prev[t]] ELSE prev
             prev2 == IF head = t /\ ~only THEN [prev1 EXCEPT ![next[t]] = 0] ELSE prev1
  <2>1. prev' = [prev2 EXCEPT ![t] = 0]
    BY DEF RemoveToken
  <2>2. prev1 = [s \in Tokens |-> IF s = next[t] THEN prev[t] ELSE prev[s]]
    BY <1>1, <1>4
  <2>3. prev2 = prev1
    BY <1>1, <1>2, <1>4, <2>2
  <2>4. QED
    BY <1>1, <2>1, <2>2, <2>3
<1>8. next' = [s \in Tokens |-> IF s = t THEN 0
                                ELSE IF s = prev[t] THEN next[t] ELSE next[s]]
  <2> DEFINE only  == head = t /\ tail = t
             next1 == IF prev[t] # 0 THEN [next EXCEPT ![prev[t]] = next[t]] ELSE next
             next2 == IF tail = t /\ ~only THEN [next1 EXCEPT ![prev[t]] = 0] ELSE next1
  <2>1. next' = [next2 EXCEPT ![t] = 0]
    BY DEF RemoveToken
  <2>2. next1 = [s \in Tokens |-> IF s = prev[t] THEN next[t] ELSE next[s]]
    BY <1>1, <1>4
  <2>3. next2 = next1
    BY <1>1, <1>2, <1>4, <2>2
  <2>4. QED
    BY <1>1, <2>1, <2>2, <2>3
<1>9. threw' = FALSE
  BY <1>1, <1>2 DEF RemoveToken
<1>10. QED
  BY <1>5, <1>6, <1>7, <1>8, <1>9

(***************************************************************************)
(* Removing a token anywhere in the list leaves the others well linked.    *)
(***************************************************************************)
LEMMA RemoveKeepsLinks ==
  ASSUME ListInv, NEW t \in In, RemoveToken(t),
         lastId' = lastId, completed' = completed \cup {t}
  PROVE  /\ WellLinked' /\ NeverThrows'
         /\ head' \in 0..lastId /\ tail' \in 0..lastId
         /\ prev' \in [Tokens -> 0..lastId] /\ next' \in [Tokens -> 0..lastId]
<1>1. /\ In' = In \ {t} /\ In \subseteq 1..lastId /\ 1..lastId \subseteq Tokens
      /\ lastId \in 0..MaxTokens
  <2>1. In' = (1..lastId \ completed)'
    BY DEF In, Members, Issued
  <2>2. QED
    BY <2>1, InDef DEF ListInv, ListTypeOK
<1>2. /\ prev \in [Tokens -> 0..lastId] /\ next \in [Tokens -> 0..lastId]
      /\ head \in 0..lastId /\ tail \in 0..lastId
  BY DEF ListInv, ListTypeOK
<1>3. In \subseteq Int /\ 0 \notin In
  BY <1>1
<1>4. /\ head' = IF head = t THEN next[t] ELSE head
      /\ tail' = IF tail = t THEN prev[t] ELSE tail
      /\ \A s \in Tokens :
           /\ prev'[s] = (IF s = t THEN 0 ELSE IF s = next[t] THEN prev[t] ELSE prev[s])
           /\ next'[s] = (IF s = t THEN 0 ELSE IF s = prev[t] THEN next[t] ELSE next[s])
      /\ threw' = FALSE
  <2>1. /\ prev' = [s \in Tokens |-> IF s = t THEN 0
                        ELSE IF s = next[t] THEN prev[t] ELSE prev[s]]
        /\ next' = [s \in Tokens |-> IF s = t THEN 0
                        ELSE IF s = prev[t] THEN next[t] ELSE next[s]]
        /\ head' = IF head = t THEN next[t] ELSE head
        /\ tail' = IF tail = t THEN prev[t] ELSE tail
        /\ threw' = FALSE
    BY RemoveEffect
  <2>2. \A s \in Tokens :
          prev'[s] = IF s = t THEN 0 ELSE IF s = next[t] THEN prev[t] ELSE prev[s]
    BY <2>1
  <2>3. \A s \in Tokens :
          next'[s] = IF s = t THEN 0 ELSE IF s = prev[t] THEN next[t] ELSE next[s]
    BY <2>1
  <2>4. QED
    BY <2>1, <2>2, <2>3
<1>5. \A s \in In :
        /\ s \in 1..lastId /\ head \in In /\ tail \in In
        /\ head <= s /\ s <= tail
        /\ next[s] = 0 <=> s = tail
        /\ prev[s] = 0 <=> s = head
        /\ s # tail => Follows(In, s, next[s])
        /\ s # head => Follows(In, prev[s], s)
  BY Links, IsNextDef
<1>6. /\ In' = {} => head' = 0 /\ tail' = 0
      /\ In' # {} => head' \in In' /\ tail' \in In'
  <2>1. CASE In' = {}
    <3>1. head = t /\ tail = t
      <4>1. In = {t}
        BY <1>1, <2>1
      <4>2. QED
        BY <1>5, <4>1
    <3>2. QED
      BY <1>4, <1>5, <2>1, <3>1
  <2>2. CASE In' # {}
    <3>1. PICK s \in In : s # t
      BY <1>1, <2>2
    <3>2. head' \in In'
      <4>1. t = head => t # tail
        BY <1>3, <1>5, <3>1
      <4>2. t = head => next[t] \in In \ {t}
        BY <1>3, <1>5, <4>1 DEF Follows
      <4>3. QED
        BY <1>1, <1>4, <1>5, <4>2
    <3>3. tail' \in In'
      <4>1. t = tail => t # head
        BY <1>3, <1>5, <3>1
      <4>2. t = tail => prev[t] \in In \ {t}
        BY <1>3, <1>5, <4>1 DEF Follows
      <4>3. QED
        BY <1>1, <1>4, <1>5, <4>2
    <3>4. QED
      BY <2>2, <3>2, <3>3
  <2>3. QED
    BY <2>1, <2>2
<1>7. ASSUME NEW s \in In, s # t
      PROVE  /\ head' <= s /\ s <= tail'
             /\ s = tail' => next'[s] = 0
             /\ s # tail' => Follows(In \ {t}, s, next'[s])
             /\ s = head' => prev'[s] = 0
             /\ s # head' => Follows(In \ {t}, prev'[s], s)
  <2>1. head' <= s /\ s <= tail'
    <3>1. t = head => next[t] <= s
      <4>1. t = head => t < s
        BY <1>3, <1>5, <1>7
      <4>2. t = head => t # tail
        BY <1>3, <1>5, <1>7, <4>1
      <4>3. QED
        BY <1>3, <1>5, <4>1, <4>2 DEF Follows
    <3>2. t = tail => s <= prev[t]
      <4>1. t = tail => s < t
        BY <1>3, <1>5, <1>7
      <4>2. t = tail => t # head
        BY <1>3, <1>5, <1>7, <4>1
      <4>3. QED
        BY <1>3, <1>5, <4>1, <4>2 DEF Follows
    <3>3. QED
      BY <1>4, <1>5, <3>1, <3>2
  <2>2. ASSUME s = prev[t]
        PROVE  /\ s = tail' => next'[s] = 0
               /\ s # tail' => Follows(In \ {t}, s, next'[s])
    <3>1. t # head /\ s < t /\ next'[s] = next[t]
      <4>1. t # head
        BY <1>3, <1>5, <2>2
      <4>2. s < t
        BY <1>5, <2>2, <4>1 DEF Follows
      <4>3. QED
        BY <1>1, <1>4, <1>7, <2>2, <4>1, <4>2
    <3>2. CASE t = tail
      BY <1>4, <1>5, <2>2, <3>1, <3>2
    <3>3. CASE t # tail
      <4>1. Follows(In, s, t) /\ Follows(In, t, next[t]) /\ s # tail
        BY <1>5, <2>2, <3>1, <3>3
      <4>2. Follows(In \ {t}, s, next[t])
        <5>1. next[t] \in In /\ In \in SUBSET Int
          BY <1>3, <4>1 DEF Follows
        <5>2. QED
          BY <4>1, <5>1, FollowsJoin
      <4>3. QED
        BY <1>4, <3>1, <3>3, <4>1, <4>2
    <3>4. QED
      BY <3>2, <3>3
  <2>3. ASSUME s # prev[t]
        PROVE  /\ s = tail' => next'[s] = 0
               /\ s # tail' => Follows(In \ {t}, s, next'[s])
    <3>1. next'[s] = next[s] /\ (s = tail' <=> s = tail)
      BY <1>1, <1>4, <1>5, <1>7, <2>3
    <3>2. ASSUME s # tail, next[s] = t PROVE FALSE
      <4>1. Follows(In, s, t) /\ Follows(In, prev[t], t)
        BY <1>5, <3>2 DEF Follows
      <4>2. prev[t] \in In
        BY <4>1 DEF Follows
      <4>3. s = prev[t]
        BY <1>3, <4>1, <4>2, FollowsUnique
      <4>4. QED
        BY <2>3, <4>3
    <3>3. s # tail => Follows(In \ {t}, s, next[s])
      BY <1>5, <1>7, <3>2 DEF Follows
    <3>4. QED
      BY <1>5, <3>1, <3>3
  <2>4. ASSUME s = next[t]
        PROVE  /\ s = head' => prev'[s] = 0
               /\ s # head' => Follows(In \ {t}, prev'[s], s)
    <3>1. t # tail /\ t < s /\ prev'[s] = prev[t]
      <4>1. t # tail
        BY <1>3, <1>5, <2>4
      <4>2. t < s
        BY <1>5, <2>4, <4>1 DEF Follows
      <4>3. QED
        BY <1>1, <1>4, <1>7, <2>4, <4>1, <4>2
    <3>2. CASE t = head
      BY <1>4, <1>5, <2>4, <3>1, <3>2
    <3>3. CASE t # head
      <4>1. Follows(In, t, s) /\ Follows(In, prev[t], t) /\ s # head
        BY <1>5, <2>4, <3>1, <3>3
      <4>2. Follows(In \ {t}, prev[t], s)
        <5>1. prev[t] \in In /\ In \in SUBSET Int
          BY <1>3, <4>1 DEF Follows
        <5>2. QED
          BY <4>1, <5>1, FollowsJoin
      <4>3. QED
        BY <1>4, <3>1, <3>3, <4>1, <4>2
    <3>4. QED
      BY <3>2, <3>3
  <2>5. ASSUME s # next[t]
        PROVE  /\ s = head' => prev'[s] = 0
               /\ s # head' => Follows(In \ {t}, prev'[s], s)
    <3>1. prev'[s] = prev[s] /\ (s = head' <=> s = head)
      BY <1>1, <1>4, <1>5, <1>7, <2>5
    <3>2. ASSUME s # head, prev[s] = t PROVE FALSE
      <4>1. Follows(In, t, s) /\ Follows(In, t, next[t])
        BY <1>5, <3>2 DEF Follows
      <4>2. next[t] \in In
        BY <4>1 DEF Follows
      <4>3. s = next[t]
        BY <1>3, <4>1, <4>2, FollowsUnique
      <4>4. QED
        BY <2>5, <4>3
    <3>3. s # head => Follows(In \ {t}, prev[s], s)
      BY <1>5, <1>7, <3>2 DEF Follows
    <3>4. QED
      BY <1>5, <3>1, <3>3
  <2>6. QED
    BY <2>1, <2>2, <2>3, <2>4, <2>5
<1>8. ASSUME NEW s \in Tokens \ In'
      PROVE  next'[s] = 0 /\ prev'[s] = 0
  <2>1. CASE s = t
    BY <1>4, <2>1
  <2>2. CASE s # t
    <3>1. s \notin In /\ next[s] = 0 /\ prev[s] = 0
      BY <1>1, <2>2 DEF ListInv, WellLinked, In
    <3>2. s # 0
      OBVIOUS
    <3>3. /\ next[t] = 0 \/ next[t] \in In
          /\ prev[t] = 0 \/ prev[t] \in In
      BY <1>5 DEF Follows
    <3>4. s # next[t] /\ s # prev[t]
      BY <3>1, <3>2, <3>3
    <3>5. QED
      BY <1>4, <2>2, <3>1, <3>4
  <2>3. QED
    BY <2>1, <2>2
<1>9. WellLinked'
  <2>1. \A r, u : IsNext(r, u)' <=> Follows(In', r, u)
    BY DEF In, IsNext, Follows
  <2>2. \A s \in In' : /\ s # tail' => IsNext(s, next[s])'
                       /\ s # head' => IsNext(prev[s], s)'
    BY <1>1, <1>7, <2>1
  <2>3. QED
    BY <1>1, <1>6, <1>7, <1>8, <2>2 DEF WellLinked, In
<1>10. /\ head' \in 0..lastId /\ tail' \in 0..lastId
       /\ prev' \in [Tokens -> 0..lastId] /\ next' \in [Tokens -> 0..lastId]
  <2>1. next[t] \in 0..lastId /\ prev[t] \in 0..lastId
    BY <1>1, <1>2
  <2>2. /\ prev' = [s \in Tokens |-> IF s = t THEN 0
                        ELSE IF s = next[t] THEN prev[t] ELSE prev[s]]
        /\ next' = [s \in Tokens |-> IF s = t THEN 0
                        ELSE IF s = prev[t] THEN next[t] ELSE next[s]]
    BY RemoveEffect
  <2>3. 0 \in 0..lastId
    BY <1>1
  <2>4. QED
    BY <1>2, <1>4, <2>1, <2>2, <2>3
<1>11. QED
  BY <1>4, <1>9, <1>10 DEF NeverThrows

(***************************************************************************)
(* Appending a token that has just been issued leaves the list well linked.*)
(***************************************************************************)
LEMMA InsertKeepsLinks ==
  ASSUME ListInv, lastId < MaxTokens, lastId' = lastId + 1, InsertToken(lastId + 1),
         completed' = completed
  PROVE  /\ WellLinked' /\ NeverThrows'
         /\ head' \in 0..lastId' /\ tail' \in 0..lastId'
         /\ prev' \in [Tokens -> 0..lastId'] /\ next' \in [Tokens -> 0..lastId']
<1> DEFINE n == lastId + 1
<1>1. /\ lastId \in Nat /\ n \in Tokens /\ completed \subseteq 1..lastId
      /\ prev \in [Tokens -> 0..lastId] /\ next \in [Tokens -> 0..lastId]
      /\ head \in 0..lastId /\ tail \in 0..lastId
      /\ ~threw
  BY DEF ListInv, ListTypeOK, NeverThrows
<1>2. In' = In \cup {n} /\ n \notin In /\ In \subseteq 1..lastId
  <2>1. In' = (1..lastId \ completed)'
    BY DEF In, Members, Issued
  <2>2. lastId + 1 \notin 1..lastId
    BY <1>1
  <2>3. \A k : k \in 1..(lastId + 1) <=> k \in 1..lastId \/ k = lastId + 1
    <3>1. lastId \in Nat
      BY <1>1
    <3>2. QED
      BY <3>1
  <2>4. \A k : k \in In' <=> k \in 1..(lastId + 1) /\ k \notin completed
    BY <2>1
  <2>5. QED
    BY <1>1, <2>2, <2>3, <2>4, InDef
<1>3. In \subseteq Int /\ In' \subseteq Int
  BY <1>1, <1>2
<1>4. \A r, u : IsNext(r, u)' <=> Follows(In', r, u)
  BY DEF In, IsNext, Follows
<1>5. \A s \in Tokens \ In : next[s] = 0 /\ prev[s] = 0
  BY DEF ListInv, WellLinked, In
<1>6. CASE head = 0
  <2>1. In = {}
    BY <1>2, <1>6 DEF ListInv, WellLinked, In
  <2>2. head' = n /\ tail' = n /\ prev' = prev /\ next' = next /\ threw' = threw
    BY <1>6 DEF InsertToken
  <2>3. In' = {n}
    BY <1>2, <2>1
  <2>4. WellLinked'
    BY <1>1, <1>5, <2>1, <2>2, <2>3 DEF WellLinked, In
  <2>5. QED
    BY <1>1, <2>2, <2>4 DEF NeverThrows
<1>7. CASE head # 0
  <2>1. In # {} /\ head \in In /\ tail \in In /\ tail # 0 /\ n # tail
    <3>1. In # {}
      BY <1>7 DEF ListInv, WellLinked, In
    <3>2. head \in In /\ tail \in In
      BY <3>1 DEF ListInv, WellLinked, In
    <3>3. QED
      BY <1>2, <3>1, <3>2
  <2>2. /\ next' = [next EXCEPT ![tail] = n]
        /\ prev' = [prev EXCEPT ![n] = tail]
        /\ tail' = n /\ head' = head /\ threw' = threw
    BY <1>7, <2>1 DEF InsertToken
  <2>3. \A s \in In :
          /\ s \in 1..lastId /\ head <= s /\ s <= tail
          /\ s # tail => Follows(In, s, next[s])
          /\ s # head => Follows(In, prev[s], s)
          /\ s = head => prev[s] = 0
    BY Links, IsNextDef
  <2>4. next'[tail] = n /\ prev'[n] = tail /\ next'[n] = 0
    BY <1>1, <1>2, <1>5, <2>1, <2>2
  <2>5. \A s \in Tokens : /\ s # tail => next'[s] = next[s]
                          /\ s # n => prev'[s] = prev[s]
    BY <1>1, <2>2
  <2>6. Follows(In', tail, n)
    BY <1>1, <1>2, <2>1, <2>3 DEF Follows
  <2>7. ASSUME NEW s \in In
        PROVE  /\ head' <= s /\ s <= tail' /\ s # tail'
               /\ Follows(In', s, next'[s])
               /\ s = head' => prev'[s] = 0
               /\ s # head' => Follows(In', prev'[s], s)
    <3>1. /\ s \in 1..lastId /\ s \in Tokens /\ s # n
          /\ head <= s /\ s <= n
          /\ s # tail => Follows(In, s, next[s])
          /\ s # head => Follows(In, prev[s], s)
          /\ s = head => prev[s] = 0
      BY <1>1, <1>2, <2>3
    <3>2. CASE s = tail
      <4>1. Follows(In', s, next'[s])
        BY <2>4, <2>6, <3>2
      <4>2. s # head => Follows(In', prev[s], s)
        BY <1>1, <1>2, <1>3, <3>1 DEF Follows
      <4>3. QED
        BY <1>1, <2>2, <2>5, <3>1, <4>1, <4>2
    <3>3. CASE s # tail
      <4>1. Follows(In', s, next[s])
        <5>1. next[s] \in In
          BY <3>1, <3>3 DEF Follows
        <5>2. next[s] <= n
          BY <1>1, <1>2, <5>1
        <5>3. QED
          BY <1>2, <3>1, <3>3, <5>2 DEF Follows
      <4>2. s # head => Follows(In', prev[s], s)
        BY <1>1, <1>2, <1>3, <3>1 DEF Follows
      <4>3. QED
        BY <1>1, <2>2, <2>5, <3>1, <3>3, <4>1, <4>2
    <3>4. QED
      BY <3>2, <3>3
  <2>8. WellLinked'
    <3>1. In' # {} /\ head' \in In' /\ tail' \in In'
      BY <1>2, <2>1, <2>2
    <3>2. ASSUME NEW s \in In'
          PROVE  /\ head' <= s /\ s <= tail'
                 /\ s = tail' => next'[s] = 0
                 /\ s # tail' => Follows(In', s, next'[s])
                 /\ s = head' => prev'[s] = 0
                 /\ s # head' => Follows(In', prev'[s], s)
      <4>1. CASE s = n
        BY <1>1, <1>2, <2>1, <2>2, <2>4, <2>6, <4>1
      <4>2. CASE s \in In
        BY <2>7, <4>2
      <4>3. QED
        BY <1>2, <4>1, <4>2
    <3>3. \A s \in Tokens \ In' : next'[s] = 0 /\ prev'[s] = 0
      BY <1>2, <1>5, <2>1, <2>5
    <3>4. \A s \in In' : /\ s # tail' => IsNext(s, next[s])'
                         /\ s # head' => IsNext(prev[s], s)'
      BY <1>4, <3>2
    <3>5. QED
      BY <3>1, <3>2, <3>3, <3>4 DEF WellLinked, In
  <2>9. /\ prev' \in [Tokens -> 0..lastId'] /\ next' \in [Tokens -> 0..lastId']
    <3>1. 0..lastId \subseteq 0..lastId' /\ n \in 0..lastId' /\ tail \in 0..lastId'
      BY <1>1
    <3>2. prev \in [Tokens -> 0..lastId'] /\ next \in [Tokens -> 0..lastId']
      BY <1>1, <3>1
    <3>3. QED
      BY <2>2, <3>1, <3>2
  <2>10. QED
    BY <1>1, <2>2, <2>8, <2>9 DEF NeverThrows
<1>8. QED
  BY <1>6, <1>7

(***************************************************************************)
(* A step that leaves the list alone leaves it well linked.                *)
(***************************************************************************)
LEMMA SameList ==
  ASSUME ListInv, UNCHANGED <<lastId, list, completed, threw>>
  PROVE  /\ WellLinked' /\ NeverThrows'
         /\ lastId' = lastId /\ head' = head /\ tail' = tail /\ prev' = prev /\ next' = next
<1>1. \A r, u : IsNext(r, u)' <=> IsNext(r, u)
  BY DEF IsNext, Members, Issued
<1>2. Members' = Members
  BY DEF Members, Issued
<1>3. QED
  BY <1>1, <1>2 DEF ListInv, WellLinked, NeverThrows, list

(***************************************************************************)
(* Completing a token, in whatever way, keeps the invariant.               *)
(***************************************************************************)
LEMMA CompleteKeepsListInv ==
  ASSUME ListInv, NEW t \in 1..lastId, CompleteToken(t), timers' \subseteq timers
  PROVE  ListInv'
<1>1. lastId' = lastId /\ starting' = starting
  BY DEF CompleteToken
<1>2. CASE t \in completed
  <2>1. UNCHANGED <<lastId, list, completed, threw, begins, overtaken>>
    BY <1>1, <1>2 DEF CompleteToken
  <2>2. QED
    BY <1>1, <2>1, SameList DEF ListInv, ListTypeOK
<1>3. CASE t \notin completed
  <2>1. /\ t \in In /\ completed' = completed \cup {t} /\ RemoveToken(t)
        /\ begins' = IF next[t] # 0 THEN [begins EXCEPT ![next[t]] = @ + 1] ELSE begins
        /\ overtaken' = (overtaken \/ head # t)
    BY <1>3, InDef DEF CompleteToken, Begin
  <2>2. /\ WellLinked' /\ NeverThrows'
        /\ head' \in 0..lastId /\ tail' \in 0..lastId
        /\ prev' \in [Tokens -> 0..lastId] /\ next' \in [Tokens -> 0..lastId]
    BY <1>1, <2>1, RemoveKeepsLinks
  <2>3. begins' \in [Tokens -> Nat] /\ completed' \subseteq 1..lastId
    <3>1. begins \in [Tokens -> Nat] /\ completed \subseteq 1..lastId
      BY DEF ListInv, ListTypeOK
    <3>2. next[t] # 0 => next[t] \in Tokens
      BY DEF ListInv, ListTypeOK
    <3>3. QED
      BY <2>1, <3>1, <3>2
  <2>4. threw' \in BOOLEAN /\ overtaken' \in BOOLEAN
    BY <2>1, <2>2 DEF ListInv, ListTypeOK, NeverThrows, RemoveToken
  <2>5. ListTypeOK'
    BY <1>1, <2>2, <2>3, <2>4 DEF ListInv, ListTypeOK
  <2>6. QED
    BY <2>2, <2>5 DEF ListInv
<1>4. QED
  BY <1>2, <1>3

(***************************************************************************)
(* The list is well linked and nothing throws, after every sequence of     *)
(* queueing, completing, cancelling and expiring.                          *)
(***************************************************************************)
THEOREM ListIsWellLinked == ListSpec => []ListInv
<1>1. ListInit => ListInv
  <2> SUFFICES ASSUME ListInit PROVE ListInv
    OBVIOUS
  <2>1. prev \in [Tokens -> 0..lastId] /\ next \in [Tokens -> 0..lastId]
    BY DEF ListInit
  <2>2. begins \in [Tokens -> Nat]
    BY DEF ListInit
  <2>3. In = {}
    BY InDef DEF ListInit
  <2>4. ListTypeOK
    <3>1. lastId = 0 /\ 0 \in 0..MaxTokens /\ 0 \in 0..0
      BY DEF ListInit
    <3>2. QED
      BY <2>1, <2>2, <3>1 DEF ListInit, ListTypeOK
  <2>5. WellLinked
    BY <2>3 DEF ListInit, WellLinked, In
  <2>6. QED
    BY <2>4, <2>5 DEF ListInit, ListInv, NeverThrows
<1>2. ListInv /\ [ListNext]_listVars => ListInv'
  <2> SUFFICES ASSUME ListInv, [ListNext]_listVars PROVE ListInv'
    OBVIOUS
  <2>1. ASSUME NEW armed \in BOOLEAN, ListQueueRequest(armed) PROVE ListInv'
    <3>1. /\ lastId \in Nat /\ lastId < MaxTokens /\ lastId' = lastId + 1
          /\ InsertToken(lastId + 1) /\ completed' = completed
          /\ begins' = begins /\ overtaken' = overtaken
          /\ timers' \subseteq timers \cup {lastId + 1}
          /\ starting' \subseteq starting \cup {lastId + 1}
      BY <2>1 DEF ListQueueRequest, ListInv, ListTypeOK
    <3>2. /\ WellLinked' /\ NeverThrows'
          /\ head' \in 0..lastId' /\ tail' \in 0..lastId'
          /\ prev' \in [Tokens -> 0..lastId'] /\ next' \in [Tokens -> 0..lastId']
      BY <3>1, InsertKeepsLinks
    <3>3. threw' \in BOOLEAN
      BY <3>1 DEF InsertToken, list, ListInv, ListTypeOK
    <3>4. 1..lastId \cup {lastId + 1} \subseteq 1..lastId' /\ lastId' \in 0..MaxTokens
      BY <3>1
    <3>5. ListTypeOK'
      BY <3>1, <3>2, <3>3, <3>4 DEF ListInv, ListTypeOK
    <3>6. QED
      BY <3>2, <3>5 DEF ListInv
  <2>2. ASSUME NEW t \in Tokens, ListStartNow(t) PROVE ListInv'
    <3>1. begins' \in [Tokens -> Nat]
      <4>1. begins' = begins \/ begins' = [begins EXCEPT ![t] = @ + 1]
        BY <2>2 DEF ListStartNow, Begin
      <4>2. begins \in [Tokens -> Nat]
        BY DEF ListInv, ListTypeOK
      <4>3. QED
        BY <4>1, <4>2
    <3>2. QED
      BY <2>2, <3>1, SameList DEF ListStartNow, list, ListInv, ListTypeOK
  <2>3. ASSUME NEW t \in Tokens, ListComplete(t) PROVE ListInv'
    <3>1. t \in 1..lastId
      BY <2>3 DEF ListComplete, ListInv, ListTypeOK
    <3>2. QED
      BY <2>3, <3>1, CompleteKeepsListInv DEF ListComplete
  <2>4. ASSUME NEW t \in Tokens, ListTimerFires(t) PROVE ListInv'
    <3>1. t \in 1..lastId
      BY <2>4 DEF ListTimerFires, ListInv, ListTypeOK
    <3>2. QED
      BY <2>4, <3>1, CompleteKeepsListInv DEF ListTimerFires
  <2>5. CASE UNCHANGED listVars
    BY <2>5, SameList DEF listVars, list, ListInv, ListTypeOK
  <2>6. QED
    BY <2>1, <2>2, <2>3, <2>4, <2>5 DEF ListNext
<1>3. QED
  BY <1>1, <1>2, PTL DEF ListSpec

(***************************************************************************)
(* Completing a token of the list is TokenQueue's Remove, and completing it*)
(* again changes nothing.                                                  *)
(***************************************************************************)
LEMMA CompleteRefines ==
  ASSUME ListInv, NEW t \in 1..lastId, CompleteToken(t)
  PROVE  \/ t \in In /\ Remove(t)
         \/ t \in completed /\ UNCHANGED <<lastId, completed, starting, begins, overtaken>>
<1>1. lastId' = lastId /\ starting' = starting
  BY DEF CompleteToken
<1>2. CASE t \in completed
  BY <1>1, <1>2 DEF CompleteToken
<1>3. CASE t \notin completed
  <2>1. /\ t \in In /\ completed' = completed \cup {t}
        /\ begins' = IF next[t] # 0 THEN [begins EXCEPT ![next[t]] = @ + 1] ELSE begins
        /\ overtaken' = (overtaken \/ head # t)
    BY <1>3, InDef DEF CompleteToken, Begin
  <2>2. \A s \in In : s \in 1..lastId /\ head <= s /\ s <= tail
    BY Links
  <2>3. /\ head \in In
        /\ t # tail => next[t] # 0
        /\ t = tail => next[t] = 0
        /\ t # tail => IsNext(t, next[t]) /\ next[t] \in In
    BY <2>1, Links
  <2>4. head = t <=> IsHead(t)
    <3>1. \A s \in In : s \in Int
      BY <2>2
    <3>2. ASSUME head = t PROVE IsHead(t)
      BY <2>1, <2>2, <3>2, IsHeadDef
    <3>3. ASSUME IsHead(t) PROVE head = t
      <4>1. \A u \in In : t <= u
        BY <3>3, IsHeadDef
      <4>2. t <= head /\ head <= t /\ t \in Int /\ head \in Int
        BY <2>1, <2>2, <2>3, <3>1, <4>1
      <4>3. QED
        BY <4>2
    <3>4. QED
      BY <3>2, <3>3
  <2>5. CASE t = tail
    <3>1. begins' = begins /\ \A u \in In : u <= t
      BY <2>1, <2>2, <2>3, <2>5
    <3>2. QED
      BY <1>1, <2>1, <2>4, <3>1 DEF Remove, In
  <2>6. CASE t # tail
    <3>1. /\ next[t] \in In /\ IsNext(t, next[t])
          /\ begins' = [begins EXCEPT ![next[t]] = @ + 1]
      <4>1. next[t] # 0
        BY <2>2, <2>3, <2>6
      <4>2. QED
        BY <2>1, <2>3, <2>6, <4>1
    <3>2. QED
      BY <1>1, <2>1, <2>4, <3>1 DEF Remove, In
  <2>7. QED
    BY <2>5, <2>6
<1>4. QED
  BY <1>2, <1>3

(***************************************************************************)
(* The linked list implements TokenQueue: what the theorems above show of  *)
(* the abstract queue (no stall, serial service) holds of requestqueue.js. *)
(***************************************************************************)
THEOREM ImplementsQueue == ListSpec => ImplementsTokenQueueSafely
<1>1. ListInit => Init
  BY DEF ListInit, Init, Tokens
<1>2. ListInv /\ [ListNext]_listVars => [Next]_(vars)
  <2> SUFFICES ASSUME ListInv, [ListNext]_listVars PROVE [Next]_(vars)
    OBVIOUS
  <2>1. ASSUME NEW armed \in BOOLEAN, ListQueueRequest(armed) PROVE Next
    <3>1. head = 0 <=> Members = {}
      <4>1. 0 \notin In
        BY InDef
      <4>2. QED
        BY <4>1 DEF ListInv, WellLinked, In
    <3>2. QueueRequest(armed)
      BY <2>1, <3>1 DEF ListQueueRequest, QueueRequest
    <3>3. QED
      BY <3>2 DEF Next
  <2>2. ASSUME NEW t \in Tokens, ListStartNow(t) PROVE Next
    BY <2>2 DEF ListStartNow, Begin, Next, StartNow, Tokens
  <2>3. ASSUME NEW t \in Tokens, ListComplete(t) PROVE Next \/ UNCHANGED vars
    <3>1. t \in 1..lastId /\ CompleteToken(t) /\ timers' = timers
      BY <2>3 DEF ListComplete, ListInv, ListTypeOK
    <3>2. CASE t \in In /\ Remove(t)
      BY <3>1, <3>2 DEF Next, Complete, Tokens, In
    <3>3. CASE UNCHANGED <<lastId, completed, starting, begins, overtaken>>
      BY <3>1, <3>3 DEF vars
    <3>4. QED
      BY <3>1, <3>2, <3>3, CompleteRefines
  <2>4. ASSUME NEW t \in Tokens, ListTimerFires(t) PROVE Next
    <3>1. t \in 1..lastId /\ CompleteToken(t)
      BY <2>4 DEF ListTimerFires, ListInv, ListTypeOK
    <3>2. TimerFires(t)
      BY <2>4, <3>1, CompleteRefines DEF ListTimerFires, TimerFires, In
    <3>3. QED
      BY <3>2 DEF Next, Tokens
  <2>5. CASE UNCHANGED listVars
    BY <2>5 DEF listVars, vars
  <2>6. QED
    BY <2>1, <2>2, <2>3, <2>4, <2>5 DEF ListNext
<1>3. QED
  BY <1>1, <1>2, ListIsWellLinked, PTL DEF ListSpec, Spec, ImplementsTokenQueueSafely

(***************************************************************************)
(* So the request at the head of requestqueue.js's list has always been    *)
(* begun or is scheduled to be, whatever order tokens are completed in.    *)
(***************************************************************************)
THEOREM ListNeverStalls == ListSpec => []HeadStarted
  BY ImplementsQueue, NeverStalls, PTL DEF ImplementsTokenQueueSafely

(***************************************************************************)
(* And while requests are completed in turn they are served one at a time. *)
(***************************************************************************)
THEOREM ListServesSerially == ListSpec => []SerialService
  BY ImplementsQueue, ServesSerially, PTL DEF ImplementsTokenQueueSafely
=============================================================================

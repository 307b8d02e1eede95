---------------------------- MODULE RequestQueue ----------------------------
(***************************************************************************)
(* requestqueue.js as it is written: a doubly linked list of RequestTokens *)
(* with head_ and tail_, a completed_ flag per token, and the callbacks    *)
(* that queueRequest schedules.  It adds to TokenQueue the links and the   *)
(* places that could throw; TokenQueue's own actions, which know neither,  *)
(* are what it implements.                                                 *)
(***************************************************************************)
EXTENDS TokenQueue

NoToken == 0            \* the null of the source

VARIABLES
    head, tail,     \* head_, tail_
    prev, next,     \* the links of every token ever made
    threw           \* a null link was dereferenced, or insertToken_ threw

list == <<head, tail, prev, next>>
listVars == <<lastId, list, completed, starting, timers, begins, threw, overtaken>>

ListInit ==
    /\ lastId = 0
    /\ head = NoToken /\ tail = NoToken
    /\ prev = [t \in Tokens |-> NoToken]
    /\ next = [t \in Tokens |-> NoToken]
    /\ completed = {} /\ starting = {} /\ timers = {}
    /\ begins = [t \in Tokens |-> 0]
    /\ threw = FALSE /\ overtaken = FALSE

Begin(t) == begins' = [begins EXCEPT ![t] = @ + 1]

InsertToken(t) ==
    \/ /\ head = NoToken
       /\ head' = t /\ tail' = t
       /\ UNCHANGED <<prev, next, threw>>
    \/ /\ head # NoToken /\ tail # NoToken
       /\ next' = [next EXCEPT ![tail] = t]
       /\ prev' = [prev EXCEPT ![t] = tail]
       /\ tail' = t
       /\ UNCHANGED <<head, threw>>
    \/ /\ head # NoToken /\ tail = NoToken
       /\ threw' = TRUE
       /\ UNCHANGED list

(***************************************************************************)
(* Seeded fault: the prev of the token behind is not mended.               *)
(***************************************************************************)
RemoveTokenOneWay(t) ==
    LET only == head = t /\ tail = t
        next1 == IF prev[t] # NoToken THEN [next EXCEPT ![prev[t]] = next[t]] ELSE next
    IN  /\ head' = IF only THEN NoToken ELSE IF head = t THEN next[t] ELSE head
        /\ tail' = IF only THEN NoToken ELSE IF tail = t THEN prev[t] ELSE tail
        /\ next' = [next1 EXCEPT ![t] = NoToken]
        /\ prev' = [prev EXCEPT ![t] = NoToken]
        /\ UNCHANGED threw

RemoveToken(t) ==
    LET only  == head = t /\ tail = t
        prev1 == IF next[t] # NoToken THEN [prev EXCEPT ![next[t]] = prev[t]] ELSE prev
        next1 == IF prev[t] # NoToken THEN [next EXCEPT ![prev[t]] = next[t]] ELSE next
        prev2 == IF head = t /\ ~only THEN [prev1 EXCEPT ![next[t]] = NoToken] ELSE prev1
        next2 == IF tail = t /\ ~only THEN [next1 EXCEPT ![prev[t]] = NoToken] ELSE next1
    IN  /\ head' = IF only THEN NoToken ELSE IF head = t THEN next[t] ELSE head
        /\ tail' = IF only THEN NoToken ELSE IF tail = t THEN prev[t] ELSE tail
        /\ prev' = [prev2 EXCEPT ![t] = NoToken]
        /\ next' = [next2 EXCEPT ![t] = NoToken]
        /\ threw' = \/ threw
                    \/ head = t /\ ~only /\ next[t] = NoToken
                    \/ tail = t /\ ~only /\ prev[t] = NoToken

(***************************************************************************)
(* Seeded faults of queueRequest: every request is scheduled to start;     *)
(* none is.                                                                *)
(***************************************************************************)
ListQueueRequestStartsAll(armed) ==
    /\ lastId < MaxTokens
    /\ lastId' = lastId + 1
    /\ timers' = IF armed THEN timers \cup {lastId + 1} ELSE timers
    /\ InsertToken(lastId + 1)
    /\ starting' = starting \cup {lastId + 1}
    /\ UNCHANGED <<completed, begins, overtaken>>

ListQueueRequestStartsNone(armed) ==
    /\ lastId < MaxTokens
    /\ lastId' = lastId + 1
    /\ timers' = IF armed THEN timers \cup {lastId + 1} ELSE timers
    /\ InsertToken(lastId + 1)
    /\ UNCHANGED <<completed, starting, begins, overtaken>>

(***************************************************************************)
(* queueRequest.  A countdown that has already expired (armed = FALSE)     *)
(* yields a clone that never fires.                                        *)
(***************************************************************************)
ListQueueRequest(armed) ==
    /\ lastId < MaxTokens
    /\ lastId' = lastId + 1
    /\ timers' = IF armed THEN timers \cup {lastId + 1} ELSE timers
    /\ InsertToken(lastId + 1)
    /\ starting' = IF head = NoToken THEN starting \cup {lastId + 1} ELSE starting
    /\ UNCHANGED <<completed, begins, overtaken>>

ListStartNow(t) ==
    /\ t \in starting
    /\ starting' = starting \ {t}
    /\ IF t \in completed THEN UNCHANGED begins ELSE Begin(t)
    /\ UNCHANGED <<lastId, list, completed, timers, threw, overtaken>>

(***************************************************************************)
(* Seeded fault: the next token is read after the links were cleared.      *)
(***************************************************************************)
CompleteTokenReadsLate(t) ==
    /\ IF t \in completed
         THEN UNCHANGED <<list, completed, threw, overtaken>>
         ELSE /\ completed' = completed \cup {t}
              /\ RemoveToken(t)
              /\ overtaken' = (overtaken \/ head # t)
    /\ UNCHANGED <<lastId, starting, begins>>

(***************************************************************************)
(* RequestToken.complete together with RequestQueue.complete: the next     *)
(* token is read before the links are cleared, and begun after.            *)
(***************************************************************************)
CompleteToken(t) ==
    /\ IF t \in completed
         THEN UNCHANGED <<list, completed, begins, threw, overtaken>>
         ELSE /\ completed' = completed \cup {t}
              /\ RemoveToken(t)
              /\ IF next[t] # NoToken THEN Begin(next[t]) ELSE UNCHANGED begins
              /\ overtaken' = (overtaken \/ head # t)
    /\ UNCHANGED <<lastId, starting>>

ListComplete(t) ==
    /\ t <= lastId
    /\ CompleteToken(t)
    /\ UNCHANGED timers

ListTimerFires(t) ==
    /\ t \in timers
    /\ timers' = timers \ {t}
    /\ CompleteToken(t)

ListNext ==
    \/ \E armed \in BOOLEAN : ListQueueRequest(armed)
    \/ \E t \in Tokens : ListStartNow(t)
    \/ \E t \in Tokens : ListComplete(t)
    \/ \E t \in Tokens : ListTimerFires(t)

(***************************************************************************)
(* As in TokenQueue: timers fire, and the owner of a request that was      *)
(* begun eventually completes it.                                          *)
(***************************************************************************)
ListFairness ==
    \A t \in Tokens :
        /\ WF_listVars(ListStartNow(t))
        /\ WF_listVars(ListTimerFires(t))
        /\ WF_listVars(ListComplete(t) /\ begins[t] > 0)

ListSpec == ListInit /\ [][ListNext]_listVars
FairListSpec == ListSpec /\ ListFairness
-----------------------------------------------------------------------------
ListTypeOK ==
    /\ lastId \in 0..MaxTokens
    /\ head \in 0..lastId /\ tail \in 0..lastId
    /\ prev \in [Tokens -> 0..lastId] /\ next \in [Tokens -> 0..lastId]
    /\ completed \subseteq 1..lastId
    /\ starting \subseteq 1..lastId
    /\ timers \subseteq 1..lastId
    /\ begins \in [Tokens -> Nat]
    /\ threw \in BOOLEAN /\ overtaken \in BOOLEAN

(***************************************************************************)
(* The links say what TokenQueue says: head_ and tail_ are the oldest and  *)
(* the newest token not completed (null when there is none), next and prev *)
(* lead to the token queued just after and just before, and a token out of *)
(* the list points nowhere.  This is what removeToken_ must restore when a *)
(* token anywhere in the list is cancelled.                                *)
(***************************************************************************)
WellLinked ==
    LET In == Members IN
    /\ In = {} => head = NoToken /\ tail = NoToken
    /\ In # {} => head \in In /\ tail \in In
    /\ \A t \in In :
         /\ head <= t /\ t <= tail
         /\ t = tail => next[t] = NoToken
         /\ t # tail => IsNext(t, next[t])
         /\ t = head => prev[t] = NoToken
         /\ t # head => IsNext(prev[t], t)
    /\ \A t \in Tokens \ In : next[t] = NoToken /\ prev[t] = NoToken

(***************************************************************************)
(* No list operation dereferences null, and insertToken_'s own check,      *)
(* requestqueue.js:84 "Non-empty list missing tail", never fails.          *)
(***************************************************************************)
NeverThrows == ~threw

(***************************************************************************)
(* The linked list is the queue TokenQueue specifies, its fairness         *)
(* included: requestqueue.js adds to the order of tokens nothing but       *)
(* pointers.                                                               *)
(***************************************************************************)
ImplementsTokenQueue == FairSpec
ImplementsTokenQueueSafely == Spec
=============================================================================

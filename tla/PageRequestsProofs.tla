------------------------- MODULE PageRequestsProofs -------------------------
(***************************************************************************)
(* Proofs about a page's requests at their two ends, for any calls,        *)
(* helpers, app ids and timeouts: PageApi, where each call is called back  *)
(* at most once, and EnrollRequests, where a request is answered at most   *)
(* once and its helpers are told to stop.                                  *)
(***************************************************************************)
EXTENDS PageApi, EnrollRequests, TLAPS

(***************************************************************************)
(* PageApi.  A call is in at most one place: its thunk waits for the port, *)
(* its callback is in callbackMap_, or the callback was called.  A message *)
(* with the extension belongs to the callback that was entered with it, or *)
(* to none any more.                                                       *)
(***************************************************************************)
RequestOf(c) == [kind |-> "request", call |-> c]
Messages == [id : 1..reqCounter, thunk : Thunks]

ApiTypeOK ==
    /\ called \subseteq Calls
    /\ reqCounter \in Nat
    /\ waitingForPort \in Seq(Thunks)
    /\ callbackMap \in Seq(Thunks \cup {NoThunk}) /\ Len(callbackMap) = reqCounter
    /\ posted \subseteq Messages
    /\ DOMAIN results = Calls

WaitsAt(i, c) == i \in DOMAIN waitingForPort /\ waitingForPort[i].call = c
MappedAt(i, c) ==
    i \in DOMAIN callbackMap /\ callbackMap[i] # NoThunk /\ callbackMap[i].call = c

CallInOnePlace(c) ==
    /\ \A i, j \in Nat : WaitsAt(i, c) /\ WaitsAt(j, c) => i = j
    /\ \A i, j \in Nat : MappedAt(i, c) /\ MappedAt(j, c) => i = j
    /\ \A i, j \in Nat : ~(WaitsAt(i, c) /\ MappedAt(j, c))
    /\ results[c] # <<>> \/ c \notin called =>
         \A i \in Nat : ~WaitsAt(i, c) /\ ~MappedAt(i, c)
    /\ c \notin called => results[c] = <<>>

MessagesMatch == \A m \in posted : callbackMap[m.id] \in {NoThunk, m.thunk}

PageInv ==
    /\ ApiTypeOK
    /\ \A c \in Calls : CallInOnePlace(c)
    /\ MessagesMatch
    /\ OwnResponseOnce
-----------------------------------------------------------------------------
(***************************************************************************)
(* One list behind another.                                                *)
(***************************************************************************)
LEMMA Joined ==
    ASSUME NEW S
    PROVE  \A s, t \in Seq(S) :
             /\ s \o t \in Seq(S) /\ Len(s \o t) = Len(s) + Len(t)
             /\ \A i \in 1..Len(s) : (s \o t)[i] = s[i]
             /\ \A i \in 1..Len(t) : (s \o t)[Len(s) + i] = t[i]
  OBVIOUS

(***************************************************************************)
(* What running the thunks s does: each has its callback entered under the *)
(* next id, for its own call.                                              *)
(***************************************************************************)
LEMMA RunShape ==
    ASSUME ApiTypeOK, MessagesMatch, NEW s \in Seq(Thunks), Run(s)
    PROVE  /\ reqCounter' \in Nat /\ Len(s) \in Nat
           /\ callbackMap' \in Seq(Thunks \cup {NoThunk}) /\ Len(callbackMap') = reqCounter'
           /\ \A j \in Nat, c \in Calls :
                MappedAt(j, c)' <=> \/ MappedAt(j, c)
                                    \/ \E i \in DOMAIN s : j = reqCounter + i /\ s[i].call = c
           /\ posted' \subseteq Messages'
           /\ MessagesMatch'
<1> DEFINE thunks == [i \in 1..Len(s) |-> Message(s[i])]
           new == {[id |-> reqCounter + i, thunk |-> thunks[i]] : i \in 1..Len(s)}
<1>1. /\ reqCounter' = reqCounter + Len(s)
      /\ callbackMap' = callbackMap \o thunks
      /\ posted' \subseteq posted \cup new
  BY DEF Run
<1>2. /\ reqCounter \in Nat /\ Len(s) \in Nat /\ DOMAIN s = 1..Len(s)
      /\ callbackMap \in Seq(Thunks \cup {NoThunk}) /\ Len(callbackMap) = reqCounter
      /\ DOMAIN callbackMap = 1..reqCounter
  BY DEF ApiTypeOK
<1>3. \A i \in 1..Len(s) : /\ Message(s[i]) \in Thunks /\ Message(s[i]) # NoThunk
                           /\ Message(s[i]).call = s[i].call
  <2> SUFFICES ASSUME NEW i \in 1..Len(s)
               PROVE  /\ Message(s[i]) \in Thunks /\ Message(s[i]) # NoThunk
                      /\ Message(s[i]).call = s[i].call
    OBVIOUS
  <2>1. s[i] \in Thunks
    BY <1>2
  <2>2. PICK k \in {"version", "request"}, c \in Calls : s[i] = [kind |-> k, call |-> c]
    BY <2>1 DEF Thunks
  <2>3. \/ Message(s[i]) = [kind |-> k, call |-> c]
        \/ Message(s[i]) = [kind |-> "request", call |-> c]
    BY <2>2 DEF Message
  <2>4. PICK h \in {"version", "request"} : Message(s[i]) = [kind |-> h, call |-> c]
    BY <2>3
  <2>5. Message(s[i]) \in Thunks /\ Message(s[i]).kind # "none" /\ NoThunk.kind = "none"
    <3>1. [kind |-> h, call |-> c] \in Thunks
      BY DEF Thunks
    <3>2. Message(s[i]).kind = h
      BY <2>4
    <3>3. QED
      BY <2>4, <3>1, <3>2 DEF NoThunk
  <2>6. Message(s[i]) # NoThunk
    BY <2>5
  <2>7. Message(s[i]).call = c /\ s[i].call = c
    BY <2>2, <2>4
  <2>8. QED
    BY <2>5, <2>6, <2>7
<1>4. thunks \in Seq(Thunks) /\ Len(thunks) = Len(s) /\ \A i \in 1..Len(s) : thunks[i] = Message(s[i])
  BY <1>2, <1>3
<1> HIDE DEF thunks
<1>5. /\ callbackMap' \in Seq(Thunks \cup {NoThunk}) /\ Len(callbackMap') = reqCounter'
      /\ \A i \in 1..reqCounter : callbackMap'[i] = callbackMap[i]
      /\ \A i \in 1..Len(s) : callbackMap'[reqCounter + i] = thunks[i]
  <2>1. thunks \in Seq(Thunks \cup {NoThunk})
    BY <1>4
  <2> DEFINE t == callbackMap \o thunks
             S == Thunks \cup {NoThunk}
  <2>2. /\ t \in Seq(Thunks \cup {NoThunk}) /\ Len(t) = Len(callbackMap) + Len(thunks)
        /\ \A i \in 1..Len(callbackMap) : t[i] = callbackMap[i]
        /\ \A i \in 1..Len(thunks) : t[Len(callbackMap) + i] = thunks[i]
    <3>1. callbackMap \in Seq(S) /\ thunks \in Seq(S)
      BY <1>2, <2>1
    <3> HIDE DEF S
    <3>2. /\ t \in Seq(S)
          /\ Len(t) = Len(callbackMap) + Len(thunks)
          /\ \A i \in 1..Len(callbackMap) : t[i] = callbackMap[i]
          /\ \A i \in 1..Len(thunks) : t[Len(callbackMap) + i] = thunks[i]
      BY <3>1, Joined
    <3>3. QED
      BY <3>2 DEF S
  <2>3. callbackMap' = t
    BY <1>1
  <2> HIDE DEF t
  <2>4. Len(callbackMap) = reqCounter /\ Len(thunks) = Len(s)
    BY <1>2, <1>4
  <2>5. Len(t) = reqCounter'
    BY <1>1, <2>2, <2>4
  <2>6. /\ \A i \in 1..reqCounter : t[i] = callbackMap[i]
        /\ \A i \in 1..Len(s) : t[reqCounter + i] = thunks[i]
    BY <2>2, <2>4
  <2>7. QED
    BY <2>2, <2>3, <2>5, <2>6
<1>6. DOMAIN callbackMap' = 1..(reqCounter + Len(s)) /\ reqCounter' \in Nat
  BY <1>1, <1>2, <1>5
<1>7. ASSUME NEW j \in Nat, NEW c \in Calls
      PROVE  MappedAt(j, c)' <=> \/ MappedAt(j, c)
                                 \/ \E i \in DOMAIN s : j = reqCounter + i /\ s[i].call = c
  <2>1. CASE j \in 1..reqCounter
    BY <1>2, <1>5, <1>6, <2>1 DEF MappedAt
  <2>2. CASE j \notin 1..reqCounter /\ j \in 1..(reqCounter + Len(s))
    <3>1. j - reqCounter \in 1..Len(s) /\ j = reqCounter + (j - reqCounter)
      BY <1>2, <2>2
    <3>2. PICK i \in 1..Len(s) : j = reqCounter + i
      BY <3>1
    <3>3. callbackMap'[j] = Message(s[i])
      BY <1>4, <1>5, <3>2
    <3>4. MappedAt(j, c)' <=> s[i].call = c
      BY <1>3, <1>6, <2>2, <3>2, <3>3 DEF MappedAt
    <3>5. ~MappedAt(j, c)
      BY <1>2, <2>2 DEF MappedAt
    <3>6. \A k \in 1..Len(s) : j = reqCounter + k => k = i
      BY <1>2, <3>2
    <3>7. QED
      BY <1>2, <3>2, <3>4, <3>5, <3>6
  <2>3. CASE j \notin 1..(reqCounter + Len(s))
    <3>1. ~MappedAt(j, c) /\ ~MappedAt(j, c)'
      BY <1>2, <1>6, <2>3 DEF MappedAt
    <3>2. \A i \in 1..Len(s) : j # reqCounter + i
      BY <1>2, <2>3
    <3>3. QED
      BY <1>2, <3>1, <3>2
  <2>4. QED
    BY <2>1, <2>2, <2>3
<1>8. ASSUME NEW m \in posted' PROVE m \in Messages' /\ callbackMap'[m.id] \in {NoThunk, m.thunk}
  <2>1. CASE m \in posted
    <3>1. m.id \in 1..reqCounter /\ m.thunk \in Thunks /\ callbackMap[m.id] \in {NoThunk, m.thunk}
          /\ m = [id |-> m.id, thunk |-> m.thunk]
      BY <2>1 DEF ApiTypeOK, Messages, MessagesMatch
    <3>2. m.id \in 1..reqCounter'
      BY <1>1, <1>2, <3>1
    <3>3. QED
      BY <1>5, <3>1, <3>2 DEF Messages
  <2>2. CASE m \in new
    <3>1. PICK i \in 1..Len(s) : m = [id |-> reqCounter + i, thunk |-> thunks[i]]
      BY <2>2
    <3>2. reqCounter + i \in 1..reqCounter' /\ thunks[i] \in Thunks
      BY <1>1, <1>2, <1>3, <1>4
    <3>3. QED
      BY <1>5, <3>1, <3>2 DEF Messages
  <2>3. QED
    BY <1>1, <1>8, <2>1, <2>2
<1>9. QED
  BY <1>2, <1>5, <1>6, <1>7, <1>8 DEF MessagesMatch
-----------------------------------------------------------------------------
(***************************************************************************)
(* Taking the callback of an id out of callbackMap_.                       *)
(***************************************************************************)
LEMMA TakeOut ==
    ASSUME ApiTypeOK, NEW k \in 1..reqCounter, NEW map,
           map = [callbackMap EXCEPT ![k] = NoThunk]
    PROVE  /\ map \in Seq(Thunks \cup {NoThunk}) /\ Len(map) = reqCounter
           /\ DOMAIN map = 1..reqCounter
           /\ map[k] = NoThunk
           /\ \A i \in 1..reqCounter : i # k => map[i] = callbackMap[i]
<1> DEFINE S == Thunks \cup {NoThunk}
<1>1. NoThunk \in S
  OBVIOUS
<1>2. callbackMap \in Seq(S) /\ Len(callbackMap) = reqCounter /\ reqCounter \in Nat
  BY DEF ApiTypeOK
<1> HIDE DEF S
<1>3. map \in Seq(S) /\ Len(map) = reqCounter /\ DOMAIN map = 1..reqCounter
      /\ map[k] = NoThunk
      /\ \A i \in 1..reqCounter : i # k => map[i] = callbackMap[i]
  BY <1>1, <1>2
<1>4. QED
  BY <1>3 DEF S

(***************************************************************************)
(* A step that leaves calls where they are, and adds no message.           *)
(***************************************************************************)
LEMMA Stays ==
    ASSUME PageInv, posted' \subseteq posted,
           UNCHANGED <<called, waitingForPort, reqCounter, callbackMap, results>>
    PROVE  PageInv'
<1>1. ApiTypeOK'
  BY DEF PageInv, ApiTypeOK, Messages
<1>2. ASSUME NEW c \in Calls PROVE CallInOnePlace(c)'
  BY DEF PageInv, CallInOnePlace, WaitsAt, MappedAt
<1>3. MessagesMatch' /\ OwnResponseOnce'
  BY DEF PageInv, MessagesMatch, OwnResponseOnce
<1>4. QED
  BY <1>1, <1>2, <1>3 DEF PageInv

(***************************************************************************)
(* A call is made: its thunk is run, or waits, and is nowhere else.        *)
(***************************************************************************)
LEMMA CallStep == ASSUME PageInv, NEW c \in Calls, Call(c) PROVE PageInv'
<1> DEFINE thunk == [kind |-> IF versionKnown THEN "request" ELSE "version", call |-> c]
<1>1. /\ c \notin called /\ called' = called \cup {c}
      /\ GetPortSingleton(thunk)
      /\ UNCHANGED <<browser, connected, dropped, unread, results>>
  BY DEF Call
<1>2. thunk \in Thunks /\ thunk.call = c
  BY DEF Thunks
<1> HIDE DEF thunk
<1>3. ApiTypeOK /\ MessagesMatch /\ OwnResponseOnce
  BY DEF PageInv
<1>4. /\ \A i \in Nat : ~WaitsAt(i, c) /\ ~MappedAt(i, c)
      /\ results[c] = <<>>
  BY <1>1 DEF PageInv, CallInOnePlace
<1>5. CASE Run(<<thunk>>) /\ UNCHANGED waitingForPort
  <2>1. <<thunk>> \in Seq(Thunks) /\ Len(<<thunk>>) = 1 /\ <<thunk>>[1] = thunk
        /\ DOMAIN <<thunk>> = {1}
    BY <1>2
  <2>2. /\ reqCounter' \in Nat
        /\ callbackMap' \in Seq(Thunks \cup {NoThunk}) /\ Len(callbackMap') = reqCounter'
        /\ \A j \in Nat, d \in Calls :
             MappedAt(j, d)' <=> \/ MappedAt(j, d)
                                 \/ \E i \in DOMAIN <<thunk>> : /\ j = reqCounter + i
                                                                /\ <<thunk>>[i].call = d
        /\ posted' \subseteq Messages'
        /\ MessagesMatch'
    BY <1>3, <1>5, <2>1, RunShape
  <2>3. \A j \in Nat, d \in Calls :
          MappedAt(j, d)' <=> MappedAt(j, d) \/ (j = reqCounter + 1 /\ d = c)
    BY <1>2, <2>1, <2>2
  <2>4. ApiTypeOK'
    BY <1>1, <1>3, <1>5, <2>2 DEF ApiTypeOK
  <2>5. ASSUME NEW d \in Calls PROVE CallInOnePlace(d)'
    <3>1. \A i \in Nat : WaitsAt(i, d)' <=> WaitsAt(i, d)
      BY <1>5 DEF WaitsAt
    <3>2. CallInOnePlace(d)
      BY DEF PageInv
    <3>3. CASE d = c
      <4>1. \A i \in Nat : ~WaitsAt(i, c)' /\ (MappedAt(i, c)' <=> i = reqCounter + 1)
        BY <1>3, <1>4, <2>3, <3>1, <3>3 DEF ApiTypeOK
      <4>2. QED
        BY <1>1, <1>4, <3>3, <4>1 DEF CallInOnePlace
    <3>4. CASE d # c
      <4>1. \A i \in Nat : MappedAt(i, d)' <=> MappedAt(i, d)
        BY <2>3, <3>4
      <4>2. QED
        BY <1>1, <3>1, <3>2, <3>4, <4>1 DEF CallInOnePlace
    <3>5. QED
      BY <3>3, <3>4
  <2>6. QED
    BY <1>1, <1>3, <2>2, <2>4, <2>5 DEF PageInv, OwnResponseOnce
<1>6. CASE /\ waitingForPort' = Append(waitingForPort, thunk)
           /\ UNCHANGED <<reqCounter, callbackMap, posted>>
  <2>1. waitingForPort \in Seq(Thunks)
    BY <1>3 DEF ApiTypeOK
  <2>2. /\ waitingForPort' \in Seq(Thunks)
        /\ DOMAIN waitingForPort = 1..Len(waitingForPort) /\ Len(waitingForPort) \in Nat
        /\ DOMAIN waitingForPort' = 1..(Len(waitingForPort) + 1)
        /\ waitingForPort'[Len(waitingForPort) + 1] = thunk
        /\ \A i \in 1..Len(waitingForPort) : waitingForPort'[i] = waitingForPort[i]
    BY <1>2, <1>6, <2>1
  <2>3. \A i \in Nat, d \in Calls :
          WaitsAt(i, d)' <=> WaitsAt(i, d) \/ (i = Len(waitingForPort) + 1 /\ d = c)
    BY <1>2, <2>2 DEF WaitsAt
  <2>4. \A i \in Nat, d \in Calls : MappedAt(i, d)' <=> MappedAt(i, d)
    BY <1>6 DEF MappedAt
  <2>5. ApiTypeOK'
    BY <1>1, <1>3, <1>6, <2>2 DEF ApiTypeOK, Messages
  <2>6. ASSUME NEW d \in Calls PROVE CallInOnePlace(d)'
    <3>1. CallInOnePlace(d)
      BY DEF PageInv
    <3>2. CASE d = c
      <4>1. \A i \in Nat : ~MappedAt(i, c)' /\ (WaitsAt(i, c)' <=> i = Len(waitingForPort) + 1)
        BY <1>4, <2>3, <2>4
      <4>2. QED
        BY <1>1, <1>4, <3>2, <4>1 DEF CallInOnePlace
    <3>3. CASE d # c
      <4>1. \A i \in Nat : (MappedAt(i, d)' <=> MappedAt(i, d)) /\ (WaitsAt(i, d)' <=> WaitsAt(i, d))
        BY <2>3, <2>4, <3>3
      <4>2. QED
        BY <1>1, <3>1, <3>3, <4>1 DEF CallInOnePlace
    <3>4. QED
      BY <3>2, <3>3
  <2>7. MessagesMatch' /\ OwnResponseOnce'
    BY <1>1, <1>3, <1>6 DEF MessagesMatch, OwnResponseOnce
  <2>8. QED
    BY <2>5, <2>6, <2>7 DEF PageInv
<1>7. QED
  BY <1>1, <1>5, <1>6 DEF GetPortSingleton

(***************************************************************************)
(* The port is there: every thunk that waited is run, and none waits.      *)
(***************************************************************************)
LEMMA GotPortStep == ASSUME PageInv, GotPort PROVE PageInv'
<1>1. /\ Run(waitingForPort) /\ waitingForPort' = <<>>
      /\ UNCHANGED <<browser, called, connected, dropped, unread, results>>
  BY DEF GotPort
<1>2. ApiTypeOK /\ MessagesMatch /\ OwnResponseOnce /\ waitingForPort \in Seq(Thunks)
  BY DEF PageInv, ApiTypeOK
<1>3. /\ reqCounter' \in Nat
      /\ callbackMap' \in Seq(Thunks \cup {NoThunk}) /\ Len(callbackMap') = reqCounter'
      /\ \A j \in Nat, c \in Calls :
           MappedAt(j, c)' <=> \/ MappedAt(j, c)
                               \/ \E i \in DOMAIN waitingForPort :
                                    j = reqCounter + i /\ waitingForPort[i].call = c
      /\ posted' \subseteq Messages'
      /\ MessagesMatch'
  BY <1>1, <1>2, RunShape
<1>4. ApiTypeOK'
  BY <1>1, <1>2, <1>3 DEF ApiTypeOK
<1>5. ASSUME NEW c \in Calls PROVE CallInOnePlace(c)'
  <2>1. reqCounter \in Nat /\ \A i \in DOMAIN waitingForPort : i \in Nat
    BY <1>2 DEF ApiTypeOK
  <2>2. \A j \in Nat : MappedAt(j, c)' <=> \/ MappedAt(j, c)
                                           \/ \E i \in Nat : j = reqCounter + i /\ WaitsAt(i, c)
    BY <1>3, <2>1 DEF WaitsAt
  <2>3. \A i \in Nat : ~WaitsAt(i, c)'
    BY <1>1 DEF WaitsAt
  <2>4. CallInOnePlace(c)
    BY DEF PageInv
  <2>5. QED
    BY <1>1, <2>1, <2>2, <2>3, <2>4 DEF CallInOnePlace
<1>6. QED
  BY <1>1, <1>2, <1>3, <1>4, <1>5 DEF PageInv, OwnResponseOnce
-----------------------------------------------------------------------------
(***************************************************************************)
(* A message whose callback is still there belongs to the call it was      *)
(* posted for, and that call is nowhere else.                              *)
(***************************************************************************)
LEMMA OwnMessage ==
    ASSUME PageInv, NEW m \in posted, callbackMap[m.id].kind \in {"version", "request"}
    PROVE  /\ m.id \in 1..reqCounter /\ reqCounter \in Nat
           /\ m.thunk \in Thunks /\ callbackMap[m.id] = m.thunk
           /\ m.thunk.call \in Calls /\ MappedAt(m.id, m.thunk.call)
           /\ m.thunk.call \in called /\ results[m.thunk.call] = <<>>
           /\ \A j \in Nat : ~WaitsAt(j, m.thunk.call)
           /\ \A j \in Nat : MappedAt(j, m.thunk.call) => j = m.id
<1>1. /\ m.id \in 1..reqCounter /\ reqCounter \in Nat /\ m.thunk \in Thunks
      /\ DOMAIN callbackMap = 1..reqCounter
      /\ callbackMap[m.id] \in {NoThunk, m.thunk}
  BY DEF PageInv, ApiTypeOK, Messages, MessagesMatch
<1>2. callbackMap[m.id] = m.thunk /\ callbackMap[m.id] # NoThunk
  BY <1>1 DEF NoThunk
<1>3. m.thunk.call \in Calls
  BY <1>1 DEF Thunks
<1>4. MappedAt(m.id, m.thunk.call) /\ m.id \in Nat
  BY <1>1, <1>2 DEF MappedAt
<1>5. CallInOnePlace(m.thunk.call)
  BY <1>3 DEF PageInv
<1>6. QED
  BY <1>1, <1>2, <1>3, <1>4, <1>5 DEF CallInOnePlace

(***************************************************************************)
(* The response to a call's request: its callback is taken out and called. *)
(***************************************************************************)
LEMMA ResponseStep ==
    ASSUME PageInv, NEW m \in posted, NEW more \in BOOLEAN, Response(m, more)
    PROVE  PageInv'
<1> DEFINE c == m.thunk.call
<1>1. /\ callbackMap[m.id].kind = "request" /\ posted' \subseteq posted
      /\ callbackMap' = [callbackMap EXCEPT ![m.id] = NoThunk]
      /\ results' = [results EXCEPT ![callbackMap[m.id].call] = Append(@, m.thunk)]
      /\ UNCHANGED <<browser, called, versionKnown, port, connected, waitingForPort,
                     reqCounter, dropped, unread>>
  BY DEF Response, Answered
<1>2. ApiTypeOK /\ MessagesMatch /\ OwnResponseOnce
  BY DEF PageInv
<1>3. /\ m.id \in 1..reqCounter /\ reqCounter \in Nat
      /\ m.thunk \in Thunks /\ callbackMap[m.id] = m.thunk
      /\ c \in Calls /\ MappedAt(m.id, c)
      /\ c \in called /\ results[c] = <<>>
      /\ \A j \in Nat : ~WaitsAt(j, c)
      /\ \A j \in Nat : MappedAt(j, c) => j = m.id
  BY <1>1, OwnMessage
<1>4. m.thunk = RequestOf(c)
  BY <1>1, <1>3 DEF Thunks, RequestOf
<1> HIDE DEF c
<1>5. /\ callbackMap' \in Seq(Thunks \cup {NoThunk}) /\ Len(callbackMap') = reqCounter
      /\ DOMAIN callbackMap' = 1..reqCounter
      /\ callbackMap'[m.id] = NoThunk
      /\ \A i \in 1..reqCounter : i # m.id => callbackMap'[i] = callbackMap[i]
  BY <1>1, <1>2, <1>3, TakeOut
<1>6. /\ DOMAIN results' = Calls
      /\ results'[c] = <<RequestOf(c)>>
      /\ \A d \in Calls \ {c} : results'[d] = results[d]
  <2>1. results' = [results EXCEPT ![c] = Append(@, RequestOf(c))] /\ DOMAIN results = Calls
    BY <1>1, <1>2, <1>3, <1>4 DEF ApiTypeOK, c
  <2>2. Append(<<>>, RequestOf(c)) = <<RequestOf(c)>>
    OBVIOUS
  <2>3. QED
    BY <1>3, <2>1, <2>2
<1>7. ApiTypeOK'
  BY <1>1, <1>2, <1>5, <1>6 DEF ApiTypeOK, Messages
<1>8. ASSUME NEW d \in Calls PROVE CallInOnePlace(d)'
  <2>1. CallInOnePlace(d) /\ DOMAIN callbackMap = 1..reqCounter
    BY DEF PageInv, ApiTypeOK
  <2>2. \A i \in Nat : (WaitsAt(i, d)' <=> WaitsAt(i, d))
                       /\ (MappedAt(i, d)' <=> MappedAt(i, d) /\ i # m.id)
    BY <1>1, <1>5, <2>1 DEF WaitsAt, MappedAt
  <2>3. CASE d = c
    <3>1. \A i \in Nat : ~WaitsAt(i, c)' /\ ~MappedAt(i, c)'
      BY <1>3, <2>2, <2>3
    <3>2. QED
      BY <1>1, <1>3, <2>3, <3>1 DEF CallInOnePlace
  <2>4. CASE d # c
    BY <1>1, <1>6, <2>1, <2>2, <2>4 DEF CallInOnePlace
  <2>5. QED
    BY <2>3, <2>4
<1>9. MessagesMatch'
  BY <1>1, <1>2, <1>5 DEF MessagesMatch, ApiTypeOK, Messages
<1>10. OwnResponseOnce'
  BY <1>2, <1>6 DEF OwnResponseOnce, RequestOf
<1>11. QED
  BY <1>7, <1>8, <1>9, <1>10 DEF PageInv

(***************************************************************************)
(* The answer to a question for the version: the call's request is posted  *)
(* under the next id.                                                      *)
(***************************************************************************)
LEMMA VersionResponseStep ==
    ASSUME PageInv, NEW m \in posted, NEW more \in BOOLEAN, VersionResponse(m, more)
    PROVE  PageInv'
<1> DEFINE c == m.thunk.call
           map == [callbackMap EXCEPT ![m.id] = NoThunk]
<1>1. /\ callbackMap[m.id].kind = "version"
      /\ reqCounter' = reqCounter + 1
      /\ callbackMap' = Append(map, RequestOf(callbackMap[m.id].call))
      /\ posted' \subseteq posted
            \cup {[id |-> reqCounter + 1, thunk |-> RequestOf(callbackMap[m.id].call)]}
      /\ UNCHANGED <<browser, called, port, connected, waitingForPort, dropped, unread, results>>
  BY DEF VersionResponse, RequestOf
<1>2. ApiTypeOK /\ MessagesMatch /\ OwnResponseOnce
  BY DEF PageInv
<1>3. /\ m.id \in 1..reqCounter /\ reqCounter \in Nat
      /\ m.thunk \in Thunks /\ callbackMap[m.id] = m.thunk
      /\ c \in Calls /\ MappedAt(m.id, c)
      /\ c \in called /\ results[c] = <<>>
      /\ \A j \in Nat : ~WaitsAt(j, c)
      /\ \A j \in Nat : MappedAt(j, c) => j = m.id
  BY <1>1, OwnMessage
<1>4. /\ map \in Seq(Thunks \cup {NoThunk}) /\ Len(map) = reqCounter
      /\ map[m.id] = NoThunk
      /\ \A i \in 1..reqCounter : i # m.id => map[i] = callbackMap[i]
  BY <1>2, <1>3, TakeOut
<1>5. RequestOf(c) \in Thunks /\ RequestOf(c) # NoThunk /\ RequestOf(c).call = c
  BY <1>3 DEF RequestOf, Thunks, NoThunk
<1>6. callbackMap' = Append(map, RequestOf(c))
      /\ posted' \subseteq posted \cup {[id |-> reqCounter + 1, thunk |-> RequestOf(c)]}
  BY <1>1, <1>3
<1> HIDE DEF c, map
<1>7. /\ callbackMap' \in Seq(Thunks \cup {NoThunk}) /\ Len(callbackMap') = reqCounter'
      /\ DOMAIN callbackMap' = 1..(reqCounter + 1)
      /\ \A i \in 1..reqCounter : callbackMap'[i] = map[i]
      /\ callbackMap'[reqCounter + 1] = RequestOf(c)
  <2> DEFINE S == Thunks \cup {NoThunk}
  <2>1. map \in Seq(S) /\ RequestOf(c) \in S
    BY <1>4, <1>5
  <2> HIDE DEF S
  <2>2. /\ callbackMap' \in Seq(S) /\ Len(callbackMap') = reqCounter + 1
        /\ DOMAIN callbackMap' = 1..(reqCounter + 1)
        /\ \A i \in 1..reqCounter : callbackMap'[i] = map[i]
        /\ callbackMap'[reqCounter + 1] = RequestOf(c)
    BY <1>3, <1>4, <1>6, <2>1
  <2>3. QED
    BY <1>1, <2>2 DEF S
<1>8. reqCounter' \in Nat /\ reqCounter' = reqCounter + 1
  BY <1>1, <1>3
<1>9. ASSUME NEW n \in posted' PROVE n \in Messages' /\ callbackMap'[n.id] \in {NoThunk, n.thunk}
  <2>1. CASE n \in posted
    <3>1. n.id \in 1..reqCounter /\ n.thunk \in Thunks /\ callbackMap[n.id] \in {NoThunk, n.thunk}
          /\ n = [id |-> n.id, thunk |-> n.thunk]
      BY <1>2, <2>1 DEF ApiTypeOK, Messages, MessagesMatch
    <3>2. n.id \in 1..reqCounter'
      BY <1>3, <1>8, <3>1
    <3>3. callbackMap'[n.id] \in {NoThunk, n.thunk}
      BY <1>4, <1>7, <3>1
    <3>4. QED
      BY <3>1, <3>2, <3>3 DEF Messages
  <2>2. CASE n = [id |-> reqCounter + 1, thunk |-> RequestOf(c)]
    <3>1. n.id = reqCounter + 1 /\ n.thunk = RequestOf(c) /\ n.id \in 1..reqCounter'
      BY <1>3, <1>8, <2>2
    <3>2. QED
      BY <1>5, <1>7, <2>2, <3>1 DEF Messages
  <2>3. QED
    BY <1>6, <1>9, <2>1, <2>2
<1>10. ApiTypeOK'
  BY <1>1, <1>2, <1>7, <1>8, <1>9 DEF ApiTypeOK
<1>11. ASSUME NEW d \in Calls PROVE CallInOnePlace(d)'
  <2>1. CallInOnePlace(d) /\ DOMAIN callbackMap = 1..reqCounter
    BY DEF PageInv, ApiTypeOK
  <2>2. \A i \in Nat : WaitsAt(i, d)' <=> WaitsAt(i, d)
    BY <1>1 DEF WaitsAt
  <2>3. ASSUME NEW i \in Nat
        PROVE  MappedAt(i, d)' <=> \/ MappedAt(i, d) /\ i # m.id
                                   \/ i = reqCounter + 1 /\ d = c
    <3>1. CASE i \in 1..reqCounter
      <4>1. i \in 1..(reqCounter + 1) /\ i # reqCounter + 1
        BY <1>3, <3>1
      <4>2. QED
        BY <1>4, <1>7, <2>1, <3>1, <4>1 DEF MappedAt
    <3>2. CASE i = reqCounter + 1
      <4>1. i \notin 1..reqCounter /\ i \in 1..(reqCounter + 1)
        BY <1>3, <3>2
      <4>2. QED
        BY <1>5, <1>7, <2>1, <3>2, <4>1 DEF MappedAt
    <3>3. CASE i \notin 1..reqCounter /\ i # reqCounter + 1
      <4>1. i \notin 1..(reqCounter + 1)
        BY <1>3, <3>3
      <4>2. QED
        BY <1>7, <2>1, <3>3, <4>1 DEF MappedAt
    <3>4. QED
      BY <3>1, <3>2, <3>3
  <2>4. CASE d = c
    <3>1. \A i \in Nat : ~WaitsAt(i, c)' /\ (MappedAt(i, c)' <=> i = reqCounter + 1)
      BY <1>3, <2>2, <2>3, <2>4
    <3>2. QED
      BY <1>1, <1>3, <2>4, <3>1 DEF CallInOnePlace
  <2>5. CASE d # c
    <3>1. \A i \in Nat : MappedAt(i, d)' => MappedAt(i, d)
      BY <2>3, <2>5
    <3>2. QED
      BY <1>1, <2>1, <2>2, <3>1 DEF CallInOnePlace
  <2>6. QED
    BY <2>4, <2>5
<1>12. MessagesMatch' /\ OwnResponseOnce'
  BY <1>1, <1>2, <1>9 DEF MessagesMatch, OwnResponseOnce
<1>13. QED
  BY <1>10, <1>11, <1>12 DEF PageInv
-----------------------------------------------------------------------------
(***************************************************************************)
(* The callback of a call of the page is called at most once and with the  *)
(* response to its own request, for any number of calls, whatever order    *)
(* responses come in and however often, and however the port is made.      *)
(***************************************************************************)
THEOREM CallsAnsweredOnce == ApiSpec => []OwnResponseOnce
<1>1. ApiInit => PageInv
  <2> SUFFICES ASSUME ApiInit PROVE PageInv
    OBVIOUS
  <2>1. ApiTypeOK
    BY DEF ApiInit, ApiTypeOK
  <2>2. ASSUME NEW c \in Calls PROVE CallInOnePlace(c)
    BY DEF ApiInit, CallInOnePlace, WaitsAt, MappedAt
  <2>3. QED
    BY <2>1, <2>2 DEF ApiInit, PageInv, MessagesMatch, OwnResponseOnce
<1>2. PageInv /\ [ApiNext]_apiVars => PageInv'
  <2> SUFFICES ASSUME PageInv, [ApiNext]_apiVars PROVE PageInv'
    OBVIOUS
  <2>1. ASSUME NEW c \in Calls, Call(c) PROVE PageInv'
    BY <2>1, CallStep
  <2>2. CASE MakesPort
    <3>1. CASE GotPort
      BY <3>1, GotPortStep
    <3>2. ASSUME NEW lastError \in BOOLEAN, PingAnswered(lastError) PROVE PageInv'
      BY <3>2, Stays DEF PingAnswered, Moves
    <3>3. ASSUME NEW gotPort \in {connected, FALSE}, ForwarderInit(gotPort) PROVE PageInv'
      BY <3>3, Stays DEF ForwarderInit, Moves
    <3>4. CASE IframeLoads
      BY <3>4, Stays DEF IframeLoads, Moves
    <3>5. QED
      BY <2>2, <3>1, <3>2, <3>3, <3>4 DEF MakesPort
  <2>3. ASSUME NEW m \in posted, UnknownResponse(m) PROVE PageInv'
    BY <2>3, Stays DEF UnknownResponse, Answered
  <2>4. ASSUME NEW m \in posted, NullResponse(m) PROVE PageInv'
    BY <2>4, Stays DEF NullResponse, Answered
  <2>5. ASSUME NEW id \in Ids, ResponseTo(id) PROVE PageInv'
    BY <2>3, <2>4, <2>5, ResponseStep, VersionResponseStep DEF ResponseTo
  <2>6. ASSUME NEW m \in posted, Drop(m) PROVE PageInv'
    BY <2>6, Stays DEF Drop
  <2>7. CASE ExtensionGone
    BY <2>7, Stays DEF ExtensionGone
  <2>8. CASE UNCHANGED apiVars
    BY <2>8, Stays DEF apiVars
  <2>9. QED
    BY <2>1, <2>2, <2>5, <2>6, <2>7, <2>8 DEF ApiNext
<1>3. PageInv => OwnResponseOnce
  BY DEF PageInv
<1>4. QED
  BY <1>1, <1>2, <1>3, PTL DEF ApiSpec
-----------------------------------------------------------------------------
(***************************************************************************)
(* EnrollRequests.                                                         *)
(***************************************************************************)
USE PatienceAssumption DEF PatienceAssumption

(***************************************************************************)
(* What a notification does: nothing if the Enroller is done; otherwise it *)
(* closes Enroller and watchdog and sends one answer.                      *)
(***************************************************************************)
LEMMA NotifyOnce ==
    ASSUME NEW answer, Notify(answer)
    PROVE  \/ /\ done /\ done' = done /\ watchdog' = watchdog /\ sent' = sent
           \/ /\ ~done /\ done' = TRUE /\ watchdog' = FALSE /\ sent' = Append(sent, answer)
  BY DEF Notify, CloseEnroller, CloseWatchdog, SendResponse, watchdogVars, responseVars

LEMMA SilentKeeps ==
    ASSUME Silent
    PROVE  done' = done /\ watchdog' = watchdog /\ sent' = sent
  BY DEF Silent, watchdogVars, responseVars

\* No answer was sent, or one.
Responses == {"OK", "BAD_REQUEST", "TIMEOUT", "HELPER_ERROR"}
LoneAnswer == sent \in Seq(Responses) /\ (sent = <<>> \/ Len(sent) = 1)

LEMMA FirstIsLone ==
    ASSUME NEW answer \in Responses, sent = <<>>, sent' = Append(sent, answer)
    PROVE  LoneAnswer'
<1>1. <<>> \in Seq(Responses) /\ Len(<<>>) = 0
  OBVIOUS
<1>2. Append(<<>>, answer) \in Seq(Responses) /\ Len(Append(<<>>, answer)) = 1
  BY <1>1
<1> QED
  BY <1>2 DEF LoneAnswer

LEMMA StillLone ==
    ASSUME LoneAnswer, sent' = sent
    PROVE  LoneAnswer'
  BY DEF LoneAnswer

\* Nothing that could lead to an answer is under way in the Enroller.
Quiet == waiting = "nothing" /\ running = {} /\ ~timer

(***************************************************************************)
(* Once an answer was sent the watchdog is off, and the Enroller is done or*)
(* was never started (an invalid request).                                 *)
(***************************************************************************)
AnswerInv ==
    /\ LoneAnswer
    /\ patience = "not come" => sent = <<>> /\ Quiet /\ ~watchdog
    /\ sent # <<>> => ~watchdog /\ (done \/ Quiet)

(***************************************************************************)
(* An answer that is the first, sent with Enroller and watchdog closed,    *)
(* keeps the invariant, and so does a step that sends none and starts      *)
(* nothing.                                                                *)
(***************************************************************************)
LEMMA FirstAnswer ==
    ASSUME NEW answer \in Responses, sent = <<>>, sent' = Append(sent, answer),
           patience' # "not come", done', ~watchdog'
    PROVE  AnswerInv'
<1>1. LoneAnswer'
  BY FirstIsLone
<1> QED
  BY <1>1 DEF AnswerInv

\* The Enroller is in the middle of the request.
Busy == waiting # "nothing" \/ running # {} \/ timer

LEMMA BusyUnanswered ==
    ASSUME AnswerInv, Busy
    PROVE  patience # "not come" /\ (~done => sent = <<>>)
  BY DEF AnswerInv, Quiet, Busy

LEMMA NoAnswer ==
    ASSUME AnswerInv, sent' = sent, patience' # "not come",
           watchdog' => watchdog, done => done', ~done => sent = <<>>
    PROVE  AnswerInv'
<1>1. LoneAnswer'
  BY StillLone DEF AnswerInv
<1>2. sent' # <<>> => ~watchdog' /\ done'
  BY DEF AnswerInv
<1> QED
  BY <1>1, <1>2 DEF AnswerInv

\* A step that leaves alone all that AnswerInv is about.
LEMMA Elsewhere ==
    ASSUME AnswerInv, UNCHANGED <<sent, patience, waiting, running, timer>>,
           watchdog' => watchdog, done => done'
    PROVE  AnswerInv'
<1>1. LoneAnswer'
  BY StillLone DEF AnswerInv
<1>2. Quiet => Quiet'
  BY DEF Quiet
<1>3. patience' = "not come" => sent' = <<>> /\ Quiet' /\ ~watchdog'
  BY <1>2 DEF AnswerInv
<1>4. sent' # <<>> => ~watchdog' /\ (done' \/ Quiet')
  BY <1>2 DEF AnswerInv
<1> QED
  BY <1>1, <1>3, <1>4 DEF AnswerInv

LEMMA NotifyKeeps ==
    ASSUME AnswerInv, Busy, patience' = patience, NEW answer \in Responses,
           Notify(answer) \/ Silent
    PROVE  AnswerInv'
<1>1. patience' # "not come" /\ (~done => sent = <<>>)
  BY BusyUnanswered
<1>2. CASE done' = done /\ watchdog' = watchdog /\ sent' = sent
  BY <1>1, <1>2, NoAnswer
<1>3. CASE ~done /\ done' = TRUE /\ watchdog' = FALSE /\ sent' = Append(sent, answer)
  BY <1>1, <1>3, FirstAnswer
<1> QED
  BY <1>2, <1>3, SilentKeeps, NotifyOnce

(***************************************************************************)
(* A page gets at most one answer to an enroll request, whatever meets:    *)
(* checks, helpers, both timers, disconnect.  sendResponseOnce and the     *)
(* wrapped callbacks have no part in the proof.                            *)
(***************************************************************************)
THEOREM AnsweredOnce == Spec => []OneEnrollResponse
<1>1. Init => AnswerInv
  <2> SUFFICES ASSUME Init
               PROVE  AnswerInv
    OBVIOUS
  <2>1. sent = <<>> /\ waiting = "nothing" /\ running = {} /\ ~timer /\ ~watchdog
    BY DEF Init
  <2>2. LoneAnswer
    BY <2>1 DEF LoneAnswer
  <2> QED
    BY <2>1, <2>2 DEF AnswerInv, Quiet
<1>2. AnswerInv /\ [Next]_vars => AnswerInv'
  <2> SUFFICES ASSUME AnswerInv, [Next]_vars
               PROVE  AnswerInv'
    OBVIOUS
  <2> USE DEF pageVars, enrollerVars, watchdogVars, helperVars, responseVars
  <2>1. ASSUME NEW how \in Patience, HandleEnrollRequest(how)
        PROVE  AnswerInv'
    <3>1. sent' = sent /\ sent = <<>> /\ patience' # "not come" /\ LoneAnswer'
      BY <2>1, StillLone DEF HandleEnrollRequest, AnswerInv
    <3> QED
      BY <3>1 DEF AnswerInv
  <2>2. CASE InvalidRequest
    <3>1. sent = <<>> /\ Quiet /\ ~watchdog
      BY <2>2 DEF InvalidRequest, AnswerInv
    <3>2. LoneAnswer'
      <4>1. sent' = Append(sent, "BAD_REQUEST") /\ "BAD_REQUEST" \in Responses
        BY <2>2 DEF InvalidRequest, SendResponse, Responses
      <4> QED
        BY <3>1, <4>1, FirstIsLone
    <3>3. patience' = "none" /\ UNCHANGED <<waiting, running, timer, watchdog>>
      BY <2>2 DEF InvalidRequest
    <3> QED
      BY <3>1, <3>2, <3>3 DEF AnswerInv, Quiet
  <2>3. CASE UNCHANGED vars \/ OtherRequest \/ Checking
    BY <2>3, Elsewhere DEF vars, OtherRequest, Checking
  <2>4. CASE Disconnect
    <3>1. UNCHANGED <<sent, patience, waiting, running, timer>>
      BY <2>4 DEF Disconnect
    <3>2. (watchdog' => watchdog) /\ (done => done')
      BY <2>4 DEF Disconnect, CloseEnroller, CloseWatchdog
    <3> QED
      BY <3>1, <3>2, Elsewhere
  <2>5. ASSUME NEW result \in BOOLEAN, InForeground(result)
        PROVE  AnswerInv'
    BY <2>5, Elsewhere DEF InForeground
  <2>6. CASE TabKnown \/ TabUnknown \/ \E same, bad \in SUBSET AppIds : OriginClaims(same, bad)
    <3>1. Busy /\ sent' = sent /\ patience' = patience /\ watchdog' = watchdog
             /\ (done => done')
      BY <2>6 DEF Busy, TabKnown, TabUnknown, OriginClaims, CloseEnroller
    <3> QED
      BY <3>1, BusyUnanswered, NoAnswer
  <2>7. ASSUME NEW accepted \in SUBSET Helpers, AppIdChecked(accepted)
        PROVE  AnswerInv'
    <3>1. Busy /\ sent' = sent /\ patience' = patience /\ watchdog' = watchdog /\ done' = done
      BY <2>7 DEF Busy, AppIdChecked
    <3> QED
      BY <3>1, BusyUnanswered, NoAnswer
  <2>8. ASSUME NEW result \in BOOLEAN, OriginApproved(result)
        PROVE  AnswerInv'
    <3>1. Busy /\ patience' = patience /\ (Notify("TIMEOUT") \/ Silent) /\ "TIMEOUT" \in Responses
      BY <2>8 DEF OriginApproved, Busy, Responses
    <3> QED
      BY <3>1, NotifyKeeps
  <2>9. CASE OriginRefused \/ AppIdRefused
    <3>1. Busy /\ patience' = patience /\ Notify("BAD_REQUEST") /\ "BAD_REQUEST" \in Responses
      BY <2>9 DEF OriginRefused, AppIdRefused, Busy, Responses
    <3> QED
      BY <3>1, NotifyKeeps
  <2>10. ASSUME NEW h \in Helpers, HelperSucceeds(h) \/ HelperFails(h)
         PROVE  AnswerInv'
    <3>1. Busy /\ patience' = patience /\ "OK" \in Responses /\ "HELPER_ERROR" \in Responses
      BY <2>10 DEF HelperSucceeds, HelperFails, Answers, Busy, Responses
    <3>2. Notify("OK") \/ Notify("HELPER_ERROR") \/ Silent
      BY <2>10 DEF HelperSucceeds, HelperFails
    <3> QED
      BY <3>1, <3>2, NotifyKeeps
  <2>11. CASE TimerExpires
    <3>1. Busy /\ patience' = patience /\ (Notify("TIMEOUT") \/ Silent) /\ "TIMEOUT" \in Responses
      BY <2>11 DEF TimerExpires, Busy, Responses
    <3> QED
      BY <3>1, NotifyKeeps
  <2>12. CASE WatchdogTimeout
    <3>1. sent = <<>> /\ patience' # "not come"
      BY <2>12 DEF WatchdogTimeout, AnswerInv
    <3>2. sent' = Append(sent, "TIMEOUT") /\ done' /\ ~watchdog' /\ "TIMEOUT" \in Responses
      BY <2>12 DEF WatchdogTimeout, CloseEnroller, CloseWatchdog, SendResponse, Responses
    <3> QED
      BY <3>1, <3>2, FirstAnswer
  <2> QED
    BY <2>1, <2>2, <2>3, <2>4, <2>5, <2>6, <2>7, <2>8, <2>9, <2>10, <2>11, <2>12 DEF Next
<1>3. AnswerInv => OneEnrollResponse
  <2>1. AnswerInv => LoneAnswer
    BY DEF AnswerInv
  <2>2. sent = <<>> => Len(sent) = 0
    OBVIOUS
  <2>3. LoneAnswer => Len(sent) \in {0, 1}
    BY <2>2 DEF LoneAnswer
  <2>4. ASSUME NEW n \in {0, 1} PROVE n <= 1
    OBVIOUS
  <2> QED
    BY <2>1, <2>3, <2>4 DEF OneEnrollResponse
<1> QED
  BY <1>1, <1>2, <1>3, PTL DEF Spec
-----------------------------------------------------------------------------
(***************************************************************************)
(* Helpers run under a handler the Enroller still has, or were all closed  *)
(* with it; a done Enroller has none.                                      *)
(***************************************************************************)
StopInv ==
    /\ handler \in BOOLEAN /\ running \subseteq Helpers
    /\ wclosed => done
    /\ handler => ~done
    /\ running # {} => handler \/ helpersClosed = Helpers

LEMMA CloseStops ==
    ASSUME StopInv, CloseEnroller, running' \subseteq running
    PROVE  StopInv'
  BY DEF StopInv, CloseEnroller, CloseHelpers

LEMMA NotifyStops ==
    ASSUME StopInv, running' \subseteq running, NEW answer, Notify(answer) \/ Silent
    PROVE  StopInv'
<1>1. CASE UNCHANGED <<done, handler, helpersClosed, wclosed>>
  BY <1>1 DEF StopInv
<1>2. CASE CloseEnroller
  BY <1>2, CloseStops
<1> QED
  BY <1>1, <1>2 DEF Notify, Silent, watchdogVars

(***************************************************************************)
(* Once the request was answered or closed, every helper still at work was *)
(* told to stop: appIdChecked looks at done_ before it starts them, so     *)
(* none starts afterwards.                                                 *)
(***************************************************************************)
THEOREM StopsHelpers == Spec => []HelpersStopped
<1>1. Init => StopInv
  BY DEF Init, StopInv
<1>2. StopInv /\ [Next]_vars => StopInv'
  <2> SUFFICES ASSUME StopInv, [Next]_vars
               PROVE  StopInv'
    OBVIOUS
  <2> USE DEF pageVars, enrollerVars, watchdogVars, helperVars, responseVars
  <2>1. ASSUME NEW how \in Patience, HandleEnrollRequest(how)
        PROVE  StopInv'
    BY <2>1 DEF HandleEnrollRequest, StopInv
  <2>2. CASE InvalidRequest \/ OtherRequest \/ Checking \/ TabKnown \/ UNCHANGED vars
    <3>1. UNCHANGED <<done, wclosed, handler, running, helpersClosed>>
      BY <2>2 DEF InvalidRequest, OtherRequest, Checking, TabKnown, vars
    <3> QED
      BY <3>1 DEF StopInv
  <2>3. CASE Disconnect
    <3>1. CASE CloseEnroller
      BY <2>3, <3>1, CloseStops DEF Disconnect
    <3>2. CASE ~portCloseable
      BY <2>3, <3>2 DEF Disconnect, StopInv
    <3> QED
      BY <2>3, <3>1, <3>2 DEF Disconnect
  <2>4. ASSUME NEW result \in BOOLEAN, InForeground(result)
        PROVE  StopInv'
    BY <2>4 DEF InForeground, StopInv
  <2>5. CASE TabUnknown \/ WatchdogTimeout
    BY <2>5, CloseStops DEF TabUnknown, WatchdogTimeout
  <2>6. ASSUME NEW same, NEW bad, OriginClaims(same, bad)
        PROVE  StopInv'
    BY <2>6 DEF OriginClaims, StopInv
  <2>7. ASSUME NEW accepted \in SUBSET Helpers, AppIdChecked(accepted)
        PROVE  StopInv'
    <3>1. UNCHANGED <<done, wclosed, helpersClosed>>
      BY <2>7 DEF AppIdChecked
    <3>2. CASE UNCHANGED <<handler, running>>
      BY <3>1, <3>2 DEF StopInv
    <3>3. CASE ~done /\ handler' = TRUE /\ running' = accepted
      BY <3>1, <3>3 DEF StopInv
    <3> QED
      BY <2>7, <3>2, <3>3 DEF AppIdChecked, RunHelpers
  <2>8. ASSUME NEW result \in BOOLEAN, OriginApproved(result)
        PROVE  StopInv'
    BY <2>8, NotifyStops DEF OriginApproved
  <2>9. CASE OriginRefused \/ AppIdRefused \/ TimerExpires
    BY <2>9, NotifyStops DEF OriginRefused, AppIdRefused, TimerExpires
  <2>10. ASSUME NEW h \in Helpers, HelperSucceeds(h) \/ HelperFails(h)
         PROVE  StopInv'
    BY <2>10, NotifyStops DEF HelperSucceeds, HelperFails, Answers
  <2> QED
    BY <2>1, <2>2, <2>3, <2>4, <2>5, <2>6, <2>7, <2>8, <2>9, <2>10 DEF Next
<1>3. StopInv => HelpersStopped
  BY DEF StopInv, HelpersStopped
<1> QED
  BY <1>1, <1>2, <1>3, PTL DEF Spec
=============================================================================

-------------------------- MODULE U2fServerProofs --------------------------
(***************************************************************************)
(* Proofs about U2fServer, for any number of threads, accounts, keys and   *)
(* signatures: its type invariant; the counter stored for a key never runs *)
(* ahead of the key's own; the counters accepted for a key increase.       *)
(***************************************************************************)
EXTENDS U2fServer, TLAPS, SequenceTheorems, WellFoundedInduction

-----------------------------------------------------------------------------
(***************************************************************************)
(* The first entry with a public key is one, and the least, if there is    *)
(* any: a non-empty set of naturals has a least member.                    *)
(***************************************************************************)
LEMMA FirstEntryIsLeast ==
    ASSUME NEW tokens \in Seq(SecurityKeyData), NEW publicKey,
           Entries(tokens, publicKey) # {}
    PROVE  /\ FirstEntry(tokens, publicKey) \in Entries(tokens, publicKey)
           /\ \A j \in Entries(tokens, publicKey) : FirstEntry(tokens, publicKey) <= j
<1> DEFINE E == Entries(tokens, publicKey)
<1>1. E \subseteq Nat
  BY DEF Entries
<1>2. PICK i \in E : \A j \in E : <<j, i>> \notin OpToRel(<, Nat)
  BY <1>1, WFMin, NatLessThanWellFounded, Zenon
<1>3. \A j \in E : ~(j < i)
  BY <1>1, <1>2, Zenon DEF OpToRel
<1>4. \A j \in E : i <= j
  BY <1>1, <1>3
<1> QED
  BY <1>4 DEF FirstEntry

(***************************************************************************)
(* updateSecurityKeyCounter changes one counter in the list, if any.       *)
(***************************************************************************)
LEMMA WithCounterProperties ==
    ASSUME NEW tokens \in Seq(SecurityKeyData), NEW publicKey \in 1..MaxPairs,
           NEW value \in 0..MaxCounter
    PROVE  LET new == WithCounter(tokens, publicKey, value) IN
           /\ new \in Seq(SecurityKeyData)
           /\ DOMAIN new = DOMAIN tokens
           /\ \A i \in DOMAIN tokens : new[i].counter \in {tokens[i].counter, value}
           /\ \A i \in DOMAIN tokens : new[i].publicKey = tokens[i].publicKey
<1> DEFINE f == FirstEntry(tokens, publicKey)
           entry == [publicKey |-> publicKey, counter |-> value]
           set == [tokens EXCEPT ![f] = entry]
<1>1. CASE Entries(tokens, publicKey) = {}
  BY <1>1 DEF WithCounter
<1>2. CASE Entries(tokens, publicKey) # {}
  <2>1. f \in DOMAIN tokens /\ tokens[f].publicKey = publicKey
    BY <1>2, FirstEntryIsLeast DEF Entries
  <2>2. entry \in SecurityKeyData
    BY DEF SecurityKeyData
  <2>3. set \in Seq(SecurityKeyData) /\ DOMAIN set = DOMAIN tokens
    BY <2>1, <2>2
  <2>4. \A i \in DOMAIN tokens : set[i] = IF i = f THEN entry ELSE tokens[i]
    BY <2>1
  <2>5. WithCounter(tokens, publicKey, value) = set
    BY <1>2 DEF WithCounter
  <2> QED
    BY <2>1, <2>3, <2>4, <2>5
<1> QED
  BY <1>1, <1>2

(***************************************************************************)
(* removeSecurityKey closes the gap that the removed entry leaves.         *)
(***************************************************************************)
LEMMA WithoutShape ==
    ASSUME NEW tokens \in Seq(SecurityKeyData), NEW publicKey,
           Entries(tokens, publicKey) # {}
    PROVE  LET new == Without(tokens, publicKey)
               f == FirstEntry(tokens, publicKey) IN
           /\ f \in 1..Len(tokens) /\ tokens[f].publicKey = publicKey
           /\ new \in Seq(SecurityKeyData) /\ Len(new) = Len(tokens) - 1
           /\ DOMAIN new = 1..(Len(tokens) - 1)
           /\ \A i \in 1..(f - 1) : new[i] = tokens[i]
           /\ \A i \in f..(Len(tokens) - 1) : new[i] = tokens[i + 1]
<1> DEFINE f == FirstEntry(tokens, publicKey)
           front == SubSeq(tokens, 1, f - 1)
           back == SubSeq(tokens, f + 1, Len(tokens))
           new == front \o back
<1>1. f \in 1..Len(tokens) /\ tokens[f].publicKey = publicKey
  BY FirstEntryIsLeast DEF Entries
<1>2. /\ front \in Seq(SecurityKeyData) /\ Len(front) = f - 1
      /\ \A i \in 1..(f - 1) : front[i] = tokens[i]
  BY <1>1
<1>3. /\ back \in Seq(SecurityKeyData) /\ Len(back) = Len(tokens) - f
      /\ \A i \in 1..(Len(tokens) - f) : back[i] = tokens[f + i]
  BY <1>1
<1>4. /\ new \in Seq(SecurityKeyData) /\ Len(new) = Len(tokens) - 1
      /\ DOMAIN new = 1..(Len(tokens) - 1)
      /\ \A i \in 1..(f - 1) : new[i] = tokens[i]
      /\ \A i \in f..(Len(tokens) - 1) : new[i] = tokens[i + 1]
  <2>1. new \in Seq(SecurityKeyData) /\ Len(new) = Len(front) + Len(back)
    BY <1>2, <1>3
  <2>2. \A i \in 1..Len(new) :
          new[i] = IF i <= Len(front) THEN front[i] ELSE back[i - Len(front)]
    BY <1>2, <1>3
  <2>3. Len(new) = Len(tokens) - 1 /\ DOMAIN new = 1..(Len(tokens) - 1)
    <3>1. Len(new) = (f - 1) + (Len(tokens) - f)
      BY <1>2, <1>3, <2>1
    <3>2. DOMAIN new = 1..Len(new)
      BY <2>1
    <3> HIDE DEF new
    <3> QED
      BY <1>1, <3>1, <3>2
  <2>4. ASSUME NEW i \in 1..(f - 1) PROVE new[i] = tokens[i]
    BY <1>1, <1>2, <2>2, <2>3
  <2>5. ASSUME NEW i \in f..(Len(tokens) - 1) PROVE new[i] = tokens[i + 1]
    <3>1. i \in 1..Len(new) /\ ~(i <= Len(front))
      BY <1>1, <1>2, <2>3
    <3>2. new[i] = back[i - (f - 1)]
      BY <1>2, <2>2, <3>1
    <3>3. i - (f - 1) \in 1..(Len(tokens) - f) /\ f + (i - (f - 1)) = i + 1
      BY <1>1
    <3> QED
      BY <1>3, <3>2, <3>3
  <2> QED
    BY <2>1, <2>3, <2>4, <2>5
<1> QED
  BY <1>1, <1>4 DEF Without

(***************************************************************************)
(* removeSecurityKey leaves entries of the list, and none of another key is*)
(* lost.                                                                   *)
(***************************************************************************)
LEMMA WithoutProperties ==
    ASSUME NEW tokens \in Seq(SecurityKeyData), NEW publicKey,
           Entries(tokens, publicKey) # {}
    PROVE  LET new == Without(tokens, publicKey) IN
           /\ new \in Seq(SecurityKeyData)
           /\ \A i \in DOMAIN new : \E j \in DOMAIN tokens : new[i] = tokens[j]
           /\ \A other : (other # publicKey /\ Entries(tokens, other) # {})
                             => Entries(new, other) # {}
<1> DEFINE f == FirstEntry(tokens, publicKey)
           new == Without(tokens, publicKey)
<1> HIDE DEF new, f
<1>1. f \in 1..Len(tokens) /\ tokens[f].publicKey = publicKey
  BY WithoutShape DEF f
<1>2. /\ new \in Seq(SecurityKeyData) /\ Len(new) = Len(tokens) - 1
      /\ DOMAIN new = 1..(Len(tokens) - 1)
      /\ \A i \in 1..(f - 1) : new[i] = tokens[i]
      /\ \A i \in f..(Len(tokens) - 1) : new[i] = tokens[i + 1]
  BY WithoutShape DEF new, f
<1>3. ASSUME NEW i \in DOMAIN new PROVE \E j \in DOMAIN tokens : new[i] = tokens[j]
  <2>1. CASE i < f
    BY <1>1, <1>2, <2>1
  <2>2. CASE i >= f
    <3>1. i + 1 \in DOMAIN tokens /\ new[i] = tokens[i + 1]
      BY <1>1, <1>2, <2>2
    <3> QED
      BY <3>1
  <2> QED
    BY <1>1, <1>2, <2>1, <2>2
<1>4. ASSUME NEW other, other # publicKey, Entries(tokens, other) # {}
      PROVE  Entries(new, other) # {}
  <2>1. PICK j \in 1..Len(tokens) : tokens[j].publicKey = other
    BY <1>4 DEF Entries
  <2>2. j # f
    BY <1>1, <1>4, <2>1
  <2>3. CASE j < f
    <3>1. j \in DOMAIN new /\ new[j] = tokens[j]
      BY <1>1, <1>2, <2>1, <2>3
    <3> QED
      BY <2>1, <3>1 DEF Entries
  <2>4. CASE j > f
    <3>1. j - 1 \in DOMAIN new /\ new[j - 1] = tokens[j]
      <4>1. j - 1 \in f..(Len(tokens) - 1) /\ (j - 1) + 1 = j
        BY <1>1, <2>1, <2>4
      <4> QED
        BY <1>1, <1>2, <4>1
    <3> QED
      BY <2>1, <3>1 DEF Entries
  <2> QED
    BY <1>1, <2>1, <2>2, <2>3, <2>4
<1> QED
  BY <1>2, <1>3, <1>4 DEF new
-----------------------------------------------------------------------------
(***************************************************************************)
(* The parts of the type invariant that the steps share: sessions are only *)
(* added, so that a response keeps the session it was made for; so are     *)
(* lists.                                                                  *)
(***************************************************************************)
LEMMA TokensType ==
    ASSUME TypeOK, NEW account \in Accounts
    PROVE  /\ Tokens(account) \in Seq(SecurityKeyData)
           /\ Tokens(account) # <<>> =>
                /\ securityKeyDataBase[account] \in DOMAIN lists
                /\ Tokens(account) = lists[securityKeyDataBase[account]]
<1>1. securityKeyDataBase[account] \in 0..Len(lists)
  BY DEF TypeOK
<1>2. CASE securityKeyDataBase[account] = NoList
  BY <1>2 DEF Tokens
<1>3. CASE securityKeyDataBase[account] # NoList
  <2>1. securityKeyDataBase[account] \in DOMAIN lists
    BY <1>1, <1>3 DEF TypeOK, NoList
  <2>2. lists[securityKeyDataBase[account]] \in Seq(SecurityKeyData)
    BY <2>1 DEF TypeOK
  <2> QED
    BY <1>3, <2>1, <2>2 DEF Tokens
<1> QED
  BY <1>2, <1>3

LEMMA SessionsType ==
    ASSUME TypeOK, NEW new \in Seq(SessionData), sessionDataBase' = sessionDataBase \o new,
           UNCHANGED pageVars
    PROVE  /\ sessionDataBase' \in Seq(SessionData)
           /\ registrations' \subseteq Responses' /\ signatures' \subseteq Signatures'
<1>1. sessionDataBase' \in Seq(SessionData) /\ DOMAIN sessionDataBase \subseteq DOMAIN sessionDataBase'
  BY DEF TypeOK
<1> QED
  BY <1>1 DEF TypeOK, pageVars, Responses, Signatures

LEMMA WorkGrows ==
    ASSUME TypeOK, lists' \in Seq(Seq(SecurityKeyData)), Len(lists') >= Len(lists)
    PROVE  Work \subseteq Work'
<1>1. 0..Len(lists) \subseteq 0..Len(lists') /\ 1..Len(lists) \subseteq 1..Len(lists')
  BY DEF TypeOK
<1> QED
  BY <1>1 DEF Work

LEMMA WorkType ==
    ASSUME TypeOK, NEW t \in Threads, lists' \in Seq(Seq(SecurityKeyData)),
           Len(lists') >= Len(lists), work' = [work EXCEPT ![t] = Idle] \/ work' = work
    PROVE  work' \in [Threads -> Work']
<1>1. Idle \in Work'
  BY DEF Work
<1> QED
  BY <1>1, WorkGrows DEF TypeOK

LEMMA AddingType ==
    ASSUME TypeOK, NEW t \in Threads, work[t].step = "adding"
    PROVE  /\ work[t].account \in Accounts /\ work[t].publicKey \in 1..MaxPairs
           /\ work[t].list \in 0..Len(lists) /\ work[t].size \in Nat
<1>1. work[t] \in Work
  BY DEF TypeOK
<1> QED
  BY <1>1 DEF Work, Idle

LEMMA PuttingType ==
    ASSUME TypeOK, NEW t \in Threads, work[t].step = "putting"
    PROVE  /\ work[t].account \in Accounts /\ work[t].publicKey \in 1..MaxPairs
           /\ work[t].list \in 1..Len(lists) /\ work[t].absent \subseteq Accounts
<1>1. work[t] \in Work
  BY DEF TypeOK
<1> QED
  BY <1>1 DEF Work, Idle

LEMMA UpdatingType ==
    ASSUME TypeOK, NEW t \in Threads, work[t].step = "updating"
    PROVE  /\ work[t].account \in Accounts /\ work[t].publicKey \in 1..MaxPairs
           /\ work[t].counter \in 0..MaxCounter
<1>1. work[t] \in Work
  BY DEF TypeOK
<1> QED
  BY <1>1 DEF Work, Idle

(***************************************************************************)
(* tokens.add writes one entry, behind what is left of its list; or it is  *)
(* the first of a new list.                                                *)
(***************************************************************************)
LEMMA AddTokenLists ==
    ASSUME TypeOK, NEW t \in Threads, AddToken(t)
    PROVE  /\ lists' \in Seq(Seq(SecurityKeyData))
           /\ work[t].list = NoList =>
                /\ lists' = Append(lists, <<Token(work[t].publicKey)>>)
                /\ Len(lists') = Len(lists) + 1
                /\ lists'[Len(lists) + 1] = <<Token(work[t].publicKey)>>
                /\ \A l \in DOMAIN lists : l \in DOMAIN lists' /\ lists'[l] = lists[l]
           /\ work[t].list # NoList =>
                /\ Len(lists') = Len(lists) /\ DOMAIN lists' = DOMAIN lists
                /\ work[t].list \in DOMAIN lists
                /\ work[t].size - 1 \in 0..Len(lists[work[t].list])
                /\ lists'[work[t].list] =
                      Append(SubSeq(lists[work[t].list], 1, work[t].size - 1),
                             Token(work[t].publicKey))
                /\ \A l \in DOMAIN lists : l # work[t].list => lists'[l] = lists[l]
<1> DEFINE w == work[t]
           new == Token(w.publicKey)
           old == lists[w.list]
<1>1. w.publicKey \in 1..MaxPairs /\ w.list \in 0..Len(lists)
  BY AddingType DEF AddToken
<1>2. new \in SecurityKeyData
  BY <1>1, BoundsAssumption DEF Token, SecurityKeyData
<1>3. lists \in Seq(Seq(SecurityKeyData))
  BY DEF TypeOK
<1>4. CASE w.list = NoList
  <2>1. lists' = Append(lists, <<new>>)
    BY <1>4 DEF AddToken
  <2> HIDE DEF new
  <2>2. <<new>> \in Seq(SecurityKeyData)
    BY <1>2
  <2> QED
    BY <1>3, <1>4, <2>1, <2>2 DEF new
<1>5. CASE w.list # NoList
  <2>1. /\ w.size \in 1..(Len(old) + 1)
        /\ lists' = [lists EXCEPT ![w.list] = Append(SubSeq(@, 1, w.size - 1), new)]
    BY <1>5 DEF AddToken
  <2>2. w.list \in DOMAIN lists
    BY <1>1, <1>3, <1>5 DEF NoList
  <2>3. old \in Seq(SecurityKeyData)
    BY <1>3, <2>2
  <2>4. w.size - 1 \in 0..Len(old)
    BY <2>1, <2>3
  <2>5. Append(SubSeq(old, 1, w.size - 1), new) \in Seq(SecurityKeyData)
    <3> HIDE DEF old, new
    <3>1. SubSeq(old, 1, w.size - 1) \in Seq(SecurityKeyData)
      BY <2>3, <2>4
    <3> QED
      BY <1>2, <3>1
  <2> DEFINE put == Append(SubSeq(old, 1, w.size - 1), new)
  <2>6. lists' = [lists EXCEPT ![w.list] = put]
    BY <2>1
  <2>7. put \in Seq(SecurityKeyData)
    BY <2>5
  <2> HIDE DEF put
  <2>8. /\ lists' \in Seq(Seq(SecurityKeyData))
        /\ Len(lists') = Len(lists) /\ DOMAIN lists' = DOMAIN lists
        /\ lists'[w.list] = put
        /\ \A l \in DOMAIN lists : l # w.list => lists'[l] = lists[l]
    BY <1>3, <2>2, <2>6, <2>7
  <2> QED
    BY <1>5, <2>2, <2>4, <2>8 DEF put
<1> QED
  BY <1>4, <1>5

LEMMA OverwrittenEntries ==
    ASSUME NEW tokens \in Seq(SecurityKeyData), NEW n \in 0..Len(tokens), NEW new
    PROVE  \A i \in DOMAIN Append(SubSeq(tokens, 1, n), new) :
               \/ Append(SubSeq(tokens, 1, n), new)[i] = new
               \/ i \in DOMAIN tokens /\ Append(SubSeq(tokens, 1, n), new)[i] = tokens[i]
<1> DEFINE front == SubSeq(tokens, 1, n)
<1>1. /\ front \in Seq(SecurityKeyData) /\ Len(front) = n
      /\ \A i \in 1..n : front[i] = tokens[i] /\ i \in DOMAIN tokens
  OBVIOUS
<1> HIDE DEF front
<1>2. \A i \in DOMAIN Append(front, new) :
         Append(front, new)[i] = new \/ (i \in 1..n /\ Append(front, new)[i] = front[i])
  BY <1>1
<1> QED
  BY <1>1, <1>2 DEF front

(***************************************************************************)
(* updateSecurityKeyCounter changes the list of its account only.          *)
(***************************************************************************)
LEMMA UpdatedLists ==
    ASSUME TypeOK, NEW t \in Threads, UpdateSecurityKeyCounter(t)
    PROVE  /\ lists' \in Seq(Seq(SecurityKeyData))
           /\ Len(lists') = Len(lists) /\ DOMAIN lists' = DOMAIN lists
           /\ \A l \in DOMAIN lists :
                lists'[l] = IF l = securityKeyDataBase[work[t].account]
                              THEN WithCounter(lists[l], work[t].publicKey, work[t].counter)
                              ELSE lists[l]
<1> DEFINE w == work[t]
           k == securityKeyDataBase[w.account]
           new == [l \in DOMAIN lists |->
                     IF l = k THEN WithCounter(lists[l], w.publicKey, w.counter) ELSE lists[l]]
<1>1. w.publicKey \in 1..MaxPairs /\ w.counter \in 0..MaxCounter
  BY UpdatingType DEF UpdateSecurityKeyCounter
<1>2. lists' = new
  BY DEF UpdateSecurityKeyCounter
<1>3. ASSUME NEW l \in DOMAIN lists
      PROVE  WithCounter(lists[l], w.publicKey, w.counter) \in Seq(SecurityKeyData)
  <2>1. lists[l] \in Seq(SecurityKeyData)
    BY DEF TypeOK
  <2> QED
    BY <1>1, <2>1, WithCounterProperties
<1>4. \A l \in DOMAIN lists : new[l] \in Seq(SecurityKeyData)
  BY <1>3 DEF TypeOK
<1>5. DOMAIN lists = 1..Len(lists) /\ Len(lists) \in Nat /\ DOMAIN new = DOMAIN lists
  BY DEF TypeOK
<1>6. \A l \in DOMAIN lists :
         new[l] = IF l = k THEN WithCounter(lists[l], w.publicKey, w.counter) ELSE lists[l]
  OBVIOUS
<1>7. new \in [1..Len(lists) -> Seq(SecurityKeyData)]
  BY <1>4, <1>5
<1> HIDE DEF new
<1>8. new \in Seq(Seq(SecurityKeyData)) /\ Len(new) = Len(lists)
  BY <1>5, <1>7
<1> QED
  BY <1>2, <1>5, <1>6, <1>8

(***************************************************************************)
(* The type invariant holds.                                               *)
(***************************************************************************)
THEOREM TypeCorrect == Spec => []TypeOK
<1>1. Init => TypeOK
  BY BoundsAssumption DEF Init, TypeOK, Work, NoList, Idle
<1>2. TypeOK /\ [Next]_vars => TypeOK'
  <2> SUFFICES ASSUME TypeOK, [Next]_vars PROVE TypeOK'
    OBVIOUS
  <2>1. ASSUME NEW account \in Accounts, GetRegistrationRequest(account) PROVE TypeOK'
    <3>1. PICK challenge \in Challenges :
            sessionDataBase' = Append(sessionDataBase, Session(account, challenge, NoKey))
      BY <2>1 DEF GetRegistrationRequest
    <3>2. Session(account, challenge, NoKey) \in SessionData
      BY BoundsAssumption DEF Session, SessionData, NoKey
    <3> DEFINE new == <<Session(account, challenge, NoKey)>>
    <3>3. new \in Seq(SessionData) /\ sessionDataBase' = sessionDataBase \o new
      BY <3>1, <3>2 DEF TypeOK
    <3> HIDE DEF new
    <3>4. UNCHANGED pageVars
      BY <2>1 DEF GetRegistrationRequest
    <3>5. /\ sessionDataBase' \in Seq(SessionData)
          /\ registrations' \subseteq Responses' /\ signatures' \subseteq Signatures'
      BY <3>3, <3>4, SessionsType
    <3> QED
      BY <2>1, <3>5
      DEF GetRegistrationRequest, TypeOK, Work, keyVars, historyVars, pageVars
  <2>2. ASSUME NEW account \in Accounts, GetSignRequest(account) PROVE TypeOK'
    <3>1. PICK challenge \in Challenges :
            sessionDataBase' = sessionDataBase \o
                [i \in DOMAIN Tokens(account) |->
                    Session(account, challenge, Tokens(account)[i].publicKey)]
      BY <2>2 DEF GetSignRequest
    <3> DEFINE new == [i \in DOMAIN Tokens(account) |->
                          Session(account, challenge, Tokens(account)[i].publicKey)]
    <3>2. new \in Seq(SessionData)
      <4>1. Tokens(account) \in Seq(SecurityKeyData)
        BY TokensType
      <4>2. \A i \in DOMAIN Tokens(account) :
              Session(account, challenge, Tokens(account)[i].publicKey) \in SessionData
        <5> TAKE i \in DOMAIN Tokens(account)
        <5>1. Tokens(account)[i] \in SecurityKeyData
          BY <4>1
        <5>2. Tokens(account)[i].publicKey \in 0..MaxPairs
          BY <5>1, BoundsAssumption DEF SecurityKeyData
        <5> QED
          BY <5>2 DEF Session, SessionData
      <4>3. DOMAIN Tokens(account) = 1..Len(Tokens(account)) /\ Len(Tokens(account)) \in Nat
        BY <4>1
      <4> QED
        BY <4>2, <4>3
    <3>3. UNCHANGED pageVars
      BY <2>2 DEF GetSignRequest
    <3>4. /\ sessionDataBase' \in Seq(SessionData)
          /\ registrations' \subseteq Responses' /\ signatures' \subseteq Signatures'
      BY <3>1, <3>2, <3>3, SessionsType
    <3> QED
      BY <2>2, <3>4 DEF GetSignRequest, TypeOK, Work, keyVars, historyVars, pageVars
  <2>3. ASSUME NEW s \in DOMAIN sessionDataBase, Register(s) PROVE TypeOK'
    <3>1. sessionDataBase[s] \in SessionData
      BY DEF TypeOK
    <3>2. pairs + 1 \in 1..MaxPairs
      BY <2>3, BoundsAssumption DEF Register, TypeOK
    <3>3. [session |-> s, challenge |-> sessionDataBase[s].challenge,
           publicKey |-> pairs + 1] \in Responses
      BY <3>1, <3>2 DEF Responses, SessionData
    <3>4. /\ registrations' \subseteq Responses' /\ signatures' \subseteq Signatures'
          /\ pairs' \in 0..MaxPairs
      BY <2>3, <3>2, <3>3 DEF Register, TypeOK, storeVars, Responses, Signatures
    <3> QED
      BY <2>3, <3>4 DEF Register, TypeOK, Work, storeVars, historyVars
  <2>4. ASSUME NEW s \in DOMAIN sessionDataBase, NEW present \in BOOLEAN,
               Authenticate(s, present)
        PROVE  TypeOK'
    <3>1. sessionDataBase[s] \in SessionData
      BY DEF TypeOK
    <3>2. counter + 1 \in 0..MaxCounter /\ sessionDataBase[s].publicKey \in 1..MaxPairs
      BY <2>4, <3>1, BoundsAssumption DEF Authenticate, TypeOK, NoKey, SessionData
    <3>3. [session |-> s, challenge |-> sessionDataBase[s].challenge,
           publicKey |-> sessionDataBase[s].publicKey,
           counter |-> counter + 1, present |-> present] \in Signatures
      BY <3>1, <3>2 DEF Signatures, SessionData
    <3> QED
      BY <2>4, <3>2, <3>3
      DEF Authenticate, TypeOK, Work, storeVars, historyVars, Responses, Signatures
  <2>5. ASSUME NEW t \in Threads, NEW r \in registrations, CheckRegistration(t, r)
        PROVE  TypeOK'
    <3>1. r \in Responses /\ sessionDataBase[r.session] \in SessionData
      BY DEF TypeOK, Responses
    <3> DEFINE account == sessionDataBase[r.session].account
    <3>2. account \in Accounts /\ r.publicKey \in 1..MaxPairs
      BY <3>1 DEF SessionData, Responses
    <3>3. [step |-> "adding", account |-> account, publicKey |-> r.publicKey,
           list |-> securityKeyDataBase[account], size |-> 0] \in Work
      BY <3>2 DEF Work, TypeOK
    <3>4. work' \in [Threads -> Work']
      BY <2>5, <3>3 DEF CheckRegistration, TypeOK, Work, storeVars
    <3>5. rushed' \subseteq Accounts
      BY <2>5, <3>2 DEF CheckRegistration, TypeOK
    <3> QED
      BY <2>5, <3>4, <3>5
      DEF CheckRegistration, TypeOK, storeVars, keyVars, pageVars, Responses, Signatures
  <2>6. ASSUME NEW t \in Threads, NEW r \in signatures, CheckSignature(t, r) PROVE TypeOK'
    <3>1. r \in Signatures /\ sessionDataBase[r.session] \in SessionData
      BY DEF TypeOK, Signatures
    <3>2. [step |-> "updating", account |-> sessionDataBase[r.session].account,
           publicKey |-> r.publicKey, counter |-> r.counter] \in Work
      BY <3>1 DEF Work, SessionData, Signatures
    <3>3. work' \in [Threads -> Work']
      BY <2>6, <3>2 DEF CheckSignature, TypeOK, Work, storeVars
    <3> QED
      BY <2>6, <3>3
      DEF CheckSignature, TypeOK, storeVars, keyVars, pageVars, historyVars, Responses,
          Signatures
  <2>7. ASSUME NEW t \in Threads, ReadSize(t) PROVE TypeOK'
    <3>1. work[t].list \in DOMAIN lists
      BY <2>7, AddingType DEF ReadSize, TypeOK, NoList
    <3>2. Len(lists[work[t].list]) + 1 \in Nat
      BY <3>1 DEF TypeOK
    <3> DEFINE w == work[t]
               n == Len(lists[work[t].list]) + 1
    <3>3. w \in [step : {"adding"}, account : Accounts, publicKey : 1..MaxPairs,
                 list : 0..Len(lists), size : Nat]
      <4>1. w \in Work /\ w.step = "adding"
        BY <2>7 DEF ReadSize, TypeOK
      <4> QED
        BY <4>1 DEF Work, Idle
    <3>4. work' = [work EXCEPT ![t] = [w EXCEPT !.size = n]]
      BY <2>7 DEF ReadSize
    <3> HIDE DEF w, n
    <3>5. [w EXCEPT !.size = n] \in Work
      <4>1. n \in Nat
        BY <3>2 DEF n
      <4> QED
        BY <3>3, <4>1 DEF Work
    <3>6. work' \in [Threads -> Work] /\ lists' = lists
      BY <2>7, <3>4, <3>5 DEF ReadSize, TypeOK, storeVars
    <3> QED
      BY <2>7, <3>6
      DEF ReadSize, TypeOK, Work, storeVars, keyVars, pageVars, historyVars, Responses,
          Signatures
  <2>8. ASSUME NEW t \in Threads, AddToken(t) PROVE TypeOK'
    <3> DEFINE list == IF work[t].list = NoList THEN Len(lists) + 1 ELSE work[t].list
               absent == IF securityKeyDataBase[work[t].account] # NoList THEN {}
                         ELSE {a \in Accounts : securityKeyDataBase[a] = NoList}
    <3>1. /\ work[t].account \in Accounts /\ work[t].publicKey \in 1..MaxPairs
          /\ work[t].list \in 0..Len(lists)
      BY <2>8, AddingType DEF AddToken
    <3>2. Token(work[t].publicKey) \in SecurityKeyData
      BY <3>1, BoundsAssumption DEF Token, SecurityKeyData
    <3>3. /\ lists' \in Seq(Seq(SecurityKeyData)) /\ Len(lists') >= Len(lists)
          /\ list \in 1..Len(lists')
      BY <2>8, <3>1, <3>2, AddTokenLists DEF NoList
    <3>4. [step |-> "putting", account |-> work[t].account, publicKey |-> work[t].publicKey,
           list |-> list, absent |-> absent] \in Work'
      <4>1. absent \in SUBSET Accounts
        OBVIOUS
      <4> HIDE DEF list, absent
      <4> QED
        BY <3>1, <3>3, <4>1 DEF Work
    <3>5. work' = [work EXCEPT ![t] =
                      [step |-> "putting", account |-> work[t].account,
                       publicKey |-> work[t].publicKey, list |-> list, absent |-> absent]]
      BY <2>8 DEF AddToken
    <3> HIDE DEF list, absent
    <3>6. work' \in [Threads -> Work']
      <4>1. Work \subseteq Work'
        BY <3>3, WorkGrows
      <4> QED
        BY <3>4, <3>5, <4>1 DEF TypeOK
    <3>7. securityKeyDataBase' \in [Accounts -> 0..Len(lists')]
      BY <2>8, <3>3 DEF AddToken, TypeOK
    <3> QED
      BY <2>8, <3>3, <3>6, <3>7
      DEF AddToken, TypeOK, keyVars, pageVars, historyVars, Responses, Signatures
  <2>9. ASSUME NEW t \in Threads, PutTokens(t) PROVE TypeOK'
    <3>1. /\ work[t].account \in Accounts /\ work[t].publicKey \in 1..MaxPairs
          /\ work[t].list \in 1..Len(lists) /\ work[t].absent \subseteq Accounts
      BY <2>9, PuttingType DEF PutTokens
    <3>2. PICK lost \in SUBSET {a \in work[t].absent \ {work[t].account} :
                                   securityKeyDataBase[a] # NoList} :
            /\ securityKeyDataBase' =
                 [a \in Accounts |-> CASE a = work[t].account -> work[t].list
                                       [] a \in lost          -> NoList
                                       [] OTHER               -> securityKeyDataBase[a]]
            /\ rushed' = rushed \cup lost
      BY <2>9 DEF PutTokens
    <3>3. securityKeyDataBase' \in [Accounts -> 0..Len(lists)] /\ lists' = lists
      BY <2>9, <3>1, <3>2 DEF PutTokens, TypeOK, NoList
    <3>4. work' \in [Threads -> Work']
      <4>1. work' = [work EXCEPT ![t] = Idle] /\ Len(lists') >= Len(lists)
            /\ lists' \in Seq(Seq(SecurityKeyData))
        BY <2>9, <3>3 DEF PutTokens, TypeOK
      <4> QED
        BY <4>1, WorkType
    <3>5. rushed' \subseteq Accounts
      BY <2>9, <3>1, <3>2 DEF PutTokens, TypeOK
    <3> QED
      BY <2>9, <3>3, <3>4, <3>5
      DEF PutTokens, TypeOK, keyVars, pageVars, Responses, Signatures
  <2>10. ASSUME NEW t \in Threads, UpdateSecurityKeyCounter(t) PROVE TypeOK'
    <3>1. /\ work[t].account \in Accounts /\ work[t].publicKey \in 1..MaxPairs
          /\ work[t].counter \in 0..MaxCounter
      <4>1. work[t] \in Work /\ work[t].step = "updating"
        BY <2>10 DEF UpdateSecurityKeyCounter, TypeOK
      <4> QED
        BY <4>1 DEF Work, Idle
    <3>2. lists' \in Seq(Seq(SecurityKeyData)) /\ Len(lists') = Len(lists)
      BY <2>10, UpdatedLists
    <3>3. securityKeyDataBase' = securityKeyDataBase
      BY <2>10 DEF UpdateSecurityKeyCounter
    <3>4. work' \in [Threads -> Work']
      <4>1. Len(lists') >= Len(lists)
        BY <3>2 DEF TypeOK
      <4>2. work' = [work EXCEPT ![t] = Idle]
        BY <2>10 DEF UpdateSecurityKeyCounter
      <4> QED
        BY <3>2, <4>1, <4>2, WorkType
    <3>5. /\ overlapped' \subseteq 1..MaxPairs /\ repeated' \subseteq Accounts \X (1..MaxPairs)
          /\ highest' \in [1..MaxPairs -> 0..MaxCounter]
      <4>1. overlapped' = overlapped \/ overlapped' = overlapped \cup {work[t].publicKey}
        BY <2>10 DEF UpdateSecurityKeyCounter
      <4>2. \/ highest' = highest /\ repeated' = repeated \cup {<<work[t].account, work[t].publicKey>>}
            \/ /\ highest' = [highest EXCEPT ![work[t].publicKey] = work[t].counter]
               /\ repeated' = repeated
        BY <2>10 DEF UpdateSecurityKeyCounter
      <4>3. overlapped' \subseteq 1..MaxPairs
        BY <3>1, <4>1 DEF TypeOK
      <4>4. repeated' \subseteq Accounts \X (1..MaxPairs)
        BY <3>1, <4>2 DEF TypeOK
      <4>5. highest' \in [1..MaxPairs -> 0..MaxCounter]
        BY <3>1, <4>2 DEF TypeOK
      <4> QED
        BY <4>3, <4>4, <4>5
    <3> QED
      BY <2>10, <3>2, <3>3, <3>4, <3>5
      DEF UpdateSecurityKeyCounter, TypeOK, keyVars, pageVars, Responses, Signatures
  <2>11. ASSUME NEW account \in Accounts, NEW publicKey \in 1..pairs,
               RemoveSecurityKey(account, publicKey)
        PROVE  TypeOK'
    <3> DEFINE l == securityKeyDataBase[account]
    <3>1. Entries(Tokens(account), publicKey) # {}
      BY <2>11 DEF RemoveSecurityKey
    <3>2. Tokens(account) # <<>>
      BY <3>1 DEF Entries
    <3>3. l \in DOMAIN lists /\ Tokens(account) = lists[l]
      BY <3>2, TokensType
    <3>4. Without(lists[l], publicKey) \in Seq(SecurityKeyData)
      BY <3>1, <3>3, WithoutProperties DEF TypeOK
    <3>5. lists' \in Seq(Seq(SecurityKeyData)) /\ Len(lists') = Len(lists)
      BY <2>11, <3>3, <3>4 DEF RemoveSecurityKey, TypeOK
    <3>6. publicKey \in 1..MaxPairs
      BY BoundsAssumption DEF TypeOK
    <3> QED
      BY <2>11, <3>5, <3>6
      DEF RemoveSecurityKey, TypeOK, Work, keyVars, pageVars, Responses, Signatures
  <2>12. ASSUME UNCHANGED vars PROVE TypeOK'
    BY <2>12
    DEF vars, storeVars, keyVars, pageVars, historyVars, TypeOK, Work, Responses, Signatures
  <2> QED
    BY <2>1, <2>2, <2>3, <2>4, <2>5, <2>6, <2>7, <2>8, <2>9, <2>10, <2>11, <2>12 DEF Next
<1> QED
  BY <1>1, <1>2, PTL DEF Spec
-----------------------------------------------------------------------------
(***************************************************************************)
(* No counter the server has stored, is about to store, or may be handed   *)
(* is ahead of the key's.                                                  *)
(***************************************************************************)
CountersBehindKey ==
    /\ \A l \in DOMAIN lists : \A i \in DOMAIN lists[l] : lists[l][i].counter <= counter
    /\ \A t \in Threads : work[t].step = "updating" => work[t].counter <= counter
    /\ \A r \in signatures : r.counter <= counter

(***************************************************************************)
(* A registered key's next signature is never refused for its counter, for *)
(* any number of threads, accounts, keys and sessions.                     *)
(***************************************************************************)
THEOREM CountersNeverRunAhead == Spec => []NextSignatureIsNotStale
<1>1. Init => CountersBehindKey
  BY DEF Init, CountersBehindKey, Idle
<1>2. TypeOK /\ TypeOK' /\ CountersBehindKey /\ [Next]_vars => CountersBehindKey'
  <2> SUFFICES ASSUME TypeOK, TypeOK', CountersBehindKey, [Next]_vars
               PROVE  CountersBehindKey'
    OBVIOUS
  <2>1. ASSUME NEW account \in Accounts,
               GetRegistrationRequest(account) \/ GetSignRequest(account)
        PROVE  CountersBehindKey'
    BY <2>1 DEF GetRegistrationRequest, GetSignRequest, CountersBehindKey, keyVars, pageVars
  <2>2. ASSUME NEW s \in DOMAIN sessionDataBase, Register(s) PROVE CountersBehindKey'
    BY <2>2 DEF Register, CountersBehindKey, storeVars
  <2>3. ASSUME NEW s \in DOMAIN sessionDataBase, NEW present \in BOOLEAN,
               Authenticate(s, present)
        PROVE  CountersBehindKey'
    <3>1. counter \in Nat /\ counter' = counter + 1
      BY <2>3 DEF Authenticate, TypeOK
    <3>2. \A l \in DOMAIN lists : \A i \in DOMAIN lists[l] : lists[l][i].counter \in Nat
      <4> TAKE l \in DOMAIN lists
      <4>1. lists[l] \in Seq(SecurityKeyData)
        BY DEF TypeOK
      <4> TAKE i \in DOMAIN lists[l]
      <4>2. lists[l][i] \in SecurityKeyData
        BY <4>1
      <4> QED
        BY <4>2 DEF SecurityKeyData
    <3>3. \A t \in Threads : work[t].step = "updating" => work[t].counter \in Nat
      <4> TAKE t \in Threads
      <4>1. work[t] \in Work
        BY DEF TypeOK
      <4> QED
        BY <4>1 DEF Work, Idle
    <3>4. \A r \in signatures : r.counter \in Nat
      BY DEF TypeOK, Signatures
    <3>5. \A r \in signatures' : r \in signatures \/ r.counter = counter + 1
      BY <2>3 DEF Authenticate
    <3>6. UNCHANGED <<lists, work>>
      BY <2>3 DEF Authenticate, storeVars
    <3>7. \A n \in Nat : n <= counter => n <= counter'
      BY <3>1
    <3>8. \A r \in signatures' : r.counter <= counter'
      BY <3>1, <3>4, <3>5, <3>7 DEF CountersBehindKey
    <3> QED
      BY <3>2, <3>3, <3>6, <3>7, <3>8 DEF CountersBehindKey
  <2>4. ASSUME NEW t \in Threads, NEW r \in registrations, CheckRegistration(t, r)
        PROVE  CountersBehindKey'
    <3>1. \A u \in Threads : work'[u] = work[u] \/ work'[u].step = "adding"
      BY <2>4 DEF CheckRegistration, TypeOK
    <3> QED
      BY <2>4, <3>1 DEF CheckRegistration, CountersBehindKey, storeVars, keyVars, pageVars
  <2>5. ASSUME NEW t \in Threads, NEW r \in signatures, CheckSignature(t, r)
        PROVE  CountersBehindKey'
    <3>1. \A u \in Threads : work'[u] = work[u] \/ work'[u].counter = r.counter
      BY <2>5 DEF CheckSignature, TypeOK
    <3> QED
      BY <2>5, <3>1 DEF CheckSignature, CountersBehindKey, storeVars, keyVars, pageVars
  <2>6. ASSUME NEW t \in Threads, ReadSize(t) \/ PutTokens(t) PROVE CountersBehindKey'
    <3>1. \A u \in Threads : work'[u] = work[u] \/ work'[u].step # "updating"
      <4>1. CASE ReadSize(t)
        BY <4>1 DEF ReadSize, TypeOK
      <4>2. CASE PutTokens(t)
        BY <4>2 DEF PutTokens, TypeOK, Idle
      <4> QED
        BY <2>6, <4>1, <4>2
    <3>2. UNCHANGED <<lists, counter, signatures>>
      BY <2>6 DEF ReadSize, PutTokens, storeVars, keyVars, pageVars
    <3> QED
      BY <3>1, <3>2 DEF CountersBehindKey
  <2>7. ASSUME NEW t \in Threads, AddToken(t) PROVE CountersBehindKey'
    <3> DEFINE w == work[t]
               new == Token(w.publicKey)
    <3>1. \A u \in Threads : work'[u] = work[u] \/ work'[u].step = "putting"
      BY <2>7 DEF AddToken, TypeOK
    <3>2. counter \in Nat /\ UNCHANGED <<counter, signatures>>
      BY <2>7 DEF AddToken, keyVars, pageVars, TypeOK
    <3>3. new.counter <= counter
      BY <3>2 DEF Token
    <3> HIDE DEF new
    <3>4. ASSUME NEW l \in DOMAIN lists'
          PROVE  \A i \in DOMAIN lists'[l] : lists'[l][i].counter <= counter
      <4>1. CASE l \in DOMAIN lists /\ lists'[l] = lists[l]
        BY <4>1 DEF CountersBehindKey
      <4>2. CASE lists'[l] = <<new>>
        BY <3>3, <4>2
      <4>3. CASE /\ l = w.list /\ l \in DOMAIN lists
                 /\ w.size - 1 \in 0..Len(lists[l])
                 /\ lists'[l] = Append(SubSeq(lists[l], 1, w.size - 1), new)
        <5> DEFINE old == lists[l]
                   n == w.size - 1
        <5>1. old \in Seq(SecurityKeyData) /\ n \in 0..Len(old)
          BY <4>3 DEF TypeOK
        <5>2. \A i \in DOMAIN old : old[i].counter <= counter
          BY <4>3 DEF CountersBehindKey
        <5>3. lists'[l] = Append(SubSeq(old, 1, n), new)
          BY <4>3
        <5> HIDE DEF old, n
        <5>4. ASSUME NEW i \in DOMAIN lists'[l] PROVE lists'[l][i] = new \/
                  (i \in DOMAIN old /\ lists'[l][i] = old[i])
          BY <5>1, <5>3, OverwrittenEntries
        <5> QED
          BY <3>3, <5>2, <5>4
      <4> QED
        <5>1. Len(lists) \in Nat /\ DOMAIN lists = 1..Len(lists)
          BY DEF TypeOK
        <5>2. CASE w.list = NoList
          <6>1. /\ lists' \in Seq(Seq(SecurityKeyData)) /\ Len(lists') = Len(lists) + 1
                /\ lists'[Len(lists) + 1] = <<new>>
                /\ \A k \in DOMAIN lists : lists'[k] = lists[k]
            BY <2>7, <5>2, AddTokenLists DEF new
          <6>2. l \in DOMAIN lists \/ l = Len(lists) + 1
            BY <5>1, <6>1
          <6> QED
            BY <4>1, <4>2, <6>1, <6>2
        <5>3. CASE w.list # NoList
          BY <2>7, <4>1, <4>3, <5>3, AddTokenLists DEF new
        <5> QED
          BY <5>2, <5>3
    <3> QED
      BY <3>1, <3>2, <3>4 DEF CountersBehindKey
  <2>8. ASSUME NEW t \in Threads, UpdateSecurityKeyCounter(t) PROVE CountersBehindKey'
    <3> DEFINE w == work[t]
    <3>1. \A u \in Threads : work'[u] = work[u] \/ work'[u] = Idle
      BY <2>8 DEF UpdateSecurityKeyCounter, TypeOK
    <3>2. UNCHANGED <<counter, signatures>> /\ w.counter <= counter
      BY <2>8 DEF UpdateSecurityKeyCounter, keyVars, pageVars, CountersBehindKey
    <3>3. w.publicKey \in 1..MaxPairs /\ w.counter \in 0..MaxCounter
      BY <2>8, UpdatingType DEF UpdateSecurityKeyCounter
    <3>4. ASSUME NEW l \in DOMAIN lists'
          PROVE  \A i \in DOMAIN lists'[l] : lists'[l][i].counter <= counter
      <4>1. /\ l \in DOMAIN lists
            /\ lists'[l] \in {lists[l], WithCounter(lists[l], w.publicKey, w.counter)}
        BY <2>8, UpdatedLists
      <4>2. lists[l] \in Seq(SecurityKeyData)
        BY <4>1 DEF TypeOK
      <4> DEFINE new == WithCounter(lists[l], w.publicKey, w.counter)
      <4>3. /\ DOMAIN new = DOMAIN lists[l]
            /\ \A i \in DOMAIN lists[l] : new[i].counter \in {lists[l][i].counter, w.counter}
        BY <3>3, <4>2, WithCounterProperties
      <4> HIDE DEF new
      <4> QED
        BY <3>2, <4>1, <4>3 DEF CountersBehindKey, new
    <3> QED
      BY <3>1, <3>2, <3>4 DEF CountersBehindKey, Idle
  <2>9. ASSUME NEW account \in Accounts, NEW publicKey \in 1..pairs,
               RemoveSecurityKey(account, publicKey)
        PROVE  CountersBehindKey'
    <3> DEFINE k == securityKeyDataBase[account]
    <3>1. UNCHANGED <<work, counter, signatures>>
      BY <2>9 DEF RemoveSecurityKey, keyVars, pageVars
    <3>2. lists' = [lists EXCEPT ![k] = Without(@, publicKey)]
      BY <2>9 DEF RemoveSecurityKey
    <3>3. Entries(Tokens(account), publicKey) # {}
      BY <2>9 DEF RemoveSecurityKey
    <3>4. Tokens(account) # <<>>
      BY <3>3 DEF Entries
    <3>5. k \in DOMAIN lists /\ Tokens(account) = lists[k]
      BY <3>4, TokensType
    <3>6. \A i \in DOMAIN Without(lists[k], publicKey) :
             \E j \in DOMAIN lists[k] : Without(lists[k], publicKey)[i] = lists[k][j]
      <4>1. lists[k] \in Seq(SecurityKeyData) /\ Entries(lists[k], publicKey) # {}
        BY <3>3, <3>5 DEF TypeOK
      <4> DEFINE tokens == lists[k]
      <4> HIDE DEF tokens
      <4>2. tokens \in Seq(SecurityKeyData) /\ Entries(tokens, publicKey) # {}
        BY <4>1 DEF tokens
      <4>3. \A i \in DOMAIN Without(tokens, publicKey) :
               \E j \in DOMAIN tokens : Without(tokens, publicKey)[i] = tokens[j]
        BY <4>2, WithoutProperties
      <4> QED
        BY <4>3 DEF tokens
    <3>7. \A l \in DOMAIN lists' : /\ l \in DOMAIN lists
                                   /\ \/ lists'[l] = lists[l]
                                      \/ l = k /\ lists'[l] = Without(lists[k], publicKey)
      BY <3>2 DEF TypeOK
    <3> QED
      BY <3>1, <3>6, <3>7 DEF CountersBehindKey
  <2>10. ASSUME UNCHANGED vars PROVE CountersBehindKey'
    BY <2>10 DEF vars, storeVars, keyVars, pageVars, CountersBehindKey
  <2> QED
    BY <2>1, <2>2, <2>3, <2>4, <2>5, <2>6, <2>7, <2>8, <2>9, <2>10 DEF Next
<1>3. TypeOK /\ CountersBehindKey => NextSignatureIsNotStale
  <2> SUFFICES ASSUME TypeOK, CountersBehindKey, NEW account \in Accounts,
                      NEW i \in DOMAIN Tokens(account)
               PROVE  Tokens(account)[i].counter <= counter
    BY DEF NextSignatureIsNotStale
  <2>1. Tokens(account) # <<>>
    OBVIOUS
  <2> QED
    BY <2>1, TokensType DEF CountersBehindKey
<1> QED
  BY <1>1, <1>2, <1>3, TypeCorrect, PTL DEF Spec
-----------------------------------------------------------------------------
(***************************************************************************)
(* What a registration does to the lists.  No two accounts share one, so   *)
(* that a handler changes no other account's keys; and while the account is*)
(* not rushed, one thread at a time registers a key of it, with the list   *)
(* the data store has and the end that list has, or else with a new list   *)
(* that holds nothing but the new key.                                     *)
(***************************************************************************)
Registers(t, account) ==
    work[t].step \in {"adding", "putting"} /\ work[t].account = account

Owned ==
    \A a, b \in Accounts : a # b =>
        /\ securityKeyDataBase[a] # NoList => securityKeyDataBase[a] # securityKeyDataBase[b]
        /\ \A t \in Threads : (Registers(t, a) /\ work[t].list # NoList) =>
             /\ work[t].list # securityKeyDataBase[b]
             /\ \A u \in Threads : Registers(u, b) => work[t].list # work[u].list

HoldsItsList(t, a) ==
    /\ work[t].step = "adding" =>
         /\ work[t].list = securityKeyDataBase[a]
         /\ work[t].size # 0 => work[t].size = Len(Tokens(a)) + 1
    /\ work[t].step = "putting" =>
         \/ work[t].list = securityKeyDataBase[a]
         \/ /\ securityKeyDataBase[a] = NoList
            /\ lists[work[t].list] = <<Token(work[t].publicKey)>>

OneAtATime ==
    \A a \in Accounts \ rushed : \A t \in Threads : Registers(t, a) =>
        /\ HoldsItsList(t, a)
        /\ \A u \in Threads : Registers(u, a) => u = t

ListsInv == Owned /\ OneAtATime

LEMMA RegistersType ==
    ASSUME TypeOK, NEW t \in Threads, NEW a, Registers(t, a)
    PROVE  /\ a \in Accounts /\ work[t].publicKey \in 1..MaxPairs
           /\ work[t].list \in 0..Len(lists)
           /\ work[t].step = "putting" => work[t].list \in 1..Len(lists)
<1>1. CASE work[t].step = "adding"
  BY <1>1, AddingType DEF Registers
<1>2. CASE work[t].step = "putting"
  <2>1. work[t].list \in 1..Len(lists) /\ Len(lists) \in Nat
    BY <1>2, PuttingType DEF TypeOK
  <2> QED
    BY <1>2, <2>1, PuttingType DEF Registers
<1> QED
  BY <1>1, <1>2 DEF Registers

(***************************************************************************)
(* tokens.add's read of the size changes nothing but what the thread knows.*)
(***************************************************************************)
ReadWork(t) ==
    /\ work'[t].step = work[t].step /\ work'[t].account = work[t].account
    /\ work'[t].publicKey = work[t].publicKey /\ work'[t].list = work[t].list
    /\ work'[t].size = Len(lists[work[t].list]) + 1

LEMMA ReadSizeWork ==
    ASSUME TypeOK, NEW t \in Threads, ReadSize(t)
    PROVE  ReadWork(t)
<1> DEFINE w == work[t]
           n == Len(lists[work[t].list]) + 1
<1>1. w \in [step : {"adding"}, account : Accounts, publicKey : 1..MaxPairs,
             list : 0..Len(lists), size : Nat]
  <2>1. w \in Work /\ w.step = "adding"
    BY DEF ReadSize, TypeOK
  <2> QED
    BY <2>1 DEF Work, Idle
<1>2. work'[t] = [w EXCEPT !.size = n]
  BY DEF ReadSize, TypeOK
<1> HIDE DEF w, n
<1>3. /\ work'[t].step = w.step /\ work'[t].account = w.account
      /\ work'[t].publicKey = w.publicKey /\ work'[t].list = w.list /\ work'[t].size = n
  BY <1>1, <1>2
<1> QED
  BY <1>3 DEF ReadWork, w, n

(***************************************************************************)
(* An account keeps its tokens when another account's list is changed or a *)
(* list is added.                                                          *)
(***************************************************************************)
LEMMA OtherTokens ==
    ASSUME TypeOK, NEW a \in Accounts, securityKeyDataBase'[a] = securityKeyDataBase[a],
           securityKeyDataBase[a] # NoList =>
               lists'[securityKeyDataBase[a]] = lists[securityKeyDataBase[a]]
    PROVE  Tokens(a)' = Tokens(a)
  BY DEF Tokens

LEMMA UpdatedTokens ==
    ASSUME TypeOK, Owned, NEW t \in Threads, UpdateSecurityKeyCounter(t),
           NEW a \in Accounts
    PROVE  Tokens(a)' = IF a = work[t].account
                          THEN WithCounter(Tokens(a), work[t].publicKey, work[t].counter)
                          ELSE Tokens(a)
<1> DEFINE w == work[t]
           l == securityKeyDataBase[w.account]
<1>1. w.account \in Accounts
  BY UpdatingType DEF UpdateSecurityKeyCounter
<1>2. /\ securityKeyDataBase' = securityKeyDataBase
      /\ \A k \in DOMAIN lists :
           lists'[k] = IF k = l THEN WithCounter(lists[k], w.publicKey, w.counter)
                                ELSE lists[k]
  BY UpdatedLists DEF UpdateSecurityKeyCounter
<1>3. securityKeyDataBase[a] # NoList => securityKeyDataBase[a] \in DOMAIN lists
  BY DEF TypeOK, NoList
<1>4. CASE a = w.account
  <2>1. CASE l = NoList
    <3>1. Entries(<<>>, w.publicKey) = {}
      BY DEF Entries
    <3>2. Tokens(a) = <<>> /\ Tokens(a)' = <<>>
      BY <1>2, <1>4, <2>1 DEF Tokens
    <3> QED
      BY <1>4, <3>1, <3>2 DEF WithCounter
  <2>2. CASE l # NoList
    BY <1>2, <1>3, <1>4, <2>2 DEF Tokens
  <2> QED
    BY <2>1, <2>2
<1>5. CASE a # w.account
  <2>1. securityKeyDataBase[a] # NoList => securityKeyDataBase[a] # l
    BY <1>1, <1>5 DEF Owned
  <2>2. securityKeyDataBase[a] # NoList =>
           lists'[securityKeyDataBase[a]] = lists[securityKeyDataBase[a]]
    BY <1>2, <1>3, <2>1
  <2> QED
    BY <1>2, <1>5, <2>2, OtherTokens
<1> QED
  BY <1>4, <1>5

LEMMA RemovedTokens ==
    ASSUME TypeOK, Owned, NEW account \in Accounts, NEW publicKey,
           RemoveSecurityKey(account, publicKey), NEW a \in Accounts
    PROVE  /\ Tokens(a)' = IF a = account THEN Without(Tokens(a), publicKey) ELSE Tokens(a)
           /\ Entries(Tokens(account), publicKey) # {}
<1> DEFINE l == securityKeyDataBase[account]
<1>1. /\ UNCHANGED securityKeyDataBase
      /\ lists' = [lists EXCEPT ![l] = Without(@, publicKey)]
      /\ Entries(Tokens(account), publicKey) # {}
  BY DEF RemoveSecurityKey
<1>2. Tokens(account) # <<>>
  BY <1>1 DEF Entries
<1>3. l \in DOMAIN lists /\ l # NoList
  BY <1>2, TokensType DEF TypeOK, NoList
<1>4. CASE a = account
  BY <1>1, <1>3, <1>4 DEF Tokens
<1>5. CASE a # account
  <2>1. securityKeyDataBase[a] \in 0..Len(lists)
        /\ (securityKeyDataBase[a] # NoList => securityKeyDataBase[a] # l)
    BY <1>5 DEF TypeOK, Owned
  <2>2. securityKeyDataBase[a] # NoList =>
           lists'[securityKeyDataBase[a]] = lists[securityKeyDataBase[a]]
    BY <1>1, <2>1 DEF TypeOK, NoList
  <2> QED
    BY <1>1, <1>5, <2>2, OtherTokens
<1> QED
  BY <1>1, <1>4, <1>5

(***************************************************************************)
(* For an account that is not rushed, a registration adds its key behind   *)
(* the account's others, when it adds to the list there is or when it puts *)
(* a new one.                                                              *)
(***************************************************************************)
LEMMA AddedTokens ==
    ASSUME TypeOK, ListsInv, NEW t \in Threads, AddToken(t), NEW a \in Accounts \ rushed
    PROVE  Tokens(a)' = IF a = work[t].account /\ work[t].list # NoList
                          THEN Append(Tokens(a), Token(work[t].publicKey)) ELSE Tokens(a)
<1> DEFINE w == work[t]
           new == Token(w.publicKey)
<1>1. Registers(t, w.account) /\ w.account \in Accounts /\ w.step = "adding"
  BY AddingType DEF AddToken, Registers
<1>2. /\ securityKeyDataBase' = securityKeyDataBase
      /\ securityKeyDataBase[a] # NoList => securityKeyDataBase[a] \in DOMAIN lists
  BY DEF AddToken, TypeOK, NoList
<1>3. CASE w.list = NoList
  BY <1>2, <1>3, AddTokenLists, OtherTokens
<1>4. CASE w.list # NoList /\ a # w.account
  <2>1. securityKeyDataBase[a] # w.list
    BY <1>1, <1>4 DEF ListsInv, Owned
  <2> QED
    BY <1>2, <1>4, <2>1, AddTokenLists, OtherTokens
<1>5. CASE w.list # NoList /\ a = w.account
  <2>1. /\ w.list = securityKeyDataBase[a]
        /\ w.size # 0 => w.size = Len(Tokens(a)) + 1
    BY <1>1, <1>5 DEF ListsInv, OneAtATime, HoldsItsList
  <2>2. /\ w.list \in DOMAIN lists /\ w.size - 1 \in 0..Len(lists[w.list])
        /\ lists'[w.list] = Append(SubSeq(lists[w.list], 1, w.size - 1), new)
    BY <1>5, AddTokenLists
  <2>3. w.size \in Nat
    BY <1>1, AddingType
  <2> DEFINE tokens == lists[w.list]
  <2>4. tokens \in Seq(SecurityKeyData) /\ Tokens(a) = tokens
    BY <1>5, <2>1, <2>2 DEF Tokens, TypeOK
  <2>5. w.size - 1 = Len(tokens)
    BY <2>1, <2>2, <2>3, <2>4
  <2>6. SubSeq(tokens, 1, Len(tokens)) = tokens
    <3> HIDE DEF tokens
    <3> QED
      BY <2>4
  <2>7. Tokens(a)' = Append(tokens, new)
    BY <1>2, <1>5, <2>1, <2>2, <2>5, <2>6 DEF Tokens
  <2> QED
    BY <1>5, <2>4, <2>7
<1> QED
  BY <1>3, <1>4, <1>5

LEMMA PutTokensTokens ==
    ASSUME TypeOK, ListsInv, NEW t \in Threads, PutTokens(t), NEW a \in Accounts \ rushed'
    PROVE  \/ Tokens(a)' = Tokens(a)
           \/ /\ a = work[t].account
              /\ Tokens(a)' = Append(Tokens(a), Token(work[t].publicKey))
<1> DEFINE w == work[t]
<1>1. PICK lost \in SUBSET {b \in w.absent \ {w.account} : securityKeyDataBase[b] # NoList} :
         /\ securityKeyDataBase' =
              [b \in Accounts |-> CASE b = w.account -> w.list
                                    [] b \in lost    -> NoList
                                    [] OTHER         -> securityKeyDataBase[b]]
         /\ rushed' = rushed \cup lost
  BY DEF PutTokens
<1>2. lists' = lists
  BY DEF PutTokens
<1>3. /\ Registers(t, w.account) /\ w.step = "putting"
      /\ w.account \in Accounts /\ w.list \in 1..Len(lists)
  BY PuttingType DEF PutTokens, Registers
<1>4. CASE a # w.account
  BY <1>1, <1>2, <1>4, OtherTokens
<1>5. CASE a = w.account
  <2>1. securityKeyDataBase'[a] = w.list /\ w.list # NoList
    BY <1>1, <1>3, <1>5 DEF NoList
  <2>2. Tokens(a)' = lists[w.list]
    BY <1>2, <2>1 DEF Tokens
  <2>3. \/ w.list = securityKeyDataBase[a]
        \/ securityKeyDataBase[a] = NoList /\ lists[w.list] = <<Token(w.publicKey)>>
    BY <1>1, <1>3, <1>5 DEF ListsInv, OneAtATime, HoldsItsList
  <2>4. CASE w.list = securityKeyDataBase[a]
    BY <2>1, <2>2, <2>4 DEF Tokens
  <2>5. CASE securityKeyDataBase[a] = NoList /\ lists[w.list] = <<Token(w.publicKey)>>
    <3>1. Tokens(a) = <<>>
      BY <2>5 DEF Tokens
    <3>2. \A x : Append(<<>>, x) = <<x>>
      OBVIOUS
    <3> QED
      BY <1>5, <2>2, <2>5, <3>1, <3>2
  <2> QED
    BY <2>3, <2>4, <2>5
<1> QED
  BY <1>4, <1>5

(***************************************************************************)
(* The steps that give no thread a list of another account.                *)
(***************************************************************************)
LEMMA OwnedPreserved ==
    ASSUME Owned, UNCHANGED securityKeyDataBase,
           \A u \in Threads, c \in Accounts : Registers(u, c)' =>
               \/ Registers(u, c) /\ work'[u].list = work[u].list
               \/ work'[u].list = securityKeyDataBase[c]
    PROVE  Owned'
<1> SUFFICES ASSUME NEW a \in Accounts, NEW b \in Accounts, a # b
             PROVE  /\ securityKeyDataBase[a] # NoList =>
                           securityKeyDataBase[a] # securityKeyDataBase[b]
                    /\ \A u \in Threads : (Registers(u, a)' /\ work'[u].list # NoList) =>
                         /\ work'[u].list # securityKeyDataBase[b]
                         /\ \A v \in Threads : Registers(v, b)' => work'[u].list # work'[v].list
  BY DEF Owned, Registers
<1>1. securityKeyDataBase[a] # NoList => securityKeyDataBase[a] # securityKeyDataBase[b]
  BY DEF Owned
<1>2. ASSUME NEW u \in Threads, Registers(u, a)', work'[u].list # NoList
      PROVE  work'[u].list # securityKeyDataBase[b]
  BY <1>1, <1>2 DEF Owned
<1>3. ASSUME NEW u \in Threads, Registers(u, a)', work'[u].list # NoList,
             NEW v \in Threads, Registers(v, b)'
      PROVE  work'[u].list # work'[v].list
  <2>1. CASE work'[v].list = securityKeyDataBase[b]
    BY <1>2, <1>3, <2>1
  <2>2. CASE Registers(v, b) /\ work'[v].list = work[v].list
    <3>1. CASE Registers(u, a) /\ work'[u].list = work[u].list
      BY <1>3, <2>2, <3>1 DEF Owned
    <3>2. CASE work'[u].list = securityKeyDataBase[a]
      BY <1>3, <2>2, <3>2 DEF Owned
    <3> QED
      BY <1>3, <3>1, <3>2
  <2> QED
    BY <1>3, <2>1, <2>2
<1> QED
  BY <1>1, <1>2, <1>3

LEMMA AddTokenKeepsOwned ==
    ASSUME TypeOK, Owned, NEW t \in Threads, AddToken(t)
    PROVE  Owned'
<1> DEFINE w == work[t]
<1>1. /\ \A u \in Threads \ {t} : work'[u] = work[u]
      /\ work'[t].step = "putting" /\ work'[t].account = w.account
      /\ work'[t].list = IF w.list = NoList THEN Len(lists) + 1 ELSE w.list
      /\ w.step = "adding"
      /\ UNCHANGED securityKeyDataBase
  BY DEF AddToken, TypeOK
<1>2. \A u \in Threads, c \in Accounts : Registers(u, c)' => Registers(u, c)
  BY <1>1 DEF Registers
<1>3. CASE w.list # NoList
  <2>1. \A u \in Threads : work'[u].list = work[u].list
    BY <1>1, <1>3
  <2> QED
    BY <1>1, <1>2, <2>1, OwnedPreserved
<1>4. CASE w.list = NoList
  <2>1. \A c \in Accounts : securityKeyDataBase[c] # Len(lists) + 1
    BY DEF TypeOK
  <2>2. \A u \in Threads, c \in Accounts : Registers(u, c) => work[u].list # Len(lists) + 1
    <3>1. \A u \in Threads, c \in Accounts : Registers(u, c) => work[u].list \in 0..Len(lists)
      BY RegistersType
    <3> QED
      BY <3>1 DEF TypeOK
  <2>3. Len(lists) + 1 # NoList
    BY DEF TypeOK, NoList
  <2> DEFINE fresh == Len(lists) + 1
  <2> HIDE DEF fresh
  <2>4. /\ \A c \in Accounts : securityKeyDataBase[c] # fresh
        /\ \A u \in Threads, c \in Accounts : Registers(u, c) => work[u].list # fresh
        /\ work'[t].list = fresh
        /\ \A u \in Threads \ {t} : work'[u].list = work[u].list
    BY <1>1, <1>4, <2>1, <2>2 DEF fresh
  <2>5. \A u \in Threads, c \in Accounts : Registers(u, c)' /\ u = t => c = w.account
    BY <1>1 DEF Registers
  <2> SUFFICES ASSUME NEW a \in Accounts, NEW b \in Accounts, a # b
               PROVE  /\ securityKeyDataBase[a] # NoList =>
                             securityKeyDataBase[a] # securityKeyDataBase[b]
                      /\ \A u \in Threads : (Registers(u, a)' /\ work'[u].list # NoList) =>
                           /\ work'[u].list # securityKeyDataBase[b]
                           /\ \A v \in Threads : Registers(v, b)' =>
                                  work'[u].list # work'[v].list
    BY <1>1 DEF Owned, Registers
  <2>6. ASSUME NEW u \in Threads, Registers(u, a)', work'[u].list # NoList
        PROVE  /\ work'[u].list # securityKeyDataBase[b]
               /\ \A v \in Threads : Registers(v, b)' => work'[u].list # work'[v].list
    <3>1. CASE u = t
      <4>1. \A v \in Threads : Registers(v, b)' => v # t /\ Registers(v, b)
        BY <1>2, <2>5, <2>6, <3>1
      <4> QED
        BY <2>4, <3>1, <4>1
    <3>2. CASE u # t
      <4>1. Registers(u, a) /\ work'[u].list = work[u].list
        BY <1>2, <2>4, <2>6, <3>2
      <4>2. work[u].list # securityKeyDataBase[b]
        BY <2>6, <4>1 DEF Owned
      <4>3. ASSUME NEW v \in Threads, Registers(v, b)' PROVE work[u].list # work'[v].list
        BY <1>2, <2>4, <2>6, <4>1, <4>3 DEF Owned
      <4> QED
        BY <4>1, <4>2, <4>3
    <3> QED
      BY <3>1, <3>2
  <2> QED
    BY <2>6 DEF Owned
<1> QED
  BY <1>3, <1>4

LEMMA PutTokensKeepsOwned ==
    ASSUME TypeOK, Owned, NEW t \in Threads, PutTokens(t)
    PROVE  Owned'
<1> DEFINE w == work[t]
<1>1. /\ \A u \in Threads \ {t} : work'[u] = work[u]
      /\ work'[t].step = "idle"
  BY DEF PutTokens, TypeOK, Idle
<1>2. \A u \in Threads, c \in Accounts : Registers(u, c)' =>
         Registers(u, c) /\ work'[u].list = work[u].list
  BY <1>1 DEF Registers
<1>3. \A c \in Accounts : \/ securityKeyDataBase'[c] = securityKeyDataBase[c]
                          \/ securityKeyDataBase'[c] = NoList
                          \/ c = w.account /\ securityKeyDataBase'[c] = w.list
  BY DEF PutTokens
<1>4. Registers(t, w.account) /\ w.list # NoList
  BY PuttingType DEF PutTokens, Registers, NoList
<1> SUFFICES ASSUME NEW a \in Accounts, NEW b \in Accounts, a # b
             PROVE  /\ securityKeyDataBase'[a] # NoList =>
                           securityKeyDataBase'[a] # securityKeyDataBase'[b]
                    /\ \A u \in Threads : (Registers(u, a)' /\ work'[u].list # NoList) =>
                         /\ work'[u].list # securityKeyDataBase'[b]
                         /\ \A v \in Threads : Registers(v, b)' =>
                                work'[u].list # work'[v].list
  BY DEF Owned, Registers
<1> HIDE DEF w
<1>5. ASSUME securityKeyDataBase'[a] # NoList
      PROVE  securityKeyDataBase'[a] # securityKeyDataBase'[b]
  <2>1. CASE securityKeyDataBase'[a] = securityKeyDataBase[a]
    BY <1>3, <1>4, <1>5, <2>1 DEF Owned, w
  <2>2. CASE a = w.account /\ securityKeyDataBase'[a] = w.list
    BY <1>3, <1>4, <1>5, <2>2 DEF Owned, w
  <2> QED
    BY <1>3, <1>5, <2>1, <2>2
<1>6. ASSUME NEW u \in Threads, Registers(u, a)', work'[u].list # NoList
      PROVE  work'[u].list # securityKeyDataBase'[b]
  <2>1. Registers(u, a) /\ work'[u].list = work[u].list
    BY <1>2, <1>6
  <2>2. CASE b = w.account /\ securityKeyDataBase'[b] = w.list
    BY <1>4, <1>6, <2>1, <2>2 DEF Owned, w
  <2> QED
    BY <1>3, <1>6, <2>1, <2>2 DEF Owned
<1>7. ASSUME NEW u \in Threads, Registers(u, a)', work'[u].list # NoList,
             NEW v \in Threads, Registers(v, b)'
      PROVE  work'[u].list # work'[v].list
  BY <1>2, <1>7 DEF Owned
<1> QED
  BY <1>5, <1>6, <1>7

(***************************************************************************)
(* A registration holds on to its list while other accounts are worked on. *)
(***************************************************************************)
LEMMA HoldingKept ==
    ASSUME NEW u \in Threads, NEW a \in Accounts, HoldsItsList(u, a),
           work'[u] = work[u], securityKeyDataBase'[a] = securityKeyDataBase[a],
           Len(Tokens(a)') = Len(Tokens(a)),
           work[u].step = "putting" /\ securityKeyDataBase[a] = NoList =>
               lists'[work[u].list] = lists[work[u].list]
    PROVE  HoldsItsList(u, a)'
<1> SUFFICES /\ work[u].step = "adding" =>
                  /\ work[u].list = securityKeyDataBase[a]
                  /\ work[u].size # 0 => work[u].size = Len(Tokens(a)') + 1
             /\ work[u].step = "putting" =>
                  \/ work[u].list = securityKeyDataBase[a]
                  \/ /\ securityKeyDataBase[a] = NoList
                     /\ lists'[work[u].list] = <<Token(work[u].publicKey)>>
  BY DEF HoldsItsList, Token
<1> QED
  BY DEF HoldsItsList

(***************************************************************************)
(* Only rushed accounts have two registrations under way.                  *)
(***************************************************************************)
LEMMA OneAtATimeStep ==
    ASSUME TypeOK, ListsInv, [Next]_vars
    PROVE  OneAtATime'
<1> DEFINE Alone(a, u) == HoldsItsList(u, a)' /\ \A v \in Threads : Registers(v, a)' => v = u
<1>1. SUFFICES ASSUME NEW a \in Accounts \ rushed', NEW u \in Threads, Registers(u, a)'
               PROVE  Alone(a, u)
  BY DEF OneAtATime
<1>2. rushed \subseteq rushed'
  BY DEF Next, vars, historyVars, GetRegistrationRequest, GetSignRequest, Register,
         Authenticate, CheckRegistration, CheckSignature, ReadSize, AddToken, PutTokens,
         UpdateSecurityKeyCounter, RemoveSecurityKey
<1>3. a \in Accounts /\ a \in Accounts \ rushed
  BY <1>2
<1>4. ASSUME Registers(u, a)
      PROVE  /\ HoldsItsList(u, a)
             /\ \A v \in Threads : Registers(v, a) => v = u
             /\ work[u].list \in 0..Len(lists)
             /\ work[u].step = "putting" => work[u].list \in DOMAIN lists /\ work[u].list # NoList
  BY <1>3, <1>4, RegistersType DEF ListsInv, OneAtATime, TypeOK, NoList
<1>5. ASSUME \A v \in Threads : Registers(v, a)' => Registers(v, a),
             work'[u] = work[u], securityKeyDataBase'[a] = securityKeyDataBase[a],
             Len(Tokens(a)') = Len(Tokens(a)),
             work[u].step = "putting" /\ securityKeyDataBase[a] = NoList =>
                 lists'[work[u].list] = lists[work[u].list]
      PROVE  Alone(a, u)
  <2>1. Registers(u, a)
    BY <1>1, <1>5
  <2>2. HoldsItsList(u, a)'
    BY <1>3, <1>4, <1>5, <2>1, HoldingKept
  <2>3. \A v \in Threads : Registers(v, a)' => v = u
    BY <1>4, <1>5, <2>1
  <2> QED
    BY <2>2, <2>3
<1> HIDE DEF Alone
<1>6. ASSUME UNCHANGED <<securityKeyDataBase, lists, work>> PROVE Alone(a, u)
  <2>1. Tokens(a)' = Tokens(a)
    BY <1>6 DEF Tokens
  <2> QED
    BY <1>5, <1>6, <2>1 DEF Registers
<1>7. ASSUME NEW t \in Threads, NEW r \in registrations, CheckRegistration(t, r)
      PROVE  Alone(a, u)
  <2> DEFINE account == sessionDataBase[r.session].account
  <2>1. /\ \A v \in Threads \ {t} : work'[v] = work[v]
        /\ work'[t].step = "adding" /\ work'[t].account = account
        /\ work'[t].list = securityKeyDataBase[account] /\ work'[t].size = 0
        /\ UNCHANGED <<securityKeyDataBase, lists>>
    BY <1>7 DEF CheckRegistration, TypeOK, storeVars
  <2>2. (\E v \in Threads : Registers(v, account)) => account \in rushed'
    BY <1>7 DEF CheckRegistration, Registering, Registers
  <2>3. Tokens(a)' = Tokens(a)
    BY <2>1 DEF Tokens
  <2> HIDE DEF account
  <2>4. ASSUME NEW v \in Threads, v # t, Registers(v, a)', Registers(t, a)' PROVE FALSE
    <3>1. a = account /\ Registers(v, a)
      BY <2>1, <2>4 DEF Registers
    <3> QED
      BY <2>2, <3>1
  <2>5. CASE u # t
    <3>1. \A v \in Threads : Registers(v, a)' => Registers(v, a)
      <4>1. ~Registers(t, a)'
        BY <1>1, <2>4, <2>5
      <4> QED
        BY <2>1, <4>1 DEF Registers
    <3> QED
      BY <1>5, <2>1, <2>3, <2>5, <3>1
  <2>6. CASE u = t
    <3>1. a = account
      BY <1>1, <2>1, <2>6 DEF Registers
    <3>2. HoldsItsList(u, a)'
      BY <2>1, <2>6, <3>1 DEF HoldsItsList
    <3>3. \A v \in Threads : Registers(v, a)' => v = u
      BY <1>1, <2>4, <2>6
    <3> QED
      BY <3>2, <3>3 DEF Alone
  <2> QED
    BY <2>5, <2>6
<1>8. ASSUME NEW t \in Threads, NEW r \in signatures, CheckSignature(t, r) PROVE Alone(a, u)
  <2>1. /\ \A v \in Threads \ {t} : work'[v] = work[v]
        /\ work'[t].step = "updating"
        /\ UNCHANGED <<securityKeyDataBase, lists>>
    BY <1>8 DEF CheckSignature, TypeOK, storeVars
  <2>2. u # t /\ \A v \in Threads : Registers(v, a)' => Registers(v, a)
    BY <1>1, <2>1 DEF Registers
  <2>3. Tokens(a)' = Tokens(a)
    BY <2>1 DEF Tokens
  <2> QED
    BY <1>5, <2>1, <2>2, <2>3
<1>9. ASSUME NEW t \in Threads, ReadSize(t) PROVE Alone(a, u)
  <2>1. /\ \A v \in Threads \ {t} : work'[v] = work[v]
        /\ work'[t] = [work[t] EXCEPT !.size = Len(lists[work[t].list]) + 1]
        /\ work[t].step = "adding" /\ work[t].list # NoList
        /\ UNCHANGED <<securityKeyDataBase, lists>>
    BY <1>9 DEF ReadSize, TypeOK, storeVars
  <2>2. Tokens(a)' = Tokens(a)
    BY <2>1 DEF Tokens
  <2>3. ReadWork(t)
    BY <1>9, ReadSizeWork
  <2>4. \A v \in Threads : Registers(v, a)' => Registers(v, a)
    BY <2>1, <2>3 DEF Registers, ReadWork
  <2>5. CASE u # t
    BY <1>5, <2>1, <2>2, <2>4, <2>5
  <2>6. CASE u = t
    <3>1. Registers(u, a)
      BY <1>1, <2>4
    <3>2. work[t].list = securityKeyDataBase[a]
      BY <1>4, <2>1, <2>6, <3>1 DEF HoldsItsList
    <3>3. Tokens(a) = lists[work[t].list]
      BY <2>1, <3>2 DEF Tokens
    <3>4. HoldsItsList(u, a)'
      BY <2>1, <2>2, <2>3, <2>6, <3>2, <3>3 DEF HoldsItsList, ReadWork
    <3> QED
      BY <1>4, <2>4, <3>1, <3>4 DEF Alone
  <2> QED
    BY <2>5, <2>6
<1>10. ASSUME NEW t \in Threads, AddToken(t) PROVE Alone(a, u)
  <2> DEFINE w == work[t]
  <2>1. /\ \A v \in Threads \ {t} : work'[v] = work[v]
        /\ work'[t].step = "putting" /\ work'[t].account = w.account
        /\ work'[t].publicKey = w.publicKey
        /\ work'[t].list = IF w.list = NoList THEN Len(lists) + 1 ELSE w.list
        /\ w.step = "adding"
        /\ UNCHANGED securityKeyDataBase
    BY <1>10 DEF AddToken, TypeOK
  <2>2. \A v \in Threads : Registers(v, a)' => Registers(v, a)
    BY <2>1 DEF Registers
  <2>3. Registers(t, w.account) /\ w.account \in Accounts /\ Registers(u, a)
    BY <1>1, <2>1, <2>2, AddingType DEF Registers
  <2>4. CASE u = t
    <3>1. a = w.account
      BY <2>3, <2>4 DEF Registers
    <3>2. w.list = securityKeyDataBase[a]
      BY <1>4, <2>1, <2>3, <2>4 DEF HoldsItsList
    <3>3. CASE w.list = NoList
      <4>1. lists'[Len(lists) + 1] = <<Token(w.publicKey)>>
        BY <1>10, <3>3, AddTokenLists
      <4>2. HoldsItsList(u, a)'
        BY <2>1, <2>4, <3>2, <3>3, <4>1 DEF HoldsItsList, Token
      <4> QED
        BY <1>4, <2>2, <2>3, <4>2 DEF Alone
    <3>4. CASE w.list # NoList
      <4>1. HoldsItsList(u, a)'
        BY <2>1, <2>4, <3>2, <3>4 DEF HoldsItsList
      <4> QED
        BY <1>4, <2>2, <2>3, <4>1 DEF Alone
    <3> QED
      BY <3>3, <3>4
  <2>5. CASE u # t
    <3>1. a # w.account
      BY <1>4, <2>3, <2>5
    <3>2. Tokens(a)' = Tokens(a)
      BY <1>3, <1>10, <3>1, AddedTokens
    <3>3. work[u].list # NoList => work[u].list # w.list
      BY <2>3, <3>1 DEF ListsInv, Owned
    <3>4. work[u].step = "putting" => lists'[work[u].list] = lists[work[u].list]
      BY <1>4, <1>10, <2>3, <3>3, AddTokenLists
    <3> QED
      BY <1>5, <2>1, <2>2, <2>5, <3>2, <3>4
  <2> QED
    BY <2>4, <2>5
<1>11. ASSUME NEW t \in Threads, PutTokens(t) PROVE Alone(a, u)
  <2> DEFINE w == work[t]
  <2>1. /\ \A v \in Threads \ {t} : work'[v] = work[v]
        /\ work'[t].step = "idle" /\ w.step = "putting" /\ lists' = lists
    BY <1>11 DEF PutTokens, TypeOK, Idle
  <2>2. u # t /\ \A v \in Threads : Registers(v, a)' => Registers(v, a)
    BY <1>1, <2>1 DEF Registers
  <2>3. Registers(u, a) /\ Registers(t, w.account)
    BY <1>1, <2>1, <2>2 DEF Registers
  <2>4. a # w.account
    BY <1>4, <2>2, <2>3
  <2>5. securityKeyDataBase'[a] = securityKeyDataBase[a]
    BY <1>1, <1>11, <2>4 DEF PutTokens
  <2>6. Tokens(a)' = Tokens(a)
    BY <2>1, <2>5 DEF Tokens
  <2> QED
    BY <1>5, <2>1, <2>2, <2>5, <2>6
<1>12. ASSUME NEW t \in Threads, UpdateSecurityKeyCounter(t) PROVE Alone(a, u)
  <2> DEFINE w == work[t]
  <2>1. /\ \A v \in Threads \ {t} : work'[v] = work[v]
        /\ work'[t].step = "idle" /\ UNCHANGED securityKeyDataBase
    BY <1>12 DEF UpdateSecurityKeyCounter, TypeOK, Idle
  <2>2. u # t /\ \A v \in Threads : Registers(v, a)' => Registers(v, a)
    BY <1>1, <2>1 DEF Registers
  <2>3. /\ w.account \in Accounts /\ w.publicKey \in 1..MaxPairs
        /\ w.counter \in 0..MaxCounter
    BY <1>12, UpdatingType DEF UpdateSecurityKeyCounter
  <2>4. Tokens(a)' = IF a = w.account THEN WithCounter(Tokens(a), w.publicKey, w.counter)
                                      ELSE Tokens(a)
    BY <1>3, <1>12, UpdatedTokens DEF ListsInv
  <2>5. Len(Tokens(a)') = Len(Tokens(a))
    <3> DEFINE tokens == Tokens(a)
    <3>1. tokens \in Seq(SecurityKeyData)
      BY <1>3, TokensType
    <3> HIDE DEF tokens
    <3>2. LET new == WithCounter(tokens, w.publicKey, w.counter) IN
             new \in Seq(SecurityKeyData) /\ DOMAIN new = DOMAIN tokens
      BY <2>3, <3>1, WithCounterProperties
    <3>3. Len(WithCounter(tokens, w.publicKey, w.counter)) = Len(tokens)
      BY <3>1, <3>2
    <3> QED
      BY <2>4, <3>3 DEF tokens
  <2>6. work[u].step = "putting" /\ securityKeyDataBase[a] = NoList =>
           lists'[work[u].list] = lists[work[u].list]
    <3> SUFFICES ASSUME work[u].step = "putting", securityKeyDataBase[a] = NoList
                 PROVE  lists'[work[u].list] = lists[work[u].list]
      OBVIOUS
    <3>1. Registers(u, a) /\ work[u].list \in DOMAIN lists /\ work[u].list # NoList
      BY <1>1, <1>4, <2>2
    <3>2. work[u].list # securityKeyDataBase[w.account]
      <4>1. CASE w.account = a
        BY <3>1, <4>1
      <4>2. CASE w.account # a
        BY <1>3, <2>3, <3>1, <4>2 DEF ListsInv, Owned
      <4> QED
        BY <4>1, <4>2
    <3> QED
      BY <1>12, <3>1, <3>2, UpdatedLists
  <2> QED
    BY <1>5, <2>1, <2>2, <2>5, <2>6
<1>13. ASSUME NEW account \in Accounts, NEW publicKey \in 1..pairs,
              RemoveSecurityKey(account, publicKey)
       PROVE  Alone(a, u)
  <2>1. /\ UNCHANGED <<securityKeyDataBase, work>>
        /\ lists' = [lists EXCEPT ![securityKeyDataBase[account]] = Without(@, publicKey)]
        /\ \A v \in Threads : ~Registers(v, account)
    BY <1>13 DEF RemoveSecurityKey, Registering, Registers
  <2>2. \A v \in Threads : Registers(v, a)' => Registers(v, a)
    BY <2>1 DEF Registers
  <2>3. Registers(u, a) /\ a # account
    BY <1>1, <2>1, <2>2
  <2>4. Tokens(a)' = Tokens(a)
    BY <1>3, <1>13, <2>3, RemovedTokens DEF ListsInv
  <2>5. work[u].step = "putting" => lists'[work[u].list] = lists[work[u].list]
    <3> SUFFICES ASSUME work[u].step = "putting"
                 PROVE  lists'[work[u].list] = lists[work[u].list]
      OBVIOUS
    <3>1. work[u].list \in DOMAIN lists /\ work[u].list # securityKeyDataBase[account]
      BY <1>3, <1>4, <2>3 DEF ListsInv, Owned
    <3> QED
      BY <2>1, <3>1
  <2> QED
    BY <1>5, <2>1, <2>2, <2>4, <2>5
<1> QED
  BY <1>6, <1>7, <1>8, <1>9, <1>10, <1>11, <1>12, <1>13
  DEF Next, vars, storeVars, GetRegistrationRequest, GetSignRequest, Register, Authenticate

LEMMA OwnedStep ==
    ASSUME TypeOK, Owned, [Next]_vars
    PROVE  Owned'
<1>1. ASSUME UNCHANGED <<securityKeyDataBase, work>> PROVE Owned'
  BY <1>1, OwnedPreserved DEF Registers
<1>2. ASSUME NEW t \in Threads, NEW r \in registrations, CheckRegistration(t, r) PROVE Owned'
  <2>1. /\ \A u \in Threads \ {t} : work'[u] = work[u]
        /\ work'[t].list = securityKeyDataBase[work'[t].account]
        /\ UNCHANGED securityKeyDataBase
    BY <1>2 DEF CheckRegistration, TypeOK, storeVars
  <2> QED
    BY <2>1, OwnedPreserved DEF Registers
<1>3. ASSUME NEW t \in Threads, NEW r \in signatures, CheckSignature(t, r) PROVE Owned'
  <2>1. /\ \A u \in Threads \ {t} : work'[u] = work[u]
        /\ work'[t].step = "updating" /\ UNCHANGED securityKeyDataBase
    BY <1>3 DEF CheckSignature, TypeOK, storeVars
  <2> QED
    BY <2>1, OwnedPreserved DEF Registers
<1>4. ASSUME NEW t \in Threads, ReadSize(t) PROVE Owned'
  <2>1. /\ \A u \in Threads \ {t} : work'[u] = work[u]
        /\ ReadWork(t) /\ UNCHANGED securityKeyDataBase
    BY <1>4, ReadSizeWork DEF ReadSize, TypeOK, storeVars
  <2> QED
    BY <2>1, OwnedPreserved DEF Registers, ReadWork
<1>5. ASSUME NEW t \in Threads, UpdateSecurityKeyCounter(t) PROVE Owned'
  <2>1. /\ \A u \in Threads \ {t} : work'[u] = work[u]
        /\ work'[t].step = "idle" /\ UNCHANGED securityKeyDataBase
    BY <1>5 DEF UpdateSecurityKeyCounter, TypeOK, Idle
  <2> QED
    BY <2>1, OwnedPreserved DEF Registers
<1> QED
  BY <1>1, <1>2, <1>3, <1>4, <1>5, AddTokenKeepsOwned, PutTokensKeepsOwned
  DEF Next, vars, storeVars, GetRegistrationRequest, GetSignRequest, Register, Authenticate,
      RemoveSecurityKey

(***************************************************************************)
(* What registrations hold of the lists, in every state.                   *)
(***************************************************************************)
LEMMA ListsInvariant == Spec => []ListsInv
<1>1. Init => ListsInv
  BY DEF Init, ListsInv, Owned, OneAtATime, Registers, Idle, NoList
<1>2. TypeOK /\ ListsInv /\ [Next]_vars => ListsInv'
  BY OwnedStep, OneAtATimeStep DEF ListsInv
<1> QED
  BY <1>1, <1>2, TypeCorrect, PTL DEF Spec
-----------------------------------------------------------------------------
(***************************************************************************)
(* The counter the data store finds for a key is that of its first entry.  *)
(* What each operation on a list does to it.                               *)
(***************************************************************************)
StoredCounter(tokens, publicKey) == tokens[FirstEntry(tokens, publicKey)].counter

LEMMA FirstEntryIs ==
    ASSUME NEW tokens \in Seq(SecurityKeyData), NEW publicKey,
           NEW i \in Entries(tokens, publicKey),
           \A j \in Entries(tokens, publicKey) : i <= j
    PROVE  FirstEntry(tokens, publicKey) = i
<1>1. FirstEntry(tokens, publicKey) \in Entries(tokens, publicKey)
      /\ FirstEntry(tokens, publicKey) <= i
  BY FirstEntryIsLeast
<1>2. FirstEntry(tokens, publicKey) \in Nat /\ i \in Nat
  BY <1>1 DEF Entries
<1> QED
  BY <1>1, <1>2

LEMMA AppendCounter ==
    ASSUME NEW tokens \in Seq(SecurityKeyData), NEW new \in SecurityKeyData, NEW publicKey
    PROVE  LET longer == Append(tokens, new) IN
           /\ Entries(tokens, publicKey) # {} =>
                /\ Entries(longer, publicKey) # {}
                /\ StoredCounter(longer, publicKey) = StoredCounter(tokens, publicKey)
           /\ Entries(tokens, publicKey) = {} /\ new.publicKey = publicKey =>
                /\ Entries(longer, publicKey) # {}
                /\ StoredCounter(longer, publicKey) = new.counter
           /\ Entries(tokens, publicKey) = {} /\ new.publicKey # publicKey =>
                Entries(longer, publicKey) = {}
<1> DEFINE longer == Append(tokens, new)
           n == Len(tokens) + 1
<1>1. /\ longer \in Seq(SecurityKeyData) /\ n \in Nat
      /\ DOMAIN longer = DOMAIN tokens \cup {n} /\ longer[n] = new
      /\ \A i \in DOMAIN tokens : longer[i] = tokens[i] /\ i \in Nat /\ i <= n
  OBVIOUS
<1> HIDE DEF longer, n
<1>2. \A i : i \in Entries(longer, publicKey) <=>
               \/ i \in Entries(tokens, publicKey)
               \/ i = n /\ new.publicKey = publicKey
  <2>1. n \notin DOMAIN tokens
    BY DEF n
  <2> QED
    BY <1>1, <2>1 DEF Entries
<1>3. ASSUME Entries(tokens, publicKey) # {}
      PROVE  /\ Entries(longer, publicKey) # {}
             /\ StoredCounter(longer, publicKey) = StoredCounter(tokens, publicKey)
  <2> DEFINE f == FirstEntry(tokens, publicKey)
  <2>1. f \in Entries(tokens, publicKey) /\ \A j \in Entries(tokens, publicKey) : f <= j
    BY <1>3, FirstEntryIsLeast
  <2>2. f \in DOMAIN tokens
    BY <2>1 DEF Entries
  <2>3. \A j \in Entries(longer, publicKey) : f <= j
    BY <1>1, <1>2, <2>1, <2>2
  <2>4. FirstEntry(longer, publicKey) = f
    BY <1>1, <1>2, <2>1, <2>3, FirstEntryIs
  <2> QED
    BY <1>1, <1>2, <2>1, <2>2, <2>4 DEF StoredCounter
<1>4. ASSUME Entries(tokens, publicKey) = {}, new.publicKey = publicKey
      PROVE  /\ Entries(longer, publicKey) # {}
             /\ StoredCounter(longer, publicKey) = new.counter
  <2>1. n \in Entries(longer, publicKey) /\ \A j \in Entries(longer, publicKey) : n <= j
    BY <1>1, <1>2, <1>4
  <2>2. FirstEntry(longer, publicKey) = n
    BY <1>1, <2>1, FirstEntryIs
  <2> QED
    BY <1>1, <2>1, <2>2 DEF StoredCounter
<1> QED
  BY <1>2, <1>3, <1>4 DEF longer

LEMMA UpdatedCounter ==
    ASSUME NEW tokens \in Seq(SecurityKeyData), NEW updated \in 1..MaxPairs,
           NEW value \in 0..MaxCounter, NEW publicKey
    PROVE  LET new == WithCounter(tokens, updated, value) IN
           /\ Entries(new, publicKey) = Entries(tokens, publicKey)
           /\ Entries(tokens, publicKey) # {} =>
                StoredCounter(new, publicKey) =
                    IF publicKey = updated THEN value ELSE StoredCounter(tokens, publicKey)
<1> DEFINE f == FirstEntry(tokens, updated)
           entry == [publicKey |-> updated, counter |-> value]
           new == WithCounter(tokens, updated, value)
<1>1. CASE Entries(tokens, updated) = {}
  BY <1>1 DEF WithCounter
<1>2. CASE Entries(tokens, updated) # {}
  <2>1. f \in DOMAIN tokens /\ tokens[f].publicKey = updated
    BY <1>2, FirstEntryIsLeast DEF Entries
  <2>2. entry \in SecurityKeyData
    BY DEF SecurityKeyData
  <2>3. new = [tokens EXCEPT ![f] = entry]
    BY <1>2 DEF WithCounter
  <2>4. /\ new \in Seq(SecurityKeyData) /\ DOMAIN new = DOMAIN tokens
        /\ \A i \in DOMAIN tokens : new[i] = IF i = f THEN entry ELSE tokens[i]
    BY <2>1, <2>2, <2>3
  <2>5. entry.publicKey = updated /\ entry.counter = value
    OBVIOUS
  <2> HIDE DEF new, entry, f
  <2>6. \A other : Entries(new, other) = Entries(tokens, other)
    BY <2>1, <2>4, <2>5 DEF Entries
  <2>7. ASSUME Entries(tokens, publicKey) # {}
        PROVE  StoredCounter(new, publicKey) =
                   IF publicKey = updated THEN value ELSE StoredCounter(tokens, publicKey)
    <3> DEFINE g == FirstEntry(tokens, publicKey)
    <3>1. /\ g \in Entries(tokens, publicKey) /\ \A j \in Entries(tokens, publicKey) : g <= j
          /\ g \in DOMAIN tokens /\ tokens[g].publicKey = publicKey
      BY <2>7, FirstEntryIsLeast DEF Entries
    <3>2. FirstEntry(new, publicKey) = g
      BY <2>4, <2>6, <3>1, FirstEntryIs
    <3>3. CASE publicKey = updated
      BY <2>4, <2>5, <3>1, <3>2, <3>3 DEF StoredCounter, f
    <3>4. CASE publicKey # updated
      BY <2>1, <2>4, <3>1, <3>2, <3>4 DEF StoredCounter
    <3> QED
      BY <3>3, <3>4
  <2> QED
    BY <2>6, <2>7 DEF new
<1> QED
  BY <1>1, <1>2

LEMMA RemovedCounter ==
    ASSUME NEW tokens \in Seq(SecurityKeyData), NEW removedKey,
           Entries(tokens, removedKey) # {}, NEW publicKey, publicKey # removedKey
    PROVE  LET new == Without(tokens, removedKey) IN
           /\ Entries(tokens, publicKey) # {} <=> Entries(new, publicKey) # {}
           /\ Entries(tokens, publicKey) # {} =>
                StoredCounter(new, publicKey) = StoredCounter(tokens, publicKey)
<1> DEFINE f == FirstEntry(tokens, removedKey)
           new == Without(tokens, removedKey)
<1> HIDE DEF new, f
<1>1. /\ f \in 1..Len(tokens) /\ tokens[f].publicKey = removedKey
      /\ new \in Seq(SecurityKeyData) /\ Len(new) = Len(tokens) - 1
      /\ DOMAIN new = 1..(Len(tokens) - 1)
      /\ \A i \in 1..(f - 1) : new[i] = tokens[i]
      /\ \A i \in f..(Len(tokens) - 1) : new[i] = tokens[i + 1]
  BY WithoutShape DEF new, f
<1>2. Len(tokens) \in Nat /\ DOMAIN tokens = 1..Len(tokens)
  OBVIOUS
<1>3. ASSUME NEW i \in Entries(new, publicKey)
      PROVE  /\ i < f => i \in Entries(tokens, publicKey)
             /\ i >= f => i + 1 \in Entries(tokens, publicKey)
  BY <1>1, <1>2, <1>3 DEF Entries
<1>4. ASSUME NEW j \in Entries(tokens, publicKey)
      PROVE  /\ j # f
             /\ j < f => j \in Entries(new, publicKey) /\ new[j] = tokens[j]
             /\ j > f => j - 1 \in Entries(new, publicKey) /\ new[j - 1] = tokens[j]
  <2>1. j \in 1..Len(tokens) /\ tokens[j].publicKey = publicKey
    BY <1>2, <1>4 DEF Entries
  <2>2. j # f
    BY <1>1, <2>1
  <2>3. CASE j < f
    <3>1. j \in DOMAIN new /\ new[j] = tokens[j]
      BY <1>1, <1>2, <2>1, <2>3
    <3> QED
      BY <1>1, <2>1, <2>3, <3>1 DEF Entries
  <2>4. CASE j > f
    <3>1. j - 1 \in f..(Len(tokens) - 1) /\ (j - 1) + 1 = j /\ j - 1 \in DOMAIN new
      BY <1>1, <1>2, <2>1, <2>4
    <3>2. new[j - 1] = tokens[j]
      BY <1>1, <3>1
    <3> QED
      BY <1>1, <2>1, <2>4, <3>1, <3>2 DEF Entries
  <2> QED
    BY <1>1, <2>1, <2>2, <2>3, <2>4
<1>5. ASSUME Entries(new, publicKey) # {} PROVE Entries(tokens, publicKey) # {}
  <2>1. PICK i \in Entries(new, publicKey) : TRUE
    BY <1>5
  <2>2. i \in Nat
    BY <1>1, <2>1 DEF Entries
  <2> QED
    BY <1>1, <1>3, <2>1, <2>2
<1>6. ASSUME Entries(tokens, publicKey) # {}
      PROVE  /\ Entries(new, publicKey) # {}
             /\ StoredCounter(new, publicKey) = StoredCounter(tokens, publicKey)
  <2> DEFINE g == FirstEntry(tokens, publicKey)
  <2>1. g \in Entries(tokens, publicKey) /\ \A j \in Entries(tokens, publicKey) : g <= j
    BY <1>6, FirstEntryIsLeast
  <2>2. g \in Nat /\ f \in Nat
    BY <1>1, <2>1 DEF Entries
  <2> HIDE DEF g
  <2>3. CASE g < f
    <3>1. ASSUME NEW i \in Entries(new, publicKey) PROVE g <= i
      <4>1. i \in Nat
        BY <1>1 DEF Entries
      <4> QED
        BY <1>3, <2>1, <2>2, <2>3, <4>1
    <3>2. g \in Entries(new, publicKey) /\ new[g] = tokens[g]
      BY <1>4, <2>1, <2>3
    <3>3. FirstEntry(new, publicKey) = g
      BY <1>1, <3>1, <3>2, FirstEntryIs
    <3> QED
      BY <3>2, <3>3 DEF StoredCounter, g
  <2>4. CASE g > f
    <3>1. ASSUME NEW i \in Entries(new, publicKey) PROVE g - 1 <= i
      <4>1. i \in Nat
        BY <1>1 DEF Entries
      <4> QED
        BY <1>3, <2>1, <2>2, <2>4, <4>1
    <3>2. g - 1 \in Entries(new, publicKey) /\ new[g - 1] = tokens[g]
      BY <1>4, <2>1, <2>4
    <3>3. FirstEntry(new, publicKey) = g - 1
      BY <1>1, <3>1, <3>2, FirstEntryIs
    <3> QED
      BY <3>2, <3>3 DEF StoredCounter, g
  <2> QED
    BY <1>4, <2>1, <2>2, <2>3, <2>4
<1> QED
  BY <1>5, <1>6 DEF new
-----------------------------------------------------------------------------
(***************************************************************************)
(* A key pair is registered for one session, so everything the server      *)
(* holds about a public key it holds for one account.                      *)
(***************************************************************************)
Home(publicKey, account) ==
    \E r \in registrations :
        r.publicKey = publicKey /\ sessionDataBase[r.session].account = account

OneRegistration ==
    /\ \A r, q \in registrations : r.publicKey = q.publicKey => r = q
    /\ \A r \in registrations : r.publicKey <= pairs

WorkHome == \A t \in Threads : work[t].step # "idle" => Home(work[t].publicKey, work[t].account)

\* l is the account's list, or one that a handler adds to for it.
Holds(account, l) ==
    \/ securityKeyDataBase[account] = l
    \/ \E t \in Threads : Registers(t, account) /\ work[t].list = l

ListsHome ==
    \A a \in Accounts, l \in DOMAIN lists :
        Holds(a, l) => \A i \in DOMAIN lists[l] : Home(lists[l][i].publicKey, a)

HistoryHome ==
    /\ \A p \in repeated : Home(p[2], p[1])
    /\ \A k \in 1..MaxPairs : highest[k] # 0 => \E a \in Accounts : Home(k, a)

HomeInv == OneRegistration /\ WorkHome /\ ListsHome /\ HistoryHome

LEMMA SessionsKept ==
    ASSUME TypeOK, [Next]_vars
    PROVE  /\ registrations \subseteq registrations'
           /\ \A s \in DOMAIN sessionDataBase : sessionDataBase'[s] = sessionDataBase[s]
<1>1. ASSUME NEW account \in Accounts, GetRegistrationRequest(account)
      PROVE  \A s \in DOMAIN sessionDataBase : sessionDataBase'[s] = sessionDataBase[s]
  <2>1. PICK challenge \in Challenges :
          sessionDataBase' = Append(sessionDataBase, Session(account, challenge, NoKey))
    BY <1>1 DEF GetRegistrationRequest
  <2>2. Session(account, challenge, NoKey) \in SessionData
    BY BoundsAssumption DEF Session, SessionData, NoKey
  <2>3. \A q \in Seq(SessionData), d \in SessionData :
          \A s \in DOMAIN q : Append(q, d)[s] = q[s]
    OBVIOUS
  <2> QED
    BY <2>1, <2>2, <2>3 DEF TypeOK
<1>2. ASSUME NEW account \in Accounts, GetSignRequest(account)
      PROVE  \A s \in DOMAIN sessionDataBase : sessionDataBase'[s] = sessionDataBase[s]
  <2>1. PICK challenge \in Challenges :
          sessionDataBase' = sessionDataBase \o
              [i \in DOMAIN Tokens(account) |->
                  Session(account, challenge, Tokens(account)[i].publicKey)]
    BY <1>2 DEF GetSignRequest
  <2> DEFINE new == [i \in DOMAIN Tokens(account) |->
                        Session(account, challenge, Tokens(account)[i].publicKey)]
  <2>2. DOMAIN Tokens(account) = 1..Len(Tokens(account)) /\ Len(Tokens(account)) \in Nat
    BY TokensType
  <2>3. new \in Seq({new[i] : i \in DOMAIN Tokens(account)})
    BY <2>2
  <2> HIDE DEF new
  <2>4. \A S, T : \A p \in Seq(S), q \in Seq(T) : \A s \in DOMAIN p : (p \o q)[s] = p[s]
    OBVIOUS
  <2> QED
    BY <2>1, <2>3, <2>4 DEF TypeOK, new
<1>3. ASSUME NEW account \in Accounts,
             GetRegistrationRequest(account) \/ GetSignRequest(account)
      PROVE  registrations' = registrations
  BY <1>3 DEF GetRegistrationRequest, GetSignRequest, pageVars
<1>4. ASSUME NEW s \in DOMAIN sessionDataBase, Register(s)
      PROVE  registrations \subseteq registrations' /\ sessionDataBase' = sessionDataBase
  BY <1>4 DEF Register, storeVars
<1>5. CASE /\ ~ \E account \in Accounts : GetRegistrationRequest(account) \/ GetSignRequest(account)
           /\ ~ \E s \in DOMAIN sessionDataBase : Register(s)
  BY <1>5 DEF Next, Authenticate, CheckRegistration, CheckSignature, ReadSize, AddToken, PutTokens,
              UpdateSecurityKeyCounter, RemoveSecurityKey, storeVars, pageVars, vars
<1> QED
  BY <1>1, <1>2, <1>3, <1>4, <1>5

\* Home of the next state: the key and the account may be of either.
HomeNext(publicKey, account) ==
    \E r \in registrations' :
        r.publicKey = publicKey /\ sessionDataBase'[r.session].account = account

LEMMA HomeKept ==
    ASSUME TypeOK, [Next]_vars, NEW publicKey, NEW account, Home(publicKey, account)
    PROVE  HomeNext(publicKey, account)
<1>1. PICK r \in registrations :
         r.publicKey = publicKey /\ sessionDataBase[r.session].account = account
  BY DEF Home
<1>2. r.session \in DOMAIN sessionDataBase
  BY <1>1 DEF TypeOK, Responses
<1>3. r \in registrations' /\ sessionDataBase'[r.session] = sessionDataBase[r.session]
  BY <1>1, <1>2, SessionsKept
<1> QED
  BY <1>1, <1>3 DEF HomeNext

LEMMA HomeIsUnique ==
    ASSUME OneRegistration, NEW publicKey, NEW a, NEW b, Home(publicKey, a), Home(publicKey, b)
    PROVE  a = b
  BY DEF OneRegistration, Home

(***************************************************************************)
(* The keys in an account's list are its own.                              *)
(***************************************************************************)
LEMMA TokensHome ==
    ASSUME TypeOK, ListsHome, NEW a \in Accounts, NEW publicKey,
           Entries(Tokens(a), publicKey) # {}
    PROVE  Home(publicKey, a)
<1>1. Tokens(a) # <<>>
  BY DEF Entries
<1>2. /\ securityKeyDataBase[a] \in DOMAIN lists
      /\ Tokens(a) = lists[securityKeyDataBase[a]]
  BY <1>1, TokensType
<1> QED
  BY <1>2 DEF ListsHome, Holds, Entries

(***************************************************************************)
(* Every step keeps a public key at home.                                  *)
(***************************************************************************)
LEMMA OneRegistrationStep ==
    ASSUME TypeOK, OneRegistration, [Next]_vars
    PROVE  OneRegistration'
<1>1. ASSUME UNCHANGED <<registrations, pairs>> PROVE OneRegistration'
  BY <1>1 DEF OneRegistration
<1>2. ASSUME NEW s \in DOMAIN sessionDataBase, Register(s) PROVE OneRegistration'
  <2> DEFINE new == [session |-> s, challenge |-> sessionDataBase[s].challenge,
                     publicKey |-> pairs + 1]
  <2>1. registrations' = registrations \cup {new} /\ pairs' = pairs + 1
    BY <1>2 DEF Register
  <2>2. pairs \in Nat /\ new.publicKey = pairs + 1
    BY DEF TypeOK
  <2> HIDE DEF new
  <2>3. \A r \in registrations : r.publicKey \in Nat /\ r.publicKey <= pairs
    BY DEF OneRegistration, TypeOK, Responses
  <2>4. \A r \in registrations' : \/ r \in registrations
                                  \/ r = new
    BY <2>1
  <2>5. \A r \in registrations' : r.publicKey <= pairs'
    BY <2>1, <2>2, <2>3, <2>4
  <2>6. \A r \in registrations : r.publicKey # new.publicKey
    BY <2>2, <2>3
  <2>7. ASSUME NEW r \in registrations', NEW q \in registrations', r.publicKey = q.publicKey
        PROVE  r = q
    BY <2>4, <2>6, <2>7 DEF OneRegistration
  <2> QED
    BY <2>5, <2>7 DEF OneRegistration
<1> QED
  BY <1>1, <1>2
  DEF Next, vars, keyVars, pageVars, storeVars, GetRegistrationRequest, GetSignRequest,
      Authenticate, CheckRegistration, CheckSignature, ReadSize, AddToken, PutTokens,
      UpdateSecurityKeyCounter, RemoveSecurityKey

(***************************************************************************)
(* A handler works on the key of a registration response, or on one in the *)
(* list of the session's account: on a key that is at home there.          *)
(***************************************************************************)
LEMMA WorkHomeStep ==
    ASSUME TypeOK, HomeInv, [Next]_vars
    PROVE  WorkHome'
<1> DEFINE HomeOf(t) == work'[t].step # "idle" =>
                            HomeNext(work'[t].publicKey, work'[t].account)
<1>1. SUFFICES \A u \in Threads : HomeOf(u)
  BY DEF WorkHome, Home, HomeNext
<1>2. ASSUME NEW u \in Threads, work'[u] = work[u] \/ work'[u] = Idle PROVE HomeOf(u)
  <2>1. CASE work'[u] = Idle
    BY <2>1 DEF Idle
  <2>2. CASE work'[u] = work[u]
    <3> SUFFICES ASSUME work[u].step # "idle"
                 PROVE  HomeNext(work[u].publicKey, work[u].account)
      BY <2>2
    <3>1. Home(work[u].publicKey, work[u].account)
      BY DEF HomeInv, WorkHome
    <3> QED
      BY <3>1, HomeKept
  <2> QED
    BY <1>2, <2>1, <2>2
<1>3. ASSUME work' = work PROVE \A u \in Threads : HomeOf(u)
  BY <1>2, <1>3
<1>4. ASSUME NEW t \in Threads, work' = [work EXCEPT ![t] = Idle]
      PROVE  \A u \in Threads : HomeOf(u)
  <2>1. \A u \in Threads : work'[u] = work[u] \/ work'[u] = Idle
    BY <1>4 DEF TypeOK
  <2> QED
    BY <1>2, <2>1
<1>5. ASSUME NEW t \in Threads, NEW r \in registrations, CheckRegistration(t, r)
      PROVE  \A u \in Threads : HomeOf(u)
  <2>1. /\ \A u \in Threads \ {t} : work'[u] = work[u]
        /\ work'[t].publicKey = r.publicKey
        /\ work'[t].account = sessionDataBase[r.session].account
    BY <1>5 DEF CheckRegistration, TypeOK
  <2>2. Home(r.publicKey, sessionDataBase[r.session].account)
    BY DEF Home
  <2>3. HomeNext(r.publicKey, sessionDataBase[r.session].account)
    BY <2>2, HomeKept
  <2> QED
    BY <1>2, <2>1, <2>3
<1>6. ASSUME NEW t \in Threads, NEW r \in signatures, CheckSignature(t, r)
      PROVE  \A u \in Threads : HomeOf(u)
  <2> DEFINE session == sessionDataBase[r.session]
  <2>1. /\ \A u \in Threads \ {t} : work'[u] = work[u]
        /\ work'[t].publicKey = session.publicKey
        /\ work'[t].account = session.account
        /\ Entries(Tokens(session.account), session.publicKey) # {}
    BY <1>6 DEF CheckSignature, TypeOK
  <2>2. session.account \in Accounts
    <3>1. r \in Signatures /\ session \in SessionData
      BY DEF TypeOK, Signatures
    <3> QED
      BY <3>1 DEF SessionData
  <2> HIDE DEF session
  <2>3. Home(session.publicKey, session.account)
    BY <2>1, <2>2, TokensHome DEF HomeInv
  <2>4. HomeNext(session.publicKey, session.account)
    BY <2>3, HomeKept
  <2> QED
    BY <1>2, <2>1, <2>4
<1>7. (\E t \in Threads : PutTokens(t) \/ UpdateSecurityKeyCounter(t))
         => \E t \in Threads : work' = [work EXCEPT ![t] = Idle]
  BY DEF PutTokens, UpdateSecurityKeyCounter
<1>8. ASSUME NEW t \in Threads, ReadSize(t) \/ AddToken(t)
      PROVE  \A u \in Threads : HomeOf(u)
  <2>1. /\ \A u \in Threads \ {t} : work'[u] = work[u]
        /\ work'[t].publicKey = work[t].publicKey
        /\ work'[t].account = work[t].account
        /\ work[t].step # "idle"
    <3>1. CASE ReadSize(t)
      <4>1. ReadWork(t)
        BY <3>1, ReadSizeWork
      <4> QED
        BY <3>1, <4>1 DEF ReadSize, ReadWork, TypeOK
    <3>2. CASE AddToken(t)
      BY <3>2 DEF AddToken, TypeOK
    <3> QED
      BY <1>8, <3>1, <3>2
  <2>2. Home(work[t].publicKey, work[t].account)
    BY <2>1 DEF HomeInv, WorkHome
  <2>3. HomeNext(work[t].publicKey, work[t].account)
    BY <2>2, HomeKept
  <2> QED
    BY <1>2, <2>1, <2>3
<1>9. ASSUME ~ \E t \in Threads : \/ \E r \in registrations : CheckRegistration(t, r)
                                  \/ \E r \in signatures : CheckSignature(t, r)
                                  \/ ReadSize(t) \/ AddToken(t) \/ PutTokens(t)
                                  \/ UpdateSecurityKeyCounter(t)
      PROVE  work' = work
  BY <1>9 DEF Next, vars, GetRegistrationRequest, GetSignRequest, Register, Authenticate,
              RemoveSecurityKey
<1> HIDE DEF HomeOf
<1> QED
  BY <1>3, <1>4, <1>5, <1>6, <1>7, <1>8, <1>9

(***************************************************************************)
(* A step keeps ListsHome if it gives no account a list it did not hold and*)
(* no list a new key.                                                      *)
(***************************************************************************)
LEMMA ListsHomeKept ==
    ASSUME TypeOK, HomeInv, [Next]_vars,
           \A a \in Accounts, l \in DOMAIN lists' : Holds(a, l)' => Holds(a, l),
           \A l \in DOMAIN lists' :
               /\ l \in DOMAIN lists
               /\ \A i \in DOMAIN lists'[l] : \E j \in DOMAIN lists[l] :
                      lists'[l][i].publicKey = lists[l][j].publicKey
    PROVE  ListsHome'
<1> SUFFICES ASSUME NEW a \in Accounts, NEW l \in DOMAIN lists', Holds(a, l)',
                    NEW i \in DOMAIN lists'[l]
             PROVE  HomeNext(lists'[l][i].publicKey, a)
  BY DEF ListsHome, Home, HomeNext
<1>1. PICK j \in DOMAIN lists[l] : lists'[l][i].publicKey = lists[l][j].publicKey
  OBVIOUS
<1>2. Home(lists[l][j].publicKey, a)
  BY DEF HomeInv, ListsHome
<1>3. HomeNext(lists[l][j].publicKey, a)
  BY <1>2, HomeKept
<1> QED
  BY <1>1, <1>3

LEMMA AddKeepsListsHome ==
    ASSUME TypeOK, ListsInv, HomeInv, [Next]_vars, NEW t \in Threads, AddToken(t)
    PROVE  ListsHome'
<1> DEFINE w == work[t]
           new == Token(w.publicKey)
<1>1. /\ w.account \in Accounts /\ w.list \in 0..Len(lists) /\ Registers(t, w.account)
  BY AddingType DEF AddToken, Registers
<1>2. /\ \A u \in Threads \ {t} : work'[u] = work[u]
      /\ work'[t].account = w.account /\ w.step = "adding"
      /\ work'[t].list = IF w.list = NoList THEN Len(lists) + 1 ELSE w.list
      /\ UNCHANGED securityKeyDataBase
  BY DEF AddToken, TypeOK
<1>3. new.publicKey = w.publicKey /\ HomeNext(w.publicKey, w.account)
  <2>1. Home(w.publicKey, w.account)
    BY DEF HomeInv, WorkHome, AddToken
  <2> QED
    BY <2>1, HomeKept DEF Token
<1> HIDE DEF new
<1> SUFFICES ASSUME NEW a \in Accounts, NEW l \in DOMAIN lists', Holds(a, l)',
                    NEW i \in DOMAIN lists'[l]
             PROVE  HomeNext(lists'[l][i].publicKey, a)
  BY DEF ListsHome, Home, HomeNext
<1>4. ASSUME NEW j \in DOMAIN lists[l], l \in DOMAIN lists, Holds(a, l)
      PROVE  HomeNext(lists[l][j].publicKey, a)
  <2>1. Home(lists[l][j].publicKey, a)
    BY <1>4 DEF HomeInv, ListsHome
  <2> QED
    BY <2>1, HomeKept
<1>5. \/ Holds(a, l)
      \/ a = w.account /\ w.list = NoList /\ l = Len(lists) + 1
  BY <1>2 DEF Holds, Registers
<1>6. CASE w.list = NoList
  <2>1. /\ Len(lists') = Len(lists) + 1 /\ lists'[Len(lists) + 1] = <<new>>
        /\ lists' \in Seq(Seq(SecurityKeyData))
        /\ \A k \in DOMAIN lists : lists'[k] = lists[k]
    BY <1>6, AddTokenLists DEF new
  <2>2. CASE l = Len(lists) + 1
    <3>1. ~Holds(a, l)
      <4>1. securityKeyDataBase[a] # l /\ Len(lists) \in Nat
        BY <2>2 DEF TypeOK
      <4>2. ASSUME NEW u \in Threads, Registers(u, a) PROVE work[u].list # l
        <5>1. work[u].list \in 0..Len(lists)
          BY <4>2, RegistersType
        <5> QED
          BY <2>2, <4>1, <5>1
      <4> QED
        BY <4>1, <4>2 DEF Holds
    <3> QED
      BY <1>3, <1>5, <2>1, <2>2, <3>1
  <2>3. CASE l # Len(lists) + 1
    <3>1. l \in DOMAIN lists
      BY <2>1, <2>3 DEF TypeOK
    <3> QED
      BY <1>4, <1>5, <2>1, <2>3, <3>1
  <2> QED
    BY <2>2, <2>3
<1>7. CASE w.list # NoList
  <2>1. /\ l \in DOMAIN lists /\ Holds(a, l) /\ l # NoList
        /\ lists[l] \in Seq(SecurityKeyData)
    BY <1>5, <1>7, AddTokenLists DEF TypeOK, NoList
  <2>2. CASE l = w.list
    <3>1. a = w.account
      BY <1>1, <1>7, <2>1, <2>2 DEF ListsInv, Owned, Holds
    <3> DEFINE tokens == lists[l]
               n == w.size - 1
    <3>2. /\ tokens \in Seq(SecurityKeyData) /\ n \in 0..Len(tokens)
          /\ lists'[l] = Append(SubSeq(tokens, 1, n), new)
      BY <1>7, <2>1, <2>2, AddTokenLists DEF new
    <3> HIDE DEF tokens, n
    <3>3. lists'[l][i] = new \/ (i \in DOMAIN tokens /\ lists'[l][i] = tokens[i])
      BY <3>2, OverwrittenEntries
    <3> QED
      BY <1>3, <1>4, <2>1, <3>1, <3>3 DEF tokens
  <2>3. CASE l # w.list
    BY <1>4, <1>7, <2>1, <2>3, AddTokenLists
  <2> QED
    BY <2>2, <2>3
<1> QED
  BY <1>6, <1>7

LEMMA ListsHomeStep ==
    ASSUME TypeOK, ListsInv, HomeInv, [Next]_vars
    PROVE  ListsHome'
<1>1. ASSUME UNCHANGED <<securityKeyDataBase, lists>>, NEW t \in Threads,
             \A u \in Threads \ {t} : work'[u] = work[u],
             work'[t].step \in {"adding", "putting"} =>
                 work'[t].list = securityKeyDataBase[work'[t].account]
      PROVE  ListsHome'
  <2>1. \A a \in Accounts, l \in DOMAIN lists' : Holds(a, l)' => Holds(a, l)
    BY <1>1 DEF Holds, Registers
  <2> QED
    BY <1>1, <2>1, ListsHomeKept
<1>2. ASSUME UNCHANGED <<securityKeyDataBase, lists, work>> PROVE ListsHome'
  <2>1. \A a \in Accounts, l \in DOMAIN lists' : Holds(a, l)' => Holds(a, l)
    BY <1>2 DEF Holds, Registers
  <2> QED
    BY <1>2, <2>1, ListsHomeKept
<1>3. ASSUME NEW t \in Threads, ReadSize(t) \/ PutTokens(t) PROVE ListsHome'
  <2>1. lists' = lists
    BY <1>3 DEF ReadSize, PutTokens, storeVars
  <2>2. \A a \in Accounts, l \in DOMAIN lists' : Holds(a, l)' => Holds(a, l)
    <3>1. CASE ReadSize(t)
      <4>1. /\ \A u \in Threads \ {t} : work'[u] = work[u]
            /\ ReadWork(t) /\ UNCHANGED securityKeyDataBase
        BY <3>1, ReadSizeWork DEF ReadSize, TypeOK, storeVars
      <4> QED
        BY <4>1 DEF Holds, Registers, ReadWork
    <3>2. CASE PutTokens(t)
      <4>1. /\ \A u \in Threads, a \in Accounts :
                  Registers(u, a)' => Registers(u, a) /\ work'[u].list = work[u].list
            /\ Registers(t, work[t].account)
        BY <3>2 DEF PutTokens, TypeOK, Registers, Idle
      <4>2. \A a \in Accounts : \/ securityKeyDataBase'[a] = securityKeyDataBase[a]
                                \/ securityKeyDataBase'[a] = NoList
                                \/ /\ a = work[t].account
                                   /\ securityKeyDataBase'[a] = work[t].list
        BY <3>2 DEF PutTokens
      <4>3. \A l \in DOMAIN lists' : l # NoList
        BY <2>1 DEF TypeOK, NoList
      <4> QED
        BY <4>1, <4>2, <4>3 DEF Holds
    <3> QED
      BY <1>3, <3>1, <3>2
  <2> QED
    BY <2>1, <2>2, ListsHomeKept
<1>4. ASSUME NEW t \in Threads, NEW r \in registrations, CheckRegistration(t, r)
      PROVE  ListsHome'
  <2>1. /\ \A u \in Threads \ {t} : work'[u] = work[u]
        /\ work'[t].list = securityKeyDataBase[work'[t].account]
        /\ UNCHANGED <<securityKeyDataBase, lists>>
    BY <1>4 DEF CheckRegistration, TypeOK, storeVars
  <2> QED
    BY <1>1, <2>1
<1>5. ASSUME NEW t \in Threads, NEW r \in signatures, CheckSignature(t, r)
      PROVE  ListsHome'
  <2>1. /\ \A u \in Threads \ {t} : work'[u] = work[u]
        /\ work'[t].step = "updating"
        /\ UNCHANGED <<securityKeyDataBase, lists>>
    BY <1>5 DEF CheckSignature, TypeOK, storeVars
  <2> QED
    BY <1>1, <2>1
<1>6. ASSUME NEW t \in Threads, UpdateSecurityKeyCounter(t) PROVE ListsHome'
  <2> DEFINE w == work[t]
  <2>1. w.publicKey \in 1..MaxPairs /\ w.counter \in 0..MaxCounter
    <3>1. w \in Work /\ w.step = "updating"
      BY <1>6 DEF UpdateSecurityKeyCounter, TypeOK
    <3> QED
      BY <3>1 DEF Work, Idle
  <2>2. /\ \A u \in Threads, a \in Accounts :
              Registers(u, a)' => Registers(u, a) /\ work'[u] = work[u]
        /\ UNCHANGED securityKeyDataBase
    BY <1>6 DEF UpdateSecurityKeyCounter, TypeOK, Registers, Idle
  <2>3. \A a \in Accounts, l \in DOMAIN lists' : Holds(a, l)' => Holds(a, l)
    BY <2>2 DEF Holds
  <2>4. ASSUME NEW l \in DOMAIN lists'
        PROVE  /\ l \in DOMAIN lists
               /\ \A i \in DOMAIN lists'[l] : \E j \in DOMAIN lists[l] :
                      lists'[l][i].publicKey = lists[l][j].publicKey
    <3>1. /\ l \in DOMAIN lists
          /\ lists'[l] \in {lists[l], WithCounter(lists[l], w.publicKey, w.counter)}
      BY <1>6, UpdatedLists
    <3>2. lists[l] \in Seq(SecurityKeyData)
      BY <3>1 DEF TypeOK
    <3> DEFINE new == WithCounter(lists[l], w.publicKey, w.counter)
    <3>3. /\ DOMAIN new = DOMAIN lists[l]
          /\ \A i \in DOMAIN lists[l] : new[i].publicKey = lists[l][i].publicKey
      BY <2>1, <3>2, WithCounterProperties
    <3> HIDE DEF new
    <3>4. lists'[l] = lists[l] \/ lists'[l] = new
      BY <3>1 DEF new
    <3> QED
      BY <3>1, <3>3, <3>4
  <2> QED
    BY <2>3, <2>4, ListsHomeKept
<1>7. ASSUME NEW account \in Accounts, NEW publicKey \in 1..pairs,
             RemoveSecurityKey(account, publicKey)
      PROVE  ListsHome'
  <2> DEFINE k == securityKeyDataBase[account]
  <2>1. /\ UNCHANGED <<securityKeyDataBase, work>>
        /\ lists' = [lists EXCEPT ![k] = Without(@, publicKey)]
        /\ Entries(Tokens(account), publicKey) # {}
    BY <1>7 DEF RemoveSecurityKey
  <2>2. \A a \in Accounts, l \in DOMAIN lists' : Holds(a, l)' => Holds(a, l)
    BY <2>1 DEF Holds, Registers
  <2>3. k \in DOMAIN lists /\ Tokens(account) = lists[k]
    <3>1. Tokens(account) # <<>>
      BY <2>1 DEF Entries
    <3> QED
      BY <3>1, TokensType
  <2> DEFINE tokens == lists[k]
  <2>4. tokens \in Seq(SecurityKeyData) /\ Entries(tokens, publicKey) # {}
    BY <2>1, <2>3 DEF TypeOK
  <2> HIDE DEF tokens
  <2>5. \A i \in DOMAIN Without(tokens, publicKey) :
           \E j \in DOMAIN tokens : Without(tokens, publicKey)[i] = tokens[j]
    BY <2>4, WithoutProperties
  <2>6. \A l \in DOMAIN lists' :
           /\ l \in DOMAIN lists
           /\ lists'[l] = lists[l] \/ (l = k /\ lists'[l] = Without(tokens, publicKey))
    BY <2>1, <2>3 DEF TypeOK, tokens
  <2>7. ASSUME NEW l \in DOMAIN lists', NEW i \in DOMAIN lists'[l]
        PROVE  \E j \in DOMAIN lists[l] : lists'[l][i].publicKey = lists[l][j].publicKey
    <3>1. CASE lists'[l] = lists[l]
      BY <3>1
    <3>2. CASE l = k /\ lists'[l] = Without(tokens, publicKey)
      BY <2>5, <3>2 DEF tokens
    <3> QED
      BY <2>6, <3>1, <3>2
  <2> QED
    BY <2>2, <2>6, <2>7, ListsHomeKept
<1> QED
  BY <1>2, <1>3, <1>4, <1>5, <1>6, <1>7, AddKeepsListsHome
  DEF Next, vars, storeVars, GetRegistrationRequest, GetSignRequest, Register, Authenticate

LEMMA HistoryHomeStep ==
    ASSUME TypeOK, HomeInv, [Next]_vars
    PROVE  HistoryHome'
<1>1. ASSUME UNCHANGED <<repeated, highest>> PROVE HistoryHome'
  <2>1. \A p \in repeated : HomeNext(p[2], p[1])
    BY HomeKept DEF HomeInv, HistoryHome
  <2>2. \A k \in 1..MaxPairs : highest[k] # 0 => \E a \in Accounts : HomeNext(k, a)
    BY HomeKept DEF HomeInv, HistoryHome
  <2> QED
    BY <1>1, <2>1, <2>2 DEF HistoryHome, Home, HomeNext
<1>2. ASSUME NEW t \in Threads, UpdateSecurityKeyCounter(t) PROVE HistoryHome'
  <2> DEFINE w == work[t]
  <2>1. w.account \in Accounts /\ w.publicKey \in 1..MaxPairs /\ w.counter \in 0..MaxCounter
    <3>1. w \in Work /\ w.step = "updating"
      BY <1>2 DEF UpdateSecurityKeyCounter, TypeOK
    <3> QED
      BY <3>1 DEF Work, Idle
  <2>2. HomeNext(w.publicKey, w.account)
    <3>1. Home(w.publicKey, w.account)
      BY <1>2 DEF HomeInv, WorkHome, UpdateSecurityKeyCounter
    <3> QED
      BY <3>1, HomeKept
  <2>3. /\ repeated' \subseteq repeated \cup {<<w.account, w.publicKey>>}
        /\ \A k \in (1..MaxPairs) \ {w.publicKey} : highest'[k] = highest[k]
    BY <1>2, <2>1 DEF UpdateSecurityKeyCounter, TypeOK
  <2> HIDE DEF w
  <2>4. ASSUME NEW p \in repeated' PROVE HomeNext(p[2], p[1])
    <3>1. CASE p \in repeated
      BY <3>1, HomeKept DEF HomeInv, HistoryHome
    <3>2. CASE p = <<w.account, w.publicKey>>
      BY <2>2, <3>2
    <3> QED
      BY <2>3, <3>1, <3>2
  <2>5. ASSUME NEW k \in 1..MaxPairs, highest'[k] # 0
        PROVE  \E a \in Accounts : HomeNext(k, a)
    <3>1. CASE k = w.publicKey
      BY <2>1, <2>2, <3>1
    <3>2. CASE k # w.publicKey
      <4>1. highest[k] # 0
        BY <2>3, <2>5, <3>2
      <4> QED
        BY <4>1, HomeKept DEF HomeInv, HistoryHome
    <3> QED
      BY <3>1, <3>2
  <2> QED
    BY <2>4, <2>5 DEF HistoryHome, Home, HomeNext
<1> QED
  BY <1>1, <1>2
  DEF Next, vars, historyVars, GetRegistrationRequest, GetSignRequest, Register, Authenticate,
      CheckRegistration, CheckSignature, ReadSize, AddToken, PutTokens, RemoveSecurityKey

(***************************************************************************)
(* Everything about a public key is at home, in every state.               *)
(***************************************************************************)
LEMMA HomeInvariant == Spec => []HomeInv
<1>1. Init => HomeInv
  BY DEF Init, HomeInv, OneRegistration, WorkHome, ListsHome, HistoryHome, Idle
<1>2. TypeOK /\ ListsInv /\ HomeInv /\ [Next]_vars => HomeInv'
  BY OneRegistrationStep, WorkHomeStep, ListsHomeStep, HistoryHomeStep DEF HomeInv
<1> QED
  BY <1>1, <1>2, TypeCorrect, ListsInvariant, PTL DEF Spec
-----------------------------------------------------------------------------
(***************************************************************************)
(* Why a key's accepted counters increase.  While nothing was processed at *)
(* once and the key was not removed, its account's list knows the highest  *)
(* counter accepted, and the one handler that is about to write has a      *)
(* higher one.                                                             *)
(***************************************************************************)
Updating(t, account, publicKey) ==
    /\ work[t].step = "updating"
    /\ work[t].account = account
    /\ work[t].publicKey = publicKey

Known(account, publicKey) == Entries(Tokens(account), publicKey) # {}

Counted(account, publicKey) ==
    /\ ~Known(account, publicKey) => highest[publicKey] = 0
    /\ \A t \in Threads : Updating(t, account, publicKey) => Known(account, publicKey)
    /\ publicKey \notin overlapped =>
         /\ Known(account, publicKey) =>
              StoredCounter(Tokens(account), publicKey) >= highest[publicKey]
         /\ \A t \in Threads : Updating(t, account, publicKey) =>
              work[t].counter > highest[publicKey]
         /\ <<account, publicKey>> \notin repeated

CountInv ==
    \A a \in Accounts \ rushed, k \in (1..MaxPairs) \ removed : Home(k, a) => Counted(a, k)

(***************************************************************************)
(* A key keeps its count when its entry keeps its counter and its history  *)
(* is left alone, and no handler starts to update it.                      *)
(***************************************************************************)
LEMMA CountedKept ==
    ASSUME NEW a \in Accounts, NEW k \in 1..MaxPairs, Counted(a, k),
           Entries(Tokens(a)', k) # {} <=> Entries(Tokens(a), k) # {},
           Entries(Tokens(a), k) # {} =>
               StoredCounter(Tokens(a)', k) = StoredCounter(Tokens(a), k),
           highest'[k] = highest[k], overlapped \subseteq overlapped',
           <<a, k>> \in repeated' => <<a, k>> \in repeated,
           \A t \in Threads : Updating(t, a, k)' =>
               Updating(t, a, k) /\ work'[t].counter = work[t].counter
    PROVE  Counted(a, k)'
<1> SUFFICES /\ Entries(Tokens(a)', k) = {} => highest'[k] = 0
             /\ \A t \in Threads : Updating(t, a, k)' => Entries(Tokens(a)', k) # {}
             /\ k \notin overlapped' =>
                  /\ Entries(Tokens(a)', k) # {} => StoredCounter(Tokens(a)', k) >= highest'[k]
                  /\ \A t \in Threads : Updating(t, a, k)' => work'[t].counter > highest'[k]
                  /\ <<a, k>> \notin repeated'
  BY DEF Counted, Known, Updating
<1> QED
  BY DEF Counted, Known

(***************************************************************************)
(* A key that is registered by this step has no history.                   *)
(***************************************************************************)
LEMMA NewKeyCounted ==
    ASSUME TypeOK, HomeInv, NEW a \in Accounts, NEW k \in 1..MaxPairs, k > pairs,
           UNCHANGED <<storeVars, work, historyVars>>
    PROVE  Counted(a, k)'
<1>1. ASSUME NEW b, Home(k, b) PROVE FALSE
  <2>1. PICK r \in registrations : r.publicKey = k
    BY <1>1 DEF Home
  <2>2. k <= pairs
    BY <2>1 DEF HomeInv, OneRegistration
  <2> QED
    BY <2>2 DEF TypeOK
<1>2. ~Known(a, k)
  BY <1>1, TokensHome DEF HomeInv, Known
<1>3. highest[k] = 0
  BY <1>1 DEF HomeInv, HistoryHome
<1>4. \A t \in Threads : ~Updating(t, a, k)
  BY <1>1 DEF HomeInv, WorkHome, Updating
<1>5. <<a, k>> \notin repeated
  BY <1>1 DEF HomeInv, HistoryHome
<1>6. Counted(a, k)
  BY <1>2, <1>3, <1>4, <1>5 DEF Counted
<1> QED
  BY <1>6 DEF Counted, Known, Updating, Tokens, storeVars, historyVars

(***************************************************************************)
(* Only register finds a key a home, and that key is new.                  *)
(***************************************************************************)
LEMMA HomeWas ==
    ASSUME TypeOK, [Next]_vars, NEW a \in Accounts, NEW k \in 1..MaxPairs, Home(k, a)'
    PROVE  \/ Home(k, a)
           \/ k > pairs /\ UNCHANGED <<storeVars, work, historyVars>>
<1>1. PICK r \in registrations' : r.publicKey = k /\ sessionDataBase'[r.session].account = a
  BY DEF Home
<1>2. CASE r \in registrations
  <2>1. r.session \in DOMAIN sessionDataBase
    BY <1>2 DEF TypeOK, Responses
  <2>2. sessionDataBase'[r.session] = sessionDataBase[r.session]
    BY <2>1, SessionsKept
  <2> QED
    BY <1>1, <1>2, <2>2 DEF Home
<1>3. CASE r \notin registrations
  <2>1. PICK s \in DOMAIN sessionDataBase : Register(s)
    BY <1>1, <1>3
    DEF Next, vars, pageVars, GetRegistrationRequest, GetSignRequest, Authenticate,
        CheckRegistration, CheckSignature, ReadSize, AddToken, PutTokens, UpdateSecurityKeyCounter,
        RemoveSecurityKey
  <2>2. r.publicKey = pairs + 1
    BY <1>1, <1>3, <2>1 DEF Register
  <2>3. k > pairs
    BY <1>1, <2>2 DEF TypeOK
  <2> QED
    BY <2>1, <2>3 DEF Register
<1> QED
  BY <1>2, <1>3

LEMMA CountStep ==
    ASSUME TypeOK, ListsInv, HomeInv, CountInv, [Next]_vars
    PROVE  CountInv'
<1> SUFFICES ASSUME NEW a \in Accounts \ rushed', NEW k \in (1..MaxPairs) \ removed', Home(k, a)'
             PROVE  Counted(a, k)'
  BY DEF CountInv
<1>1. rushed \subseteq rushed' /\ removed \subseteq removed'
  BY DEF Next, vars, historyVars, GetRegistrationRequest, GetSignRequest, Register,
         Authenticate, CheckRegistration, CheckSignature, ReadSize, AddToken, PutTokens,
         UpdateSecurityKeyCounter, RemoveSecurityKey
<1>2. /\ a \in Accounts \ rushed /\ k \in (1..MaxPairs) \ removed
      /\ a \in Accounts /\ k \in 1..MaxPairs
  BY <1>1
<1> SUFFICES ASSUME Home(k, a)
             PROVE  Counted(a, k)'
  BY <1>2, HomeWas, NewKeyCounted
<1>3. Counted(a, k)
  BY <1>2 DEF CountInv
<1>4. Tokens(a) \in Seq(SecurityKeyData)
  BY <1>2, TokensType
<1>5. ASSUME UNCHANGED <<securityKeyDataBase, lists, highest, repeated, overlapped>>,
             \A t \in Threads : Updating(t, a, k)' =>
                 Updating(t, a, k) /\ work'[t].counter = work[t].counter
      PROVE  Counted(a, k)'
  <2>1. Tokens(a)' = Tokens(a)
    BY <1>5 DEF Tokens
  <2> QED
    BY <1>2, <1>3, <1>5, <2>1, CountedKept
<1>6. ASSUME UNCHANGED <<securityKeyDataBase, lists, work, highest, repeated, overlapped>>
      PROVE  Counted(a, k)'
  BY <1>5, <1>6 DEF Updating
<1>7. ASSUME NEW t \in Threads, NEW r \in registrations, CheckRegistration(t, r)
      PROVE  Counted(a, k)'
  <2>1. /\ \A u \in Threads \ {t} : work'[u] = work[u]
        /\ work'[t].step = "adding"
    BY <1>7 DEF CheckRegistration, TypeOK
  <2> QED
    BY <1>5, <1>7, <2>1 DEF CheckRegistration, storeVars, Updating
<1>8. ASSUME NEW t \in Threads, NEW r \in signatures, CheckSignature(t, r)
      PROVE  Counted(a, k)'
  <2> DEFINE session == sessionDataBase[r.session]
             tokens == Tokens(session.account)
  <2>1. /\ \A u \in Threads \ {t} : work'[u] = work[u]
        /\ work'[t].account = session.account
        /\ work'[t].publicKey = r.publicKey
        /\ work'[t].counter = r.counter
        /\ UNCHANGED <<securityKeyDataBase, lists, highest, repeated, overlapped>>
    BY <1>8 DEF CheckSignature, TypeOK, storeVars, historyVars
  <2>2. /\ Entries(tokens, session.publicKey) # {} /\ r.publicKey = session.publicKey
        /\ ~(r.counter <= StoredCounter(tokens, session.publicKey))
    BY <1>8 DEF CheckSignature, Stale, StoredCounter
  <2>3. r.counter \in 0..MaxCounter
    BY DEF TypeOK, Signatures
  <2> HIDE DEF session, tokens
  <2>4. CASE session.account = a /\ r.publicKey = k
    <3>1. tokens = Tokens(a) /\ session.publicKey = k
      BY <2>2, <2>4 DEF tokens
    <3>2. Known(a, k)
      BY <2>2, <3>1 DEF Known
    <3>3. StoredCounter(Tokens(a), k) \in Nat /\ highest[k] \in Nat
      <4>1. FirstEntry(Tokens(a), k) \in DOMAIN Tokens(a)
        BY <1>4, <3>2, FirstEntryIsLeast DEF Known, Entries
      <4>2. Tokens(a)[FirstEntry(Tokens(a), k)] \in SecurityKeyData
        BY <1>4, <4>1
      <4>3. highest[k] \in 0..MaxCounter
        BY <1>2 DEF TypeOK
      <4> QED
        BY <4>2, <4>3 DEF StoredCounter, SecurityKeyData
    <3>4. r.counter > StoredCounter(Tokens(a), k)
      BY <2>2, <2>3, <3>1, <3>3
    <3>5. k \notin overlapped => r.counter > highest[k]
      BY <1>3, <2>3, <3>2, <3>3, <3>4 DEF Counted
    <3>6. Tokens(a)' = Tokens(a)
      BY <2>1 DEF Tokens
    <3>7. ASSUME NEW u \in Threads
          PROVE  k \notin overlapped =>
                     (Updating(u, a, k)' => work'[u].counter > highest[k])
      BY <1>3, <2>1, <3>5 DEF Counted, Updating
    <3> QED
      BY <1>3, <2>1, <3>2, <3>6, <3>7 DEF Counted, Known
  <2>5. CASE ~(session.account = a /\ r.publicKey = k)
    BY <1>5, <2>1, <2>5 DEF Updating
  <2> QED
    BY <2>4, <2>5
<1>9. ASSUME NEW t \in Threads, ReadSize(t) PROVE Counted(a, k)'
  <2>1. /\ \A u \in Threads \ {t} : work'[u] = work[u]
        /\ work'[t].step = "adding"
        /\ UNCHANGED <<securityKeyDataBase, lists, highest, repeated, overlapped>>
    BY <1>9, ReadSizeWork DEF ReadSize, ReadWork, TypeOK, storeVars, historyVars
  <2> QED
    BY <1>5, <2>1 DEF Updating
<1>10. ASSUME NEW t \in Threads, AddToken(t) \/ PutTokens(t) PROVE Counted(a, k)'
  <2> DEFINE w == work[t]
             new == Token(w.publicKey)
  <2>1. w.publicKey \in 1..MaxPairs
    BY <1>10, AddingType, PuttingType DEF AddToken, PutTokens
  <2>2. /\ \A u \in Threads : Updating(u, a, k)' =>
               Updating(u, a, k) /\ work'[u].counter = work[u].counter
        /\ UNCHANGED <<highest, repeated, overlapped>>
    <3>1. CASE AddToken(t)
      BY <3>1 DEF AddToken, TypeOK, Updating, historyVars
    <3>2. CASE PutTokens(t)
      BY <3>2 DEF PutTokens, TypeOK, Updating, Idle
    <3> QED
      BY <1>10, <3>1, <3>2
  <2>3. \/ Tokens(a)' = Tokens(a)
        \/ a = w.account /\ Tokens(a)' = Append(Tokens(a), new)
    BY <1>2, <1>10, AddedTokens, PutTokensTokens
  <2>4. new \in SecurityKeyData /\ new.publicKey = w.publicKey /\ new.counter = 0
    BY <2>1, BoundsAssumption DEF Token, SecurityKeyData
  <2> HIDE DEF w, new
  <2>5. CASE Tokens(a)' = Tokens(a)
    BY <1>2, <1>3, <2>2, <2>5, CountedKept
  <2>6. CASE Tokens(a)' = Append(Tokens(a), new) /\ (Known(a, k) \/ w.publicKey # k)
    <3>1. /\ Entries(Tokens(a)', k) # {} <=> Entries(Tokens(a), k) # {}
          /\ Entries(Tokens(a), k) # {} =>
               StoredCounter(Tokens(a)', k) = StoredCounter(Tokens(a), k)
      BY <1>4, <2>4, <2>6, AppendCounter DEF Known
    <3> QED
      BY <1>2, <1>3, <2>2, <3>1, CountedKept
  <2>7. CASE Tokens(a)' = Append(Tokens(a), new) /\ ~Known(a, k) /\ w.publicKey = k
    <3>1. Entries(Tokens(a)', k) # {} /\ StoredCounter(Tokens(a)', k) = 0
      BY <1>4, <2>4, <2>7, AppendCounter DEF Known
    <3>2. highest[k] = 0 /\ \A u \in Threads : ~Updating(u, a, k)
      BY <1>3, <2>7 DEF Counted
    <3>3. k \notin overlapped => <<a, k>> \notin repeated
      BY <1>3 DEF Counted
    <3>4. \A u \in Threads : ~Updating(u, a, k)'
      BY <2>2, <3>2
    <3> QED
      BY <2>2, <3>1, <3>2, <3>3, <3>4 DEF Counted, Known
  <2> QED
    BY <2>3, <2>5, <2>6, <2>7
<1>11. ASSUME NEW t \in Threads, UpdateSecurityKeyCounter(t) PROVE Counted(a, k)'
  <2> DEFINE w == work[t]
  <2>1. /\ w.account \in Accounts /\ w.publicKey \in 1..MaxPairs /\ w.counter \in 0..MaxCounter
        /\ Updating(t, w.account, w.publicKey)
    <3>1. w \in Work /\ w.step = "updating"
      BY <1>11 DEF UpdateSecurityKeyCounter, TypeOK
    <3> QED
      BY <3>1 DEF Work, Idle, Updating
  <2>2. /\ \A u \in Threads \ {t} : work'[u] = work[u]
        /\ work'[t].step = "idle"
        /\ overlapped \subseteq overlapped'
        /\ (\E u \in Threads \ {t} : work[u].step = "updating" /\ work[u].publicKey = w.publicKey)
               => w.publicKey \in overlapped'
    BY <1>11 DEF UpdateSecurityKeyCounter, TypeOK, Idle
  <2>3. Tokens(a)' = IF a = w.account THEN WithCounter(Tokens(a), w.publicKey, w.counter)
                                      ELSE Tokens(a)
    BY <1>2, <1>11, UpdatedTokens DEF ListsInv
  <2>4. /\ Entries(Tokens(a)', k) # {} <=> Entries(Tokens(a), k) # {}
        /\ Entries(Tokens(a), k) # {} =>
             StoredCounter(Tokens(a)', k) =
                 IF a = w.account /\ k = w.publicKey THEN w.counter
                                                     ELSE StoredCounter(Tokens(a), k)
    BY <1>4, <2>1, <2>3, UpdatedCounter
  <2>5. \A u \in Threads : Updating(u, a, k)' =>
            /\ Updating(u, a, k) /\ work'[u] = work[u] /\ u # t
    BY <2>2 DEF Updating
  <2>6. CASE k # w.publicKey
    <3>1. highest'[k] = highest[k] /\ (<<a, k>> \in repeated' => <<a, k>> \in repeated)
      BY <1>2, <1>11, <2>6 DEF UpdateSecurityKeyCounter, TypeOK
    <3> QED
      BY <1>2, <1>3, <2>2, <2>4, <2>5, <2>6, <3>1, CountedKept
  <2>7. CASE k = w.publicKey
    <3>1. a = w.account
      <4>1. Home(k, w.account)
        BY <1>11, <2>7 DEF HomeInv, WorkHome, UpdateSecurityKeyCounter
      <4> QED
        BY <4>1, HomeIsUnique DEF HomeInv
    <3>2. Updating(t, a, k) /\ Known(a, k)
      BY <1>3, <2>1, <2>7, <3>1 DEF Counted
    <3>3. Entries(Tokens(a)', k) # {} /\ StoredCounter(Tokens(a)', k) = w.counter
      BY <2>4, <2>7, <3>1, <3>2 DEF Known
    <3>4. ASSUME k \notin overlapped'
          PROVE  /\ highest'[k] = w.counter
                 /\ <<a, k>> \notin repeated'
                 /\ \A u \in Threads : ~Updating(u, a, k)'
      <4>1. w.counter > highest[k] /\ <<a, k>> \notin repeated
        BY <1>3, <2>2, <3>2, <3>4 DEF Counted
      <4>2. highest[k] \in 0..MaxCounter
        BY <1>2 DEF TypeOK
      <4>3. ~(w.counter <= highest[k])
        BY <2>1, <4>1, <4>2
      <4>4. highest' = [highest EXCEPT ![k] = w.counter] /\ UNCHANGED repeated
        BY <1>11, <2>7, <4>3 DEF UpdateSecurityKeyCounter
      <4>5. highest'[k] = w.counter
        BY <1>2, <4>4 DEF TypeOK
      <4>6. \A u \in Threads : ~Updating(u, a, k)'
        BY <2>2, <2>5, <2>7, <3>4 DEF Updating
      <4> QED
        BY <4>1, <4>4, <4>5, <4>6
    <3>5. \A u \in Threads : Updating(u, a, k)' => Entries(Tokens(a)', k) # {}
      BY <3>3
    <3>6. w.counter >= w.counter
      BY <2>1
    <3> QED
      BY <3>3, <3>4, <3>5, <3>6 DEF Counted, Known
  <2> QED
    BY <2>6, <2>7
<1>12. ASSUME NEW account \in Accounts, NEW publicKey \in 1..pairs,
              RemoveSecurityKey(account, publicKey)
       PROVE  Counted(a, k)'
  <2>1. /\ UNCHANGED <<work, highest, repeated, overlapped>>
        /\ removed' = removed \cup {publicKey}
    BY <1>12 DEF RemoveSecurityKey
  <2>2. k # publicKey
    BY <2>1
  <2>3. /\ Tokens(a)' = IF a = account THEN Without(Tokens(a), publicKey) ELSE Tokens(a)
        /\ Entries(Tokens(account), publicKey) # {}
    BY <1>2, <1>12, RemovedTokens DEF ListsInv
  <2>4. /\ Entries(Tokens(a)', k) # {} <=> Entries(Tokens(a), k) # {}
        /\ Entries(Tokens(a), k) # {} =>
             StoredCounter(Tokens(a)', k) = StoredCounter(Tokens(a), k)
    BY <1>4, <2>2, <2>3, RemovedCounter
  <2>5. \A t \in Threads : Updating(t, a, k)' =>
            Updating(t, a, k) /\ work'[t].counter = work[t].counter
    BY <2>1 DEF Updating
  <2> QED
    BY <1>2, <1>3, <2>1, <2>4, <2>5, CountedKept
<1> QED
  BY <1>6, <1>7, <1>8, <1>9, <1>10, <1>11, <1>12
  DEF Next, vars, storeVars, historyVars, GetRegistrationRequest, GetSignRequest, Register,
      Authenticate

(***************************************************************************)
(* processSignResponse accepts ever higher counters for a key, unless two  *)
(* of its signatures were processed at once, it was removed, or its account*)
(* is rushed.                                                              *)
(***************************************************************************)
THEOREM AcceptedCountersIncrease == Spec => []CountersIncrease
<1>1. Init => CountInv
  BY DEF Init, CountInv, Home
<1>2. TypeOK /\ ListsInv /\ HomeInv /\ CountInv /\ [Next]_vars => CountInv'
  BY CountStep
<1>3. TypeOK /\ HomeInv /\ CountInv => CountersIncrease
  <2> SUFFICES ASSUME TypeOK, HomeInv, CountInv, NEW p \in repeated,
                      p[2] \notin overlapped \cup removed, p[1] \notin rushed
               PROVE  FALSE
    BY DEF CountersIncrease
  <2>1. /\ p[1] \in Accounts \ rushed /\ p[2] \in (1..MaxPairs) \ removed
        /\ p = <<p[1], p[2]>>
    BY DEF TypeOK
  <2>2. Home(p[2], p[1])
    BY DEF HomeInv, HistoryHome
  <2>3. Counted(p[1], p[2])
    BY <2>1, <2>2 DEF CountInv
  <2> QED
    BY <2>1, <2>3 DEF Counted
<1> QED
  BY <1>1, <1>2, <1>3, TypeCorrect, ListsInvariant, HomeInvariant, PTL DEF Spec
=============================================================================

----------------------------- MODULE U2fServer -----------------------------
(***************************************************************************)
(* U2FServerReferenceImpl over a MemoryDataStore, and the users whose      *)
(* browsers and key answer it.  The HTTP server runs one handler per       *)
(* thread, and nothing is synchronised: processRegistrationResponse and    *)
(* processSignResponse read the data store, verify a signature, and only   *)
(* then write it.                                                          *)
(*                                                                         *)
(* A handler is one step up to the data store call that ends it.  That call*)
(* is one more step, or for addSecurityKeyData the reads and writes that a *)
(* second thread can come between: the lists are ArrayLists and the table  *)
(* of accounts is a HashMap.  A thread sees what the others wrote at once, *)
(* and the slot and the size an add writes are one step; exceptions of the *)
(* collections are left out.                                               *)
(*                                                                         *)
(* A response that is refused changes nothing and is no step.  Responses   *)
(* are those a correct client makes, each for the session it was asked for;*)
(* the page may submit one any number of times, at any time.  Origins,     *)
(* certificates and transports are left out, as is the width of the        *)
(* counter.                                                                *)
(***************************************************************************)
EXTENDS Naturals, Sequences, FiniteSets

CONSTANTS
    Threads, Accounts,
    Challenges,     \* what the ChallengeGenerator returns; repeats are allowed
    MaxPairs,       \* bound on the key pairs the key makes
    MaxSessions,    \* bound on the sessions stored
    MaxTokens,      \* bound on the keys in all lists
    MaxCounter      \* bound on the key's counter

ASSUME BoundsAssumption == {MaxPairs, MaxSessions, MaxTokens, MaxCounter} \subseteq Nat

\* An ArrayList of at most ten entries never replaces its array.
ASSUME CapacityAssumption == MaxTokens <= 10

VARIABLES
    sessionDataBase,        \* sessions are never removed; an id is an index
    securityKeyDataBase,    \* for each account its list, 0 if it has none
    lists,                  \* the lists of SecurityKeyData there are
    work,                   \* for each thread the handler it runs
    pairs, counter,         \* the key: key pairs made, its counter
    registrations,          \* the responses the pages hold
    signatures,
    \* History
    highest,        \* the highest counter accepted for each public key
    repeated,       \* keys that had a counter accepted that was not higher
    overlapped,     \* keys two of whose signatures were processed at once
    removed,        \* keys removed from an account
    rushed          \* accounts two of whose keys were registered at once, or whose
                    \* list the HashMap lost to the first key of another account

storeVars == <<sessionDataBase, securityKeyDataBase, lists>>
keyVars == <<pairs, counter>>
pageVars == <<registrations, signatures>>
historyVars == <<highest, repeated, overlapped, removed, rushed>>
vars == <<storeVars, work, keyVars, pageVars, historyVars>>

NoKey == 0      \* the public key of an enroll session
NoList == 0

Idle == [step |-> "idle"]

Init ==
    /\ sessionDataBase = <<>>
    /\ securityKeyDataBase = [a \in Accounts |-> NoList]
    /\ lists = <<>>
    /\ work = [t \in Threads |-> Idle]
    /\ pairs = 0 /\ counter = 0
    /\ registrations = {} /\ signatures = {}
    /\ repeated = {} /\ overlapped = {} /\ removed = {} /\ rushed = {}
    /\ highest = [k \in 1..MaxPairs |-> 0]

(***************************************************************************)
(* MemoryDataStore.  removeSecurityKey and updateSecurityKeyCounter work on*)
(* the first entry with the public key.                                    *)
(***************************************************************************)
Tokens(account) ==
    IF securityKeyDataBase[account] = NoList THEN <<>>
                                             ELSE lists[securityKeyDataBase[account]]

Entries(tokens, publicKey) == {i \in DOMAIN tokens : tokens[i].publicKey = publicKey}

FirstEntry(tokens, publicKey) ==
    CHOOSE i \in Entries(tokens, publicKey) :
        \A j \in Entries(tokens, publicKey) : i <= j

Without(tokens, publicKey) ==
    LET i == FirstEntry(tokens, publicKey) IN
    SubSeq(tokens, 1, i - 1) \o SubSeq(tokens, i + 1, Len(tokens))

WithCounter(tokens, publicKey, value) ==
    IF Entries(tokens, publicKey) = {} THEN tokens
    ELSE [tokens EXCEPT ![FirstEntry(tokens, publicKey)] =
              [publicKey |-> publicKey, counter |-> value]]

Token(publicKey) == [publicKey |-> publicKey, counter |-> 0]

Session(account, challenge, publicKey) ==
    [account |-> account, challenge |-> challenge, publicKey |-> publicKey]
-----------------------------------------------------------------------------
(***************************************************************************)
(* getRegistrationRequest and getSignRequest: the latter stores a session  *)
(* for every key of the account.  (Should the list change under its loop,  *)
(* the request fails, and nobody learns the ids of the sessions it stored.)*)
(***************************************************************************)
GetRegistrationRequest(account) ==
    /\ Len(sessionDataBase) < MaxSessions
    /\ \E challenge \in Challenges :
         sessionDataBase' = Append(sessionDataBase, Session(account, challenge, NoKey))
    /\ UNCHANGED <<securityKeyDataBase, lists, work, keyVars, pageVars, historyVars>>

GetSignRequest(account) ==
    LET tokens == Tokens(account) IN
    /\ tokens # <<>>
    /\ Len(sessionDataBase) + Len(tokens) <= MaxSessions
    /\ \E challenge \in Challenges :
         sessionDataBase' = sessionDataBase \o
             [i \in DOMAIN tokens |-> Session(account, challenge, tokens[i].publicKey)]
    /\ UNCHANGED <<securityKeyDataBase, lists, work, keyVars, pageVars, historyVars>>

(***************************************************************************)
(* The client and the key.  register makes a key pair for an enroll        *)
(* session, if the user is present; authenticate counts and signs whether  *)
(* or not, and says which.                                                 *)
(***************************************************************************)
Register(s) ==
    /\ sessionDataBase[s].publicKey = NoKey
    /\ pairs < MaxPairs
    /\ pairs' = pairs + 1
    /\ registrations' = registrations \cup
          {[session |-> s, challenge |-> sessionDataBase[s].challenge, publicKey |-> pairs + 1]}
    /\ UNCHANGED <<storeVars, work, counter, signatures, historyVars>>

Authenticate(s, present) ==
    /\ sessionDataBase[s].publicKey # NoKey
    /\ counter < MaxCounter
    /\ counter' = counter + 1
    /\ signatures' = signatures \cup
          {[session |-> s, challenge |-> sessionDataBase[s].challenge,
            publicKey |-> sessionDataBase[s].publicKey,
            counter |-> counter + 1, present |-> present]}
    /\ UNCHANGED <<storeVars, work, pairs, registrations, historyVars>>
-----------------------------------------------------------------------------
(***************************************************************************)
(* processRegistrationResponse, up to the list that addSecurityKeyData     *)
(* reads: the account's, or a new one that nobody else knows yet.          *)
(***************************************************************************)
Stored == Cardinality(UNION {{l} \X DOMAIN lists[l] : l \in DOMAIN lists})

Registering(account) ==
    {t \in Threads : work[t].step \in {"adding", "putting"} /\ work[t].account = account}

CheckRegistration(t, r) ==
    LET account == sessionDataBase[r.session].account IN
    /\ work[t] = Idle
    /\ Stored + Cardinality({u \in Threads : work[u].step = "adding"}) < MaxTokens
    /\ r.challenge = sessionDataBase[r.session].challenge
    /\ work' = [work EXCEPT ![t] =
                  [step |-> "adding", account |-> account, publicKey |-> r.publicKey,
                   list |-> securityKeyDataBase[account], size |-> 0]]
    /\ rushed' = IF Registering(account) = {} THEN rushed ELSE rushed \cup {account}
    /\ UNCHANGED <<storeVars, keyVars, pageVars, highest, repeated, overlapped, removed>>

(***************************************************************************)
(* tokens.add reads where the list ends, then writes the entry there and   *)
(* the size after it, over whatever was added in between.  (Left out: the  *)
(* size is beyond a list that others made shorter since, which would bring *)
(* back entries written over.)                                             *)
(***************************************************************************)
ReadSize(t) ==
    LET w == work[t] IN
    /\ w.step = "adding"
    /\ w.list # NoList /\ w.size = 0
    /\ work' = [work EXCEPT ![t].size = Len(lists[w.list]) + 1]
    /\ UNCHANGED <<storeVars, keyVars, pageVars, historyVars>>

AddToken(t) ==
    LET w == work[t]
        new == Token(w.publicKey)
        list == IF w.list = NoList THEN Len(lists) + 1 ELSE w.list IN
    /\ w.step = "adding"
    /\ \/ /\ w.list = NoList
          /\ lists' = Append(lists, <<new>>)
       \/ /\ w.list # NoList /\ w.size \in 1..(Len(lists[w.list]) + 1)
          /\ lists' = [lists EXCEPT ![w.list] = Append(SubSeq(@, 1, w.size - 1), new)]
    /\ work' = [work EXCEPT ![t] =
                  [step |-> "putting", account |-> w.account, publicKey |-> w.publicKey,
                   list |-> list,
                   absent |-> IF securityKeyDataBase[w.account] # NoList THEN {}
                              ELSE {a \in Accounts : securityKeyDataBase[a] = NoList}]]
    /\ UNCHANGED <<sessionDataBase, securityKeyDataBase, keyVars, pageVars, historyVars>>

(***************************************************************************)
(* put replaces the list of an account the table knows.  A new account goes*)
(* into a slot of the table, or makes the table: what other threads put    *)
(* there meanwhile, for accounts that were absent too, may be lost.        *)
(***************************************************************************)
PutTokens(t) ==
    LET w == work[t] IN
    /\ w.step = "putting"
    /\ \E lost \in SUBSET {a \in w.absent \ {w.account} : securityKeyDataBase[a] # NoList} :
         /\ securityKeyDataBase' =
              [a \in Accounts |-> CASE a = w.account -> w.list
                                    [] a \in lost    -> NoList
                                    [] OTHER         -> securityKeyDataBase[a]]
         /\ rushed' = rushed \cup lost
    /\ work' = [work EXCEPT ![t] = Idle]
    /\ UNCHANGED <<sessionDataBase, lists, keyVars, pageVars, highest, repeated, overlapped,
                   removed>>

(***************************************************************************)
(* processSignResponse, up to updateSecurityKeyCounter.                    *)
(***************************************************************************)
\* Seeded fault: the counter stored last is accepted once more.
StaleIfLower(r, token) == r.counter < token.counter

Stale(r, token) == r.counter <= token.counter

CheckSignature(t, r) ==
    LET session == sessionDataBase[r.session]
        tokens == Tokens(session.account) IN
    /\ work[t] = Idle
    /\ Entries(tokens, session.publicKey) # {}
    /\ r.challenge = session.challenge
    /\ r.present
    /\ ~Stale(r, tokens[FirstEntry(tokens, session.publicKey)])
    /\ r.publicKey = session.publicKey
    /\ work' = [work EXCEPT ![t] = [step |-> "updating", account |-> session.account,
                                    publicKey |-> r.publicKey, counter |-> r.counter]]
    /\ UNCHANGED <<storeVars, keyVars, pageVars, historyVars>>

UpdateSecurityKeyCounter(t) ==
    LET w == work[t] IN
    /\ w.step = "updating"
    /\ lists' = [l \in DOMAIN lists |->
                    IF l = securityKeyDataBase[w.account]
                      THEN WithCounter(lists[l], w.publicKey, w.counter) ELSE lists[l]]
    /\ work' = [work EXCEPT ![t] = Idle]
    /\ overlapped' = IF \E u \in Threads \ {t} : /\ work[u].step = "updating"
                                                 /\ work[u].publicKey = w.publicKey
                     THEN overlapped \cup {w.publicKey} ELSE overlapped
    /\ \/ /\ w.counter > highest[w.publicKey]
          /\ highest' = [highest EXCEPT ![w.publicKey] = w.counter]
          /\ UNCHANGED repeated
       \/ /\ w.counter <= highest[w.publicKey]
          /\ repeated' = repeated \cup {<<w.account, w.publicKey>>}
          /\ UNCHANGED highest
    /\ UNCHANGED <<sessionDataBase, securityKeyDataBase, keyVars, pageVars, removed, rushed>>

(***************************************************************************)
(* removeSecurityKey; no servlet calls it.  It does not come between the   *)
(* reads and writes of a registration for the account.                     *)
(***************************************************************************)
RemoveSecurityKey(account, publicKey) ==
    /\ Registering(account) = {}
    /\ Entries(Tokens(account), publicKey) # {}
    /\ lists' = [lists EXCEPT ![securityKeyDataBase[account]] = Without(@, publicKey)]
    /\ removed' = removed \cup {publicKey}
    /\ UNCHANGED <<sessionDataBase, securityKeyDataBase, work, keyVars, pageVars, highest,
                   repeated, overlapped, rushed>>
-----------------------------------------------------------------------------
Next ==
    \/ \E account \in Accounts : GetRegistrationRequest(account) \/ GetSignRequest(account)
    \/ \E s \in DOMAIN sessionDataBase :
         Register(s) \/ \E present \in BOOLEAN : Authenticate(s, present)
    \/ \E t \in Threads :
         \/ \E r \in registrations : CheckRegistration(t, r)
         \/ \E r \in signatures : CheckSignature(t, r)
         \/ ReadSize(t) \/ AddToken(t) \/ PutTokens(t)
         \/ UpdateSecurityKeyCounter(t)
    \/ \E account \in Accounts, publicKey \in 1..pairs : RemoveSecurityKey(account, publicKey)

Spec == Init /\ [][Next]_vars
-----------------------------------------------------------------------------
SessionData == [account : Accounts, challenge : Challenges, publicKey : 0..MaxPairs]
SecurityKeyData == [publicKey : 1..MaxPairs, counter : 0..MaxCounter]

Work ==
    {Idle}
    \cup [step : {"adding"}, account : Accounts, publicKey : 1..MaxPairs, list : 0..Len(lists),
          size : Nat]
    \cup [step : {"putting"}, account : Accounts, publicKey : 1..MaxPairs,
          list : 1..Len(lists), absent : SUBSET Accounts]
    \cup [step : {"updating"}, account : Accounts, publicKey : 1..MaxPairs,
          counter : 0..MaxCounter]

Responses == [session : DOMAIN sessionDataBase, challenge : Challenges, publicKey : 1..MaxPairs]
Signatures == [session : DOMAIN sessionDataBase, challenge : Challenges,
               publicKey : 1..MaxPairs, counter : 0..MaxCounter, present : BOOLEAN]

(***************************************************************************)
(* The type invariant: the data store's references lead somewhere, and     *)
(* counters never leave their range.                                       *)
(***************************************************************************)
TypeOK ==
    /\ sessionDataBase \in Seq(SessionData)
    /\ lists \in Seq(Seq(SecurityKeyData))
    /\ securityKeyDataBase \in [Accounts -> 0..Len(lists)]
    /\ work \in [Threads -> Work]
    /\ pairs \in 0..MaxPairs /\ counter \in 0..MaxCounter
    /\ registrations \subseteq Responses /\ signatures \subseteq Signatures
    /\ highest \in [1..MaxPairs -> 0..MaxCounter]
    /\ repeated \subseteq Accounts \X (1..MaxPairs)
    /\ overlapped \subseteq 1..MaxPairs /\ removed \subseteq 1..MaxPairs
    /\ rushed \subseteq Accounts

(***************************************************************************)
(* The server's counter never runs ahead of the key's, whatever responses  *)
(* race or are submitted again, so the key's next signature is not refused *)
(* for its counter: what processRegistrationResponse says of storing 0.    *)
(***************************************************************************)
NextSignatureIsNotStale ==
    \A account \in Accounts : \A i \in DOMAIN Tokens(account) :
        Tokens(account)[i].counter <= counter

(***************************************************************************)
(* processSignResponse accepts ever higher counters for a key, so it       *)
(* accepts no signature twice -- unless two were processed at once, the key*)
(* was removed from the account or lost (and its registration submitted    *)
(* again): removed, two keys of the account registered at once, or its     *)
(* list lost by the HashMap.                                               *)
(***************************************************************************)
CountersIncrease ==
    \A p \in repeated : p[2] \in overlapped \cup removed \/ p[1] \in rushed
=============================================================================

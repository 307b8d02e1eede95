---------------------------- MODULE SingleSigner ----------------------------
(***************************************************************************)
(* singlesigner.js: a SingleGnubbySigner opens one key, asks for its       *)
(* version and then has it sign challenges, one after the other, until one *)
(* is signed or none is left.  Its owner may close it at any time, also    *)
(* while the key is being opened, between a command's end and its callback,*)
(* and in the callback that reports the outcome.                           *)
(*                                                                         *)
(* The key and the Gnubby object are seen as GnubbyClient describes them:  *)
(* an exchange always calls back, a sync that is under way when the gnubby *)
(* closes never does, and closeWhenIdle waits for an exchange and not for a*)
(* sync.  Opening (usbgnubbyfactory.js) is open followed by sync.  A signer*)
(* holds at most one gnubby that has a device.                             *)
(***************************************************************************)
EXTENDS Naturals, Sequences

CONSTANTS
    MaxChallenges,      \* bound on the number of challenges
    KeyHandle           \* the key handle of each challenge

ASSUME MaxChallengesAssumption == MaxChallenges \in Nat
ASSUME KeyHandleAssumption == DOMAIN KeyHandle = 1..MaxChallenges

VARIABLES
    count,              \* challenges_.length
    forEnroll,          \* the signer looks for keys that are not enrolled
    foreign,            \* challenges for another version of the protocol
    state,              \* state_
    opening,            \* a call of openGnubby is outstanding
    reopen,             \* the timer that opens a busy gnubby again runs
    gnubby,             \* gnubby_: "none", "unattached" (no device), "attached"
    device,             \* the gnubby that got a device: "none", "open", "closed"
    cmd,                \* what it is doing
    closingWhenIdle,
    reply,              \* a command ended and its callback is scheduled
    touch,              \* the timer that asks again for a touch runs
    index, cached,      \* challengeIndex_, the key handles in cachedError_
    expired,            \* timer_ expired
    calling,            \* completeCb_ has been called and has not returned
    results,            \* what completeCb_ was called with
    closeCalled,        \* how close found the signer, see OwnerCloses
    asked               \* the challenges the key was asked to sign

openVars == <<opening, reopen>>
gnubbyVars == <<gnubby, device, cmd, closingWhenIdle, reply>>
signVars == <<touch, index, cached, asked>>
constVars == <<count, forEnroll, foreign>>
singleVars == <<constVars, state, openVars, gnubbyVars, signVars, expired, calling, results,
                closeCalled>>

Challenges == 1..count
Invalid == {"WRONG_DATA"}
Exchanges == {"version", "sign"}
NoReply == <<>>

SingleInit ==
    /\ count \in 0..MaxChallenges
    /\ forEnroll \in BOOLEAN /\ foreign \in SUBSET Challenges
    /\ state = "INIT" /\ opening = FALSE /\ reopen = FALSE
    /\ gnubby = "none" /\ device = "none" /\ cmd = "none"
    /\ closingWhenIdle = FALSE /\ reply = NoReply
    /\ touch = FALSE /\ index = 1 /\ cached = {} /\ asked = {}
    /\ expired = FALSE /\ calling = FALSE /\ results = <<>> /\ closeCalled = "no"

(***************************************************************************)
(* close, of a signer that is in state st.  While the key is being opened  *)
(* there is no gnubby yet, and nothing is changed: UsbGnubbyFactory gives  *)
(* no canceller.                                                           *)
(***************************************************************************)
CloseSingle(st) ==
    \/ /\ gnubby = "none"
       /\ state' = st
       /\ UNCHANGED gnubbyVars
    \/ /\ gnubby # "none" /\ cmd \in Exchanges
       /\ state' = "CLOSING"
       /\ closingWhenIdle' = TRUE
       /\ UNCHANGED <<gnubby, device, cmd, reply>>
    \/ /\ gnubby # "none" /\ cmd \notin Exchanges
       /\ state' = "CLOSED"
       /\ gnubby' = "none"
       /\ device' = IF gnubby = "attached" THEN "closed" ELSE device
       /\ cmd' = "none"
       /\ UNCHANGED <<closingWhenIdle, reply>>

(***************************************************************************)
(* goToError_ and goToSuccess_, which hand the gnubby to the caller, or    *)
(* close it.  The caller may call close before completeCb_ returns.        *)
(***************************************************************************)
Result(code, handed) == [code |-> code, handed |-> handed]
CallsBack(code, handed) ==
    /\ results' = Append(results, Result(code, handed))
    /\ calling' = TRUE

\* Seeded fault: the gnubby is left open.
GoToErrorOnly(code) ==
    /\ CallsBack(code, FALSE)
    /\ state' = "COMPLETE"
    /\ UNCHANGED <<gnubby, device, cmd, closingWhenIdle>>

GoToError(code) ==
    \/ /\ ~forEnroll /\ code = "WRONG_DATA"
       /\ CallsBack(code, gnubby = "attached")
       /\ state' = "COMPLETE"
       /\ UNCHANGED <<gnubby, device, cmd, closingWhenIdle>>
    \/ /\ forEnroll \/ code # "WRONG_DATA"
       /\ CallsBack(code, FALSE)
       /\ \/ /\ gnubby = "none"
             /\ state' = "COMPLETE"
             /\ UNCHANGED <<gnubby, device, cmd, closingWhenIdle>>
          \/ /\ gnubby # "none"
             /\ state' = "CLOSED"
             /\ gnubby' = "none"
             /\ device' = IF gnubby = "attached" THEN "closed" ELSE device
             /\ UNCHANGED <<cmd, closingWhenIdle>>

GoToSuccess(code) ==
    /\ CallsBack(code, TRUE)
    /\ state' = "COMPLETE"
    /\ UNCHANGED <<gnubby, device, cmd, closingWhenIdle>>

Command(c) ==
    /\ cmd' = c
    /\ UNCHANGED <<gnubby, device, closingWhenIdle, results, calling>>

Quiet == UNCHANGED <<gnubby, device, cmd, closingWhenIdle, results, calling>>
-----------------------------------------------------------------------------
(***************************************************************************)
(* doSign_ and signCallback_ for challenges that are refused without asking*)
(* the key: the ones for another version, and those whose key handle was   *)
(* refused before.  Skipped(i, j, known): so are all from i up to j.       *)
(***************************************************************************)
Handles(i, j) == {KeyHandle[k] : k \in i..j}
Skipped(i, j, known) ==
    \A k \in i..j : k \in foreign \/ KeyHandle[k] \in known \cup Handles(i, k - 1)

FirstUnknown(i, known) ==
    {j \in i..count : Skipped(i, j - 1, known) /\ ~Skipped(i, j, known)}

(***************************************************************************)
(* doSign_ from challenge i on, with the key handles known in cachedError_.*)
(***************************************************************************)
\* Seeded fault: an expired timer is not looked at.
DoSignForever(i, known) ==
    \/ gnubby = "none" /\ Quiet /\ UNCHANGED <<state, signVars>>
    \/ /\ gnubby # "none" /\ FirstUnknown(i, known) = {}
       /\ IF forEnroll THEN GoToSuccess("WRONG_DATA") ELSE GoToError("WRONG_DATA")
       /\ UNCHANGED signVars
    \/ /\ gnubby # "none"
       /\ \E j \in FirstUnknown(i, known) :
            /\ index' = j
            /\ cached' = known \cup Handles(i, j - 1)
            /\ asked' = asked \cup {j}
       /\ state' = "SIGNING"
       /\ Command("sign")
       /\ UNCHANGED touch

DoSign(i, known) ==
    \/ /\ gnubby = "none"
       /\ Quiet /\ UNCHANGED <<state, signVars>>
    \/ /\ gnubby # "none" /\ expired
       /\ GoToError("TIMEOUT")
       /\ index' = i
       /\ cached' = known
       /\ UNCHANGED <<touch, asked>>
    \/ /\ gnubby # "none" /\ ~expired
       /\ FirstUnknown(i, known) = {}
       /\ index' = IF i <= count THEN count ELSE i
       /\ cached' = known \cup Handles(i, count)
       /\ IF forEnroll THEN GoToSuccess("WRONG_DATA") ELSE GoToError("WRONG_DATA")
       /\ UNCHANGED <<touch, asked>>
    \/ /\ gnubby # "none" /\ ~expired
       /\ \E j \in FirstUnknown(i, known) :
            /\ index' = j
            /\ cached' = known \cup Handles(i, j - 1)
            /\ asked' = asked \cup {j}
       /\ state' = "SIGNING"
       /\ Command("sign")
       /\ UNCHANGED touch
-----------------------------------------------------------------------------
(***************************************************************************)
(* The owner has the signer sign, once, and may close it.                  *)
(***************************************************************************)
Start ==
    /\ state = "INIT" /\ closeCalled = "no"
    /\ state' = "OPENING"
    /\ opening' = TRUE
    /\ UNCHANGED <<constVars, reopen, gnubbyVars, signVars, expired, calling, results,
                   closeCalled>>

OwnerCloses ==
    /\ closeCalled = "no"
    /\ closeCalled' = IF opening /\ state = "BUSY" THEN "busy" ELSE "yes"
    /\ CloseSingle(state)
    /\ UNCHANGED <<constVars, openVars, signVars, expired, calling, results>>

\* completeCb_ returns; after a success the gnubby is the caller's.
Returns ==
    LET last == results[Len(results)] IN
    /\ calling
    /\ calling' = FALSE
    /\ gnubby' = IF last.handed /\ (forEnroll \/ last.code # "WRONG_DATA") THEN "none" ELSE gnubby
    /\ UNCHANGED <<constVars, state, openVars, device, cmd, closingWhenIdle, reply, signVars,
                   expired, results, closeCalled>>

TimerExpires ==
    /\ ~expired
    /\ expired' = TRUE
    /\ UNCHANGED <<constVars, state, openVars, gnubbyVars, signVars, calling, results,
                   closeCalled>>
-----------------------------------------------------------------------------
(***************************************************************************)
(* openCallback_.  The gnubby has a device when it opened, also if the sync*)
(* that followed failed.                                                   *)
(***************************************************************************)
OpenCallback(rc, hasDevice) ==
    /\ ~calling
    /\ opening
    /\ opening' = FALSE
    /\ \/ /\ state \notin {"OPENING", "BUSY"}
          /\ device' = IF hasDevice THEN "open" ELSE device
          /\ UNCHANGED <<state, reopen, gnubby, cmd, closingWhenIdle, results, calling>>
       \/ /\ state \in {"OPENING", "BUSY"} /\ rc = "OK"
          /\ gnubby' = "attached" /\ device' = "open"
          /\ cmd' = "version"
          /\ UNCHANGED <<state, reopen, closingWhenIdle, results, calling>>
       \/ /\ state \in {"OPENING", "BUSY"} /\ rc = "BUSY" /\ ~expired
          /\ gnubby' = "unattached"
          /\ state' = "BUSY"
          /\ reopen' = TRUE
          /\ UNCHANGED <<device, cmd, closingWhenIdle, results, calling>>
       \/ /\ state \in {"OPENING", "BUSY"} /\ rc = "BUSY" /\ expired
          /\ CallsBack("BUSY", FALSE)
          /\ gnubby' = "none"
          /\ state' = "CLOSED"
          /\ UNCHANGED <<reopen, device, cmd, closingWhenIdle>>
       \/ /\ state \in {"OPENING", "BUSY"} /\ rc \notin {"OK", "BUSY"}
          /\ device' = IF hasDevice THEN "open" ELSE device
          /\ CallsBack(rc, FALSE)
          /\ state' = IF gnubby = "none" THEN "COMPLETE" ELSE "CLOSED"
          /\ gnubby' = "none"
          /\ UNCHANGED <<reopen, cmd, closingWhenIdle>>
    /\ UNCHANGED <<constVars, reply, signVars, expired, closeCalled>>

Reopen ==
    /\ ~calling
    /\ reopen
    /\ reopen' = FALSE
    /\ opening' = (opening \/ gnubby # "none")
    /\ UNCHANGED <<constVars, state, gnubbyVars, signVars, expired, calling, results,
                   closeCalled>>

(***************************************************************************)
(* A command ends: schedule_cb closes a gnubby that waits to be idle, and  *)
(* the callback comes later.                                               *)
(***************************************************************************)
CommandEnds(rc) ==
    /\ ~calling
    /\ cmd # "none"
    /\ cmd' = "none"
    /\ reply' = <<cmd, rc>>
    /\ closingWhenIdle' = FALSE
    /\ \/ /\ closingWhenIdle
          /\ gnubby' = "none" /\ device' = "closed"
          /\ state' = "CLOSED"
       \/ ~closingWhenIdle /\ UNCHANGED <<gnubby, device, state>>
    /\ UNCHANGED <<constVars, openVars, signVars, expired, calling, results, closeCalled>>

Replied(c) == ~calling /\ reply # NoReply /\ reply[1] = c /\ reply' = NoReply
Rc == reply[2]

(***************************************************************************)
(* versionCallback_, which does not look at state_, and the callback of the*)
(* sync it starts.  gnubby_ may be null by then, and the call throws.      *)
(***************************************************************************)
VersionCallback ==
    /\ Replied("version")
    /\ \/ /\ Rc = "BUSY" /\ expired
          /\ GoToError("TIMEOUT")
          /\ UNCHANGED signVars
       \/ /\ Rc = "BUSY" /\ ~expired /\ gnubby # "none"
          /\ Command("sync_version")
          /\ UNCHANGED <<state, signVars>>
       \/ /\ Rc = "BUSY" /\ ~expired /\ gnubby = "none"
          /\ Quiet /\ UNCHANGED <<state, signVars>>
       \/ /\ Rc \notin {"OK", "BUSY"}
          /\ GoToError(Rc)
          /\ UNCHANGED signVars
       \/ /\ Rc = "OK" /\ gnubby = "none"
          /\ state' = "IDLE"
          /\ Quiet /\ UNCHANGED signVars
       \/ /\ Rc = "OK" /\ gnubby # "none"
          /\ DoSign(index, cached)
    /\ UNCHANGED <<constVars, openVars, expired, closeCalled>>

VersionSynced ==
    /\ Replied("sync_version")
    /\ \/ Rc # "OK" /\ GoToError(Rc)
       \/ Rc = "OK" /\ gnubby # "none" /\ Command("version") /\ UNCHANGED state
       \/ Rc = "OK" /\ gnubby = "none" /\ Quiet /\ UNCHANGED state
    /\ UNCHANGED <<constVars, openVars, signVars, expired, closeCalled>>

(***************************************************************************)
(* signCallback_.  A code it does not know moves on to the next challenge  *)
(* like a refusal does, but is not cached.                                 *)
(***************************************************************************)
Cached == IF Rc \in Invalid THEN cached \cup {KeyHandle[index]} ELSE cached

\* Seeded fault: the last challenge is not tried.
RefusedOffByOne ==
    \/ index < count - 1 /\ DoSign(index + 1, Cached)
    \/ /\ index >= count - 1
       /\ IF Rc \in Invalid /\ forEnroll THEN GoToSuccess(Rc) ELSE GoToError(Rc)
       /\ UNCHANGED signVars

Refused ==
    \/ /\ index < count
       /\ Rc \in Invalid \/ ~forEnroll
       /\ DoSign(index + 1, Cached)
    \/ /\ index = count \/ (Rc \notin Invalid /\ forEnroll)
       /\ cached' = Cached
       /\ IF Rc \in Invalid /\ forEnroll THEN GoToSuccess(Rc) ELSE GoToError(Rc)
       /\ UNCHANGED <<touch, index, asked>>

SignCallback ==
    /\ Replied("sign")
    /\ \/ /\ state # "SIGNING"
          /\ Quiet /\ UNCHANGED <<state, signVars>>
       \/ /\ state = "SIGNING" /\ Rc = "GONE"
          /\ GoToError(Rc)
          /\ UNCHANGED signVars
       \/ /\ state = "SIGNING" /\ Rc = "TIMEOUT"
          /\ Command("sync_sign")
          /\ UNCHANGED <<state, signVars>>
       \/ /\ state = "SIGNING" /\ Rc = "BUSY"
          /\ DoSign(index, cached)
       \/ /\ state = "SIGNING" /\ Rc = "OK"
          /\ IF forEnroll THEN GoToError(Rc) ELSE GoToSuccess(Rc)
          /\ UNCHANGED signVars
       \/ /\ state = "SIGNING" /\ Rc = "WAIT_TOUCH"
          /\ touch' = TRUE
          /\ Quiet /\ UNCHANGED <<state, index, cached, asked>>
       \/ /\ state = "SIGNING" /\ Rc \in {"WRONG_DATA", "OTHER"}
          /\ Refused
    /\ UNCHANGED <<constVars, openVars, expired, closeCalled>>

SignSynced ==
    /\ Replied("sync_sign")
    /\ \/ Rc # "OK" /\ GoToError(Rc) /\ UNCHANGED signVars
       \/ Rc = "OK" /\ DoSign(index, cached)
    /\ UNCHANGED <<constVars, openVars, expired, closeCalled>>

\* The user is asked again to touch the key.
TouchTimer ==
    /\ ~calling
    /\ touch
    /\ \/ /\ gnubby = "none"
          /\ touch' = FALSE
          /\ Quiet /\ UNCHANGED <<state, index, cached, asked>>
       \/ /\ gnubby # "none" /\ expired
          /\ touch' = FALSE
          /\ GoToError("TIMEOUT")
          /\ UNCHANGED <<index, cached, asked>>
       \/ /\ gnubby # "none" /\ ~expired
          /\ touch' = FALSE
          /\ Command("sign")
          /\ UNCHANGED <<state, index, cached, asked>>
    /\ UNCHANGED <<constVars, openVars, reply, expired, closeCalled>>
-----------------------------------------------------------------------------
(***************************************************************************)
(* What an open and a command can come to.  A sync resends its sentinel    *)
(* when the key is busy.                                                   *)
(***************************************************************************)
Opened ==
    \/ OpenCallback("OK", TRUE) \/ OpenCallback("BUSY", FALSE)
    \/ OpenCallback("NODEVICE", FALSE) \/ OpenCallback("SYNC_FAILED", TRUE)

Codes ==
    CASE cmd = "version" -> {"OK", "BUSY", "GONE", "TIMEOUT", "OTHER"}
      [] cmd = "sign" -> {"OK", "BUSY", "GONE", "TIMEOUT", "OTHER", "WAIT_TOUCH", "WRONG_DATA"}
      [] OTHER -> {"OK", "GONE", "TIMEOUT", "OTHER"}

Ends == \E rc \in Codes : CommandEnds(rc)

Callback == VersionCallback \/ VersionSynced \/ SignCallback \/ SignSynced

SingleNext ==
    \/ Start \/ OwnerCloses \/ Returns \/ TimerExpires
    \/ Opened \/ Reopen \/ Ends \/ TouchTimer
    \/ VersionCallback \/ VersionSynced \/ SignCallback \/ SignSynced

SingleSpec == SingleInit /\ [][SingleNext]_singleVars

(***************************************************************************)
(* Callbacks return, timers fire, an open calls back (Gnubbies) and so does*)
(* a command (GnubbyClient).  Nothing makes the owner close the signer.    *)
(***************************************************************************)
FairSingleSpec ==
    /\ SingleSpec
    /\ WF_singleVars(Returns) /\ WF_singleVars(TimerExpires)
    /\ WF_singleVars(Opened) /\ WF_singleVars(Reopen)
    /\ WF_singleVars(Ends) /\ WF_singleVars(Callback) /\ WF_singleVars(TouchTimer)
-----------------------------------------------------------------------------
(***************************************************************************)
(* When a signer is through, the gnubby it opened is closed or was handed  *)
(* to its owner.  Two gnubbies are lost: one that opened and then failed to*)
(* sync, and one whose second open came in after close.                    *)
(***************************************************************************)
Finished ==
    /\ results # <<>> \/ state = "CLOSED"
    /\ ~calling /\ ~opening /\ cmd = "none"

GnubbyReleased ==
    Finished /\ device = "open" =>
        \/ \E i \in DOMAIN results : results[i].handed \/ results[i].code = "SYNC_FAILED"
        \/ closeCalled = "busy"

(***************************************************************************)
(* A key is reported not to know any challenge only when every one was put *)
(* to it, or was for another version, or shares a key handle with such.    *)
(***************************************************************************)
NoneSkipped ==
    (\E i \in DOMAIN results : results[i].code = "WRONG_DATA") =>
        \A i \in Challenges :
            \E j \in asked \cup foreign : KeyHandle[i] = KeyHandle[j]

(***************************************************************************)
(* A signer that was started reports, unless it is closed.                 *)
(***************************************************************************)
SignerReports == state # "INIT" ~> results # <<>> \/ closeCalled # "no"
=============================================================================

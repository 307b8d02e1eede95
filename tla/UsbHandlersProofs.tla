-------------------------- MODULE UsbHandlersProofs --------------------------
(***************************************************************************)
(* Proofs about UsbHandlers, for any set of keys: a handler closes when it *)
(* answers, keys go on being looked for, gnubbies are closed with the      *)
(* handler, and no key is told to enroll after that but one handed over    *)
(* too late.                                                               *)
(***************************************************************************)
EXTENDS UsbHandlers, TLAPS

(***************************************************************************)
(* The steps, with those of the two handlers told apart.                   *)
(***************************************************************************)
LEMMA Kinds ==
    ASSUME [Next]_vars
    PROVE  \/ UNCHANGED vars \/ OwnerCloses
           \/ Run \/ HandlerTimerExpires \/ SignerTimerExpires \/ Enumerated
           \/ IntervalExpires \/ OrphanExpires \/ SignCompleted \/ EnrollCompleted
           \/ \E k \in Keys : \/ SignerGone(k) \/ SignReport(k) \/ (forEnroll /\ EnrollReport(k))
                              \/ SignCommandEnds(k) \/ EnrollCommandEnds(k) \/ RetryEnroll(k)
  BY DEF Next, Report, CommandEnds, AllComplete

(***************************************************************************)
(* What a handler does when it is told of something: it closes and may     *)
(* answer, or it does neither.                                             *)
(***************************************************************************)
Settles == closed' = TRUE \/ (answer' = answer /\ closed' = closed)

LEMMA NotifySettles ==
    ASSUME NEW code, NEW g, SignNotify(code, g) \/ EnrollNotify(code, g)
    PROVE  Settles
  BY DEF SignNotify, EnrollNotify, StaysOpen, Close, Settles

LEMMA RemovalSettles ==
    ASSUME NEW g, AfterRemoval(g)
    PROVE  Settles
  BY NotifySettles DEF AfterRemoval, StaysOpen, Settles

LEMMA StepSettles ==
    ASSUME [Next]_vars
    PROVE  Settles
<1>1. CASE UNCHANGED vars \/ OwnerCloses \/ Run \/ HandlerTimerExpires \/ SignerTimerExpires
             \/ IntervalExpires \/ OrphanExpires
  BY <1>1 DEF Settles, vars, owner, OwnerCloses, Close, Run, HandlerTimerExpires,
              SignerTimerExpires, IntervalExpires, OrphanExpires
<1>2. CASE Enumerated
  BY <1>2 DEF Settles, owner, Enumerated, EnumerateCallback
<1>3. CASE SignCompleted \/ EnrollCompleted
  BY <1>3, NotifySettles DEF Settles, SignCompleted, EnrollCompleted, StaysOpen
<1>4. ASSUME NEW k \in Keys, SignerGone(k) PROVE Settles
  BY <1>4 DEF Settles, SignerGone, owner
<1>5. ASSUME NEW k \in Keys, SignReport(k) PROVE Settles
  BY <1>5, NotifySettles DEF Settles, SignReport, SignFoundOk, SignFoundWrongData,
     SignFoundUnknownVersion, SignFoundError, StaysOpen
<1>6. ASSUME NEW k \in Keys, EnrollReport(k) PROVE Settles
  BY <1>6, NotifySettles, RemovalSettles DEF Settles, EnrollReport, EnrollFoundOther,
     EnrollFoundLate, EnrollFound, EnrollFoundWrongVersion, StaysOpen
<1>7. ASSUME NEW k \in Keys, SignCommandEnds(k) PROVE Settles
  BY <1>7, NotifySettles DEF Settles, SignCommandEnds, BogusEnrollCallback, StaysOpen
<1>8. ASSUME NEW k \in Keys, EnrollCommandEnds(k) \/ RetryEnroll(k) PROVE Settles
  BY <1>8, NotifySettles, RemovalSettles DEF Settles, EnrollCommandEnds, EnrollIgnored,
     EnrollGone, EnrollWait, EnrollEnds, RetryEnroll, StaysOpen
<1> QED
  BY <1>1, <1>2, <1>3, <1>4, <1>5, <1>6, <1>7, <1>8, Kinds

AnsweredIsClosed == closed \in BOOLEAN /\ (Notified => closed)

(***************************************************************************)
(* A handler that called cb_ has closed: notifySuccess_ and notifyError_   *)
(* of either handler close before they call it.                            *)
(***************************************************************************)
THEOREM AnswerCloses == Spec => []AnsweredIsClosed
<1>1. Init => AnsweredIsClosed
  BY DEF Init, AnsweredIsClosed, Notified
<1>2. AnsweredIsClosed /\ [Next]_vars => AnsweredIsClosed'
  BY StepSettles DEF AnsweredIsClosed, Settles, Notified
<1> QED
  BY <1>1, <1>2, PTL DEF Spec

-----------------------------------------------------------------------------
(***************************************************************************)
(* Somebody looks for keys, or has no more to do so.                       *)
(***************************************************************************)
Counts == enumerating \in Nat /\ orphans \in Nat
Looks == enumerating > 0 \/ interval \/ orphans > 0 \/ (expired /\ signing # {})
LookInv == Counts /\ AnsweredIsClosed /\ KeepsLooking

(***************************************************************************)
(* What a notification leaves of the search, unless it closes the handler. *)
(***************************************************************************)
LEMMA NotifyGoesOn ==
    ASSUME NEW code, NEW g, SignNotify(code, g) \/ EnrollNotify(code, g) \/ StaysOpen(g)
    PROVE  closed' \/ UNCHANGED <<interval, expired>>
  BY DEF SignNotify, EnrollNotify, StaysOpen, Close

LEMMA RemovalGoesOn ==
    ASSUME NEW g, AfterRemoval(g)
    PROVE  orphans' = orphans /\ (closed' \/ (expired' = expired /\ (interval' = interval \/ interval')))
  BY NotifyGoesOn DEF AfterRemoval, ReScanDevices

(***************************************************************************)
(* A signer that reports: if it was the last and the time is up, all are   *)
(* complete; otherwise whoever looked before looks still.                  *)
(***************************************************************************)
LEMMA ReportGoesOn ==
    ASSUME Looks, NEW k, Reports(k), AfterReport(k), orphans' = orphans,
           closed' \/ (expired' = expired /\ (interval' = interval \/ interval'))
    PROVE  closed' \/ complete' \/ Looks'
<1>1. enumerating' = enumerating /\ signing' = signing \ {k}
  BY DEF Reports
<1>2. CASE ~More(k) /\ expired' /\ Timeout
  BY <1>2 DEF Timeout
<1>3. CASE More(k) \/ ~expired'
  BY <1>1, <1>3 DEF More, Looks
<1> QED
  BY <1>2, <1>3 DEF AfterReport

LEMMA CountsStay ==
    ASSUME Counts, [Next]_vars
    PROVE  Counts'
<1>1. CASE UNCHANGED vars \/ OwnerCloses \/ Run \/ HandlerTimerExpires \/ SignerTimerExpires
             \/ IntervalExpires \/ OrphanExpires
  BY <1>1 DEF Counts, vars, looking, OwnerCloses, Run, HandlerTimerExpires,
              SignerTimerExpires, IntervalExpires, OrphanExpires
<1>2. CASE Enumerated
  BY <1>2 DEF Counts, Enumerated, EnumerateCallback, MaybeReEnumerate
<1>3. CASE SignCompleted \/ EnrollCompleted
  BY <1>3 DEF Counts, SignCompleted, EnrollCompleted, EnrollKeeps
<1>4. ASSUME NEW k \in Keys, SignerGone(k) PROVE Counts'
  BY <1>4 DEF Counts, SignerGone, MaybeReEnumerate
<1>5. ASSUME NEW k \in Keys, SignReport(k) PROVE Counts'
  BY <1>5 DEF Counts, SignReport, SignFoundOk, SignFoundWrongData, SignFoundUnknownVersion,
     SignFoundError, Reports
<1>6. ASSUME NEW k \in Keys, EnrollReport(k) PROVE Counts'
  BY <1>6, RemovalGoesOn DEF Counts, EnrollReport, EnrollFoundOther, EnrollFoundLate,
     EnrollFound, EnrollFoundWrongVersion, Reports
<1>7. ASSUME NEW k \in Keys, SignCommandEnds(k) PROVE Counts'
  BY <1>7 DEF Counts, SignCommandEnds, BogusEnrollCallback
<1>8. ASSUME NEW k \in Keys, EnrollCommandEnds(k) \/ RetryEnroll(k) PROVE Counts'
  BY <1>8, RemovalGoesOn DEF Counts, EnrollCommandEnds, EnrollIgnored, EnrollGone, EnrollWait,
     EnrollEnds, RetryEnroll, EnrollKeeps
<1> QED
  BY <1>1, <1>2, <1>3, <1>4, <1>5, <1>6, <1>7, <1>8, Kinds

LEMMA StepRunsOn ==
    ASSUME [Next]_vars, ~Run
    PROVE  running' = running /\ (complete' \/ complete' = complete)
<1>1. CASE UNCHANGED vars \/ OwnerCloses \/ HandlerTimerExpires \/ SignerTimerExpires
             \/ IntervalExpires \/ OrphanExpires
  BY <1>1 DEF vars, outcome, OwnerCloses, HandlerTimerExpires, SignerTimerExpires,
              IntervalExpires, OrphanExpires
<1>2. CASE Enumerated
  BY <1>2 DEF Enumerated, EnumerateCallback, MaybeReEnumerate, Timeout, outcome
<1>3. CASE SignCompleted \/ EnrollCompleted
  BY <1>3 DEF SignCompleted, EnrollCompleted, EnrollKeeps
<1>4. ASSUME NEW k \in Keys, SignerGone(k)
      PROVE  running' = running /\ (complete' \/ complete' = complete)
  BY <1>4 DEF SignerGone, MaybeReEnumerate, Timeout, outcome
<1>5. ASSUME NEW k \in Keys, SignReport(k) \/ EnrollReport(k)
      PROVE  running' = running /\ (complete' \/ complete' = complete)
  BY <1>5 DEF SignReport, SignFoundOk, SignFoundWrongData, SignFoundUnknownVersion,
     SignFoundError, EnrollReport, EnrollFoundOther, EnrollFoundLate, EnrollFound,
     EnrollFoundWrongVersion, Reports, AfterReport, Timeout, outcome
<1>6. ASSUME NEW k \in Keys, SignCommandEnds(k) \/ EnrollCommandEnds(k) \/ RetryEnroll(k)
      PROVE  running' = running /\ (complete' \/ complete' = complete)
  BY <1>6 DEF SignCommandEnds, BogusEnrollCallback, EnrollCommandEnds, EnrollIgnored,
     EnrollGone, EnrollWait, EnrollEnds, RetryEnroll, EnrollKeeps, outcome
<1> QED
  BY <1>1, <1>2, <1>3, <1>4, <1>5, <1>6, Kinds

(***************************************************************************)
(* While a request runs, somebody goes on looking for keys, whatever keys  *)
(* there are.  The step that needs AnsweredIsClosed is that of a key whose *)
(* version is unknown: enroll throws, so signCompletedCallback_ does not   *)
(* end, and only the close of the handler makes up for it.                 *)
(***************************************************************************)
THEOREM LooksOn == Spec => []KeepsLooking
<1>1. Init => LookInv
  <2> SUFFICES ASSUME Init
               PROVE  LookInv
    OBVIOUS
  <2>1. Counts /\ AnsweredIsClosed
    BY DEF Init, Counts, AnsweredIsClosed, Notified
  <2>2. ~running
    BY DEF Init
  <2> QED
    BY <2>1, <2>2 DEF LookInv, KeepsLooking
<1>2. LookInv /\ [Next]_vars => LookInv'
  <2> SUFFICES ASSUME LookInv, [Next]_vars
               PROVE  LookInv'
    OBVIOUS
  <2>1. Counts' /\ AnsweredIsClosed'
    BY CountsStay, StepSettles DEF LookInv, AnsweredIsClosed, Settles, Notified
  <2> SUFFICES ASSUME running', ~complete', ~closed'
               PROVE  Looks'
    BY <2>1 DEF LookInv, KeepsLooking, Looks
  <2>2. CASE Run
    BY <2>2 DEF Run, Looks
  <2>3. ASSUME NEW k \in Keys, SignFoundUnknownVersion(k) PROVE FALSE
    BY <2>3 DEF SignFoundUnknownVersion, SignNotify, StaysOpen, Close, LookInv, AnsweredIsClosed
  <2>4. CASE ~Run
    <3>1. ~closed
      BY StepSettles DEF Settles
    <3>2. running /\ ~complete
      <4>1. running' = running /\ (complete' \/ complete' = complete)
        BY <2>4, StepRunsOn
      <4> QED
        BY <4>1
    <3>3. Looks
      BY <3>1, <3>2 DEF LookInv, KeepsLooking, Looks
    <3>4. CASE UNCHANGED vars \/ HandlerTimerExpires
      <4>1. /\ interval' = interval /\ orphans' = orphans /\ enumerating' = enumerating
            /\ expired' = expired /\ signing' = signing
        BY <3>4 DEF vars, looking, HandlerTimerExpires
      <4> QED
        BY <3>3, <4>1 DEF Looks
    <3>5. CASE OwnerCloses
      BY <3>5 DEF OwnerCloses, Close
    <3>6. CASE SignerTimerExpires
      <4>1. ~expired /\ interval' = interval /\ orphans' = orphans /\ enumerating' = enumerating
        BY <3>6 DEF looking, SignerTimerExpires
      <4> QED
        BY <3>3, <4>1 DEF Looks
    <3>7. CASE IntervalExpires \/ OrphanExpires
      <4>1. enumerating' = enumerating + 1 /\ enumerating \in Nat
        BY <3>7 DEF LookInv, Counts, IntervalExpires, OrphanExpires
      <4>2. enumerating' > 0
        BY <4>1
      <4> QED
        BY <4>2 DEF Looks
    <3>8. CASE Enumerated
      BY <3>2, <3>8 DEF Looks, Enumerated, EnumerateCallback, MaybeReEnumerate, Timeout
    <3>9. ASSUME NEW k \in Keys, SignerGone(k) PROVE Looks'
      <4>1. CASE More(k)
        BY <3>3, <3>9, <4>1 DEF Looks, SignerGone, More, MaybeReEnumerate
      <4>2. CASE ~More(k)
        BY <3>9, <4>2 DEF Looks, SignerGone, MaybeReEnumerate, Timeout
      <4> QED
        BY <4>1, <4>2
    <3>10. CASE SignCompleted \/ EnrollCompleted
      BY <3>3, <3>10, NotifyGoesOn DEF Looks, SignCompleted, EnrollCompleted, EnrollKeeps
    <3>11. ASSUME NEW k \in Keys, SignReport(k) PROVE Looks'
      BY <2>3, <3>3, <3>11, NotifyGoesOn, ReportGoesOn DEF SignReport, SignFoundOk,
         SignFoundWrongData, SignFoundError
    <3>12. ASSUME NEW k \in Keys, EnrollReport(k) PROVE Looks'
      BY <3>3, <3>12, NotifyGoesOn, RemovalGoesOn, ReportGoesOn DEF EnrollReport,
         EnrollFoundOther, EnrollFoundLate, EnrollFound, EnrollFoundWrongVersion
    <3>13. ASSUME NEW k \in Keys, SignCommandEnds(k) PROVE Looks'
      BY <3>3, <3>13, NotifyGoesOn DEF Looks, SignCommandEnds, BogusEnrollCallback
    <3>14. ASSUME NEW k \in Keys, EnrollCommandEnds(k) \/ RetryEnroll(k) PROVE Looks'
      BY <3>3, <3>14, NotifyGoesOn, RemovalGoesOn DEF Looks, EnrollCommandEnds, EnrollIgnored,
         EnrollGone, EnrollWait, EnrollEnds, RetryEnroll, EnrollKeeps
    <3> QED
      BY <2>4, <3>4, <3>5, <3>6, <3>7, <3>8, <3>9, <3>10, <3>11, <3>12, <3>13, <3>14, Kinds
  <2> QED
    BY <2>2, <2>4
<1> QED
  BY <1>1, <1>2, PTL DEF Spec, LookInv
-----------------------------------------------------------------------------
(***************************************************************************)
(* Gnubbies g are accounted for, given whether the handler is closed and   *)
(* the keys handed over too late: those open and in no list came too late, *)
(* and those in a list too, once nobody closes the list any more.          *)
(***************************************************************************)
Handed == {None, "listed", "closed", "lost"}
Accounted(g, isClosed, t) ==
    /\ g \in [Keys -> Handed]
    /\ \A k \in Keys : /\ g[k] = "lost" => k \in t
                       /\ isClosed /\ g[k] = "listed" => k \in t

LEMMA CloseAccounts ==
    ASSUME NEW g, NEW t, Accounted(g, closed, t), Close(g)
    PROVE  Accounted(gnubby', closed', t)
  BY DEF Accounted, Close, ClosedAll, Handed

LEMMA NotifyAccounts ==
    ASSUME NEW g, NEW t, NEW code, Accounted(g, closed, t),
           SignNotify(code, g) \/ EnrollNotify(code, g) \/ StaysOpen(g)
    PROVE  Accounted(gnubby', closed', t)
<1>1. CASE StaysOpen(g)
  BY <1>1 DEF StaysOpen
<1>2. CASE Close(g)
  BY <1>2, CloseAccounts
<1> QED
  BY <1>1, <1>2 DEF SignNotify, EnrollNotify

LEMMA RemovalAccounts ==
    ASSUME NEW g, NEW t, Accounted(g, closed, t), AfterRemoval(g)
    PROVE  Accounted(gnubby', closed', t)
<1>1. CASE StaysOpen(g) \/ EnrollNotify("TIMEOUT", g)
  BY <1>1, NotifyAccounts
<1>2. CASE gnubby' = g /\ closed' = closed
  BY <1>2
<1> QED
  BY <1>1, <1>2 DEF AfterRemoval

(***************************************************************************)
(* A gnubby that is handed over is accounted for wherever it goes: closed  *)
(* at once, listed, or lost if it came too late.                           *)
(***************************************************************************)
LEMMA HandingOver ==
    ASSUME Accounted(gnubby, closed, tooLate), NEW k \in Keys, HandedOver(k)
    PROVE  /\ Accounted([gnubby EXCEPT ![k] = "listed"], closed, tooLate')
           /\ Accounted([gnubby EXCEPT ![k] = "closed"], closed, tooLate')
           /\ closed \/ (forEnroll /\ late)
                => Accounted([gnubby EXCEPT ![k] = "lost"], closed, tooLate')
  BY DEF Accounted, HandedOver, Handed

LEMMA RemovingAccounts ==
    ASSUME Accounted(gnubby, closed, tooLate), NEW k \in Keys
    PROVE  Accounted(Removed(gnubby, k), closed, tooLate)
  BY DEF Accounted, Removed, Handed

(***************************************************************************)
(* The lists hold all that is open: every step keeps it so.                *)
(***************************************************************************)
AccountInv == AnsweredIsClosed /\ Accounted(gnubby, closed, tooLate)

LEMMA AccountInvariant == Spec => []AccountInv
<1>1. Init => AccountInv
  BY DEF Init, AccountInv, AnsweredIsClosed, Notified, Accounted, Handed, None
<1>2. AccountInv /\ [Next]_vars => AccountInv'
  <2> SUFFICES ASSUME AnsweredIsClosed, Accounted(gnubby, closed, tooLate), [Next]_vars
               PROVE  AccountInv'
    BY DEF AccountInv
  <2>1. AnsweredIsClosed'
    BY StepSettles DEF AnsweredIsClosed, Settles, Notified
  <2> SUFFICES Accounted(gnubby', closed', tooLate')
    BY <2>1 DEF Accounted, AccountInv
  <2>2. CASE UNCHANGED vars \/ Run \/ HandlerTimerExpires \/ SignerTimerExpires
               \/ IntervalExpires \/ OrphanExpires
    BY <2>2 DEF vars, owner, Run, HandlerTimerExpires, SignerTimerExpires, IntervalExpires,
                OrphanExpires
  <2>3. CASE Enumerated
    BY <2>3 DEF owner, Enumerated, EnumerateCallback
  <2>4. CASE OwnerCloses
    BY <2>4, CloseAccounts DEF OwnerCloses
  <2>5. CASE SignCompleted \/ EnrollCompleted
    BY <2>5, NotifyAccounts DEF SignCompleted, EnrollCompleted, EnrollKeeps
  <2>6. ASSUME NEW k \in Keys, SignerGone(k)
        PROVE  Accounted(gnubby', closed', tooLate')
    BY <2>6 DEF SignerGone, owner
  <2>7. ASSUME NEW k \in Keys, SignReport(k)
        PROVE  Accounted(gnubby', closed', tooLate')
    <3>1. CASE SignFoundOk(k)
      <4>1. HandedOver(k)
        BY <3>1 DEF SignFoundOk
      <4>2. CASE Notified
        BY <3>1, <4>1, <4>2, HandingOver, NotifyAccounts DEF SignFoundOk, AnsweredIsClosed
      <4>3. CASE ~Notified
        BY <3>1, <4>1, <4>3, HandingOver, NotifyAccounts DEF SignFoundOk
      <4> QED
        BY <4>2, <4>3
    <3>2. CASE SignFoundWrongData(k) \/ SignFoundUnknownVersion(k)
      BY <3>2, HandingOver, NotifyAccounts DEF SignFoundWrongData, SignFoundUnknownVersion, Lists
    <3>3. CASE SignFoundError(k)
      BY <3>3, NotifyAccounts DEF SignFoundError
    <3> QED
      BY <2>7, <3>1, <3>2, <3>3 DEF SignReport
  <2>8. ASSUME NEW k \in Keys, forEnroll, EnrollReport(k)
        PROVE  Accounted(gnubby', closed', tooLate')
    <3>1. ASSUME NEW code, EnrollFoundOther(k, code)
          PROVE  Accounted(gnubby', closed', tooLate')
      BY <3>1, NotifyAccounts DEF EnrollFoundOther
    <3>2. CASE EnrollFoundLate(k)
      BY <2>8, <3>2, HandingOver, NotifyAccounts DEF EnrollFoundLate
    <3>3. CASE EnrollFound(k)
      BY <3>3, HandingOver, NotifyAccounts DEF EnrollFound
    <3>4. CASE EnrollFoundWrongVersion(k)
      BY <3>4, HandingOver, RemovalAccounts DEF EnrollFoundWrongVersion, Removed
    <3> QED
      BY <2>8, <3>1, <3>2, <3>3, <3>4 DEF EnrollReport
  <2>9. ASSUME NEW k \in Keys, SignCommandEnds(k)
        PROVE  Accounted(gnubby', closed', tooLate')
    BY <2>9, NotifyAccounts DEF SignCommandEnds, BogusEnrollCallback
  <2>10. ASSUME NEW k \in Keys, EnrollCommandEnds(k)
         PROVE  Accounted(gnubby', closed', tooLate')
    BY <2>10, RemovingAccounts, NotifyAccounts, RemovalAccounts DEF EnrollCommandEnds,
       EnrollIgnored, EnrollGone, EnrollWait, EnrollEnds, EnrollKeeps
  <2>11. ASSUME NEW k \in Keys, RetryEnroll(k)
         PROVE  Accounted(gnubby', closed', tooLate')
    BY <2>11, NotifyAccounts, RemovalAccounts DEF RetryEnroll, EnrollKeeps
  <2> QED
    BY <2>2, <2>3, <2>4, <2>5, <2>6, <2>7, <2>8, <2>9, <2>10, <2>11, Kinds
<1> QED
  BY <1>1, <1>2, PTL DEF Spec

(***************************************************************************)
(* When the handler closes, every gnubby it was handed before and in time  *)
(* is closed, for any keys: the lists hold all that is open, and close     *)
(* empties them.                                                           *)
(***************************************************************************)
THEOREM ClosesGnubbies == Spec => []GnubbiesClosed
<1>1. AccountInv => GnubbiesClosed
  BY DEF AccountInv, Accounted, GnubbiesClosed
<1> QED
  BY <1>1, AccountInvariant, PTL
-----------------------------------------------------------------------------
(***************************************************************************)
(* Only a gnubby that was handed over is told to enroll, or again to.      *)
(***************************************************************************)
Doing == {None, "enroll", "timer"}
Prompted ==
    /\ cmd \in [Keys -> Doing]
    /\ \A k \in Keys : cmd[k] # None => gnubby[k] # None

LEMMA NotifyHolds ==
    ASSUME NEW g, NEW code, NEW k \in Keys, g[k] # None,
           \/ SignNotify(code, g) \/ EnrollNotify(code, g) \/ StaysOpen(g) \/ Close(g)
           \/ AfterRemoval(g)
    PROVE  gnubby'[k] # None
<1>1. ASSUME StaysOpen(g) \/ Close(g) PROVE gnubby'[k] # None
  BY <1>1 DEF StaysOpen, Close, ClosedAll, None
<1>2. ASSUME NEW c, SignNotify(c, g) \/ EnrollNotify(c, g) PROVE gnubby'[k] # None
  BY <1>1, <1>2 DEF SignNotify, EnrollNotify
<1>3. CASE AfterRemoval(g)
  BY <1>1, <1>2, <1>3 DEF AfterRemoval
<1> QED
  BY <1>1, <1>2, <1>3

(***************************************************************************)
(* The gnubbies may be changed where they are handed over or closed: those *)
(* told to enroll still were handed over.                                  *)
(***************************************************************************)
LEMMA PromptsKept ==
    ASSUME Prompted, gnubby \in [Keys -> Handed],
           NEW g, NEW code, NEW k \in Keys, NEW c \in Doing,
           \A j \in Keys : gnubby[j] # None => g[j] # None,
           c # None => g[k] # None,
           cmd' = cmd \/ cmd' = [cmd EXCEPT ![k] = c],
           \/ SignNotify(code, g) \/ EnrollNotify(code, g) \/ StaysOpen(g) \/ Close(g)
           \/ AfterRemoval(g)
    PROVE  Prompted'
<1>1. \A j \in Keys : g[j] # None => gnubby'[j] # None
  BY NotifyHolds
<1>2. cmd' \in [Keys -> Doing]
  BY DEF Prompted
<1>3. ASSUME NEW j \in Keys, cmd'[j] # None PROVE gnubby'[j] # None
  <2>1. CASE cmd'[j] = cmd[j]
    BY <1>1, <1>3, <2>1 DEF Prompted
  <2>2. CASE cmd'[j] # cmd[j]
    BY <1>1, <1>3, <2>2 DEF Prompted
  <2> QED
    BY <2>1, <2>2
<1> QED
  BY <1>2, <1>3 DEF Prompted

LEMMA StepPrompts ==
    ASSUME Prompted, gnubby \in [Keys -> Handed], [Next]_vars
    PROVE  Prompted'
<1> USE DEF Doing
<1>1. ASSUME gnubby' = gnubby, cmd' = cmd PROVE Prompted'
  BY <1>1 DEF Prompted
<1>2. CASE UNCHANGED vars \/ Run \/ HandlerTimerExpires \/ SignerTimerExpires
             \/ IntervalExpires \/ OrphanExpires \/ Enumerated
  BY <1>1, <1>2 DEF vars, owner, Run, HandlerTimerExpires, SignerTimerExpires, IntervalExpires,
                    OrphanExpires, Enumerated, EnumerateCallback
<1>3. CASE OwnerCloses
  <2>1. \A j \in Keys : gnubby[j] # None => gnubby'[j] # None
    BY <1>3, NotifyHolds DEF OwnerCloses
  <2> QED
    BY <1>3, <2>1 DEF OwnerCloses, Prompted
<1>4. CASE SignCompleted \/ EnrollCompleted
  <2>1. /\ cmd' = cmd
        /\ \E code : SignNotify(code, gnubby) \/ EnrollNotify(code, gnubby) \/ StaysOpen(gnubby)
    BY <1>4 DEF SignCompleted, EnrollCompleted
  <2>2. \A j \in Keys : gnubby[j] # None => gnubby'[j] # None
    BY <2>1, NotifyHolds
  <2> QED
    BY <2>1, <2>2 DEF Prompted
<1>5. ASSUME NEW k \in Keys, SignerGone(k) PROVE Prompted'
  BY <1>1, <1>5 DEF SignerGone, owner
<1>6. ASSUME NEW k \in Keys, SignReport(k) PROVE Prompted'
  <2>1. CASE SignFoundOk(k)
    <3>1. PICK g \in [Keys -> Handed] :
            /\ \A j \in Keys : gnubby[j] # None => g[j] # None
            /\ SignNotify("OK", g) /\ cmd' = cmd
      <4> DEFINE h == [gnubby EXCEPT ![k] = IF Notified THEN "lost" ELSE "closed"]
      <4>1. h \in [Keys -> Handed] /\ \A j \in Keys : gnubby[j] # None => h[j] # None
        BY DEF Handed, None
      <4>2. SignNotify("OK", h) /\ cmd' = cmd
        BY <2>1 DEF SignFoundOk
      <4> HIDE DEF h
      <4> QED
        BY <4>1, <4>2
    <3> QED
      BY <3>1, PromptsKept
  <2>2. CASE SignFoundWrongData(k)
    <3>1. StaysOpen(Lists(k)) /\ cmd' = [cmd EXCEPT ![k] = "enroll"]
      BY <2>2 DEF SignFoundWrongData
    <3>2. Lists(k)[k] # None /\ \A j \in Keys : gnubby[j] # None => Lists(k)[j] # None
      BY DEF Lists, Handed, None
    <3> QED
      BY <3>1, <3>2, PromptsKept
  <2>3. CASE SignFoundUnknownVersion(k)
    <3>1. SignNotify("INVALID_DATA", Lists(k)) /\ cmd' = cmd
      BY <2>3 DEF SignFoundUnknownVersion
    <3>2. \A j \in Keys : gnubby[j] # None => Lists(k)[j] # None
      BY DEF Lists, Handed, None
    <3> QED
      BY <3>1, <3>2, PromptsKept
  <2>4. CASE SignFoundError(k)
    BY <2>4, PromptsKept DEF SignFoundError
  <2> QED
    BY <1>6, <2>1, <2>2, <2>3, <2>4 DEF SignReport
<1>7. ASSUME NEW k \in Keys, EnrollReport(k) PROVE Prompted'
  <2>1. ASSUME NEW code, EnrollFoundOther(k, code) PROVE Prompted'
    BY <2>1, PromptsKept DEF EnrollFoundOther
  <2>2. ASSUME NEW h \in {"lost", "listed", "closed"}, NEW c \in {None, "enroll"},
               StaysOpen([gnubby EXCEPT ![k] = h]) \/ AfterRemoval([gnubby EXCEPT ![k] = h]),
               cmd' = cmd \/ cmd' = [cmd EXCEPT ![k] = c]
        PROVE  Prompted'
    <3> DEFINE g == [gnubby EXCEPT ![k] = h]
    <3>1. g[k] # None /\ \A j \in Keys : gnubby[j] # None => g[j] # None
      BY DEF Handed, None
    <3>2. StaysOpen(g) \/ AfterRemoval(g)
      BY <2>2
    <3> HIDE DEF g
    <3> QED
      BY <2>2, <3>1, <3>2, PromptsKept
  <2>3. CASE EnrollFoundLate(k)
    BY <2>2, <2>3 DEF EnrollFoundLate
  <2>4. CASE EnrollFound(k)
    BY <2>2, <2>4 DEF EnrollFound
  <2>5. CASE EnrollFoundWrongVersion(k)
    BY <2>2, <2>5 DEF EnrollFoundWrongVersion, Removed
  <2> QED
    BY <1>7, <2>1, <2>3, <2>4, <2>5 DEF EnrollReport
<1>8. ASSUME NEW k \in Keys, SignCommandEnds(k) PROVE Prompted'
  BY <1>8, PromptsKept DEF SignCommandEnds, BogusEnrollCallback, Prompted
<1>9. ASSUME NEW k \in Keys, EnrollCommandEnds(k) \/ RetryEnroll(k) PROVE Prompted'
  <2>1. cmd[k] # None /\ gnubby[k] # None
    BY <1>9 DEF EnrollCommandEnds, EnrollIgnored, EnrollGone, EnrollWait, EnrollEnds, Ended,
                RetryEnroll, Prompted, None
  <2>2. \A j \in Keys : gnubby[j] # None => Removed(gnubby, k)[j] # None
    BY DEF Removed, Handed, None
  <2>3. \E c \in Doing : \E g, code :
          /\ cmd' = [cmd EXCEPT ![k] = c]
          /\ g = gnubby \/ g = Removed(gnubby, k)
          /\ EnrollNotify(code, g) \/ StaysOpen(g) \/ AfterRemoval(g)
    BY <1>9 DEF EnrollCommandEnds, EnrollIgnored, EnrollGone, EnrollWait, EnrollEnds, Ended,
                RetryEnroll
  <2> QED
    BY <2>1, <2>2, <2>3, PromptsKept
<1> QED
  BY <1>2, <1>3, <1>4, <1>5, <1>6, <1>7, <1>8, <1>9, Kinds

(***************************************************************************)
(* A closed handler tells no key to enroll that it has closed: a retry     *)
(* finds the gnubby closed, and what was handed over since came too late.  *)
(***************************************************************************)
THEOREM ClosedPromptsNone == Spec => NoPromptAfterClose
<1>1. Init => Prompted
  BY DEF Init, Prompted, Doing, None
<1>2. AccountInv /\ Prompted /\ [Next]_vars => Prompted'
  BY StepPrompts DEF AccountInv, Accounted
<1>3. ASSUME AccountInv, Prompted, [Next]_vars, NEW k \in Keys,
             closed, cmd[k] # "enroll", cmd'[k] = "enroll"
      PROVE  k \in tooLate'
  <2>1. ASSUME NEW j \in Keys, HandedOver(j), cmd' = [cmd EXCEPT ![j] = "enroll"]
        PROVE  k \in tooLate'
    BY <1>3, <2>1 DEF HandedOver, Prompted
  <2>2. CASE cmd' = cmd
    BY <1>3, <2>2
  <2>3. ASSUME NEW j \in Keys, SignReport(j) \/ EnrollReport(j) PROVE k \in tooLate'
    BY <2>1, <2>2, <2>3 DEF SignReport, SignFoundOk, SignFoundWrongData,
       SignFoundUnknownVersion, SignFoundError, EnrollReport, EnrollFoundOther,
       EnrollFoundLate, EnrollFound, EnrollFoundWrongVersion
  <2>4. ASSUME NEW j \in Keys, SignCommandEnds(j) \/ EnrollCommandEnds(j) PROVE FALSE
    BY <1>3, <2>4 DEF SignCommandEnds, BogusEnrollCallback, EnrollCommandEnds, EnrollIgnored,
       EnrollGone, EnrollWait, EnrollEnds, Ended, Prompted, None
  <2>5. ASSUME NEW j \in Keys, RetryEnroll(j) PROVE k \in tooLate'
    <3>1. CASE cmd' = [cmd EXCEPT ![j] = "enroll"] /\ gnubby[j] # "closed"
      <4>1. j = k /\ gnubby[k] \in {"listed", "lost"}
        BY <1>3, <2>5, <3>1 DEF RetryEnroll, Prompted, AccountInv, Accounted, Handed, None
      <4>2. k \in tooLate
        BY <1>3, <4>1 DEF AccountInv, Accounted
      <4> QED
        BY <2>5, <4>2 DEF RetryEnroll, EnrollKeeps
    <3>2. CASE cmd' = [cmd EXCEPT ![j] = None]
      BY <1>3, <3>2 DEF Prompted, None
    <3> QED
      BY <2>5, <3>1, <3>2 DEF RetryEnroll
  <2>6. CASE UNCHANGED vars \/ Run \/ HandlerTimerExpires \/ SignerTimerExpires
               \/ IntervalExpires \/ OrphanExpires \/ Enumerated \/ OwnerCloses
               \/ SignCompleted \/ EnrollCompleted \/ \E j \in Keys : SignerGone(j)
    BY <2>2, <2>6 DEF vars, owner, Run, HandlerTimerExpires, SignerTimerExpires,
       IntervalExpires, OrphanExpires, Enumerated, EnumerateCallback, OwnerCloses,
       SignCompleted, EnrollCompleted, SignerGone
  <2> QED
    BY <1>3, <2>3, <2>4, <2>5, <2>6, Kinds
<1>4. AccountInv /\ Prompted /\ [Next]_vars
        => [\A k \in Keys :
              closed /\ cmd[k] # "enroll" /\ cmd'[k] = "enroll" => k \in tooLate']_vars
  BY <1>3
<1> QED
  BY <1>1, <1>2, <1>4, AccountInvariant, PTL DEF Spec, NoPromptAfterClose
=============================================================================

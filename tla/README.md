# Specifications of the U2F reference code

TLA+ models of the U2F reference implementation: the Chrome extension
`src/u2f-chrome-extension` that runs sign and enroll requests of web pages
against security keys, and the Java server in `src/u2f-ref-code`. TLC checks the
models on small instances; TLAPS proves some of their theorems for every value
of the constants. `PROJECT.json` holds, for machines, what this file says for
people: components, runs, the source lines each definition stands for, hazards,
findings and theorems.

## 1. The system

A page asks the extension, over a port or with a single message, to sign or to
enroll. The extension's background page validates the request, puts it in a
queue for its app id and origin, and when its turn comes checks that the origin
may use the app id, then has a helper sign with whatever keys are plugged in.
The helper opens keys through the device manager, which shares one driver
object per key among many clients. A server starts the ceremony and verifies
the answer.

All of the extension is JavaScript: callbacks run one at a time and to
completion, and what makes it hard is their order, and calls that come back
into an object that is still busy. The Java server runs one handler per thread
and synchronises nothing.

Paths below are under `src/u2f-chrome-extension` unless they start with `java`.

| Component | Files | State | Operations | Hard because | Correct when |
|---|---|---|---|---|---|
| Request queue | requestqueue.js | linked list of tokens, timers | queueRequest, complete, cancel by timer | tokens leave anywhere in the list, in three ways | the head is always started; requests are served in turn; links hold |
| Sign requests | signer.js | begun, closed, done, timers, checks under way | begin, close, origin and app id answers, helper answer | begin, close and complete call each other back | every request is answered, once, honestly, and leaves the queue |
| Watchdog | watchdog.js, closeable.js | timer, calledBack, closed | wrapped callbacks, timeout, close | fires while the answer is under way | one answer; none is missing |
| Background page | u2fbackground.js, webrequest.js, webrequestsender.js | ports, a closeable for each | connect, message, disconnect | a page leaves at any time | what nobody waits for is closed |
| Countdown timers | countdown.js, countdowntimer.js | deadline, timer | set, clear, clone, expired | a cleared timer reads as expired; zero arms nothing | their users take this into account |
| Device manager | gnubbies.js | keys found, open devices, two lists of waiting callers, inactivity timer | enumerate, addClient, removeClient, timeout | callers are called back in loops and call again; keys vanish | keys are opened once, nobody is forgotten, devices are released |
| Gnubby client | gnubby.js, gnubby-u2f.js | device, channel, frames received | open, close, sync, read, exchange | closes before its open completes; timeouts destroy the shared device | no answer for another's command; a callback for every call |
| USB driver | usbgnubbydevice.js | command queue, transfer flags, lock, clients | queueCommand, transfers, destroy | every transfer is a chain of callbacks | one transfer at a time, commands in order, one timer per lock |
| HID driver | hidgnubbydevice.js | frame queue, lock, clients | queueCommand, send, read loop, destroy | reading and writing are independent; loops start themselves | frames in order, someone listens while reads succeed, abandoned devices close |
| Gnubby signers | singlesigner.js, multiplesigner.js | a state machine per key, keys known | open, select, sign, retry, close | plug and unplug, retries, close in any state | one outcome, all keys closed |
| USB request handlers | usbsignhandler.js, usbenrollhandler.js, usbhelper.js | signers, timers, notified | run, close | retries race with close and timeout | answered once, no key told to enroll after close, all gnubbies closed |
| Helpers | delegatinghelper.js, externalhelper.js, generichelper.js | outstanding helpers | run, close, answers | several race for one answer | first success wins, an error is told |
| Software token | softtokenhelper.js | profile with keys and a counter | enroll, sign | none (synchronous) | the counter increases |
| Enroll requests | enroller.js | as sign requests, no queue | start, close, checks | as sign requests | as sign requests |
| App id and origin checks | appid.js, textfetcher.js, origincheck.js, etld.js | outstanding fetches | checkAppIds, canClaimAppIds | retries until the timer expires | an answer, or the request's timeout |
| Java U2F server | java server/impl | sessions, lists of keys, counters | the two halves of both ceremonies, removal | threads race between check and store | counters increase; keys stay registered (not always, section 6) |
| Java virtual key and client | java key/impl, client/impl | key pairs, counter | register, authenticate | none | the counter increases |
| Java codecs, attestation | java codec, server/impl/attestation | none | encode, parse | widths | decode inverts encode |
| Java HTTP demo, App Engine demo | java tools/httpserver; u2f-gae-demo | sessions, user data | servlets | load, change, save | no lost update |
| Page-side API | u2f-gae-demo/war/js/u2f-api.js | port, callbacks by request id | sign, register | answers and timeouts | each callback once |
| Conformance tests | u2f-tests | none | test programs | - | - |

How they call each other:

    page -- port --> background page -> watchdog -> queued request -> request queue
                                            ^             |  begin
                                            |             v
                                            +-------- signer -> helper -> signers -> gnubby
                                                                                        |
                                     driver (USB, HID) <-- device manager <-------------+

Hazards - what in this code can go wrong in a way a unit test would hardly
reach - are listed with their lines in `PROJECT.json`, each with the properties
that watch it or the reason that none does.

## 2. Modules

| Module | Models | Kind |
|---|---|---|
| `TokenQueue` | what a request queue promises | abstract specification |
| `RequestQueue` | requestqueue.js with its links; extends `TokenQueue` | implements `TokenQueue` |
| `SignRequests` | signer.js, watchdog.js, ports; uses `TokenQueue` by INSTANCE | composition |
| `AppIdChecker` | appid.js, textfetcher.js | part of the next |
| `EnrollRequests` | enroller.js, watchdog.js, delegatinghelper.js, externalhelper.js, ports | composition |
| `MultipleSigner` | multiplesigner.js | base of the next two |
| `UsbSignHandler`, `UsbEnrollHandler` | usbsignhandler.js, usbenrollhandler.js | the two owners of a multiple signer |
| `UsbHandlers` | usbhelper.js: a request for either handler | composition |
| `SingleSigner` | singlesigner.js, over one key | detailed |
| `GnubbyClient` | gnubby.js: the clients of one open device | detailed |
| `CommandChannel` | what a driver promises the clients of a key | abstract specification |
| `GnubbyDevice` | clients, closing and lock, common to both drivers | base of the next two |
| `UsbGnubbyDevice` | usbgnubbydevice.js, an open device | implements `CommandChannel` |
| `HidGnubbyDevice` | hidgnubbydevice.js, an open device | detailed |
| `Gnubbies` | gnubbies.js, open and close of gnubby.js | detailed, over both kinds of driver |
| `PageApi` | u2f-api.js, u2f-comms.js | detailed |
| `U2fServer` | U2FServerReferenceImpl over MemoryDataStore, key and page | detailed |
| `MCGnubbies`, `MCSingleSigner`, `MCU2fServer` | instances that need a definition (keys of drivers, key handles, symmetry) | for TLC |
| `RequestQueueProofs` | `TokenQueue` and `RequestQueue` | theorems |
| `SignRequestsProofs` | `SignRequests` and `SingleSigner` | theorems |
| `PageRequestsProofs` | `PageApi` and `EnrollRequests` | theorems |
| `GnubbiesProofs` | `Gnubbies` and `GnubbyClient` | theorems |
| `UsbGnubbyDeviceProofs`, `HidGnubbyDeviceProofs`, `UsbHandlersProofs`, `U2fServerProofs` | the module of that name | theorems |

Each layer takes the one below by what that one was checked to promise, and its
comments name the module that does: `PageApi` has an extension that answers or
drops (`SignRequests`, `EnrollRequests`); these have helpers that answer, late
or never (`UsbHandlers`); the handlers have signers that report unless closed
(`SingleSigner`); a signer has commands that call back and syncs that do unless
the gnubby closes (`GnubbyClient`); a client has opens that call back
(`Gnubbies`) and a device that publishes frames in order (the drivers).

A definition named "Seeded fault" is a plausible bug next to the code it
replaces: with it in place of the correct definition, the property it is meant
for fails. It is in no specification's behaviours.

Where a proof module speaks of two components, the names they share are told
apart in one of them: the specification of `PageApi` is `ApiSpec`, that of
`SingleSigner` is `SingleSpec`, that of `GnubbyClient` is `ClientSpec`, and the
clients of this program are its `OwnClients`.

### TokenQueue, RequestQueue

Tokens are 1, 2, 3, ... in the order of `queueRequest`, as `id_` numbers them.
In `TokenQueue` the queue is the set of tokens issued and not completed, the
head its least member. `Complete` is a call by an owner, `TimerFires` the clone
of the request's timer, `StartNow` the `setTimeout(0)` of a request that found
the queue empty. `begins` counts calls of `beginCb`. `overtaken` is history: a
token that was not the head left the queue.

`RequestQueue` has `head_`, `tail_`, `next` and `prev` as the code has them and
takes `insertToken_` and `removeToken_` assignment by assignment; `threw` is
set where null would be dereferenced or `insertToken_` throws. The refinement
renames `id` to `lastId` and forgets the links.

### SignRequests

Request r holds token r. Its actions come in two kinds. Those guarded by `Idle`
are callbacks of the browser: messages, timers, resolved promises, the helper's
answer, disconnects. Those guarded by `Running(f)` are calls inside a callback:
`stack` holds calls still to be made, so `Close` schedules `closeSigner`,
`complete` and, after both have returned, the assignment of `closed_`, in the
order of the code, and the calls these make come first. Properties that hold
only between callbacks say `Idle`.

A request's timeout has three kinds (`Patience`): long enough to arm both of
its timers; so short that the second attenuation leaves nothing and only the
watchdog is armed; below half a second, nothing is armed at all.

### EnrollRequests, AppIdChecker

Nothing here is called back while it is busy, so each callback of the browser is
one step. `waiting` is the promise the Enroller waits for. `Notify` is
`notifyError_` and `notifySuccess_` with all they cause: the Enroller, its
handler, every helper and the watchdog close, and `sendResponseOnce` passes the
answer on to the check for a foreground tab (`InForeground`). The lists of app
ids are fetched at once; `again` toggles with every repeated fetch, so that a
fetch repeated for ever is a behaviour TLC can tell.

### MultipleSigner, UsbSignHandler, UsbEnrollHandler, UsbHandlers

A signer and its handler call each other back before they return, so the
variables of both are in `MultipleSigner` and each report of a single signer is
one step through both. `gnubby[k]` says where the gnubby of a key went after it
was handed over: in a list of the handler, closed, or lost; `cmd[k]` whether the
key was told to enroll, for the user to touch it, or will be again by a timer.
`tooLate` are the keys handed over after close, or to an enroll handler whose
time was up. `orphans` counts the re-enumeration timers that were overwritten
while they ran. `SilentEnd` is where a sign handler never answers (section 6).

### SingleSigner

`OpenCallback`, `VersionCallback`, `SignCallback` are the functions of that
name. `reply` separates a command's end from its callback (`setTimeout(0)` in
gnubby.js), where close may come in between; `calling` is the time in
`completeCb_`, where the owner may close the signer too.

### GnubbyClient

A client is a record and the functions of gnubby.js are operators on records,
since they call each other (`notifyFrame_` runs the callback of a read, which
may start another). `tasks` are its `setTimeout(0)`s in order. `Publish` gives a
frame to all clients, who keep what `checkCID_` lets through. `Others` are
programs whose INIT requests are answered on the broadcast channel all hear.

### PageApi

A thunk is a callback that waits for the port. `callbackMap` is a sequence
because ids are never reused. The callback of a version question posts the
call's own request, so a call may take two ids. `browser` says which of the four
ports `getMessagePort` makes. Those of the mobile apps know the version and lose
responses: iOS hears none, Android those without data (`NullResponse`, `unread`).

### GnubbyDevice, UsbGnubbyDevice, HidGnubbyDevice

A frame is its number in the order of queueing. Every `setTimeout(0)`,
`bulkTransfer`, `send` and `receive` outstanding is a variable that counts or
flags it, so that two of a kind can be told from one. `dead` stands for
`closing` and the cleared `dev`, which one call sets. `lockTimers` are the timers
of `updateLock_` that run, so that one that was replaced can be told. `broken` is
a HID device whose read came back empty without an error: its callback throws,
and nobody reads or destroys it (hidgnubbydevice.js:196). Over USB `CommandChannel`
is what the driver implements, with the last frame written as the last command
sent and `~dead` as open. The HID driver does not wait for replies and so does
not implement it.

### Gnubbies

The keys are `Ids`, each of one driver's namespace. `rounds` are enumerations
under way, with the namespaces that did not answer yet; `opening` counts calls
of `openImpl` outstanding, `handles` the devices opened and not destroyed. The
loops over `pendingEnumerate` and `pendingOpens` run to completion in the code;
here each turn is a step, `running` is the loop, and nothing but what a callback
may do (`OpenWhich`, `CloseGnubby`) happens in between. A callback that has to
call the manager again at once - a Gnubby that looks again for the first key -
does so in the same step (`Refused`).

### U2fServer

A handler is a step that reads the data store, verifies, and decides, and a
second step that writes. Writing a key takes more, as `addSecurityKeyData` does:
`ReadSize` and `AddToken` are the read and the write of `tokens.add` on an
ArrayList, `PutTokens` the `put`, in which the HashMap may lose accounts that
were absent when it began. `securityKeyDataBase` maps accounts to references of
lists, as the Java map does, so two threads may hold one list or make one each.
Responses are those a correct client makes, and a page may submit each of them
any number of times. `highest`, `repeated`, `overlapped`, `removed`,
`rushed` are history.

## 3. Runs

| Run | Question | Bounds | Distinct states |
|---|---|---|---|
| `request_queue` | does the linked list implement the abstract queue, with fairness; is the head started, service serial, nobody stranded | 4 tokens: a head, a middle, an end and one to come, the least for two removals out of turn that are neighbours and two that are not | 7,123 |
| `sign_requests` | is each request answered, and once; is TIMEOUT honest; is one request at work at a time; does a closed port stop its request; does every request leave the queue | 2 requests, 1 port and messages without one, all three kinds of timeout | 118,846 |
| `enroll_requests` | one answer, and one at all; are helpers stopped; do the fetches end | 1 request (they share nothing), 2 app ids, 3 helpers, all three kinds of timeout | 8,749 |
| `usb_handlers` | does somebody go on looking for keys, are gnubbies closed, is no key told to enroll after close, do those told stop, does the handler answer | 3 keys: one that reports, one that runs, one still to be found | 186,010 |
| `single_signer` | is the gnubby released, every challenge tried, an outcome reported | up to 3 challenges, the first and the last of one key handle | 11,076 |
| `gnubby_client` | whose reply is it, does every exchange and sync call back | 1 client and another program, 2 exchanges, 2 tries to sync, 1 BUSY | 155,436 |
| `usb_device` | overlap of transfers, one timer per lock, implements `CommandChannel` with fairness | 2 clients, 4 commands: a queue with a frame under way, one waiting, one refused | 5,351 |
| `hid_device` | frames in order, sends, read loops, abandoned devices destroyed | 2 clients, 4 frames, commands of 1 or 2 frames | 23,627 |
| `device_manager` | one handle per key, attached clients, opens answered, devices released | 2 Gnubby objects, one scanner, one HID and one USB key, 1 retry | 244,354 |
| `page_api` | does each call get its own response, once | 3 calls, all four ports | 73,808 |
| `u2f_server` | counters under racing handlers | 2 threads, 2 accounts, 1 challenge (so every response matches), 2 key pairs, 3 sessions, 2 entries, counter up to 2 | 1,367,708 |
| `begun_expired` | a statement of a log message that the code does not keep (section 6) | 3 requests, the least that shows it | until violated |

What the bounds leave out: more than one port (the ports share nothing but the
queue), more than three requests (a neighbour on either side of the one that
leaves is all that `complete` looks at), a third client (lock and lists tell
owner from other only). `sign_requests` was also checked with three requests
with long timeouts (7,863,791 states), which takes too long to keep as a run.
In `gnubby_client` a second client of the same page would share only the
device, which the other program and `DeviceGone` disturb as well, and that two
of them do not meet is proved; a third try to sync repeats the second. `MaxCommands`, `MaxFrames`, `MaxTokens`,
`MaxRequests`, `MaxExchanges`, `MaxBusy` and the bounds of `U2fServer` cap what
grows without end in the code; the proofs hold for any value. `device_manager`
was also checked, for its invariants, with the three retries of the source;
liveness is checked with one because a second or third retry repeats the step
of the first.

The only symmetry is that of the server's threads, which no property names,
in a run without liveness. Deadlock is not checked: a run ends when its
bounded inputs are used up, and the system may rest whenever nobody asks it
anything. The liveness and stall properties cover what a deadlock check would.

## 4. Fairness

* `TokenQueue`, `RequestQueue`: timers fire; a request that was begun is
  completed by its owner. `SignRequests` is why: every request begun is
  answered or times out, and either completes its token. Nothing completes a
  request that was not begun, except its timer.
* `SignRequests`: the calls of a callback are made, timers that are due fire.
  The watchdog is set half a second or more later than the request's timers and
  fires after them. Origin checks, app id checks and helpers may never answer:
  the liveness property holds without them.
* `EnrollRequests`: its two timers and the checker's fire. Promises, fetches and
  helpers may never come to anything; only `AppIdCheckEnds` assumes, in its own
  statement, that each fetch ends, with whatever result.
* `UsbHandlers`: timers fire, an enumeration calls back, a command ends, and a
  single signer that was not closed reports. One that was closed may report or
  not. Nobody is assumed to touch a key: a bogus enroll may be answered by
  WAIT_TOUCH, and repeated, for ever, so `HandlerAnswers` allows a request to sign
  that waits for a touch for good (`[]AwaitsTouch`). `EndsUntouched` says when it
  does end: the handler has answered, or the gnubby is closed and says GONE.
* `SingleSigner`: opens and commands call back, timers fire. Nobody is assumed
  to close it.
* `GnubbyClient`: what was scheduled runs and timers fire. The key may stop
  answering at any time; then the timeouts carry every property.
* `PageApi`: the port is made, and a message to the extension or to the Android
  app is answered or dropped. The extension may go away, which the page is not told.
* `UsbGnubbyDevice`: timers fire and transfers call back: the key responds. When
  it does not, the reader's timeout destroys the device (`Destroy`), which needs
  no fairness since `dead` is an outcome of every property.
* `HidGnubbyDevice`: timers fire, sends call back, removals that were scheduled
  happen. A receive may wait for ever, as a key without a command sends nothing.
* `Gnubbies`: the browser answers an enumeration and an open, whatever the
  answer, and the inactivity timer fires. The last two are strongly fair: they
  wait in the event queue while a loop of callbacks runs, so they are enabled
  again and again rather than always, and the event queue gives each its turn.
  Nobody is assumed to close, scan or open.
* `CommandChannel`: a command that may be sent is sent and a sent one answered,
  unless the channel closes.
* `U2fServer`: none. Its properties are safety.

## 5. What is proved

All for any value of the constants that meets the named assumptions in the
modules: bounds are naturals, the null client is no client, and the like.
`GnubbyClient` takes `Tries` to be at least 2 (6 in the source): with one try a
sync that sent its only sentinel can still report TIMEOUT and then a late answer.

**TokenQueue.** Type correctness, then `HeadStarted`: when a token other than
the head leaves, the head is the same and stays started; when the head leaves,
the token behind it becomes the head and `complete` begins it. A token queued
on an empty queue is scheduled. `SerialService` is not inductive alone: that a
start still scheduled belongs to the head has to be added (`SerialInv`).
`NeverBegunLate` is an action property of every step. That a step keeps the
types is a lemma of its own (`TypeStep`), which `SignRequestsProofs` takes over.

**RequestQueue.** The inductive invariant is `ListInv`: types, `WellLinked`,
`NeverThrows`. `WellLinked` says that head, tail and links are those of the set
of tokens not completed, taken in order. The core is `RemoveKeepsLinks`: unlinking a
token anywhere joins its neighbours, which needs that the successor of the
predecessor, in a finite order, is unique (`FollowsUnique`, `FollowsJoin`).
From `ListInv` every step of the list is one of `TokenQueue` or a stutter
(`ImplementsQueue`), which carries the theorems on `TokenQueue` over to the
code's list: `ListNeverStalls`, `ListServesSerially`.

**SignRequests.** Most of the state of a callback is on `stack`, so most
invariants speak of the calls on it. `TypeInv` says that each is one of the
calls there are. Every step is one of `TokenQueue`'s, or leaves the queue alone
(a lemma, `QueueIsUsedRightly`, by the definitions), so its theorems hold of the
composition (`SignsServedSerially`).

* `RespondsOnce` (`AtMostOneResponse`) needs `AnswerInv`: an answer on its way is
  one `respond` or `send` on the stack, of a request that was not answered, and
  the watchdog is closed by then, or the very next call closes it.
* `SignersTakeTurns` (`OneAtWork`) needs four. The requests on the
  stack decrease downwards, and one about to begin has no other call outstanding
  (`StackOrder`): a call pushes calls of its own request or begins a later one.
  The queue has counted every begin (`BeginsCounted`). And a Signer at work holds
  its token, unless its timer expired or the calls that end it are on the stack,
  in the order that ends it before the token goes (`SignerTokens`). A helper that
  runs though its Signer is done was started by a check that answered a done
  Signer (`DoneHelpers`). Between callbacks the stack is empty and `SerialService`
  does the rest.
* `TimeoutsAreHonest` (`TimeoutIsHonest`) needs `TimersHeld`, `HonestStack` and
  `SentHonestly`: an answer TIMEOUT on its way through the stack, and the close
  that makes one, belongs to a request whose time is over or whose watchdog lets
  nothing through. The exception is the close of a request that was not begun,
  which makes no answer; it can only be the running call.

**UsbGnubbyDevice.** `LockHasOneTimer` (`OneLockTimer`): the timers of the lock
that run are at most one, that of the present owner; a timer that an update or a
removal did not clear would free the lock of whoever has it next. For the rest `PumpInv` strengthens `PumpNeverStalls` and
`NeverThrows`: at most one of the pending transfers and timeouts exists
(`OneCallback`), `txqueue` holds consecutive frames, and while the device lives
the head of the queue is the frame under way. It is what the comment in
`inTransferComplete` relies on, that the frame stays in the queue until the
reply was published. From it follows that the driver implements
`CommandChannel`.

**HidGnubbyDevice.** As over USB, but writing does not wait for replies. `PumpInv`
says that `txqueue` holds consecutive frames, that there is at most one send or
scheduled write, and that the frame sent last is the head or just before it.
From it follow `SendsNeverStall` (`SendNeverStalls`) and `FramesAreSentInOrder`
(`FramesInOrder`). `DeviceListens` (`ListensForClients`) needs only that a dead
device has no clients; it excepts the `broken` device, which the code leaves with
clients and without a read loop.

**U2fServer.** Type correctness, including that every reference leads to a
list. `NextSignatureIsNotStale` needs the counters in flight as well: those in
`work` and in the signatures pages hold are not above the key's
(`CountersBehindKey`). `AcceptedCountersIncrease` (`CountersIncrease`) rests on
three more. `ListsInv`: a list has one owner (`Owned`), and a handler that adds a
key while no other of its account does holds the account's current list and its
present end (`OneAtATime`). `HomeInv`: a public key is registered for one session, so all that the
lists, the handlers and the history hold of it belongs to one account (its
`Home`). `CountInv`: while nothing was processed at once and the key was not
removed, the account's list stores at least the highest counter accepted, in the
first entry of the key, and a handler about to write has a higher one. What each
operation on a list does to the counter of a key's first entry is a lemma of its
own (`AppendCounter`, `UpdatedCounter`, `RemovedCounter`).

**UsbHandlers.** `AnswerCloses`: a handler that has answered has closed. On it
rests `LooksOn` (`KeepsLooking`): when the version of a key is unknown, enroll
throws inside `signCompletedCallback_`, which so never gets to end the wait, and
only the close of the handler makes up for it. In every other step either the
timers run on, or a signer is left that will end the wait (`ReportGoesOn`).
`ClosesGnubbies` (`GnubbiesClosed`) follows `Accounted`: a gnubby that is open
and in no list was handed over too late, so `close` reaches all others.
`ClosedPromptsNone` (`NoPromptAfterClose`) follows from the same and from
`Prompted`, only a gnubby that was handed over is told to enroll: so a retry
whose timer close did not cancel finds the gnubby closed, or one that came too
late.

**Gnubbies.** `KeysOpenedOnce` (`OneHandlePerKey`) needs `KeyInv`, what is so of
each key: it is being opened, by one call of `openImpl`, exactly when someone
waits for it and the loop over those who wait has not begun; while that loop
runs, the key is open if and only if `openImpl` said so. `OpenClientsAttached`
(`OpenClientAttached`) is inductive along with it: a client becomes open only in
that loop, in the step that makes it a client of the device, and whatever takes
it off the list closes it.

**GnubbyClient.** `OwnReplyCorrect` (`OwnReply`) and
`PromptSyncReportsOnceCorrect` (`PromptSyncReportsOnce`) follow from one
invariant, `ClientInv`, which says of each client:

* `Base`: a client reads for one exchange at a time and has one task or callback
  for that read (`OneRead`, `OneExchange`); what was reported is right
  (`Reported`); and a sync that sent one sentinel listens, is about to report, or
  has reported, one of the three (`ReportInv`).
* `ReadyInv`: a client that is open and whose first sync succeeded with nothing
  left unanswered is `InSync`, it listens for nothing but replies. Between
  exchanges it is `Quiet`: none of its commands is on the wire and no frame has
  come in. While it reads, the reply is `Arriving`: its one command is on the
  wire, or the reply's frames, one or two, lie in `rxframes` and `msg`, in six
  forms that each frame, and each callback, leads from one to the next.
* `ReadInv`: what a client reads is the reply to its command also after close,
  when frames that came in before are still read.

That other clients do not disturb this is `Keeps`: what they send and what they
are answered changes neither whether a client has a command on the wire nor which.
An answer is heard by the client whose command it answers and by no other that is
ready (`OldestCommand`), since no channel is that of two clients
(`ChannelsDiffer`). Where `OwnReply` does not hold, after a sync that left a
sentinel unanswered (`leftover`), none of this is claimed.

**SingleSigner.** `GnubbyClosedOrHanded` (`GnubbyReleased`) needs `ReleaseInv`:
while the key is being opened nothing else goes on and nothing was reported; an
open gnubby the signer does not have any more was handed over or is one of the
two that are lost; one it still has, after a report, was handed over.
`EveryChallengeTried` (`NoneSkipped`) needs `TriedInv`: all challenges before
the one at hand, and all key handles in `cachedError_`, were tried. That the
challenges `doSign_` skips were tried as well takes a least counterexample
(`SkippedWereTried`): one skipped for its key handle leads back to an earlier
one, and so on to one that was put to the key or is foreign.

**PageApi.** `CallsAnsweredOnce` (`OwnResponseOnce`) needs `PageInv`. A call is
in one place at most (`CallInOnePlace`): its thunk waits for the port, its
callback is in `callbackMap_`, or the callback was called. And a message with
the extension belongs to the callback entered with it, or to none any more
(`MessagesMatch`).

**EnrollRequests.** `AnsweredOnce` (`OneEnrollResponse`) needs `AnswerInv`: once
an answer was sent the watchdog is off and the Enroller is done or was never
started. `StopsHelpers` (`HelpersStopped`) needs `StopInv`: helpers run under a
handler the Enroller has, or were all closed with it, and an Enroller that is
done has none.

**Model-checked only.** All liveness and the fair parts of the refinements
(out of the prover's reach): WF and SF, and with them every property that
something happens in the end; and `DeadPortFreesQueue`. Every other invariant that
a run checks is proved. `NextSignatureIsNotStale` is proved and in no run, as
`CountersIncrease` says more of the same races.

## 6. Where the code differs from what is said of it

`begun_expired` (requestqueue.js:129, signer.js:246). Three requests are queued
and the second is cancelled: `complete` begins the third while the first is in
progress, and again when the first completes. The second `begin` reads the timer
that the first cleared as expired and answers TIMEOUT to a request that is being
signed. `SerialService`, `OneAtWork` and `TimeoutIsHonest` say what holds while
nobody leaves the queue out of turn.

What modelling brought up besides, and the models contain. These are readings of
the code that no run of its own shows:

* A Signer closed while it waits for an origin or app id check goes on to sign
  when the check answers, without a place in the queue (signer.js:388, 412), so
  that two helpers may run. An Enroller does not.
* A port keeps the closeable of its last message only (u2fbackground.js:208).
* A HID read that returns no data and no error throws before the device is
  destroyed (hidgnubbydevice.js:196): its clients stay, and nobody reads.
* Two read loops of a HID device may run, and the clean-up of one may find the
  receive of the other pending (hidgnubbydevice.js:118, 169).
* The Enroller is given the callbacks the watchdog did not wrap
  (enroller.js:72-80). When it has no tab it closes before it reports
  (enroller.js:296), so BAD_REQUEST is never sent and the page gets the
  watchdog's TIMEOUT. When no helper accepts a request, `run` returns false and
  nobody looks.
* No call of a page over the iOS app is answered: the port registers no handler
  (u2f-api.js:498). Over the Android app an error without data makes
  `responseHandler_` throw (u2f-api.js:452, 605).
* A response to a registration is dropped when its tab is not in the foreground
  at that moment (u2fbackground.js:138); the page has no timeout of its own and
  no handler for a disconnected port.
* A sync may call back twice, when a reply comes after TIMEOUT or INIT is
  answered twice (gnubby.js:588 lacks a return), and never when its gnubby
  closes. `synccnt` wraps at 256 and is compared unwrapped (gnubby.js:549, 556).
* A single signer loses its gnubby when the sync after an open fails, and when
  the second open of a BUSY key completes after close (singlesigner.js:243).
* A request to sign may end without an answer. A key that knows none of the
  challenges counts as found, and may fail its bogus enroll with an error, GONE
  for one. `enrollCallback_` (usbsignhandler.js:185-200) then says nothing, and
  when the time is up `signerCompleted_` does nothing either, for
  `signerFoundGnubby_` "will have returned results" (line 80). The page is left to
  the watchdog. `HandlerAnswers` names this end (`SilentEnd`) and shows that there
  is no other.
* A sign handler that was closed may still call back (usbsignhandler.js:202).
  Its bogus enrollments go on whatever the time.
  A gnubby handed over after close is told to enroll all the same - by the sign
  handler for good, by the enroll handler until its time is up -, and neither it
  nor one handed over for enrollment when time is up is ever closed. Re-enumeration timers are overwritten while they run.

* The Java server may lose a key that EnrollFinishServlet reports as registered:
  two registrations of one account at once both write the end of its list, or
  both make one (MemoryDataStore.java:54-56). So `CountersIncrease` excepts the
  accounts in `rushed`, and the models promise no more of the lists.

## 7. What is abstracted and left out

* Times. Timers fire in any order, except for the two relations named in their
  modules (the watchdog follows the request's timers; an open takes less than
  the 30 seconds of the inactivity timer). So how long the host's lock and the
  key's differ is not modelled.
* Contents. Frames are numbers, challenges and keys model values. Validation,
  parsing and encoding appear as outcomes.
* Browser APIs (`chrome.usb`, `chrome.hid`, ports, promises) appear as the
  callbacks they make, with every result the code distinguishes. An `openImpl`
  is assumed to call back: when `listInterfaces` passes no descriptors the USB
  driver throws instead (hazard at usbgnubbydevice.js:475).
* In `Gnubbies`: `closeAll` and `cancelAddClient`, which nothing effective calls
  (no driver has `cancelOpen`); typed enumerations, since
  every caller in the extension asks for any type;
  the branch of `opened` for a device that is closing, which cannot be, since
  `destroy` takes a device out of `openDevs_` and the loops run to completion.
  The first of the keys found is any of them. Keys come and go between any two
  answers.
* In `SignRequests` and `EnrollRequests`: the construction and encoding of
  challenges; that one app id and origin has one queue, which
  `OriginKeyedRequestQueue` selects; the helpers' work.
* In `GnubbyClient`: `apduReply` and the commands of gnubby-u2f.js are the codes
  they end with; replies to INIT too short to hold a channel, and the echo fault
  of keys before version 0.2.1; random channels never collide.
* In `UsbHandlers`: which challenge was signed. A single signer is what it
  reports.
* In `PageApi`: the intents and URLs of the mobile ports, and what the iOS app
  does with a request. Responses of the Android app carry an id like others.
* In `U2fServer`: origins, certificates, transports, signatures that do not
  verify, exceptions of collections changed under an iterator, and the width of
  the counter (hazard at RawMessageCodec.java:181). A thread sees at once what
  the others wrote; the slot and the size that an add writes are one step; a list
  has at most ten keys, for which an ArrayList never replaces its array
  (`CapacityAssumption`); an add that finds its list made shorter since it read
  the end is left out. A HashMap that is changed by two threads is taken to lose
  only accounts that were absent when a `put` began. `removeSecurityKey`, which
  no servlet calls, does not come in the middle of a registration of its account.

### Not modelled

* Software token (softtokenhelper.js): nothing in the extension creates it, and
  each of its operations is one synchronous function over one profile.
* Java codecs, attestation parsing, `b64.js`, `sha256.js`, `util.js`, `etld.js`:
  stateless conversions of bytes and names. A model would restate them byte for
  byte.
* The servlets of the two demos: calls of the server that `U2fServer` models.
  The App Engine storage behaves as the datastore service does, which is not in
  the repository.
* Registration and whitelist of external helpers, the check of the sender's
  URL, the clock arithmetic of countdown.js.
* `u2f-tests`: programs that test keys, not part of the running system.

Of the 38,130 lines of JavaScript in the repository, 27,751 are jQuery, jQuery
UI and the table of public suffixes. The models cover nearly half of the other
10,000, of which licence headers, comments, conversions of bytes and the data
above are most of the rest; a share above a quarter of all lines is out of
reach. The Java server comes on top and is covered by `U2fServer`.

## 8. Plan

1. One abstract helper (answers at most once, stops when closed) that the USB
   handlers implement and that `EnrollRequests` and `SignRequests` use by
   INSTANCE. The sign handler does not meet it (section 6), so it has two forms.
2. Pure algorithms against reference definitions where a width or a boundary
   decides: attenuation of timeouts, HID fragmentation, the counter of the Java
   codec.

## 9. Running

    tlc -workers 2 -config MCRequestQueue.cfg RequestQueue.tla
    tlapm RequestQueueProofs.tla

and likewise for each run in `PROJECT.json` and each `*Proofs` module.

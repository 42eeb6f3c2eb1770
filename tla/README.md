# Verification of the Tenor e-reader firmware

TLA+ modules, TLC configurations and machine-checked proofs about the firmware
in this repository (tenor/cross: an e-reader for ESP32 boards with an e-ink
panel, an SD card, Wi-Fi transfer and a Bluetooth page turner). The modules are
translated from the source; paths below are relative to the repository root.

## 1. Inventory

The firmware is two long-lived FreeRTOS tasks of priority 1 and a few
short-lived ones:

* the **main task** runs `loop()` of `src/main.cpp`: radio driver, power policy,
  input, and `ActivityManager::loop()`, in which the current screen runs;
* the **render task** (`ActivityManager::renderTaskLoop`) sleeps until notified
  and then paints the current screen, holding the `RenderLock`;
* **ble-start** (`BlePageTurnerRuntime.cpp`, priority 2) makes one attempt to
  start the Bluetooth host; **transfer_back** (`FileTransferBackLatch.cpp`)
  samples one key during a file transfer; the web server runs inside the main
  task's pass.

The tasks share the screens and the renderer (RenderLock, a non-recursive
mutex), the card (a recursive mutex in `HalStorage`), task notifications, and
atomics. Sleep is a power-off: a wake is a boot, with a few bytes in RTC memory
(heap-restart memo, restart target, font catalog) and the files on the card.

| Component | State | Operations | Hard behaviour | What makes it correct |
|---|---|---|---|---|
| Screen manager (`src/activities/ActivityManager.cpp`) | current screen, stack, one pending action, waiter slot, deferred writes, sleep flag | replace, push, pop, results, request and await a paint, defer and flush writes, sleep, close for restart | two tasks and one lock, lost wake-ups, requests that cross a transition, sleep that times out | no paint over the sleep image; screens hold still in a paint; no wait hangs; results reach their requester; no write lost at power-off |
| Page-turner radio (`BlePageTurnerRuntime.cpp`, `BleHeapRestart.h`, driver in `main.cpp`) | attempt in flight, cancel flag, power lock, refusal counter and memo, idle/deferred/rearm/hold flags | start (async, sync), suspend, idle stop, restart for a whole heap, release for a build | three tasks, host calls that take seconds, teardown that stays pending, heap refusals, restarts | never end() during begin(); one heap restart until the radio is up; the heap belongs to the build, the transition or the transfer that took it |
| Main loop, boot, sleep (`src/main.cpp`) | restart target, wake reason, timers | boot, sleep, silent restarts, USB entry | state that must survive a restart | every path off writes what is deferred |
| Reader screens (`src/activities/reader/`) | book, section being built, page, progress | open, turn, build in the background, save progress | presses beside paints, builds across paints, heap starvation, progress saved late | turns add up; the page a reader rests on is shown and saved; no wish of an earlier jump is left |
| Reading statistics (`src/ReadingStatsStore.cpp`) | ledger in RAM, snapshot files `.json/.tmp/.bak/.reset`, book epoch | record, activate a book, save, load, reset | power cut between any two card operations | what was committed is read again; a reset is never undone |
| JSON stores (`lib/Serialization/PersistableStore.cpp`) | file and its recovery copy | write, read, recover | power cut, failed reads | a readable copy is never dropped for an unreadable one |
| Quote store (`src/QuoteStore.cpp`) | numbered records, staged file, latest mark | save, replace, remove, recover | power cut | a cut loses no quote; no name is emptied but by a removal (one exception, section 3) |
| Card access (`lib/hal/HalStorage.cpp`, USB Drive) | mount state, lock | file calls, detach, attach | raw hand-off beside other tasks | no file call on a detached card |
| File transfer (`CrossPointWebServerActivity.cpp`, `FileTransferBackLatch.cpp`, uploads of `CrossPointWebServer.cpp` and `WebDAVHandler.cpp`) | session, sampler generation, the socket being read, files half written | start, tap, stop, upload, delete | sampler outliving its session, a socket number used again, two uploads of one name | a tap ends its own session and cuts its own upload; a half-written file has one writer or was left behind |
| Firmware update (`OtaUpdater.cpp`, `FirmwareFlasher.cpp`, `OtaBootSwitch.cpp`) | two slots, two sectors of boot data | download, flash, switch, confirm the start | power cut at any write, a firmware that does not start | a whole firmware is always chosen; one that fails is undone |
| Installs (`WebDavReplace.h`) | staged file | download, verify, replace | power cut | the old file stays usable |
| Book caches (`BookMetadataCache.cpp`, `Section.cpp`) | parts, checkpoints | build, resume, rename | power cut in a build | a partial cache is never taken for whole |
| Input (`HalGPIO.cpp`, `ButtonEdgeLatch.h`) | edges, latches | sample, drain | edges between passes | no edge lost or seen twice |

Parsers, layout, rendering, fonts and translations transform data sequentially;
network screens request, parse and show. They are not modelled (section 7), nor are
card access, installs, book caches and input, which section 6 plans.

How the parts interact: screens call the manager (requests, waits, deferred
writes); `main.cpp` calls the manager once per pass and drives the radio around
it; the manager takes the radio down before each transition
(`suspendForTransition`); a reader's `render()` may take it down for a section
build; transfer screens claim it with `filetransfer::acquire()`.

## 2. Modules

| Module | Models | Built on |
|---|---|---|
| `ActivityManager` | the screen manager, its two tasks, sleep, boot and restarts | |
| `ScreenPile` | what the manager promises: a pile of screens that only opens, closes or starts over, and never moves under a paint | abstract specification, implemented by `ActivityManager` |
| `ScreenRadio` | what the manager and the radio promise each other: who may start it, and when a screen may give way to another | abstract specification, implemented by `ActivityManager` and by `PageTurnerRadio` |
| `MCActivityManager` | instances for TLC | `ActivityManager` |
| `ActivityManagerProofs` | the theorems of section 5 | `ActivityManager` |
| `PageTurnerRadio` | the radio: runtime, driver, settings, release for a build | |
| `MCPageTurnerRadio` | instances for TLC | `PageTurnerRadio` |
| `PageTurnerRadioProofs` | the theorems of section 5 | `PageTurnerRadio` |
| `SnapshotFile` | the files of the reading statistics, one card operation a step | |
| `AtomicSnapshot` | what they promise: a document replaced in one step | abstract specification, implemented by `SnapshotFile` |
| `ReadingLedger` | ledger, book files, epochs and resets | takes the ledger as `SnapshotFile` shows it to be |
| `MCSnapshotFile`, `MCReadingLedger` | instances for TLC | |
| `SnapshotFileProofs`, `ReadingLedgerProofs` | the theorems of section 5 | |
| `ReaderPosition` | the EPUB reader's page: queued turns, dropped paints, layout in the background, progress | |
| `MCReaderPosition`, `ReaderPositionProofs` | instances for TLC, the theorems of section 5 | `ReaderPosition` |
| `QuoteFiles` | the kept quotes, one card operation a step | |
| `MCQuoteFiles`, `QuoteFilesProofs` | instances for TLC, the theorems of section 5 | `QuoteFiles` |
| `FileTransfer` | transfer screen, uploads and the sampler of the Back key | |
| `MCFileTransfer`, `FileTransferProofs` | instances for TLC, the theorems of section 5 | `FileTransfer` |
| `FirmwareUpdate` | both ways of an update, the boot data, the boot | |
| `MCFirmwareUpdate`, `FirmwareUpdateProofs` | instances for TLC, the theorems of section 5 | `FirmwareUpdate` |

### ActivityManager

The main task's place in the code is `pc`, the render task's is `rpc`; an
action is the code between two points where the other task can interfere (a
lock taken or given, a notification, a blocking wait). A screen is a record: its
kind stands for the classes the manager tells apart, and `forResult` says that
it was pushed by `startActivityForResult`. Contents of screens, results and
paints are left out. `deferred` is the set of distinct functions in
`deferredWrites[]`; `MayDefer` is what the reader screens hand to it.
The page-turner radio is one variable here (`radio`), as the manager sees it:
off, up, or a teardown pending; `PageTurnerRadio` opens it up. `main.cpp` starts it
for a reader with its page, the page turner's settings (a menu opened for a
result) start it themselves.

History variables carry the properties that look back: `panel` (does the panel
show the last state change), `owed` (an update was requested and no paint has
begun since), `sinceDefer` (how far the frame after the last deferral is).

### PageTurnerRadio

Three program counters: `mpc` for the pass of `loop()`, `wpc` for the attempt
(the `ble-start` task, or the main task itself inside `begin()`), `ppc` for a
paint. Each step is the code between two points that another task can see:
the blocks of `loop()`, the steps of `beginOwned()`, each call of the host.
The screens are reduced to `reader`, `settings` and `transfer`, the manager to
`leaving` (a pending action) and the RenderLock (`ppc # "idle"`). The host of
the SDK is external: `begin()` succeeds or fails, `end()` finishes or leaves the
teardown pending, as `src/` uses it. Heap checks are choices: enough, enough in
pieces, too short. The memo `spent` is the only state of RAM that a restart
keeps. History: `refused`, `intent`, `restarts`.

### ScreenRadio

The two modules above each hold a small picture of the other: the manager has
one variable for the radio, the radio has `screen` and `leaving` for the manager.
`ScreenRadio` is what the pictures share: the screen in front, whether a
transition is pending, and whether the radio is up, coming up or going down. Both
modules are mapped to it (`Interface`), so that neither assumes of the other what
the other does not keep: the radio starts for a reader or its settings only, and
never while a transition is pending (so a transition waits for one start at
most); and a screen gives way to another, or a pending transition is carried out,
only while the radio is off. Sleep may drop a transition (`MayGiveUp`).

### SnapshotFile

`writeSnapshot()`, `readSnapshot()`, `resetStatistics()` and `finishReset()` of
`ReadingStatsStore.cpp`, with `writeDocToFile()` of `PersistableStore.cpp` for
the staged file. `pc` is the card operation that comes next; each may fail
(`CardFails`) and the power may go before it (`PowerCut`). A document is its
number in the order of writing, so that "older" and "newer" can be said. The
main file, `.bak`, `.tmp`, the copy `.tmp.davbak` and the journal `.reset` are
one variable each. `Recovered` is what a boot would read now; `readable` and
`known` are the code's `statisticsReadable` and `knownReadable`. The history
`saved` is the newest document reported as written.

`Storage.writeFile()` and `recoverFile()` are in the SDK and external: the
document is staged under another name, the older file set aside as `.davbak`,
the staged one renamed and the copy removed. That is what the code in `src/`
relies on when it looks for `.davbak`.

### ReadingLedger

One level up: the ledger is replaced in one step (justified by the refinement
of `SnapshotFile`), and the question is what is in it. `ram` and `ledger` are
views: the totals of the days, the active book, its record, the epoch. A book
that is not active has a file with its backup. Reading is counted in units. The
code keeps one total for all books; the model keeps each book's share of it, and
`read` counts what was recorded since the last full reset, so that
`days <= record <= read` can be stated for each book. `pc` splits
`activateBook()` at its two card accesses. A boot, with the load it does and the
reset it may finish, is one step that may come at any time.

### ReaderPosition

The main task is in one pass of `loop()` (`pass.at`, with the press it read and
the locals of `pageTurn()` and `skipPages()`), the render task in one paint
(`paint`); `holder` is the RenderLock. A press that finds the lock taken goes to
`manual` (or to `external`, from the page turner), and the pass after the paint
applies it. A chapter is a record: its current page, the pages laid out, whether
more may come; a paint of a page beyond the laid out ones extends it, and so
does the background tick. `card` is `progress.bin`; `owed` and `failed` are
`progressSaveDeferred` and `progressSaveFailed`. `drawn` is what a paint has
loaded, `panel` what it has shown. Time is one bit: whether the last turn is
less than 200 ms ago. Faults (memory, card, power) are counted by `faults`.

The render task may be overtaken between any two of its steps; a page that was
laid out is on the card and stays readable. One entry of the table of contents
is one chapter with at least one page.

### QuoteFiles

`save()`, `replace()`, `remove()` and `migrateNames()` of `QuoteStore.cpp`. `pc` is
the card operation that comes next; each may fail, and the power may go before
it. A record is staged by the checked write of `PersistableStore.cpp`, in the same
steps as in `SnapshotFile` (`Retire`, `Aside`, `Place`, `Clean`): an older `.tmp` is
set aside as `.tmp.davbak` (`spare`) while the new one takes its place, and
`repairStaged()` looks at `.tmp` files only. A name is the slot of a quote in its book and minute, a record the number of
its writing. `shelf` is a history: what each name holds for the person who kept
the quotes, settled when a call reports its end.

### FileTransfer

`mpc` is the main task's place: the pass of the screen's `loop()`, or inside the
web server's handling of one client, which reads a request for as long as bytes
trickle in. `sp` is the sampler task. A socket is the number the network stack
gave it, and the next connection may get the same number. The libraries of the
server are external: they call the upload handler and close sockets as `src/`
relies on. Each session has a latch object of its own, because the device
restarts when the screen closes. WebDAV is served beside the web pages: its PUT
stages what it reads, so only its end shows on the card. A board whose Back is on no
button ladder, and the simulator, have no sampler (`StartUnsampled`): there a Back
is seen by the next pass only, and an upload that stalls ends by its own timeout.
`orphans` and `pulled` are histories: the names of halves that a full card, a
restart, a failed removal or a copy left behind, and those a request deleted,
renamed or replaced under their upload. Where an upload ends early its file is
removed, unless the card fails: the code logs that or ignores it (`Discard`). No
handler looks for an upload, and `abortWsUpload()` removes by name what it finds
there.

### FirmwareUpdate

`entry` is the boot data: two sectors, each a sequence number and a state; the
highest number that was not aborted chooses the slot. A number is 0 where a
sector is erased or torn. `OtaUpdater.cpp` selects the slot with
`esp_ota_set_boot_partition()`, the card's way with `ota_boot::switchTo()`; the
header of `OtaBootSwitch.h` says that both avoid the former. The two are modelled
alike, because the SDK's call rewrites the same sector in the same order. `undoes`
says whether the bootloader undoes a start that was never confirmed; the factory
builds differ in that. During setup the chosen entry may be the pending one of the
firmware that is starting: `StartsWhatWasReported` then says that the boot data names
what runs, not that a reset would start it again, for a reset before the first paint
undoes it (`Undone`).

Definitions whose comment begins with "Slip" (in `ActivityManager`: those of the
section "Slips") are plausible bugs: each makes one property fail, which shows
that the property depends on the code it is about.

## 3. Runs

Bounds: depth 2 of the stack gives a screen under a screen under the current
one, enough for a result, its parent and Home; three writes on two slots fill
the table; the user's actions, results, gestures and sleep are free at every
pass. `RetryLimit` 1 and `RefusalLimit` 2 give a retry that is allowed and one
that is not, and a refusal that counts without asking and one that asks.

| Run | Instance | Shows |
|---|---|---|
| `screens` | 3 writes, 2 slots, depth 2, sleep may time out | the invariants and action properties of the manager, and that it implements `ScreenPile` |
| `screens_live` | 1 write, 1 slot, depth 2, sleep does not time out | results reach their requesters; updates, waits and transitions complete |
| `radio` | retry 1, refusals 2 | ownership of host and heap, one restart at most, no hold without someone to lift it; `ScreenRadio` is implemented; a transition is served, whatever the radio was doing |
| `reader` | chapters of 2 and 1 pages, queue 2, 2 presses, 1 fault, from every saved place | turns stay among the pages there are; no paint, drop, failure or layout changes where the turns lead; the page at rest is shown and saved; it is shown at last |
| `snapshot` | 5 documents | what was saved is read again after any cut or failure; an unreadable ledger is never replaced; `AtomicSnapshot` is implemented |
| `ledger` | 2 books, 2 units, 1 full reset, book files can be read | every unit of the days is in its book's record; a full reset forgets |
| `quotes` | 3 names, 5 records | after any cuts every quote is there, the old text or the new one; whatever fails, a name empties only when its quote is removed, or when a new quote is given the name of a staged one |
| `transfer` | 2 names, 2 sockets | no tap of an earlier session, no cut of a later connection, one writer of a half-written file, or a reason why it was left; a tap ends the session although an upload trickles on |
| `firmware` | numbers up to 6 | a whole firmware is chosen at every moment, the reported one starts, a faulty one is undone |
| `book_unavailable` | violation | a book whose file cannot be read just now loses its history |
| `quote_overwritten` | violation | a save may take the name of a staged quote, which is then lost |
| `stray_page` | violation | a jump made after a return from the end of the book lands on its chapter's last page |

Five documents are enough for a reset, a save cut short and a save after it, on
top of a `.bak` and a `.tmp` of different ages. Two books are one that is
archived and one that is fetched; one full reset leaves files of two epochs.
`ReadingLedger` is checked with symmetry over the books, which no definition
tells apart, and has no liveness property.

In `reader` a chapter of two pages has a page at its start, a page at its end and
an end to be found; the one after it is entered from both sides and has the end
of the book behind it. Two presses can queue in one paint, in both directions,
and the queue is full at two; every place that may have been saved is a start,
so two presses reach every edge. The one fault falls at any allocation, load,
save or power cut. `stray_page` needs three presses and no fault. Deadlock is
not checked in these two: with the presses spent and the book closed the system
stops.

In `quotes` a name is free, listed, staged or both, beside a name of an earlier
firmware. Two of the five records may be there at the start, so three writes follow:
one may leave its record staged, one go over it, and one more after a cut. In `transfer` two sockets let a number be used again while another
client stays. In `firmware` six numbers are three updates in a row, each of which
may be cut and tried again; the wrap of the counter at 2^32 - 1 needs four
thousand million updates and is left out.

The findings in `PROJECT.json` quote the sentence each violation run contradicts.
`src/activities/ActivityManager.h:47` ("No onPause/onResume") also disagrees with
the code, which calls `onResume()`; that one needs no run.

*Book unavailable*: run `ledger` assumes that the file of a book that is opened
can be read (`BookReadsFail = FALSE`); without that, `activateBook()` starts the
book from zero and the next archive replaces its file. The ledger itself is
safe against the same failure (`WrittenIsKept`), because `loadFromFile()` tells
it from a missing file.

*Quote overwritten*: `save()` looks for a free slot among the listed names. A
replacement whose rename failed has left its name empty and its text in the
staged file, to be promoted at the next boot; a save before that takes the slot
and stages its own text there. Before that text is in place the checked write sets
the older one aside as `.tmp.davbak`, and a cut at that moment leaves the name with
neither: the walk at the next boot looks at no such file. `NoNameEmptied` names this
as the one way, besides a removal and the move of an old name, in which a name may
empty, and says that the text set aside is whole.

*Stray page*: `onReturnFromEndOfBook()` asks for the last page of a chapter that
is still loaded, so nobody takes the wish, and the next chapter that is loaded
gets it.

### What the models show besides

These are consequences of the code which a property states but no run checks, or
which a choice of constants leaves out:

* `WaitShowsEveryChange` (`ActivityManager`): an unlocked change, as
  `DictionaryWordSelectActivity.cpp:190` makes it, may be missing from the panel
  when the wait for it returns. `WaitShowsLockedChange` holds.
* With `SleepMayTimeOut`, a sleep that times out drops the pending action and
  keeps the result handler set for it (`ActivityManager.cpp:493`). A later result may
  then reach a handler that did not ask for it, and a later pop may lead Home:
  `ResultReachesItsRequester` and `HomeOnlyAfterItsInput` hold as long as no sleep
  has timed out, which is how they are proved.
* `PowerWhileRadioRuns` (`PageTurnerRadio`): `suspendForTransition()` was written
  for the main task, but `releaseRadioForBuild()` calls it on the render task, and
  `beginAsync()` may pass between its test and its reset
  (`BlePageTurnerRuntime.cpp:182`); the new start runs without its power lock.
* `RefusalIsRetried`: `ble-start` has priority 2 and `loop()` priority 1, so with
  the RenderLock free the new task runs through its heap check before
  `xTaskCreate` returns; its `readerStartWasDeferred = true` is then overwritten by
  `setReaderStartDeferred(!started)` (`main.cpp:1131`).
* `IdleOffNeedsInput`: a request left from before (`main.cpp:1099`) restarts a
  radio that was stopped for idleness, without input.
* `TapEndsAnyUpload` (`FileTransfer`): `WebDAVHandler::raw()` asks for no cancel and
  notes no socket, so a PUT whose bytes trickle in keeps the session after a tap,
  unlike the comment at `CrossPointWebServerActivity.cpp:394`. `TapEndsTheSession`
  is about clients that do not hold a PUT for ever.
* `TapCutsTheUpload` (`FileTransfer`): a tap between `consume()` and
  `noteUploadSocket()` (`CrossPointWebServer.cpp:868`) finds no socket to cut, unlike
  the comment at `CrossPointWebServerActivity.cpp:396`. The session still ends
  (`TapEndsTheSession`), when the upload does.
* `FailedSaveIsRetried` (`ReaderPosition`): a page's progress that could not be written
  in its paint (`EpubReaderActivity.cpp:2872`) is not marked as owed, and the exit
  (`:4412`) writes only what is owed; the first paint of a book, one card error and
  Back are enough. The comment at `:2986`, that a card error leaves it owed, holds
  for a write that had been put off before. `RestIsShownAndSaved` leaves out what has
  failed (`~failed`): it is about dropped paints, quiet passes and exits.
* With `RenameMayFail` (`ReaderPosition`), `RestIsShownAndSaved` fails: the old
  `progress.bin` is removed, the rename fails, and `lastSaved...` still names the old
  place; going back there clears what is owed with nothing on the card, unlike
  the comment at `EpubReaderActivity.cpp:2985`.
* A press is lost where the render task takes the lock in the middle of the
  queue (`ReaderActivity.h:61`), where the background tick finds the chapter's end
  under a turn that stepped past it and where a turn back is queued at the end of
  the book (`EpubReaderActivity.cpp:2726`), and where no chapter is loaded
  (`:1490`, `:1604`), which may come about after the pass has looked: a paint that
  runs out of memory sets the chapter aside, and the queue that was found due is
  emptied all the same. `TurnsAddUp` leaves these
  steps out (`TurnsMayBeLost`, `EndFoundElsewhere`).
* An extension that fails sets the chapter aside without keeping the current page
  (`EpubReaderActivity.cpp:2661`, `:2681`, `:2706`), unlike a page that cannot be
  loaded (`:2818`).
* A full card, or a card that does not remove the file of an upload that ended early
  (`CrossPointWebServer.cpp:396-400`, `412`, `936`, `1013`), leaves a half-written file
  behind, and the retry is told that the file exists. `onExit()` from outside restarts without stopping the server, and
  the half of a WebSocket upload stays (`docs/webserver-endpoints.md:462`).
* A `.tmp.davbak` of a quote that could not be removed is put back as `.tmp` by the
  next write to that name (`recoverFile()`). A cut right then promotes it at the next
  boot: an older text, or a deleted quote, comes back. It takes a card failure before
  the cut; without one nothing is ever set aside when a call ends (`NoneLeftBehind`,
  section 5), and `CutKeepsTheShelf` speaks of cuts alone.
* `loop()` gives the RenderLock back before it calls `onEnter()`, so a left-over
  notification may paint a screen first, unlike the order in
  `docs/activity-manager.md`.
* `loadFromFile()` does not count a lone `.tmp` as a ledger, so a document that was
  staged and never reported as written may be lost to a failed read.
* The comment in `activateBook()` that a crash can only replay an identical
  snapshot is stronger than the code: when a reader replaces a reader, the
  archive is written before the deferred save of the ledger, and a cut in between
  leaves a book's record ahead of the days (never behind, which is `DaysAreInBooks`).
* `releaseRadioForBuild()` holds the RenderLock while it waits for a start, and the
  start may be waiting for that lock (`ppc = "settle"`, `wpc = "lock"`). Only the
  timeout of three seconds ends it; `TransitionIsServed` checks that it does.

## 4. Fairness

`ActivityManager`: weak fairness for every step the main task takes by itself;
what the user does is never forced. Strong fairness for the render task's lock:
the main task sleeps at the end of every pass with the lock free. The radio's
teardown ends. `Enter /\ Stay` is strongly fair: a screen does not answer every
entry by navigating away.

`PageTurnerRadio`: the start and the main task run on, and a task that asks for
the RenderLock again and again gets it (`SF` of `Start` and `Main`); a teardown
that is polled again and again is done at last; a paint runs on, and its waits
have the timeout of `RADIO_RELEASE_TIMEOUT_MS`.

`ReaderPosition`: both tasks run on (`MainStep`, `RenderStep`; each leaves the lock
free again and again and neither starves the other, because a pass of `loop()`
that has nothing to do keeps no lock). The 200 ms after a turn pass, and the
manager carries out an exit it was asked for, or drops it.

`FileTransfer`: the main task and the sampler run on. Nothing is assumed of the
clients, which may trickle bytes for ever. `FirmwareUpdate`: a device that was
reset boots, and a start that cannot succeed ends in a reset; nothing else is
forced.

`SnapshotFile`, `ReadingLedger` and `QuoteFiles` have no fairness: a save may fail
for ever, and their properties are about safety only.

## 5. Proofs

Every invariant and every action property of the passing runs, and each of the
four refinements, is a theorem.

`ActivityManagerProofs` proves, for every set of writes, number of slots, stack
depth and whether or not sleep may time out, that the safety properties of run
`screens` hold, including the refinement of `ScreenPile`. The two of run
`screens_live` about results are proved of every run in which no sleep times out
(`Spec /\ [][~SleepTimeOut]_vars`), which with `SleepMayTimeOut = FALSE` is every
run (`PromptRadioKeepsResults`).

The invariants are not inductive by themselves. That the main task never closes
a screen during a paint needs who holds the lock at each pair of program
counters (`LockInv`); that there is a screen to paint needs which requests can
be pending and where `goToSleep()` is (`RequestInv`, `SleepInv`, `FrontInv`);
that the pile moves as `ScreenPile` says needs that only menus are stacked
(`StackInv`); the wake-up needs where the waiter's slot and both notifications
are (`WaitInv`); the writes need the phase of the frame (`WritesInv`,
`PaintInv`). `IInv` is their conjunction with the type invariant and
`RadioOffWhileEntering`. Each part has a lemma per disturbance, one case per
action, relative to the other parts; `Inductive` combines them, and each
property follows from `IInv`. The refinement is proved action by action: every
step maps to a step of the pile or leaves it alone.

That a result handler meets the child it was registered with needs more: only
menus opened for a result cover an armed screen, at every height of the stack
(`MenuInv`, `HandlerInv`: whoever covers entry `i`, the entry above it or the
screen in front, was opened for a result if `i` has its handler set), and a
handler in front stays set only while its child is pending. `WayHomeInv` follows
the way home from the input that is saved to the end of the pop. `AwakeInv` joins
them; it is inductive relative to `IInv` for every step but `SleepTimeOut`, which
is the one that breaks it.

The refinement of `ScreenRadio` needs where the radio is surely off besides
`RadioOffWhileEntering` (`RestInv`): at boot, at a restart, at power-off, behind a
sleep screen that is in front, in USB Drive.

Assumptions: `Writes` is finite, `Slots` positive, `MaxDepth` a natural number.
They are evaluated in every run.

| Theorem | Property |
|---|---|
| `TypeCorrect`, `Inductive` | `TypeOK`, the inductive invariant |
| `SleepKeepsThePanel` | `SleepScreenKept` |
| `RequestsKeepTheirScreen` | `TransitionHasItsScreen` |
| `NoWriteIsLost`, `WritesFollowTheFrame` | `NothingDeferredAtPowerOff`, `WritesWaitForNextFrame` |
| `WakeUpIsOnItsWay`, `LockedChangeIsShown` | `NoLostWakeUp`, `WaitShowsLockedChange` |
| `RadioLeavesFirst` | `RadioOffWhileEntering` |
| `PaintIsUndisturbed` | `ScreensHoldStillDuringPaint` |
| `ImplementsPile`, `ImplementsInterface` | `ImplementsScreenPile`, `ImplementsScreenRadio` |
| `WayHomeIsFollowedOnce`, `HandlerMeetsItsChild`, `PromptRadioKeepsResults` | `HomeOnlyAfterItsInput`, `ResultReachesItsRequester`, as long as no sleep times out |

`SnapshotFileProofs` proves the properties of run `snapshot` for every number of
documents, from `FilesAssumption` (the two marks are no documents and differ)
and `WritesAssumption`. The inductive invariant adds what each card operation
finds (`Staged`: the staged document is in place before the main file leaves,
`keep` says what the main file is, the memo is never wrong, no save runs beside
a journal) and that something counts as a ledger once anything was saved
(`Held`), which is what keeps a failed load from opening an empty store.
`StepCommits` is the heart: every step leaves what a boot would read, or puts
the document being written in its place. The refinement and `WrittenIsKept` both
follow from it.

`ReadingLedgerProofs` proves the properties of run `ledger` for every set of
books and all bounds. RAM descends from the ledger and is at most ahead of it
(`Ahead`); no file has a later epoch, and one of this epoch holds only what was
read in it (`Stamped`); a reader records only in the active book (`Activating`);
the ledger of an unfinished full reset is empty, so that a late clean-up harms
nothing (`Emptied`). `ResetIsFinal` needs nothing else. `HistoryIsKept` assumes
`~BookReadsFail`, and needs that what was archived is what a fetch would give
(`Archived`).

`PageTurnerRadioProofs` proves every safety property of run `radio`, for every
limit of retries and refusals. The inductive invariant says where the attempt may
be while somebody else acts: while the main task is in a call it made with no
attempt of another task (`CallInv`), and while a paint holds the lock that the
attempt needs to go on (`PaintInv`); what the point of the attempt says of the
host and of a transfer (`AttemptInv`); and that the memo is what the restart left
(`MemoInv`). `HeapCheck` is the step to look at: a refusal asks for a restart only
while none is spent. The refinement of `ScreenRadio` adds that no transition is
pending where `main.cpp` calls `beginAsync()` and where the settings open
(`OpenInv`): each step of the three tasks starts the radio for the screen in front,
stops it in place, asks for a transition, changes the screen, or is a stutter.

`ReaderPositionProofs` proves `TurnsStayInReach` for every book, queue length,
number of retries, presses and faults. A page beyond the laid out ones waits for a
paint, and the pass that holds the lock applies no other turn before it
(`PassInv`); the paint knows what it found of the chapter when it loads a page
(`PaintInv`); the type invariant is split in parts (`PlaceOK`, `PassOK`, `PaintOK`,
`SavedOK`, `FlagsOK`, `LeavingOK`), one for each group of variables. It also proves
`RestIsShownAndSaved`, assuming that no save fails after it has removed the old
file (`~RenameMayFail`; without that the property is false, section 3). The argument
(`RestInv`): whatever moves the reader has asked for a paint, or is a queue that
will ask when it is done (`Due`), so a page that is not on the panel has a paint to
come or a dropped one to make good (`PanelRest`); only a page past the end of its
chapter differs from the place it stands for, and the paint to come lays it out
(`PageRest`); and what a paint showed is saved, owed or failed before the lock is
let go (`CardRest`, `SettledRest`). The same `RestInv` has been checked by TLC with
one press more than run `reader` has. Without the assumption it still proves
`RestIsNotMisplaced`: the page at rest is shown and settled, and the card names
that page or none, never another.

`TurnsAreKept` is the theorem about where the reader's turns lead: whatever a step
finds out, puts off, drops or merges, the page asked for (`Asked`: the reader's
place with the queued turns counted in) stays, but for the steps that
`TurnsMayBeLost` and its two companions name (section 3). The places of the book are
in one order: `Before` counts the pages of the chapters before, as a cardinality.
The lemmas show that the pages of two neighbouring chapters are counted one after
the other (`OnePageOn`), that an applied turn moves the place by one page or is
stopped with the rest of the queue (`TurnIsOnePage`). Two more invariants are
needed: presses are never both in a pass and in the queue it took them from
(`QueueInv`), and a paint that lays a chapter out short of the page it wants has
begun by taking that page for one beyond the chapter's known pages (`LayoutInv`).
Then each step either leaves the sum alone or moves one press from the queue to the
place. While this was
proved the exceptions turned out to be stated too narrowly: a chapter may be
released between the test for one and the first turn, which TLC's small book never
met; `TurnsMayBeLost` says so now.

`QuoteFilesProofs` proves the properties of run `quotes` for every number of names
and records: the older record stays until the staged one is whole, and a staged one
is whole from its last write on (`StagedIsWhole`); as long as only the power fails,
nothing that was set aside is left when a call ends, and the repair looks at every
staged name (`NoneLeftBehind`) and at each of them once (`DealtWithOnce`).

`FirmwareUpdateProofs` proves both safety properties of run `firmware` for every
bound on the numbers: two valid entries differ (`Distinct`), the running slot
stays whole and, until the new entry is confirmed, so does the one to fall back to
(`ImageInv`, `FallbackInv`), and the number to be written is within the bound
(`RoomInv`).

`FileTransferProofs` proves the safety properties of run `transfer` for every set of
names and sockets: that the sampler's copy of a socket is good as long as the
lock is held (`SocketInv`), what the stop handshake has established at each step
(`SessionInv`, `TapInv`), and who writes which name (`FilesInv`). What the removal
of a half leaves, done or failed, is a lemma of its own (`DiscardLeavesHalves`).

Assumptions: those on the constants in each module (limits are natural numbers,
marks such as `None` are no elements of the sets they stand outside of), which
every run evaluates.

| Theorem | Property |
|---|---|
| `SnapshotFileProofs!WrittenSurvives` | `WrittenIsKept` |
| `SnapshotFileProofs!ImplementsSnapshot` | `ImplementsAtomicSnapshot` |
| `ReadingLedgerProofs!ResetIsFinal`, `!HistoryIsKept` | `ResetForgets`, `DaysAreInBooks` |
| `PageTurnerRadioProofs!TheHeapIsOwned`, `!OneRestartAtMost` | `HeapHasOneUser`, `RestartsAreSafe` |
| `PageTurnerRadioProofs!HoldsAreLifted`, `!ImplementsInterface` | `HoldHasItsLifter`, `ImplementsScreenRadio` |
| `PageTurnerRadioProofs!TransitionsHaveTheHeap` | `TransitionHasTheHeap` (checked by no run: `ScreenRadio` has it for screens that differ) |
| `ReaderPositionProofs!TurnsKeepInReach`, `!TurnsAreKept` | `TurnsStayInReach`, `TurnsAddUp` |
| `ReaderPositionProofs!RestShowsAndSaves`, `!RestIsNotMisplaced` | `RestIsShownAndSaved` when no save fails half-way, and what is left of it otherwise |
| `QuoteFilesProofs!CutsKeepTheShelf`, `!NamesAreNotEmptied` | `CutKeepsTheShelf`, `NoNameEmptied` |
| `FirmwareUpdateProofs!DeviceStarts`, `!ReportIsTrue` | `ChosenIsWhole`, `StartsWhatWasReported` |
| `FileTransferProofs!SamplerHasItsSession`, `!NobodyElseIsCut`, `!PartsHaveOneWriter` | `SamplerStaysInItsSession`, `OnlyUploadsAreCut`, `PartsAreBeingWritten` |
| `TypeCorrect` or `TypesHold`, and the inductive invariant of each module | `TypeOK` |

Only model-checked are the six liveness properties, because fairness and ENABLED are
out of the prover's reach: `RequestsAreServed` and `TransitionCompletes` (run
`screens_live`), `TransitionIsServed` (`radio`), `TapEndsTheSession` (`transfer`),
`FaultyIsUndone` (`firmware`), `PlaceIsShown` (`reader`). The manager's side of
`ScreenRadio` is proved and has no run of its own; the radio's side has both.

## 6. Plan

Done: the screen manager, the radio, the reading statistics, the reader's page,
the quotes, file transfer and firmware updates, each with its runs and proofs.
What is left, the most important first:

1. Book caches (`BookMetadataCache.cpp`, `Section.cpp`): parts, checkpoints and
   renames of a section build, which `ReaderPosition` takes as pages laid out.
2. `StorageLock`: the recursive lock and the raw hand-off of USB Drive.
3. The liveness half of `ScreenRadio`: a radio that is asked to go goes, which the
   manager assumes (`WF` of `RadioStopped`) and `TransitionIsServed` checks.
4. The edge latches of the input, and `InstallFile` (`WebDavReplace.h`).

## 7. Not modelled

* In `ActivityManager`: the release that is swallowed after a transition,
  forced refreshes and screenshots (short critical sections under the
  RenderLock), `ble-start` as a third taker of that lock.
* In `PageTurnerRadio`: pairing, scanning, reports and the button table; the
  exact 250 ms, 5 s and 5 min intervals (they may fire whenever they may);
  nested claims of `filetransfer` (one claim stands for all).
* In `ReaderPosition`: footnotes, jumps to a percentage, an offset or a bookmark,
  the preview, menus and overlays (the end-of-book menu too), the automatic page
  turn, the repeats of a jump while its key is held (turbo), the text reference at
  which a book opens whose place is in its first spine entry
  (`EpubReaderActivity.cpp:380-387`), a change of font or orientation, a chapter jump from the page turner, chapters without a page or with several entries in
  the table of contents, the page count that is saved beside the page, and the
  TXT and XTC readers.
* In `SnapshotFile`: a rename or a removal is one step of the card, done or not
  done (the file system's own recovery is not in the repository); the SDK's
  staging file.
* In `ReadingLedger`: the habit rules, the retention of the day list (totals are
  never dropped), hash collisions of book paths, `.tmp` files of books, torn
  book files, schemas of a later firmware.
* In `QuoteFiles`: the mark of the quote kept last (it chooses what Home shows),
  reading and listing, names of other books and minutes (each has its own slots).
* In `FileTransfer`: the choice of a network and its connection, listing and
  settings pages, folders, the idle timeout's minutes; in WebDAV the recovery of a
  replacement that the power cut.
* In `FirmwareUpdate`: the check for a release, the formats that are validated
  (a refused file is one of the failures), a confirmation that the SDK refuses
  (`main.cpp:826` only logs it), a card that is changed during the flash.
* Parsers, layout, rendering, fonts, translations: sequential data
  transformations, checked better by the repository's own tests. They are most of
  the repository's lines: hyphenation tries, built-in fonts and the vendored XML
  parser alone are more than the rest together, and no state of theirs outlives
  a call.
* Network clients and drivers: I/O around small rules.

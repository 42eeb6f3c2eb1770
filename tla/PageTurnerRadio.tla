-------------------------- MODULE PageTurnerRadio --------------------------
(***************************************************************************)
(* The Bluetooth page turner's radio: who starts it, who stops it, and who *)
(* gets the memory.  Three tasks meet here:                                *)
(*   main    loop() of main.cpp, one step per block of a pass (mpc)        *)
(*   start   the short-lived task of beginAsync(), or main itself inside   *)
(*           begin(): one attempt to start the host (wpc)                  *)
(*   paint   the render task, which holds the RenderLock from "paint" to   *)
(*           "idle" and may stop the radio for a section build that ran    *)
(*           out of heap (releaseRadioForBuild, ppc)                       *)
(* The SDK's host is external: begin() and end() take their time, begin()  *)
(* may fail, and end() may leave the teardown pending.                     *)
(*                                                                         *)
(* A definition marked "Slip" is the one after it as a plausible bug would *)
(* have it; it makes one of the properties at the end fail.                *)
(***************************************************************************)
EXTENDS Naturals

CONSTANTS
    RetryLimit,      \* BLE_READER_RETRY_LIMIT
    RefusalLimit     \* kRefusalsBeforeRestart

ASSUME RetryAssumption == RetryLimit \in Nat
ASSUME RefusalAssumption == RefusalLimit \in Nat \ {0}

VARIABLES
    host,            \* "beginning" inside begin(), "up" isRunning(), "stopping"
    powerLock,       \* radioPowerLock is engaged
    inFlight,        \* attemptInFlight
    cancelled,       \* attemptCancelled
    wpc, starter, result,   \* the attempt: its point, its task, its outcome
    idleStopped,     \* radioWasIdleStopped
    deferred,        \* readerStartWasDeferred
    rearm,           \* rearmRequested
    held,            \* heldForBuild
    row, wanted,     \* Tracker: fragmentedInRow, wanted
    spent,           \* Memo in RTC memory: the heap restart is spent
    attempted, retryAt, retries,   \* main.cpp's statics; retryAt # 0
    newVisit,        \* activityGeneration() moved since the last pass
    enabled,         \* SETTINGS.blePageTurnerEnabled
    screen,          \* the screen in front
    leaving,         \* pendingAction # None
    owners,          \* filetransfer::ownerCount()
    pageReady,       \* isPageReady()
    released,        \* radioReleasedForBuild of the open reader
    mpc, mret, ok,   \* main: its point, where a call returns to, what it returned
    ppc,             \* the render task
    refused,         \* history: this visit's last attempt was refused for memory
    intent,          \* history: someone asked for the radio since it was stopped
    restarts         \* history: heap restarts since the radio last came up

radio == <<host, powerLock>>
attempt == <<inFlight, cancelled, wpc, starter, result>>
flags == <<idleStopped, deferred, rearm, held>>
heap == <<row, wanted, spent>>
visit == <<attempted, retryAt, retries, newVisit>>
world == <<enabled, screen, leaving, owners, pageReady, released>>
main == <<mpc, mret, ok>>
history == <<refused, intent, restarts>>
vars == <<radio, attempt, flags, heap, visit, world, main, ppc, history>>

Passes == {"poll", "storage", "visit", "gate", "start", "begin", "begun", "idle",
           "restart", "close", "screen", "leave", "switch", "opening", "opened"}
Calls == {"end", "drop", "starting"}

TypeOK ==
    /\ host \in {"off", "beginning", "up", "stopping"} /\ powerLock \in BOOLEAN
    /\ inFlight \in BOOLEAN /\ cancelled \in BOOLEAN /\ result \in BOOLEAN
    /\ wpc \in {"none", "check", "lock", "heap", "begin", "in", "after", "finish"}
    /\ starter \in {"worker", "main"}
    /\ idleStopped \in BOOLEAN /\ deferred \in BOOLEAN /\ rearm \in BOOLEAN /\ held \in BOOLEAN
    /\ wanted \in BOOLEAN /\ spent \in BOOLEAN
    /\ row \in 0..RefusalLimit /\ retries \in 0..RetryLimit
    /\ attempted \in BOOLEAN /\ retryAt \in BOOLEAN /\ newVisit \in BOOLEAN /\ enabled \in BOOLEAN
    /\ leaving \in BOOLEAN /\ pageReady \in BOOLEAN /\ released \in BOOLEAN
    /\ screen \in {"reader", "settings", "transfer"} /\ owners \in 0..1
    /\ mpc \in Passes \cup Calls /\ mret \in Passes /\ ok \in BOOLEAN
    /\ ppc \in {"idle", "paint", "settle", "stop", "end", "drop", "build", "notice"}
    /\ refused \in BOOLEAN /\ intent \in BOOLEAN /\ restarts \in 0..2

\* Power-on, from nothing.
Init ==
    /\ host = "off" /\ powerLock = FALSE
    /\ inFlight = FALSE /\ cancelled = FALSE /\ wpc = "none" /\ starter = "main"
    /\ result = FALSE
    /\ idleStopped = FALSE /\ deferred = FALSE /\ rearm = FALSE /\ held = FALSE
    /\ row = 0 /\ wanted = FALSE
    /\ attempted = FALSE /\ retryAt = FALSE /\ retries = 0 /\ newVisit = TRUE
    /\ leaving = FALSE /\ owners = 0 /\ pageReady = FALSE /\ released = FALSE
    /\ mpc = "poll" /\ mret = "poll" /\ ok = FALSE /\ ppc = "idle"
    /\ refused = FALSE /\ intent = TRUE
    /\ spent = FALSE /\ restarts = 0 /\ enabled \in BOOLEAN /\ screen = "reader"

-----------------------------------------------------------------------------
(* Helpers.                                                                *)

LockFree == ppc = "idle"
Foreground == screen = "reader" /\ ~leaving
Ready == Foreground /\ pageReady

\* A block of the pass that does nothing more.
Go(next) == mpc' = next /\ UNCHANGED <<mret, ok>>

\* A call comes back; only these three callers look at what it returned.
Return(next, value) ==
    /\ mpc' = next /\ mret' = "poll"
    /\ ok' = (value /\ next \in {"switch", "begun", "opened"})

\* isRunning() || isStopping()
HostUp == host \in {"up", "stopping"}

\* Slip: an attempt that is cancelled counts as gone.
SuspendClaimsDone(next) ==
    /\ cancelled' = TRUE
    /\ \/ inFlight /\ Return(next, TRUE) /\ UNCHANGED powerLock
       \/ ~inFlight /\ HostUp /\ powerLock' = TRUE
          /\ mpc' = "end" /\ mret' = next /\ UNCHANGED ok
       \/ ~inFlight /\ ~HostUp
          /\ mpc' = "drop" /\ mret' = next /\ UNCHANGED <<ok, powerLock>>

\* suspendForTransition(): the attempt in flight is cancelled and owns the host
\* until it is over; otherwise the host, if it is up, is ended ("end") and the
\* power lock released ("drop").
Suspend(next) ==
    /\ cancelled' = TRUE
    /\ \/ inFlight /\ Return(next, FALSE) /\ UNCHANGED powerLock
       \/ ~inFlight /\ HostUp /\ powerLock' = TRUE
          /\ mpc' = "end" /\ mret' = next /\ UNCHANGED ok
       \/ ~inFlight /\ ~HostUp
          /\ mpc' = "drop" /\ mret' = next /\ UNCHANGED <<ok, powerLock>>

\* Tracker::refused(): counts the refusals in pieces, and asks for the restart
\* that has not been spent.
Refused(h) ==
    LET n == IF h = "short" THEN 0 ELSE IF row < RefusalLimit THEN row + 1 ELSE row
    IN  /\ row' = n /\ UNCHANGED spent
        /\ wanted' = IF h = "short" THEN FALSE
                     ELSE wanted \/ (~spent /\ n >= RefusalLimit)

\* Tracker::passed() and radioUp().
Passed == row' = 0 /\ wanted' = FALSE /\ UNCHANGED spent
RadioUp == row' = 0 /\ wanted' = FALSE /\ spent' = FALSE

\* markHeapRestart()
Restarting == spent' = TRUE /\ wanted' = FALSE /\ UNCHANGED row

\* The hold of a starved build ends with the visit.
VisitOver == ~Foreground \/ ~enabled \/ newVisit

\* A key release or a touch, or the reader's own request: the request is taken
\* only when the input alone did not do.
Rearms(input) == Foreground /\ enabled /\ idleStopped
                 /\ ((input /\ ~(held /\ ~newVisit)) \/ rearm)

-----------------------------------------------------------------------------
(* The attempt: beginOwned() and finishAttempt().                          *)

\* Cancelled or stopping: no start.  Already running: done.  A transfer keeps
\* the radio off.
StartCheck ==
    /\ wpc = "check"
    /\ \/ /\ cancelled \/ host # "off" \/ owners > 0
          /\ result' = (~cancelled /\ host = "up") /\ wpc' = "finish"
       \/ /\ ~cancelled /\ host = "off" /\ owners = 0
          /\ wpc' = "lock" /\ UNCHANGED result
    /\ UNCHANGED <<radio, flags, heap, visit, world, main, ppc, history, inFlight,
                   cancelled, starter>>

\* Slip: the caches are released without the lock.
ReleaseCachesUnlocked ==
    /\ wpc = "lock" /\ wpc' = "heap"
    /\ UNCHANGED <<radio, flags, heap, visit, world, main, ppc, history, inFlight,
                   cancelled, starter, result>>

\* The font caches are released under the RenderLock.
ReleaseCaches ==
    /\ wpc = "lock" /\ LockFree /\ wpc' = "heap"
    /\ UNCHANGED <<radio, flags, heap, visit, world, main, ppc, history, inFlight,
                   cancelled, starter, result>>

\* The heap: enough, enough in pieces only, or too short.
HeapCheck ==
    /\ wpc = "heap"
    /\ \/ /\ \E h \in {"pieces", "short"} : Refused(h)
          /\ result' = FALSE /\ wpc' = "finish" /\ refused' = TRUE
       \/ /\ Passed
          /\ wpc' = "begin" /\ UNCHANGED <<result, refused>>
    /\ UNCHANGED <<radio, flags, visit, world, main, ppc, inFlight, cancelled,
                   starter, intent, restarts>>

HostBegin ==
    /\ wpc = "begin"
    /\ IF cancelled \/ owners > 0
       THEN result' = FALSE /\ wpc' = "finish" /\ UNCHANGED host
       ELSE host' = "beginning" /\ wpc' = "in" /\ UNCHANGED result
    /\ UNCHANGED <<flags, heap, visit, world, main, ppc, history, powerLock,
                   inFlight, cancelled, starter>>

\* External: begin() returns.
HostBegun ==
    /\ wpc = "in" /\ host = "beginning"
    /\ \/ host' = "off" /\ result' = FALSE /\ wpc' = "finish"
       \/ host' = "up" /\ wpc' = "after" /\ UNCHANGED result
    /\ UNCHANGED <<flags, heap, visit, world, main, ppc, history, powerLock,
                   inFlight, cancelled, starter>>

\* Cancelled meanwhile, or too little heap left: rolled back by end(0).
RollBack ==
    /\ wpc = "after" /\ host' \in {"off", "stopping"}
    /\ result' = FALSE /\ wpc' = "finish"
    /\ UNCHANGED <<flags, heap, visit, world, main, ppc, history, powerLock,
                   inFlight, cancelled, starter>>

Keep ==
    /\ wpc = "after" /\ ~cancelled /\ owners = 0
    /\ RadioUp /\ restarts' = 0 /\ result' = TRUE /\ wpc' = "finish"
    /\ UNCHANGED <<radio, flags, visit, world, main, ppc, inFlight, cancelled,
                   starter, refused, intent>>

\* Slip: a cancelled attempt is not reported as over.
FinishAttemptCancelled ==
    /\ wpc = "finish" /\ wpc' = "none" /\ inFlight' = cancelled
    /\ powerLock' = (powerLock /\ HostUp)
    /\ IF starter = "worker"
       THEN deferred' = (~result /\ ~cancelled) /\ UNCHANGED main
       ELSE Return(mret, result) /\ UNCHANGED deferred
    /\ starter' = "main" /\ result' = FALSE
    /\ UNCHANGED <<heap, visit, world, ppc, history, host, cancelled, idleStopped,
                   rearm, held>>

\* finishAttempt(): only the worker reports to the reader, and the power lock
\* stays with a host that is up.
FinishAttempt ==
    /\ wpc = "finish" /\ wpc' = "none" /\ inFlight' = FALSE
    /\ powerLock' = (powerLock /\ HostUp)
    /\ IF starter = "worker"
       THEN deferred' = (~result /\ ~cancelled) /\ UNCHANGED main
       ELSE Return(mret, result) /\ UNCHANGED deferred
    /\ starter' = "main" /\ result' = FALSE
    /\ UNCHANGED <<heap, visit, world, ppc, history, host, cancelled, idleStopped,
                   rearm, held>>

Start == StartCheck \/ ReleaseCaches \/ HeapCheck \/ HostBegin \/ HostBegun
         \/ RollBack \/ Keep \/ FinishAttempt

-----------------------------------------------------------------------------
(* The main task's pass.                                                   *)

\* A pending teardown is polled every 250 ms.
Poll ==
    /\ mpc = "poll"
    /\ \/ host = "stopping" /\ Suspend("storage")
       \/ Go("storage") /\ UNCHANGED <<cancelled, powerLock>>
    /\ UNCHANGED <<flags, heap, visit, world, ppc, history, host, inFlight, wpc,
                   starter, result>>

\* A transfer or USB Drive has the memory; the pass of USB Drive does no more.
Storage ==
    /\ mpc = "storage"
    /\ IF owners > 0 THEN \E next \in {"visit", "screen"} : Suspend(next)
                     ELSE Go("visit") /\ UNCHANGED <<cancelled, powerLock>>
    /\ UNCHANGED <<flags, heap, visit, world, ppc, history, host, inFlight, wpc,
                   starter, result>>

\* end() returns, in time or not.
MainEnd ==
    /\ mpc = "end"
    /\ \/ host' = "off" /\ mpc' = "drop" /\ UNCHANGED <<mret, ok>>
       \/ host # "off" /\ host' = "stopping" /\ Return(mret, FALSE)
    /\ UNCHANGED <<attempt, flags, heap, visit, world, ppc, history, powerLock>>

MainDrop ==
    /\ mpc = "drop" /\ powerLock' = FALSE /\ Return(mret, TRUE)
    /\ UNCHANGED <<attempt, flags, heap, visit, world, ppc, history, host>>

\* Slip: the hold is not lifted with the visit.
VisitKeepsHold ==
    /\ mpc = "visit" /\ Go("gate") /\ newVisit' = FALSE
    /\ held' = held
    /\ \E input \in BOOLEAN :
          /\ attempted' = (attempted /\ ~VisitOver /\ ~Rearms(input))
          /\ idleStopped' = (idleStopped /\ ~Rearms(input))
          /\ rearm' = (rearm /\ ~(Rearms(input) /\ ~(input /\ ~held')))
          /\ intent' = (intent \/ input)
    /\ IF VisitOver
       THEN retryAt' = FALSE /\ retries' = 0 /\ refused' = FALSE
       ELSE UNCHANGED <<retryAt, retries, refused>>
    /\ UNCHANGED <<radio, attempt, heap, world, ppc, deferred, restarts>>

\* The statics of a new visit, and the one fresh attempt after an idle stop.
Visit ==
    /\ mpc = "visit" /\ Go("gate") /\ newVisit' = FALSE
    /\ held' = (held /\ ~newVisit)
    /\ \E input \in BOOLEAN :
          /\ attempted' = (attempted /\ ~VisitOver /\ ~Rearms(input))
          /\ idleStopped' = (idleStopped /\ ~Rearms(input))
          /\ rearm' = (rearm /\ ~(Rearms(input) /\ ~(input /\ ~held')))
          /\ intent' = (intent \/ input)
    /\ IF VisitOver
       THEN retryAt' = FALSE /\ retries' = 0 /\ refused' = FALSE
       ELSE UNCHANGED <<retryAt, retries, refused>>
    /\ UNCHANGED <<radio, attempt, heap, world, ppc, deferred, restarts>>

\* Slip: one retry too many.
GateOnceMore ==
    /\ mpc = "gate"
    /\ \/ /\ owners > 0 \/ ~enabled
          /\ Suspend("restart") /\ UNCHANGED visit
       \/ /\ owners = 0 /\ enabled /\ Go("start")
          /\ IF Foreground /\ attempted /\ deferred /\ host # "up" /\ ~inFlight
                /\ ~idleStopped /\ retries <= RetryLimit
             THEN \/ ~retryAt /\ retryAt' = TRUE /\ UNCHANGED <<attempted, retries>>
                  \/ retryAt /\ UNCHANGED <<attempted, retryAt, retries>>
                  \/ retryAt /\ retryAt' = FALSE /\ retries' = retries + 1
                     /\ attempted' = FALSE
             ELSE /\ retryAt' = FALSE /\ UNCHANGED attempted
                  /\ retries' = IF host = "up" THEN 0 ELSE retries
          /\ UNCHANGED <<cancelled, powerLock, newVisit>>
    /\ UNCHANGED <<flags, heap, world, ppc, history, host, inFlight, wpc, starter,
                   result>>

\* A disabled radio, or one whose memory is taken, is stopped.  Otherwise a
\* start that was refused is allowed again five seconds later, RetryLimit times.
Gate ==
    /\ mpc = "gate"
    /\ \/ /\ owners > 0 \/ ~enabled
          /\ Suspend("restart") /\ UNCHANGED visit
       \/ /\ owners = 0 /\ enabled /\ Go("start")
          /\ IF Foreground /\ attempted /\ deferred /\ host # "up" /\ ~inFlight
                /\ ~idleStopped /\ retries < RetryLimit
             THEN \/ ~retryAt /\ retryAt' = TRUE /\ UNCHANGED <<attempted, retries>>
                  \/ retryAt /\ UNCHANGED <<attempted, retryAt, retries>>
                  \/ retryAt /\ retryAt' = FALSE /\ retries' = retries + 1
                     /\ attempted' = FALSE
             ELSE /\ retryAt' = FALSE /\ UNCHANGED attempted
                  /\ retries' = IF host = "up" THEN 0 ELSE retries
          /\ UNCHANGED <<cancelled, powerLock, newVisit>>
    /\ UNCHANGED <<flags, heap, world, ppc, history, host, inFlight, wpc, starter,
                   result>>

\* A ready reader that holds no build against the radio gets its attempt.
StartDue ==
    /\ mpc = "start"
    /\ \/ /\ Ready /\ ~attempted /\ ~idleStopped /\ host # "stopping"
          /\ attempted' = TRUE /\ Go(IF host = "up" THEN "idle" ELSE "begin")
       \/ Go("idle") /\ UNCHANGED attempted
    /\ UNCHANGED <<radio, attempt, flags, heap, world, ppc, history, retryAt,
                   retries, newVisit>>

\* beginAsync() up to xTaskCreate(): the worker may run before it returns.
BeginAsync ==
    /\ mpc = "begin"
    /\ idleStopped' = FALSE
    /\ \/ /\ inFlight \/ HostUp
          /\ Return("begun", ~inFlight /\ host = "up") /\ deferred' = FALSE
          /\ UNCHANGED <<attempt, powerLock>>
       \/ /\ ~inFlight /\ ~HostUp
          /\ cancelled' = FALSE /\ UNCHANGED result
          /\ \E created \in BOOLEAN :
                /\ Return("begun", created) /\ deferred' = ~created
                /\ inFlight' = created /\ powerLock' = created
                /\ wpc' = IF created THEN "check" ELSE "none"
                /\ starter' = IF created THEN "worker" ELSE "main"
    /\ refused' = FALSE
    /\ UNCHANGED <<heap, visit, world, ppc, host, rearm, held, intent, restarts>>

\* main.cpp's setReaderStartDeferred(!started)
BeginReturned ==
    /\ mpc = "begun" /\ Return("idle", ok) /\ deferred' = ~ok
    /\ UNCHANGED <<radio, attempt, heap, visit, world, ppc, history, idleStopped,
                   rearm, held>>

\* stopForIdle() after five minutes with nothing connected.
IdleStop ==
    /\ mpc = "idle" /\ ~inFlight /\ host = "up" /\ enabled /\ owners = 0
    /\ idleStopped' = TRUE /\ deferred' = FALSE /\ intent' = FALSE
    /\ Suspend("restart")
    /\ UNCHANGED <<heap, visit, world, ppc, host, inFlight, wpc, starter, result,
                   rearm, held, refused, restarts>>

\* A running radio was not refused.
NoIdleStop ==
    /\ mpc = "idle" /\ Go("restart")
    /\ deferred' = (deferred /\ ~(Foreground /\ ~inFlight /\ host = "up"))
    /\ UNCHANGED <<radio, attempt, heap, visit, world, ppc, history, idleStopped,
                   rearm, held>>

\* Slip: a start in flight does not keep the restart back.
HeapRestartBusy ==
    /\ mpc = "restart" /\ wanted /\ enabled /\ attempted /\ Ready /\ owners = 0
    /\ Restarting /\ restarts' = restarts + 1 /\ Go("close")
    /\ UNCHANGED <<radio, attempt, flags, visit, world, ppc, refused, intent>>

\* A heap in pieces: restart into the book, from a shown page, nothing busy.
HeapRestart ==
    /\ mpc = "restart" /\ wanted /\ enabled /\ attempted /\ Ready /\ owners = 0
    /\ ~inFlight /\ ~HostUp
    /\ Restarting /\ restarts' = restarts + 1 /\ Go("close")
    /\ UNCHANGED <<radio, attempt, flags, visit, world, ppc, refused, intent>>

NoRestart ==
    /\ mpc = "restart" /\ Go("screen")
    /\ ~(wanted /\ enabled /\ attempted /\ Ready /\ owners = 0 /\ ~inFlight /\ ~HostUp)
    /\ UNCHANGED <<radio, attempt, flags, heap, visit, world, ppc, history>>

\* What a restart leaves: the saved setting, and the memo in RTC memory.
Restarted ==
    /\ host' = "off" /\ powerLock' = FALSE
    /\ inFlight' = FALSE /\ cancelled' = FALSE /\ wpc' = "none" /\ starter' = "main"
    /\ result' = FALSE
    /\ idleStopped' = FALSE /\ deferred' = FALSE /\ rearm' = FALSE /\ held' = FALSE
    /\ row' = 0 /\ wanted' = FALSE
    /\ attempted' = FALSE /\ retryAt' = FALSE /\ retries' = 0 /\ newVisit' = TRUE
    /\ leaving' = FALSE /\ owners' = 0 /\ pageReady' = FALSE /\ released' = FALSE
    /\ mpc' = "poll" /\ mret' = "poll" /\ ok' = FALSE /\ ppc' = "idle"
    /\ refused' = FALSE /\ intent' = TRUE
    /\ screen' = "reader" /\ UNCHANGED <<spent, enabled, restarts>>

\* The restart waits out a paint.  A board that keeps its rails does not
\* restart: it opens the book again.
CloseAndRestart ==
    /\ mpc = "close" /\ LockFree
    /\ \/ Restarted
       \/ /\ leaving' = TRUE /\ Go("screen")
          /\ UNCHANGED <<radio, attempt, flags, heap, visit, ppc, history, enabled,
                         screen, owners, pageReady, released>>

-----------------------------------------------------------------------------
(* The screen's own loop, and the transition after it.                     *)

\* begin() on main: one attempt, unless one is in flight.
BeginSync(next) ==
    /\ idleStopped' = FALSE /\ deferred' = FALSE
    /\ IF inFlight
       THEN Return(next, FALSE) /\ UNCHANGED <<attempt, powerLock, refused>>
       ELSE /\ inFlight' = TRUE /\ cancelled' = FALSE /\ powerLock' = TRUE
            /\ wpc' = "check" /\ starter' = "main" /\ mpc' = "starting"
            /\ mret' = next /\ refused' = FALSE /\ UNCHANGED <<result, ok>>

\* The reader asks for the radio it released once the paint is over.
ReaderRearm ==
    /\ mpc = "screen" /\ screen = "reader" /\ released /\ LockFree
    /\ released' = FALSE /\ held' = FALSE /\ rearm' = TRUE /\ intent' = TRUE
    /\ Go("leave") /\ leaving' \in {leaving, TRUE}
    /\ UNCHANGED <<radio, attempt, heap, visit, ppc, idleStopped, deferred, enabled,
                   screen, owners, pageReady, refused, restarts>>

\* The screen's loop has nothing for the radio, or the user leaves.
ScreenLoop ==
    /\ mpc = "screen" /\ ~(screen = "reader" /\ released /\ LockFree)
    /\ Go("leave") /\ leaving' \in {leaving, TRUE}
    /\ UNCHANGED <<radio, attempt, flags, heap, visit, ppc, history, enabled, screen,
                   owners, pageReady, released>>

\* BlePageTurnerActivity: the switch, and the rows that want the host up.
ToggleOff ==
    /\ mpc = "screen" /\ screen = "settings" /\ ~leaving /\ enabled
    /\ enabled' = FALSE /\ idleStopped' = FALSE /\ deferred' = FALSE
    /\ Suspend("leave")
    /\ UNCHANGED <<heap, visit, ppc, history, host, inFlight, wpc, starter, result,
                   rearm, held, screen, leaving, owners, pageReady, released>>

UserBegins ==
    /\ mpc = "screen" /\ screen = "settings" /\ ~leaving
    /\ enabled' = TRUE /\ BeginSync("leave") /\ intent' = TRUE
    /\ UNCHANGED <<heap, visit, ppc, host, rearm, held, screen, leaving, owners,
                   pageReady, released, restarts>>

\* A pending action first takes the radio down, in this pass or a later one.
Leave ==
    /\ mpc = "leave"
    /\ IF leaving THEN Suspend("switch")
                  ELSE Go("poll") /\ UNCHANGED <<cancelled, powerLock>>
    /\ UNCHANGED <<flags, heap, visit, world, ppc, history, host, inFlight, wpc,
                   starter, result>>

SwitchNotYet ==
    /\ mpc = "switch" /\ ~ok /\ Go("poll")
    /\ UNCHANGED <<radio, attempt, flags, heap, visit, world, ppc, history>>

\* The old screen gives its claim back, the next one makes its own.  A reader
\* that was covered still has its latch, a new one has not.
Switch ==
    /\ mpc = "switch" /\ ok /\ LockFree
    /\ newVisit' = TRUE /\ leaving' = FALSE /\ pageReady' = FALSE
    /\ released' \in {released, FALSE}
    /\ screen' \in {"reader", "settings", "transfer"}
    /\ owners' = IF screen' = "transfer" THEN 1 ELSE 0
    /\ IF screen' = "transfer"
       THEN Suspend("poll")
       ELSE /\ Return(IF screen' = "settings" THEN "opening" ELSE "poll", ok)
            /\ UNCHANGED <<cancelled, powerLock>>
    /\ UNCHANGED <<flags, heap, ppc, history, host, inFlight, wpc, starter, result,
                   attempted, retryAt, retries, enabled>>

\* The settings start a saved opt-in, and switch it off when that fails.
SettingsOpen ==
    /\ mpc = "opening"
    /\ IF enabled /\ host = "off" /\ ~idleStopped
       THEN BeginSync("opened")
       ELSE Go("poll") /\ UNCHANGED <<attempt, powerLock, idleStopped, deferred,
                                      refused>>
    /\ UNCHANGED <<heap, visit, world, ppc, host, rearm, held, intent, restarts>>

SettingsOpened ==
    /\ mpc = "opened" /\ Return("poll", ok) /\ enabled' = ok
    /\ UNCHANGED <<radio, attempt, flags, heap, visit, ppc, history, screen, leaving,
                   owners, pageReady, released>>

Main == Poll \/ Storage \/ MainEnd \/ MainDrop \/ Visit \/ Gate \/ StartDue
        \/ BeginAsync \/ BeginReturned \/ IdleStop \/ NoIdleStop \/ HeapRestart
        \/ NoRestart \/ CloseAndRestart \/ ReaderRearm \/ ScreenLoop \/ ToggleOff
        \/ UserBegins \/ Leave \/ SwitchNotYet \/ Switch \/ SettingsOpen
        \/ SettingsOpened

-----------------------------------------------------------------------------
(* The render task.  From PaintStart to PaintDone it holds the RenderLock. *)

PaintStart ==
    /\ ppc = "idle" /\ ppc' = "paint"
    /\ UNCHANGED <<radio, attempt, flags, heap, visit, world, main, history>>

PaintStarved ==
    /\ ppc = "paint" /\ screen = "reader"
    /\ ~released /\ enabled /\ ~idleStopped /\ ppc' = "settle"
    /\ UNCHANGED <<radio, attempt, flags, heap, visit, world, main, history>>

\* Three seconds for a start to be over: then the radio is stopped.
Settled ==
    /\ ppc = "settle" /\ ~inFlight /\ ppc' = "stop"
    /\ released' = TRUE /\ held' = TRUE
    /\ UNCHANGED <<radio, attempt, heap, visit, main, history, idleStopped, deferred,
                   rearm, enabled, screen, leaving, owners, pageReady>>

\* stopForIdle() on the render task, again every 20 ms until three seconds are
\* over: then the memory notice is painted.
PaintStop ==
    /\ ppc = "stop" /\ idleStopped' = TRUE /\ deferred' = FALSE /\ cancelled' = TRUE
    /\ \/ inFlight /\ ppc' \in {"stop", "notice"} /\ UNCHANGED powerLock
       \/ ~inFlight /\ HostUp /\ powerLock' = TRUE /\ ppc' = "end"
       \/ ~inFlight /\ ~HostUp /\ ppc' = "drop" /\ UNCHANGED powerLock
    /\ UNCHANGED <<heap, visit, world, main, history, host, inFlight, wpc, starter,
                   result, rearm, held>>

PaintEnd ==
    /\ ppc = "end"
    /\ \/ host' = "off" /\ ppc' = "drop"
       \/ host # "off" /\ host' = "stopping" /\ ppc' \in {"stop", "notice"}
    /\ UNCHANGED <<attempt, flags, heap, visit, world, main, history, powerLock>>

PaintDrop ==
    /\ ppc = "drop" /\ powerLock' = FALSE /\ ppc' = "build"
    /\ UNCHANGED <<attempt, flags, heap, visit, world, main, history, host>>

\* The start is not over in three seconds: the radio is left alone, and the
\* paint shows the memory notice.
PaintGivesUp ==
    /\ ppc = "settle" /\ inFlight /\ ppc' = "notice"
    /\ UNCHANGED <<radio, attempt, flags, heap, visit, world, main, history>>

PaintDone ==
    /\ ppc \in {"paint", "build", "notice"} /\ ppc' = "idle"
    /\ pageReady' \in {pageReady, screen = "reader"}
    /\ UNCHANGED <<radio, attempt, flags, heap, visit, main, history, enabled, screen,
                   leaving, owners, released>>

Paint == PaintStart \/ PaintStarved \/ Settled \/ PaintStop \/ PaintEnd \/ PaintDrop
         \/ PaintGivesUp \/ PaintDone

Next == Start \/ Main \/ Paint

Spec == Init /\ [][Next]_vars

\* Each task runs on and gets the mutex it asks for again and again; a teardown
\* tried again and again is done at last; a paint's waits have their timeouts.
Fairness ==
    /\ SF_vars(Start) /\ SF_vars(Main)
    /\ SF_vars(MainEnd /\ host' = "off")
    /\ WF_vars(Paint /\ ppc # "idle")
    /\ SF_vars((PaintStop \/ PaintEnd) /\ ppc' \in {"notice", "drop"})

FairSpec == Spec /\ Fairness

-----------------------------------------------------------------------------
(* Properties.                                                             *)

\* Who takes the memory has it for itself.  "Never call SDK end concurrently
\* with NimBLE init": while begin() runs, neither the main task nor a paint is
\* inside end() (suspendForTransition).  A build that goes on after the radio was
\* stopped for it is disturbed by no start before the paint is over.  From
\* acquire() to release() of a transfer the radio stays off.
HeapHasOneUser ==
    /\ host = "beginning" => mpc # "end" /\ ppc # "end"
    /\ ppc = "build" => host = "off" /\ wpc \notin {"heap", "begin", "in", "after"}
    /\ owners > 0 => host = "off"

\* A heap in pieces costs at most one restart until the radio is up again, for
\* the memo outlives the restart (Tracker, Memo); and the book is closed for it
\* only while no start runs and no transfer has begun: never on a stale request.
RestartsAreSafe ==
    /\ restarts <= 1
    /\ mpc = "close" => host = "off" /\ ~inFlight /\ owners = 0

\* The next screen is made only when the radio is down and no start is left
\* that could bring it up (ActivityManager::loop).
TransitionHasTheHeap == [][screen' # screen \/ (newVisit' /\ ~newVisit)
                             => host = "off" /\ ~inFlight]_vars

\* "Keeping the lock through the running state also closes gaps between
\* polls": the CPU stays at full speed while the host is up, starting or
\* stopping (radioPowerLock).  The code does not keep it: README, section 3.
PowerWhileRadioRuns == host # "off" => powerLock

\* A start refused for memory is marked for a retry as long as the visit that
\* made it lasts (setReaderStartDeferred).  The code does not keep it: README,
\* section 3.
RefusalIsRetried ==
    refused /\ mpc = "gate" /\ enabled /\ attempted /\ ~idleStopped /\ ~inFlight
    /\ Foreground => deferred

\* After an idle stop the host is started again only for an input or a request
\* made since.  The code does not keep it: README, section 3.
IdleOffNeedsInput == host = "beginning" => intent

\* The hold of a starved build has someone who lifts it: the reader that asks
\* for its radio back, or the next visit.  A hold nobody lifts would keep the
\* keys from waking the radio for good.
HoldHasItsLifter == held => newVisit \/ (released /\ screen = "reader")

\* A screen that is left is left in the end, whatever the radio was doing.
TransitionIsServed == leaving ~> ~leaving

-----------------------------------------------------------------------------
(* The abstract specification this one implements.                         *)

Interface == INSTANCE ScreenRadio WITH
                 Users <- {"reader", "settings"}, MayGiveUp <- FALSE, front <- screen,
                 on <- (host # "off" \/ inFlight)

\* Whatever the three tasks do, the screen manager sees a radio that is started
\* for a reader or for its settings and never while a transition is pending, and
\* a screen gives way to another only while the host is down and no attempt is
\* left that could bring it up (ActivityManager::loop, suspendForTransition).
ImplementsScreenRadio == Interface!Spec
=============================================================================

-------------------------- MODULE ActivityManager --------------------------
(***************************************************************************)
(* The screen manager of the firmware: one main task that runs the screens *)
(* ("activities"), one render task that paints them, one non-recursive     *)
(* mutex between the two, and one waiter slot.                             *)
(*                                                                         *)
(* The main task runs ActivityManager::loop() from main.cpp's loop(), and  *)
(* once more, nested, from goToSleep().  A screen is a record; its kind    *)
(* stands for the classes that the manager tells apart:                    *)
(*   home      isHomeActivity()                                            *)
(*   reader    defers writes when it closes or is covered, holds the radio *)
(*   menu      a screen pushed over another one: forResult when it was     *)
(*             pushed by startActivityForResult, otherwise the frontlight  *)
(*             panel                                                       *)
(*   transfer  Wi-Fi file transfer, which may restart the device on exit   *)
(*   usb       requiresExclusiveStorageLoop()                              *)
(*   sleep     draws the sleep image from onEnter, on the main task        *)
(***************************************************************************)
EXTENDS Integers, Sequences, FiniteSets

CONSTANTS
    Writes,          \* the distinct write functions screens defer (deferWrite)
    Slots,           \* size of deferredWrites[]
    MaxDepth,        \* bound: screens on the stack
    SleepMayTimeOut  \* TRUE: the radio may outlast goToSleep()'s five seconds

ASSUME WritesAssumption == IsFiniteSet(Writes)
ASSUME SlotsAssumption == Slots \in Nat \ {0}
ASSUME DepthAssumption == MaxDepth \in Nat
ASSUME TimeoutAssumption == SleepMayTimeOut \in BOOLEAN

Kinds == {"home", "reader", "menu", "transfer", "usb", "sleep"}
Screen(k, r) == [kind |-> k, forResult |-> r]
NoScreen == Screen("none", FALSE)
FrontlightPanel == Screen("menu", FALSE)
Screens == [kind : Kinds \cup {"none"}, forResult : BOOLEAN]
Entries == [screen : Screens, armed : BOOLEAN]

VARIABLES
    current,         \* currentActivity, NoScreen for nullptr
    armed,           \* currentActivity->resultHandler is set
    stack,           \* stackActivities, each with its own handler flag
    pending,         \* pendingActivity
    action,          \* pendingAction
    mutex,           \* renderingMutex: who holds it
    notified,        \* the render task's notification value is not 0
    waiting,         \* waitingTaskHandle # nullptr
    woken,           \* the main task's notification value is not 0
    requestedUpdate,
    sleepTransition,
    homeAfterInput,
    sibling,         \* the settings screen below was asked for its next sibling
    deferred,        \* the functions in deferredWrites[]
    frameAfter,      \* frameAfterDeferredWrite
    radio,           \* the page-turner radio, as suspendForTransition sees it
    inSleep,         \* the main task is inside goToSleep()
    pc,              \* where the main task is
    ret,             \* where it goes on after onEnter() or a wait
    rpc,             \* where the render task is
    panel,           \* history: does the panel show the last state change?
    owed,            \* history: an update was requested and no paint began since
    sinceDefer       \* history: paint progress since the last deferral

screens == <<current, armed, stack>>
request == <<pending, action, homeAfterInput, sibling>>
sync == <<mutex, rpc, waiting, woken>>
update == <<notified, requestedUpdate, owed>>
saves == <<deferred, frameAfter, sinceDefer>>
power == <<radio, sleepTransition, inSleep>>
vars == <<screens, request, sync, update, saves, power, pc, ret, panel>>

MainPoints == {"boot", "idle", "loop", "flush", "input", "pending", "acquire",
               "close", "enter", "handler", "handled", "wait", "waitUnlocked",
               "sleepNotice", "sleepAbort", "restart", "off"}
RenderPoints == {"idle", "lock", "paint", "ack", "unlock"}

TypeScreens ==
    /\ current \in Screens /\ armed \in BOOLEAN
    /\ stack \in Seq(Entries)
TypeRequest ==
    /\ pending \in Screens /\ action \in {"None", "Push", "Pop", "Replace"}
    /\ homeAfterInput \in BOOLEAN /\ sibling \in BOOLEAN
TypeSync ==
    /\ mutex \in {"free", "main", "render"} /\ rpc \in RenderPoints
    /\ waiting \in BOOLEAN /\ woken \in BOOLEAN
TypeUpdate == notified \in BOOLEAN /\ requestedUpdate \in BOOLEAN /\ owed \in BOOLEAN
TypeSaves ==
    /\ deferred \in SUBSET Writes /\ Cardinality(deferred) <= Slots
    /\ frameAfter \in BOOLEAN /\ sinceDefer \in {"none", "painting", "shown"}
TypePower ==
    /\ radio \in {"off", "up", "stopping"}
    /\ sleepTransition \in BOOLEAN /\ inSleep \in BOOLEAN
TypePoints ==
    /\ pc \in MainPoints /\ ret \in {"pending", "idle", "boot", "handled"}
    /\ panel \in {"stale", "catching", "fresh"}

TypeOK ==
    /\ TypeScreens /\ TypeRequest /\ TypeSync /\ TypeUpdate
    /\ TypeSaves /\ TypePower /\ TypePoints

Init ==
    /\ current = NoScreen /\ armed = FALSE /\ stack = <<>>
    /\ pending = NoScreen /\ action = "None"
    /\ homeAfterInput = FALSE /\ sibling = FALSE
    /\ mutex = "free" /\ rpc = "idle" /\ waiting = FALSE /\ woken = FALSE
    /\ notified = FALSE /\ requestedUpdate = FALSE /\ owed = FALSE
    /\ deferred = {} /\ frameAfter = FALSE /\ sinceDefer = "none"
    /\ radio = "off" /\ sleepTransition = FALSE /\ inSleep = FALSE
    /\ pc = "boot" /\ ret = "boot" /\ panel = "stale"

-----------------------------------------------------------------------------
(* Helpers.                                                                *)

\* The state a screen draws changed: no paint so far has seen it.
StateChanged == panel' = "stale"

\* requestUpdate(): the flag is served at the end of loop().
RequestUpdate == requestedUpdate' = TRUE /\ owed' = TRUE

\* requestUpdate(true): the render task is notified at once.
RequestUpdateNow == notified' = TRUE /\ owed' = TRUE

\* Slip: no bound on the slots.
DeferWritesUnbounded(left, W) ==
    /\ deferred' = left \cup W
    /\ IF W = {} THEN UNCHANGED <<frameAfter, sinceDefer>>
                 ELSE frameAfter' = FALSE /\ sinceDefer' = "none"

\* Slip: the frame that is already up is not withdrawn.
DeferWritesKeepFrame(left, W) ==
    /\ deferred' = left \cup W /\ Cardinality(deferred') <= Slots
    /\ UNCHANGED frameAfter
    /\ sinceDefer' = IF W = {} THEN sinceDefer ELSE "none"

\* deferWrite() for each member of W: a slot per distinct function, and a
\* function that finds no free slot is run at once.
DeferWrites(left, W) ==
    /\ \E K \in SUBSET (W \ left) :
          /\ Cardinality(left \cup K) <= Slots
          /\ K = W \ left \/ Cardinality(left \cup K) = Slots
          /\ deferred' = left \cup K
    /\ IF W = {} THEN UNCHANGED <<frameAfter, sinceDefer>>
                 ELSE frameAfter' = FALSE /\ sinceDefer' = "none"

\* Slip: a reader that is closed for sleep defers as it always does.
MayDeferAsleep(kinds) == IF "reader" \in kinds THEN SUBSET Writes ELSE {{}}

\* What onExit()/onPause() of these kinds leaves for later.  A reader closed
\* for sleep writes at once instead.
MayDefer(kinds) ==
    IF "reader" \in kinds /\ ~sleepTransition THEN SUBSET Writes ELSE {{}}

\* The screens that use the page-turner radio: the readers and, of the screens
\* opened for a result, the page turner's settings.
RadioUsers == {s \in Screens : s.kind = "reader" \/ s = Screen("menu", TRUE)}

\* The screens on the stack.
StackKinds == {stack[i].screen.kind : i \in DOMAIN stack}

\* replaceActivity() with a screen in front.
Replace(s) == pending' = s /\ action' = "Replace"

\* Where the program replaces one screen by another (the goTo... calls).
ReplaceTargets(k) ==
    CASE k = "home"     -> {"reader", "transfer", "home"}
      [] k = "reader"   -> {"home", "reader", "transfer"}
      [] k = "transfer" -> {"home", "reader", "usb"}
      [] k = "menu"     -> {"home", "reader"}
      [] OTHER          -> {}

\* One navigation request of the screen in front: replace, push a child for a
\* result, or finish().
Navigate ==
    \/ /\ current # FrontlightPanel
       /\ \E k \in ReplaceTargets(current.kind) : Replace(Screen(k, FALSE))
       /\ UNCHANGED armed
    \/ /\ current # FrontlightPanel /\ Len(stack) < MaxDepth
       /\ pending' = Screen("menu", TRUE)
       /\ action' = "Push"
       /\ armed' = TRUE
    \/ /\ current.kind # "home"
       /\ pending' = NoScreen
       /\ action' = "Pop"
       /\ UNCHANGED armed

Stay == UNCHANGED <<pending, action, armed>>

\* Slip: the render task forgets sleepTransition.
MayPaintAsleep == current # NoScreen

\* What the render task tests under the lock.
MayPaint == current # NoScreen /\ ~sleepTransition

\* Slip: the handler runs but stays registered.
HandlerKept == armed' = stack[Len(stack)].armed

\* The parent's result handler is moved out before it runs.
HandlerTaken == armed' = FALSE

\* Slip: Replace closes the screen in front alone.
StackKept == UNCHANGED stack

\* Replace empties the stack.
StackCleared == stack' = <<>>

\* Slip: homeAfterInput is not cleared.
GoHomeAfterInputAgain ==
    homeAfterInput /\ UNCHANGED homeAfterInput /\ Replace(Screen("home", FALSE))

\* goHome() once the screen that saved its input is gone.
GoHomeAfterInput ==
    homeAfterInput /\ homeAfterInput' = FALSE /\ Replace(Screen("home", FALSE))

\* Slip: the wait relies on an update requested earlier.
StartWaitQuietly(point, next) ==
    /\ waiting' = TRUE /\ UNCHANGED notified /\ owed' = TRUE /\ pc' = point
    /\ ret' = next

\* requestUpdateAndWait(): take the waiter slot, notify, block.
StartWait(point, next) ==
    /\ waiting' = TRUE /\ notified' = TRUE /\ owed' = TRUE /\ pc' = point
    /\ ret' = next

-----------------------------------------------------------------------------
(* Slips of the actions: each is a definition below as a plausible bug      *)
(* would have it, and makes one of the properties fail.                     *)

\* The timeout drops the action and keeps the screen.
SleepTimeOutHalf ==
    /\ SleepMayTimeOut
    /\ pc = "idle" /\ inSleep /\ action # "None" /\ radio = "stopping"
    /\ action' = "None" /\ pc' = "sleepAbort"
    /\ UNCHANGED <<screens, sync, update, saves, power, pending, homeAfterInput,
                   sibling, ret, panel>>

\* loop() returns early without asking the radio to stop.
WaitForRadioIdly ==
    /\ pc = "pending" /\ action # "None" /\ radio # "off" /\ pc' = "idle"
    /\ UNCHANGED <<screens, request, sync, update, saves, power, ret, panel>>

\* The transition asks the radio to stop and does not wait for it.
StartTransitionAtOnce ==
    /\ pc = "pending" /\ action # "None" /\ pc' = "acquire"
    /\ radio' = IF radio = "off" THEN "off" ELSE "stopping"
    /\ UNCHANGED <<screens, request, sync, update, saves, sleepTransition, inSleep,
                   ret, panel>>

\* The transition does not take the lock.
TransitionUnlocked ==
    /\ pc = "acquire" /\ mutex' = "main" /\ pc' = "close"
    /\ UNCHANGED <<screens, request, update, saves, power, rpc, waiting, woken, ret,
                   panel>>

\* A result handler changes what is drawn beside a paint.
HandlerWaitsUnlocked ==
    /\ pc = "handler" /\ StateChanged /\ StartWait("wait", "handled")
    /\ UNCHANGED <<screens, request, saves, power, mutex, rpc, woken,
                   requestedUpdate>>

\* The end of loop() clears the request without serving it.
EndLoopDropsUpdate ==
    /\ pc = "pending" /\ action = "None" /\ requestedUpdate' = FALSE
    /\ pc' = "idle"
    /\ UNCHANGED <<screens, request, sync, saves, power, notified, owed, ret, panel>>

-----------------------------------------------------------------------------
(* The render task.                                                        *)

\* ulTaskNotifyTake(pdTRUE): any number of notifications count as one.
RenderWake ==
    /\ pc # "off" /\ rpc = "idle" /\ notified /\ notified' = FALSE
    /\ rpc' = "lock"
    /\ UNCHANGED <<screens, request, saves, power, mutex, waiting, woken,
                   requestedUpdate, owed, pc, ret, panel>>

\* RenderLock, then the test of currentActivity and sleepTransition under it.
RenderLockTake ==
    /\ pc # "off" /\ rpc = "lock" /\ mutex = "free" /\ mutex' = "render"
    /\ IF MayPaint
       THEN /\ rpc' = "paint"
            /\ owed' = FALSE
            /\ panel' = IF panel = "stale" THEN "catching" ELSE panel
            /\ sinceDefer' = IF sinceDefer = "none" THEN "painting" ELSE sinceDefer
       ELSE rpc' = "ack" /\ UNCHANGED <<owed, panel, sinceDefer>>
    /\ UNCHANGED <<screens, request, power, waiting, woken, notified,
                   requestedUpdate, deferred, frameAfter, pc, ret>>

\* render() returns: the frame is on the panel.
RenderPaintDone ==
    /\ pc # "off" /\ rpc = "paint" /\ rpc' = "ack" /\ frameAfter' = TRUE
    /\ panel' = IF panel = "catching" THEN "fresh" ELSE panel
    /\ sinceDefer' = IF sinceDefer = "painting" THEN "shown" ELSE sinceDefer
    /\ UNCHANGED <<screens, request, update, power, mutex, waiting, woken, deferred,
                   pc, ret>>

\* The critical section that takes the waiter, and its notification.
RenderAck ==
    /\ pc # "off" /\ rpc = "ack" /\ rpc' = "unlock" /\ waiting' = FALSE
    /\ woken' = (woken \/ waiting)
    /\ UNCHANGED <<screens, request, update, saves, power, mutex, pc, ret, panel>>

\* The RenderLock goes out of scope at the end of the pass.
RenderUnlock ==
    /\ pc # "off" /\ rpc = "unlock" /\ rpc' = "idle" /\ mutex' = "free"
    /\ UNCHANGED <<screens, request, update, saves, power, waiting, woken, pc, ret,
                   panel>>

Render == RenderWake \/ RenderLockTake \/ RenderPaintDone \/ RenderAck \/ RenderUnlock

-----------------------------------------------------------------------------
(* The main task outside loop(): main.cpp.                                 *)

\* setup(): the first screen is entered without a lock, outside loop().
Boot ==
    /\ pc = "boot" /\ current = NoScreen
    /\ \E k \in {"home", "reader"} : current' = Screen(k, FALSE)
    /\ pc' = "enter" /\ ret' = "boot" /\ StateChanged
    /\ UNCHANGED <<request, sync, update, saves, power, armed, stack>>

\* The end of setup(): after a silent restart it waits for the first paint,
\* which also draws what onEnter() queued (requestFirstPaintAndWait); an update
\* that must still prove itself waits for a paint too; otherwise loop() starts.
BootPaint ==
    /\ pc = "boot" /\ current # NoScreen
    /\ requestedUpdate' \in {FALSE, requestedUpdate}
    /\ StartWait("waitUnlocked", "idle")
    /\ UNCHANGED <<screens, request, saves, power, mutex, rpc, woken, panel>>

BootDone ==
    /\ pc = "boot" /\ current # NoScreen /\ pc' = "idle"
    /\ UNCHANGED <<screens, request, sync, update, saves, power, ret, panel>>

\* ulTaskNotifyTake() in requestUpdateAndWait() returns.
WaitDone ==
    /\ pc \in {"wait", "waitUnlocked"} /\ woken
    /\ woken' = FALSE /\ pc' = ret
    /\ UNCHANGED <<screens, request, update, saves, power, mutex, rpc, waiting, ret,
                   panel>>

\* main.cpp starts the radio for a reader that is in front and has its page; the
\* page turner's own settings, a menu, start it themselves.
StartRadio ==
    /\ pc = "idle" /\ ~inSleep /\ action = "None"
    /\ current \in RadioUsers /\ (current.kind = "reader" => panel = "fresh")
    /\ radio = "off" /\ radio' = "up"
    /\ UNCHANGED <<screens, request, sync, update, saves, sleepTransition, inSleep,
                   pc, ret, panel>>

\* The radio's own teardown finishes.
RadioStopped ==
    /\ pc # "off" /\ radio = "stopping" /\ radio' = "off"
    /\ UNCHANGED <<screens, request, sync, update, saves, sleepTransition, inSleep,
                   pc, ret, panel>>

\* main.cpp asks for a repaint (USB plugged) outside a reader.
UsbPlugged ==
    /\ pc = "idle" /\ ~inSleep /\ "reader" \notin StackKinds \cup {current.kind}
    /\ StateChanged /\ RequestUpdate
    /\ UNCHANGED <<screens, request, sync, saves, power, notified, pc, ret>>

\* main.cpp calls loop().
BeginLoop ==
    /\ pc = "idle" /\ ~inSleep /\ pc' = "loop"
    /\ UNCHANGED <<screens, request, sync, update, saves, power, ret, panel>>

\* closeForRestart(): the reader is closed under the lock and everything it
\* deferred is written; its radio is already off.
CloseForRestart ==
    /\ pc = "idle" /\ ~inSleep /\ mutex = "free"
    /\ action = "None" /\ current.kind = "reader" /\ panel = "fresh" /\ radio = "off"
    /\ current' = NoScreen /\ armed' = FALSE /\ deferred' = {}
    /\ frameAfter' \in {frameAfter, FALSE}
    /\ sinceDefer' = IF frameAfter' THEN sinceDefer ELSE "none"
    /\ pc' = "restart"
    /\ UNCHANGED <<request, sync, update, power, stack, ret, panel>>

\* silentRestartToReader(): the device restarts, or, on a board that keeps its
\* rails, comes back and the book is opened again with no screen in front.
Restart ==
    /\ pc = "restart"
    /\ \/ /\ pc' = "off"
          /\ UNCHANGED <<current, ret, panel>>
       \/ /\ current' = Screen("reader", FALSE)
          /\ pc' = "enter"
          /\ ret' = "idle"
          /\ StateChanged
    /\ UNCHANGED <<request, sync, update, saves, power, armed, stack>>

\* A reset, or the wake from deep sleep, which is a reset too: RAM is gone.
Reset ==
    /\ pc = "off"
    /\ current' = NoScreen /\ armed' = FALSE /\ stack' = <<>>
    /\ pending' = NoScreen /\ action' = "None"
    /\ homeAfterInput' = FALSE /\ sibling' = FALSE
    /\ mutex' = "free" /\ rpc' = "idle" /\ waiting' = FALSE /\ woken' = FALSE
    /\ notified' = FALSE /\ requestedUpdate' = FALSE /\ owed' = FALSE
    /\ deferred' = {} /\ frameAfter' = FALSE /\ sinceDefer' = "none"
    /\ radio' = "off" /\ sleepTransition' = FALSE /\ inSleep' = FALSE
    /\ pc' = "boot" /\ ret' = "boot" /\ panel' = "stale"

-----------------------------------------------------------------------------
(* goToSleep().                                                            *)

\* Under the lock: no paint is in flight when the flag goes up, and the notice
\* is drawn by the main task itself.
GoToSleep ==
    /\ pc = "idle" /\ ~inSleep /\ mutex = "free" /\ current.kind # "usb"
    /\ mutex' = "main" /\ sleepTransition' = TRUE /\ requestedUpdate' = FALSE
    /\ StateChanged /\ pc' = "sleepNotice"
    /\ UNCHANGED <<screens, request, saves, rpc, waiting, woken, notified, owed,
                   radio, inSleep, ret>>

\* The lock is released and SleepActivity becomes the pending screen, over
\* whatever was pending.
RequestSleepScreen ==
    /\ pc = "sleepNotice" /\ mutex' = "free" /\ inSleep' = TRUE
    /\ Replace(Screen("sleep", FALSE)) /\ pc' = "idle"
    /\ UNCHANGED <<screens, update, saves, homeAfterInput, sibling, rpc, waiting,
                   woken, radio, sleepTransition, ret, panel>>

\* The polling loop calls loop() while the transition is pending.
SleepPoll ==
    /\ pc = "idle" /\ inSleep /\ action # "None" /\ pc' = "loop"
    /\ UNCHANGED <<screens, request, sync, update, saves, power, ret, panel>>

\* The sleep screen is up: goToSleep() returns and the device powers down.
SleepDone ==
    /\ pc = "idle" /\ inSleep /\ action = "None" /\ pc' = "off"
    /\ UNCHANGED <<screens, request, sync, update, saves, power, ret, panel>>

\* A poll found the radio still there and five seconds are over: the pending
\* screen is dropped.
SleepTimeOut ==
    /\ SleepMayTimeOut
    /\ pc = "idle" /\ inSleep /\ action # "None" /\ radio = "stopping"
    /\ pending' = NoScreen /\ action' = "None" /\ pc' = "sleepAbort"
    /\ UNCHANGED <<screens, sync, update, saves, power, homeAfterInput, sibling,
                   ret, panel>>

\* The flag comes down under the lock and the screen in front is repainted.
SleepAborted ==
    /\ pc = "sleepAbort" /\ mutex = "free" /\ sleepTransition' = FALSE
    /\ inSleep' = FALSE /\ RequestUpdate /\ pc' = "idle"
    /\ UNCHANGED <<screens, request, sync, saves, notified, radio, ret, panel>>

-----------------------------------------------------------------------------
(* loop().                                                                 *)

\* The exclusive-storage branch: only this screen runs, nothing pending is
\* processed, and it leaves by a restart.
ExclusiveLoop ==
    /\ pc = "loop" /\ current.kind = "usb"
    /\ \/ /\ pc' = "idle"
          /\ \/ UNCHANGED panel
             \/ StateChanged
          /\ notified' = (notified \/ requestedUpdate \/ panel' # panel)
          /\ owed' = (owed \/ panel' # panel)
          /\ requestedUpdate' = FALSE
       \/ /\ pc' = "off"
          /\ UNCHANGED <<notified, requestedUpdate, panel, owed>>
    /\ UNCHANGED <<screens, request, sync, saves, power, ret>>

\* A frame is up since the last deferral and the lock is free: write now.
StartFlush ==
    /\ pc = "loop" /\ current.kind # "usb"
    /\ deferred # {} /\ frameAfter /\ mutex = "free" /\ mutex' = "main"
    /\ pc' = "flush"
    /\ UNCHANGED <<screens, request, update, saves, power, rpc, waiting, woken, ret,
                   panel>>

\* flushDeferredWrites() and the end of its lock.
Flush ==
    /\ pc = "flush" /\ deferred' = {} /\ mutex' = "free" /\ pc' = "input"
    /\ UNCHANGED <<screens, request, update, power, rpc, waiting, woken, frameAfter,
                   sinceDefer, ret, panel>>

\* Nothing to write, no frame yet, or a paint holds the lock.
SkipFlush ==
    /\ pc = "loop" /\ current.kind # "usb"
    /\ deferred = {} \/ ~frameAfter \/ mutex # "free"
    /\ pc' = "input"
    /\ UNCHANGED <<screens, request, sync, update, saves, power, ret, panel>>

TakesInput == current # NoScreen /\ ~sleepTransition /\ action = "None"

SkipInput ==
    /\ pc = "input" /\ ~TakesInput /\ pc' = "pending"
    /\ UNCHANGED <<screens, request, sync, update, saves, power, ret, panel>>

\* The home gesture or a held Back.  A menu saves its input and finishes; the
\* way home is remembered in homeAfterInput unless it was only a swipe.
HomeGesture ==
    /\ pc = "input" /\ TakesInput /\ current.kind # "home"
    /\ IF current.kind = "menu"
       THEN /\ pending' = NoScreen
            /\ action' = "Pop"
            /\ homeAfterInput' \in {homeAfterInput, TRUE}
       ELSE Replace(Screen("home", FALSE)) /\ UNCHANGED homeAfterInput
    /\ pc' = "idle"
    /\ UNCHANGED <<screens, sync, update, saves, power, sibling, ret, panel>>

\* The frontlight panel is pushed over the screen in front, with no handler.
OpenPanel ==
    /\ pc = "input" /\ TakesInput
    /\ current # FrontlightPanel /\ Len(stack) < MaxDepth
    /\ pending' = FrontlightPanel /\ action' = "Push" /\ pc' = "idle"
    /\ UNCHANGED <<screens, sync, update, saves, power, homeAfterInput, sibling,
                   ret, panel>>

\* The screen's own loop(): it does nothing, changes what it draws (under the
\* lock) and asks for a paint, navigates, or (a settings child) asks the
\* settings screen below for its sibling and finishes (switchSettingsSibling).
ActivityLoop ==
    /\ pc = "input" /\ TakesInput /\ pc' = "pending"
    /\ \/ Stay /\ UNCHANGED <<panel, owed, requestedUpdate, notified, sibling>>
       \/ /\ mutex = "free" /\ StateChanged /\ Stay
          /\ \/ RequestUpdate /\ UNCHANGED notified
             \/ RequestUpdateNow /\ UNCHANGED requestedUpdate
          /\ UNCHANGED sibling
       \/ Navigate /\ UNCHANGED <<panel, owed, requestedUpdate, notified, sibling>>
       \/ /\ current = Screen("menu", TRUE) /\ stack # <<>>
          /\ sibling' = TRUE
          /\ pending' = NoScreen /\ action' = "Pop"
          /\ UNCHANGED <<armed, panel, owed, requestedUpdate, notified>>
    /\ UNCHANGED <<sync, saves, power, current, stack, homeAfterInput, ret>>

\* ... or changes it and waits for the paint; some screens change it without
\* the lock.
ActivityLoopWaits ==
    /\ pc = "input" /\ TakesInput /\ StateChanged
    /\ \/ mutex = "free" /\ StartWait("wait", "pending")
       \/ current.kind = "menu" /\ StartWait("waitUnlocked", "pending")
    /\ UNCHANGED <<screens, request, saves, power, mutex, rpc, woken,
                   requestedUpdate>>

\* suspendForTransition() has not given the radio back: loop() returns early.
WaitForRadio ==
    /\ pc = "pending" /\ action # "None" /\ radio # "off" /\ radio' = "stopping"
    /\ pc' = "idle"
    /\ UNCHANGED <<screens, request, sync, update, saves, sleepTransition, inSleep,
                   ret, panel>>

\* The radio is off, at once or after its teardown.
StartTransition ==
    /\ pc = "pending" /\ action # "None" /\ radio # "stopping" /\ radio' = "off"
    /\ pc' = "acquire"
    /\ UNCHANGED <<screens, request, sync, update, saves, sleepTransition, inSleep,
                   ret, panel>>

\* RenderLock for the transition.
TransitionLock ==
    /\ pc = "acquire" /\ mutex = "free" /\ mutex' = "main" /\ pc' = "close"
    /\ UNCHANGED <<screens, request, update, saves, power, rpc, waiting, woken, ret,
                   panel>>

\* exitActivity(): the earlier screens' writes go first, then this one leaves
\* its own.  onExit of a file transfer that used Wi-Fi restarts the device.
CanClose == pc = "close" /\ mutex = "main"

ExitRestarts ==
    /\ CanClose /\ action \in {"Pop", "Replace"} /\ ~sleepTransition
    /\ "transfer" \in {current.kind} \cup (IF action = "Replace" THEN StackKinds ELSE {})
    /\ deferred' = {} /\ pc' = "off"
    /\ UNCHANGED <<screens, request, sync, update, power, frameAfter, sinceDefer,
                   ret, panel>>

\* Pop with an empty stack: Home is created and entered at once, the lock
\* already released.
PopToHome ==
    /\ CanClose /\ action = "Pop" /\ stack = <<>>
    /\ \E W \in MayDefer({current.kind}) : DeferWrites({}, W)
    /\ current' = Screen("home", FALSE) /\ armed' = FALSE /\ action' = "None"
    /\ mutex' = "free" /\ pc' = "enter" /\ ret' = "pending" /\ StateChanged
    /\ UNCHANGED <<update, power, stack, pending, homeAfterInput, sibling, rpc,
                   waiting, woken>>

\* Pop onto the screen below: it resumes, and its result handler, if set, is
\* taken and run after the lock is released.
PopToParent ==
    /\ CanClose /\ action = "Pop" /\ stack # <<>>
    /\ \E W \in MayDefer({current.kind}) : DeferWrites({}, W)
    /\ LET parent == stack[Len(stack)]
       IN  /\ current' = parent.screen
           /\ pc' = IF parent.armed THEN "handler" ELSE "handled"
    /\ stack' = SubSeq(stack, 1, Len(stack) - 1) /\ HandlerTaken
    /\ action' = "None" /\ mutex' = "free" /\ StateChanged
    /\ UNCHANGED <<update, power, pending, homeAfterInput, sibling, rpc, waiting,
                   woken, ret>>

\* Replace: the screen in front and the whole stack are closed.
ReplaceScreens ==
    /\ CanClose /\ action = "Replace"
    /\ \E W \in MayDefer({current.kind} \cup StackKinds) : DeferWrites({}, W)
    /\ current' = pending /\ armed' = FALSE /\ StackCleared
    /\ pending' = NoScreen /\ action' = "None" /\ mutex' = "free"
    /\ pc' = "enter" /\ ret' = "pending" /\ StateChanged
    /\ UNCHANGED <<update, power, homeAfterInput, sibling, rpc, waiting, woken>>

\* Push: the screen in front is paused and kept with its handler.
PushScreen ==
    /\ CanClose /\ action = "Push"
    /\ \E W \in MayDefer({current.kind}) : DeferWrites(deferred, W)
    /\ stack' = Append(stack, [screen |-> current, armed |-> armed])
    /\ current' = pending /\ armed' = FALSE /\ pending' = NoScreen
    /\ action' = "None" /\ mutex' = "free" /\ pc' = "enter" /\ ret' = "pending"
    /\ StateChanged
    /\ UNCHANGED <<update, power, homeAfterInput, sibling, rpc, waiting, woken>>

\* onEnter() of the new screen, outside the lock: it sets itself up, asks for
\* a paint, and may navigate or wait for the paint.  The sleep screen draws
\* itself and asks for nothing.  (USB Drive would go Home if the radio kept it
\* from the card: RadioOffWhileEntering says it never does.)
Enter ==
    /\ pc = "enter" /\ StateChanged
    /\ \/ /\ current.kind = "sleep"
          /\ pc' = ret
          /\ Stay /\ UNCHANGED <<owed, requestedUpdate>>
       \/ /\ current.kind # "sleep"
          /\ pc' = ret
          /\ RequestUpdate
          /\ Stay \/ (ret = "pending" /\ current.kind \notin {"home", "usb"} /\ Navigate)
    /\ UNCHANGED <<sync, saves, power, current, stack, homeAfterInput, sibling,
                   notified, ret>>

EnterWaits ==
    /\ pc = "enter" /\ current.kind \in {"usb", "menu"} /\ ret = "pending"
    /\ StateChanged /\ StartWait("waitUnlocked", ret)
    /\ UNCHANGED <<screens, request, saves, power, mutex, rpc, woken,
                   requestedUpdate>>

\* The parent's result handler: it changes what is drawn (under the lock) and
\* may navigate, or wait for the paint.
Handler ==
    /\ pc = "handler" /\ pc' = "handled"
    /\ \/ mutex = "free" /\ StateChanged /\ RequestUpdate /\ Stay
       \/ Navigate /\ UNCHANGED <<panel, owed, requestedUpdate>>
    /\ UNCHANGED <<sync, saves, power, current, stack, homeAfterInput, sibling,
                   notified, ret>>

HandlerWaits ==
    /\ pc = "handler" /\ mutex = "free" /\ StateChanged
    /\ StartWait("wait", "handled")
    /\ UNCHANGED <<screens, request, saves, power, mutex, rpc, woken,
                   requestedUpdate>>

\* After the handler: go home if the way home was remembered; otherwise, if the
\* handler asked for no transition, open the settings sibling that was asked
\* for, or else repaint the screen that came back.
Handled ==
    /\ pc = "handled" /\ pc' = "pending"
    /\ \/ /\ GoHomeAfterInput
          /\ UNCHANGED <<armed, sibling, requestedUpdate, owed>>
       \/ /\ ~homeAfterInput /\ action # "None"
          /\ Stay /\ UNCHANGED <<homeAfterInput, sibling, requestedUpdate, owed>>
       \/ /\ ~homeAfterInput /\ action = "None" /\ sibling
          /\ sibling' = FALSE
          /\ pending' = Screen("menu", TRUE) /\ action' = "Push" /\ armed' = TRUE
          /\ UNCHANGED <<homeAfterInput, requestedUpdate, owed>>
       \/ /\ ~homeAfterInput /\ action = "None" /\ ~sibling
          /\ RequestUpdate
          /\ Stay /\ UNCHANGED <<homeAfterInput, sibling>>
    /\ UNCHANGED <<sync, saves, power, current, stack, notified, ret, panel>>

\* No transition is pending: serve the update requested in this pass.
EndLoop ==
    /\ pc = "pending" /\ action = "None"
    /\ notified' = (notified \/ requestedUpdate)
    /\ requestedUpdate' = FALSE /\ pc' = "idle"
    /\ UNCHANGED <<screens, request, sync, saves, power, owed, ret, panel>>

-----------------------------------------------------------------------------
(* The specification.                                                      *)

Main ==
    \/ Boot \/ BootPaint \/ BootDone \/ WaitDone \/ StartRadio \/ UsbPlugged \/ BeginLoop
    \/ CloseForRestart \/ Restart
    \/ GoToSleep \/ RequestSleepScreen \/ SleepPoll \/ SleepDone \/ SleepTimeOut
    \/ SleepAborted
    \/ ExclusiveLoop \/ StartFlush \/ Flush \/ SkipFlush \/ SkipInput
    \/ HomeGesture \/ OpenPanel \/ ActivityLoop \/ ActivityLoopWaits
    \/ WaitForRadio \/ StartTransition \/ TransitionLock
    \/ ExitRestarts \/ PopToHome \/ PopToParent \/ ReplaceScreens \/ PushScreen
    \/ Enter \/ EnterWaits \/ Handler \/ HandlerWaits \/ Handled \/ EndLoop

Next == Main \/ Render \/ RadioStopped \/ Reset

Spec == Init /\ [][Next]_vars

\* The main task keeps running through each pass of loop(); what the user does
\* (a gesture, sleep, a cable) is never forced.  The render task runs whenever
\* it can: both tasks have priority 1 and the main task sleeps at the end of
\* every pass, with the mutex free, so the render task cannot lose every race
\* for it (hence SF).  The radio's teardown ends.  A screen does not answer
\* every onEnter() with one more navigation (SF of Enter /\ Stay).
Fairness ==
    /\ WF_vars(Boot \/ BootPaint \/ BootDone) /\ WF_vars(WaitDone)
    /\ WF_vars(BeginLoop) /\ WF_vars(Restart)
    /\ WF_vars(RequestSleepScreen) /\ WF_vars(SleepPoll) /\ WF_vars(SleepDone)
    /\ WF_vars(SleepAborted)
    /\ WF_vars(ExclusiveLoop) /\ WF_vars(StartFlush \/ SkipFlush) /\ WF_vars(Flush)
    /\ WF_vars(SkipInput \/ HomeGesture \/ OpenPanel \/ ActivityLoop \/ ActivityLoopWaits)
    /\ WF_vars(WaitForRadio \/ StartTransition \/ EndLoop) /\ WF_vars(TransitionLock)
    /\ WF_vars(PopToHome \/ PopToParent \/ ReplaceScreens \/ PushScreen)
    /\ WF_vars(Enter \/ EnterWaits) /\ SF_vars(Enter /\ Stay)
    /\ WF_vars(Handler \/ HandlerWaits) /\ WF_vars(Handled)
    /\ WF_vars(RenderWake) /\ SF_vars(RenderLockTake) /\ WF_vars(RenderPaintDone)
    /\ WF_vars(RenderAck) /\ WF_vars(RenderUnlock)
    /\ WF_vars(RadioStopped)

FairSpec == Spec /\ Fairness

-----------------------------------------------------------------------------
(* Safety.                                                                 *)

Blocked == pc \in {"wait", "waitUnlocked"}

\* From the moment goToSleep() raises sleepTransition until it gives up, the
\* render task never paints: neither a paint already in flight nor one asked
\* for earlier draws over the notice or the sleep image (renderTaskLoop tests
\* the flag under the lock goToSleep raised it under).
SleepScreenKept == sleepTransition => rpc # "paint"

\* While a paint is in progress the main task neither closes, covers nor
\* replaces a screen, nor runs a deferred write beside it.
ScreensHoldStillDuringPaint ==
    [][rpc = "paint" /\ rpc' = "paint" => UNCHANGED <<current, stack, deferred>>]_vars

\* A pending Push or Replace always has its screen, and only they do: the
\* transition loop of loop() would spin for ever on one without a screen, and
\* lose a screen that no action names.
TransitionHasItsScreen == action \in {"Push", "Replace"} <=> pending # NoScreen

\* Whatever ends the run (deep sleep, a restart after Wi-Fi, for the radio's
\* heap or after USB), no deferred write is left in RAM.
NothingDeferredAtPowerOff == pc = "off" => deferred = {}

\* The main loop runs deferred writes only once a paint that began after the
\* last deferral is on the panel: a write never delays the next screen.
WritesWaitForNextFrame == pc = "flush" => sinceDefer = "shown"

\* The waiter slot and the waiter's notification belong to a wait in progress,
\* and while the main task is blocked its wake-up is on the way: it is there
\* already, or the render task is notified or inside a pass that will see the
\* slot.
NoLostWakeUp ==
    /\ waiting \/ woken => Blocked
    /\ Blocked /\ ~woken => waiting /\ (notified \/ rpc \in {"lock", "paint", "ack"})

\* requestUpdateAndWait() after a change made under the RenderLock returns
\* with the change on the panel.
WaitShowsLockedChange == pc = "wait" /\ woken => panel = "fresh"

\* The same of every caller, locked or not: performLookup() of the dictionary
\* changes its popup without the lock, and so the code does not keep it.
WaitShowsEveryChange == Blocked /\ woken => panel = "fresh"

\* The radio has given its memory back before a transition closes a screen, and
\* it stays off until the next one has been entered: onEnter() has the heap for
\* its fonts and covers, and filetransfer::acquire() in it never fails.
RadioOffWhileEntering ==
    pc \in {"acquire", "close"} \/ (pc = "enter" /\ ret = "pending") => radio = "off"

\* A result handler is run only for the child it was registered with.
ResultReachesItsRequester ==
    [][pc = "close" /\ pc' = "handler" => current.forResult]_vars

\* The way home is remembered only while the screen that saved its input is
\* on its way out: no later pop is turned into a trip to Home.
HomeOnlyAfterItsInput ==
    homeAfterInput => \/ action = "Pop"
                      \/ pc \in {"handler", "handled"}
                      \/ Blocked /\ ret = "handled"
                      \/ sleepTransition

-----------------------------------------------------------------------------
(* The abstract specification this one implements.                         *)

\* The screens on the stack and the one in front, as one pile.
Covered == [i \in DOMAIN stack |-> stack[i].screen]
OpenScreens == IF current = NoScreen THEN Covered ELSE Append(Covered, current)

Pile == INSTANCE ScreenPile WITH
            AnyScreen <- Screens, pile <- OpenScreens,
            painting <- (rpc = "paint"), asleep <- sleepTransition

\* Every step of the manager opens a screen on the pile, closes the top one,
\* starts over with one, begins or ends a paint or a sleep, or none of these:
\* whatever main.cpp, the gestures, results and timeouts do, the render task
\* paints the screen in front while the pile holds still (RenderLock).
ImplementsScreenPile == Pile!Spec

\* What main.cpp's radio and the manager promise each other (ScreenRadio): the
\* radio is not started once a transition is pending, and no screen gives way
\* to another, no pending transition is carried out, before it is off.
Interface == INSTANCE ScreenRadio WITH
                 Users <- RadioUsers, MayGiveUp <- SleepMayTimeOut,
                 front <- current, leaving <- (action # "None"), on <- (radio # "off")

ImplementsScreenRadio == Interface!Spec

-----------------------------------------------------------------------------
(* Liveness.                                                               *)

\* Every requested update is followed by the start of a paint, whatever is
\* merged, skipped or put off on the way, and a blocked requestUpdateAndWait()
\* returns.
RequestsAreServed == /\ owed ~> (~owed \/ pc = "off")
                     /\ Blocked ~> ~Blocked

\* A requested transition is carried out once the radio lets go.
TransitionCompletes == action # "None" ~> (action = "None" \/ pc = "off")
=============================================================================

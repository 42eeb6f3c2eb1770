----------------------- MODULE ActivityManagerProofs -----------------------
(***************************************************************************)
(* What is proved of ActivityManager for every set of writes, every number *)
(* of slots and every depth of the stack.  Two results about handlers and  *)
(* the way home are about runs in which no sleep has timed out; the others *)
(* hold whether or not sleep may time out.                                 *)
(***************************************************************************)
EXTENDS ActivityManager, FiniteSetTheorems, SequenceTheorems, TLAPS

(***************************************************************************)
(* The inductive invariant, in parts.  Each part is inductive relative to  *)
(* the others.                                                             *)
(***************************************************************************)

\* The lock is the render task's exactly in its paint, and the main task's at
\* its locked points.
LockInv ==
    /\ mutex = "render" <=> rpc \in {"paint", "ack", "unlock"}
    /\ pc \in {"close", "flush", "sleepNotice"} => mutex = "main"

\* What the pending action says of the pending screen.
RequestInv ==
    /\ action = "Push" => pending.kind = "menu"
    /\ action = "Replace" => pending.kind \in Kinds
    /\ action \in {"None", "Pop"} => pending = NoScreen

\* Where goToSleep() can be, and that only the sleep screen is pending in it.
SleepInv ==
    /\ sleepTransition <=> inSleep \/ (pc = "sleepNotice")
    /\ inSleep =>
         /\ action \in {"None", "Replace"}
         /\ action = "Replace" => pending.kind = "sleep"
         /\ pc \in {"idle", "loop", "flush", "input", "pending", "acquire", "close",
                    "enter", "sleepAbort", "off"}
         /\ pc = "enter" => current.kind = "sleep" /\ ret = "pending"
    /\ pc = "sleepNotice" => ~inSleep
    /\ pc = "sleepAbort" => inSleep

\* The screen in front: there is none only before the first one and after
\* closeForRestart(); USB Drive is entered from a file transfer only and takes
\* no request.
FrontInv ==
    /\ current.kind = "none" => current = NoScreen
    /\ current = NoScreen =>
         /\ stack = <<>> /\ action = "None" /\ rpc # "paint"
         /\ pc \in {"boot", "restart", "off"}
    /\ pc = "restart" => current = NoScreen
    /\ pending.kind = "usb" => action = "Replace" /\ current.kind = "transfer"
    /\ current.kind = "usb" =>
         /\ action = "None"
         /\ pc \in {"enter", "waitUnlocked", "pending", "idle", "loop", "off"}
         /\ pc \in {"enter", "waitUnlocked"} => ret = "pending"

\* Only menus above the bottom of the pile, and never USB Drive in it.
StackInv ==
    /\ stack # <<>> => current.kind = "menu"
    /\ \A i \in DOMAIN stack :
         /\ stack[i].screen.kind \notin {"none", "usb"}
         /\ i > 1 => stack[i].screen.kind = "menu"

ScreensInv == FrontInv /\ StackInv

\* No paint while the device falls asleep.
PaintInv == sleepTransition => rpc # "paint"

\* The wait of requestUpdateAndWait(), step by step.
WaitInv ==
    /\ NoLostWakeUp
    /\ ~(waiting /\ woken)
    /\ pc = "wait" =>
         \/ ~woken /\ panel = "stale" /\ rpc \in {"idle", "lock"}
         \/ ~woken /\ panel = "catching" /\ rpc = "paint"
         \/ ~woken /\ panel = "fresh" /\ rpc = "ack"
         \/ woken /\ panel = "fresh"

\* The deferred writes and the frame they wait for.
WritesInv ==
    /\ frameAfter => sinceDefer = "shown"
    /\ rpc = "paint" => sinceDefer # "none"
    /\ pc = "flush" => frameAfter
    /\ pc \in {"restart", "off"} => deferred = {}
    /\ inSleep /\ action = "None" /\ pc # "sleepAbort" => deferred = {}
    /\ current.kind = "usb" => deferred = {}

IInv ==
    /\ TypeOK /\ LockInv /\ RequestInv /\ SleepInv /\ ScreensInv /\ PaintInv
    /\ WaitInv /\ WritesInv /\ RadioOffWhileEntering

(***************************************************************************)
(* Type correctness.                                                       *)
(***************************************************************************)
\* What Screen() builds is a screen.
LEMMA ScreenTyped ==
    /\ \A k \in Kinds \cup {"none"}, r \in BOOLEAN : Screen(k, r) \in Screens
    /\ NoScreen \in Screens
  BY DEF Screen, NoScreen, Screens

\* The program replaces screens by these kinds only, and goes to USB Drive from
\* a file transfer only.
LEMMA ReplacedByKinds ==
  ASSUME NEW k
  PROVE  /\ ReplaceTargets(k) \subseteq {"home", "reader", "transfer", "usb"}
         /\ "usb" \in ReplaceTargets(k) => k = "transfer"
  BY DEF ReplaceTargets

\* What push_back() and pop_back() leave on the stack.
LEMMA StackTyped ==
  /\ <<>> \in Seq(Entries)
  /\ \A s \in Seq(Entries), e \in Entries : Append(s, e) \in Seq(Entries)
  /\ \A s \in Seq(Entries) : s # <<>> =>
        /\ SubSeq(s, 1, Len(s) - 1) \in Seq(Entries)
        /\ s[Len(s)].screen \in Screens /\ s[Len(s)].armed \in BOOLEAN
<1>1. \A s \in Seq(Entries) : s # <<>> => s[Len(s)] \in Entries
  OBVIOUS
<1>2. \A s \in Seq(Entries) : s # <<>> => SubSeq(s, 1, Len(s) - 1) \in Seq(Entries)
  OBVIOUS
<1>3. \A e \in Entries : e.screen \in Screens /\ e.armed \in BOOLEAN
  BY DEF Entries
<1>4. <<>> \in Seq(Entries) /\ \A s \in Seq(Entries), e \in Entries : Append(s, e) \in Seq(Entries)
  OBVIOUS
<1>. QED
  BY <1>1, <1>2, <1>3, <1>4

\* An empty deferredWrites[] is within its bound.
LEMMA NoWritesFit == {} \subseteq Writes /\ Cardinality({}) <= Slots
  BY FS_EmptySet, SlotsAssumption

\* deferWrite() stays within the slots, whatever was there before.
LEMMA DeferTyped ==
  TypeSaves =>
    \A W \in SUBSET Writes :
      DeferWrites({}, W) \/ DeferWrites(deferred, W) => TypeSaves'
<1> SUFFICES ASSUME TypeSaves, NEW W \in SUBSET Writes,
                    DeferWrites({}, W) \/ DeferWrites(deferred, W)
             PROVE  TypeSaves'
  OBVIOUS
<1>1. PICK left \in {{}, deferred} : DeferWrites(left, W)
  OBVIOUS
<1>2. PICK K \in SUBSET (W \ left) :
         Cardinality(left \cup K) <= Slots /\ deferred' = left \cup K
  BY <1>1 DEF DeferWrites
<1>3. deferred' \subseteq Writes /\ Cardinality(deferred') <= Slots
  BY <1>2 DEF TypeSaves
<1>4. frameAfter' \in BOOLEAN /\ sinceDefer' \in {"none", "painting", "shown"}
  BY <1>1 DEF DeferWrites, TypeSaves
<1>. QED
  BY <1>3, <1>4 DEF TypeSaves

\* What a screen leaves for later is a set of writes.
LEMMA MayDeferTyped == \A kinds : MayDefer(kinds) \subseteq SUBSET Writes
  BY DEF MayDefer

\* A navigation request has its screen.
LEMMA NavigateTyped ==
  ASSUME TypeOK, Navigate
  PROVE  /\ pending' \in Screens /\ action' \in {"None", "Push", "Pop", "Replace"}
         /\ armed' \in BOOLEAN
<1>1. pending' \in Screens
  BY ScreenTyped, ReplacedByKinds DEF Navigate, Replace, Kinds
<1>2. action' \in {"None", "Push", "Pop", "Replace"} /\ armed' \in BOOLEAN
  BY DEF Navigate, Replace, TypeOK, TypeScreens
<1>. QED
  BY <1>1, <1>2


\* A step keeps the types of the screens.
LEMMA TypeScreensStep == ASSUME TypeOK, [Next]_vars PROVE TypeScreens'
<1> USE DEF TypeOK, TypeScreens, TypeRequest, Kinds
<1>1. CASE UNCHANGED <<current, armed, stack>>
  BY <1>1
<1>2. CASE Boot
  BY <1>2, ScreenTyped, StackTyped DEF Boot
<1>3. CASE CloseForRestart
  BY <1>3, ScreenTyped, StackTyped DEF CloseForRestart
<1>4. CASE Restart
  BY <1>4, ScreenTyped, StackTyped DEF Restart
<1>5. CASE PopToHome
  BY <1>5, ScreenTyped, StackTyped DEF PopToHome, Entries
<1>6. CASE PopToParent
  BY <1>6, ScreenTyped, StackTyped DEF PopToParent, HandlerTaken, Entries
<1>7. CASE ReplaceScreens
  BY <1>7, ScreenTyped, StackTyped DEF ReplaceScreens, StackCleared, Entries
<1>8. CASE PushScreen
  BY <1>8, ScreenTyped, StackTyped DEF PushScreen, Entries
<1>9. CASE Handled
  BY <1>9, ScreenTyped, StackTyped DEF Handled, Stay
<1>10. CASE Reset
  BY <1>10, ScreenTyped, StackTyped DEF Reset
<1>11. CASE ActivityLoop
  BY <1>11, ScreenTyped, StackTyped, NavigateTyped DEF ActivityLoop, Stay
<1>12. CASE Enter
  BY <1>12, ScreenTyped, StackTyped, NavigateTyped DEF Enter, Stay
<1>13. CASE Handler
  BY <1>13, ScreenTyped, StackTyped, NavigateTyped DEF Handler, Stay
<1>14. QED
  BY <1>1, <1>2, <1>3, <1>4, <1>5, <1>6, <1>7, <1>8, <1>9, <1>10, <1>11, <1>12, <1>13 DEF Next,
     Main, Render, vars, screens, BootPaint, BootDone, WaitDone, StartRadio, UsbPlugged,
     BeginLoop, GoToSleep, RequestSleepScreen, SleepPoll, SleepDone, SleepTimeOut,
     SleepAborted, ExclusiveLoop, StartFlush, Flush, SkipFlush, SkipInput, HomeGesture,
     OpenPanel, ActivityLoopWaits, WaitForRadio, StartTransition, TransitionLock, ExitRestarts,
     EnterWaits, HandlerWaits, EndLoop, RenderWake, RenderLockTake, RenderPaintDone, RenderAck,
     RenderUnlock, RadioStopped

\* A step keeps the types of the request of a transition.
LEMMA TypeRequestStep == ASSUME TypeOK, [Next]_vars PROVE TypeRequest'
<1> USE DEF TypeOK, TypeRequest, Kinds
<1>1. CASE UNCHANGED <<pending, action, homeAfterInput, sibling>>
  BY <1>1
<1>2. CASE RequestSleepScreen \/ SleepTimeOut \/ HomeGesture \/ PopToHome
  BY <1>2, ScreenTyped DEF RequestSleepScreen, Replace, SleepTimeOut, HomeGesture, PopToHome
<1>3. CASE PopToParent \/ ReplaceScreens \/ PushScreen \/ Handled
  BY <1>3, ScreenTyped DEF PopToParent, ReplaceScreens, PushScreen, Handled, GoHomeAfterInput,
     Stay, Replace
<1>4. CASE Reset
  BY <1>4, ScreenTyped DEF Reset
<1>5. CASE OpenPanel
  BY <1>5, ScreenTyped DEF OpenPanel, FrontlightPanel
<1>6. CASE ActivityLoop \/ Enter \/ Handler
  BY <1>6, ScreenTyped, NavigateTyped DEF ActivityLoop, Stay, Enter, Handler
<1>7. QED
  BY <1>1, <1>2, <1>3, <1>4, <1>5, <1>6 DEF Next, Main, Render, vars, request, Boot, BootPaint,
     BootDone, WaitDone, StartRadio, UsbPlugged, BeginLoop, CloseForRestart, Restart,
     GoToSleep, SleepPoll, SleepDone, SleepAborted, ExclusiveLoop, StartFlush, Flush,
     SkipFlush, SkipInput, ActivityLoopWaits, WaitForRadio, StartTransition, TransitionLock,
     ExitRestarts, EnterWaits, HandlerWaits, EndLoop, RenderWake, RenderLockTake,
     RenderPaintDone, RenderAck, RenderUnlock, RadioStopped

\* A step keeps the types of the lock and the waiter.
LEMMA TypeSyncStep == ASSUME TypeOK, [Next]_vars PROVE TypeSync'
<1> USE DEF TypeOK, TypeSync, RenderPoints
<1>1. CASE UNCHANGED <<mutex, rpc, waiting, woken>>
  BY <1>1
<1>2. CASE BootPaint \/ WaitDone \/ GoToSleep \/ RequestSleepScreen
  BY <1>2 DEF BootPaint, StartWait, WaitDone, GoToSleep, RequestSleepScreen
<1>3. CASE StartFlush \/ Flush \/ ActivityLoopWaits \/ TransitionLock
  BY <1>3 DEF StartFlush, Flush, ActivityLoopWaits, StartWait, TransitionLock
<1>4. CASE PopToHome \/ PopToParent \/ ReplaceScreens \/ PushScreen
  BY <1>4 DEF PopToHome, PopToParent, ReplaceScreens, PushScreen
<1>5. CASE EnterWaits \/ HandlerWaits \/ RenderWake \/ RenderLockTake
  BY <1>5 DEF EnterWaits, StartWait, HandlerWaits, RenderWake, RenderLockTake
<1>6. CASE RenderPaintDone \/ RenderAck \/ RenderUnlock \/ Reset
  BY <1>6 DEF RenderPaintDone, RenderAck, RenderUnlock, Reset
<1>7. QED
  BY <1>1, <1>2, <1>3, <1>4, <1>5, <1>6 DEF Next, Main, Render, vars, sync, Boot, BootDone,
     StartRadio, UsbPlugged, BeginLoop, CloseForRestart, Restart, SleepPoll, SleepDone,
     SleepTimeOut, SleepAborted, ExclusiveLoop, SkipFlush, SkipInput, HomeGesture, OpenPanel,
     ActivityLoop, WaitForRadio, StartTransition, ExitRestarts, Enter, Handler, Handled,
     EndLoop, RadioStopped

\* A step keeps the types of the requested updates.
LEMMA TypeUpdateStep == ASSUME TypeOK, [Next]_vars PROVE TypeUpdate'
<1> USE DEF TypeOK, TypeUpdate
<1>1. CASE UNCHANGED <<notified, requestedUpdate, owed>>
  BY <1>1
<1>2. CASE BootPaint \/ UsbPlugged \/ GoToSleep \/ SleepAborted
  BY <1>2 DEF BootPaint, StartWait, UsbPlugged, RequestUpdate, GoToSleep, SleepAborted
<1>3. CASE ExclusiveLoop \/ ActivityLoop \/ ActivityLoopWaits \/ Enter
  BY <1>3 DEF ExclusiveLoop, ActivityLoop, RequestUpdate, RequestUpdateNow, ActivityLoopWaits,
     StartWait, Enter
<1>4. CASE EnterWaits \/ Handler \/ HandlerWaits \/ Handled
  BY <1>4 DEF EnterWaits, StartWait, Handler, RequestUpdate, HandlerWaits, Handled
<1>5. CASE EndLoop \/ RenderWake \/ RenderLockTake \/ Reset
  BY <1>5 DEF EndLoop, RenderWake, RenderLockTake, Reset
<1>6. QED
  BY <1>1, <1>2, <1>3, <1>4, <1>5 DEF Next, Main, Render, vars, update, Boot, BootDone,
     WaitDone, StartRadio, BeginLoop, CloseForRestart, Restart, RequestSleepScreen, SleepPoll,
     SleepDone, SleepTimeOut, StartFlush, Flush, SkipFlush, SkipInput, HomeGesture, OpenPanel,
     WaitForRadio, StartTransition, TransitionLock, ExitRestarts, PopToHome, PopToParent,
     ReplaceScreens, PushScreen, RenderPaintDone, RenderAck, RenderUnlock, RadioStopped

\* A step keeps the types of the deferred writes.
LEMMA TypeSavesStep == ASSUME TypeOK, [Next]_vars PROVE TypeSaves'
<1> USE DEF TypeOK, TypeSaves
<1>1. CASE UNCHANGED <<deferred, frameAfter, sinceDefer>>
  BY <1>1
<1>2. CASE CloseForRestart \/ Flush \/ ExitRestarts \/ RenderLockTake
  BY <1>2, NoWritesFit DEF CloseForRestart, Flush, ExitRestarts, RenderLockTake
<1>3. CASE RenderPaintDone \/ Reset
  BY <1>3, NoWritesFit DEF RenderPaintDone, Reset
<1>4. CASE PopToHome \/ PopToParent \/ ReplaceScreens \/ PushScreen
  BY <1>4, DeferTyped, MayDeferTyped DEF PopToHome, PopToParent, ReplaceScreens, PushScreen
<1>5. QED
  BY <1>1, <1>2, <1>3, <1>4 DEF Next, Main, Render, vars, saves, Boot, BootPaint, BootDone,
     WaitDone, StartRadio, UsbPlugged, BeginLoop, Restart, GoToSleep, RequestSleepScreen,
     SleepPoll, SleepDone, SleepTimeOut, SleepAborted, ExclusiveLoop, StartFlush, SkipFlush,
     SkipInput, HomeGesture, OpenPanel, ActivityLoop, ActivityLoopWaits, WaitForRadio,
     StartTransition, TransitionLock, Enter, EnterWaits, Handler, HandlerWaits, Handled,
     EndLoop, RenderWake, RenderAck, RenderUnlock, RadioStopped

\* A step keeps the types of the radio and sleep.
LEMMA TypePowerStep == ASSUME TypeOK, [Next]_vars PROVE TypePower'
<1> USE DEF TypeOK, TypePower
<1>1. CASE UNCHANGED <<radio, sleepTransition, inSleep>>
  BY <1>1
<1>2. CASE StartRadio \/ GoToSleep \/ RequestSleepScreen \/ SleepAborted
  BY <1>2 DEF StartRadio, GoToSleep, RequestSleepScreen, SleepAborted
<1>3. CASE WaitForRadio \/ StartTransition \/ RadioStopped \/ Reset
  BY <1>3 DEF WaitForRadio, StartTransition, RadioStopped, Reset
<1>4. QED
  BY <1>1, <1>2, <1>3 DEF Next, Main, Render, vars, power, Boot, BootPaint, BootDone, WaitDone,
     UsbPlugged, BeginLoop, CloseForRestart, Restart, SleepPoll, SleepDone, SleepTimeOut,
     ExclusiveLoop, StartFlush, Flush, SkipFlush, SkipInput, HomeGesture, OpenPanel,
     ActivityLoop, ActivityLoopWaits, TransitionLock, ExitRestarts, PopToHome, PopToParent,
     ReplaceScreens, PushScreen, Enter, EnterWaits, Handler, HandlerWaits, Handled, EndLoop,
     RenderWake, RenderLockTake, RenderPaintDone, RenderAck, RenderUnlock

\* A step keeps the types of the main task's points.
LEMMA TypePointsStep == ASSUME TypeOK, [Next]_vars PROVE TypePoints'
<1> USE DEF TypeOK, TypePoints, MainPoints
<1>1. CASE UNCHANGED <<pc, ret, panel>>
  BY <1>1
<1>2. CASE Boot \/ BootPaint \/ BootDone \/ WaitDone
  BY <1>2 DEF Boot, StateChanged, BootPaint, StartWait, BootDone, WaitDone
<1>3. CASE UsbPlugged \/ BeginLoop \/ CloseForRestart \/ Restart
  BY <1>3 DEF UsbPlugged, StateChanged, BeginLoop, CloseForRestart, Restart
<1>4. CASE GoToSleep \/ RequestSleepScreen \/ SleepPoll \/ SleepDone
  BY <1>4 DEF GoToSleep, StateChanged, RequestSleepScreen, SleepPoll, SleepDone
<1>5. CASE SleepTimeOut \/ SleepAborted \/ ExclusiveLoop \/ StartFlush
  BY <1>5 DEF SleepTimeOut, SleepAborted, ExclusiveLoop, StateChanged, StartFlush
<1>6. CASE Flush \/ SkipFlush \/ SkipInput \/ HomeGesture
  BY <1>6 DEF Flush, SkipFlush, SkipInput, HomeGesture
<1>7. CASE OpenPanel \/ ActivityLoop \/ ActivityLoopWaits \/ WaitForRadio
  BY <1>7 DEF OpenPanel, ActivityLoop, StateChanged, ActivityLoopWaits, StartWait, WaitForRadio
<1>8. CASE StartTransition \/ TransitionLock \/ ExitRestarts \/ PopToHome
  BY <1>8 DEF StartTransition, TransitionLock, ExitRestarts, PopToHome, StateChanged
<1>9. CASE PopToParent \/ ReplaceScreens \/ PushScreen \/ Enter
  BY <1>9 DEF PopToParent, StateChanged, ReplaceScreens, PushScreen, Enter
<1>10. CASE EnterWaits \/ Handler \/ HandlerWaits \/ Handled
  BY <1>10 DEF EnterWaits, StateChanged, StartWait, Handler, HandlerWaits, Handled
<1>11. CASE EndLoop \/ RenderLockTake \/ RenderPaintDone \/ Reset
  BY <1>11 DEF EndLoop, RenderLockTake, RenderPaintDone, Reset
<1>12. QED
  BY <1>1, <1>2, <1>3, <1>4, <1>5, <1>6, <1>7, <1>8, <1>9, <1>10, <1>11 DEF Next, Main, Render,
     vars, StartRadio, RenderWake, RenderAck, RenderUnlock, RadioStopped

\* Every variable has its type when the device starts.
LEMMA TypeInit == Init => TypeOK
<1>1. Init => TypeScreens /\ TypeRequest
  BY ScreenTyped, StackTyped DEF Init, TypeScreens, TypeRequest
<1>2. Init => TypeSync /\ TypeUpdate /\ TypePower /\ TypePoints
  BY DEF Init, TypeSync, TypeUpdate, TypePower, TypePoints, MainPoints, RenderPoints
<1>3. Init => TypeSaves
  BY NoWritesFit DEF Init, TypeSaves
<1>4. QED
  BY <1>1, <1>2, <1>3 DEF TypeOK

\* Every step keeps the types.
LEMMA TypeStep == TypeOK /\ [Next]_vars => TypeOK'
  BY TypeScreensStep, TypeRequestStep, TypeSyncStep, TypeUpdateStep, TypeSavesStep,
     TypePowerStep, TypePointsStep DEF TypeOK

\* Every variable keeps its type, and the deferred writes keep to their slots,
\* in every behaviour of the screen manager.
THEOREM TypeCorrect == Spec => []TypeOK
  BY TypeInit, TypeStep, PTL DEF Spec

(***************************************************************************)
(* The steps of the inductive invariant, part by part.                     *)
(***************************************************************************)
\* Only a reader that is not closed for sleep leaves writes for later.
LEMMA NothingToDefer ==
  /\ \A kinds : "reader" \notin kinds \/ sleepTransition => MayDefer(kinds) = {{}}
  /\ DeferWrites({}, {}) => deferred' = {}
<1>1. \A kinds : "reader" \notin kinds \/ sleepTransition => MayDefer(kinds) = {{}}
  BY DEF MayDefer
<1>2. DeferWrites({}, {}) => deferred' = {}
  BY DEF DeferWrites
<1>. QED
  BY <1>1, <1>2

\* The kinds of the screens that the manager itself creates.
LEMMA ScreenKinds ==
  /\ \A k, r : Screen(k, r).kind = k /\ Screen(k, r).forResult = r
  /\ NoScreen.kind = "none" /\ FrontlightPanel.kind = "menu"
  /\ "none" \notin Kinds
  /\ "home" \in Kinds /\ "reader" \in Kinds /\ "menu" \in Kinds
  /\ "transfer" \in Kinds /\ "usb" \in Kinds /\ "sleep" \in Kinds
  BY DEF Screen, NoScreen, FrontlightPanel, Kinds

\* A navigation request names its screen.
LEMMA NavigateRequest == ASSUME TypeOK, Navigate PROVE RequestInv'
<1>1. CASE \E k \in ReplaceTargets(current.kind) : Replace(Screen(k, FALSE))
  <2>1. PICK k \in ReplaceTargets(current.kind) :
           pending' = Screen(k, FALSE) /\ action' = "Replace"
    BY <1>1 DEF Replace
  <2>2. k \in Kinds
    BY ReplacedByKinds, ScreenKinds
  <2>3. pending'.kind = k
    BY <2>1, ScreenKinds
  <2>4. QED
    BY <2>1, <2>2, <2>3 DEF RequestInv
<1>2. CASE pending' = Screen("menu", TRUE) /\ action' = "Push"
  BY <1>2, ScreenKinds DEF RequestInv
<1>3. CASE pending' = NoScreen /\ action' = "Pop"
  BY <1>3 DEF RequestInv
<1>4. QED
  BY <1>1, <1>2, <1>3 DEF Navigate

\* A navigation request asks for USB Drive from a file transfer only.
LEMMA NavigateToUsb ==
  Navigate /\ pending'.kind = "usb" => action' = "Replace" /\ current.kind = "transfer"
<1>1. ASSUME Navigate, pending'.kind = "usb",
             NEW k \in ReplaceTargets(current.kind), Replace(Screen(k, FALSE))
      PROVE  action' = "Replace" /\ current.kind = "transfer"
  <2>1. pending'.kind = k
    BY <1>1, ScreenKinds DEF Replace
  <2>2. QED
    BY <1>1, <2>1, ReplacedByKinds DEF Replace
<1>2. CASE pending' \in {Screen("menu", TRUE), NoScreen}
  BY <1>2, ScreenKinds
<1>3. QED
  BY <1>1, <1>2 DEF Navigate

\* In every step the lock stays with its holder.
LEMMA LockInvStep == ASSUME TypeOK, LockInv, [Next]_vars PROVE LockInv'
<1> USE DEF LockInv, TypeOK, TypeSync, TypePoints, MainPoints, RenderPoints, sync
<1>1. CASE GoToSleep
  BY <1>1 DEF GoToSleep
<1>2. CASE RequestSleepScreen
  BY <1>2 DEF RequestSleepScreen
<1>3. CASE StartFlush
  BY <1>3 DEF StartFlush
<1>4. CASE Flush
  BY <1>4 DEF Flush
<1>5. CASE TransitionLock
  BY <1>5 DEF TransitionLock
<1>6. CASE PopToHome
  BY <1>6 DEF PopToHome, CanClose
<1>7. CASE PopToParent
  BY <1>7 DEF PopToParent, CanClose
<1>8. CASE ReplaceScreens
  BY <1>8 DEF ReplaceScreens, CanClose
<1>9. CASE PushScreen
  BY <1>9 DEF PushScreen, CanClose
<1>10. CASE RenderWake
  BY <1>10 DEF RenderWake
<1>11. CASE RenderLockTake
  BY <1>11 DEF RenderLockTake, MayPaint
<1>12. CASE RenderPaintDone
  BY <1>12 DEF RenderPaintDone
<1>13. CASE RenderAck
  BY <1>13 DEF RenderAck
<1>14. CASE RenderUnlock
  BY <1>14 DEF RenderUnlock
<1>15. CASE Reset
  BY <1>15 DEF Reset
<1>16. CASE Boot \/ BootPaint \/ BootDone \/ WaitDone \/ StartRadio \/ UsbPlugged
  BY <1>16 DEF Boot, BootPaint, StartWait, BootDone, WaitDone, StartRadio, UsbPlugged
<1>17. CASE BeginLoop \/ CloseForRestart \/ Restart \/ SleepPoll \/ SleepDone \/ SleepTimeOut
  BY <1>17 DEF BeginLoop, CloseForRestart, Restart, SleepPoll, SleepDone, SleepTimeOut
<1>18. CASE SleepAborted \/ ExclusiveLoop \/ SkipFlush \/ SkipInput \/ HomeGesture \/ OpenPanel
  BY <1>18 DEF SleepAborted, ExclusiveLoop, SkipFlush, SkipInput, TakesInput, HomeGesture,
     OpenPanel
<1>19. CASE ActivityLoop \/ ActivityLoopWaits \/ WaitForRadio \/ StartTransition \/
   ExitRestarts \/ Enter
  BY <1>19 DEF ActivityLoop, TakesInput, ActivityLoopWaits, StartWait, WaitForRadio,
     StartTransition, ExitRestarts, CanClose, Enter
<1>20. CASE EnterWaits \/ Handler \/ HandlerWaits \/ Handled \/ EndLoop \/ RadioStopped
  BY <1>20 DEF EnterWaits, StartWait, Handler, HandlerWaits, Handled, EndLoop, RadioStopped
<1>21. CASE UNCHANGED vars
  BY <1>21 DEF vars
<1>22. QED
  BY <1>1, <1>2, <1>3, <1>4, <1>5, <1>6, <1>7, <1>8, <1>9, <1>10, <1>11, <1>12, <1>13, <1>14,
     <1>15, <1>16, <1>17, <1>18, <1>19, <1>20, <1>21 DEF Next, Main, Render

\* In every step the pending action keeps its screen.
LEMMA RequestInvStep == ASSUME TypeOK, RequestInv, [Next]_vars PROVE RequestInv'
<1>1. CASE RequestSleepScreen
  BY <1>1, ScreenKinds DEF RequestInv, RequestSleepScreen, Replace
<1>2. CASE SleepTimeOut
  BY <1>2, ScreenKinds DEF RequestInv, SleepTimeOut
<1>3. CASE HomeGesture
  <2>1. CASE pending' = NoScreen /\ action' = "Pop"
    BY <2>1 DEF RequestInv
  <2>2. CASE Replace(Screen("home", FALSE))
    BY <2>2, ScreenKinds DEF Replace, RequestInv
  <2>3. QED
    BY <1>3, <2>1, <2>2 DEF HomeGesture
<1>4. CASE OpenPanel
  BY <1>4, ScreenKinds DEF RequestInv, OpenPanel, TakesInput
<1>5. CASE ActivityLoop
  BY <1>5, NavigateRequest, ScreenKinds DEF RequestInv, ActivityLoop, Stay, TypeOK, TypeRequest
<1>6. CASE PopToHome
  BY <1>6 DEF RequestInv, TypeOK, TypeScreens, TypeRequest, PopToHome, CanClose, Screen,
     request
<1>7. CASE PopToParent
  BY <1>7 DEF RequestInv, TypeOK, TypeScreens, TypeRequest, PopToParent, CanClose, request
<1>8. CASE ReplaceScreens
  BY <1>8 DEF RequestInv, TypeOK, TypeScreens, TypeRequest, ReplaceScreens, CanClose, NoScreen,
     Screen, request
<1>9. CASE PushScreen
  BY <1>9 DEF RequestInv, TypeOK, TypeScreens, TypeRequest, PushScreen, CanClose, NoScreen,
     Screen, request
<1>10. CASE Enter
  BY <1>10, NavigateRequest, ScreenKinds DEF RequestInv, Enter, Stay, TypeOK, TypeRequest
<1>11. CASE Handler
  BY <1>11, NavigateRequest, ScreenKinds DEF RequestInv, Handler, Stay, TypeOK, TypeRequest
<1>12. CASE Handled
  <2>1. CASE GoHomeAfterInput
    BY <1>12, <2>1, ScreenKinds DEF GoHomeAfterInput, Replace, RequestInv
  <2>2. CASE Stay
    BY <1>12, <2>2 DEF Stay, RequestInv
  <2>3. CASE pending' = Screen("menu", TRUE) /\ action' = "Push"
    BY <1>12, <2>3, ScreenKinds DEF RequestInv
  <2>4. QED
    BY <1>12, <2>1, <2>2, <2>3 DEF Handled
<1>13. CASE Reset
  BY <1>13 DEF RequestInv, TypeOK, TypeScreens, TypeRequest, Reset, NoScreen, Screen, request
<1>14. CASE Boot \/ BootPaint \/ BootDone \/ WaitDone \/ StartRadio \/ UsbPlugged
  BY <1>14 DEF RequestInv, TypeOK, TypeScreens, TypeRequest, Boot, Screen, NoScreen, BootPaint,
     BootDone, WaitDone, StartRadio, UsbPlugged, request
<1>15. CASE BeginLoop \/ CloseForRestart \/ Restart \/ GoToSleep \/ SleepPoll \/ SleepDone
  BY <1>15 DEF RequestInv, TypeOK, TypeScreens, TypeRequest, BeginLoop, CloseForRestart,
     NoScreen, Screen, Restart, GoToSleep, SleepPoll, SleepDone, request
<1>16. CASE SleepAborted \/ ExclusiveLoop \/ StartFlush \/ Flush \/ SkipFlush \/ SkipInput
  BY <1>16 DEF RequestInv, TypeOK, TypeScreens, TypeRequest, SleepAborted, ExclusiveLoop,
     StartFlush, Flush, SkipFlush, SkipInput, TakesInput, request
<1>17. CASE ActivityLoopWaits \/ WaitForRadio \/ StartTransition \/ TransitionLock \/
   ExitRestarts \/ EnterWaits
  BY <1>17 DEF RequestInv, TypeOK, TypeScreens, TypeRequest, ActivityLoopWaits, TakesInput,
     WaitForRadio, StartTransition, TransitionLock, ExitRestarts, CanClose, EnterWaits, request
<1>18. CASE HandlerWaits \/ EndLoop \/ RenderWake \/ RenderLockTake \/ RenderPaintDone \/
   RenderAck
  BY <1>18 DEF RequestInv, TypeOK, TypeScreens, TypeRequest, HandlerWaits, EndLoop, RenderWake,
     RenderLockTake, MayPaint, RenderPaintDone, RenderAck, request
<1>19. CASE RenderUnlock \/ RadioStopped
  BY <1>19 DEF RequestInv, TypeOK, TypeScreens, TypeRequest, RenderUnlock, RadioStopped,
     request
<1>20. CASE UNCHANGED vars
  BY <1>20 DEF RequestInv, TypeOK, TypeScreens, TypeRequest, vars, request
<1>21. QED
  BY <1>1, <1>2, <1>3, <1>4, <1>5, <1>6, <1>7, <1>8, <1>9, <1>10, <1>11, <1>12, <1>13, <1>14,
     <1>15, <1>16, <1>17, <1>18, <1>19, <1>20 DEF Next, Main, Render

\* In every step goToSleep() stays where it can be.
LEMMA SleepInvStep == ASSUME TypeOK, RequestInv, SleepInv, [Next]_vars PROVE SleepInv'
<1> USE DEF SleepInv, RequestInv, TypeOK, TypePower, TypePoints, MainPoints, screens, request,
   power
<1>1. CASE Boot
  BY <1>1 DEF Boot, Screen, NoScreen
<1>2. CASE BootPaint
  BY <1>2 DEF BootPaint, StartWait
<1>3. CASE WaitDone
  BY <1>3 DEF WaitDone
<1>4. CASE CloseForRestart
  BY <1>4 DEF CloseForRestart, NoScreen, Screen
<1>5. CASE Restart
  BY <1>5 DEF Restart, Screen
<1>6. CASE GoToSleep
  BY <1>6 DEF GoToSleep
<1>7. CASE RequestSleepScreen
  BY <1>7 DEF RequestSleepScreen, Replace, Screen
<1>8. CASE SleepTimeOut
  BY <1>8 DEF SleepTimeOut, NoScreen, Screen
<1>9. CASE SleepAborted
  BY <1>9 DEF SleepAborted
<1>10. CASE HomeGesture
  BY <1>10 DEF HomeGesture, TakesInput, Replace, Screen, NoScreen
<1>11. CASE OpenPanel
  BY <1>11 DEF OpenPanel, TakesInput, FrontlightPanel, Screen
<1>12. CASE ActivityLoop
  BY <1>12 DEF ActivityLoop, TakesInput, Stay, Navigate, Replace, Screen, NoScreen
<1>13. CASE PopToHome
  BY <1>13 DEF PopToHome, CanClose, Screen
<1>14. CASE PopToParent
  BY <1>14 DEF PopToParent, CanClose
<1>15. CASE ReplaceScreens
  BY <1>15 DEF ReplaceScreens, CanClose, NoScreen, Screen
<1>16. CASE PushScreen
  BY <1>16 DEF PushScreen, CanClose, NoScreen, Screen
<1>17. CASE Enter
  BY <1>17 DEF Enter, Stay, Navigate, Replace, Screen, NoScreen
<1>18. CASE Handler
  BY <1>18 DEF Handler, Stay, Navigate, Replace, Screen, NoScreen
<1>19. CASE Handled
  BY <1>19 DEF Handled, GoHomeAfterInput, Stay, Replace, Screen, NoScreen
<1>20. CASE Reset
  BY <1>20 DEF Reset, NoScreen, Screen
<1>21. CASE BootDone \/ StartRadio \/ UsbPlugged \/ BeginLoop \/ SleepPoll \/ SleepDone
  BY <1>21 DEF BootDone, StartRadio, UsbPlugged, BeginLoop, SleepPoll, SleepDone
<1>22. CASE ExclusiveLoop \/ StartFlush \/ Flush \/ SkipFlush \/ SkipInput \/ ActivityLoopWaits
  BY <1>22 DEF ExclusiveLoop, StartFlush, Flush, SkipFlush, SkipInput, TakesInput,
     ActivityLoopWaits, StartWait
<1>23. CASE WaitForRadio \/ StartTransition \/ TransitionLock \/ ExitRestarts \/ EnterWaits \/
   HandlerWaits
  BY <1>23 DEF WaitForRadio, StartTransition, TransitionLock, ExitRestarts, CanClose,
     EnterWaits, StartWait, HandlerWaits
<1>24. CASE EndLoop \/ RenderWake \/ RenderLockTake \/ RenderPaintDone \/ RenderAck \/
   RenderUnlock
  BY <1>24 DEF EndLoop, RenderWake, RenderLockTake, MayPaint, RenderPaintDone, RenderAck,
     RenderUnlock
<1>25. CASE RadioStopped
  BY <1>25 DEF RadioStopped
<1>26. CASE UNCHANGED vars
  BY <1>26 DEF vars
<1>27. QED
  BY <1>1, <1>2, <1>3, <1>4, <1>5, <1>6, <1>7, <1>8, <1>9, <1>10, <1>11, <1>12, <1>13, <1>14,
     <1>15, <1>16, <1>17, <1>18, <1>19, <1>20, <1>21, <1>22, <1>23, <1>24, <1>25, <1>26 DEF
     Next, Main, Render

\* In every step the screen in front keeps to its rules.
LEMMA FrontInvStep == ASSUME TypeOK, LockInv, RequestInv, SleepInv, StackInv, FrontInv,
   [Next]_vars PROVE FrontInv'
<1>1. CASE Boot
  BY <1>1 DEF FrontInv, TypeOK, TypePoints, TypeScreens, RequestInv, SleepInv, LockInv,
     MainPoints, Boot, Screen, NoScreen, screens, request, sync
<1>2. CASE CloseForRestart
  <2>1. /\ current' = NoScreen /\ UNCHANGED <<stack, pending, action, rpc>>
        /\ action = "None" /\ pc' = "restart" /\ mutex = "free"
    BY <1>2 DEF CloseForRestart, request, sync
  <2>2. stack = <<>> /\ rpc # "paint" /\ pending = NoScreen
    BY <1>2, <2>1 DEF CloseForRestart, StackInv, LockInv, RequestInv
  <2>3. NoScreen.kind = "none"
    BY ScreenKinds
  <2>4. QED
    BY <2>1, <2>2, <2>3 DEF FrontInv
<1>3. CASE Restart
  <2>1. /\ pc = "restart" /\ UNCHANGED <<pending, action, stack, rpc>>
        /\ \/ pc' = "off" /\ current' = current
           \/ current' = Screen("reader", FALSE) /\ pc' = "enter"
    BY <1>3 DEF Restart, request, sync
  <2>2. current = NoScreen /\ action = "None" /\ pending = NoScreen
    BY <2>1 DEF FrontInv, RequestInv
  <2>3. CASE pc' = "off" /\ current' = current
    BY <2>1, <2>2, <2>3, ScreenKinds DEF FrontInv
  <2>4. CASE current' = Screen("reader", FALSE) /\ pc' = "enter"
    <3>1. current'.kind = "reader"
      BY <2>4, ScreenKinds
    <3>2. pending'.kind = "none"
      BY <2>1, <2>2, ScreenKinds
    <3>3. current' # NoScreen
      BY <3>1, ScreenKinds
    <3>4. QED
      BY <2>4, <3>1, <3>2, <3>3 DEF FrontInv
  <2>5. QED
    BY <2>1, <2>3, <2>4
<1>4. CASE RequestSleepScreen
  BY <1>4 DEF FrontInv, TypeOK, TypePoints, TypeScreens, RequestInv, SleepInv, LockInv,
     MainPoints, RequestSleepScreen, Replace, Screen, screens, request, sync
<1>5. CASE SleepTimeOut
  BY <1>5 DEF FrontInv, TypeOK, TypePoints, TypeScreens, RequestInv, SleepInv, LockInv,
     MainPoints, SleepTimeOut, NoScreen, Screen, screens, request, sync
<1>6. CASE HomeGesture
  <2>1. UNCHANGED <<current, stack, rpc>> /\ pc = "input" /\ pc' = "idle"
    BY <1>6 DEF HomeGesture, screens, sync
  <2>2. current.kind # "usb" /\ current # NoScreen
    BY <2>1 DEF FrontInv
  <2>3. pending' = NoScreen \/ pending' = Screen("home", FALSE)
    BY <1>6 DEF HomeGesture, Replace
  <2>4. pending'.kind # "usb"
    <3>1. CASE pending' = NoScreen
      BY <3>1, ScreenKinds
    <3>2. CASE pending' = Screen("home", FALSE)
      <4>1. pending'.kind = "home"
        BY <3>2, ScreenKinds
      <4>. QED
        BY <4>1
    <3>3. QED
      BY <2>3, <3>1, <3>2
  <2>5. QED
    BY <2>1, <2>2, <2>4 DEF FrontInv
<1>7. CASE OpenPanel
  BY <1>7 DEF FrontInv, TypeOK, TypePoints, TypeScreens, RequestInv, SleepInv, LockInv,
     MainPoints, OpenPanel, TakesInput, FrontlightPanel, Screen, screens, request, sync
<1>8. CASE ActivityLoop
  <2>1. UNCHANGED <<current, stack, rpc>> /\ pc = "input" /\ pc' = "pending"
    BY <1>8 DEF ActivityLoop, sync
  <2>2. current.kind # "usb" /\ current # NoScreen
    BY <2>1 DEF FrontInv
  <2>3. pending'.kind = "usb" => action' = "Replace" /\ current.kind = "transfer"
    <3>1. CASE Stay
      BY <3>1 DEF Stay, FrontInv
    <3>2. CASE Navigate
      BY <3>2, NavigateToUsb
    <3>3. CASE pending' = NoScreen
      BY <3>3, ScreenKinds
    <3>4. QED
      BY <1>8, <3>1, <3>2, <3>3 DEF ActivityLoop
  <2>4. QED
    BY <2>1, <2>2, <2>3 DEF FrontInv
<1>9. CASE PopToHome
  <2>1. /\ current' = Screen("home", FALSE) /\ pending' = pending /\ action = "Pop"
        /\ pc' = "enter"
    BY <1>9 DEF PopToHome, CanClose
  <2>2. current'.kind = "home"
    BY <2>1, ScreenKinds
  <2>3. pending.kind # "usb" /\ current' # NoScreen
    BY <2>1, <2>2, ScreenKinds DEF FrontInv
  <2>4. QED
    BY <2>1, <2>2, <2>3 DEF FrontInv
<1>10. CASE PopToParent
  <2>1. /\ current' = stack[Len(stack)].screen /\ pending' = pending /\ action = "Pop"
        /\ pc' \in {"handler", "handled"} /\ Len(stack) \in DOMAIN stack
    BY <1>10 DEF PopToParent, CanClose, TypeOK, TypeScreens
  <2>2. current'.kind \notin {"none", "usb"}
    BY <2>1 DEF StackInv
  <2>3. pending.kind # "usb" /\ current' # NoScreen
    BY <2>1, <2>2, ScreenKinds DEF FrontInv
  <2>4. QED
    BY <2>1, <2>2, <2>3 DEF FrontInv
<1>11. CASE ReplaceScreens
  <2>1. /\ current' = pending /\ pending' = NoScreen /\ action' = "None"
        /\ pc' = "enter" /\ ret' = "pending" /\ pending.kind \in Kinds
    BY <1>11 DEF ReplaceScreens, CanClose, RequestInv
  <2>2. pending.kind # "none" /\ pending # NoScreen /\ NoScreen.kind # "usb"
    BY <2>1, ScreenKinds
  <2>3. QED
    BY <2>1, <2>2 DEF FrontInv
<1>12. CASE PushScreen
  BY <1>12 DEF FrontInv, TypeOK, TypePoints, TypeScreens, RequestInv, SleepInv, LockInv,
     MainPoints, PushScreen, CanClose, NoScreen, Screen, screens, request, sync
<1>13. CASE Enter
  <2>1. UNCHANGED <<current, stack, rpc, ret>> /\ pc = "enter" /\ pc' = ret
    BY <1>13 DEF Enter, sync
  <2>2. current # NoScreen /\ ret # "restart"
    BY <2>1 DEF FrontInv, TypeOK, TypePoints
  <2>3. pending'.kind = "usb" => action' = "Replace" /\ current.kind = "transfer"
    BY <1>13, NavigateToUsb DEF Enter, Stay, FrontInv
  <2>4. current.kind = "usb" => action' = "None" /\ pc' = "pending"
    BY <1>13, <2>1 DEF Enter, Stay, FrontInv
  <2>5. QED
    BY <2>1, <2>2, <2>3, <2>4 DEF FrontInv
<1>14. CASE Handler
  <2>1. UNCHANGED <<current, stack, rpc>> /\ pc = "handler" /\ pc' = "handled"
    BY <1>14 DEF Handler, sync
  <2>2. current.kind # "usb" /\ current # NoScreen
    BY <2>1 DEF FrontInv
  <2>3. pending'.kind = "usb" => action' = "Replace" /\ current.kind = "transfer"
    BY <1>14, NavigateToUsb DEF Handler, Stay, FrontInv
  <2>4. QED
    BY <2>1, <2>2, <2>3 DEF FrontInv
<1>15. CASE Handled
  BY <1>15 DEF FrontInv, TypeOK, TypePoints, TypeScreens, RequestInv, SleepInv, LockInv,
     MainPoints, Handled, GoHomeAfterInput, Stay, Replace, Screen, NoScreen, screens, request,
     sync
<1>16. CASE RenderWake
  BY <1>16 DEF FrontInv, TypeOK, TypePoints, TypeScreens, RequestInv, SleepInv, LockInv,
     MainPoints, RenderWake, screens, request, sync
<1>17. CASE RenderLockTake
  BY <1>17 DEF FrontInv, TypeOK, TypePoints, TypeScreens, RequestInv, SleepInv, LockInv,
     MainPoints, RenderLockTake, MayPaint, screens, request, sync
<1>18. CASE RenderPaintDone
  BY <1>18 DEF FrontInv, TypeOK, TypePoints, TypeScreens, RequestInv, SleepInv, LockInv,
     MainPoints, RenderPaintDone, screens, request, sync
<1>19. CASE RenderAck
  BY <1>19 DEF FrontInv, TypeOK, TypePoints, TypeScreens, RequestInv, SleepInv, LockInv,
     MainPoints, RenderAck, screens, request, sync
<1>20. CASE RenderUnlock
  BY <1>20 DEF FrontInv, TypeOK, TypePoints, TypeScreens, RequestInv, SleepInv, LockInv,
     MainPoints, RenderUnlock, screens, request, sync
<1>21. CASE Reset
  BY <1>21 DEF FrontInv, TypeOK, TypePoints, TypeScreens, RequestInv, SleepInv, LockInv,
     MainPoints, Reset, NoScreen, Screen, screens, request, sync
<1>22. CASE BootPaint \/ BootDone \/ WaitDone \/ StartRadio \/ UsbPlugged \/ BeginLoop
  BY <1>22 DEF FrontInv, TypeOK, TypePoints, TypeScreens, RequestInv, SleepInv, LockInv,
     MainPoints, BootPaint, StartWait, BootDone, WaitDone, StartRadio, UsbPlugged, BeginLoop,
     screens, request, sync
<1>23. CASE GoToSleep \/ SleepPoll \/ SleepDone \/ SleepAborted \/ ExclusiveLoop \/ StartFlush
  BY <1>23 DEF FrontInv, TypeOK, TypePoints, TypeScreens, RequestInv, SleepInv, LockInv,
     MainPoints, GoToSleep, SleepPoll, SleepDone, SleepAborted, ExclusiveLoop, StartFlush,
     screens, request, sync
<1>24. CASE Flush \/ SkipFlush \/ SkipInput \/ ActivityLoopWaits \/ WaitForRadio \/
   StartTransition
  BY <1>24 DEF FrontInv, TypeOK, TypePoints, TypeScreens, RequestInv, SleepInv, LockInv,
     MainPoints, Flush, SkipFlush, SkipInput, TakesInput, ActivityLoopWaits, StartWait,
     WaitForRadio, StartTransition, screens, request, sync
<1>25. CASE TransitionLock \/ ExitRestarts \/ EnterWaits \/ HandlerWaits \/ EndLoop \/
   RadioStopped
  BY <1>25 DEF FrontInv, TypeOK, TypePoints, TypeScreens, RequestInv, SleepInv, LockInv,
     MainPoints, TransitionLock, ExitRestarts, CanClose, EnterWaits, StartWait, HandlerWaits,
     EndLoop, RadioStopped, screens, request, sync
<1>26. CASE UNCHANGED vars
  BY <1>26 DEF FrontInv, TypeOK, TypePoints, TypeScreens, RequestInv, SleepInv, LockInv,
     MainPoints, vars, screens, request, sync
<1>27. QED
  BY <1>1, <1>2, <1>3, <1>4, <1>5, <1>6, <1>7, <1>8, <1>9, <1>10, <1>11, <1>12, <1>13, <1>14,
     <1>15, <1>16, <1>17, <1>18, <1>19, <1>20, <1>21, <1>22, <1>23, <1>24, <1>25, <1>26 DEF
     Next, Main, Render

\* In every step only menus cover a screen.
LEMMA StackInvStep == ASSUME TypeOK, RequestInv, FrontInv, StackInv, [Next]_vars PROVE
   StackInv'
<1> USE DEF StackInv, TypeOK, TypeScreens, RequestInv, FrontInv, screens
<1>1. CASE Boot
  BY <1>1 DEF Boot, Screen, NoScreen
<1>2. CASE CloseForRestart
  BY <1>2 DEF CloseForRestart, NoScreen, Screen
<1>3. CASE Restart
  BY <1>3 DEF Restart, Screen
<1>4. CASE PopToHome
  BY <1>4 DEF PopToHome, CanClose, Screen
<1>5. CASE PopToParent
  BY <1>5 DEF PopToParent, CanClose
<1>6. CASE ReplaceScreens
  BY <1>6 DEF ReplaceScreens, CanClose, StackCleared, NoScreen, Screen
<1>7. CASE PushScreen
  BY <1>7 DEF PushScreen, CanClose, NoScreen, Screen
<1>8. CASE Reset
  BY <1>8 DEF Reset, NoScreen, Screen
<1>9. CASE BootPaint \/ BootDone \/ WaitDone \/ StartRadio \/ UsbPlugged \/ BeginLoop
  BY <1>9 DEF BootPaint, BootDone, WaitDone, StartRadio, UsbPlugged, BeginLoop
<1>10. CASE GoToSleep \/ RequestSleepScreen \/ SleepPoll \/ SleepDone \/ SleepTimeOut \/
   SleepAborted
  BY <1>10 DEF GoToSleep, RequestSleepScreen, Screen, SleepPoll, SleepDone, SleepTimeOut,
     NoScreen, SleepAborted
<1>11. CASE ExclusiveLoop \/ StartFlush \/ Flush \/ SkipFlush \/ SkipInput \/ HomeGesture
  BY <1>11 DEF ExclusiveLoop, StartFlush, Flush, SkipFlush, SkipInput, TakesInput, HomeGesture,
     Screen, NoScreen
<1>12. CASE OpenPanel \/ ActivityLoop \/ ActivityLoopWaits \/ WaitForRadio \/ StartTransition
   \/ TransitionLock
  BY <1>12 DEF OpenPanel, TakesInput, FrontlightPanel, Screen, ActivityLoop, NoScreen,
     ActivityLoopWaits, WaitForRadio, StartTransition, TransitionLock
<1>13. CASE ExitRestarts \/ Enter \/ EnterWaits \/ Handler \/ HandlerWaits \/ Handled
  BY <1>13 DEF ExitRestarts, CanClose, Enter, Screen, NoScreen, EnterWaits, Handler,
     HandlerWaits, Handled
<1>14. CASE EndLoop \/ RenderWake \/ RenderLockTake \/ RenderPaintDone \/ RenderAck \/
   RenderUnlock
  BY <1>14 DEF EndLoop, RenderWake, RenderLockTake, MayPaint, RenderPaintDone, RenderAck,
     RenderUnlock
<1>15. CASE RadioStopped
  BY <1>15 DEF RadioStopped
<1>16. CASE UNCHANGED vars
  BY <1>16 DEF vars
<1>17. QED
  BY <1>1, <1>2, <1>3, <1>4, <1>5, <1>6, <1>7, <1>8, <1>9, <1>10, <1>11, <1>12, <1>13, <1>14,
     <1>15, <1>16 DEF Next, Main, Render

\* In every step no paint begins in sleep.
LEMMA PaintInvStep == ASSUME TypeOK, LockInv, SleepInv, PaintInv, [Next]_vars PROVE PaintInv'
<1> USE DEF PaintInv, LockInv, SleepInv, TypeOK, TypePower, TypeSync, sync, power
<1>1. CASE GoToSleep
  BY <1>1 DEF GoToSleep
<1>2. CASE SleepAborted
  BY <1>2 DEF SleepAborted
<1>3. CASE RenderWake
  BY <1>3 DEF RenderWake
<1>4. CASE RenderLockTake
  BY <1>4 DEF RenderLockTake, MayPaint
<1>5. CASE RenderPaintDone
  BY <1>5 DEF RenderPaintDone
<1>6. CASE RenderAck
  BY <1>6 DEF RenderAck
<1>7. CASE RenderUnlock
  BY <1>7 DEF RenderUnlock
<1>8. CASE Reset
  BY <1>8 DEF Reset
<1>9. CASE Boot \/ BootPaint \/ BootDone \/ WaitDone \/ StartRadio \/ UsbPlugged
  BY <1>9 DEF Boot, BootPaint, BootDone, WaitDone, StartRadio, UsbPlugged
<1>10. CASE BeginLoop \/ CloseForRestart \/ Restart \/ RequestSleepScreen \/ SleepPoll \/
   SleepDone
  BY <1>10 DEF BeginLoop, CloseForRestart, Restart, RequestSleepScreen, SleepPoll, SleepDone
<1>11. CASE SleepTimeOut \/ ExclusiveLoop \/ StartFlush \/ Flush \/ SkipFlush \/ SkipInput
  BY <1>11 DEF SleepTimeOut, ExclusiveLoop, StartFlush, Flush, SkipFlush, SkipInput, TakesInput
<1>12. CASE HomeGesture \/ OpenPanel \/ ActivityLoop \/ ActivityLoopWaits \/ WaitForRadio \/
   StartTransition
  BY <1>12 DEF HomeGesture, TakesInput, OpenPanel, ActivityLoop, ActivityLoopWaits,
     WaitForRadio, StartTransition
<1>13. CASE TransitionLock \/ ExitRestarts \/ PopToHome \/ PopToParent \/ ReplaceScreens \/
   PushScreen
  BY <1>13 DEF TransitionLock, ExitRestarts, CanClose, PopToHome, PopToParent, ReplaceScreens,
     PushScreen
<1>14. CASE Enter \/ EnterWaits \/ Handler \/ HandlerWaits \/ Handled \/ EndLoop
  BY <1>14 DEF Enter, EnterWaits, Handler, HandlerWaits, Handled, EndLoop
<1>15. CASE RadioStopped
  BY <1>15 DEF RadioStopped
<1>16. CASE UNCHANGED vars
  BY <1>16 DEF vars
<1>17. QED
  BY <1>1, <1>2, <1>3, <1>4, <1>5, <1>6, <1>7, <1>8, <1>9, <1>10, <1>11, <1>12, <1>13, <1>14,
     <1>15, <1>16 DEF Next, Main, Render

\* In every step a wait moves on.
LEMMA WaitInvStep == ASSUME TypeOK, LockInv, SleepInv, ScreensInv, WaitInv, [Next]_vars PROVE
   WaitInv'
<1> USE DEF WaitInv, LockInv, SleepInv, ScreensInv, FrontInv, NoLostWakeUp, Blocked, TypeOK,
   TypeSync, TypePoints, TypeUpdate, MainPoints, RenderPoints, sync, update
<1>1. CASE Boot
  BY <1>1 DEF Boot, StateChanged
<1>2. CASE BootPaint
  BY <1>2 DEF BootPaint, StartWait
<1>3. CASE BootDone
  BY <1>3 DEF BootDone
<1>4. CASE WaitDone
  BY <1>4 DEF WaitDone
<1>5. CASE UsbPlugged
  BY <1>5 DEF UsbPlugged, StateChanged
<1>6. CASE BeginLoop
  BY <1>6 DEF BeginLoop
<1>7. CASE CloseForRestart
  BY <1>7 DEF CloseForRestart
<1>8. CASE Restart
  BY <1>8 DEF Restart, StateChanged
<1>9. CASE GoToSleep
  BY <1>9 DEF GoToSleep, StateChanged
<1>10. CASE RequestSleepScreen
  BY <1>10 DEF RequestSleepScreen
<1>11. CASE SleepPoll
  BY <1>11 DEF SleepPoll
<1>12. CASE SleepDone
  BY <1>12 DEF SleepDone
<1>13. CASE SleepTimeOut
  BY <1>13 DEF SleepTimeOut
<1>14. CASE SleepAborted
  BY <1>14 DEF SleepAborted
<1>15. CASE ExclusiveLoop
  BY <1>15 DEF ExclusiveLoop, StateChanged
<1>16. CASE StartFlush
  BY <1>16 DEF StartFlush
<1>17. CASE Flush
  BY <1>17 DEF Flush
<1>18. CASE SkipFlush
  BY <1>18 DEF SkipFlush
<1>19. CASE SkipInput
  BY <1>19 DEF SkipInput, TakesInput
<1>20. CASE HomeGesture
  BY <1>20 DEF HomeGesture, TakesInput
<1>21. CASE OpenPanel
  BY <1>21 DEF OpenPanel, TakesInput
<1>22. CASE ActivityLoop
  BY <1>22 DEF ActivityLoop, TakesInput, StateChanged, RequestUpdateNow
<1>23. CASE ActivityLoopWaits
  BY <1>23 DEF ActivityLoopWaits, TakesInput, StateChanged, StartWait
<1>24. CASE WaitForRadio
  BY <1>24 DEF WaitForRadio
<1>25. CASE StartTransition
  BY <1>25 DEF StartTransition
<1>26. CASE TransitionLock
  BY <1>26 DEF TransitionLock
<1>27. CASE ExitRestarts
  BY <1>27 DEF ExitRestarts, CanClose
<1>28. CASE PopToHome
  BY <1>28 DEF PopToHome, CanClose, StateChanged
<1>29. CASE PopToParent
  BY <1>29 DEF PopToParent, CanClose, StateChanged
<1>30. CASE ReplaceScreens
  BY <1>30 DEF ReplaceScreens, CanClose, StateChanged
<1>31. CASE PushScreen
  BY <1>31 DEF PushScreen, CanClose, StateChanged
<1>32. CASE Enter
  BY <1>32 DEF Enter, StateChanged
<1>33. CASE EnterWaits
  BY <1>33 DEF EnterWaits, StateChanged, StartWait
<1>34. CASE Handler
  BY <1>34 DEF Handler, StateChanged
<1>35. CASE HandlerWaits
  BY <1>35 DEF HandlerWaits, StateChanged, StartWait
<1>36. CASE Handled
  BY <1>36 DEF Handled
<1>37. CASE EndLoop
  BY <1>37 DEF EndLoop
<1>38. CASE RenderWake
  BY <1>38 DEF RenderWake
<1>39. CASE RenderLockTake
  BY <1>39 DEF RenderLockTake, MayPaint
<1>40. CASE RenderPaintDone
  BY <1>40 DEF RenderPaintDone
<1>41. CASE RenderAck
  BY <1>41 DEF RenderAck
<1>42. CASE RenderUnlock
  BY <1>42 DEF RenderUnlock
<1>43. CASE Reset
  BY <1>43 DEF Reset
<1>44. CASE StartRadio \/ RadioStopped
  BY <1>44 DEF StartRadio, RadioStopped
<1>45. CASE UNCHANGED vars
  BY <1>45 DEF vars
<1>46. QED
  BY <1>1, <1>2, <1>3, <1>4, <1>5, <1>6, <1>7, <1>8, <1>9, <1>10, <1>11, <1>12, <1>13, <1>14,
     <1>15, <1>16, <1>17, <1>18, <1>19, <1>20, <1>21, <1>22, <1>23, <1>24, <1>25, <1>26, <1>27,
     <1>28, <1>29, <1>30, <1>31, <1>32, <1>33, <1>34, <1>35, <1>36, <1>37, <1>38, <1>39, <1>40,
     <1>41, <1>42, <1>43, <1>44, <1>45 DEF Next, Main, Render

\* In every step the writes wait for their frame.
LEMMA WritesInvStep == ASSUME TypeOK, LockInv, RequestInv, SleepInv, ScreensInv, WritesInv,
   [Next]_vars PROVE WritesInv'
<1>1. CASE Boot
  BY <1>1 DEF WritesInv, LockInv, RequestInv, SleepInv, ScreensInv, FrontInv, StackInv, TypeOK,
     TypeSaves, TypeSync, Boot, Screen, NoScreen, screens, request, sync, saves, power
<1>2. CASE BootPaint
  BY <1>2 DEF WritesInv, LockInv, RequestInv, SleepInv, ScreensInv, FrontInv, StackInv, TypeOK,
     TypeSaves, TypeSync, BootPaint, StartWait, screens, request, sync, saves, power
<1>3. CASE BootDone
  BY <1>3 DEF WritesInv, LockInv, RequestInv, SleepInv, ScreensInv, FrontInv, StackInv, TypeOK,
     TypeSaves, TypeSync, BootDone, screens, request, sync, saves, power
<1>4. CASE WaitDone
  <2>1. pc' = ret /\ UNCHANGED <<deferred, frameAfter, sinceDefer, inSleep, current, rpc, action>>
    BY <1>4 DEF WaitDone, screens, request, sync, update, saves, power
  <2>2. pc' \notin {"flush", "restart", "off", "sleepAbort"} /\ ~inSleep
    BY <1>4, <2>1 DEF TypeOK, TypePoints, SleepInv, WaitDone
  <2>3. QED
    BY <2>1, <2>2 DEF WritesInv
<1>5. CASE CloseForRestart
  <2>1. frameAfter' => sinceDefer' = "shown"
    BY <1>5 DEF CloseForRestart, TypeOK, TypeSaves, WritesInv
  <2>2. rpc' # "paint"
    BY <1>5 DEF CloseForRestart, LockInv, sync
  <2>3. pc' = "restart" /\ deferred' = {}
    BY <1>5 DEF CloseForRestart
  <2>4. QED
    BY <2>1, <2>2, <2>3 DEF WritesInv
<1>6. CASE Flush
  BY <1>6 DEF WritesInv, LockInv, RequestInv, SleepInv, ScreensInv, FrontInv, StackInv, TypeOK,
     TypeSaves, TypeSync, Flush, screens, request, sync, saves, power
<1>7. CASE HomeGesture
  BY <1>7 DEF WritesInv, LockInv, RequestInv, SleepInv, ScreensInv, FrontInv, StackInv, TypeOK,
     TypeSaves, TypeSync, HomeGesture, TakesInput, Replace, Screen, NoScreen, screens, request,
     sync, saves, power
<1>8. CASE ActivityLoop
  BY <1>8 DEF WritesInv, LockInv, RequestInv, SleepInv, ScreensInv, FrontInv, StackInv, TypeOK,
     TypeSaves, TypeSync, ActivityLoop, TakesInput, Stay, Navigate, Replace, Screen, NoScreen,
     screens, request, sync, saves, power
<1>9. CASE ExitRestarts
  BY <1>9 DEF WritesInv, LockInv, RequestInv, SleepInv, ScreensInv, FrontInv, StackInv, TypeOK,
     TypeSaves, TypeSync, ExitRestarts, CanClose, screens, request, sync, saves, power
<1>10. CASE PopToHome
  BY <1>10 DEF WritesInv, LockInv, RequestInv, SleepInv, ScreensInv, FrontInv, StackInv,
     TypeOK, TypeSaves, TypeSync, PopToHome, CanClose, DeferWrites, Screen, screens, request,
     sync, saves, power
<1>11. CASE PopToParent
  BY <1>11 DEF WritesInv, LockInv, RequestInv, SleepInv, ScreensInv, FrontInv, StackInv,
     TypeOK, TypeSaves, TypeSync, PopToParent, CanClose, DeferWrites, screens, request, sync,
     saves, power
<1>12. CASE ReplaceScreens
  <2>1. PICK W \in MayDefer({current.kind} \cup StackKinds) : DeferWrites({}, W)
    BY <1>12 DEF ReplaceScreens
  <2>2. frameAfter' => sinceDefer' = "shown"
    BY <2>1 DEF DeferWrites, WritesInv
  <2>3. rpc' # "paint" /\ pc' = "enter"
    BY <1>12 DEF ReplaceScreens, CanClose, LockInv
  <2>4. inSleep' => deferred' = {}
    BY <1>12, <2>1, NothingToDefer DEF ReplaceScreens, SleepInv, power
  <2>5. ASSUME pending.kind = "usb" PROVE deferred' = {}
    <3>1. current.kind = "transfer" /\ stack = <<>>
      BY <2>5 DEF ScreensInv, FrontInv, StackInv
    <3>2. "reader" \notin {current.kind} \cup StackKinds
      BY <3>1 DEF StackKinds
    <3>. QED
      BY <2>1, <3>2, NothingToDefer
  <2>6. QED
    BY <1>12, <2>2, <2>3, <2>4, <2>5 DEF ReplaceScreens, WritesInv
<1>13. CASE PushScreen
  BY <1>13 DEF WritesInv, LockInv, RequestInv, SleepInv, ScreensInv, FrontInv, StackInv,
     TypeOK, TypeSaves, TypeSync, PushScreen, CanClose, DeferWrites, NoScreen, Screen, screens,
     request, sync, saves, power
<1>14. CASE Enter
  <2>1. pc' = ret /\ UNCHANGED <<deferred, frameAfter, sinceDefer, inSleep, current, rpc>>
    BY <1>14 DEF Enter, sync, saves, power
  <2>2. pc' \notin {"flush", "restart", "off", "sleepAbort"}
    BY <2>1 DEF TypeOK, TypePoints
  <2>3. inSleep => UNCHANGED action /\ pc # "sleepAbort"
    BY <1>14 DEF SleepInv, Enter, Stay
  <2>4. QED
    BY <2>1, <2>2, <2>3 DEF WritesInv
<1>15. CASE EnterWaits
  BY <1>15 DEF WritesInv, LockInv, RequestInv, SleepInv, ScreensInv, FrontInv, StackInv,
     TypeOK, TypeSaves, TypeSync, EnterWaits, StartWait, screens, request, sync, saves, power
<1>16. CASE Handler
  BY <1>16 DEF WritesInv, LockInv, RequestInv, SleepInv, ScreensInv, FrontInv, StackInv,
     TypeOK, TypeSaves, TypeSync, Handler, Stay, Navigate, Replace, Screen, NoScreen, screens,
     request, sync, saves, power
<1>17. CASE Handled
  BY <1>17 DEF WritesInv, LockInv, RequestInv, SleepInv, ScreensInv, FrontInv, StackInv,
     TypeOK, TypeSaves, TypeSync, Handled, GoHomeAfterInput, Stay, Replace, Screen, NoScreen,
     screens, request, sync, saves, power
<1>18. CASE RenderWake
  BY <1>18 DEF WritesInv, LockInv, RequestInv, SleepInv, ScreensInv, FrontInv, StackInv,
     TypeOK, TypeSaves, TypeSync, RenderWake, screens, request, sync, saves, power
<1>19. CASE RenderLockTake
  BY <1>19 DEF WritesInv, LockInv, RequestInv, SleepInv, ScreensInv, FrontInv, StackInv,
     TypeOK, TypeSaves, TypeSync, RenderLockTake, MayPaint, screens, request, sync, saves,
     power
<1>20. CASE RenderPaintDone
  BY <1>20 DEF WritesInv, LockInv, RequestInv, SleepInv, ScreensInv, FrontInv, StackInv,
     TypeOK, TypeSaves, TypeSync, RenderPaintDone, screens, request, sync, saves, power
<1>21. CASE RenderAck
  BY <1>21 DEF WritesInv, LockInv, RequestInv, SleepInv, ScreensInv, FrontInv, StackInv,
     TypeOK, TypeSaves, TypeSync, RenderAck, screens, request, sync, saves, power
<1>22. CASE RenderUnlock
  BY <1>22 DEF WritesInv, LockInv, RequestInv, SleepInv, ScreensInv, FrontInv, StackInv,
     TypeOK, TypeSaves, TypeSync, RenderUnlock, screens, request, sync, saves, power
<1>23. CASE Reset
  BY <1>23 DEF WritesInv, LockInv, RequestInv, SleepInv, ScreensInv, FrontInv, StackInv,
     TypeOK, TypeSaves, TypeSync, Reset, NoScreen, Screen, screens, request, sync, saves, power
<1>24. CASE StartRadio \/ UsbPlugged \/ BeginLoop \/ Restart \/ GoToSleep \/ RequestSleepScreen
  BY <1>24 DEF WritesInv, LockInv, RequestInv, SleepInv, ScreensInv, FrontInv, StackInv,
     TypeOK, TypeSaves, TypeSync, StartRadio, UsbPlugged, BeginLoop, Restart, Screen,
     GoToSleep, RequestSleepScreen, Replace, screens, request, sync, saves, power
<1>25. CASE SleepPoll \/ SleepDone \/ SleepTimeOut \/ SleepAborted \/ ExclusiveLoop \/
   StartFlush
  BY <1>25 DEF WritesInv, LockInv, RequestInv, SleepInv, ScreensInv, FrontInv, StackInv,
     TypeOK, TypeSaves, TypeSync, SleepPoll, SleepDone, SleepTimeOut, NoScreen, Screen,
     SleepAborted, ExclusiveLoop, StartFlush, screens, request, sync, saves, power
<1>26. CASE SkipFlush \/ SkipInput \/ OpenPanel \/ ActivityLoopWaits \/ WaitForRadio \/
   StartTransition
  BY <1>26 DEF WritesInv, LockInv, RequestInv, SleepInv, ScreensInv, FrontInv, StackInv,
     TypeOK, TypeSaves, TypeSync, SkipFlush, SkipInput, TakesInput, OpenPanel, FrontlightPanel,
     Screen, ActivityLoopWaits, StartWait, WaitForRadio, StartTransition, screens, request,
     sync, saves, power
<1>27. CASE TransitionLock \/ HandlerWaits \/ EndLoop \/ RadioStopped
  BY <1>27 DEF WritesInv, LockInv, RequestInv, SleepInv, ScreensInv, FrontInv, StackInv,
     TypeOK, TypeSaves, TypeSync, TransitionLock, HandlerWaits, StartWait, EndLoop,
     RadioStopped, screens, request, sync, saves, power
<1>28. CASE UNCHANGED vars
  BY <1>28 DEF WritesInv, LockInv, RequestInv, SleepInv, ScreensInv, FrontInv, StackInv,
     TypeOK, TypeSaves, TypeSync, vars, screens, request, sync, saves, power
<1>29. QED
  BY <1>1, <1>2, <1>3, <1>4, <1>5, <1>6, <1>7, <1>8, <1>9, <1>10, <1>11, <1>12, <1>13, <1>14,
     <1>15, <1>16, <1>17, <1>18, <1>19, <1>20, <1>21, <1>22, <1>23, <1>24, <1>25, <1>26, <1>27,
     <1>28 DEF Next, Main, Render

\* In every step the radio stays off.
LEMMA RadioOffWhileEnteringStep == ASSUME TypeOK, RadioOffWhileEntering, [Next]_vars PROVE
   RadioOffWhileEntering'
<1> USE DEF RadioOffWhileEntering, TypeOK, TypePower, TypePoints, MainPoints, request, power
<1>1. CASE StartRadio
  BY <1>1 DEF StartRadio
<1>2. CASE WaitForRadio
  BY <1>2 DEF WaitForRadio
<1>3. CASE StartTransition
  BY <1>3 DEF StartTransition
<1>4. CASE RadioStopped
  BY <1>4 DEF RadioStopped
<1>5. CASE Reset
  BY <1>5 DEF Reset, NoScreen, Screen
<1>6. CASE Boot \/ BootPaint \/ BootDone \/ WaitDone \/ UsbPlugged \/ BeginLoop
  BY <1>6 DEF Boot, Screen, NoScreen, BootPaint, StartWait, BootDone, WaitDone, UsbPlugged,
     BeginLoop
<1>7. CASE CloseForRestart \/ Restart \/ GoToSleep \/ RequestSleepScreen \/ SleepPoll \/
   SleepDone
  BY <1>7 DEF CloseForRestart, NoScreen, Screen, Restart, GoToSleep, RequestSleepScreen,
     Replace, SleepPoll, SleepDone
<1>8. CASE SleepTimeOut \/ SleepAborted \/ ExclusiveLoop \/ StartFlush \/ Flush \/ SkipFlush
  BY <1>8 DEF SleepTimeOut, NoScreen, Screen, SleepAborted, ExclusiveLoop, StartFlush, Flush,
     SkipFlush
<1>9. CASE SkipInput \/ HomeGesture \/ OpenPanel \/ ActivityLoop \/ ActivityLoopWaits \/
   TransitionLock
  BY <1>9 DEF SkipInput, TakesInput, HomeGesture, Replace, Screen, NoScreen, OpenPanel,
     FrontlightPanel, ActivityLoop, Stay, Navigate, ActivityLoopWaits, StartWait,
     TransitionLock
<1>10. CASE ExitRestarts \/ PopToHome \/ PopToParent \/ ReplaceScreens \/ PushScreen \/ Enter
  BY <1>10 DEF ExitRestarts, CanClose, PopToHome, Screen, PopToParent, ReplaceScreens,
     NoScreen, PushScreen, Enter, Stay, Navigate, Replace
<1>11. CASE EnterWaits \/ Handler \/ HandlerWaits \/ Handled \/ EndLoop \/ RenderWake
  BY <1>11 DEF EnterWaits, StartWait, Handler, Stay, Navigate, Replace, Screen, NoScreen,
     HandlerWaits, Handled, GoHomeAfterInput, EndLoop, RenderWake
<1>12. CASE RenderLockTake \/ RenderPaintDone \/ RenderAck \/ RenderUnlock
  BY <1>12 DEF RenderLockTake, MayPaint, RenderPaintDone, RenderAck, RenderUnlock
<1>13. CASE UNCHANGED vars
  BY <1>13 DEF vars
<1>14. QED
  BY <1>1, <1>2, <1>3, <1>4, <1>5, <1>6, <1>7, <1>8, <1>9, <1>10, <1>11, <1>12, <1>13 DEF Next,
     Main, Render

(***************************************************************************)
(* The inductive invariant and what it implies.                            *)
(***************************************************************************)
\* It holds when the device starts.
LEMMA InvInit == Init => IInv
<1> SUFFICES ASSUME Init PROVE IInv
  OBVIOUS
<1>1. TypeOK
  BY TypeInit
<1>2. current.kind = "none" /\ pending.kind = "none" /\ current = NoScreen
  BY ScreenKinds DEF Init
<1>3. LockInv /\ RequestInv /\ SleepInv /\ PaintInv
  BY DEF Init, LockInv, RequestInv, SleepInv, PaintInv
<1>4. FrontInv
  BY <1>2 DEF Init, FrontInv
<1>5. StackInv
  BY DEF Init, StackInv
<1>6. WaitInv /\ WritesInv /\ RadioOffWhileEntering
  BY <1>2 DEF Init, WaitInv, NoLostWakeUp, Blocked, WritesInv, RadioOffWhileEntering
<1>. QED
  BY <1>1, <1>3, <1>4, <1>5, <1>6 DEF IInv, ScreensInv

\* Every step keeps it.
LEMMA InvStep == IInv /\ [Next]_vars => IInv'
  BY TypeStep, LockInvStep, RequestInvStep, SleepInvStep, FrontInvStep, StackInvStep,
     PaintInvStep, WaitInvStep, WritesInvStep, RadioOffWhileEnteringStep
  DEF IInv, ScreensInv

\* The parts above hold together in every reachable state.
THEOREM Inductive == Spec => []IInv
  BY InvInit, InvStep, PTL DEF Spec

\* No paint from the rise of sleepTransition until sleep is given up.
THEOREM SleepKeepsThePanel == Spec => []SleepScreenKept
<1>1. IInv => SleepScreenKept
  BY DEF IInv, PaintInv, SleepScreenKept
<1>. QED
  BY <1>1, Inductive, PTL

\* A pending Push or Replace has its screen, and only they have one.
THEOREM RequestsKeepTheirScreen == Spec => []TransitionHasItsScreen
<1>1. IInv => TransitionHasItsScreen
  <2> SUFFICES ASSUME IInv PROVE TransitionHasItsScreen
    OBVIOUS
  <2>1. action \in {"None", "Push", "Pop", "Replace"} /\ RequestInv
    BY DEF IInv, TypeOK, TypeRequest
  <2>2. action = "Push" => pending # NoScreen
    BY <2>1, ScreenKinds DEF RequestInv
  <2>3. action = "Replace" => pending # NoScreen
    BY <2>1, ScreenKinds DEF RequestInv
  <2>. QED
    BY <2>1, <2>2, <2>3 DEF RequestInv, TransitionHasItsScreen
<1>. QED
  BY <1>1, Inductive, PTL

\* No deferred write is lost at a power-off or a restart.
THEOREM NoWriteIsLost == Spec => []NothingDeferredAtPowerOff
<1>1. IInv => NothingDeferredAtPowerOff
  BY DEF IInv, WritesInv, NothingDeferredAtPowerOff
<1>. QED
  BY <1>1, Inductive, PTL

\* The main loop writes only behind a finished frame.
THEOREM WritesFollowTheFrame == Spec => []WritesWaitForNextFrame
<1>1. IInv => WritesWaitForNextFrame
  BY DEF IInv, WritesInv, WritesWaitForNextFrame
<1>. QED
  BY <1>1, Inductive, PTL

\* A blocked requestUpdateAndWait() has its wake-up on the way.
THEOREM WakeUpIsOnItsWay == Spec => []NoLostWakeUp
<1>1. IInv => NoLostWakeUp
  BY DEF IInv, WaitInv
<1>. QED
  BY <1>1, Inductive, PTL

\* A change made under the lock is on the panel when the wait for it ends.
THEOREM LockedChangeIsShown == Spec => []WaitShowsLockedChange
<1>1. IInv => WaitShowsLockedChange
  BY DEF IInv, WaitInv, WaitShowsLockedChange
<1>. QED
  BY <1>1, Inductive, PTL

\* The radio is off from the lock of a transition to the end of onEnter().
THEOREM RadioLeavesFirst == Spec => []RadioOffWhileEntering
<1>1. IInv => RadioOffWhileEntering
  BY DEF IInv
<1>. QED
  BY <1>1, Inductive, PTL

\* While the render task keeps painting, its screen, the screens below and the
\* deferred writes stay as they are.
THEOREM PaintIsUndisturbed == Spec => ScreensHoldStillDuringPaint
<1>1. IInv /\ [Next]_vars =>
        [rpc = "paint" /\ rpc' = "paint" => UNCHANGED <<current, stack, deferred>>]_vars
  <2> SUFFICES ASSUME IInv, [Next]_vars, rpc = "paint", rpc' = "paint"
               PROVE  UNCHANGED <<current, stack, deferred>>
    OBVIOUS
  <2>1. mutex = "render" /\ pc # "flush" /\ current # NoScreen /\ pc # "restart"
    BY DEF IInv, ScreensInv, LockInv, FrontInv
  <2>2. CASE Boot
    BY <2>1, <2>2 DEF Boot, screens, request, sync, update, saves, power
  <2>3. CASE CloseForRestart
    BY <2>1, <2>3 DEF CloseForRestart, screens, request, sync, update, saves, power
  <2>4. CASE Restart
    BY <2>1, <2>4 DEF Restart, screens, request, sync, update, saves, power
  <2>5. CASE Flush
    BY <2>1, <2>5 DEF Flush, screens, request, sync, update, saves, power
  <2>6. CASE ExitRestarts
    BY <2>1, <2>6 DEF ExitRestarts, CanClose, screens, request, sync, update, saves, power
  <2>7. CASE PopToHome
    BY <2>1, <2>7 DEF PopToHome, CanClose, screens, request, sync, update, saves, power
  <2>8. CASE PopToParent
    BY <2>1, <2>8 DEF PopToParent, CanClose, screens, request, sync, update, saves, power
  <2>9. CASE ReplaceScreens
    BY <2>1, <2>9 DEF ReplaceScreens, CanClose, screens, request, sync, update, saves, power
  <2>10. CASE PushScreen
    BY <2>1, <2>10 DEF PushScreen, CanClose, screens, request, sync, update, saves, power
  <2>11. CASE Reset
    BY <2>1, <2>11 DEF Reset, screens, request, sync, update, saves, power
  <2>12. CASE BootPaint \/ BootDone \/ WaitDone \/ StartRadio \/ UsbPlugged \/ BeginLoop \/
     GoToSleep \/ RequestSleepScreen
    BY <2>12 DEF BootPaint, BootDone, WaitDone, StartRadio, UsbPlugged, BeginLoop, GoToSleep,
       RequestSleepScreen, screens, request, sync, update, saves, power
  <2>13. CASE SleepPoll \/ SleepDone \/ SleepTimeOut \/ SleepAborted \/ ExclusiveLoop \/
     StartFlush \/ SkipFlush \/ SkipInput
    BY <2>13 DEF SleepPoll, SleepDone, SleepTimeOut, SleepAborted, ExclusiveLoop, StartFlush,
       SkipFlush, SkipInput, screens, request, sync, update, saves, power
  <2>14. CASE HomeGesture \/ OpenPanel \/ ActivityLoop \/ ActivityLoopWaits \/ WaitForRadio \/
     StartTransition \/ TransitionLock \/ Enter
    BY <2>14 DEF HomeGesture, OpenPanel, ActivityLoop, ActivityLoopWaits, WaitForRadio,
       StartTransition, TransitionLock, Enter, screens, request, sync, update, saves, power
  <2>15. CASE EnterWaits \/ Handler \/ HandlerWaits \/ Handled \/ EndLoop \/ RenderWake \/
     RenderLockTake \/ RenderPaintDone
    BY <2>15 DEF EnterWaits, Handler, HandlerWaits, Handled, EndLoop, RenderWake,
       RenderLockTake, RenderPaintDone, screens, request, sync, update, saves, power
  <2>16. CASE RenderAck \/ RenderUnlock \/ RadioStopped
    BY <2>16 DEF RenderAck, RenderUnlock, RadioStopped, screens, request, sync, update, saves,
       power
  <2>17. CASE UNCHANGED vars
    BY <2>17 DEF vars, screens, saves
  <2>18. QED
    BY <2>2, <2>3, <2>4, <2>5, <2>6, <2>7, <2>8, <2>9, <2>10, <2>11, <2>12, <2>13, <2>14,
       <2>15, <2>16, <2>17 DEF Next, Main, Render
<1>. QED
  BY <1>1, Inductive, PTL DEF Spec, ScreensHoldStillDuringPaint

(***************************************************************************)
(* Result handlers and the way home.  A sleep that times out drops the     *)
(* pending child or the closing menu and leaves its handler or             *)
(* homeAfterInput behind, so these results are about runs in which no      *)
(* sleep has timed out, whatever the constants.                            *)
(***************************************************************************)

\* A menu lies on something that is not a menu, and no request replaces the
\* pile by a menu.
MenuInv ==
    /\ current.kind = "menu" => stack # <<>>
    /\ stack # <<>> => stack[1].screen.kind # "menu"
    /\ action = "Replace" => pending.kind # "menu"

\* The screen that lies directly on stack[i].
CoverOf(i) == IF i = Len(stack) THEN current ELSE stack[i + 1].screen

\* A handler is registered only while its child is pending, on the screen, or
\* about to be thrown away with everything else.
HandlerInv ==
    /\ pc \in {"enter", "handler"} => action = "None"
    /\ armed => action = "Replace" \/ (action = "Push" /\ pending.forResult)
    /\ \A i \in DOMAIN stack : stack[i].armed => CoverOf(i).forResult

\* The way home is remembered from the gesture that finishes a menu until the
\* screen below has had its result.
WayHomeInv ==
    homeAfterInput =>
      \/ pc \in {"handler", "handled"}
      \/ Blocked /\ ret = "handled"
      \/ /\ action = "Pop" /\ current.kind = "menu"
         /\ pc \in {"idle", "loop", "flush", "input", "pending", "acquire", "close", "off"}

\* Both, outside sleep; and no sleep is being given up.
AwakeInv == pc # "sleepAbort" /\ (~sleepTransition => HandlerInv /\ WayHomeInv)

\* What pop_back() leaves.
LEMMA PoppedSeq ==
  \A s \in Seq(Entries) : s # <<>> =>
    /\ Len(SubSeq(s, 1, Len(s) - 1)) = Len(s) - 1
    /\ \A i \in 1..(Len(s) - 1) : SubSeq(s, 1, Len(s) - 1)[i] = s[i]
<1> SUFFICES ASSUME NEW s \in Seq(Entries), s # <<>>
             PROVE  /\ Len(SubSeq(s, 1, Len(s) - 1)) = Len(s) - 1
                    /\ \A i \in 1..(Len(s) - 1) : SubSeq(s, 1, Len(s) - 1)[i] = s[i]
  OBVIOUS
<1>1. Len(s) \in Nat \ {0}
  BY EmptySeq
<1>2. \A i \in 1..(Len(s) - 1) : s[i] \in Entries
  BY <1>1, ElementOfSeq
<1>3. \A n \in Nat \ {0} : /\ n - 1 \in Int /\ 1 \in Int
                           /\ (IF 1 <= n - 1 THEN (n - 1) - 1 + 1 ELSE 0) = n - 1
                           /\ (n - 1) - 1 + 1 = n - 1
  OBVIOUS
<1>4. \A i \in Int : 1 + i - 1 = i
  OBVIOUS
<1>5. /\ Len(SubSeq(s, 1, Len(s) - 1)) =
            IF 1 <= Len(s) - 1 THEN (Len(s) - 1) - 1 + 1 ELSE 0
      /\ \A i \in 1..((Len(s) - 1) - 1 + 1) :
            SubSeq(s, 1, Len(s) - 1)[i] = s[1 + i - 1]
  BY <1>1, <1>2, <1>3, SubSeqProperties
<1>6. Len(SubSeq(s, 1, Len(s) - 1)) = Len(s) - 1
  BY <1>1, <1>3, <1>5
<1>7. (Len(s) - 1) - 1 + 1 = Len(s) - 1
  BY <1>1, <1>3
<1>8. ASSUME NEW i \in 1..(Len(s) - 1) PROVE SubSeq(s, 1, Len(s) - 1)[i] = s[i]
  <2>1. 1 + i - 1 = i
    BY <1>1, <1>4
  <2>2. SubSeq(s, 1, Len(s) - 1)[i] = s[1 + i - 1]
    BY <1>5, <1>7
  <2>. QED
    BY <2>1, <2>2
<1>. QED
  BY <1>6, <1>8

\* The positions below the top of the stack.
LEMMA PopIndex ==
  \A n \in Nat \ {0} :
    /\ n - 1 = 0 => n = 1
    /\ \A i \in 1..(n - 1) :
         /\ i # n
         /\ i # n - 1 => i + 1 \in 1..(n - 1)
         /\ i = n - 1 => i + 1 = n
  OBVIOUS

\* In every step a menu keeps to its place in the pile.
LEMMA MenuInvStep == ASSUME TypeOK, RequestInv, SleepInv, ScreensInv, MenuInv, [Next]_vars
                     PROVE  MenuInv'
<1> USE DEF MenuInv, TypeOK, TypeScreens, RequestInv, ScreensInv, FrontInv, StackInv, screens,
   request
<1>1. CASE Boot
  BY <1>1 DEF Boot, Screen, NoScreen
<1>13. CASE CloseForRestart
  BY <1>13 DEF CloseForRestart, Screen, NoScreen
<1>14. CASE Restart
  BY <1>14 DEF Restart, Screen, NoScreen
<1>2. CASE RequestSleepScreen \/ SleepTimeOut
  BY <1>2 DEF RequestSleepScreen, SleepTimeOut, Replace, Screen, NoScreen
<1>3. CASE HomeGesture
  <2>1. action' = "Pop" \/ pending' = Screen("home", FALSE)
    BY <1>3 DEF HomeGesture, Replace
  <2>2. UNCHANGED <<current, stack>>
    BY <1>3 DEF HomeGesture
  <2>. QED
    BY <2>1, <2>2 DEF Screen
<1>15. CASE OpenPanel
  BY <1>15 DEF OpenPanel
<1>4. CASE ActivityLoop \/ Enter \/ Handler
  <2>1. Stay \/ Navigate \/ action' = "Pop"
    BY <1>4 DEF ActivityLoop, Enter, Handler
  <2>2. ASSUME Navigate PROVE action' = "Replace" => pending'.kind # "menu"
    BY <2>2, ReplacedByKinds DEF Navigate, Replace, Screen
  <2>3. UNCHANGED <<current, stack>>
    BY <1>4 DEF ActivityLoop, Enter, Handler
  <2>. QED
    BY <2>1, <2>2, <2>3 DEF Stay
<1>5. CASE PopToHome
  BY <1>5 DEF PopToHome, CanClose, Screen
<1>6. CASE PopToParent
  <2>1. stack # <<>> /\ stack \in Seq(Entries) /\ stack' = SubSeq(stack, 1, Len(stack) - 1)
    BY <1>6 DEF PopToParent
  <2>2. current' = stack[Len(stack)].screen /\ action' = "None"
    BY <1>6 DEF PopToParent
  <2>3. Len(stack) \in Nat \ {0} /\ Len(stack') = Len(stack) - 1
        /\ \A i \in 1..(Len(stack) - 1) : stack'[i] = stack[i]
    BY <2>1, PoppedSeq, EmptySeq
  <2>4. \A n \in Nat \ {0} : n - 1 # 0 => 1 \in 1..(n - 1)
    OBVIOUS
  <2>5. CASE stack' = <<>>
    <3>1. Len(stack) - 1 = 0
      BY <2>3, <2>5, EmptySeq
    <3>2. Len(stack) = 1
      BY <2>3, <3>1, PopIndex, ZenonT(20)
    <3>. QED
      BY <2>1, <2>2, <2>5, <3>2
  <2>6. CASE stack' # <<>>
    <3>1. stack' \in Seq(Entries)
      BY <2>1, StackTyped
    <3>2. Len(stack') # 0
      BY <2>6, <3>1, EmptySeq
    <3>3. stack'[1] = stack[1]
      BY <2>3, <2>4, <3>2
    <3>. QED
      BY <2>1, <2>2, <2>6, <3>3
  <2>. QED
    BY <2>5, <2>6
<1>7. CASE ReplaceScreens
  BY <1>7 DEF ReplaceScreens, CanClose, StackCleared
<1>8. CASE PushScreen
  <2>1. action = "Push" /\ stack \in Seq(Entries) /\ action' = "None" /\ current' = pending
    BY <1>8 DEF PushScreen, CanClose
  <2>2. stack' = Append(stack, [screen |-> current, armed |-> armed]) /\ current \in Screens
    BY <1>8 DEF PushScreen
  <2>3. stack' # <<>>
    BY <2>1, <2>2
  <2>4. stack'[1] = IF stack = <<>> THEN [screen |-> current, armed |-> armed] ELSE stack[1]
    BY <2>1, <2>2
  <2>. QED
    BY <2>1, <2>2, <2>3, <2>4
<1>9. CASE Handled
  BY <1>9 DEF Handled, GoHomeAfterInput, Replace, Screen, Stay
<1>10. CASE Reset
  BY <1>10 DEF Reset, NoScreen, Screen
<1>11. CASE UNCHANGED <<current, stack, pending, action>>
  BY <1>11
<1>12. QED
  BY <1>1, <1>2, <1>3, <1>4, <1>5, <1>6, <1>7, <1>8, <1>9, <1>10, <1>11, <1>13,
     <1>14, <1>15 DEF Next, Main, Render, vars, BootPaint, BootDone, WaitDone, StartRadio, UsbPlugged, BeginLoop, GoToSleep,
     SleepPoll, SleepDone, SleepAborted, ExclusiveLoop, StartFlush, Flush, SkipFlush,
     SkipInput, ActivityLoopWaits, WaitForRadio, StartTransition, TransitionLock,
     ExitRestarts, EnterWaits, HandlerWaits, EndLoop, RenderWake, RenderLockTake,
     RenderPaintDone, RenderAck, RenderUnlock, RadioStopped

\* Sleep goes on until the device is off, unless it times out.
LEMMA NoAbortStep ==
  ASSUME TypeOK, pc # "sleepAbort", [Next]_vars, ~SleepTimeOut
  PROVE  pc' # "sleepAbort" /\ (sleepTransition /\ ~Reset => sleepTransition')
<1> USE DEF TypeOK, TypePoints, TypePower, MainPoints, power
<1>1. CASE Boot \/ BootPaint \/ BootDone \/ WaitDone \/ StartRadio \/ UsbPlugged \/ BeginLoop
  BY <1>1 DEF Boot, BootPaint, StartWait, BootDone, WaitDone, StartRadio, UsbPlugged, BeginLoop
<1>2. CASE CloseForRestart \/ Restart \/ GoToSleep \/ RequestSleepScreen \/ SleepPoll \/ SleepDone
  BY <1>2 DEF CloseForRestart, Restart, GoToSleep, RequestSleepScreen, SleepPoll, SleepDone
<1>3. CASE SleepAborted \/ ExclusiveLoop \/ StartFlush \/ Flush \/ SkipFlush \/ SkipInput
  BY <1>3 DEF SleepAborted, ExclusiveLoop, StartFlush, Flush, SkipFlush, SkipInput
<1>4. CASE HomeGesture \/ OpenPanel \/ ActivityLoop \/ ActivityLoopWaits
  BY <1>4 DEF HomeGesture, OpenPanel, ActivityLoop, ActivityLoopWaits, StartWait
<1>5. CASE WaitForRadio \/ StartTransition \/ TransitionLock \/ ExitRestarts
  BY <1>5 DEF WaitForRadio, StartTransition, TransitionLock, ExitRestarts
<1>6. CASE PopToHome \/ PopToParent \/ ReplaceScreens \/ PushScreen
  BY <1>6 DEF PopToHome, PopToParent, ReplaceScreens, PushScreen
<1>7. CASE Enter \/ EnterWaits \/ Handler \/ HandlerWaits \/ Handled \/ EndLoop
  BY <1>7 DEF Enter, EnterWaits, StartWait, Handler, HandlerWaits, Handled, EndLoop
<1>8. CASE RenderWake \/ RenderLockTake \/ RenderPaintDone \/ RenderAck \/ RenderUnlock
  BY <1>8 DEF RenderWake, RenderLockTake, RenderPaintDone, RenderAck, RenderUnlock
<1>9. CASE RadioStopped \/ Reset
  BY <1>9 DEF RadioStopped, Reset
<1>10. CASE UNCHANGED vars
  BY <1>10 DEF vars
<1>11. QED
  BY <1>1, <1>2, <1>3, <1>4, <1>5, <1>6, <1>7, <1>8, <1>9, <1>10 DEF Next, Main, Render

\* A navigation request arms the handler with the child it pushes, and with no
\* other.
LEMMA NavigateArms ==
  ASSUME TypeOK, Navigate, ~armed
  PROVE  armed' => action' = "Push" /\ pending'.forResult
<1>1. \/ armed' = armed
      \/ action' = "Push" /\ pending' = Screen("menu", TRUE)
  BY DEF Navigate
<1>2. CASE armed' = armed
  BY <1>2, Zenon
<1>3. CASE action' = "Push" /\ pending' = Screen("menu", TRUE)
  <2>1. pending'.forResult = TRUE
    BY <1>3 DEF Screen
  <2>. QED
    BY <1>3, <2>1
<1>. QED
  BY <1>1, <1>2, <1>3

\* The screen that was pushed lies on the one it was pushed over; nothing else
\* in the pile moves.
LEMMA PushCoversOf ==
  ASSUME TypeOK, PushScreen
  PROVE  /\ \A i \in DOMAIN stack : stack'[i] = stack[i] /\ CoverOf(i)' = CoverOf(i)
         /\ DOMAIN stack' = DOMAIN stack \cup {Len(stack) + 1}
         /\ stack'[Len(stack) + 1] = [screen |-> current, armed |-> armed]
         /\ \A i : i = Len(stack) + 1 => CoverOf(i)' = pending
<1>1. /\ stack \in Seq(Entries) /\ current' = pending
      /\ stack' = Append(stack, [screen |-> current, armed |-> armed])
  BY DEF PushScreen, TypeOK, TypeScreens
<1>2. Len(stack) \in Nat /\ DOMAIN stack = 1..Len(stack)
  BY <1>1
<1>3. Len(stack') = Len(stack) + 1 /\ DOMAIN stack' = 1..(Len(stack) + 1)
  BY <1>1, <1>2
<1>4. \A i \in 1..Len(stack) : stack'[i] = stack[i]
  BY <1>1
<1>5. stack'[Len(stack) + 1] = [screen |-> current, armed |-> armed]
  BY <1>1
<1>6. ASSUME NEW i \in DOMAIN stack PROVE CoverOf(i)' = CoverOf(i)
  BY <1>1, <1>2, <1>3, <1>4, <1>5 DEF CoverOf
<1>7. \A i : i = Len(stack) + 1 => CoverOf(i)' = pending
  BY <1>1, <1>3 DEF CoverOf
<1>. QED
  BY <1>2, <1>3, <1>4, <1>5, <1>6, <1>7

\* The screens that stay below a pop keep what lies on them.
LEMMA PopCoversOf ==
  ASSUME TypeOK, PopToParent
  PROVE  /\ DOMAIN stack' \subseteq DOMAIN stack
         /\ \A i \in DOMAIN stack' : stack'[i] = stack[i] /\ CoverOf(i)' = CoverOf(i)
<1>1. /\ stack \in Seq(Entries) /\ stack # <<>> /\ current' = stack[Len(stack)].screen
      /\ stack' = SubSeq(stack, 1, Len(stack) - 1)
  BY DEF PopToParent, TypeOK, TypeScreens
<1>2. Len(stack) \in Nat \ {0} /\ DOMAIN stack = 1..Len(stack)
  BY <1>1
<1>3. Len(stack') = Len(stack) - 1 /\ DOMAIN stack' = 1..(Len(stack) - 1)
  BY <1>1, <1>2
<1>4. \A i \in 1..(Len(stack) - 1) : stack'[i] = stack[i]
  BY <1>1, <1>2
<1>5. ASSUME NEW i \in 1..(Len(stack) - 1) PROVE CoverOf(i)' = CoverOf(i)
  <2>1. CoverOf(i)' = IF i = Len(stack') THEN current' ELSE stack'[i + 1].screen
    BY DEF CoverOf
  <2>2. i # Len(stack) /\ CoverOf(i) = stack[i + 1].screen
    <3>1. i # Len(stack)
      BY <1>2, PopIndex, Zenon
    <3>. QED
      BY <3>1 DEF CoverOf
  <2>3. CASE i = Len(stack')
    <3>1. i + 1 = Len(stack)
      BY <1>2, <1>3, <2>3, PopIndex, Zenon
    <3>. QED
      BY <1>1, <2>1, <2>2, <2>3, <3>1
  <2>4. CASE i # Len(stack')
    <3>1. i + 1 \in 1..(Len(stack) - 1)
      BY <1>2, <1>3, <2>4, PopIndex, Zenon
    <3>2. stack'[i + 1] = stack[i + 1]
      BY <1>4, <3>1
    <3>. QED
      BY <2>1, <2>2, <2>4, <3>2
  <2>. QED
    BY <2>3, <2>4
<1>. QED
  BY <1>2, <1>3, <1>4, <1>5

\* In every step but a time-out, a handler keeps to its child.
LEMMA HandlerInvStep ==
  ASSUME IInv, HandlerInv, ~sleepTransition, [Next]_vars, ~SleepTimeOut, pc # "sleepAbort"
  PROVE  sleepTransition' \/ HandlerInv'
<1> USE DEF screens, request
<1>1. TypeOK /\ SleepInv /\ FrontInv /\ StackInv
  BY DEF IInv, ScreensInv
<1>2. ret \notin {"enter", "handler"} /\ armed \in BOOLEAN
  BY <1>1 DEF TypeOK, TypePoints, TypeScreens
<1>3. ASSUME UNCHANGED <<current, stack>>, pc' \notin {"enter", "handler"},
             armed' => action' = "Replace" \/ (action' = "Push" /\ pending'.forResult)
      PROVE  HandlerInv'
  BY <1>3 DEF HandlerInv, CoverOf
<1>4. ASSUME UNCHANGED <<current, armed, stack, pending, action>>,
             pc' = pc \/ pc' \notin {"enter", "handler"}
      PROVE  HandlerInv'
  BY <1>4 DEF HandlerInv, CoverOf
<1>5. ASSUME stack' = <<>>, armed' = FALSE, action' = "None"
      PROVE  HandlerInv'
  BY <1>5 DEF HandlerInv
<1>6. ASSUME action = "None" PROVE armed = FALSE
  BY <1>2, <1>6 DEF HandlerInv
<1>7. CASE Boot \/ Restart
  <2>1. current = NoScreen
    BY <1>1, <1>7 DEF Boot, Restart, FrontInv
  <2>2. stack = <<>> /\ action = "None"
    BY <1>1, <2>1 DEF FrontInv
  <2>. QED
    BY <1>5, <1>6, <1>7, <2>2 DEF Boot, Restart
<1>8. CASE CloseForRestart
  <2>1. stack = <<>> /\ action = "None" /\ armed' = FALSE
    BY <1>1, <1>8 DEF CloseForRestart, StackInv
  <2>. QED
    BY <1>5, <1>8, <2>1 DEF CloseForRestart
<1>9. CASE GoToSleep
  BY <1>9 DEF GoToSleep
<1>10. CASE RequestSleepScreen \/ SleepPoll \/ SleepDone \/ SleepAborted
  BY <1>1, <1>10 DEF RequestSleepScreen, SleepPoll, SleepDone, SleepAborted, SleepInv
<1>11. CASE HomeGesture \/ OpenPanel
  <2>1. action = "None" /\ UNCHANGED <<current, armed, stack>> /\ pc' = "idle"
    BY <1>11 DEF HomeGesture, OpenPanel, TakesInput
  <2>. QED
    BY <1>3, <1>6, <2>1
<1>12. CASE ActivityLoop \/ Enter \/ Handler
  <2>1. action = "None" /\ UNCHANGED <<current, stack>>
    BY <1>12 DEF ActivityLoop, TakesInput, Enter, Handler, HandlerInv
  <2>2. pc' \in {"pending", "handled", ret}
    BY <1>12 DEF ActivityLoop, Enter, Handler
  <2>3. armed = FALSE
    BY <1>6, <2>1
  <2>4. Navigate \/ armed' = armed
    BY <1>12 DEF ActivityLoop, Enter, Handler, Stay
  <2>5. armed' => action' = "Push" /\ pending'.forResult
    BY <1>1, <2>3, <2>4, NavigateArms
  <2>. QED
    BY <1>2, <1>3, <2>1, <2>2, <2>5
<1>13. CASE PopToHome \/ ReplaceScreens
  BY <1>5, <1>13 DEF PopToHome, ReplaceScreens, StackCleared
<1>14. CASE PopToParent
  <2>1. armed' = FALSE /\ action' = "None"
    BY <1>14 DEF PopToParent, HandlerTaken
  <2>2. \A i \in DOMAIN stack' : stack'[i].armed => CoverOf(i)'.forResult
    BY <1>1, <1>14, PopCoversOf DEF HandlerInv
  <2>. QED
    BY <2>1, <2>2 DEF HandlerInv
<1>15. CASE PushScreen
  <2>1. action = "Push" /\ armed' = FALSE /\ action' = "None"
    BY <1>15 DEF PushScreen, CanClose
  <2>2. ASSUME NEW i \in DOMAIN stack', stack'[i].armed PROVE CoverOf(i)'.forResult
    <3>1. CASE i \in DOMAIN stack
      BY <1>1, <1>15, <2>2, <3>1, PushCoversOf DEF HandlerInv
    <3>2. CASE i = Len(stack) + 1
      <4>1. stack'[i] = [screen |-> current, armed |-> armed] /\ CoverOf(i)' = pending
        BY <1>1, <1>15, <3>2, PushCoversOf
      <4>2. armed
        BY <2>2, <4>1
      <4>. QED
        BY <2>1, <4>1, <4>2 DEF HandlerInv
    <3>. QED
      BY <1>1, <1>15, <2>2, <3>1, <3>2, PushCoversOf
  <2>. QED
    BY <2>1, <2>2 DEF HandlerInv
<1>16. CASE Handled
  <2>1. pc' = "pending" /\ UNCHANGED <<current, stack>>
    BY <1>16 DEF Handled
  <2>2. \/ action' = "Replace"
        \/ UNCHANGED <<pending, action, armed>>
        \/ action' = "Push" /\ pending'.forResult = TRUE
    BY <1>16 DEF Handled, GoHomeAfterInput, Replace, Stay, Screen
  <2>3. armed' => action' = "Replace" \/ (action' = "Push" /\ pending'.forResult)
    BY <2>2 DEF HandlerInv
  <2>. QED
    BY <1>3, <2>1, <2>3
<1>17. CASE Reset
  BY <1>5, <1>17 DEF Reset
<1>18. CASE BootPaint \/ BootDone \/ WaitDone \/ StartRadio \/ UsbPlugged \/ BeginLoop
  BY <1>2, <1>4, <1>18 DEF BootPaint, StartWait, BootDone, WaitDone, StartRadio, UsbPlugged,
     BeginLoop
<1>19. CASE ExclusiveLoop \/ StartFlush \/ Flush \/ SkipFlush \/ SkipInput \/ ActivityLoopWaits
  BY <1>4, <1>19 DEF ExclusiveLoop, StartFlush, Flush, SkipFlush, SkipInput,
     ActivityLoopWaits, StartWait
<1>20. CASE WaitForRadio \/ StartTransition \/ TransitionLock \/ ExitRestarts
  BY <1>4, <1>20 DEF WaitForRadio, StartTransition, TransitionLock, ExitRestarts
<1>21. CASE EnterWaits \/ HandlerWaits \/ EndLoop \/ Render \/ RadioStopped
  BY <1>4, <1>21 DEF EnterWaits, StartWait, HandlerWaits, EndLoop, Render, RenderWake,
     RenderLockTake, RenderPaintDone, RenderAck, RenderUnlock, RadioStopped
<1>22. CASE UNCHANGED vars
  BY <1>4, <1>22 DEF vars
<1>. QED
  BY <1>7, <1>8, <1>9, <1>10, <1>11, <1>12, <1>13, <1>14, <1>15, <1>16, <1>17, <1>18, <1>19,
     <1>20, <1>21, <1>22 DEF Next, Main

\* In every step but a time-out, the way home keeps to the menu that saved it.
LEMMA WayHomeInvStep ==
  ASSUME IInv, MenuInv, WayHomeInv, ~sleepTransition, [Next]_vars, ~SleepTimeOut,
         pc # "sleepAbort"
  PROVE  sleepTransition' \/ WayHomeInv'
<1> USE DEF WayHomeInv, Blocked, screens, request
<1>1. TypeOK /\ SleepInv
  BY DEF IInv
<1>2. homeAfterInput \in BOOLEAN
  BY <1>1 DEF TypeOK, TypeRequest
<1>3. CASE Boot \/ BootPaint \/ BootDone \/ WaitDone \/ StartRadio \/ UsbPlugged \/ BeginLoop
  BY <1>2, <1>3 DEF Boot, BootPaint, StartWait, BootDone, WaitDone, StartRadio, UsbPlugged,
     BeginLoop
<1>4. CASE CloseForRestart \/ Restart \/ GoToSleep
  BY <1>4 DEF CloseForRestart, Restart, GoToSleep
<1>5. CASE RequestSleepScreen \/ SleepPoll \/ SleepDone \/ SleepAborted
  BY <1>1, <1>5 DEF RequestSleepScreen, SleepPoll, SleepDone, SleepAborted, SleepInv
<1>6. CASE ExclusiveLoop \/ StartFlush \/ Flush \/ SkipFlush \/ SkipInput
  BY <1>6 DEF ExclusiveLoop, StartFlush, Flush, SkipFlush, SkipInput
<1>7. CASE HomeGesture
  BY <1>7 DEF HomeGesture, TakesInput
<1>8. CASE OpenPanel \/ ActivityLoop \/ ActivityLoopWaits
  BY <1>8 DEF OpenPanel, ActivityLoop, ActivityLoopWaits, StartWait, TakesInput
<1>9. CASE WaitForRadio \/ StartTransition \/ TransitionLock \/ ExitRestarts
  BY <1>9 DEF WaitForRadio, StartTransition, TransitionLock, ExitRestarts, CanClose
<1>10. CASE PopToHome
  BY <1>10 DEF PopToHome, CanClose, MenuInv
<1>11. CASE PopToParent
  <2>1. pc' \in {"handler", "handled"}
    BY <1>11 DEF PopToParent
  <2>. QED
    BY <2>1
<1>12. CASE ReplaceScreens \/ PushScreen
  BY <1>12 DEF ReplaceScreens, PushScreen, CanClose
<1>13. CASE Enter \/ EnterWaits
  BY <1>13 DEF Enter, EnterWaits, StartWait
<1>14. CASE Handler \/ HandlerWaits
  BY <1>14 DEF Handler, HandlerWaits, StartWait
<1>15. CASE Handled
  BY <1>2, <1>15 DEF Handled, GoHomeAfterInput
<1>16. CASE EndLoop
  BY <1>16 DEF EndLoop
<1>17. CASE Render \/ RadioStopped
  BY <1>17 DEF Render, RenderWake, RenderLockTake, RenderPaintDone, RenderAck, RenderUnlock,
     RadioStopped
<1>18. CASE Reset
  BY <1>18 DEF Reset
<1>19. CASE UNCHANGED vars
  BY <1>19 DEF vars
<1>. QED
  BY <1>3, <1>4, <1>5, <1>6, <1>7, <1>8, <1>9, <1>10, <1>11, <1>12, <1>13, <1>14, <1>15,
     <1>16, <1>17, <1>18, <1>19 DEF Next, Main

\* What holds outside sleep survives every step but a time-out.
LEMMA AwakeInvStep ==
  IInv /\ MenuInv /\ AwakeInv /\ [Next]_vars /\ [~SleepTimeOut]_vars => MenuInv' /\ AwakeInv'
<1> SUFFICES ASSUME IInv, MenuInv, AwakeInv, [Next]_vars, [~SleepTimeOut]_vars
             PROVE  MenuInv' /\ AwakeInv'
  OBVIOUS
<1>1. MenuInv'
  BY MenuInvStep DEF IInv
<1>2. ~SleepTimeOut
  <2>1. SleepTimeOut => pc' # pc
    BY DEF SleepTimeOut
  <2>. QED
    BY <2>1 DEF vars
<1>3. pc' # "sleepAbort" /\ (sleepTransition /\ ~Reset => sleepTransition')
  BY <1>2, NoAbortStep DEF IInv, AwakeInv
<1>4. ASSUME Reset PROVE HandlerInv' /\ WayHomeInv'
  BY <1>4 DEF Reset, HandlerInv, WayHomeInv
<1>5. ASSUME ~sleepTransition PROVE sleepTransition' \/ (HandlerInv' /\ WayHomeInv')
  <2>1. pc # "sleepAbort" /\ HandlerInv /\ WayHomeInv
    BY <1>5 DEF AwakeInv
  <2>2. sleepTransition' \/ HandlerInv'
    BY <1>2, <1>5, <2>1, HandlerInvStep
  <2>3. sleepTransition' \/ WayHomeInv'
    BY <1>2, <1>5, <2>1, WayHomeInvStep
  <2>. QED
    BY <2>2, <2>3
<1>. QED
  BY <1>1, <1>3, <1>4, <1>5 DEF AwakeInv

\* They hold together as long as no sleep has timed out.
THEOREM AwakeInductive == Spec /\ [][~SleepTimeOut]_vars => [](MenuInv /\ AwakeInv)
<1>1. Init => MenuInv /\ AwakeInv
  BY ScreenKinds DEF Init, MenuInv, AwakeInv, HandlerInv, WayHomeInv
<1>. QED
  BY <1>1, AwakeInvStep, Inductive, PTL DEF Spec

\* As long as no sleep has timed out, the way home is remembered only while
\* the screen that saved its input is on its way out.
THEOREM WayHomeIsFollowedOnce ==
  Spec /\ [][~SleepTimeOut]_vars => []HomeOnlyAfterItsInput
<1>1. AwakeInv => HomeOnlyAfterItsInput
  BY DEF AwakeInv, WayHomeInv, HomeOnlyAfterItsInput
<1>. QED
  BY <1>1, AwakeInductive, PTL

\* As long as no sleep has timed out, a result handler runs only for the child
\* that it was registered with.
THEOREM HandlerMeetsItsChild ==
  Spec /\ [][~SleepTimeOut]_vars => ResultReachesItsRequester
<1>1. IInv /\ AwakeInv /\ [Next]_vars =>
        [pc = "close" /\ pc' = "handler" => current.forResult]_vars
  <2> SUFFICES ASSUME IInv, AwakeInv, [Next]_vars, pc = "close", pc' = "handler"
               PROVE  current.forResult
    OBVIOUS
  <2>1. PopToParent
    BY DEF Next, Main, Render, vars, Boot, BootPaint, BootDone, WaitDone, StartRadio,
       UsbPlugged, BeginLoop, CloseForRestart, Restart, GoToSleep, RequestSleepScreen,
       SleepPoll, SleepDone, SleepTimeOut, SleepAborted, ExclusiveLoop, StartFlush, Flush,
       SkipFlush, SkipInput, HomeGesture, OpenPanel, ActivityLoop, ActivityLoopWaits,
       WaitForRadio, StartTransition, TransitionLock, ExitRestarts, PopToHome,
       ReplaceScreens, PushScreen, Enter, EnterWaits, StartWait, Handler, HandlerWaits,
       Handled, EndLoop, RenderWake, RenderLockTake, RenderPaintDone, RenderAck,
       RenderUnlock, RadioStopped, Reset
  <2>2. action = "Pop" /\ stack # <<>> /\ stack[Len(stack)].armed
    BY <2>1 DEF PopToParent, CanClose
  <2>3. ~sleepTransition
    BY <2>2 DEF IInv, SleepInv
  <2>4. Len(stack) \in DOMAIN stack
    BY <2>2, EmptySeq, LenProperties DEF IInv, TypeOK, TypeScreens
  <2>5. CoverOf(Len(stack)).forResult
    BY <2>2, <2>3, <2>4 DEF AwakeInv, HandlerInv
  <2>. QED
    BY <2>5 DEF CoverOf
<1>. QED
  BY <1>1, Inductive, AwakeInductive, PTL DEF Spec, ResultReachesItsRequester

\* On a device whose radio always stops in time no sleep times out.
LEMMA NoTimeOut == ~SleepMayTimeOut => ~SleepTimeOut
  BY DEF SleepTimeOut

\* ... and there both hold of every run.
THEOREM PromptRadioKeepsResults ==
  ASSUME ~SleepMayTimeOut
  PROVE  Spec => []HomeOnlyAfterItsInput /\ ResultReachesItsRequester
<1>1. ~SleepTimeOut
  BY NoTimeOut
<1>2. [][~SleepTimeOut]_vars
  BY <1>1, PTL
<1>. QED
  BY <1>2, WayHomeIsFollowedOnce, HandlerMeetsItsChild, PTL



(***************************************************************************)
(* The screen manager implements ScreenPile.                               *)
(***************************************************************************)
\* The kind of no screen tells it from the screens that can be in front.
LEMMA InFront == IInv /\ current # NoScreen => current.kind \in Kinds
  BY ScreenKinds DEF IInv, TypeOK, TypeScreens, Screens, ScreensInv, FrontInv

\* The screens on the stack are a sequence of screens as long as the stack.
CoversStack ==
    /\ Covered \in Seq(Screens) /\ Len(Covered) = Len(stack)
    /\ \A i \in 1..Len(stack) : Covered[i] = stack[i].screen

LEMMA CoveredSeq == TypeScreens => CoversStack
<1> SUFFICES ASSUME TypeScreens PROVE CoversStack
  OBVIOUS
<1>1. stack \in Seq(Entries) /\ DOMAIN stack = 1..Len(stack) /\ Len(stack) \in Nat
  BY DEF TypeScreens
<1>2. ASSUME NEW i \in 1..Len(stack) PROVE stack[i].screen \in Screens
  <2>1. stack[i] \in Entries
    BY <1>1, ElementOfSeq
  <2>. QED
    BY <2>1 DEF Entries
<1>3. Covered = [i \in 1..Len(stack) |-> stack[i].screen]
  BY <1>1 DEF Covered
<1>4. Covered \in Seq(Screens) /\ Len(Covered) = Len(stack)
  BY <1>1, <1>2, <1>3, IsASeq
<1>. QED
  BY <1>3, <1>4 DEF CoversStack

\* The same of the next state.
LEMMA CoveredSeqNext == TypeScreens' => CoversStack'
  BY CoveredSeq, PTL

\* With nothing on the stack nothing is covered.
LEMMA NothingCovered == stack = <<>> => Covered = <<>>
  BY DEF Covered

\* The same of the next state, and the pile of it.
LEMMA NextCovered ==
  /\ stack' = <<>> => Covered' = <<>>
  /\ UNCHANGED stack => Covered' = Covered
  /\ UNCHANGED <<current, stack>> => OpenScreens' = OpenScreens
<1>1. stack' = <<>> => Covered' = <<>>
  BY DEF Covered
<1>2. UNCHANGED stack => Covered' = Covered
  BY DEF Covered
<1>. QED
  BY <1>1, <1>2 DEF OpenScreens

\* A push lengthens the covered screens by the one in front.
LEMMA PushCovers ==
  ASSUME TypeScreens, TypeScreens',
         stack' = Append(stack, [screen |-> current, armed |-> armed])
  PROVE  Covered' = Append(Covered, current)
<1> DEFINE e == [screen |-> current, armed |-> armed]
<1>1. stack \in Seq(Entries) /\ e \in Entries /\ e.screen = current /\ current \in Screens
  BY DEF TypeScreens, Entries
<1>2. /\ Len(stack') = Len(stack) + 1
      /\ \A i \in 1..Len(stack) : stack'[i] = stack[i]
      /\ stack'[Len(stack) + 1] = e
  BY <1>1
<1>3. /\ Covered' \in Seq(Screens) /\ Len(Covered') = Len(stack')
      /\ \A i \in 1..Len(stack') : Covered'[i] = stack'[i].screen
  BY CoveredSeqNext DEF CoversStack
<1>4. /\ Covered \in Seq(Screens) /\ Len(Covered) = Len(stack)
      /\ \A i \in 1..Len(stack) : Covered[i] = stack[i].screen
  BY CoveredSeq DEF CoversStack
<1>5. Append(Covered, current) \in Seq(Screens) /\ Len(Append(Covered, current)) = Len(stack) + 1
  BY <1>1, <1>4
<1>6. Len(stack) \in Nat
  BY <1>1
<1>7. ASSUME NEW i \in 1..(Len(stack) + 1)
      PROVE  Covered'[i] = Append(Covered, current)[i]
  <2>1. CASE i \in 1..Len(stack)
    <3>1. Append(Covered, current)[i] = Covered[i]
      BY <1>1, <1>4, <1>6, <2>1
    <3>2. Covered'[i] = Covered[i]
      BY <1>2, <1>3, <1>4, <1>6, <2>1
    <3>. QED
      BY <3>1, <3>2
  <2>2. CASE i = Len(stack) + 1
    <3>1. Append(Covered, current)[i] = current
      BY <1>1, <1>4, <1>6, <2>2
    <3>2. Covered'[i] = current
      BY <1>1, <1>2, <1>3, <1>6, <2>2
    <3>. QED
      BY <3>1, <3>2
  <2>3. i \in 1..Len(stack) \/ i = Len(stack) + 1
    BY <1>6
  <2>. QED
    BY <2>1, <2>2, <2>3
<1>8. /\ Len(Covered') = Len(Append(Covered, current))
      /\ \A i \in 1..Len(Covered') : Covered'[i] = Append(Covered, current)[i]
  BY <1>2, <1>3, <1>5, <1>7
<1>. QED
  BY <1>3, <1>5, <1>8, SeqEqual

\* A pop onto the screen below leaves the pile one shorter.
LEMMA PopUncovers ==
  ASSUME TypeScreens, TypeScreens', stack # <<>>,
         stack' = SubSeq(stack, 1, Len(stack) - 1)
  PROVE  Append(Covered', stack[Len(stack)].screen) = Covered
<1> DEFINE n == Len(stack)
           s == stack[n].screen
<1>1. stack \in Seq(Entries) /\ n \in Nat /\ n > 0
  BY DEF TypeScreens
<1>2. s \in Screens
  <2>1. stack[n] \in Entries
    BY <1>1, ElementOfSeq
  <2>. QED
    BY <2>1 DEF Entries
<1>3. Len(stack') = n - 1 /\ \A i \in 1..(n - 1) : stack'[i] = stack[i]
  <2>1. \A i \in 1..(n - 1) : stack[i] \in Entries
    BY <1>1, ElementOfSeq
  <2>2. \A i \in 1..((n - 1) - 1 + 1) : SubSeq(stack, 1, n - 1)[i] = stack[1 + i - 1]
    BY <1>1, <2>1, SubSeqProperties
  <2>3. Len(SubSeq(stack, 1, n - 1)) = n - 1
    <3>1. n - 1 \in Int /\ 1 \in Int
      BY <1>1
    <3>2. Len(SubSeq(stack, 1, n - 1)) = IF 1 <= n - 1 THEN (n - 1) - 1 + 1 ELSE 0
      BY <2>1, <3>1, SubSeqProperties
    <3>3. \A m \in Nat : m > 0 => (IF 1 <= m - 1 THEN (m - 1) - 1 + 1 ELSE 0) = m - 1
      OBVIOUS
    <3>4. (IF 1 <= n - 1 THEN (n - 1) - 1 + 1 ELSE 0) = n - 1
      BY <1>1, <3>3
    <3>. QED
      BY <3>2, <3>4
  <2>4. ASSUME NEW i \in 1..(n - 1) PROVE stack'[i] = stack[i]
    <3>1. (n - 1) - 1 + 1 = n - 1 /\ 1 + i - 1 = i
      BY <1>1
    <3>. QED
      BY <2>2, <3>1
  <2>. QED
    BY <2>3, <2>4
<1>4. /\ Covered' \in Seq(Screens) /\ Len(Covered') = n - 1
      /\ \A i \in 1..(n - 1) : Covered'[i] = stack[i].screen
  BY <1>3, CoveredSeqNext DEF CoversStack
<1>5. /\ Covered \in Seq(Screens) /\ Len(Covered) = n
      /\ \A i \in 1..n : Covered[i] = stack[i].screen
  BY CoveredSeq DEF CoversStack
<1>6. Append(Covered', s) \in Seq(Screens) /\ Len(Append(Covered', s)) = n
  BY <1>1, <1>2, <1>4
<1>7. ASSUME NEW i \in 1..n PROVE Append(Covered', s)[i] = Covered[i]
  <2>1. CASE i \in 1..(n - 1)
    <3>1. Append(Covered', s)[i] = Covered'[i]
      BY <1>1, <1>2, <1>4, <2>1
    <3>. QED
      BY <1>1, <1>4, <1>5, <2>1, <3>1
  <2>2. CASE i = n
    <3>1. Append(Covered', s)[i] = s
      BY <1>1, <1>2, <1>4, <2>2
    <3>. QED
      BY <1>1, <1>5, <2>2, <3>1
  <2>3. i \in 1..(n - 1) \/ i = n
    BY <1>1
  <2>. QED
    BY <2>1, <2>2, <2>3
<1>8. /\ Len(Append(Covered', s)) = Len(Covered)
      /\ \A i \in 1..Len(Append(Covered', s)) : Append(Covered', s)[i] = Covered[i]
  BY <1>5, <1>6, <1>7
<1>. QED
  BY <1>5, <1>6, <1>8, SeqEqual


\* The manager begins with an empty pile.
LEMMA RefineInit == Init => Pile!Init
  BY DEF Init, Pile!Init, OpenScreens, Covered, NoScreen

\* A step that changes neither the pile, nor a paint, nor sleep is a stutter.
LEMMA Stutter ==
  ASSUME UNCHANGED <<current, stack, sleepTransition>>, (rpc = "paint") <=> (rpc' = "paint")
  PROVE  UNCHANGED Pile!vars
<1>1. OpenScreens' = OpenScreens
  BY NextCovered
<1>2. (rpc = "paint") = (rpc' = "paint")
  OBVIOUS
<1>. QED
  BY <1>1, <1>2 DEF Pile!vars

\* Opening, closing and starting over, as the manager does them: with the lock,
\* or with no screen in front, so beside no paint.
LEMMA RefinePile ==
  ASSUME IInv, TypeScreens', rpc # "paint", rpc' # "paint", UNCHANGED sleepTransition
  PROVE  /\ stack' = <<>> /\ current' # NoScreen => Pile!Next
         /\ current # NoScreen /\ stack = <<>> /\ stack' = <<>> /\ current' = NoScreen
              => Pile!Next
<1>0. current' \in Screens /\ current \in Screens
  BY DEF IInv, TypeOK, TypeScreens
<1>1. ASSUME stack' = <<>>, current' # NoScreen PROVE Pile!Next
  <2>1. OpenScreens' = <<current'>>
    BY <1>1, NextCovered DEF OpenScreens
  <2>2. Pile!StartOver(current')
    BY <2>1 DEF Pile!StartOver
  <2>. QED
    BY <1>0, <2>2 DEF Pile!Next
<1>2. ASSUME current # NoScreen, stack = <<>>, stack' = <<>>, current' = NoScreen
      PROVE  Pile!Next
  <2>1. OpenScreens = <<current>> /\ OpenScreens' = <<>>
    BY <1>2, NextCovered, NothingCovered DEF OpenScreens
  <2>2. OpenScreens' = SubSeq(OpenScreens, 1, Len(OpenScreens) - 1) /\ OpenScreens # <<>>
    BY <1>0, <2>1
  <2>3. Pile!Close
    BY <2>2 DEF Pile!Close
  <2>. QED
    BY <2>3 DEF Pile!Next
<1>. QED
  BY <1>1, <1>2

\* PushScreen opens the pending screen on top.
LEMMA RefinePush == ASSUME IInv, IInv', PushScreen PROVE Pile!Next
<1>1. /\ rpc # "paint" /\ rpc' # "paint" /\ UNCHANGED sleepTransition
      /\ current # NoScreen /\ TypeScreens /\ TypeScreens'
  BY DEF IInv, TypeOK, PushScreen, CanClose, LockInv, ScreensInv, FrontInv, power
<1>2. current' # NoScreen /\ current' \in Screens
  BY <1>1 DEF IInv, PushScreen, ScreensInv, FrontInv, TypeScreens
<1>3. Covered' = Append(Covered, current)
  BY <1>1, PushCovers DEF PushScreen
<1>4. OpenScreens' = Append(OpenScreens, current')
  BY <1>1, <1>2, <1>3 DEF OpenScreens
<1>5. Pile!Open(current')
  BY <1>1, <1>4 DEF Pile!Open
<1>. QED
  BY <1>2, <1>5 DEF Pile!Next

\* PopToParent closes the screen in front.
LEMMA RefinePop == ASSUME IInv, IInv', PopToParent PROVE Pile!Next
<1>1. /\ rpc # "paint" /\ rpc' # "paint" /\ UNCHANGED sleepTransition
      /\ current # NoScreen /\ TypeScreens /\ TypeScreens' /\ stack # <<>>
      /\ stack' = SubSeq(stack, 1, Len(stack) - 1) /\ current' = stack[Len(stack)].screen
  BY DEF IInv, TypeOK, PopToParent, CanClose, LockInv, ScreensInv, FrontInv, power
<1>2. current' # NoScreen
  BY DEF IInv, ScreensInv, FrontInv, PopToParent
<1>3. OpenScreens' = Covered
  BY <1>1, <1>2, PopUncovers DEF OpenScreens
<1>4. OpenScreens = Append(Covered, current) /\ current \in Screens
  BY <1>1 DEF OpenScreens, TypeScreens
<1>5. Covered \in Seq(Screens)
  BY <1>1, CoveredSeq DEF CoversStack
<1>6. OpenScreens # <<>> /\ SubSeq(OpenScreens, 1, Len(OpenScreens) - 1) = Covered
  BY <1>4, <1>5, AppendProperties
<1>7. Pile!Close
  BY <1>1, <1>3, <1>6 DEF Pile!Close
<1>. QED
  BY <1>7 DEF Pile!Next

\* A paint begins on the screen in front, and never in sleep.
LEMMA RefinePaint ==
  ASSUME IInv, IInv', UNCHANGED <<current, stack, sleepTransition>>,
         rpc # "paint", rpc' = "paint"
  PROVE  Pile!Next
<1>1. OpenScreens' = OpenScreens
  BY NextCovered
<1>2. current # NoScreen /\ ~sleepTransition
  BY DEF IInv, ScreensInv, FrontInv, PaintInv
<1>3. TypeScreens
  BY DEF IInv, TypeOK
<1>4. OpenScreens # <<>>
  <2>1. Covered \in Seq(Screens) /\ current \in Screens
    BY <1>3, CoveredSeq DEF CoversStack, TypeScreens
  <2>. QED
    BY <1>2, <2>1 DEF OpenScreens
<1>5. Pile!StartPaint
  BY <1>1, <1>2, <1>4 DEF Pile!StartPaint
<1>. QED
  BY <1>5 DEF Pile!Next

\* Sleep begins beside no paint, and giving it up starts none.
LEMMA RefineSleep ==
  ASSUME IInv, GoToSleep \/ SleepAborted PROVE Pile!Next
<1>1. OpenScreens' = OpenScreens /\ rpc' = rpc
  BY NextCovered DEF GoToSleep, SleepAborted, screens, sync
<1>2. CASE GoToSleep
  <2>1. rpc # "paint" /\ sleepTransition'
    BY <1>2 DEF IInv, LockInv, GoToSleep
  <2>2. sleepTransition' = TRUE
    BY <1>2 DEF GoToSleep
  <2>3. Pile!FallAsleep
    BY <1>1, <2>1, <2>2 DEF Pile!FallAsleep
  <2>. QED
    BY <2>3 DEF Pile!Next
<1>3. CASE SleepAborted
  <2>1. sleepTransition /\ sleepTransition' = FALSE
    <3>1. pc = "sleepAbort" /\ sleepTransition' = FALSE
      BY <1>3 DEF SleepAborted
    <3>. QED
      BY <3>1 DEF IInv, SleepInv
  <2>2. Pile!StayAwake
    BY <1>1, <2>1 DEF Pile!StayAwake
  <2>. QED
    BY <2>2 DEF Pile!Next
<1>. QED
  BY <1>2, <1>3

\* Every step of the manager is a step of the pile, or leaves it alone.
LEMMA RefineStep == ASSUME IInv, IInv', [Next]_vars PROVE [Pile!Next]_(Pile!vars)
<1>0. TypeScreens'
  BY DEF IInv, TypeOK
<1>1. CASE Boot
  <2>1. rpc # "paint" /\ rpc' # "paint" /\ UNCHANGED sleepTransition /\ stack' = <<>>
    BY <1>1 DEF Boot, IInv, ScreensInv, FrontInv, sync, power
  <2>2. current' # NoScreen
    BY <1>1 DEF Boot, IInv, ScreensInv, FrontInv
  <2>. QED
    BY <1>0, <2>1, <2>2, RefinePile
<1>2. CASE CloseForRestart
  <2>1. /\ rpc # "paint" /\ rpc' # "paint" /\ UNCHANGED sleepTransition
        /\ stack = <<>> /\ stack' = <<>> /\ current' = NoScreen
    BY <1>2 DEF CloseForRestart, IInv, LockInv, ScreensInv, StackInv, sync, power
  <2>2. current # NoScreen
    BY <1>2 DEF CloseForRestart, IInv, ScreensInv, FrontInv
  <2>. QED
    BY <1>0, <2>1, <2>2, RefinePile
<1>3. CASE Restart
  <2>1. /\ rpc # "paint" /\ rpc' = rpc /\ UNCHANGED sleepTransition
        /\ stack = <<>> /\ stack' = <<>> /\ current = NoScreen
    BY <1>3 DEF Restart, IInv, ScreensInv, FrontInv, sync, power
  <2>2. CASE current' = NoScreen
    BY <2>1, <2>2, Stutter
  <2>3. CASE current' # NoScreen
    BY <1>0, <2>1, <2>3, RefinePile
  <2>. QED
    BY <2>2, <2>3
<1>4. CASE GoToSleep
  BY <1>4, RefineSleep
<1>5. CASE SleepAborted
  BY <1>5, RefineSleep
<1>6. CASE PopToHome
  <2>1. /\ rpc # "paint" /\ rpc' # "paint" /\ UNCHANGED sleepTransition
        /\ stack' = <<>>
    BY <1>6 DEF PopToHome, CanClose, IInv, LockInv, power
  <2>2. current' # NoScreen
    BY <1>6 DEF PopToHome, IInv, ScreensInv, FrontInv
  <2>. QED
    BY <1>0, <2>1, <2>2, RefinePile
<1>7. CASE PopToParent
  BY <1>7, RefinePop
<1>8. CASE ReplaceScreens
  <2>1. /\ rpc # "paint" /\ rpc' # "paint" /\ UNCHANGED sleepTransition
        /\ stack' = <<>>
    BY <1>8 DEF ReplaceScreens, StackCleared, CanClose, IInv, LockInv, power
  <2>2. current' # NoScreen
    BY <1>8 DEF ReplaceScreens, IInv, ScreensInv, FrontInv
  <2>. QED
    BY <1>0, <2>1, <2>2, RefinePile
<1>9. CASE PushScreen
  BY <1>9, RefinePush
<1>10. CASE RenderLockTake
  <2>1. UNCHANGED <<current, stack, sleepTransition>> /\ rpc # "paint"
    BY <1>10 DEF RenderLockTake, screens, power
  <2>2. CASE rpc' = "paint"
    BY <2>1, <2>2, RefinePaint
  <2>3. CASE rpc' # "paint"
    BY <2>1, <2>3, Stutter
  <2>. QED
    BY <2>2, <2>3
<1>11. CASE RenderPaintDone
  <2>1. OpenScreens' = OpenScreens /\ UNCHANGED sleepTransition
    BY <1>11, NextCovered DEF RenderPaintDone, screens, power
  <2>2. Pile!EndPaint
    BY <1>11, <2>1 DEF RenderPaintDone, Pile!EndPaint
  <2>. QED
    BY <2>2 DEF Pile!Next
<1>12. CASE Reset
  <2>1. OpenScreens' = <<>>
    BY <1>12, NextCovered DEF Reset, OpenScreens
  <2>2. Pile!Reset
    BY <1>12, <2>1 DEF Reset, Pile!Reset
  <2>. QED
    BY <2>2 DEF Pile!Next
<1>13. CASE BootPaint \/ BootDone \/ WaitDone \/ StartRadio \/ UsbPlugged \/ BeginLoop
  <2>1. UNCHANGED <<current, stack, sleepTransition>> /\ ((rpc = "paint") <=> (rpc' = "paint"))
    BY <1>13 DEF BootPaint, BootDone, WaitDone, StartRadio, UsbPlugged, BeginLoop, screens,
       sync, power
  <2>. QED
    BY <2>1, Stutter
<1>14. CASE RequestSleepScreen \/ SleepPoll \/ SleepDone \/ SleepTimeOut \/ ExclusiveLoop \/
   StartFlush
  <2>1. UNCHANGED <<current, stack, sleepTransition>> /\ ((rpc = "paint") <=> (rpc' = "paint"))
    BY <1>14 DEF RequestSleepScreen, SleepPoll, SleepDone, SleepTimeOut, ExclusiveLoop,
       StartFlush, screens, sync, power
  <2>. QED
    BY <2>1, Stutter
<1>15. CASE Flush \/ SkipFlush \/ SkipInput \/ HomeGesture \/ OpenPanel \/ ActivityLoop
  <2>1. UNCHANGED <<current, stack, sleepTransition>> /\ ((rpc = "paint") <=> (rpc' = "paint"))
    BY <1>15 DEF Flush, SkipFlush, SkipInput, HomeGesture, OpenPanel, ActivityLoop, screens,
       sync, power
  <2>. QED
    BY <2>1, Stutter
<1>16. CASE ActivityLoopWaits \/ WaitForRadio \/ StartTransition \/ TransitionLock \/
   ExitRestarts \/ Enter
  <2>1. UNCHANGED <<current, stack, sleepTransition>> /\ ((rpc = "paint") <=> (rpc' = "paint"))
    BY <1>16 DEF ActivityLoopWaits, WaitForRadio, StartTransition, TransitionLock,
       ExitRestarts, Enter, screens, sync, power
  <2>. QED
    BY <2>1, Stutter
<1>17. CASE EnterWaits \/ Handler \/ HandlerWaits \/ Handled \/ EndLoop \/ RenderWake
  <2>1. UNCHANGED <<current, stack, sleepTransition>> /\ ((rpc = "paint") <=> (rpc' = "paint"))
    BY <1>17 DEF EnterWaits, Handler, HandlerWaits, Handled, EndLoop, RenderWake, screens,
       sync, power
  <2>. QED
    BY <2>1, Stutter
<1>18. CASE RenderAck \/ RenderUnlock \/ RadioStopped
  <2>1. UNCHANGED <<current, stack, sleepTransition>> /\ ((rpc = "paint") <=> (rpc' = "paint"))
    BY <1>18 DEF RenderAck, RenderUnlock, RadioStopped, screens, sync, power
  <2>. QED
    BY <2>1, Stutter
<1>19. CASE UNCHANGED vars
  BY <1>19, Stutter DEF vars, screens, sync, power
<1>. QED
  BY <1>1, <1>2, <1>3, <1>4, <1>5, <1>6, <1>7, <1>8, <1>9, <1>10, <1>11, <1>12, <1>13, <1>14,
     <1>15, <1>16, <1>17, <1>18, <1>19 DEF Next, Main, Render

\* Everything the manager does to its screens, ScreenPile allows.
THEOREM ImplementsPile == Spec => ImplementsScreenPile
<1>1. Init => Pile!Init
  BY RefineInit
<1>2. IInv /\ IInv' /\ [Next]_vars => [Pile!Next]_(Pile!vars)
  BY RefineStep
<1>. QED
  BY <1>1, <1>2, Inductive, PTL DEF Spec, ImplementsScreenPile, Pile!Spec

(***************************************************************************)
(* The interface to the page turner's radio.                               *)
(***************************************************************************)
\* The radio is off where the device boots, restarts or stops, behind a sleep
\* screen that is in front, and in USB Drive: nothing starts it there.
RestInv ==
    /\ pc \in {"boot", "restart", "off"} => radio = "off"
    /\ pc \in {"enter", "wait", "waitUnlocked"} /\ ret = "boot" => radio = "off"
    /\ inSleep /\ action = "None" /\ pc # "sleepAbort" => radio = "off"
    /\ current.kind = "usb" => radio = "off"

\* A screen leaves a transition pending, or the one there was.
LEMMA NavigateAsks == ASSUME Navigate \/ Stay PROVE action' # "None" \/ action' = action
  BY DEF Navigate, Stay, Replace

\* So does the main task once a result handler has run.
LEMMA HandledAsks == ASSUME Handled PROVE action' # "None" \/ action' = action
<1>1. CASE GoHomeAfterInput
  BY <1>1 DEF GoHomeAfterInput, Replace
<1>2. CASE Stay
  BY <1>2, NavigateAsks
<1>3. CASE action' = "Push"
  BY <1>3
<1>. QED
  BY <1>1, <1>2, <1>3 DEF Handled

\* Every step keeps it.
LEMMA RestInvStep == ASSUME IInv, RestInv, [Next]_vars PROVE RestInv'
<1> USE DEF RestInv, IInv
<1>1. CASE StartRadio
  <2>1. current.kind # "usb"
    BY <1>1 DEF StartRadio, RadioUsers, Screen
  <2>. QED
    BY <1>1, <2>1 DEF StartRadio, screens, request
<1>2. CASE WaitForRadio
  BY <1>2 DEF WaitForRadio, ScreensInv, FrontInv, screens, request
<1>3. CASE radio' = "off"
  BY <1>3
<1>4. CASE Boot \/ CloseForRestart \/ ExitRestarts \/ PopToHome
  BY <1>4, <1>3 DEF Boot, CloseForRestart, ExitRestarts, PopToHome, CanClose, power, RadioOffWhileEntering
<1>5. CASE PopToParent \/ ReplaceScreens \/ PushScreen
  BY <1>5, <1>3 DEF PopToParent, ReplaceScreens, PushScreen, CanClose, power, RadioOffWhileEntering
<1>6. CASE Restart
  BY <1>6, <1>3 DEF Restart, power
<1>7. ASSUME UNCHANGED <<current, radio, inSleep>>, action' # "None" \/ action' = action,
             pc' \in {"boot", "restart", "off"} => radio = "off",
             pc' \in {"enter", "wait", "waitUnlocked"} /\ ret' = "boot" => radio = "off",
             pc # "sleepAbort"
      PROVE  RestInv'
  BY <1>7
<1>8. CASE BootPaint \/ BootDone \/ UsbPlugged \/ BeginLoop
  BY <1>8, <1>7 DEF BootPaint, BootDone, UsbPlugged, BeginLoop, StartWait, screens, request, power
<1>9. CASE WaitDone
  BY <1>9, <1>7 DEF WaitDone, TypeOK, TypePoints, screens, request, power
<1>10. CASE GoToSleep \/ SleepPoll \/ SleepDone
  BY <1>10, <1>7 DEF GoToSleep, SleepPoll, SleepDone, screens, request, power
<1>11. CASE RequestSleepScreen
  BY <1>11 DEF RequestSleepScreen, Replace, screens
<1>12. CASE SleepTimeOut \/ SleepAborted
  BY <1>12 DEF SleepTimeOut, SleepAborted, screens, request, power
<1>13. CASE ExclusiveLoop
  BY <1>13, <1>7 DEF ExclusiveLoop, screens, request, power
<1>14. CASE StartFlush \/ Flush \/ SkipFlush \/ SkipInput \/ TransitionLock \/ EndLoop
  BY <1>14, <1>7 DEF StartFlush, Flush, SkipFlush, SkipInput, TransitionLock, EndLoop, screens, request, power
<1>15. CASE HomeGesture \/ OpenPanel
  BY <1>15, <1>7 DEF HomeGesture, OpenPanel, Replace, screens, power
<1>16. CASE ActivityLoop
  <2>1. action' # "None" \/ action' = action
    BY <1>16, NavigateAsks DEF ActivityLoop
  <2>. QED
    BY <1>16, <1>7, <2>1 DEF ActivityLoop, power
<1>17. CASE ActivityLoopWaits
  BY <1>17, <1>7 DEF ActivityLoopWaits, StartWait, screens, request, power
<1>18. CASE Enter
  <2>1. action' # "None" \/ action' = action
    BY <1>18, NavigateAsks DEF Enter
  <2>2. pc = "enter" /\ pc' = ret /\ UNCHANGED <<current, radio, inSleep, ret>>
    BY <1>18 DEF Enter, power
  <2>3. ret \in {"pending", "idle", "boot", "handled"}
    BY DEF TypeOK, TypePoints
  <2>. QED
    BY <1>7, <2>1, <2>2, <2>3
<1>19. CASE EnterWaits
  BY <1>19, <1>7 DEF EnterWaits, StartWait, screens, request, power
<1>20. CASE Handler
  <2>1. action' # "None" \/ action' = action
    BY <1>20, NavigateAsks DEF Handler
  <2>. QED
    BY <1>20, <1>7, <2>1 DEF Handler, power
<1>21. CASE HandlerWaits
  BY <1>21, <1>7 DEF HandlerWaits, StartWait, screens, request, power
<1>22. CASE Handled
  <2>1. action' # "None" \/ action' = action
    BY <1>22, HandledAsks
  <2>. QED
    BY <1>22, <1>7, <2>1 DEF Handled, power
<1>23. CASE Render
  BY <1>23 DEF Render, RenderWake, RenderLockTake, RenderPaintDone, RenderAck, RenderUnlock, screens, request, power
<1>24. CASE UNCHANGED vars
  BY <1>24 DEF vars, screens, request, power
<1>25. StartTransition \/ RadioStopped \/ Reset => radio' = "off"
  BY DEF StartTransition, RadioStopped, Reset
<1>. QED
  BY <1>1, <1>2, <1>3, <1>4, <1>5, <1>6, <1>8, <1>9, <1>10, <1>11, <1>12, <1>13, <1>14, <1>15, <1>16, <1>17, <1>18,
     <1>19, <1>20, <1>21, <1>22, <1>23, <1>24, <1>25 DEF Next, Main

\* RestInv in every reachable state.
LEMMA RestHolds == Spec => []RestInv
<1>1. Init => RestInv
  BY DEF Init, RestInv, NoScreen, Screen
<1>. QED
  BY <1>1, RestInvStep, Inductive, PTL DEF Spec

\* A step that moves neither the screen in front, nor a request, nor the radio is
\* a stutter.
LEMMA InterfaceStutters ==
  ASSUME UNCHANGED <<current, radio>>, (action # "None") <=> (action' # "None")
  PROVE  UNCHANGED Interface!vars
<1>1. (action # "None") = (action' # "None")
  OBVIOUS
<1>. QED
  BY <1>1 DEF Interface!vars

\* A transition is asked for, or nothing happens.
LEMMA InterfaceAsks ==
  ASSUME UNCHANGED <<current, radio>>, action' # "None" \/ action' = action
  PROVE  [Interface!Next]_(Interface!vars)
<1>1. CASE action' = action
  BY <1>1, InterfaceStutters
<1>2. CASE action' # "None"
  <2>1. (action # "None")' = TRUE
    BY <1>2
  <2>2. Interface!Ask
    BY <2>1 DEF Interface!Ask
  <2>. QED
    BY <2>2 DEF Interface!Next
<1>. QED
  BY <1>1, <1>2

\* The next screen is in front, or none.
LEMMA InterfaceChanges ==
  ASSUME radio = "off", radio' = "off", action' = "None"
  PROVE  [Interface!Next]_(Interface!vars)
<1>1. Interface!Change
  BY DEF Interface!Change
<1>. QED
  BY <1>1 DEF Interface!Next

\* Every step is one of ScreenRadio's, or none.
LEMMA InterfaceStep ==
  ASSUME IInv, RestInv, [Next]_vars
  PROVE  [Interface!Next]_(Interface!vars)
<1>1. CASE StartRadio
  <2>1. radio = "off" /\ radio' # "off" /\ UNCHANGED <<current, action>> /\ action = "None" /\ current \in RadioUsers
    BY <1>1 DEF StartRadio, screens, request
  <2>2. Interface!Start
    BY <2>1 DEF Interface!Start
  <2>. QED
    BY <2>2 DEF Interface!Next
<1>2. CASE WaitForRadio
  <2>1. radio # "off" /\ radio' # "off" /\ UNCHANGED <<current, action>>
    BY <1>2 DEF WaitForRadio, screens, request
  <2>. QED
    BY <2>1 DEF Interface!vars
<1>3. CASE StartTransition \/ RadioStopped
  <2>1. radio' = "off" /\ UNCHANGED <<current, action>>
    BY <1>3 DEF StartTransition, RadioStopped, screens, request
  <2>2. CASE radio = "off"
    BY <2>1, <2>2, InterfaceStutters
  <2>3. CASE radio # "off"
    BY <2>1, <2>3 DEF Interface!Stop, Interface!Next
  <2>. QED
    BY <2>2, <2>3
<1>4. CASE PopToHome \/ PopToParent \/ ReplaceScreens \/ PushScreen
  BY <1>4, InterfaceChanges
  DEF PopToHome, PopToParent, ReplaceScreens, PushScreen, CanClose, power, IInv, RadioOffWhileEntering
<1>5. CASE Boot \/ CloseForRestart \/ Restart \/ Reset
  <2>1. radio = "off" /\ radio' = "off"
    BY <1>5 DEF Boot, CloseForRestart, Restart, Reset, RestInv, power
  <2>2. CASE action' = "None"
    BY <2>1, <2>2, InterfaceChanges
  <2>3. CASE action' # "None"
    <3>1. UNCHANGED <<current, action>> \/ current = NoScreen
      BY <1>5, <2>3 DEF Boot, CloseForRestart, Restart, Reset, request, IInv, ScreensInv, FrontInv
    <3>. QED
      BY <1>5, <2>3 DEF Boot, CloseForRestart, Restart, Reset, request, IInv, ScreensInv, FrontInv
  <2>. QED
    BY <2>2, <2>3
<1>6. CASE SleepTimeOut
  BY <1>6 DEF SleepTimeOut, Interface!GiveUp, Interface!Next, screens, power
<1>7. CASE RequestSleepScreen \/ HomeGesture \/ OpenPanel
  BY <1>7, InterfaceAsks DEF RequestSleepScreen, HomeGesture, OpenPanel, Replace, screens, power
<1>8. CASE ActivityLoop \/ Enter \/ Handler
  <2>1. UNCHANGED <<current, radio>>
    BY <1>8 DEF ActivityLoop, Enter, Handler, power
  <2>2. action' # "None" \/ action' = action
    BY <1>8, NavigateAsks DEF ActivityLoop, Enter, Handler
  <2>. QED
    BY <2>1, <2>2, InterfaceAsks
<1>9. CASE Handled
  <2>1. UNCHANGED <<current, radio>>
    BY <1>9 DEF Handled, power
  <2>2. action' # "None" \/ action' = action
    BY <1>9, HandledAsks
  <2>. QED
    BY <2>1, <2>2, InterfaceAsks
<1>10. CASE BootPaint \/ BootDone \/ WaitDone \/ UsbPlugged \/ BeginLoop \/ GoToSleep \/ SleepPoll \/ SleepDone
            \/ SleepAborted
  BY <1>10, InterfaceAsks DEF BootPaint, BootDone, WaitDone, UsbPlugged, BeginLoop, GoToSleep, SleepPoll, SleepDone,
     SleepAborted, screens, request, power
<1>11. CASE ExclusiveLoop \/ StartFlush \/ Flush \/ SkipFlush \/ SkipInput \/ ActivityLoopWaits \/ TransitionLock
  BY <1>11, InterfaceAsks DEF ExclusiveLoop, StartFlush, Flush, SkipFlush, SkipInput, ActivityLoopWaits,
     TransitionLock, screens, request, power
<1>12. CASE ExitRestarts \/ EnterWaits \/ HandlerWaits \/ EndLoop \/ Render
  BY <1>12, InterfaceAsks DEF ExitRestarts, EnterWaits, HandlerWaits, EndLoop, Render, RenderWake, RenderLockTake,
     RenderPaintDone, RenderAck, RenderUnlock, screens, request, power
<1>13. CASE UNCHANGED vars
  BY <1>13, InterfaceAsks DEF vars, screens, request, power
<1>. QED
  BY <1>1, <1>2, <1>3, <1>4, <1>5, <1>6, <1>7, <1>8, <1>9, <1>10, <1>11, <1>12, <1>13 DEF Next, Main

\* The manager keeps its side of ScreenRadio: screens change, and a pending
\* transition is carried out, only while the radio is off (loop(), main.cpp).
THEOREM ImplementsInterface == Spec => ImplementsScreenRadio
<1>1. Init => Interface!Init
  BY DEF Init, Interface!Init
<1>2. IInv /\ RestInv /\ [Next]_vars => [Interface!Next]_(Interface!vars)
  BY InterfaceStep
<1>. QED
  BY <1>1, <1>2, Inductive, RestHolds, PTL DEF Spec, ImplementsScreenRadio, Interface!Spec
=============================================================================

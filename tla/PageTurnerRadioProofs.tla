----------------------- MODULE PageTurnerRadioProofs -----------------------
(***************************************************************************)
(* For every retry and refusal limit: who takes the memory of the page     *)
(* turner's radio has it for itself, at most one restart is spent on a     *)
(* heap in pieces, and a hold on the radio has someone who lifts it.  The  *)
(* heart is where an attempt to start the host may be while the main task  *)
(* is in a call (CallInv) and while a paint stops the radio (PaintInv).    *)
(***************************************************************************)
EXTENDS PageTurnerRadio, TLAPS

\* Where a call of the main task returns to.
Callers == {"poll", "storage", "visit", "screen", "restart", "switch", "leave", "opened"}

\* The parts of the type invariant.
PointsOK ==
    /\ host \in {"off", "beginning", "up", "stopping"}
    /\ wpc \in {"none", "check", "lock", "heap", "begin", "in", "after", "finish"}
    /\ starter \in {"worker", "main"} /\ screen \in {"reader", "settings", "transfer"}
    /\ mpc \in Passes \cup Calls /\ mret \in Callers
    /\ ppc \in {"idle", "paint", "settle", "stop", "end", "drop", "build", "notice"}

CountsOK == row \in 0..RefusalLimit /\ retries \in 0..RetryLimit /\ owners \in 0..1 /\ restarts \in 0..1

FlagsOK ==
    /\ powerLock \in BOOLEAN /\ inFlight \in BOOLEAN /\ cancelled \in BOOLEAN /\ result \in BOOLEAN
    /\ idleStopped \in BOOLEAN /\ deferred \in BOOLEAN /\ rearm \in BOOLEAN /\ held \in BOOLEAN
    /\ wanted \in BOOLEAN /\ spent \in BOOLEAN
    /\ attempted \in BOOLEAN /\ retryAt \in BOOLEAN /\ newVisit \in BOOLEAN /\ enabled \in BOOLEAN
    /\ leaving \in BOOLEAN /\ pageReady \in BOOLEAN /\ released \in BOOLEAN
    /\ ok \in BOOLEAN /\ refused \in BOOLEAN /\ intent \in BOOLEAN

\* What the point of an attempt says of the host, and of a transfer.
AttemptInv ==
    /\ inFlight <=> wpc # "none"
    /\ wpc = "in" <=> host = "beginning"
    /\ wpc \in {"lock", "heap", "begin"} => host = "off"
    /\ wpc = "after" => host = "up"
    /\ owners > 0 => host = "off" /\ wpc \in {"none", "check", "finish"}

\* The main task's calls begin with no attempt of another task, and what it is
\* told of the radio still holds when it acts on it.
CallInv ==
    /\ mpc \in {"end", "drop"} => ~inFlight
    /\ mpc = "starting" <=> inFlight /\ starter = "main"
    /\ mpc = "starting" => mret \in {"leave", "opened"}
    /\ mpc = "drop" => host = "off"
    /\ mpc = "switch" /\ ok => host = "off" /\ ~inFlight
    /\ mpc = "close" => host = "off" /\ ~inFlight /\ owners = 0

\* A paint that stops the radio holds the lock that an attempt needs to go on.
PaintInv ==
    /\ ppc \in {"stop", "end", "drop", "build"} => wpc \in {"none", "check", "lock", "finish"}
    /\ ppc \in {"drop", "build"} => host = "off"
    /\ ppc = "settle" => screen = "reader"

\* The memo says whether the restart is spent, and a spent one is not asked for.
MemoInv == (wanted => ~spent) /\ (spent <=> restarts = 1)

IInv ==
    /\ PointsOK /\ CountsOK /\ FlagsOK
    /\ AttemptInv /\ CallInv /\ PaintInv /\ MemoInv /\ HoldHasItsLifter
-----------------------------------------------------------------------------
\* A refusal counts up to the limit, and asks only for a restart not spent.
LEMMA RefusalsHold ==
    ASSUME IInv, NEW h, Refused(h)
    PROVE  /\ row' \in 0..RefusalLimit /\ wanted' \in BOOLEAN
           /\ spent' = spent /\ (wanted' => wanted \/ ~spent)
<1>1. row \in Nat /\ row <= RefusalLimit /\ RefusalLimit \in Nat \ {0}
      BY RefusalAssumption DEF IInv, CountsOK
<1>2. wanted' \in BOOLEAN
      BY Zenon DEF Refused
<1>3. row' \in {0, row, row + 1} /\ (row' = row + 1 => row < RefusalLimit \/ row' = 0)
      BY <1>1 DEF Refused
<1>4. row' \in 0..RefusalLimit
      BY <1>1, <1>3
<1>5. spent' = spent /\ (wanted' => wanted \/ ~spent)
      BY DEF Refused
<1> QED BY <1>2, <1>4, <1>5

\* The heap check, as far as the memo goes.
LEMMA HeapChecksHold ==
    ASSUME IInv, HeapCheck
    PROVE  /\ row' \in 0..RefusalLimit /\ wanted' \in BOOLEAN
           /\ spent' = spent /\ (wanted' => wanted \/ ~spent)
<1>1. CASE \E h \in {"pieces", "short"} : Refused(h)
      BY <1>1, RefusalsHold
<1>2. CASE Passed
      <2>1. wanted' \in BOOLEAN
            BY <1>2, Zenon DEF Passed
      <2> QED BY <1>2, <2>1, RefusalAssumption DEF Passed
<1> QED BY <1>1, <1>2 DEF HeapCheck
-----------------------------------------------------------------------------
(* The attempt.                                                            *)

LEMMA StartCheckIInv == IInv /\ StartCheck => IInv'
<1> SUFFICES ASSUME IInv, StartCheck PROVE IInv'
    OBVIOUS
<1> USE DEF IInv, StartCheck,
            radio, attempt, flags, heap, visit, world, main, history
<1>1. PointsOK'
      BY DEF PointsOK, CallInv, Callers, Passes, Calls
<1>2. CountsOK'
      BY RetryAssumption, RefusalAssumption DEF CountsOK, MemoInv
<1>3. FlagsOK'
      <2>1. result' \in BOOLEAN
            BY Zenon DEF FlagsOK
      <2> QED BY <2>1 DEF FlagsOK
<1>4. AttemptInv'
      BY DEF PointsOK, CountsOK, AttemptInv, CallInv, PaintInv
<1>5. CallInv'
      BY DEF PointsOK, AttemptInv, CallInv, Callers, PaintInv
<1>6. PaintInv'
      BY DEF PointsOK, AttemptInv, CallInv, PaintInv
<1>7. MemoInv'
      BY DEF CountsOK, MemoInv
<1>8. HoldHasItsLifter'
      BY DEF HoldHasItsLifter, PaintInv
<1> QED BY <1>1, <1>2, <1>3, <1>4, <1>5, <1>6, <1>7, <1>8

LEMMA ReleaseCachesIInv == IInv /\ ReleaseCaches => IInv'
<1> SUFFICES ASSUME IInv, ReleaseCaches PROVE IInv'
    OBVIOUS
<1> USE DEF IInv, ReleaseCaches, LockFree,
            radio, attempt, flags, heap, visit, world, main, history
<1>1. PointsOK'
      BY DEF PointsOK, CallInv, Callers, Passes, Calls
<1>2. CountsOK'
      BY RetryAssumption, RefusalAssumption DEF CountsOK, MemoInv
<1>3. FlagsOK'
      BY DEF FlagsOK
<1>4. AttemptInv'
      BY DEF PointsOK, CountsOK, AttemptInv, CallInv, PaintInv
<1>5. CallInv'
      BY DEF PointsOK, AttemptInv, CallInv, Callers, PaintInv
<1>6. PaintInv'
      BY DEF PointsOK, AttemptInv, CallInv, PaintInv
<1>7. MemoInv'
      BY DEF CountsOK, MemoInv
<1>8. HoldHasItsLifter'
      BY DEF HoldHasItsLifter, PaintInv
<1> QED BY <1>1, <1>2, <1>3, <1>4, <1>5, <1>6, <1>7, <1>8

LEMMA HeapCheckIInv == IInv /\ HeapCheck => IInv'
<1> SUFFICES ASSUME IInv, HeapCheck PROVE IInv'
    OBVIOUS
<1> USE DEF IInv, HeapCheck,
            radio, attempt, flags, heap, visit, world, main, history
<1> HIDE DEF IInv, HeapCheck
<1>h. /\ row' \in 0..RefusalLimit /\ wanted' \in BOOLEAN
      /\ spent' = spent /\ (wanted' => wanted \/ ~spent)
      BY HeapChecksHold
<1> USE DEF IInv, HeapCheck
<1>1. PointsOK'
      BY DEF PointsOK
<1>2. CountsOK'
      BY <1>h DEF CountsOK
<1>3. FlagsOK'
      <2>1. result' \in BOOLEAN /\ refused' \in BOOLEAN
            BY Zenon DEF FlagsOK
      <2>2. spent' \in BOOLEAN /\ wanted' \in BOOLEAN
            BY <1>h, Zenon DEF FlagsOK
      <2> QED BY <2>1, <2>2 DEF FlagsOK
<1>4. AttemptInv'
      BY DEF PointsOK, CountsOK, AttemptInv, CallInv, PaintInv
<1>5. CallInv'
      BY DEF PointsOK, AttemptInv, CallInv, Callers, PaintInv
<1>6. PaintInv'
      BY DEF PointsOK, AttemptInv, CallInv, PaintInv
<1>7. MemoInv'
      BY <1>h DEF MemoInv
<1>8. HoldHasItsLifter'
      BY DEF HoldHasItsLifter, PaintInv
<1> QED BY <1>1, <1>2, <1>3, <1>4, <1>5, <1>6, <1>7, <1>8

LEMMA HostBeginIInv == IInv /\ HostBegin => IInv'
<1> SUFFICES ASSUME IInv, HostBegin PROVE IInv'
    OBVIOUS
<1> USE DEF IInv, HostBegin,
            radio, attempt, flags, heap, visit, world, main, history
<1>1. PointsOK'
      BY DEF PointsOK, CallInv, Callers, Passes, Calls
<1>2. CountsOK'
      BY RetryAssumption, RefusalAssumption DEF CountsOK, MemoInv
<1>3. FlagsOK'
      <2>1. result' \in BOOLEAN
            BY Zenon DEF FlagsOK
      <2> QED BY <2>1 DEF FlagsOK
<1>4. AttemptInv'
      BY DEF PointsOK, CountsOK, AttemptInv, CallInv, PaintInv
<1>5. CallInv'
      BY DEF PointsOK, AttemptInv, CallInv, Callers, PaintInv
<1>6. PaintInv'
      BY DEF PointsOK, AttemptInv, CallInv, PaintInv
<1>7. MemoInv'
      BY DEF CountsOK, MemoInv
<1>8. HoldHasItsLifter'
      BY DEF HoldHasItsLifter, PaintInv
<1> QED BY <1>1, <1>2, <1>3, <1>4, <1>5, <1>6, <1>7, <1>8

LEMMA HostBegunIInv == IInv /\ HostBegun => IInv'
<1> SUFFICES ASSUME IInv, HostBegun PROVE IInv'
    OBVIOUS
<1> USE DEF IInv, HostBegun,
            radio, attempt, flags, heap, visit, world, main, history
<1>1. PointsOK'
      BY DEF PointsOK, CallInv, Callers, Passes, Calls
<1>2. CountsOK'
      BY RetryAssumption, RefusalAssumption DEF CountsOK, MemoInv
<1>3. FlagsOK'
      <2>1. result' \in BOOLEAN
            BY Zenon DEF FlagsOK
      <2> QED BY <2>1 DEF FlagsOK
<1>4. AttemptInv'
      BY DEF PointsOK, CountsOK, AttemptInv, CallInv, PaintInv
<1>5. CallInv'
      BY DEF PointsOK, AttemptInv, CallInv, Callers, PaintInv
<1>6. PaintInv'
      BY DEF PointsOK, AttemptInv, CallInv, PaintInv
<1>7. MemoInv'
      BY DEF CountsOK, MemoInv
<1>8. HoldHasItsLifter'
      BY DEF HoldHasItsLifter, PaintInv
<1> QED BY <1>1, <1>2, <1>3, <1>4, <1>5, <1>6, <1>7, <1>8

LEMMA RollBackIInv == IInv /\ RollBack => IInv'
<1> SUFFICES ASSUME IInv, RollBack PROVE IInv'
    OBVIOUS
<1> USE DEF IInv, RollBack,
            radio, attempt, flags, heap, visit, world, main, history
<1>1. PointsOK'
      BY DEF PointsOK, CallInv, Callers, Passes, Calls
<1>2. CountsOK'
      BY RetryAssumption, RefusalAssumption DEF CountsOK, MemoInv
<1>3. FlagsOK'
      <2>1. result' \in BOOLEAN
            BY Zenon DEF FlagsOK
      <2> QED BY <2>1 DEF FlagsOK
<1>4. AttemptInv'
      BY DEF PointsOK, CountsOK, AttemptInv, CallInv, PaintInv
<1>5. CallInv'
      BY DEF PointsOK, AttemptInv, CallInv, Callers, PaintInv
<1>6. PaintInv'
      BY DEF PointsOK, AttemptInv, CallInv, PaintInv
<1>7. MemoInv'
      BY DEF CountsOK, MemoInv
<1>8. HoldHasItsLifter'
      BY DEF HoldHasItsLifter, PaintInv
<1> QED BY <1>1, <1>2, <1>3, <1>4, <1>5, <1>6, <1>7, <1>8

LEMMA KeepIInv == IInv /\ Keep => IInv'
<1> SUFFICES ASSUME IInv, Keep PROVE IInv'
    OBVIOUS
<1> USE DEF IInv, Keep, RadioUp,
            radio, attempt, flags, heap, visit, world, main, history
<1>1. PointsOK'
      BY DEF PointsOK, CallInv, Callers, Passes, Calls
<1>2. CountsOK'
      BY RetryAssumption, RefusalAssumption DEF CountsOK, MemoInv
<1>3. FlagsOK'
      <2>1. wanted' \in BOOLEAN /\ spent' \in BOOLEAN /\ result' \in BOOLEAN
            BY Zenon DEF FlagsOK
      <2> QED BY <2>1 DEF FlagsOK
<1>4. AttemptInv'
      BY DEF PointsOK, CountsOK, AttemptInv, CallInv, PaintInv
<1>5. CallInv'
      BY DEF PointsOK, AttemptInv, CallInv, Callers, PaintInv
<1>6. PaintInv'
      BY DEF PointsOK, AttemptInv, CallInv, PaintInv
<1>7. MemoInv'
      BY DEF CountsOK, MemoInv
<1>8. HoldHasItsLifter'
      BY DEF HoldHasItsLifter, PaintInv
<1> QED BY <1>1, <1>2, <1>3, <1>4, <1>5, <1>6, <1>7, <1>8

LEMMA FinishAttemptIInv == IInv /\ FinishAttempt => IInv'
<1> SUFFICES ASSUME IInv, FinishAttempt PROVE IInv'
    OBVIOUS
<1> USE DEF IInv, FinishAttempt, HostUp, Return,
            radio, attempt, flags, heap, visit, world, main, history
<1>1. PointsOK'
      BY DEF PointsOK, CallInv, Callers, Passes, Calls
<1>2. CountsOK'
      BY RetryAssumption, RefusalAssumption DEF CountsOK, MemoInv
<1>3. FlagsOK'
      <2>1. inFlight' \in BOOLEAN /\ powerLock' \in BOOLEAN /\ deferred' \in BOOLEAN /\ result'
            \in BOOLEAN /\ ok' \in BOOLEAN
            BY Zenon DEF FlagsOK
      <2> QED BY <2>1 DEF FlagsOK
<1>4. AttemptInv'
      BY DEF PointsOK, CountsOK, AttemptInv, CallInv, PaintInv
<1>5. CallInv'
      BY DEF PointsOK, AttemptInv, CallInv, Callers, PaintInv
<1>6. PaintInv'
      BY DEF PointsOK, AttemptInv, CallInv, PaintInv
<1>7. MemoInv'
      BY DEF CountsOK, MemoInv
<1>8. HoldHasItsLifter'
      BY DEF HoldHasItsLifter, PaintInv
<1> QED BY <1>1, <1>2, <1>3, <1>4, <1>5, <1>6, <1>7, <1>8

-----------------------------------------------------------------------------
(* The main task.                                                          *)

LEMMA PollIInv == IInv /\ Poll => IInv'
<1> SUFFICES ASSUME IInv, Poll PROVE IInv'
    OBVIOUS
<1> USE DEF IInv, Poll, Suspend, HostUp, Return, Go,
            radio, attempt, flags, heap, visit, world, main, history
<1>1. PointsOK'
      BY DEF PointsOK, CallInv, Callers, Passes, Calls
<1>2. CountsOK'
      BY RetryAssumption, RefusalAssumption DEF CountsOK, MemoInv
<1>3. FlagsOK'
      <2>1. cancelled' \in BOOLEAN /\ powerLock' \in BOOLEAN /\ ok' \in BOOLEAN
            BY Zenon DEF FlagsOK
      <2> QED BY <2>1 DEF FlagsOK
<1>4. AttemptInv'
      BY DEF PointsOK, CountsOK, AttemptInv, CallInv, PaintInv
<1>5. CallInv'
      BY DEF PointsOK, AttemptInv, CallInv, Callers, PaintInv
<1>6. PaintInv'
      BY DEF PointsOK, AttemptInv, CallInv, PaintInv
<1>7. MemoInv'
      BY DEF CountsOK, MemoInv
<1>8. HoldHasItsLifter'
      BY DEF HoldHasItsLifter, PaintInv
<1> QED BY <1>1, <1>2, <1>3, <1>4, <1>5, <1>6, <1>7, <1>8

LEMMA StorageIInv == IInv /\ Storage => IInv'
<1> SUFFICES ASSUME IInv, Storage PROVE IInv'
    OBVIOUS
<1> USE DEF IInv, Storage, Suspend, HostUp, Return, Go,
            radio, attempt, flags, heap, visit, world, main, history
<1>1. PointsOK'
      BY DEF PointsOK, CallInv, Callers, Passes, Calls
<1>2. CountsOK'
      BY RetryAssumption, RefusalAssumption DEF CountsOK, MemoInv
<1>3. FlagsOK'
      <2>1. cancelled' \in BOOLEAN /\ powerLock' \in BOOLEAN /\ ok' \in BOOLEAN
            BY Zenon DEF FlagsOK
      <2> QED BY <2>1 DEF FlagsOK
<1>4. AttemptInv'
      BY DEF PointsOK, CountsOK, AttemptInv, CallInv, PaintInv
<1>5. CallInv'
      BY DEF PointsOK, AttemptInv, CallInv, Callers, PaintInv
<1>6. PaintInv'
      BY DEF PointsOK, AttemptInv, CallInv, PaintInv
<1>7. MemoInv'
      BY DEF CountsOK, MemoInv
<1>8. HoldHasItsLifter'
      BY DEF HoldHasItsLifter, PaintInv
<1> QED BY <1>1, <1>2, <1>3, <1>4, <1>5, <1>6, <1>7, <1>8

LEMMA MainEndIInv == IInv /\ MainEnd => IInv'
<1> SUFFICES ASSUME IInv, MainEnd PROVE IInv'
    OBVIOUS
<1> USE DEF IInv, MainEnd, Return,
            radio, attempt, flags, heap, visit, world, main, history
<1>1. PointsOK'
      BY DEF PointsOK, CallInv, Callers, Passes, Calls
<1>2. CountsOK'
      BY RetryAssumption, RefusalAssumption DEF CountsOK, MemoInv
<1>3. FlagsOK'
      <2>1. ok' \in BOOLEAN
            BY Zenon DEF FlagsOK
      <2> QED BY <2>1 DEF FlagsOK
<1>4. AttemptInv'
      BY DEF PointsOK, CountsOK, AttemptInv, CallInv, PaintInv
<1>5. CallInv'
      BY DEF PointsOK, AttemptInv, CallInv, Callers, PaintInv
<1>6. PaintInv'
      BY DEF PointsOK, AttemptInv, CallInv, PaintInv
<1>7. MemoInv'
      BY DEF CountsOK, MemoInv
<1>8. HoldHasItsLifter'
      BY DEF HoldHasItsLifter, PaintInv
<1> QED BY <1>1, <1>2, <1>3, <1>4, <1>5, <1>6, <1>7, <1>8

LEMMA MainDropIInv == IInv /\ MainDrop => IInv'
<1> SUFFICES ASSUME IInv, MainDrop PROVE IInv'
    OBVIOUS
<1> USE DEF IInv, MainDrop, Return,
            radio, attempt, flags, heap, visit, world, main, history
<1>1. PointsOK'
      BY DEF PointsOK, CallInv, Callers, Passes, Calls
<1>2. CountsOK'
      BY RetryAssumption, RefusalAssumption DEF CountsOK, MemoInv
<1>3. FlagsOK'
      <2>1. powerLock' \in BOOLEAN /\ ok' \in BOOLEAN
            BY Zenon DEF FlagsOK
      <2> QED BY <2>1 DEF FlagsOK
<1>4. AttemptInv'
      BY DEF PointsOK, CountsOK, AttemptInv, CallInv, PaintInv
<1>5. CallInv'
      BY DEF PointsOK, AttemptInv, CallInv, Callers, PaintInv
<1>6. PaintInv'
      BY DEF PointsOK, AttemptInv, CallInv, PaintInv
<1>7. MemoInv'
      BY DEF CountsOK, MemoInv
<1>8. HoldHasItsLifter'
      BY DEF HoldHasItsLifter, PaintInv
<1> QED BY <1>1, <1>2, <1>3, <1>4, <1>5, <1>6, <1>7, <1>8

LEMMA VisitIInv == IInv /\ Visit => IInv'
<1> SUFFICES ASSUME IInv, Visit PROVE IInv'
    OBVIOUS
<1> USE DEF IInv, Visit, VisitOver, Rearms, Foreground, Go,
            radio, attempt, flags, heap, visit, world, main, history
<1>1. PointsOK'
      BY DEF PointsOK, CallInv, Callers, Passes, Calls
<1>2. CountsOK'
      BY RetryAssumption, RefusalAssumption DEF CountsOK, MemoInv
<1>3. FlagsOK'
      <2>1. newVisit' \in BOOLEAN /\ held' \in BOOLEAN /\ attempted' \in BOOLEAN /\ idleStopped'
            \in BOOLEAN /\ rearm' \in BOOLEAN /\ intent' \in BOOLEAN /\ retryAt' \in BOOLEAN
            /\ refused' \in BOOLEAN
            BY Zenon DEF FlagsOK
      <2> QED BY <2>1 DEF FlagsOK
<1>4. AttemptInv'
      BY DEF PointsOK, CountsOK, AttemptInv, CallInv, PaintInv
<1>5. CallInv'
      BY DEF PointsOK, AttemptInv, CallInv, Callers, PaintInv
<1>6. PaintInv'
      BY DEF PointsOK, AttemptInv, CallInv, PaintInv
<1>7. MemoInv'
      BY DEF CountsOK, MemoInv
<1>8. HoldHasItsLifter'
      BY DEF HoldHasItsLifter, PaintInv
<1> QED BY <1>1, <1>2, <1>3, <1>4, <1>5, <1>6, <1>7, <1>8

LEMMA GateIInv == IInv /\ Gate => IInv'
<1> SUFFICES ASSUME IInv, Gate PROVE IInv'
    OBVIOUS
<1> USE DEF IInv, Gate, Suspend, HostUp, Return, Go, Foreground,
            radio, attempt, flags, heap, visit, world, main, history
<1>1. PointsOK'
      BY DEF PointsOK, CallInv, Callers, Passes, Calls
<1>2. CountsOK'
      BY RetryAssumption, RefusalAssumption DEF CountsOK, MemoInv
<1>3. FlagsOK'
      <2>1. cancelled' \in BOOLEAN /\ powerLock' \in BOOLEAN /\ ok' \in BOOLEAN /\ attempted' \in
            BOOLEAN /\ retryAt' \in BOOLEAN
            BY Zenon DEF FlagsOK
      <2> QED BY <2>1 DEF FlagsOK
<1>4. AttemptInv'
      BY DEF PointsOK, CountsOK, AttemptInv, CallInv, PaintInv
<1>5. CallInv'
      BY DEF PointsOK, AttemptInv, CallInv, Callers, PaintInv
<1>6. PaintInv'
      BY DEF PointsOK, AttemptInv, CallInv, PaintInv
<1>7. MemoInv'
      BY DEF CountsOK, MemoInv
<1>8. HoldHasItsLifter'
      BY DEF HoldHasItsLifter, PaintInv
<1> QED BY <1>1, <1>2, <1>3, <1>4, <1>5, <1>6, <1>7, <1>8

LEMMA StartDueIInv == IInv /\ StartDue => IInv'
<1> SUFFICES ASSUME IInv, StartDue PROVE IInv'
    OBVIOUS
<1> USE DEF IInv, StartDue, Ready, Foreground, Go,
            radio, attempt, flags, heap, visit, world, main, history
<1>1. PointsOK'
      BY DEF PointsOK, CallInv, Callers, Passes, Calls
<1>2. CountsOK'
      BY RetryAssumption, RefusalAssumption DEF CountsOK, MemoInv
<1>3. FlagsOK'
      <2>1. attempted' \in BOOLEAN
            BY Zenon DEF FlagsOK
      <2> QED BY <2>1 DEF FlagsOK
<1>4. AttemptInv'
      BY DEF PointsOK, CountsOK, AttemptInv, CallInv, PaintInv
<1>5. CallInv'
      BY DEF PointsOK, AttemptInv, CallInv, Callers, PaintInv
<1>6. PaintInv'
      BY DEF PointsOK, AttemptInv, CallInv, PaintInv
<1>7. MemoInv'
      BY DEF CountsOK, MemoInv
<1>8. HoldHasItsLifter'
      BY DEF HoldHasItsLifter, PaintInv
<1> QED BY <1>1, <1>2, <1>3, <1>4, <1>5, <1>6, <1>7, <1>8

LEMMA BeginAsyncIInv == IInv /\ BeginAsync => IInv'
<1> SUFFICES ASSUME IInv, BeginAsync PROVE IInv'
    OBVIOUS
<1> USE DEF IInv, BeginAsync, HostUp, Return,
            radio, attempt, flags, heap, visit, world, main, history
<1>1. PointsOK'
      BY DEF PointsOK, CallInv, Callers, Passes, Calls
<1>2. CountsOK'
      BY RetryAssumption, RefusalAssumption DEF CountsOK, MemoInv
<1>3. FlagsOK'
      <2>1. idleStopped' \in BOOLEAN /\ ok' \in BOOLEAN /\ deferred' \in BOOLEAN /\ cancelled'
            \in BOOLEAN /\ inFlight' \in BOOLEAN /\ powerLock' \in BOOLEAN /\ refused' \in
            BOOLEAN
            BY Zenon DEF FlagsOK
      <2> QED BY <2>1 DEF FlagsOK
<1>4. AttemptInv'
      BY DEF PointsOK, CountsOK, AttemptInv, CallInv, PaintInv
<1>5. CallInv'
      BY DEF PointsOK, AttemptInv, CallInv, Callers, PaintInv
<1>6. PaintInv'
      BY DEF PointsOK, AttemptInv, CallInv, PaintInv
<1>7. MemoInv'
      BY DEF CountsOK, MemoInv
<1>8. HoldHasItsLifter'
      BY DEF HoldHasItsLifter, PaintInv
<1> QED BY <1>1, <1>2, <1>3, <1>4, <1>5, <1>6, <1>7, <1>8

LEMMA BeginReturnedIInv == IInv /\ BeginReturned => IInv'
<1> SUFFICES ASSUME IInv, BeginReturned PROVE IInv'
    OBVIOUS
<1> USE DEF IInv, BeginReturned, Return,
            radio, attempt, flags, heap, visit, world, main, history
<1>1. PointsOK'
      BY DEF PointsOK, CallInv, Callers, Passes, Calls
<1>2. CountsOK'
      BY RetryAssumption, RefusalAssumption DEF CountsOK, MemoInv
<1>3. FlagsOK'
      BY DEF FlagsOK
<1>4. AttemptInv'
      BY DEF PointsOK, CountsOK, AttemptInv, CallInv, PaintInv
<1>5. CallInv'
      BY DEF PointsOK, AttemptInv, CallInv, Callers, PaintInv
<1>6. PaintInv'
      BY DEF PointsOK, AttemptInv, CallInv, PaintInv
<1>7. MemoInv'
      BY DEF CountsOK, MemoInv
<1>8. HoldHasItsLifter'
      BY DEF HoldHasItsLifter, PaintInv
<1> QED BY <1>1, <1>2, <1>3, <1>4, <1>5, <1>6, <1>7, <1>8

LEMMA IdleStopIInv == IInv /\ IdleStop => IInv'
<1> SUFFICES ASSUME IInv, IdleStop PROVE IInv'
    OBVIOUS
<1> USE DEF IInv, IdleStop, Suspend, HostUp, Return, Go,
            radio, attempt, flags, heap, visit, world, main, history
<1>1. PointsOK'
      BY DEF PointsOK, CallInv, Callers, Passes, Calls
<1>2. CountsOK'
      BY RetryAssumption, RefusalAssumption DEF CountsOK, MemoInv
<1>3. FlagsOK'
      <2>1. idleStopped' \in BOOLEAN /\ deferred' \in BOOLEAN /\ intent' \in BOOLEAN
            /\ cancelled' \in BOOLEAN /\ powerLock' \in BOOLEAN /\ ok' \in BOOLEAN
            BY Zenon DEF FlagsOK
      <2> QED BY <2>1 DEF FlagsOK
<1>4. AttemptInv'
      BY DEF PointsOK, CountsOK, AttemptInv, CallInv, PaintInv
<1>5. CallInv'
      BY DEF PointsOK, AttemptInv, CallInv, Callers, PaintInv
<1>6. PaintInv'
      BY DEF PointsOK, AttemptInv, CallInv, PaintInv
<1>7. MemoInv'
      BY DEF CountsOK, MemoInv
<1>8. HoldHasItsLifter'
      BY DEF HoldHasItsLifter, PaintInv
<1> QED BY <1>1, <1>2, <1>3, <1>4, <1>5, <1>6, <1>7, <1>8

LEMMA NoIdleStopIInv == IInv /\ NoIdleStop => IInv'
<1> SUFFICES ASSUME IInv, NoIdleStop PROVE IInv'
    OBVIOUS
<1> USE DEF IInv, NoIdleStop, Go, Foreground,
            radio, attempt, flags, heap, visit, world, main, history
<1>1. PointsOK'
      BY DEF PointsOK, CallInv, Callers, Passes, Calls
<1>2. CountsOK'
      BY RetryAssumption, RefusalAssumption DEF CountsOK, MemoInv
<1>3. FlagsOK'
      BY DEF FlagsOK
<1>4. AttemptInv'
      BY DEF PointsOK, CountsOK, AttemptInv, CallInv, PaintInv
<1>5. CallInv'
      BY DEF PointsOK, AttemptInv, CallInv, Callers, PaintInv
<1>6. PaintInv'
      BY DEF PointsOK, AttemptInv, CallInv, PaintInv
<1>7. MemoInv'
      BY DEF CountsOK, MemoInv
<1>8. HoldHasItsLifter'
      BY DEF HoldHasItsLifter, PaintInv
<1> QED BY <1>1, <1>2, <1>3, <1>4, <1>5, <1>6, <1>7, <1>8

LEMMA HeapRestartIInv == IInv /\ HeapRestart => IInv'
<1> SUFFICES ASSUME IInv, HeapRestart PROVE IInv'
    OBVIOUS
<1> USE DEF IInv, HeapRestart, Restarting, HostUp, Ready, Foreground, Go,
            radio, attempt, flags, heap, visit, world, main, history
<1>1. PointsOK'
      BY DEF PointsOK, CallInv, Callers, Passes, Calls
<1>2. CountsOK'
      BY RetryAssumption, RefusalAssumption DEF CountsOK, MemoInv
<1>3. FlagsOK'
      <2>1. spent' \in BOOLEAN /\ wanted' \in BOOLEAN
            BY Zenon DEF FlagsOK
      <2> QED BY <2>1 DEF FlagsOK
<1>4. AttemptInv'
      BY DEF PointsOK, CountsOK, AttemptInv, CallInv, PaintInv
<1>5. CallInv'
      BY DEF PointsOK, AttemptInv, CallInv, Callers, PaintInv
<1>6. PaintInv'
      BY DEF PointsOK, AttemptInv, CallInv, PaintInv
<1>7. MemoInv'
      BY DEF CountsOK, MemoInv
<1>8. HoldHasItsLifter'
      BY DEF HoldHasItsLifter, PaintInv
<1> QED BY <1>1, <1>2, <1>3, <1>4, <1>5, <1>6, <1>7, <1>8

LEMMA NoRestartIInv == IInv /\ NoRestart => IInv'
<1> SUFFICES ASSUME IInv, NoRestart PROVE IInv'
    OBVIOUS
<1> USE DEF IInv, NoRestart, Go,
            radio, attempt, flags, heap, visit, world, main, history
<1>1. PointsOK'
      BY DEF PointsOK, CallInv, Callers, Passes, Calls
<1>2. CountsOK'
      BY RetryAssumption, RefusalAssumption DEF CountsOK, MemoInv
<1>3. FlagsOK'
      BY DEF FlagsOK
<1>4. AttemptInv'
      BY DEF PointsOK, CountsOK, AttemptInv, CallInv, PaintInv
<1>5. CallInv'
      BY DEF PointsOK, AttemptInv, CallInv, Callers, PaintInv
<1>6. PaintInv'
      BY DEF PointsOK, AttemptInv, CallInv, PaintInv
<1>7. MemoInv'
      BY DEF CountsOK, MemoInv
<1>8. HoldHasItsLifter'
      BY DEF HoldHasItsLifter, PaintInv
<1> QED BY <1>1, <1>2, <1>3, <1>4, <1>5, <1>6, <1>7, <1>8

LEMMA CloseAndRestartIInv == IInv /\ CloseAndRestart => IInv'
<1> SUFFICES ASSUME IInv, CloseAndRestart PROVE IInv'
    OBVIOUS
<1> USE DEF IInv, CloseAndRestart, LockFree, Restarted, Go,
            radio, attempt, flags, heap, visit, world, main, history
<1>1. PointsOK'
      BY DEF PointsOK, CallInv, Callers, Passes, Calls
<1>2. CountsOK'
      BY RetryAssumption, RefusalAssumption DEF CountsOK, MemoInv
<1>3. FlagsOK'
      <2>1. CASE Restarted
            <3>1. powerLock' \in BOOLEAN /\ inFlight' \in BOOLEAN /\ cancelled' \in BOOLEAN /\ result'
            \in BOOLEAN /\ idleStopped' \in BOOLEAN /\ deferred' \in BOOLEAN /\ rearm' \in
            BOOLEAN /\ held' \in BOOLEAN /\ wanted' \in BOOLEAN /\ attempted' \in BOOLEAN
                  /\ retryAt' \in BOOLEAN /\ newVisit' \in BOOLEAN /\ leaving' \in BOOLEAN /\ pageReady'
            \in BOOLEAN /\ released' \in BOOLEAN /\ ok' \in BOOLEAN /\ refused' \in BOOLEAN
                  /\ intent' \in BOOLEAN
                  BY <2>1, Zenon DEF FlagsOK
            <3> QED BY <2>1, <3>1 DEF FlagsOK
      <2>2. CASE ~Restarted
            <3>1. leaving' = TRUE /\ ok' = ok
                  BY <2>2
            <3>2. leaving' \in BOOLEAN
                  BY <3>1, Zenon
            <3> QED BY <2>2, <3>1, <3>2 DEF FlagsOK
      <2> QED BY <2>1, <2>2
<1>4. AttemptInv'
      BY DEF PointsOK, CountsOK, AttemptInv, CallInv, PaintInv
<1>5. CallInv'
      BY DEF PointsOK, AttemptInv, CallInv, Callers, PaintInv
<1>6. PaintInv'
      BY DEF PointsOK, AttemptInv, CallInv, PaintInv
<1>7. MemoInv'
      BY DEF CountsOK, MemoInv
<1>8. HoldHasItsLifter'
      BY DEF HoldHasItsLifter, PaintInv
<1> QED BY <1>1, <1>2, <1>3, <1>4, <1>5, <1>6, <1>7, <1>8

LEMMA ReaderRearmIInv == IInv /\ ReaderRearm => IInv'
<1> SUFFICES ASSUME IInv, ReaderRearm PROVE IInv'
    OBVIOUS
<1> USE DEF IInv, ReaderRearm, LockFree, Go,
            radio, attempt, flags, heap, visit, world, main, history
<1>1. PointsOK'
      BY DEF PointsOK, CallInv, Callers, Passes, Calls
<1>2. CountsOK'
      BY RetryAssumption, RefusalAssumption DEF CountsOK, MemoInv
<1>3. FlagsOK'
      <2>1. released' \in BOOLEAN /\ held' \in BOOLEAN /\ rearm' \in BOOLEAN /\ intent' \in
            BOOLEAN /\ leaving' \in BOOLEAN
            BY Zenon DEF FlagsOK
      <2> QED BY <2>1 DEF FlagsOK
<1>4. AttemptInv'
      BY DEF PointsOK, CountsOK, AttemptInv, CallInv, PaintInv
<1>5. CallInv'
      BY DEF PointsOK, AttemptInv, CallInv, Callers, PaintInv
<1>6. PaintInv'
      BY DEF PointsOK, AttemptInv, CallInv, PaintInv
<1>7. MemoInv'
      BY DEF CountsOK, MemoInv
<1>8. HoldHasItsLifter'
      BY DEF HoldHasItsLifter, PaintInv
<1> QED BY <1>1, <1>2, <1>3, <1>4, <1>5, <1>6, <1>7, <1>8

LEMMA ScreenLoopIInv == IInv /\ ScreenLoop => IInv'
<1> SUFFICES ASSUME IInv, ScreenLoop PROVE IInv'
    OBVIOUS
<1> USE DEF IInv, ScreenLoop, Go,
            radio, attempt, flags, heap, visit, world, main, history
<1>1. PointsOK'
      BY DEF PointsOK, CallInv, Callers, Passes, Calls
<1>2. CountsOK'
      BY RetryAssumption, RefusalAssumption DEF CountsOK, MemoInv
<1>3. FlagsOK'
      <2>1. leaving' \in BOOLEAN
            BY Zenon DEF FlagsOK
      <2> QED BY <2>1 DEF FlagsOK
<1>4. AttemptInv'
      BY DEF PointsOK, CountsOK, AttemptInv, CallInv, PaintInv
<1>5. CallInv'
      BY DEF PointsOK, AttemptInv, CallInv, Callers, PaintInv
<1>6. PaintInv'
      BY DEF PointsOK, AttemptInv, CallInv, PaintInv
<1>7. MemoInv'
      BY DEF CountsOK, MemoInv
<1>8. HoldHasItsLifter'
      BY DEF HoldHasItsLifter, PaintInv
<1> QED BY <1>1, <1>2, <1>3, <1>4, <1>5, <1>6, <1>7, <1>8

LEMMA ToggleOffIInv == IInv /\ ToggleOff => IInv'
<1> SUFFICES ASSUME IInv, ToggleOff PROVE IInv'
    OBVIOUS
<1> USE DEF IInv, ToggleOff, Suspend, HostUp, Return, Go,
            radio, attempt, flags, heap, visit, world, main, history
<1>1. PointsOK'
      BY DEF PointsOK, CallInv, Callers, Passes, Calls
<1>2. CountsOK'
      BY RetryAssumption, RefusalAssumption DEF CountsOK, MemoInv
<1>3. FlagsOK'
      <2>1. enabled' \in BOOLEAN /\ idleStopped' \in BOOLEAN /\ deferred' \in BOOLEAN
            /\ cancelled' \in BOOLEAN /\ powerLock' \in BOOLEAN /\ ok' \in BOOLEAN
            BY Zenon DEF FlagsOK
      <2> QED BY <2>1 DEF FlagsOK
<1>4. AttemptInv'
      BY DEF PointsOK, CountsOK, AttemptInv, CallInv, PaintInv
<1>5. CallInv'
      BY DEF PointsOK, AttemptInv, CallInv, Callers, PaintInv
<1>6. PaintInv'
      BY DEF PointsOK, AttemptInv, CallInv, PaintInv
<1>7. MemoInv'
      BY DEF CountsOK, MemoInv
<1>8. HoldHasItsLifter'
      BY DEF HoldHasItsLifter, PaintInv
<1> QED BY <1>1, <1>2, <1>3, <1>4, <1>5, <1>6, <1>7, <1>8

LEMMA UserBeginsIInv == IInv /\ UserBegins => IInv'
<1> SUFFICES ASSUME IInv, UserBegins PROVE IInv'
    OBVIOUS
<1> USE DEF IInv, UserBegins, BeginSync, Return,
            radio, attempt, flags, heap, visit, world, main, history
<1>1. PointsOK'
      BY DEF PointsOK, CallInv, Callers, Passes, Calls
<1>2. CountsOK'
      BY RetryAssumption, RefusalAssumption DEF CountsOK, MemoInv
<1>3. FlagsOK'
      <2>1. enabled' \in BOOLEAN /\ idleStopped' \in BOOLEAN /\ deferred' \in BOOLEAN
            /\ inFlight' \in BOOLEAN /\ cancelled' \in BOOLEAN /\ powerLock' \in BOOLEAN /\ refused'
            \in BOOLEAN /\ intent' \in BOOLEAN /\ ok' \in BOOLEAN
            BY Zenon DEF FlagsOK
      <2> QED BY <2>1 DEF FlagsOK
<1>4. AttemptInv'
      BY DEF PointsOK, CountsOK, AttemptInv, CallInv, PaintInv
<1>5. CallInv'
      BY DEF PointsOK, AttemptInv, CallInv, Callers, PaintInv
<1>6. PaintInv'
      BY DEF PointsOK, AttemptInv, CallInv, PaintInv
<1>7. MemoInv'
      BY DEF CountsOK, MemoInv
<1>8. HoldHasItsLifter'
      BY DEF HoldHasItsLifter, PaintInv
<1> QED BY <1>1, <1>2, <1>3, <1>4, <1>5, <1>6, <1>7, <1>8

LEMMA LeaveIInv == IInv /\ Leave => IInv'
<1> SUFFICES ASSUME IInv, Leave PROVE IInv'
    OBVIOUS
<1> USE DEF IInv, Leave, Suspend, HostUp, Return, Go,
            radio, attempt, flags, heap, visit, world, main, history
<1>1. PointsOK'
      BY DEF PointsOK, CallInv, Callers, Passes, Calls
<1>2. CountsOK'
      BY RetryAssumption, RefusalAssumption DEF CountsOK, MemoInv
<1>3. FlagsOK'
      <2>1. cancelled' \in BOOLEAN /\ powerLock' \in BOOLEAN /\ ok' \in BOOLEAN
            BY Zenon DEF FlagsOK
      <2> QED BY <2>1 DEF FlagsOK
<1>4. AttemptInv'
      BY DEF PointsOK, CountsOK, AttemptInv, CallInv, PaintInv
<1>5. CallInv'
      BY DEF PointsOK, AttemptInv, CallInv, Callers, PaintInv
<1>6. PaintInv'
      BY DEF PointsOK, AttemptInv, CallInv, PaintInv
<1>7. MemoInv'
      BY DEF CountsOK, MemoInv
<1>8. HoldHasItsLifter'
      BY DEF HoldHasItsLifter, PaintInv
<1> QED BY <1>1, <1>2, <1>3, <1>4, <1>5, <1>6, <1>7, <1>8

LEMMA SwitchNotYetIInv == IInv /\ SwitchNotYet => IInv'
<1> SUFFICES ASSUME IInv, SwitchNotYet PROVE IInv'
    OBVIOUS
<1> USE DEF IInv, SwitchNotYet, Go,
            radio, attempt, flags, heap, visit, world, main, history
<1>1. PointsOK'
      BY DEF PointsOK, CallInv, Callers, Passes, Calls
<1>2. CountsOK'
      BY RetryAssumption, RefusalAssumption DEF CountsOK, MemoInv
<1>3. FlagsOK'
      BY DEF FlagsOK
<1>4. AttemptInv'
      BY DEF PointsOK, CountsOK, AttemptInv, CallInv, PaintInv
<1>5. CallInv'
      BY DEF PointsOK, AttemptInv, CallInv, Callers, PaintInv
<1>6. PaintInv'
      BY DEF PointsOK, AttemptInv, CallInv, PaintInv
<1>7. MemoInv'
      BY DEF CountsOK, MemoInv
<1>8. HoldHasItsLifter'
      BY DEF HoldHasItsLifter, PaintInv
<1> QED BY <1>1, <1>2, <1>3, <1>4, <1>5, <1>6, <1>7, <1>8

LEMMA SwitchIInv == IInv /\ Switch => IInv'
<1> SUFFICES ASSUME IInv, Switch PROVE IInv'
    OBVIOUS
<1> USE DEF IInv, Switch, LockFree, Suspend, HostUp, Return, Go,
            radio, attempt, flags, heap, visit, world, main, history
<1>1. PointsOK'
      BY DEF PointsOK, CallInv, Callers, Passes, Calls
<1>2. CountsOK'
      BY RetryAssumption, RefusalAssumption DEF CountsOK, MemoInv
<1>3. FlagsOK'
      <2>1. newVisit' \in BOOLEAN /\ leaving' \in BOOLEAN /\ pageReady' \in BOOLEAN /\ released'
            \in BOOLEAN /\ cancelled' \in BOOLEAN /\ powerLock' \in BOOLEAN /\ ok' \in BOOLEAN
            BY Zenon DEF FlagsOK
      <2> QED BY <2>1 DEF FlagsOK
<1>4. AttemptInv'
      BY DEF PointsOK, CountsOK, AttemptInv, CallInv, PaintInv
<1>5. CallInv'
      BY DEF PointsOK, AttemptInv, CallInv, Callers, PaintInv
<1>6. PaintInv'
      BY DEF PointsOK, AttemptInv, CallInv, PaintInv
<1>7. MemoInv'
      BY DEF CountsOK, MemoInv
<1>8. HoldHasItsLifter'
      BY DEF HoldHasItsLifter, PaintInv
<1> QED BY <1>1, <1>2, <1>3, <1>4, <1>5, <1>6, <1>7, <1>8

LEMMA SettingsOpenIInv == IInv /\ SettingsOpen => IInv'
<1> SUFFICES ASSUME IInv, SettingsOpen PROVE IInv'
    OBVIOUS
<1> USE DEF IInv, SettingsOpen, BeginSync, Return, Go,
            radio, attempt, flags, heap, visit, world, main, history
<1>1. PointsOK'
      BY DEF PointsOK, CallInv, Callers, Passes, Calls
<1>2. CountsOK'
      BY RetryAssumption, RefusalAssumption DEF CountsOK, MemoInv
<1>3. FlagsOK'
      <2>1. idleStopped' \in BOOLEAN /\ deferred' \in BOOLEAN /\ inFlight' \in BOOLEAN
            /\ cancelled' \in BOOLEAN /\ powerLock' \in BOOLEAN /\ refused' \in BOOLEAN /\ ok' \in
            BOOLEAN
            BY Zenon DEF FlagsOK
      <2> QED BY <2>1 DEF FlagsOK
<1>4. AttemptInv'
      BY DEF PointsOK, CountsOK, AttemptInv, CallInv, PaintInv
<1>5. CallInv'
      BY DEF PointsOK, AttemptInv, CallInv, Callers, PaintInv
<1>6. PaintInv'
      BY DEF PointsOK, AttemptInv, CallInv, PaintInv
<1>7. MemoInv'
      BY DEF CountsOK, MemoInv
<1>8. HoldHasItsLifter'
      BY DEF HoldHasItsLifter, PaintInv
<1> QED BY <1>1, <1>2, <1>3, <1>4, <1>5, <1>6, <1>7, <1>8

LEMMA SettingsOpenedIInv == IInv /\ SettingsOpened => IInv'
<1> SUFFICES ASSUME IInv, SettingsOpened PROVE IInv'
    OBVIOUS
<1> USE DEF IInv, SettingsOpened, Return,
            radio, attempt, flags, heap, visit, world, main, history
<1>1. PointsOK'
      BY DEF PointsOK, CallInv, Callers, Passes, Calls
<1>2. CountsOK'
      BY RetryAssumption, RefusalAssumption DEF CountsOK, MemoInv
<1>3. FlagsOK'
      BY DEF FlagsOK
<1>4. AttemptInv'
      BY DEF PointsOK, CountsOK, AttemptInv, CallInv, PaintInv
<1>5. CallInv'
      BY DEF PointsOK, AttemptInv, CallInv, Callers, PaintInv
<1>6. PaintInv'
      BY DEF PointsOK, AttemptInv, CallInv, PaintInv
<1>7. MemoInv'
      BY DEF CountsOK, MemoInv
<1>8. HoldHasItsLifter'
      BY DEF HoldHasItsLifter, PaintInv
<1> QED BY <1>1, <1>2, <1>3, <1>4, <1>5, <1>6, <1>7, <1>8

-----------------------------------------------------------------------------
(* The render task.                                                        *)

LEMMA PaintStartIInv == IInv /\ PaintStart => IInv'
<1> SUFFICES ASSUME IInv, PaintStart PROVE IInv'
    OBVIOUS
<1> USE DEF IInv, PaintStart,
            radio, attempt, flags, heap, visit, world, main, history
<1>1. PointsOK'
      BY DEF PointsOK, CallInv, Callers, Passes, Calls
<1>2. CountsOK'
      BY RetryAssumption, RefusalAssumption DEF CountsOK, MemoInv
<1>3. FlagsOK'
      BY DEF FlagsOK
<1>4. AttemptInv'
      BY DEF PointsOK, CountsOK, AttemptInv, CallInv, PaintInv
<1>5. CallInv'
      BY DEF PointsOK, AttemptInv, CallInv, Callers, PaintInv
<1>6. PaintInv'
      BY DEF PointsOK, AttemptInv, CallInv, PaintInv
<1>7. MemoInv'
      BY DEF CountsOK, MemoInv
<1>8. HoldHasItsLifter'
      BY DEF HoldHasItsLifter, PaintInv
<1> QED BY <1>1, <1>2, <1>3, <1>4, <1>5, <1>6, <1>7, <1>8

LEMMA PaintStarvedIInv == IInv /\ PaintStarved => IInv'
<1> SUFFICES ASSUME IInv, PaintStarved PROVE IInv'
    OBVIOUS
<1> USE DEF IInv, PaintStarved,
            radio, attempt, flags, heap, visit, world, main, history
<1>1. PointsOK'
      BY DEF PointsOK, CallInv, Callers, Passes, Calls
<1>2. CountsOK'
      BY RetryAssumption, RefusalAssumption DEF CountsOK, MemoInv
<1>3. FlagsOK'
      BY DEF FlagsOK
<1>4. AttemptInv'
      BY DEF PointsOK, CountsOK, AttemptInv, CallInv, PaintInv
<1>5. CallInv'
      BY DEF PointsOK, AttemptInv, CallInv, Callers, PaintInv
<1>6. PaintInv'
      BY DEF PointsOK, AttemptInv, CallInv, PaintInv
<1>7. MemoInv'
      BY DEF CountsOK, MemoInv
<1>8. HoldHasItsLifter'
      BY DEF HoldHasItsLifter, PaintInv
<1> QED BY <1>1, <1>2, <1>3, <1>4, <1>5, <1>6, <1>7, <1>8

LEMMA SettledIInv == IInv /\ Settled => IInv'
<1> SUFFICES ASSUME IInv, Settled PROVE IInv'
    OBVIOUS
<1> USE DEF IInv, Settled,
            radio, attempt, flags, heap, visit, world, main, history
<1>1. PointsOK'
      BY DEF PointsOK, CallInv, Callers, Passes, Calls
<1>2. CountsOK'
      BY RetryAssumption, RefusalAssumption DEF CountsOK, MemoInv
<1>3. FlagsOK'
      BY DEF FlagsOK
<1>4. AttemptInv'
      BY DEF PointsOK, CountsOK, AttemptInv, CallInv, PaintInv
<1>5. CallInv'
      BY DEF PointsOK, AttemptInv, CallInv, Callers, PaintInv
<1>6. PaintInv'
      BY DEF PointsOK, AttemptInv, CallInv, PaintInv
<1>7. MemoInv'
      BY DEF CountsOK, MemoInv
<1>8. HoldHasItsLifter'
      BY DEF HoldHasItsLifter, PaintInv
<1> QED BY <1>1, <1>2, <1>3, <1>4, <1>5, <1>6, <1>7, <1>8

LEMMA PaintStopIInv == IInv /\ PaintStop => IInv'
<1> SUFFICES ASSUME IInv, PaintStop PROVE IInv'
    OBVIOUS
<1> USE DEF IInv, PaintStop, HostUp,
            radio, attempt, flags, heap, visit, world, main, history
<1>1. PointsOK'
      BY DEF PointsOK, CallInv, Callers, Passes, Calls
<1>2. CountsOK'
      BY RetryAssumption, RefusalAssumption DEF CountsOK, MemoInv
<1>3. FlagsOK'
      <2>1. idleStopped' \in BOOLEAN /\ deferred' \in BOOLEAN /\ cancelled' \in BOOLEAN
            /\ powerLock' \in BOOLEAN
            BY Zenon DEF FlagsOK
      <2> QED BY <2>1 DEF FlagsOK
<1>4. AttemptInv'
      BY DEF PointsOK, CountsOK, AttemptInv, CallInv, PaintInv
<1>5. CallInv'
      BY DEF PointsOK, AttemptInv, CallInv, Callers, PaintInv
<1>6. PaintInv'
      BY DEF PointsOK, AttemptInv, CallInv, PaintInv
<1>7. MemoInv'
      BY DEF CountsOK, MemoInv
<1>8. HoldHasItsLifter'
      BY DEF HoldHasItsLifter, PaintInv
<1> QED BY <1>1, <1>2, <1>3, <1>4, <1>5, <1>6, <1>7, <1>8

LEMMA PaintEndIInv == IInv /\ PaintEnd => IInv'
<1> SUFFICES ASSUME IInv, PaintEnd PROVE IInv'
    OBVIOUS
<1> USE DEF IInv, PaintEnd,
            radio, attempt, flags, heap, visit, world, main, history
<1>1. PointsOK'
      BY DEF PointsOK, CallInv, Callers, Passes, Calls
<1>2. CountsOK'
      BY RetryAssumption, RefusalAssumption DEF CountsOK, MemoInv
<1>3. FlagsOK'
      BY DEF FlagsOK
<1>4. AttemptInv'
      BY DEF PointsOK, CountsOK, AttemptInv, CallInv, PaintInv
<1>5. CallInv'
      BY DEF PointsOK, AttemptInv, CallInv, Callers, PaintInv
<1>6. PaintInv'
      BY DEF PointsOK, AttemptInv, CallInv, PaintInv
<1>7. MemoInv'
      BY DEF CountsOK, MemoInv
<1>8. HoldHasItsLifter'
      BY DEF HoldHasItsLifter, PaintInv
<1> QED BY <1>1, <1>2, <1>3, <1>4, <1>5, <1>6, <1>7, <1>8

LEMMA PaintDropIInv == IInv /\ PaintDrop => IInv'
<1> SUFFICES ASSUME IInv, PaintDrop PROVE IInv'
    OBVIOUS
<1> USE DEF IInv, PaintDrop,
            radio, attempt, flags, heap, visit, world, main, history
<1>1. PointsOK'
      BY DEF PointsOK, CallInv, Callers, Passes, Calls
<1>2. CountsOK'
      BY RetryAssumption, RefusalAssumption DEF CountsOK, MemoInv
<1>3. FlagsOK'
      <2>1. powerLock' \in BOOLEAN
            BY Zenon DEF FlagsOK
      <2> QED BY <2>1 DEF FlagsOK
<1>4. AttemptInv'
      BY DEF PointsOK, CountsOK, AttemptInv, CallInv, PaintInv
<1>5. CallInv'
      BY DEF PointsOK, AttemptInv, CallInv, Callers, PaintInv
<1>6. PaintInv'
      BY DEF PointsOK, AttemptInv, CallInv, PaintInv
<1>7. MemoInv'
      BY DEF CountsOK, MemoInv
<1>8. HoldHasItsLifter'
      BY DEF HoldHasItsLifter, PaintInv
<1> QED BY <1>1, <1>2, <1>3, <1>4, <1>5, <1>6, <1>7, <1>8

LEMMA PaintGivesUpIInv == IInv /\ PaintGivesUp => IInv'
<1> SUFFICES ASSUME IInv, PaintGivesUp PROVE IInv'
    OBVIOUS
<1> USE DEF IInv, PaintGivesUp,
            radio, attempt, flags, heap, visit, world, main, history
<1>1. PointsOK'
      BY DEF PointsOK, CallInv, Callers, Passes, Calls
<1>2. CountsOK'
      BY RetryAssumption, RefusalAssumption DEF CountsOK, MemoInv
<1>3. FlagsOK'
      BY DEF FlagsOK
<1>4. AttemptInv'
      BY DEF PointsOK, CountsOK, AttemptInv, CallInv, PaintInv
<1>5. CallInv'
      BY DEF PointsOK, AttemptInv, CallInv, Callers, PaintInv
<1>6. PaintInv'
      BY DEF PointsOK, AttemptInv, CallInv, PaintInv
<1>7. MemoInv'
      BY DEF CountsOK, MemoInv
<1>8. HoldHasItsLifter'
      BY DEF HoldHasItsLifter, PaintInv
<1> QED BY <1>1, <1>2, <1>3, <1>4, <1>5, <1>6, <1>7, <1>8

LEMMA PaintDoneIInv == IInv /\ PaintDone => IInv'
<1> SUFFICES ASSUME IInv, PaintDone PROVE IInv'
    OBVIOUS
<1> USE DEF IInv, PaintDone,
            radio, attempt, flags, heap, visit, world, main, history
<1>1. PointsOK'
      BY DEF PointsOK, CallInv, Callers, Passes, Calls
<1>2. CountsOK'
      BY RetryAssumption, RefusalAssumption DEF CountsOK, MemoInv
<1>3. FlagsOK'
      <2>1. pageReady' \in BOOLEAN
            BY Zenon DEF FlagsOK
      <2> QED BY <2>1 DEF FlagsOK
<1>4. AttemptInv'
      BY DEF PointsOK, CountsOK, AttemptInv, CallInv, PaintInv
<1>5. CallInv'
      BY DEF PointsOK, AttemptInv, CallInv, Callers, PaintInv
<1>6. PaintInv'
      BY DEF PointsOK, AttemptInv, CallInv, PaintInv
<1>7. MemoInv'
      BY DEF CountsOK, MemoInv
<1>8. HoldHasItsLifter'
      BY DEF HoldHasItsLifter, PaintInv
<1> QED BY <1>1, <1>2, <1>3, <1>4, <1>5, <1>6, <1>7, <1>8

-----------------------------------------------------------------------------
(* All steps.                                                              *)

LEMMA InitIInv == Init => IInv
<1> SUFFICES ASSUME Init PROVE IInv
    OBVIOUS
<1>1. FlagsOK
      BY Zenon DEF Init, FlagsOK
<1>2. PointsOK /\ CountsOK
      BY RetryAssumption, RefusalAssumption DEF Init, PointsOK, CountsOK, Passes, Calls, Callers
<1>3. AttemptInv /\ CallInv /\ PaintInv /\ MemoInv /\ HoldHasItsLifter
      BY DEF Init, AttemptInv, CallInv, PaintInv, MemoInv, HoldHasItsLifter
<1> QED BY <1>1, <1>2, <1>3 DEF IInv

LEMMA StepIInv == IInv /\ [Next]_vars => IInv'
<1> SUFFICES ASSUME IInv, [Next]_vars PROVE IInv'
    OBVIOUS
<1>1. CASE Start
      BY <1>1, StartCheckIInv, ReleaseCachesIInv, HeapCheckIInv, HostBeginIInv,
         HostBegunIInv, RollBackIInv, KeepIInv, FinishAttemptIInv
         DEF Start
<1>2. CASE Main
      BY <1>2, PollIInv, StorageIInv, MainEndIInv, MainDropIInv, VisitIInv,
         GateIInv, StartDueIInv, BeginAsyncIInv, BeginReturnedIInv,
         IdleStopIInv, NoIdleStopIInv, HeapRestartIInv, NoRestartIInv,
         CloseAndRestartIInv, ReaderRearmIInv, ScreenLoopIInv, ToggleOffIInv,
         UserBeginsIInv, LeaveIInv, SwitchNotYetIInv, SwitchIInv,
         SettingsOpenIInv, SettingsOpenedIInv
         DEF Main
<1>3. CASE Paint
      BY <1>3, PaintStartIInv, PaintStarvedIInv, SettledIInv, PaintStopIInv,
         PaintEndIInv, PaintDropIInv, PaintGivesUpIInv, PaintDoneIInv
         DEF Paint
<1>4. CASE UNCHANGED vars
      <2>1. UNCHANGED <<host, powerLock, inFlight, cancelled, wpc, starter, result, idleStopped, deferred, rearm, held,
                        row, wanted, spent, attempted, retryAt, retries, newVisit, enabled, screen, leaving, owners,
                        pageReady, released, mpc, mret, ok, ppc, refused, intent, restarts>>
            BY <1>4 DEF vars, radio, attempt, flags, heap, visit, world, main, history
      <2>2. PointsOK' /\ CountsOK' /\ FlagsOK'
            BY <2>1 DEF IInv, PointsOK, CountsOK, FlagsOK
      <2>3. AttemptInv' /\ CallInv' /\ PaintInv' /\ MemoInv' /\ HoldHasItsLifter'
            BY <2>1 DEF IInv, AttemptInv, CallInv, PaintInv, MemoInv, HoldHasItsLifter
      <2> QED BY <2>2, <2>3 DEF IInv
<1> QED BY <1>1, <1>2, <1>3, <1>4 DEF Next
-----------------------------------------------------------------------------
(* The theorems.                                                           *)

\* The inductive invariant holds in every reachable state.
THEOREM Inductive == Spec => []IInv
BY InitIInv, StepIInv, PTL DEF Spec

\* Every variable keeps its type; so refusals and retries stop at their limits.
THEOREM TypeCorrect == Spec => []TypeOK
<1>1. IInv => TypeOK
      BY DEF IInv, PointsOK, CountsOK, FlagsOK, TypeOK, Passes, Callers
<1> QED BY <1>1, Inductive, PTL

\* end() never runs beside begin(); a build that stopped the radio and a transfer
\* keep the memory (BlePageTurnerRuntime.cpp, suspendForTransition(), stopForIdle()).
THEOREM TheHeapIsOwned == Spec => []HeapHasOneUser
<1>1. IInv => HeapHasOneUser
      BY DEF IInv, PointsOK, AttemptInv, CallInv, PaintInv, HeapHasOneUser
<1> QED BY <1>1, Inductive, PTL

\* At most one restart is spent on a heap in pieces until the radio is up again,
\* and the book is closed for it only with the radio down (BleHeapRestart.h).
THEOREM OneRestartAtMost == Spec => []RestartsAreSafe
<1>1. IInv => RestartsAreSafe
      BY DEF IInv, CountsOK, CallInv, RestartsAreSafe
<1> QED BY <1>1, Inductive, PTL

\* A hold on the radio is lifted by its reader or by the next visit
\* (releaseRadioForBuild(), main.cpp).
THEOREM HoldsAreLifted == Spec => []HoldHasItsLifter
<1>1. IInv => HoldHasItsLifter
      BY DEF IInv
<1> QED BY <1>1, Inductive, PTL

\* A screen opens only with the radio down and no start on its way: what Suspend()
\* reported is still so when the manager acts on it (ActivityManager::loop()).
THEOREM TransitionsHaveTheHeap == Spec => TransitionHasTheHeap
<1>1. IInv /\ [Next]_vars => [screen' # screen \/ (newVisit' /\ ~newVisit) => host = "off" /\ ~inFlight]_vars
      <2> SUFFICES ASSUME IInv, Next, screen' # screen \/ (newVisit' /\ ~newVisit)
                   PROVE  host = "off" /\ ~inFlight
          BY DEF vars, visit, world
      <2>1. CASE Switch
            BY <2>1 DEF Switch, IInv, CallInv
      <2>2. CASE CloseAndRestart
            BY <2>2 DEF CloseAndRestart, IInv, CallInv
      <2>3. CASE Visit
            BY <2>3 DEF Visit, world
      <2>4. CASE Start
            BY <2>4 DEF Start, StartCheck, ReleaseCaches, HeapCheck, HostBegin, HostBegun, RollBack, Keep,
                        FinishAttempt, visit, world
      <2>5. CASE Paint
            BY <2>5 DEF Paint, PaintStart, PaintStarved, Settled, PaintStop, PaintEnd, PaintDrop, PaintGivesUp,
                        PaintDone, visit, world
      <2>6. CASE Main /\ ~Switch /\ ~CloseAndRestart /\ ~Visit
            <3>1. CASE Gate \/ StartDue
                  BY <3>1 DEF Gate, StartDue, visit, world
            <3>2. CASE ReaderRearm \/ ScreenLoop \/ ToggleOff \/ UserBegins \/ SettingsOpened
                  BY <3>2 DEF ReaderRearm, ScreenLoop, ToggleOff, UserBegins, SettingsOpened, visit
            <3>3. CASE Poll \/ Storage \/ MainEnd \/ MainDrop \/ BeginAsync \/ BeginReturned
                  BY <3>3 DEF Poll, Storage, MainEnd, MainDrop, BeginAsync, BeginReturned, visit, world
            <3>4. CASE IdleStop \/ NoIdleStop \/ HeapRestart \/ NoRestart \/ Leave \/ SwitchNotYet \/ SettingsOpen
                  BY <3>4 DEF IdleStop, NoIdleStop, HeapRestart, NoRestart, Leave, SwitchNotYet, SettingsOpen,
                              visit, world
            <3> QED BY <2>6, <3>1, <3>2, <3>3, <3>4 DEF Main
      <2> QED BY <2>1, <2>2, <2>3, <2>4, <2>5, <2>6 DEF Next
<1> QED BY <1>1, Inductive, PTL DEF Spec, TransitionHasTheHeap
-----------------------------------------------------------------------------
(* The interface to the screen manager.                                    *)

\* main.cpp starts the radio, and the settings open, with no transition pending.
OpenInv ==
    /\ mpc = "begin" => screen = "reader" /\ ~leaving
    /\ mpc = "opening" => screen = "settings" /\ ~leaving

\* No call of the main task returns to these two points; only the reader's start
\* leads to the one and a switch of screens to the other.
LEMMA OpenStep == ASSUME IInv, OpenInv, [Next]_vars PROVE OpenInv'
<1> USE DEF OpenInv
<1>1. CASE StartDue
  BY <1>1 DEF StartDue, Ready, Foreground, Go, world
<1>2. CASE Switch
  BY <1>2 DEF Switch, Suspend, Return
<1>3. CASE Start
  BY <1>3 DEF Start, StartCheck, ReleaseCaches, HeapCheck, HostBegin, HostBegun, RollBack, Keep, FinishAttempt,
              Return, IInv, PointsOK, Callers, world, main
<1>4. CASE Paint
  BY <1>4 DEF Paint, PaintStart, PaintStarved, Settled, PaintStop, PaintEnd, PaintDrop, PaintGivesUp, PaintDone,
              world, main
<1>5. CASE Poll \/ Storage \/ MainEnd \/ MainDrop \/ Visit \/ Gate
  BY <1>5 DEF Poll, Storage, MainEnd, MainDrop, Visit, Gate, Suspend, Go, Return, IInv, PointsOK, Callers
<1>6. CASE BeginAsync \/ BeginReturned \/ IdleStop \/ NoIdleStop \/ HeapRestart \/ NoRestart \/ CloseAndRestart
  BY <1>6 DEF BeginAsync, BeginReturned, IdleStop, NoIdleStop, HeapRestart, NoRestart, CloseAndRestart, Restarted,
              Suspend, Go, Return
<1>7. CASE ToggleOff \/ UserBegins
  BY <1>7 DEF ToggleOff, UserBegins, BeginSync, Suspend, Go, Return
<1>8. CASE ReaderRearm \/ ScreenLoop
  <2>1. mpc' = "leave"
        BY <1>8, Zenon DEF ReaderRearm, ScreenLoop, Go
  <2> QED BY <2>1
<1>9. CASE Leave \/ SwitchNotYet \/ SettingsOpen \/ SettingsOpened
  BY <1>9 DEF Leave, SwitchNotYet, SettingsOpen, SettingsOpened, BeginSync, Suspend, Go, Return
<1>10. CASE UNCHANGED vars
  BY <1>10 DEF vars, world, main
<1> QED BY <1>1, <1>2, <1>3, <1>4, <1>5, <1>6, <1>7, <1>8, <1>9, <1>10 DEF Next, Main

\* OpenInv in every reachable state.
LEMMA OpenHolds == Spec => []OpenInv
<1>1. Init => OpenInv
      BY DEF Init, OpenInv
<1> QED BY <1>1, OpenStep, Inductive, PTL DEF Spec

\* The radio is up, coming up or going down.
RadioOn == host # "off" \/ inFlight

\* A step that moves neither the screens nor the radio is a stutter.
LEMMA InterfaceStutters ==
    ASSUME UNCHANGED <<screen, leaving>>, RadioOn' <=> RadioOn
    PROVE  UNCHANGED Interface!vars
<1>1. (host # "off" \/ inFlight)' = (host # "off" \/ inFlight)
      BY DEF RadioOn
<1> QED BY <1>1 DEF Interface!vars

\* The radio goes off in place.
LEMMA InterfaceStops ==
    ASSUME UNCHANGED <<screen, leaving>>, RadioOn' => RadioOn
    PROVE  [Interface!Next]_(Interface!vars)
<1>1. CASE RadioOn' <=> RadioOn
      BY <1>1, InterfaceStutters
<1>2. CASE RadioOn /\ ~RadioOn'
      <2>1. Interface!Stop
            BY <1>2 DEF RadioOn, Interface!Stop
      <2> QED BY <2>1 DEF Interface!Next
<1> QED BY <1>1, <1>2

\* An attempt begins, in place, for a screen that uses the radio.
LEMMA InterfaceStarts ==
    ASSUME UNCHANGED <<screen, leaving>>, ~leaving, screen \in {"reader", "settings"}
    PROVE  [Interface!Next]_(Interface!vars)
<1>1. CASE RadioOn' => RadioOn
      BY <1>1, InterfaceStops
<1>2. CASE RadioOn' /\ ~RadioOn
      <2>1. (host # "off" \/ inFlight)' = TRUE
            BY <1>2 DEF RadioOn
      <2>2. Interface!Start
            BY <1>2, <2>1 DEF RadioOn, Interface!Start
      <2> QED BY <2>2 DEF Interface!Next
<1> QED BY <1>1, <1>2

\* A transition is asked for.
LEMMA InterfaceAsks ==
    ASSUME UNCHANGED <<screen, host, inFlight>>, leaving' = leaving \/ leaving' = TRUE
    PROVE  [Interface!Next]_(Interface!vars)
<1>1. CASE leaving' = leaving
      BY <1>1, InterfaceStutters DEF RadioOn
<1>2. CASE leaving' = TRUE
      BY <1>2 DEF Interface!Ask, Interface!Next
<1> QED BY <1>1, <1>2, Zenon

\* The next screen is in front, or the device has restarted.
LEMMA InterfaceChanges ==
    ASSUME host = "off" /\ ~inFlight, host' = "off" /\ ~inFlight', ~leaving'
    PROVE  [Interface!Next]_(Interface!vars)
<1>1. (host # "off" \/ inFlight)' = (host # "off" \/ inFlight)
      OBVIOUS
<1> QED BY <1>1 DEF Interface!Change, Interface!Next

\* Every step is one of ScreenRadio's, or none.
LEMMA InterfaceStep ==
    ASSUME IInv, OpenInv, [Next]_vars
    PROVE  [Interface!Next]_(Interface!vars)
<1>1. CASE BeginAsync
  BY <1>1, InterfaceStarts DEF BeginAsync, OpenInv, world
<1>2. CASE UserBegins
  BY <1>2, InterfaceStarts DEF UserBegins
<1>3. CASE SettingsOpen
  BY <1>3, InterfaceStarts DEF SettingsOpen, OpenInv, world
<1>4. CASE ReaderRearm \/ ScreenLoop
  <2>1. UNCHANGED <<screen, host, inFlight>>
        <3>1. CASE ReaderRearm
              BY <3>1 DEF ReaderRearm, radio, attempt
        <3>2. CASE ScreenLoop
              BY <3>2 DEF ScreenLoop, radio, attempt
        <3> QED BY <1>4, <3>1, <3>2
  <2>2. leaving' = leaving \/ leaving' = TRUE
        BY <1>4, Zenon DEF ReaderRearm, ScreenLoop
  <2> QED BY <2>1, <2>2, InterfaceAsks, Zenon
<1>5. CASE CloseAndRestart
  <2>1. CASE Restarted
        BY <1>5, <2>1, InterfaceChanges DEF Restarted, CloseAndRestart, IInv, CallInv
  <2>2. CASE ~Restarted
        <3>1. UNCHANGED <<screen, host, inFlight>>
              BY <1>5, <2>2 DEF CloseAndRestart, radio, attempt
        <3>2. leaving' = TRUE
              BY <1>5, <2>2, Zenon DEF CloseAndRestart
        <3> QED BY <3>1, <3>2, InterfaceAsks
  <2> QED BY <2>1, <2>2
<1>6. CASE Switch
  <2>1. host = "off" /\ ~inFlight
        BY <1>6 DEF Switch, IInv, CallInv
  <2>2. host' = "off" /\ ~inFlight' /\ ~leaving'
        BY <1>6, <2>1 DEF Switch
  <2> QED BY <2>1, <2>2, InterfaceChanges
<1>7. CASE Start
  <2>1. UNCHANGED <<screen, leaving>> /\ (RadioOn' => RadioOn)
        BY <1>7 DEF Start, StartCheck, ReleaseCaches, HeapCheck, HostBegin, HostBegun, RollBack, Keep,
                    FinishAttempt, RadioOn, IInv, AttemptInv, world, radio
  <2> QED BY <2>1, InterfaceStops
<1>8. CASE Paint
  <2>1. UNCHANGED <<screen, leaving>> /\ (RadioOn' => RadioOn)
        BY <1>8 DEF Paint, PaintStart, PaintStarved, Settled, PaintStop, PaintEnd, PaintDrop, PaintGivesUp,
                    PaintDone, RadioOn, world, radio, attempt
  <2> QED BY <2>1, InterfaceStops
<1>9. CASE Poll \/ Storage \/ MainDrop
  <2>1. UNCHANGED <<screen, leaving, host, inFlight>>
        BY <1>9 DEF Poll, Storage, MainDrop, world, attempt
  <2> QED BY <2>1, InterfaceStops DEF RadioOn
<1>10. CASE MainEnd
  <2>1. UNCHANGED <<screen, leaving, inFlight>> /\ (host' # "off" => host # "off")
        BY <1>10 DEF MainEnd, world, attempt
  <2> QED BY <2>1, InterfaceStops DEF RadioOn
<1>11. CASE Visit
  <2>1. UNCHANGED <<screen, leaving, host, inFlight>>
        BY <1>11 DEF Visit, world, radio, attempt
  <2> QED BY <2>1, InterfaceStops DEF RadioOn
<1>12. CASE Gate \/ StartDue \/ BeginReturned
  <2>1. UNCHANGED <<screen, leaving, host, inFlight>>
        BY <1>12 DEF Gate, StartDue, BeginReturned, world, radio, attempt
  <2> QED BY <2>1, InterfaceStops DEF RadioOn
<1>13. CASE IdleStop \/ NoIdleStop \/ HeapRestart \/ NoRestart \/ ToggleOff \/ Leave \/ SwitchNotYet
            \/ SettingsOpened
  <2>1. UNCHANGED <<screen, leaving>> /\ (RadioOn' => RadioOn)
        BY <1>13 DEF IdleStop, NoIdleStop, HeapRestart, NoRestart, ToggleOff, Leave, SwitchNotYet, SettingsOpened,
                     RadioOn, world, radio, attempt
  <2> QED BY <2>1, InterfaceStops
<1>14. CASE UNCHANGED vars
  BY <1>14, InterfaceStutters DEF vars, world, radio, attempt, RadioOn
<1> QED BY <1>1, <1>2, <1>3, <1>4, <1>5, <1>6, <1>7, <1>8, <1>9, <1>10, <1>11, <1>12, <1>13, <1>14
       DEF Next, Main

\* The radio keeps its side of ScreenRadio: it starts for a reader or the settings
\* and with no transition pending, and screens change only while it is off
\* (beginAsync(), suspendForTransition(), ActivityManager::loop()).
THEOREM ImplementsInterface == Spec => ImplementsScreenRadio
<1>1. Init => Interface!Init
      BY DEF Init, Interface!Init
<1>2. IInv /\ OpenInv /\ [Next]_vars => [Interface!Next]_(Interface!vars)
      BY InterfaceStep
<1> QED BY <1>1, <1>2, Inductive, OpenHolds, PTL DEF Spec, ImplementsScreenRadio, Interface!Spec
=============================================================================

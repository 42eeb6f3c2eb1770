--------------------------- MODULE ReaderPosition ---------------------------
(***************************************************************************)
(* Where the reader stands in an EPUB (EpubReaderActivity over             *)
(* ReaderActivity): the chapter and the page in RAM, the page on the       *)
(* panel, and the progress on the card.  The main task reads the keys, one *)
(* pass of loop() at a time, and applies page turns under the render lock; *)
(* the render task holds that lock for a whole paint.  A press that finds  *)
(* it taken is queued and applied later, and a paint that a queued press   *)
(* overtakes is dropped, its progress still owed.  Chapters are laid out   *)
(* page by page, so the end of one may be found only in the paint of a     *)
(* page beyond it.  Each step of the main task (pass.at) and of the render *)
(* task (paint) is the code between two points where the other is seen.    *)
(*                                                                         *)
(* Each chapter is one entry of the table of contents and has a page.      *)
(* Footnotes, percent, offset and bookmark jumps, the preview, menus and   *)
(* overlays, and a change of font or orientation are left out.             *)
(*                                                                         *)
(* "Slip" marks the definition after it as a plausible bug would have it.   *)
(***************************************************************************)
EXTENDS Integers, FiniteSets

CONSTANTS
    Last,        \* the index of the last chapter; Last + 1 is the end of the book
    Pages,       \* how many pages each chapter has
    MaxQueue,    \* MAX_QUEUED_TURNS
    MaxRetries,  \* MAX_PAGE_LOAD_RETRIES
    MaxPresses,  \* bound: how often a person does something
    MaxFaults,   \* bound: how often memory, the card or the power fails
    RenameMayFail,  \* a save may fail after the old progress.bin is gone
    None         \* no section, nothing saved

Chapters == 0..Last
BookPages == UNION {{c} \X (0..Pages[c] - 1) : c \in Chapters}

ASSUME ReaderAssumption ==
    /\ Last \in Nat /\ Pages \in [Chapters -> Nat \ {0}]
    /\ MaxQueue \in Nat \ {0} /\ MaxRetries \in Nat
    /\ MaxPresses \in Nat /\ MaxFaults \in Nat /\ RenameMayFail \in BOOLEAN

ASSUME NoneAssumption ==
    None \notin [page : Nat, laid : Nat, open : BOOLEAN] \cup (Nat \X Nat)

VARIABLES
    spine,      \* currentSpineIndex
    section,    \* the chapter loaded: its current page, the pages laid out, whether more may come
    nextPage,   \* nextPageNumber: the page to show once the chapter is loaded
    toLast,     \* pendingPageJump has a value, which is always "the last page"
    manual,     \* pendingManualTurn
    external, local,     \* pendingExternalTurn and pendingTurnIsLocal
    recent,     \* less than 200 ms since the last turn
    pass,       \* the main task: where it is in loop(), its press, and its locals
    holder,     \* who holds the render lock
    paint,      \* where the render task is
    beyond,     \* turnPastLaidOut
    requested, wanted,   \* requestedUpdate, and its notification
    dropped, owed, failed,  \* paintDropped, progressSaveDeferred, progressSaveFailed
    retries,    \* pageLoadRetryCount
    saved,      \* lastSavedSpineIndex and lastSavedPage
    card,       \* progress.bin
    settled,    \* history: the progress has been dealt with since the last page was shown
    drawn,      \* the page the paint has loaded
    panel,      \* what is on the panel
    leaving,    \* Home is asked for: by the end of the book, or by Back, which raises the flag
    jumpWaiting,
    open,       \* the reader is the current screen, was left, or lost its power
    presses, faults

position == <<spine, section, nextPage, toLast>>
queues == <<manual, external, local>>
update == <<requested, wanted>>
saving == <<owed, failed, saved, card, settled, faults>>
painting == <<holder, paint, beyond, retries, drawn, panel>>
away == <<leaving, jumpWaiting, open>>
vars == <<position, queues, recent, pass, update, dropped, saving, painting, away, presses>>

EndOfBook == Last + 1
Notice == <<-1, 0>>             \* an error popup
NoPress == [kind |-> "none", dir |-> 0]
Presses == [kind : {"turn", "hold"}, dir : {-1, 1}]
Idle == [at |-> "idle", press |-> NoPress, to |-> 0, guard |-> FALSE, left |-> 0, changed |-> FALSE]

AtEnd == spine >= EndOfBook

PageAwaitsLayout == section # None /\ section.open /\ section.page >= section.laid

Clamp(n) == IF n > MaxQueue THEN MaxQueue ELSE IF n < -MaxQueue THEN -MaxQueue ELSE n

-----------------------------------------------------------------------------
(* Turning a page; the caller holds the render lock.                       *)

CanTurn(dir) ==
    /\ section # None
    /\ dir = -1 => section.page > 0 \/ spine > 0

TurnNext ==
    IF section.page < section.laid - 1 \/ section.open
      THEN /\ section' = [section EXCEPT !.page = @ + 1]
           /\ UNCHANGED <<spine, nextPage, toLast>>
    ELSE IF spine < Last
      THEN /\ spine' = spine + 1
           /\ section' = None
           /\ nextPage' = 0
           /\ UNCHANGED toLast
    ELSE /\ spine' = EndOfBook
         /\ UNCHANGED <<section, nextPage, toLast>>

TurnBack ==
    IF section.page > 0
      THEN /\ section' = [section EXCEPT !.page = @ - 1]
           /\ UNCHANGED <<spine, nextPage, toLast>>
      ELSE /\ spine' = spine - 1
           /\ section' = None
           /\ nextPage' = 0
           /\ toLast' = TRUE

Turn(dir) ==
    /\ CanTurn(dir)
    /\ recent' = TRUE
    /\ IF dir = 1 THEN TurnNext ELSE TurnBack

ReturnFromEndOfBook ==
    /\ spine' = Last
    /\ nextPage' = 0
    /\ toLast' = TRUE
    /\ UNCHANGED section

(* queuePageTurn(): a press that lost the lock joins the queue, unless the *)
(* queue holds a report of the remote, which it replaces.                  *)
QueueTurn(dir) ==
    /\ external' = Clamp((IF local THEN external ELSE 0) + dir)
    /\ local' = TRUE
    /\ UNCHANGED manual
-----------------------------------------------------------------------------
(* Saving the progress; the caller holds the render lock.                  *)

Fault == faults < MaxFaults /\ faults' = faults + 1

SaveWorks ==
    /\ saved' = <<spine, section.page>>
    /\ card' = <<spine, section.page>>
    /\ failed' = FALSE
    /\ owed' = FALSE
    /\ settled' = TRUE
    /\ UNCHANGED faults

(* The write of progress.bin fails, or only its last rename does, when the *)
(* old file is already gone.                                               *)
SaveFails ==
    /\ Fault
    /\ failed' = TRUE
    /\ card' \in {card} \cup (IF RenameMayFail THEN {None} ELSE {})
    /\ UNCHANGED <<owed, saved, settled>>

SaveNotNeeded ==
    /\ saved = <<spine, section.page>>
    /\ failed' = FALSE
    /\ owed' = FALSE
    /\ settled' = TRUE
    /\ UNCHANGED <<saved, card, faults>>

(* The length of the chapter counts as part of what is saved, so a place   *)
(* already saved may be written again.                                     *)
SaveProgressIfMoved ==
    IF section = None THEN UNCHANGED saving
    ELSE SaveWorks \/ SaveFails \/ SaveNotNeeded
-----------------------------------------------------------------------------
(* The main task.                                                          *)

Goto(at) == pass' = [pass EXCEPT !.at = at]

At(at) == pass.at = at

Reading == open = "reading" /\ leaving = "no" /\ At("idle")

(* A pass begins without a press: it writes the progress that a dropped    *)
(* paint left owed.                                                        *)
BeginQuiet ==
    /\ Reading
    /\ Goto("external")
    /\ IF ~failed /\ owed /\ holder = "none" THEN SaveProgressIfMoved ELSE UNCHANGED saving
    /\ UNCHANGED <<position, queues, recent, update, dropped, holder, leaving, jumpWaiting>>

AwaitsForTurn == holder # "none" \/ recent \/ PageAwaitsLayout

(* processExternalPageTurn(): the whole queue is applied under the lock.   *)
ExternalWaits ==
    /\ At("external")
    /\ external = 0 \/ AwaitsForTurn
    /\ Goto("guard")
    /\ UNCHANGED <<position, queues, recent, update, holder, leaving, jumpWaiting>>

(* At the end of the book a turn on leaves for Home, and one back returns. *)
TurnAtEnd(dir) ==
    /\ Goto("end")
    /\ IF dir > 0
         THEN leaving' = "home" /\ UNCHANGED <<position, requested>>
         ELSE ReturnFromEndOfBook /\ requested' = TRUE /\ UNCHANGED leaving
    /\ UNCHANGED <<recent, wanted, holder, jumpWaiting>>

ExternalAtEnd ==
    /\ At("external") /\ external # 0 /\ ~AwaitsForTurn
    /\ AtEnd
    /\ external' = 0
    /\ TurnAtEnd(external)
    /\ UNCHANGED <<manual, local>>

TakeExternal ==
    /\ At("external") /\ external # 0 /\ ~AwaitsForTurn
    /\ ~AtEnd
    /\ holder' = "main"
    /\ pass' = [pass EXCEPT !.at = "locked", !.left = external]
    /\ external' = 0
    /\ UNCHANGED <<position, manual, local, recent, update, leaving, jumpWaiting>>

Sign(n) == IF n > 0 THEN 1 ELSE -1

(* Slip: turns run on past a page that is not laid out yet.                *)
TurnIsDueAnyway == pass.left # 0 /\ ~AtEnd

(* Another of the queued turns is due: the book goes on, and no turn of    *)
(* this queue has stopped at a page that is still to be laid out.          *)
TurnIsDue ==
    /\ pass.left # 0
    /\ ~AtEnd
    /\ ~(pass.changed /\ PageAwaitsLayout)

QueuedTurn ==
    /\ At("locked") \/ (At("drain") /\ holder = "none")
    /\ TurnIsDue
    /\ Turn(Sign(pass.left))
    /\ pass' = [pass EXCEPT !.left = @ - Sign(@), !.changed = TRUE]
    /\ UNCHANGED <<queues, update, holder, leaving, jumpWaiting>>

ExternalDone ==
    /\ At("locked")
    /\ ~(TurnIsDue /\ CanTurn(Sign(pass.left)))
    /\ external' = IF pass.changed /\ ~AtEnd THEN pass.left ELSE 0
    /\ requested' = (requested \/ pass.changed)
    /\ holder' = "none"
    /\ pass' = [pass EXCEPT !.at = "guard", !.left = 0, !.changed = FALSE]
    /\ UNCHANGED <<position, manual, local, recent, wanted, leaving, jumpWaiting>>

(* turnGuardActive is read once; the turns queued behind it are applied    *)
(* when it is down and the page has its layout.                            *)
Guard ==
    /\ At("guard")
    /\ LET guard == holder # "none" \/ recent
           due == manual # 0 /\ ~guard /\ ~PageAwaitsLayout
       IN /\ manual' = IF due THEN 0 ELSE manual
          /\ pass' = [pass EXCEPT !.guard = guard,
                                  !.at = IF ~due THEN "repaint"
                                         ELSE IF section = None THEN "end" ELSE "drain",
                                  !.left = IF due /\ section # None THEN manual ELSE 0]
    /\ UNCHANGED <<position, external, local, recent, update, holder, leaving, jumpWaiting>>

(* Each turn of this queue takes the lock for itself (QueuedTurn): the     *)
(* render task may have it by then, and the turn joins the other queue,    *)
(* which ends this one.                                                    *)
ManualLosesLock ==
    /\ At("drain")
    /\ TurnIsDue /\ holder # "none"
    /\ QueueTurn(Sign(pass.left))
    /\ Goto("lost")
    /\ UNCHANGED <<position, recent, update, holder, leaving, jumpWaiting>>

(* A turn into another chapter, or onto a page to be laid out, keeps the   *)
(* rest of the queue.                                                      *)
StillQueued == IF pass.changed /\ (section = None \/ PageAwaitsLayout) THEN pass.left ELSE 0

ManualDone ==
    /\ \/ At("lost")
       \/ At("drain") /\ ~(TurnIsDue /\ (holder # "none" \/ CanTurn(Sign(pass.left))))
    /\ manual' = StillQueued
    /\ requested' = (requested \/ pass.changed)
    /\ pass' = [pass EXCEPT !.at = "repaint", !.left = 0, !.changed = FALSE]
    /\ UNCHANGED <<position, external, local, recent, wanted, holder, leaving, jumpWaiting>>

(* Slip: a paint dropped for a queue is left to that queue.                *)
RepaintIsNeverDue == FALSE

(* The page of a dropped paint is painted after all when the queue that    *)
(* overtook it came to nothing.                                            *)
RepaintIsDue == dropped /\ manual = 0 /\ external = 0 /\ holder = "none"

Repaint ==
    /\ At("repaint")
    /\ Goto(IF pass.press = NoPress THEN "end" ELSE "press")
    /\ dropped' = (dropped /\ ~RepaintIsDue)
    /\ requested' = (requested \/ RepaintIsDue)
    /\ UNCHANGED <<position, queues, recent, wanted, holder, leaving, jumpWaiting>>

PressAtEnd ==
    /\ At("press")
    /\ AtEnd
    /\ TurnAtEnd(pass.press.dir)
    /\ UNCHANGED queues

(* A turn joins the queue behind a paint, behind other turns, and behind a *)
(* page that is still to be laid out.                                      *)
TurnWaits == pass.guard \/ manual # 0 \/ PageAwaitsLayout

PressTurn ==
    /\ At("press") /\ pass.press.kind = "turn"
    /\ ~AtEnd
    /\ Goto("end")
    /\ LET dir == pass.press.dir IN
         IF section = None THEN requested' = TRUE /\ UNCHANGED <<position, queues, recent>>
         ELSE IF TurnWaits
           THEN manual' = Clamp(manual + dir) /\ UNCHANGED <<position, external, local, recent, requested>>
         ELSE IF holder # "none"
           THEN QueueTurn(dir) /\ UNCHANGED <<position, recent, requested>>
         ELSE IF CanTurn(dir)
           THEN Turn(dir) /\ requested' = TRUE /\ UNCHANGED queues
         ELSE UNCHANGED <<position, queues, recent, requested>>
    /\ UNCHANGED <<wanted, holder, leaving, jumpWaiting>>

(* A key held down goes to the next chapter of the table of contents, and  *)
(* past its ends to the end of the book or to the first page, the latter   *)
(* without the lock.                                                       *)
PressJump ==
    /\ At("press") /\ pass.press.kind = "hold"
    /\ ~AtEnd
    /\ spine + pass.press.dir \in Chapters
    /\ pass' = [pass EXCEPT !.at = "jump", !.to = spine + pass.press.dir]
    /\ jumpWaiting' = TRUE
    /\ requested' = TRUE
    /\ UNCHANGED <<position, queues, recent, wanted, holder, leaving>>

PressSkip ==
    /\ At("press") /\ pass.press.kind = "hold"
    /\ ~AtEnd
    /\ spine + pass.press.dir \notin Chapters
    /\ Goto(IF section # None /\ pass.press.dir = 1 THEN "skip" ELSE "end")
    /\ section' = IF section # None /\ pass.press.dir = -1 THEN [section EXCEPT !.page = 0] ELSE section
    /\ requested' = TRUE
    /\ UNCHANGED <<spine, nextPage, toLast, queues, recent, wanted, holder, leaving, jumpWaiting>>

(* Once the paint at hand lets go of the lock.                             *)
LeaveChapter ==
    /\ holder = "none"
    /\ \/ At("jump") /\ spine' = pass.to
       \/ At("skip") /\ spine' = spine + 1
    /\ nextPage' = 0
    /\ section' = None
    /\ jumpWaiting' = FALSE
    /\ Goto("end")
    /\ UNCHANGED <<toLast, queues, recent, update, holder, leaving>>

(* The update asked for in this pass goes to the render task.              *)
EndPass ==
    /\ At("end")
    /\ pass' = Idle
    /\ wanted' = (wanted \/ requested)
    /\ requested' = FALSE
    /\ UNCHANGED <<position, queues, recent, holder, leaving, jumpWaiting>>

PassStep ==
    \/ ExternalWaits \/ ExternalAtEnd \/ TakeExternal \/ ExternalDone
    \/ Guard \/ QueuedTurn \/ ManualLosesLock \/ ManualDone
    \/ PressAtEnd \/ PressTurn \/ PressJump \/ PressSkip \/ LeaveChapter \/ EndPass

MainStep ==
    /\ BeginQuiet \/ (Repaint /\ UNCHANGED saving) \/ (PassStep /\ UNCHANGED <<dropped, saving>>)
    /\ UNCHANGED <<paint, beyond, retries, drawn, panel, open, presses>>

(* A pass lays out a little more of the chapter, or finds that it cannot.  *)
BackgroundTick ==
    /\ Reading
    /\ holder = "none"
    /\ section # None /\ section.open
    /\ \/ /\ \E n \in section.laid..Pages[spine], more \in BOOLEAN :
                 /\ ~more => n = Pages[spine]
                 /\ section' = [section EXCEPT !.laid = n, !.open = more]
          /\ UNCHANGED <<nextPage, requested, faults>>
       \/ /\ Fault
          /\ nextPage' = section.page
          /\ section' = None
          /\ requested' = TRUE
    /\ UNCHANGED <<spine, toLast, queues, recent, pass, wanted, dropped, owed, failed, saved, card, settled,
                   painting, away, presses>>

(* 200 ms have passed since the last turn.                                 *)
TurnIsPast ==
    /\ recent
    /\ recent' = FALSE
    /\ UNCHANGED <<position, queues, pass, update, dropped, saving, painting, away, presses>>
-----------------------------------------------------------------------------
(* The person.                                                             *)

Begin(press) ==
    /\ Reading
    /\ pass' = [pass EXCEPT !.at = "external", !.press = press]
    /\ UNCHANGED <<external, local, leaving>>

(* A report of the remote replaces the queue.                              *)
RemoteTurn(dir) ==
    /\ Reading
    /\ external' = dir
    /\ local' = FALSE
    /\ UNCHANGED <<pass, leaving>>

(* Back asks for Home.  The screen manager then does not run loop() until  *)
(* it has left the reader, or has dropped the request.                     *)
Back ==
    /\ Reading
    /\ leaving' = "back"
    /\ UNCHANGED <<pass, external, local>>

Person ==
    /\ presses < MaxPresses
    /\ presses' = presses + 1
    /\ \/ \E press \in Presses : Begin(press)
       \/ \E dir \in {-1, 1} : RemoteTurn(dir)
       \/ Back
    /\ UNCHANGED <<position, manual, recent, update, dropped, saving, painting, jumpWaiting, open>>

StayAfterDroppedExit ==
    /\ open = "reading" /\ leaving # "no" /\ At("idle")
    /\ requested' = (requested \/ leaving = "back")
    /\ leaving' = "no"
    /\ UNCHANGED <<position, queues, recent, pass, wanted, dropped, saving, painting, jumpWaiting, open, presses>>

(* Slip: progress owed is left to the quiet pass.                          *)
ExitUnsaved ==
    /\ open = "reading" /\ leaving # "no" /\ At("idle")
    /\ holder = "none"
    /\ manual' = 0
    /\ open' = "left"
    /\ UNCHANGED <<position, external, local, recent, pass, update, dropped, saving, painting, leaving, jumpWaiting, presses>>

(* onExit(), under the render lock.                                        *)
Exit ==
    /\ open = "reading" /\ leaving # "no" /\ At("idle")
    /\ holder = "none"
    /\ manual' = 0
    /\ IF owed THEN SaveProgressIfMoved ELSE UNCHANGED saving
    /\ open' = "left"
    /\ UNCHANGED <<position, external, local, recent, pass, update, dropped, painting, leaving, jumpWaiting, presses>>
-----------------------------------------------------------------------------
(* The render task.                                                        *)

EndPaint == holder' = "none" /\ paint' = "idle" /\ beyond' = FALSE /\ drawn' = 0

StartPaint ==
    /\ open = "reading"
    /\ wanted /\ holder = "none"
    /\ wanted' = FALSE
    /\ IF AtEnd
         THEN panel' = <<EndOfBook, 0>> /\ UNCHANGED <<holder, paint, beyond>>
         ELSE holder' = "render" /\ paint' = "layout" /\ beyond' = PageAwaitsLayout /\ UNCHANGED panel
    /\ UNCHANGED <<position, recent, requested, dropped, saving, retries, drawn>>

(* The chapter is loaded, from the card as far as it was laid out before,  *)
(* and laid out to the page asked for, or to its end if that is not there. *)
LoadChapter ==
    /\ paint = "layout"
    /\ section = None
    /\ \E n \in 0..Pages[spine], more \in BOOLEAN :
         /\ more => nextPage < n /\ ~toLast
         /\ ~more => n = Pages[spine]
         /\ section' = [page |-> IF toLast \/ nextPage >= n THEN n - 1 ELSE nextPage, laid |-> n, open |-> more]
    /\ toLast' = FALSE
    /\ paint' = "check"
    /\ UNCHANGED <<spine, nextPage, recent, update, dropped, saving, holder, beyond, retries, drawn, panel>>

OnLastPage == [page |-> Pages[spine] - 1, laid |-> Pages[spine], open |-> FALSE]

(* More of the chapter is laid out when its current page needs that; a     *)
(* page past the end of it becomes the last.                               *)
LayOut ==
    /\ paint = "layout"
    /\ section # None
    /\ ~(PageAwaitsLayout /\ beyond /\ section.page = Pages[spine])
    /\ IF ~PageAwaitsLayout
         THEN section' = IF section.page < section.laid THEN section ELSE OnLastPage
         ELSE \E n \in section.laid..Pages[spine], more \in BOOLEAN :
                /\ more => section.page < n
                /\ ~more => n = Pages[spine]
                /\ section' = IF section.page < n THEN [section EXCEPT !.laid = n, !.open = more] ELSE OnLastPage
    /\ paint' = "check"
    /\ UNCHANGED <<spine, nextPage, toLast, recent, update, dropped, saving, holder, beyond, retries, drawn, panel>>

(* Slip: the paint shows the last page again.                              *)
TurnOnStays ==
    /\ paint = "layout"
    /\ PageAwaitsLayout /\ beyond
    /\ section.page = Pages[spine]
    /\ section' = OnLastPage
    /\ paint' = "check"
    /\ UNCHANGED <<spine, nextPage, toLast, recent, update, dropped, saving, holder, beyond, retries, drawn, panel>>

(* The chapter ends before the page that a turn stepped onto: the turn     *)
(* goes on, and the place it leads to has a paint of its own.              *)
TurnOn ==
    /\ paint = "layout"
    /\ PageAwaitsLayout /\ beyond
    /\ section.page = Pages[spine]
    /\ spine' = spine + 1
    /\ IF spine < Last
         THEN section' = None /\ nextPage' = 0
         ELSE section' = OnLastPage /\ UNCHANGED nextPage
    /\ recent' = TRUE
    /\ requested' = TRUE
    /\ EndPaint
    /\ UNCHANGED <<toLast, wanted, dropped, saving, retries, panel>>

(* The heap runs out: a chapter just made gives way to the place saved     *)
(* last, one that is read keeps the pages laid out so far.                 *)
GiveWay ==
    /\ section = None
    /\ IF saved = None THEN UNCHANGED <<spine, nextPage, toLast, requested>>
       ELSE /\ spine' = saved[1]
            /\ nextPage' = saved[2]
            /\ toLast' = FALSE
            /\ requested' = (requested \/ saved[1] # spine)
    /\ UNCHANGED section

KeepPages ==
    /\ PageAwaitsLayout
    /\ section' = [section EXCEPT !.page = IF section.laid > 0 THEN section.laid - 1 ELSE @]
    /\ UNCHANGED <<spine, nextPage, toLast, requested>>

(* Or the chapter cannot be laid out for another reason.                   *)
LoseChapter ==
    /\ section = None \/ PageAwaitsLayout
    /\ section' = None
    /\ UNCHANGED <<spine, nextPage, toLast, requested>>

LayOutFails ==
    /\ paint = "layout"
    /\ Fault
    /\ GiveWay \/ KeepPages \/ LoseChapter
    /\ panel' = Notice
    /\ EndPaint
    /\ UNCHANGED <<recent, wanted, dropped, owed, failed, saved, card, settled, retries>>

PageBeingLeft == leaving = "back" \/ jumpWaiting
NextScreenWaiting == PageBeingLeft \/ manual # 0 \/ external # 0

(* A paint that another screen already waits for is dropped, before its    *)
(* page is loaded and again before it is shown.                            *)
Drop ==
    /\ paint \in {"check", "show"}
    /\ NextScreenWaiting
    /\ dropped' = TRUE
    /\ owed' = TRUE
    /\ EndPaint
    /\ UNCHANGED <<position, recent, update, failed, saved, card, settled, faults, retries, panel>>

Proceed ==
    /\ paint = "check"
    /\ ~NextScreenWaiting
    /\ paint' = "load"
    /\ UNCHANGED <<position, recent, update, dropped, saving, holder, beyond, retries, drawn, panel>>

LoadPage ==
    /\ paint = "load"
    /\ drawn' = section.page
    /\ retries' = 0
    /\ dropped' = FALSE
    /\ paint' = "show"
    /\ UNCHANGED <<position, recent, update, saving, holder, beyond, panel>>

(* A page that cannot be loaded is tried again, the second time with the   *)
(* chapter laid out anew.                                                  *)
LoadPageFails ==
    /\ paint = "load"
    /\ Fault
    /\ EndPaint
    /\ retries' = IF retries = MaxRetries THEN 0 ELSE retries + 1
    /\ IF retries = MaxRetries
         THEN panel' = Notice /\ UNCHANGED requested
         ELSE requested' = TRUE /\ UNCHANGED panel
    /\ IF retries' = 2
         THEN section' = None /\ nextPage' = section.page
         ELSE UNCHANGED <<section, nextPage>>
    /\ UNCHANGED <<spine, toLast, recent, wanted, dropped, owed, failed, saved, card, settled>>

Show ==
    /\ paint = "show"
    /\ ~NextScreenWaiting
    /\ panel' = <<spine, drawn>>
    /\ settled' = FALSE
    /\ paint' = "save"
    /\ UNCHANGED <<position, recent, update, dropped, owed, failed, saved, card, faults, holder, beyond, retries, drawn>>

Save ==
    /\ paint = "save"
    /\ EndPaint
    /\ IF PageBeingLeft
         THEN owed' = TRUE /\ UNCHANGED <<failed, saved, card, settled, faults>>
         ELSE SaveProgressIfMoved
    /\ UNCHANGED <<position, recent, update, dropped, retries, panel>>

RenderStep ==
    /\ \/ StartPaint \/ LoadChapter \/ LayOut \/ TurnOn \/ LayOutFails
       \/ Drop \/ Proceed \/ LoadPage \/ LoadPageFails \/ Show \/ Save
    /\ UNCHANGED <<queues, pass, away, presses>>
-----------------------------------------------------------------------------
(* Power, and the next visit.  The file of the progress is removed before  *)
(* the new one takes its name.                                             *)

FirstPage == <<0, 0>>
Progress == IF card = None THEN FirstPage ELSE card

Fresh ==
    /\ section' = None /\ toLast' = FALSE
    /\ manual' = 0 /\ external' = 0 /\ local' = FALSE /\ recent' = FALSE
    /\ pass' = Idle
    /\ requested' = FALSE /\ dropped' = FALSE
    /\ owed' = FALSE /\ failed' = FALSE /\ saved' = None /\ settled' = TRUE
    /\ holder' = "none" /\ paint' = "idle" /\ beyond' = FALSE /\ retries' = 0 /\ drawn' = 0 /\ panel' = Notice
    /\ leaving' = "no" /\ jumpWaiting' = FALSE

PowerCut ==
    /\ open = "reading"
    /\ Fault
    /\ card' \in {card} \cup (IF paint = "save" THEN {None} ELSE {})
    /\ Fresh
    /\ spine' = 0 /\ nextPage' = 0 /\ wanted' = FALSE
    /\ open' = "off"
    /\ UNCHANGED presses

Open ==
    /\ open # "reading"
    /\ spine' = Progress[1]
    /\ nextPage' = Progress[2]
    /\ Fresh
    /\ wanted' = TRUE
    /\ open' = "reading"
    /\ presses < MaxPresses /\ presses' = presses + 1
    /\ UNCHANGED <<card, faults>>
-----------------------------------------------------------------------------
Init ==
    /\ card \in {None} \cup BookPages
    /\ spine = Progress[1] /\ nextPage = Progress[2]
    /\ section = None /\ toLast = FALSE
    /\ manual = 0 /\ external = 0 /\ local = FALSE /\ recent = FALSE
    /\ pass = Idle
    /\ requested = FALSE /\ wanted = TRUE /\ dropped = FALSE
    /\ owed = FALSE /\ failed = FALSE /\ saved = None /\ settled = TRUE /\ faults = 0
    /\ holder = "none" /\ paint = "idle" /\ beyond = FALSE /\ retries = 0 /\ drawn = 0 /\ panel = Notice
    /\ leaving = "no" /\ jumpWaiting = FALSE /\ open = "reading"
    /\ presses = 0

Next ==
    \/ MainStep \/ RenderStep \/ BackgroundTick \/ TurnIsPast
    \/ Person \/ StayAfterDroppedExit \/ Exit \/ PowerCut \/ Open

Spec == Init /\ [][Next]_vars

(* Both tasks have the processor for some of the time, the clock runs, and *)
(* the screen manager carries out or drops what it was asked for.          *)
FairSpec ==
    /\ Spec
    /\ WF_vars(MainStep) /\ WF_vars(RenderStep)
    /\ WF_vars(TurnIsPast)
    /\ WF_vars(Exit \/ StayAfterDroppedExit)
-----------------------------------------------------------------------------
(* Every variable has its type.                                            *)
TypeOK ==
    /\ spine \in 0..EndOfBook + 1
    /\ section \in {None} \cup [page : Nat, laid : Nat, open : BOOLEAN]
    /\ nextPage \in Nat /\ toLast \in BOOLEAN
    /\ manual \in -MaxQueue..MaxQueue /\ external \in -MaxQueue..MaxQueue
    /\ local \in BOOLEAN /\ recent \in BOOLEAN
    /\ pass \in [at : {"idle", "external", "locked", "guard", "drain", "lost", "repaint", "press",
                       "jump", "skip", "end"},
                 press : Presses \cup {NoPress}, to : Chapters, guard : BOOLEAN,
                 left : -MaxQueue..MaxQueue, changed : BOOLEAN]
    /\ holder \in {"none", "main", "render"}
    /\ paint \in {"idle", "layout", "check", "load", "show", "save"}
    /\ beyond \in BOOLEAN /\ requested \in BOOLEAN /\ wanted \in BOOLEAN /\ dropped \in BOOLEAN
    /\ owed \in BOOLEAN /\ failed \in BOOLEAN /\ settled \in BOOLEAN /\ jumpWaiting \in BOOLEAN
    /\ retries \in 0..MaxRetries
    /\ saved \in {None} \cup ((0..EndOfBook) \X Nat) /\ card \in {None} \cup ((0..EndOfBook) \X Nat)
    /\ drawn \in Nat /\ panel \in {Notice} \cup ((0..EndOfBook) \X Nat)
    /\ leaving \in {"no", "home", "back"} /\ open \in {"reading", "left", "off"}
    /\ presses \in 0..MaxPresses /\ faults \in 0..MaxFaults

(* Queued turns never run on past the first page that is not laid out: the *)
(* paint would pull them back to the end of a chapter that has none there  *)
(* (ReaderActivity.h:53).  And a chapter counts as laid out only to its    *)
(* end.                                                                    *)
ChapterLoaded == IF AtEnd THEN Last ELSE spine

TurnsStayInReach ==
    section # None =>
        /\ section.page <= section.laid
        /\ section.laid <= Pages[ChapterLoaded]
        /\ section.open \/ section.laid = Pages[ChapterLoaded]

(* The place the reader is at, once its chapter is laid out.               *)
PlaceOf(page) == IF page < Pages[spine] THEN <<spine, page>> ELSE <<spine + 1, 0>>

Here ==
    IF AtEnd THEN <<EndOfBook, 0>>
    ELSE IF section # None THEN PlaceOf(section.page)
    ELSE PlaceOf(IF toLast THEN Pages[spine] - 1 ELSE nextPage)

(* The place its queued turns lead to, counted in pages of the book.       *)
Before(place) == Cardinality({q \in BookPages : q[1] < place[1] \/ (q[1] = place[1] /\ q[2] < place[2])})

Within(n) == IF n < 0 THEN 0 ELSE IF n > Cardinality(BookPages) THEN Cardinality(BookPages) ELSE n

Asked == Within(Before(Here) + external + pass.left + manual)

(* What the code gives up (README, section 3): a turn queued when there is *)
(* no chapter yet, or none any more, at either end of the book, or when    *)
(* the render task has taken the lock in mid queue; a turn past a chapter  *)
(* whose end is found outside the paint that would turn on; and the last   *)
(* page that a return from the end of the book still waits for.            *)
TurnsMayBeLost ==
    \/ AtEnd \/ Here = FirstPage
    \/ At("guard") /\ section = None
    \/ (At("locked") \/ At("drain")) /\ section = None /\ ~pass.changed
    \/ At("drain") /\ holder # "none"
    \/ At("lost")

EndFoundElsewhere ==
    /\ ~AtEnd
    /\ IF section = None THEN nextPage >= Pages[spine] ELSE ~section.open /\ section.page >= section.laid

LastPageStillWaits == toLast /\ section # None

(* No step but those that read a press, carry out a jump, open the book or *)
(* report an error changes where the reader's turns lead: neither a paint, *)
(* whatever it finds about the length of its chapter, one that is dropped  *)
(* or one that fails to load its page, nor the layout in the background,   *)
(* nor the queues as they are applied (EpubReaderActivity.cpp:1489, 2720). *)
TurnsAddUp ==
    [][\/ Person \/ Open \/ PowerCut \/ Exit
       \/ At("press") \/ At("jump") \/ At("skip")
       \/ TurnsMayBeLost \/ EndFoundElsewhere \/ LastPageStillWaits
       \/ panel' = Notice
       \/ Asked' = Asked]_vars

(* When nothing is under way and no dropped paint is owed, the panel shows *)
(* the page the reader is at, or the notice of an error; and that page is  *)
(* the one on the card, unless its save is still owed or has failed.  And  *)
(* no page is shown and left for Home without its progress dealt with      *)
(* (EpubReaderActivity.cpp:1201, 1518, 2869, 4412).                        *)
AtRest ==
    /\ Reading /\ holder = "none"
    /\ ~wanted /\ ~requested /\ manual = 0 /\ external = 0

RestIsShownAndSaved ==
    /\ AtRest /\ ~dropped => panel \in {Here, Notice}
    /\ AtRest /\ panel = Here /\ ~AtEnd /\ ~owed /\ ~failed => card = Here
    /\ open = "left" /\ section # None /\ ~AtEnd /\ ~failed /\ panel # Notice => settled

(* However presses and paints overtake one another, the page the reader is *)
(* at reaches the panel, or an error does, while the book stays open       *)
(* (EpubReaderActivity.cpp:1518-1521, 2736, 3134).                         *)
PlaceIsShown == []<>(panel \in {Here, Notice} \/ open # "reading")

(* Progress that could not be written is tried again when the book is      *)
(* left: "a card error leaves it owed for the exit"                        *)
(* (EpubReaderActivity.cpp:2986).  The code keeps this only for what was   *)
(* owed before: the save of a paint (2872) fails without owing anything,   *)
(* and onExit() (4412) looks only for what is owed.                        *)
FailedSaveIsRetried ==
    [][open = "reading" /\ open' = "left" /\ failed /\ section # None => owed]_vars

(* A jump lands on the first page of its chapter.  The code does not keep  *)
(* this: a return from the end of the book asks for the last page of a     *)
(* chapter that is loaded already, and the next chapter gets that wish     *)
(* (EpubReaderActivity.cpp:2298, 2590).                                    *)
JumpLandsOnItsPage == [][At("jump") /\ LeaveChapter => Here' = <<spine', 0>>]_vars
=============================================================================

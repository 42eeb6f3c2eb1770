------------------------ MODULE ReaderPositionProofs ------------------------
(***************************************************************************)
(* For every book, length of the queues and number of presses and faults:  *)
(* queued turns never run on past the first page that is not laid out, and *)
(* a chapter counts as laid out only to its end (TurnsStayInReach).  The   *)
(* first turn of a queue is applied only where its page is laid out, and   *)
(* stays so although the render task may lay the chapter out anew between  *)
(* two of them (PassInv); a paint has a chapter to lay out, and from the   *)
(* end of its layout on a section (PaintInv). A reader at rest shows its   *)
(* page and has it on the card (RestIsShownAndSaved): whatever moves it    *)
(* has asked for a paint or will (Due), and a paint ends with its page     *)
(* saved, owed or failed (RestInv); where a save may lose the file, the    *)
(* card has that page or none. And the turns that were asked for lead to   *)
(* the same page whatever the two tasks do with them (TurnsAddUp): only a  *)
(* queue being applied has turns taken out of another (QueueInv), a paint  *)
(* that finds the end of its chapter has begun with the page beyond it     *)
(* (LayoutInv), and one turn is one page of the book, within a chapter or  *)
(* from one to the next (OnePageOn, TurnIsOnePage).                        *)
(***************************************************************************)
EXTENDS ReaderPosition, FiniteSetTheorems, TLAPS

Places == (0..EndOfBook) \X Nat
Sections == [page : Nat, laid : Nat, open : BOOLEAN]

Counts == -MaxQueue..MaxQueue
AnyPress == Presses \cup {NoPress}

\* The parts of the type invariant.
PlaceOK ==
    /\ spine \in 0..EndOfBook + 1
    /\ section \in {None} \cup Sections
    /\ nextPage \in Nat

PassOK ==
    /\ manual \in Counts /\ external \in Counts
    /\ pass \in [at : {"idle", "external", "locked", "guard", "drain", "lost", "repaint", "press",
                       "jump", "skip", "end"},
                 press : AnyPress, to : Chapters, guard : BOOLEAN,
                 left : Counts, changed : BOOLEAN]

PaintOK ==
    /\ holder \in {"none", "main", "render"}
    /\ paint \in {"idle", "layout", "check", "load", "show", "save"}
    /\ retries \in 0..MaxRetries
    /\ drawn \in Nat /\ panel \in {Notice} \cup Places

SavedOK == saved \in {None} \cup Places /\ card \in {None} \cup Places

FlagsOK ==
    /\ toLast \in BOOLEAN /\ local \in BOOLEAN /\ recent \in BOOLEAN
    /\ beyond \in BOOLEAN /\ requested \in BOOLEAN /\ wanted \in BOOLEAN /\ dropped \in BOOLEAN
    /\ owed \in BOOLEAN /\ failed \in BOOLEAN /\ settled \in BOOLEAN /\ jumpWaiting \in BOOLEAN

LeavingOK ==
    /\ leaving \in {"no", "home", "back"} /\ open \in {"reading", "left", "off"}
    /\ presses \in 0..MaxPresses /\ faults \in 0..MaxFaults

\* The render task holds the lock for a whole paint, which has a chapter, and a
\* section once that is laid out.
PaintInv ==
    /\ holder = "render" <=> paint # "idle"
    /\ paint # "idle" => ~AtEnd
    /\ paint \in {"check", "load", "show", "save"} => section # None

\* The main task holds the lock for one queue; no queue begins where the page at
\* hand is still to be laid out; only a skip leaves the end of the book behind;
\* and the last chapter is laid out when the book has ended.
PassInv ==
    /\ holder = "main" <=> At("locked")
    /\ (At("locked") \/ At("drain")) /\ ~pass.changed => ~PageAwaitsLayout
    /\ spine > EndOfBook => section = None /\ ~At("skip")
    /\ AtEnd /\ section # None => ~section.open

Types == PlaceOK /\ PassOK /\ PaintOK /\ SavedOK /\ FlagsOK /\ LeavingOK

\* A step of the main task leaves the paint alone.
Elsewhere == UNCHANGED <<paint, beyond, retries, drawn, panel, open, presses>>

\* A step of the render task leaves the queues and the main task alone.
Beside == UNCHANGED <<queues, pass, away, presses>>

IInv == Types /\ PaintInv /\ PassInv /\ TurnsStayInReach
-----------------------------------------------------------------------------
(* Facts about the parts that several steps share.                         *)

LEMMA CountsHold ==
    /\ 0 \in Counts /\ -1 \in Counts /\ 1 \in Counts
    /\ \A n \in Counts : n \in Int /\ (n # 0 => n - Sign(n) \in Counts) /\ Sign(n) \in {-1, 1}
    /\ \A n \in Int : Clamp(n) \in Counts
BY ReaderAssumption DEF Counts, Sign, Clamp

LEMMA PressesHold ==
    /\ NoPress \in AnyPress /\ Presses \subseteq AnyPress
    /\ \A p \in AnyPress : p.dir \in {-1, 0, 1} /\ (p.kind # "none" => p.dir \in {-1, 1})
BY DEF AnyPress, Presses, NoPress

\* A save keeps the types: only a chapter of the book has a section to save.
LEMMA SavesHold ==
    ASSUME IInv, SaveProgressIfMoved
    PROVE  /\ SavedOK' /\ faults' \in 0..MaxFaults
           /\ owed' \in BOOLEAN /\ failed' \in BOOLEAN /\ settled' \in BOOLEAN
<1> USE DEF IInv, Types, SavedOK, FlagsOK, LeavingOK, saving
<1>1. CASE section = None
      BY <1>1 DEF SaveProgressIfMoved
<1>2. ASSUME section # None PROVE <<spine, section.page>> \in Places
      BY <1>2, ReaderAssumption DEF PlaceOK, Places, Sections, PassInv, EndOfBook
<1>3. CASE section # None /\ SaveWorks
      <2>1. owed' \in BOOLEAN /\ failed' \in BOOLEAN /\ settled' \in BOOLEAN
            BY <1>3, Zenon DEF SaveWorks
      <2> QED BY <1>2, <1>3, <2>1 DEF SaveWorks
<1>4. CASE SaveFails
      <2>1. owed' \in BOOLEAN /\ failed' \in BOOLEAN /\ settled' \in BOOLEAN
            BY <1>4, Zenon DEF SaveFails
      <2> QED BY <1>4, <2>1, ReaderAssumption DEF SaveFails, Fault
<1>5. CASE SaveNotNeeded
      <2>1. owed' \in BOOLEAN /\ failed' \in BOOLEAN /\ settled' \in BOOLEAN
            BY <1>5, Zenon DEF SaveNotNeeded
      <2> QED BY <1>5, <2>1 DEF SaveNotNeeded
<1> QED BY <1>1, <1>3, <1>4, <1>5 DEF SaveProgressIfMoved
LEMMA ChapterHolds ==
    ASSUME IInv
    PROVE  /\ Last \in Nat /\ spine \in Nat
           /\ ~AtEnd => spine \in 0..Last /\ Pages[spine] \in Nat \ {0} /\ ChapterLoaded = spine
           /\ AtEnd => ChapterLoaded = Last /\ Pages[Last] \in Nat \ {0}
           /\ section # None => section \in Sections /\ spine <= EndOfBook
BY ReaderAssumption DEF IInv, Types, PlaceOK, AtEnd, EndOfBook, ChapterLoaded, Chapters, PassInv

LEMMA SectionsHold ==
    /\ None \notin Sections /\ None \notin Places
    /\ \A n, m \in Nat, b \in BOOLEAN : [page |-> n, laid |-> m, open |-> b] \in Sections
    /\ \A s \in Sections : s.page \in Nat /\ s.laid \in Nat /\ s.open \in BOOLEAN
<1>1. None \notin Sections /\ None \notin Places
      BY NoneAssumption, ReaderAssumption DEF Sections, Places, EndOfBook
<1>2. \A n, m \in Nat, b \in BOOLEAN : [page |-> n, laid |-> m, open |-> b] \in Sections
      BY DEF Sections
<1>3. \A s \in Sections : s.page \in Nat /\ s.laid \in Nat /\ s.open \in BOOLEAN
      BY DEF Sections
<1> QED BY <1>1, <1>2, <1>3

LEMMA LastPageHolds ==
    ASSUME IInv, ~AtEnd
    PROVE  OnLastPage \in Sections /\ OnLastPage.page = Pages[spine] - 1 /\ OnLastPage.laid = Pages[spine]
           /\ OnLastPage.open = FALSE
<1>1. Pages[spine] \in Nat /\ Pages[spine] - 1 \in Nat
      BY ChapterHolds
<1> QED BY <1>1, SectionsHold DEF OnLastPage

\* The bounds of the faults and of what the person does.
LEMMA CountersHold ==
    ASSUME IInv
    PROVE  /\ faults < MaxFaults => faults + 1 \in 0..MaxFaults
           /\ presses < MaxPresses => presses + 1 \in 0..MaxPresses
<1>1. faults \in Nat /\ presses \in Nat /\ MaxFaults \in Nat /\ MaxPresses \in Nat
      BY ReaderAssumption DEF IInv, Types, LeavingOK
<1> QED BY <1>1

\* The layout of a paint ends with the page it is for.
LEMMA LayOutHolds ==
    ASSUME IInv, LayOut
    PROVE  /\ ~AtEnd /\ UNCHANGED <<spine, nextPage>>
           /\ section' \in Sections /\ section'.page < section'.laid /\ section'.laid <= Pages[spine]
           /\ (section'.open \/ section'.laid = Pages[spine])
<1>1. ~AtEnd /\ section \in Sections /\ UNCHANGED <<spine, nextPage>>
      BY ChapterHolds DEF LayOut, IInv, PaintInv
<1>2. spine \in 0..Last /\ Pages[spine] \in Nat \ {0} /\ section.page <= section.laid
      /\ section.laid <= Pages[spine] /\ (section.open \/ section.laid = Pages[spine])
      /\ section.page \in Nat /\ section.laid \in Nat
      BY <1>1, ChapterHolds, SectionsHold DEF LayOut, IInv, TurnsStayInReach
<1>3. CASE section' = OnLastPage
      <2>1. OnLastPage \in Sections /\ OnLastPage.page < OnLastPage.laid /\ OnLastPage.laid = Pages[spine]
            BY <1>1, <1>2, LastPageHolds
      <2> QED BY <1>1, <1>2, <1>3, <2>1
<1>4. CASE ~PageAwaitsLayout /\ section.page < section.laid
      BY <1>1, <1>2, <1>4 DEF LayOut
<1>5. CASE PageAwaitsLayout
      <2>1. PICK n \in section.laid..Pages[spine], more \in BOOLEAN :
              /\ ~more => n = Pages[spine]
              /\ section' = IF section.page < n THEN [section EXCEPT !.laid = n, !.open = more] ELSE OnLastPage
            BY <1>5 DEF LayOut
      <2>2. n \in Nat /\ n <= Pages[spine]
            BY <1>2
      <2>3. CASE section.page < n
            <3>1. section' \in Sections /\ section'.page = section.page /\ section'.laid = n /\ section'.open = more
                  BY <1>1, <2>1, <2>2, <2>3 DEF Sections
            <3> QED BY <1>1, <1>2, <2>1, <2>2, <2>3, <3>1 DEF LayOut
      <2> QED BY <1>3, <2>1, <2>3
<1> QED BY <1>3, <1>4, <1>5 DEF LayOut

\* A failed layout goes to a place saved before, or keeps the pages there are.
LEMMA LayOutFailsHolds ==
    ASSUME IInv, LayOutFails
    PROVE  /\ ~AtEnd /\ spine' \in 0..EndOfBook /\ nextPage' \in Nat
           /\ \/ section' = None
              \/ /\ PageAwaitsLayout /\ spine' = spine /\ section \in Sections /\ section' \in Sections
                 /\ section'.page <= section.laid /\ section'.laid = section.laid /\ section'.open = section.open
<1>1. ~AtEnd /\ spine \in 0..Last /\ Last \in Nat /\ nextPage \in Nat
      BY ChapterHolds DEF LayOutFails, IInv, PaintInv, Types, PlaceOK
<1>2. CASE GiveWay
      <2>1. saved # None => saved[1] \in 0..EndOfBook /\ saved[2] \in Nat
            BY DEF IInv, Types, SavedOK, Places
      <2> QED BY <1>1, <1>2, <2>1 DEF GiveWay, EndOfBook
<1>3. CASE KeepPages
      <2>1. section \in Sections /\ section.page <= section.laid /\ section.page \in Nat /\ section.laid \in Nat
            BY <1>3, ChapterHolds, SectionsHold DEF KeepPages, PageAwaitsLayout, IInv, TurnsStayInReach
      <2>2. PICK n \in Nat : n <= section.laid /\ section' = [section EXCEPT !.page = n]
            <3>1. CASE section.laid > 0
                  <4>1. section.laid - 1 \in Nat /\ section.laid - 1 <= section.laid
                        BY <2>1, <3>1
                  <4> QED BY <1>3, <3>1, <4>1 DEF KeepPages
            <3>2. CASE ~(section.laid > 0)
                  BY <1>3, <2>1, <3>2 DEF KeepPages
            <3> QED BY <3>1, <3>2
      <2>3. section' \in Sections /\ section'.page = n /\ section'.laid = section.laid /\ section'.open = section.open
            BY <2>1, <2>2 DEF Sections
      <2> QED BY <1>1, <1>3, <2>1, <2>2, <2>3 DEF KeepPages, EndOfBook
<1>4. CASE LoseChapter
      BY <1>1, <1>4 DEF LoseChapter, EndOfBook
<1> QED BY <1>2, <1>3, <1>4 DEF LayOutFails

\* The layout in the background adds pages or gives the chapter up.
LEMMA BackgroundHolds ==
    ASSUME IInv, BackgroundTick
    PROVE  /\ ~AtEnd /\ spine' = spine /\ nextPage' \in Nat
           /\ \/ section' = None
              \/ /\ section \in Sections /\ section' \in Sections /\ section'.page = section.page
                 /\ section.laid <= section'.laid /\ section'.laid <= Pages[spine]
                 /\ (section'.open \/ section'.laid = Pages[spine])
<1>1. ~AtEnd /\ section \in Sections /\ Pages[spine] \in Nat /\ section.laid \in Nat /\ section.page \in Nat
      BY ChapterHolds, SectionsHold DEF BackgroundTick, IInv, PassInv
<1>2. CASE section' = None /\ nextPage' = section.page
      BY <1>1, <1>2 DEF BackgroundTick
<1>3. ASSUME NEW n \in section.laid..Pages[spine], NEW more \in BOOLEAN, ~more => n = Pages[spine],
             section' = [section EXCEPT !.laid = n, !.open = more], UNCHANGED nextPage
      PROVE  section' \in Sections /\ section'.page = section.page /\ nextPage' \in Nat
             /\ section.laid <= section'.laid /\ section'.laid <= Pages[spine]
             /\ (section'.open \/ section'.laid = Pages[spine])
      <2>0. n \in Nat /\ section.laid <= n /\ n <= Pages[spine]
            BY <1>1
      <2>1. section' \in Sections /\ section'.page = section.page /\ section'.laid = n /\ section'.open = more
            BY <1>1, <1>3, <2>0 DEF Sections
      <2> QED BY <1>1, <1>3, <2>0, <2>1 DEF IInv, Types, PlaceOK
<1> QED BY <1>1, <1>2, <1>3 DEF BackgroundTick

\* A turn where its page is laid out steps onto a page, or onto the first that is
\* not laid out, and never past it.
LEMMA TurnHolds ==
    ASSUME IInv, NEW dir \in {-1, 1}, Turn(dir), ~AtEnd, ~PageAwaitsLayout
    PROVE  /\ PlaceOK' /\ TurnsStayInReach' /\ spine' <= EndOfBook
           /\ (AtEnd /\ section # None => ~section.open)'
           /\ toLast' \in BOOLEAN /\ recent' \in BOOLEAN
<1> USE DEF EndOfBook, AtEnd, PageAwaitsLayout
<1>1. section # None /\ section \in Sections /\ spine \in 0..Last /\ Last \in Nat
      BY ChapterHolds DEF Turn, CanTurn
<1>2. toLast' \in BOOLEAN /\ recent' \in BOOLEAN
      <2>1. toLast' \in {toLast, TRUE} /\ recent' = TRUE
            BY DEF Turn, TurnNext, TurnBack
      <2> QED BY <2>1, Zenon DEF IInv, Types, FlagsOK
<1>3. nextPage' \in Nat
      BY DEF Turn, TurnNext, TurnBack, IInv, Types, PlaceOK
<1>4. CASE section'.page \in {section.page + 1, section.page - 1} /\ section'.page \in Nat
           /\ section' = [section EXCEPT !.page = section'.page] /\ UNCHANGED spine
           /\ section'.page <= section.laid
      <2>1. section' \in Sections /\ section'.laid = section.laid /\ section'.open = section.open
            BY <1>1, <1>4 DEF Sections
      <2> QED BY <1>1, <1>2, <1>3, <1>4, <2>1 DEF PlaceOK, TurnsStayInReach, ChapterLoaded, IInv
<1>5. CASE spine' \in 0..EndOfBook /\ (section' = None \/ (spine = Last /\ spine' = EndOfBook /\ UNCHANGED section /\ ~section.open))
      BY <1>1, <1>2, <1>3, <1>5 DEF PlaceOK, TurnsStayInReach, ChapterLoaded, IInv
<1>6. CASE dir = 1
      <2>1. CASE section.page < section.laid - 1 \/ section.open
            BY <1>1, <1>4, <1>6, <2>1 DEF Turn, TurnNext, Sections
      <2>2. CASE ~(section.page < section.laid - 1 \/ section.open)
            <3>1. CASE spine < Last
                  <4>1. spine' = spine + 1 /\ section' = None
                        BY <1>6, <2>2, <3>1 DEF Turn, TurnNext
                  <4>2. spine' \in 0..EndOfBook
                        BY <1>1, <3>1, <4>1
                  <4> QED BY <1>5, <4>1, <4>2
            <3>2. CASE spine = Last
                  <4>1. spine' = EndOfBook /\ UNCHANGED section /\ ~section.open
                        BY <1>1, <1>6, <2>2, <3>2 DEF Turn, TurnNext
                  <4> QED BY <1>1, <1>5, <3>2, <4>1
            <3> QED BY <1>1, <3>1, <3>2
      <2> QED BY <2>1, <2>2
<1>7. CASE dir = -1
      <2>1. CASE section.page > 0
            <3>1. section.page <= section.laid
                  BY <1>1 DEF IInv, TurnsStayInReach
            <3> QED BY <1>1, <1>4, <1>7, <2>1, <3>1 DEF Turn, TurnBack, Sections
      <2>2. CASE ~(section.page > 0)
            <3>1. spine > 0 /\ spine' = spine - 1 /\ section' = None
                  BY <1>1, <1>7, <2>2 DEF Turn, TurnBack, CanTurn, Sections
            <3>2. spine' \in 0..EndOfBook
                  BY <1>1, <3>1
            <3> QED BY <1>5, <3>1, <3>2
      <2> QED BY <2>1, <2>2
<1> QED BY <1>6, <1>7

-----------------------------------------------------------------------------
(* The main task.                                                          *)

LEMMA BeginQuietIInv == IInv /\ BeginQuiet /\ Elsewhere => IInv'
<1> SUFFICES ASSUME IInv, BeginQuiet, Elsewhere PROVE IInv'
    OBVIOUS
<1> USE ReaderAssumption, NoneAssumption DEF IInv, BeginQuiet, SaveProgressIfMoved, SaveWorks, SaveFails, SaveNotNeeded, Fault, Reading, Goto, Elsewhere,
        position, queues, update, saving, painting, away,
        Types, PlaceOK, PassOK, PaintOK, SavedOK, FlagsOK, LeavingOK, Sections, Places, EndOfBook
<1>1. PlaceOK'
    BY DEF PlaceOK, Sections
<1>2. PassOK'
    BY CountsHold, PressesHold DEF PassOK
<1>3. PaintOK'
    BY DEF PaintOK, Places
<1>4. SavedOK'
    BY SavesHold DEF SavedOK
<1>5. FlagsOK'
    <2>1. CASE SaveProgressIfMoved
          BY <2>1, SavesHold DEF FlagsOK
    <2>2. CASE UNCHANGED saving
          BY <2>2 DEF FlagsOK
    <2> QED BY <2>1, <2>2
<1>6. LeavingOK'
    BY SavesHold DEF SavedOK
<1>7. PaintInv'
    BY DEF PaintInv, PassInv, TurnsStayInReach, ChapterLoaded, AtEnd, At, PageAwaitsLayout, EndOfBook, Chapters
<1>8. PassInv'
    BY DEF PaintInv, PassInv, TurnsStayInReach, ChapterLoaded, AtEnd, At, PageAwaitsLayout, EndOfBook, Chapters
<1>9. TurnsStayInReach'
    BY DEF PaintInv, PassInv, TurnsStayInReach, ChapterLoaded, AtEnd, At, PageAwaitsLayout, EndOfBook, Chapters
<1> QED BY <1>1, <1>2, <1>3, <1>4, <1>5, <1>6, <1>7, <1>8, <1>9

LEMMA RepaintIInv == IInv /\ Repaint /\ UNCHANGED saving /\ Elsewhere => IInv'
<1> SUFFICES ASSUME IInv, Repaint /\ UNCHANGED saving, Elsewhere PROVE IInv'
    OBVIOUS
<1> USE ReaderAssumption, NoneAssumption DEF IInv, Repaint, Goto, RepaintIsDue, Elsewhere,
        position, queues, update, saving, painting, away,
        Types, PlaceOK, PassOK, PaintOK, SavedOK, FlagsOK, LeavingOK, Sections, Places, EndOfBook
<1>1. PlaceOK'
    BY DEF PlaceOK, Sections
<1>2. PassOK'
    BY CountsHold, PressesHold DEF PassOK
<1>3. PaintOK'
    BY DEF PaintOK, Places
<1>4. SavedOK'
    BY DEF SavedOK, Places
<1>5. FlagsOK'
    BY DEF FlagsOK
<1>6. LeavingOK'
    BY DEF LeavingOK
<1>7. PaintInv'
    BY DEF PaintInv, PassInv, TurnsStayInReach, ChapterLoaded, AtEnd, At, PageAwaitsLayout, EndOfBook, Chapters
<1>8. PassInv'
    BY DEF PaintInv, PassInv, TurnsStayInReach, ChapterLoaded, AtEnd, At, PageAwaitsLayout, EndOfBook, Chapters
<1>9. TurnsStayInReach'
    BY DEF PaintInv, PassInv, TurnsStayInReach, ChapterLoaded, AtEnd, At, PageAwaitsLayout, EndOfBook, Chapters
<1> QED BY <1>1, <1>2, <1>3, <1>4, <1>5, <1>6, <1>7, <1>8, <1>9

LEMMA ExternalWaitsIInv == IInv /\ ExternalWaits /\ UNCHANGED <<dropped, saving>> /\ Elsewhere => IInv'
<1> SUFFICES ASSUME IInv, ExternalWaits /\ UNCHANGED <<dropped, saving>>, Elsewhere PROVE IInv'
    OBVIOUS
<1> USE ReaderAssumption, NoneAssumption DEF IInv, ExternalWaits, Goto, AwaitsForTurn, Elsewhere,
        position, queues, update, saving, painting, away,
        Types, PlaceOK, PassOK, PaintOK, SavedOK, FlagsOK, LeavingOK, Sections, Places, EndOfBook
<1>1. PlaceOK'
    BY DEF PlaceOK, Sections
<1>2. PassOK'
    BY CountsHold, PressesHold DEF PassOK
<1>3. PaintOK'
    BY DEF PaintOK, Places
<1>4. SavedOK'
    BY DEF SavedOK, Places
<1>5. FlagsOK'
    BY DEF FlagsOK
<1>6. LeavingOK'
    BY DEF LeavingOK
<1>7. PaintInv'
    BY DEF PaintInv, PassInv, TurnsStayInReach, ChapterLoaded, AtEnd, At, PageAwaitsLayout, EndOfBook, Chapters
<1>8. PassInv'
    BY DEF PaintInv, PassInv, TurnsStayInReach, ChapterLoaded, AtEnd, At, PageAwaitsLayout, EndOfBook, Chapters
<1>9. TurnsStayInReach'
    BY DEF PaintInv, PassInv, TurnsStayInReach, ChapterLoaded, AtEnd, At, PageAwaitsLayout, EndOfBook, Chapters
<1> QED BY <1>1, <1>2, <1>3, <1>4, <1>5, <1>6, <1>7, <1>8, <1>9

LEMMA ExternalAtEndIInv == IInv /\ ExternalAtEnd /\ UNCHANGED <<dropped, saving>> /\ Elsewhere => IInv'
<1> SUFFICES ASSUME IInv, ExternalAtEnd /\ UNCHANGED <<dropped, saving>>, Elsewhere PROVE IInv'
    OBVIOUS
<1> USE ReaderAssumption, NoneAssumption DEF IInv, ExternalAtEnd, TurnAtEnd, ReturnFromEndOfBook, Goto, Elsewhere,
        position, queues, update, saving, painting, away,
        Types, PlaceOK, PassOK, PaintOK, SavedOK, FlagsOK, LeavingOK, Sections, Places, EndOfBook
<1>1. PlaceOK'
    BY DEF PlaceOK, Sections
<1>2. PassOK'
    BY CountsHold, PressesHold DEF PassOK
<1>3. PaintOK'
    BY DEF PaintOK, Places
<1>4. SavedOK'
    BY DEF SavedOK, Places
<1>5. FlagsOK'
    BY DEF FlagsOK
<1>6. LeavingOK'
    BY DEF LeavingOK
<1>7. PaintInv'
    BY DEF PaintInv, PassInv, TurnsStayInReach, ChapterLoaded, AtEnd, At, PageAwaitsLayout, EndOfBook, Chapters
<1>8. PassInv'
    BY DEF PaintInv, PassInv, TurnsStayInReach, ChapterLoaded, AtEnd, At, PageAwaitsLayout, EndOfBook, Chapters
<1>9. TurnsStayInReach'
    BY DEF PaintInv, PassInv, TurnsStayInReach, ChapterLoaded, AtEnd, At, PageAwaitsLayout, EndOfBook, Chapters
<1> QED BY <1>1, <1>2, <1>3, <1>4, <1>5, <1>6, <1>7, <1>8, <1>9

LEMMA TakeExternalIInv == IInv /\ TakeExternal /\ UNCHANGED <<dropped, saving>> /\ Elsewhere => IInv'
<1> SUFFICES ASSUME IInv, TakeExternal /\ UNCHANGED <<dropped, saving>>, Elsewhere PROVE IInv'
    OBVIOUS
<1> USE ReaderAssumption, NoneAssumption DEF IInv, TakeExternal, AwaitsForTurn, Elsewhere,
        position, queues, update, saving, painting, away,
        Types, PlaceOK, PassOK, PaintOK, SavedOK, FlagsOK, LeavingOK, Sections, Places, EndOfBook
<1>1. PlaceOK'
    BY DEF PlaceOK, Sections
<1>2. PassOK'
    BY CountsHold, PressesHold DEF PassOK
<1>3. PaintOK'
    BY DEF PaintOK, Places
<1>4. SavedOK'
    BY DEF SavedOK, Places
<1>5. FlagsOK'
    BY DEF FlagsOK
<1>6. LeavingOK'
    BY DEF LeavingOK
<1>7. PaintInv'
    BY DEF PaintInv, PassInv, TurnsStayInReach, ChapterLoaded, AtEnd, At, PageAwaitsLayout, EndOfBook, Chapters
<1>8. PassInv'
    BY DEF PaintInv, PassInv, TurnsStayInReach, ChapterLoaded, AtEnd, At, PageAwaitsLayout, EndOfBook, Chapters
<1>9. TurnsStayInReach'
    BY DEF PaintInv, PassInv, TurnsStayInReach, ChapterLoaded, AtEnd, At, PageAwaitsLayout, EndOfBook, Chapters
<1> QED BY <1>1, <1>2, <1>3, <1>4, <1>5, <1>6, <1>7, <1>8, <1>9

LEMMA ExternalDoneIInv == IInv /\ ExternalDone /\ UNCHANGED <<dropped, saving>> /\ Elsewhere => IInv'
<1> SUFFICES ASSUME IInv, ExternalDone /\ UNCHANGED <<dropped, saving>>, Elsewhere PROVE IInv'
    OBVIOUS
<1> USE ReaderAssumption, NoneAssumption DEF IInv, ExternalDone, Elsewhere,
        position, queues, update, saving, painting, away,
        Types, PlaceOK, PassOK, PaintOK, SavedOK, FlagsOK, LeavingOK, Sections, Places, EndOfBook
<1>1. PlaceOK'
    BY DEF PlaceOK, Sections
<1>2. PassOK'
    BY CountsHold, PressesHold DEF PassOK
<1>3. PaintOK'
    BY DEF PaintOK, Places
<1>4. SavedOK'
    BY DEF SavedOK, Places
<1>5. FlagsOK'
    BY DEF FlagsOK
<1>6. LeavingOK'
    BY DEF LeavingOK
<1>7. PaintInv'
    BY DEF PaintInv, PassInv, TurnsStayInReach, ChapterLoaded, AtEnd, At, PageAwaitsLayout, EndOfBook, Chapters
<1>8. PassInv'
    BY DEF PaintInv, PassInv, TurnsStayInReach, ChapterLoaded, AtEnd, At, PageAwaitsLayout, EndOfBook, Chapters
<1>9. TurnsStayInReach'
    BY DEF PaintInv, PassInv, TurnsStayInReach, ChapterLoaded, AtEnd, At, PageAwaitsLayout, EndOfBook, Chapters
<1> QED BY <1>1, <1>2, <1>3, <1>4, <1>5, <1>6, <1>7, <1>8, <1>9

LEMMA GuardIInv == IInv /\ Guard /\ UNCHANGED <<dropped, saving>> /\ Elsewhere => IInv'
<1> SUFFICES ASSUME IInv, Guard /\ UNCHANGED <<dropped, saving>>, Elsewhere PROVE IInv'
    OBVIOUS
<1> USE ReaderAssumption, NoneAssumption DEF IInv, Guard, Elsewhere,
        position, queues, update, saving, painting, away,
        Types, PlaceOK, PassOK, PaintOK, SavedOK, FlagsOK, LeavingOK, Sections, Places, EndOfBook
<1>1. PlaceOK'
    BY DEF PlaceOK, Sections
<1>2. PassOK'
    BY CountsHold, PressesHold DEF PassOK
<1>3. PaintOK'
    BY DEF PaintOK, Places
<1>4. SavedOK'
    BY DEF SavedOK, Places
<1>5. FlagsOK'
    BY DEF FlagsOK
<1>6. LeavingOK'
    BY DEF LeavingOK
<1>7. PaintInv'
    BY DEF PaintInv, PassInv, TurnsStayInReach, ChapterLoaded, AtEnd, At, PageAwaitsLayout, EndOfBook, Chapters
<1>8. PassInv'
    BY DEF PaintInv, PassInv, TurnsStayInReach, ChapterLoaded, AtEnd, At, PageAwaitsLayout, EndOfBook, Chapters
<1>9. TurnsStayInReach'
    BY DEF PaintInv, PassInv, TurnsStayInReach, ChapterLoaded, AtEnd, At, PageAwaitsLayout, EndOfBook, Chapters
<1> QED BY <1>1, <1>2, <1>3, <1>4, <1>5, <1>6, <1>7, <1>8, <1>9

LEMMA QueuedTurnIInv == IInv /\ QueuedTurn /\ UNCHANGED <<dropped, saving>> /\ Elsewhere => IInv'
<1> SUFFICES ASSUME IInv, QueuedTurn /\ UNCHANGED <<dropped, saving>>, Elsewhere PROVE IInv'
    OBVIOUS
<1> USE ReaderAssumption, NoneAssumption DEF IInv, QueuedTurn, TurnIsDue, Elsewhere,
        position, queues, update, saving, painting, away,
        Types, PlaceOK, PassOK, PaintOK, SavedOK, FlagsOK, LeavingOK, Sections, Places, EndOfBook
<1>a. /\ PlaceOK' /\ TurnsStayInReach' /\ spine' <= EndOfBook
      /\ (AtEnd /\ section # None => ~section.open)'
      /\ toLast' \in BOOLEAN /\ recent' \in BOOLEAN
    <2>1. Sign(pass.left) \in {-1, 1}
          BY CountsHold DEF PassOK
    <2>2. Turn(Sign(pass.left)) /\ ~AtEnd /\ ~PageAwaitsLayout
          BY DEF PassInv
    <2> QED BY <2>1, <2>2, TurnHolds
<1>1. PlaceOK'
    BY <1>a
<1>2. PassOK'
    BY CountsHold, PressesHold DEF PassOK
<1>3. PaintOK'
    BY DEF PaintOK, Places
<1>4. SavedOK'
    BY DEF SavedOK, Places
<1>5. FlagsOK'
    BY <1>a DEF FlagsOK
<1>6. LeavingOK'
    BY DEF LeavingOK
<1>7. PaintInv'
    BY DEF PaintInv, PassInv, TurnsStayInReach, ChapterLoaded, AtEnd, At, PageAwaitsLayout, EndOfBook, Chapters
<1>8. PassInv'
    <2>1. pass'.changed /\ pass'.at = pass.at /\ UNCHANGED holder
          BY DEF PassOK
    <2>2. ~AtEnd /\ ~At("skip")
          BY DEF At
    <2> QED BY <1>a, <2>1, <2>2, ChapterHolds DEF PassInv, At
<1>9. TurnsStayInReach'
    BY <1>a
<1> QED BY <1>1, <1>2, <1>3, <1>4, <1>5, <1>6, <1>7, <1>8, <1>9

LEMMA ManualLosesLockIInv == IInv /\ ManualLosesLock /\ UNCHANGED <<dropped, saving>> /\ Elsewhere => IInv'
<1> SUFFICES ASSUME IInv, ManualLosesLock /\ UNCHANGED <<dropped, saving>>, Elsewhere PROVE IInv'
    OBVIOUS
<1> USE ReaderAssumption, NoneAssumption DEF IInv, ManualLosesLock, QueueTurn, Goto, Elsewhere,
        position, queues, update, saving, painting, away,
        Types, PlaceOK, PassOK, PaintOK, SavedOK, FlagsOK, LeavingOK, Sections, Places, EndOfBook
<1>1. PlaceOK'
    BY DEF PlaceOK, Sections
<1>2. PassOK'
    <2>1. Clamp((IF local THEN external ELSE 0) + Sign(pass.left)) \in Counts
          BY CountsHold DEF PassOK
    <2> QED BY <2>1, CountsHold, PressesHold DEF PassOK
<1>3. PaintOK'
    BY DEF PaintOK, Places
<1>4. SavedOK'
    BY DEF SavedOK, Places
<1>5. FlagsOK'
    BY DEF FlagsOK
<1>6. LeavingOK'
    BY DEF LeavingOK
<1>7. PaintInv'
    BY DEF PaintInv, PassInv, TurnsStayInReach, ChapterLoaded, AtEnd, At, PageAwaitsLayout, EndOfBook, Chapters
<1>8. PassInv'
    BY DEF PaintInv, PassInv, TurnsStayInReach, ChapterLoaded, AtEnd, At, PageAwaitsLayout, EndOfBook, Chapters
<1>9. TurnsStayInReach'
    BY DEF PaintInv, PassInv, TurnsStayInReach, ChapterLoaded, AtEnd, At, PageAwaitsLayout, EndOfBook, Chapters
<1> QED BY <1>1, <1>2, <1>3, <1>4, <1>5, <1>6, <1>7, <1>8, <1>9

LEMMA ManualDoneIInv == IInv /\ ManualDone /\ UNCHANGED <<dropped, saving>> /\ Elsewhere => IInv'
<1> SUFFICES ASSUME IInv, ManualDone /\ UNCHANGED <<dropped, saving>>, Elsewhere PROVE IInv'
    OBVIOUS
<1> USE ReaderAssumption, NoneAssumption DEF IInv, ManualDone, StillQueued, Elsewhere,
        position, queues, update, saving, painting, away,
        Types, PlaceOK, PassOK, PaintOK, SavedOK, FlagsOK, LeavingOK, Sections, Places, EndOfBook
<1>1. PlaceOK'
    BY DEF PlaceOK, Sections
<1>2. PassOK'
    BY CountsHold, PressesHold DEF PassOK
<1>3. PaintOK'
    BY DEF PaintOK, Places
<1>4. SavedOK'
    BY DEF SavedOK, Places
<1>5. FlagsOK'
    BY DEF FlagsOK
<1>6. LeavingOK'
    BY DEF LeavingOK
<1>7. PaintInv'
    BY DEF PaintInv, PassInv, TurnsStayInReach, ChapterLoaded, AtEnd, At, PageAwaitsLayout, EndOfBook, Chapters
<1>8. PassInv'
    BY DEF PaintInv, PassInv, TurnsStayInReach, ChapterLoaded, AtEnd, At, PageAwaitsLayout, EndOfBook, Chapters
<1>9. TurnsStayInReach'
    BY DEF PaintInv, PassInv, TurnsStayInReach, ChapterLoaded, AtEnd, At, PageAwaitsLayout, EndOfBook, Chapters
<1> QED BY <1>1, <1>2, <1>3, <1>4, <1>5, <1>6, <1>7, <1>8, <1>9

LEMMA PressAtEndIInv == IInv /\ PressAtEnd /\ UNCHANGED <<dropped, saving>> /\ Elsewhere => IInv'
<1> SUFFICES ASSUME IInv, PressAtEnd /\ UNCHANGED <<dropped, saving>>, Elsewhere PROVE IInv'
    OBVIOUS
<1> USE ReaderAssumption, NoneAssumption DEF IInv, PressAtEnd, TurnAtEnd, ReturnFromEndOfBook, Goto, Elsewhere,
        position, queues, update, saving, painting, away,
        Types, PlaceOK, PassOK, PaintOK, SavedOK, FlagsOK, LeavingOK, Sections, Places, EndOfBook
<1>1. PlaceOK'
    BY DEF PlaceOK, Sections
<1>2. PassOK'
    BY CountsHold, PressesHold DEF PassOK
<1>3. PaintOK'
    BY DEF PaintOK, Places
<1>4. SavedOK'
    BY DEF SavedOK, Places
<1>5. FlagsOK'
    BY DEF FlagsOK
<1>6. LeavingOK'
    BY DEF LeavingOK
<1>7. PaintInv'
    BY DEF PaintInv, PassInv, TurnsStayInReach, ChapterLoaded, AtEnd, At, PageAwaitsLayout, EndOfBook, Chapters
<1>8. PassInv'
    BY DEF PaintInv, PassInv, TurnsStayInReach, ChapterLoaded, AtEnd, At, PageAwaitsLayout, EndOfBook, Chapters
<1>9. TurnsStayInReach'
    BY DEF PaintInv, PassInv, TurnsStayInReach, ChapterLoaded, AtEnd, At, PageAwaitsLayout, EndOfBook, Chapters
<1> QED BY <1>1, <1>2, <1>3, <1>4, <1>5, <1>6, <1>7, <1>8, <1>9

LEMMA PressTurnIInv == IInv /\ PressTurn /\ UNCHANGED <<dropped, saving>> /\ Elsewhere => IInv'
<1> SUFFICES ASSUME IInv, PressTurn /\ UNCHANGED <<dropped, saving>>, Elsewhere PROVE IInv'
    OBVIOUS
<1> USE ReaderAssumption, NoneAssumption DEF IInv, PressTurn, QueueTurn, TurnWaits, Goto, Elsewhere,
        position, queues, update, saving, painting, away,
        Types, PlaceOK, PassOK, PaintOK, SavedOK, FlagsOK, LeavingOK, Sections, Places, EndOfBook
<1>a. \/ UNCHANGED position /\ UNCHANGED recent
      \/ /\ PlaceOK' /\ TurnsStayInReach' /\ spine' <= EndOfBook
         /\ (AtEnd /\ section # None => ~section.open)'
         /\ toLast' \in BOOLEAN /\ recent' \in BOOLEAN
    <2>1. pass.press.dir \in {-1, 1}
          BY PressesHold DEF PassOK, At
    <2>2. CASE Turn(pass.press.dir) /\ ~PageAwaitsLayout
          BY <2>1, <2>2, TurnHolds
    <2> QED BY <2>2
<1>1. PlaceOK'
    BY <1>a DEF PlaceOK
<1>2. PassOK'
    <2>1. pass.press \in AnyPress /\ manual \in Int /\ external \in Int
          BY CountsHold DEF PassOK
    <2>2. pass.press.dir \in Int
          BY <2>1, PressesHold
    <2>3. Clamp(manual + pass.press.dir) \in Counts
          /\ Clamp((IF local THEN external ELSE 0) + pass.press.dir) \in Counts
          BY <2>1, <2>2, CountsHold
    <2> QED BY <2>3 DEF PassOK
<1>3. PaintOK'
    BY DEF PaintOK, Places
<1>4. SavedOK'
    BY DEF SavedOK, Places
<1>5. FlagsOK'
    <2>1. local' \in {local, TRUE} /\ requested' \in {requested, TRUE}
          OBVIOUS
    <2>2. local' \in BOOLEAN /\ requested' \in BOOLEAN
          BY <2>1, Zenon DEF FlagsOK
    <2> QED BY <1>a, <2>2 DEF FlagsOK
<1>6. LeavingOK'
    BY DEF LeavingOK
<1>7. PaintInv'
    BY DEF PaintInv, PassInv, TurnsStayInReach, ChapterLoaded, AtEnd, At, PageAwaitsLayout, EndOfBook, Chapters
<1>8. PassInv'
    <2>1. pass'.at = "end" /\ pass.at = "press"
          BY DEF PassOK, At
    <2>2. CASE UNCHANGED position
          BY <2>1, <2>2 DEF PassInv, At, AtEnd
    <2>3. CASE ~UNCHANGED position
          BY <1>a, <2>1, <2>3, ChapterHolds DEF PassInv, At, AtEnd, PlaceOK
    <2> QED BY <2>2, <2>3
<1>9. TurnsStayInReach'
    <2>1. CASE UNCHANGED position
          BY <2>1 DEF TurnsStayInReach, ChapterLoaded, AtEnd
    <2> QED BY <1>a, <2>1
<1> QED BY <1>1, <1>2, <1>3, <1>4, <1>5, <1>6, <1>7, <1>8, <1>9

LEMMA PressJumpIInv == IInv /\ PressJump /\ UNCHANGED <<dropped, saving>> /\ Elsewhere => IInv'
<1> SUFFICES ASSUME IInv, PressJump /\ UNCHANGED <<dropped, saving>>, Elsewhere PROVE IInv'
    OBVIOUS
<1> USE ReaderAssumption, NoneAssumption DEF IInv, PressJump, Elsewhere,
        position, queues, update, saving, painting, away,
        Types, PlaceOK, PassOK, PaintOK, SavedOK, FlagsOK, LeavingOK, Sections, Places, EndOfBook
<1>1. PlaceOK'
    BY DEF PlaceOK, Sections
<1>2. PassOK'
    BY CountsHold, PressesHold DEF PassOK
<1>3. PaintOK'
    BY DEF PaintOK, Places
<1>4. SavedOK'
    BY DEF SavedOK, Places
<1>5. FlagsOK'
    BY DEF FlagsOK
<1>6. LeavingOK'
    BY DEF LeavingOK
<1>7. PaintInv'
    BY DEF PaintInv, PassInv, TurnsStayInReach, ChapterLoaded, AtEnd, At, PageAwaitsLayout, EndOfBook, Chapters
<1>8. PassInv'
    BY DEF PaintInv, PassInv, TurnsStayInReach, ChapterLoaded, AtEnd, At, PageAwaitsLayout, EndOfBook, Chapters
<1>9. TurnsStayInReach'
    BY DEF PaintInv, PassInv, TurnsStayInReach, ChapterLoaded, AtEnd, At, PageAwaitsLayout, EndOfBook, Chapters
<1> QED BY <1>1, <1>2, <1>3, <1>4, <1>5, <1>6, <1>7, <1>8, <1>9

LEMMA PressSkipIInv == IInv /\ PressSkip /\ UNCHANGED <<dropped, saving>> /\ Elsewhere => IInv'
<1> SUFFICES ASSUME IInv, PressSkip /\ UNCHANGED <<dropped, saving>>, Elsewhere PROVE IInv'
    OBVIOUS
<1> USE ReaderAssumption, NoneAssumption DEF IInv, PressSkip, Goto, Elsewhere,
        position, queues, update, saving, painting, away,
        Types, PlaceOK, PassOK, PaintOK, SavedOK, FlagsOK, LeavingOK, Sections, Places, EndOfBook
<1>1. PlaceOK'
    BY DEF PlaceOK, Sections
<1>2. PassOK'
    BY CountsHold, PressesHold DEF PassOK
<1>3. PaintOK'
    BY DEF PaintOK, Places
<1>4. SavedOK'
    BY DEF SavedOK, Places
<1>5. FlagsOK'
    BY DEF FlagsOK
<1>6. LeavingOK'
    BY DEF LeavingOK
<1>7. PaintInv'
    <2>1. section' = None <=> section = None
          BY SectionsHold DEF PlaceOK
    <2> QED BY <2>1 DEF PaintInv, AtEnd
<1>8. PassInv'
    BY DEF PaintInv, PassInv, TurnsStayInReach, ChapterLoaded, AtEnd, At, PageAwaitsLayout, EndOfBook, Chapters
<1>9. TurnsStayInReach'
    BY DEF PaintInv, PassInv, TurnsStayInReach, ChapterLoaded, AtEnd, At, PageAwaitsLayout, EndOfBook, Chapters
<1> QED BY <1>1, <1>2, <1>3, <1>4, <1>5, <1>6, <1>7, <1>8, <1>9

LEMMA LeaveChapterIInv == IInv /\ LeaveChapter /\ UNCHANGED <<dropped, saving>> /\ Elsewhere => IInv'
<1> SUFFICES ASSUME IInv, LeaveChapter /\ UNCHANGED <<dropped, saving>>, Elsewhere PROVE IInv'
    OBVIOUS
<1> USE ReaderAssumption, NoneAssumption DEF IInv, LeaveChapter, Goto, Elsewhere,
        position, queues, update, saving, painting, away,
        Types, PlaceOK, PassOK, PaintOK, SavedOK, FlagsOK, LeavingOK, Sections, Places, EndOfBook
<1>1. PlaceOK'
    <2>1. CASE At("jump")
          <3>1. spine' = pass.to
                BY <2>1 DEF At
          <3> QED BY <3>1, ChapterHolds DEF PassOK, Chapters, PlaceOK
    <2>2. CASE At("skip")
          <3>1. spine <= EndOfBook /\ spine' = spine + 1
                BY <2>2, ChapterHolds DEF PassInv, At
          <3> QED BY <3>1, ChapterHolds DEF PlaceOK
    <2> QED BY <2>1, <2>2
<1>2. PassOK'
    BY CountsHold, PressesHold DEF PassOK
<1>3. PaintOK'
    BY DEF PaintOK, Places
<1>4. SavedOK'
    BY DEF SavedOK, Places
<1>5. FlagsOK'
    BY DEF FlagsOK
<1>6. LeavingOK'
    BY DEF LeavingOK
<1>7. PaintInv'
    BY DEF PaintInv, PassInv, TurnsStayInReach, ChapterLoaded, AtEnd, At, PageAwaitsLayout, EndOfBook, Chapters
<1>8. PassInv'
    BY DEF PaintInv, PassInv, TurnsStayInReach, ChapterLoaded, AtEnd, At, PageAwaitsLayout, EndOfBook, Chapters
<1>9. TurnsStayInReach'
    BY DEF PaintInv, PassInv, TurnsStayInReach, ChapterLoaded, AtEnd, At, PageAwaitsLayout, EndOfBook, Chapters
<1> QED BY <1>1, <1>2, <1>3, <1>4, <1>5, <1>6, <1>7, <1>8, <1>9

LEMMA EndPassIInv == IInv /\ EndPass /\ UNCHANGED <<dropped, saving>> /\ Elsewhere => IInv'
<1> SUFFICES ASSUME IInv, EndPass /\ UNCHANGED <<dropped, saving>>, Elsewhere PROVE IInv'
    OBVIOUS
<1> USE ReaderAssumption, NoneAssumption DEF IInv, EndPass, Idle, Elsewhere,
        position, queues, update, saving, painting, away,
        Types, PlaceOK, PassOK, PaintOK, SavedOK, FlagsOK, LeavingOK, Sections, Places, EndOfBook
<1>1. PlaceOK'
    BY DEF PlaceOK, Sections
<1>2. PassOK'
    <2>1. 0 \in Chapters /\ 0 \in Counts /\ NoPress \in AnyPress
          BY CountsHold, PressesHold DEF Chapters
    <2> QED BY <2>1 DEF PassOK
<1>3. PaintOK'
    BY DEF PaintOK, Places
<1>4. SavedOK'
    BY DEF SavedOK, Places
<1>5. FlagsOK'
    BY DEF FlagsOK
<1>6. LeavingOK'
    BY DEF LeavingOK
<1>7. PaintInv'
    BY DEF PaintInv, PassInv, TurnsStayInReach, ChapterLoaded, AtEnd, At, PageAwaitsLayout, EndOfBook, Chapters
<1>8. PassInv'
    BY DEF PaintInv, PassInv, TurnsStayInReach, ChapterLoaded, AtEnd, At, PageAwaitsLayout, EndOfBook, Chapters
<1>9. TurnsStayInReach'
    BY DEF PaintInv, PassInv, TurnsStayInReach, ChapterLoaded, AtEnd, At, PageAwaitsLayout, EndOfBook, Chapters
<1> QED BY <1>1, <1>2, <1>3, <1>4, <1>5, <1>6, <1>7, <1>8, <1>9

-----------------------------------------------------------------------------
(* The render task.                                                        *)

LEMMA StartPaintIInv == IInv /\ StartPaint /\ Beside => IInv'
<1> SUFFICES ASSUME IInv, StartPaint, Beside PROVE IInv'
    OBVIOUS
<1> USE ReaderAssumption, NoneAssumption DEF IInv, StartPaint, Beside,
        position, queues, update, saving, painting, away,
        Types, PlaceOK, PassOK, PaintOK, SavedOK, FlagsOK, LeavingOK, Sections, Places, EndOfBook
<1>1. PlaceOK'
    BY DEF PlaceOK, Sections
<1>2. PassOK'
    BY CountsHold, PressesHold DEF PassOK
<1>3. PaintOK'
    BY DEF PaintOK, Places
<1>4. SavedOK'
    BY DEF SavedOK, Places
<1>5. FlagsOK'
    <2>1. beyond' \in {beyond, TRUE, FALSE} /\ wanted' = FALSE
          BY DEF PageAwaitsLayout, FlagsOK
    <2>2. beyond' \in BOOLEAN /\ wanted' \in BOOLEAN
          BY <2>1, Zenon DEF FlagsOK
    <2> QED BY <2>2 DEF FlagsOK
<1>6. LeavingOK'
    BY DEF LeavingOK
<1>7. PaintInv'
    BY DEF PaintInv, PassInv, TurnsStayInReach, ChapterLoaded, AtEnd, At, PageAwaitsLayout, EndOfBook, Chapters
<1>8. PassInv'
    BY DEF PaintInv, PassInv, TurnsStayInReach, ChapterLoaded, AtEnd, At, PageAwaitsLayout, EndOfBook, Chapters
<1>9. TurnsStayInReach'
    BY DEF PaintInv, PassInv, TurnsStayInReach, ChapterLoaded, AtEnd, At, PageAwaitsLayout, EndOfBook, Chapters
<1> QED BY <1>1, <1>2, <1>3, <1>4, <1>5, <1>6, <1>7, <1>8, <1>9

LEMMA LoadChapterIInv == IInv /\ LoadChapter /\ Beside => IInv'
<1> SUFFICES ASSUME IInv, LoadChapter, Beside PROVE IInv'
    OBVIOUS
<1> USE ReaderAssumption, NoneAssumption DEF IInv, LoadChapter, Beside,
        position, queues, update, saving, painting, away,
        Types, PlaceOK, PassOK, PaintOK, SavedOK, FlagsOK, LeavingOK, Sections, Places, EndOfBook
<1>0. ~AtEnd /\ spine \in 0..Last /\ Pages[spine] \in Nat \ {0} /\ ChapterLoaded = spine
    BY ChapterHolds DEF PaintInv
<1>a. section' \in Sections /\ section'.page < section'.laid /\ section'.laid <= Pages[spine]
      /\ (section'.open \/ section'.laid = Pages[spine])
    <2>1. PICK n \in 0..Pages[spine], more \in BOOLEAN :
            /\ more => nextPage < n /\ ~toLast
            /\ ~more => n = Pages[spine]
            /\ section' = [page |-> IF toLast \/ nextPage >= n THEN n - 1 ELSE nextPage, laid |-> n, open |-> more]
          OBVIOUS
    <2>2. n \in Nat \ {0} /\ nextPage \in Nat
          BY <1>0, <2>1 DEF PlaceOK
    <2> QED BY <1>0, <2>1, <2>2
<1>1. PlaceOK'
    BY <1>0, <1>a DEF PlaceOK
<1>2. PassOK'
    BY CountsHold, PressesHold DEF PassOK
<1>3. PaintOK'
    BY DEF PaintOK, Places
<1>4. SavedOK'
    BY DEF SavedOK, Places
<1>5. FlagsOK'
    BY DEF FlagsOK
<1>6. LeavingOK'
    BY DEF LeavingOK
<1>7. PaintInv'
    BY <1>0, <1>a, SectionsHold DEF PaintInv, AtEnd
<1>8. PassInv'
    BY <1>0, <1>a, SectionsHold DEF PassInv, AtEnd, At, PageAwaitsLayout
<1>9. TurnsStayInReach'
    BY <1>0, <1>a, SectionsHold DEF TurnsStayInReach, ChapterLoaded, AtEnd
<1> QED BY <1>1, <1>2, <1>3, <1>4, <1>5, <1>6, <1>7, <1>8, <1>9

LEMMA LayOutIInv == IInv /\ LayOut /\ Beside => IInv'
<1> SUFFICES ASSUME IInv, LayOut, Beside PROVE IInv'
    OBVIOUS
<1> USE ReaderAssumption, NoneAssumption DEF IInv, LayOut, Beside,
        position, queues, update, saving, painting, away,
        Types, PlaceOK, PassOK, PaintOK, SavedOK, FlagsOK, LeavingOK, Sections, Places, EndOfBook
<1>0. ~AtEnd /\ spine \in 0..Last /\ Pages[spine] \in Nat \ {0} /\ ChapterLoaded = spine
    BY ChapterHolds DEF PaintInv
<1>a. section' \in Sections /\ section'.page < section'.laid /\ section'.laid <= Pages[spine]
      /\ (section'.open \/ section'.laid = Pages[spine])
    BY LayOutHolds
<1>1. PlaceOK'
    BY <1>0, <1>a DEF PlaceOK
<1>2. PassOK'
    BY CountsHold, PressesHold DEF PassOK
<1>3. PaintOK'
    BY DEF PaintOK, Places
<1>4. SavedOK'
    BY DEF SavedOK, Places
<1>5. FlagsOK'
    BY DEF FlagsOK
<1>6. LeavingOK'
    BY DEF LeavingOK
<1>7. PaintInv'
    BY <1>0, <1>a, SectionsHold DEF PaintInv, AtEnd
<1>8. PassInv'
    <2>1. ~PageAwaitsLayout'
          <3> HIDE DEF IInv, LayOut, Types
          <3>1. section'.page \in Nat /\ section'.laid \in Nat
                BY <1>a, SectionsHold
          <3> QED BY <1>a, <3>1 DEF PageAwaitsLayout
    <2>2. ~AtEnd' /\ UNCHANGED <<spine, holder, pass>>
          BY <1>0 DEF AtEnd
    <2> QED BY <1>0, <2>1, <2>2 DEF PassInv, At, AtEnd
<1>9. TurnsStayInReach'
    <2>1. ChapterLoaded' = spine
          BY <1>0 DEF ChapterLoaded, AtEnd
    <2> HIDE DEF IInv, LayOut, Types
    <2>2. section'.page \in Nat /\ section'.laid \in Nat
          BY <1>a, SectionsHold
    <2> QED BY <1>a, <2>1, <2>2 DEF TurnsStayInReach
<1> QED BY <1>1, <1>2, <1>3, <1>4, <1>5, <1>6, <1>7, <1>8, <1>9

LEMMA TurnOnIInv == IInv /\ TurnOn /\ Beside => IInv'
<1> SUFFICES ASSUME IInv, TurnOn, Beside PROVE IInv'
    OBVIOUS
<1> USE ReaderAssumption, NoneAssumption DEF IInv, TurnOn, EndPaint, Beside,
        position, queues, update, saving, painting, away,
        Types, PlaceOK, PassOK, PaintOK, SavedOK, FlagsOK, LeavingOK, Sections, Places, EndOfBook
<1>0. ~AtEnd /\ spine \in 0..Last /\ Pages[spine] \in Nat \ {0} /\ Last \in Nat
    BY ChapterHolds DEF PaintInv
<1>a. \/ section' = None /\ spine' = spine + 1 /\ spine' <= Last
      \/ section' = OnLastPage /\ spine = Last /\ spine' = EndOfBook
    BY <1>0
<1>1. PlaceOK'
    <2>1. ~AtEnd /\ spine \in 0..Last /\ Pages[spine] \in Nat \ {0} /\ Last \in Nat
          BY ChapterHolds DEF PaintInv
    <2>2. spine' \in 0..EndOfBook + 1
          BY <2>1
    <2>3. section' = None \/ section' = OnLastPage
          OBVIOUS
    <2>4. section' \in {None} \cup Sections
          BY <2>1, <2>3, LastPageHolds
    <2>5. nextPage' \in Nat
          BY DEF PlaceOK
    <2> QED BY <2>2, <2>4, <2>5 DEF PlaceOK
<1>2. PassOK'
    BY CountsHold, PressesHold DEF PassOK
<1>3. PaintOK'
    BY DEF PaintOK, Places
<1>4. SavedOK'
    BY DEF SavedOK, Places
<1>5. FlagsOK'
    BY DEF FlagsOK
<1>6. LeavingOK'
    BY DEF LeavingOK
<1>7. PaintInv'
    BY DEF PaintInv, PassInv, TurnsStayInReach, ChapterLoaded, AtEnd, At, PageAwaitsLayout, EndOfBook, Chapters
<1>8. PassInv'
    <2>1. UNCHANGED pass /\ holder = "render" /\ holder' = "none" /\ ~At("locked")
          BY DEF PaintInv, PassInv
    <2>2. CASE section' = None /\ spine' <= Last
          BY <1>0, <1>a, <2>1, <2>2 DEF PassInv, At, AtEnd, PageAwaitsLayout
    <2>3. CASE section' = OnLastPage /\ spine' = EndOfBook
          <3>1. section'.open = FALSE
                BY <1>0, <2>3, LastPageHolds
          <3> HIDE DEF IInv, Types, TurnOn
          <3> QED BY <1>0, <2>1, <2>3, <3>1 DEF PassInv, At, AtEnd, PageAwaitsLayout
    <2> QED BY <1>a, <2>2, <2>3
<1>9. TurnsStayInReach'
    <2>1. CASE section' = None
          BY <2>1 DEF TurnsStayInReach
    <2>2. CASE section' = OnLastPage /\ spine = Last /\ spine' = EndOfBook
          <3>1. OnLastPage.page = Pages[Last] - 1 /\ OnLastPage.laid = Pages[Last]
                BY <1>0, <2>2, LastPageHolds
          <3> HIDE DEF IInv, Types, TurnOn
          <3> QED BY <1>0, <2>2, <3>1 DEF TurnsStayInReach, ChapterLoaded, AtEnd
    <2> QED BY <1>a, <2>1, <2>2
<1> QED BY <1>1, <1>2, <1>3, <1>4, <1>5, <1>6, <1>7, <1>8, <1>9

LEMMA LayOutFailsIInv == IInv /\ LayOutFails /\ Beside => IInv'
<1> SUFFICES ASSUME IInv, LayOutFails, Beside PROVE IInv'
    OBVIOUS
<1> USE ReaderAssumption, NoneAssumption DEF IInv, LayOutFails, GiveWay, KeepPages, LoseChapter, EndPaint, Fault, Beside,
        position, queues, update, saving, painting, away,
        Types, PlaceOK, PassOK, PaintOK, SavedOK, FlagsOK, LeavingOK, Sections, Places, EndOfBook
<1>a. /\ ~AtEnd /\ spine' \in 0..EndOfBook /\ nextPage' \in Nat
      /\ \/ section' = None
         \/ /\ PageAwaitsLayout /\ spine' = spine /\ section \in Sections /\ section' \in Sections
            /\ section'.page <= section.laid /\ section'.laid = section.laid /\ section'.open = section.open
    BY LayOutFailsHolds
<1>1. PlaceOK'
    BY <1>a DEF PlaceOK
<1>2. PassOK'
    BY CountsHold, PressesHold DEF PassOK
<1>3. PaintOK'
    BY DEF PaintOK, Places
<1>4. SavedOK'
    BY DEF SavedOK, Places
<1>5. FlagsOK'
    BY DEF FlagsOK
<1>6. LeavingOK'
    BY DEF LeavingOK
<1>7. PaintInv'
    BY DEF PaintInv, PassInv, TurnsStayInReach, ChapterLoaded, AtEnd, At, PageAwaitsLayout, EndOfBook, Chapters
<1>8. PassInv'
    <2>1. ~(spine' > EndOfBook) /\ (AtEnd' /\ section' # None => FALSE)
          BY <1>a, ChapterHolds DEF AtEnd
    <2>2. ~PageAwaitsLayout => ~PageAwaitsLayout'
          BY <1>a DEF PageAwaitsLayout
    <2>3. UNCHANGED pass /\ holder = "render" /\ holder' = "none"
          BY DEF PaintInv
    <2> QED BY <2>1, <2>2, <2>3 DEF PassInv, At
<1>9. TurnsStayInReach'
    BY <1>a, SectionsHold DEF TurnsStayInReach, ChapterLoaded, AtEnd, PageAwaitsLayout
<1> QED BY <1>1, <1>2, <1>3, <1>4, <1>5, <1>6, <1>7, <1>8, <1>9

LEMMA DropIInv == IInv /\ Drop /\ Beside => IInv'
<1> SUFFICES ASSUME IInv, Drop, Beside PROVE IInv'
    OBVIOUS
<1> USE ReaderAssumption, NoneAssumption DEF IInv, Drop, EndPaint, Beside,
        position, queues, update, saving, painting, away,
        Types, PlaceOK, PassOK, PaintOK, SavedOK, FlagsOK, LeavingOK, Sections, Places, EndOfBook
<1>1. PlaceOK'
    BY DEF PlaceOK, Sections
<1>2. PassOK'
    BY CountsHold, PressesHold DEF PassOK
<1>3. PaintOK'
    BY DEF PaintOK, Places
<1>4. SavedOK'
    BY DEF SavedOK, Places
<1>5. FlagsOK'
    BY DEF FlagsOK
<1>6. LeavingOK'
    BY DEF LeavingOK
<1>7. PaintInv'
    BY DEF PaintInv, PassInv, TurnsStayInReach, ChapterLoaded, AtEnd, At, PageAwaitsLayout, EndOfBook, Chapters
<1>8. PassInv'
    BY DEF PaintInv, PassInv, TurnsStayInReach, ChapterLoaded, AtEnd, At, PageAwaitsLayout, EndOfBook, Chapters
<1>9. TurnsStayInReach'
    BY DEF PaintInv, PassInv, TurnsStayInReach, ChapterLoaded, AtEnd, At, PageAwaitsLayout, EndOfBook, Chapters
<1> QED BY <1>1, <1>2, <1>3, <1>4, <1>5, <1>6, <1>7, <1>8, <1>9

LEMMA ProceedIInv == IInv /\ Proceed /\ Beside => IInv'
<1> SUFFICES ASSUME IInv, Proceed, Beside PROVE IInv'
    OBVIOUS
<1> USE ReaderAssumption, NoneAssumption DEF IInv, Proceed, Beside,
        position, queues, update, saving, painting, away,
        Types, PlaceOK, PassOK, PaintOK, SavedOK, FlagsOK, LeavingOK, Sections, Places, EndOfBook
<1>1. PlaceOK'
    BY DEF PlaceOK, Sections
<1>2. PassOK'
    BY CountsHold, PressesHold DEF PassOK
<1>3. PaintOK'
    BY DEF PaintOK, Places
<1>4. SavedOK'
    BY DEF SavedOK, Places
<1>5. FlagsOK'
    BY DEF FlagsOK
<1>6. LeavingOK'
    BY DEF LeavingOK
<1>7. PaintInv'
    BY DEF PaintInv, PassInv, TurnsStayInReach, ChapterLoaded, AtEnd, At, PageAwaitsLayout, EndOfBook, Chapters
<1>8. PassInv'
    BY DEF PaintInv, PassInv, TurnsStayInReach, ChapterLoaded, AtEnd, At, PageAwaitsLayout, EndOfBook, Chapters
<1>9. TurnsStayInReach'
    BY DEF PaintInv, PassInv, TurnsStayInReach, ChapterLoaded, AtEnd, At, PageAwaitsLayout, EndOfBook, Chapters
<1> QED BY <1>1, <1>2, <1>3, <1>4, <1>5, <1>6, <1>7, <1>8, <1>9

LEMMA LoadPageIInv == IInv /\ LoadPage /\ Beside => IInv'
<1> SUFFICES ASSUME IInv, LoadPage, Beside PROVE IInv'
    OBVIOUS
<1> USE ReaderAssumption, NoneAssumption DEF IInv, LoadPage, Beside,
        position, queues, update, saving, painting, away,
        Types, PlaceOK, PassOK, PaintOK, SavedOK, FlagsOK, LeavingOK, Sections, Places, EndOfBook
<1>1. PlaceOK'
    BY DEF PlaceOK, Sections
<1>2. PassOK'
    BY CountsHold, PressesHold DEF PassOK
<1>3. PaintOK'
    <2>1. section.page \in Nat
          BY ChapterHolds, SectionsHold DEF PaintInv
    <2> QED BY <2>1 DEF PaintOK
<1>4. SavedOK'
    BY DEF SavedOK, Places
<1>5. FlagsOK'
    BY DEF FlagsOK
<1>6. LeavingOK'
    BY DEF LeavingOK
<1>7. PaintInv'
    BY DEF PaintInv, PassInv, TurnsStayInReach, ChapterLoaded, AtEnd, At, PageAwaitsLayout, EndOfBook, Chapters
<1>8. PassInv'
    BY DEF PaintInv, PassInv, TurnsStayInReach, ChapterLoaded, AtEnd, At, PageAwaitsLayout, EndOfBook, Chapters
<1>9. TurnsStayInReach'
    BY DEF PaintInv, PassInv, TurnsStayInReach, ChapterLoaded, AtEnd, At, PageAwaitsLayout, EndOfBook, Chapters
<1> QED BY <1>1, <1>2, <1>3, <1>4, <1>5, <1>6, <1>7, <1>8, <1>9

LEMMA LoadPageFailsIInv == IInv /\ LoadPageFails /\ Beside => IInv'
<1> SUFFICES ASSUME IInv, LoadPageFails, Beside PROVE IInv'
    OBVIOUS
<1> USE ReaderAssumption, NoneAssumption DEF IInv, LoadPageFails, EndPaint, Fault, Beside,
        position, queues, update, saving, painting, away,
        Types, PlaceOK, PassOK, PaintOK, SavedOK, FlagsOK, LeavingOK, Sections, Places, EndOfBook
<1>1. PlaceOK'
    <2>1. section.page \in Nat
          BY ChapterHolds, SectionsHold DEF PaintInv
    <2> QED BY <2>1 DEF PlaceOK
<1>2. PassOK'
    BY CountsHold, PressesHold DEF PassOK
<1>3. PaintOK'
    BY DEF PaintOK, Places
<1>4. SavedOK'
    BY DEF SavedOK, Places
<1>5. FlagsOK'
    BY DEF FlagsOK
<1>6. LeavingOK'
    BY DEF LeavingOK
<1>7. PaintInv'
    BY DEF PaintInv, PassInv, TurnsStayInReach, ChapterLoaded, AtEnd, At, PageAwaitsLayout, EndOfBook, Chapters
<1>8. PassInv'
    BY DEF PaintInv, PassInv, TurnsStayInReach, ChapterLoaded, AtEnd, At, PageAwaitsLayout, EndOfBook, Chapters
<1>9. TurnsStayInReach'
    BY DEF PaintInv, PassInv, TurnsStayInReach, ChapterLoaded, AtEnd, At, PageAwaitsLayout, EndOfBook, Chapters
<1> QED BY <1>1, <1>2, <1>3, <1>4, <1>5, <1>6, <1>7, <1>8, <1>9

LEMMA ShowIInv == IInv /\ Show /\ Beside => IInv'
<1> SUFFICES ASSUME IInv, Show, Beside PROVE IInv'
    OBVIOUS
<1> USE ReaderAssumption, NoneAssumption DEF IInv, Show, Beside,
        position, queues, update, saving, painting, away,
        Types, PlaceOK, PassOK, PaintOK, SavedOK, FlagsOK, LeavingOK, Sections, Places, EndOfBook
<1>1. PlaceOK'
    BY DEF PlaceOK, Sections
<1>2. PassOK'
    BY CountsHold, PressesHold DEF PassOK
<1>3. PaintOK'
    <2>1. <<spine, drawn>> \in Places
          BY ChapterHolds DEF PaintInv, PaintOK, Places
    <2> QED BY <2>1 DEF PaintOK
<1>4. SavedOK'
    BY DEF SavedOK, Places
<1>5. FlagsOK'
    BY DEF FlagsOK
<1>6. LeavingOK'
    BY DEF LeavingOK
<1>7. PaintInv'
    BY DEF PaintInv, PassInv, TurnsStayInReach, ChapterLoaded, AtEnd, At, PageAwaitsLayout, EndOfBook, Chapters
<1>8. PassInv'
    BY DEF PaintInv, PassInv, TurnsStayInReach, ChapterLoaded, AtEnd, At, PageAwaitsLayout, EndOfBook, Chapters
<1>9. TurnsStayInReach'
    BY DEF PaintInv, PassInv, TurnsStayInReach, ChapterLoaded, AtEnd, At, PageAwaitsLayout, EndOfBook, Chapters
<1> QED BY <1>1, <1>2, <1>3, <1>4, <1>5, <1>6, <1>7, <1>8, <1>9

LEMMA SaveIInv == IInv /\ Save /\ Beside => IInv'
<1> SUFFICES ASSUME IInv, Save, Beside PROVE IInv'
    OBVIOUS
<1> USE ReaderAssumption, NoneAssumption DEF IInv, Save, EndPaint, SaveProgressIfMoved, SaveWorks, SaveFails, SaveNotNeeded, Fault, Beside,
        position, queues, update, saving, painting, away,
        Types, PlaceOK, PassOK, PaintOK, SavedOK, FlagsOK, LeavingOK, Sections, Places, EndOfBook
<1>1. PlaceOK'
    BY DEF PlaceOK, Sections
<1>2. PassOK'
    BY CountsHold, PressesHold DEF PassOK
<1>3. PaintOK'
    BY DEF PaintOK, Places
<1>4. SavedOK'
    BY SavesHold DEF SavedOK
<1>5. FlagsOK'
    BY DEF FlagsOK
<1>6. LeavingOK'
    BY SavesHold DEF SavedOK
<1>7. PaintInv'
    BY DEF PaintInv, PassInv, TurnsStayInReach, ChapterLoaded, AtEnd, At, PageAwaitsLayout, EndOfBook, Chapters
<1>8. PassInv'
    BY DEF PaintInv, PassInv, TurnsStayInReach, ChapterLoaded, AtEnd, At, PageAwaitsLayout, EndOfBook, Chapters
<1>9. TurnsStayInReach'
    BY DEF PaintInv, PassInv, TurnsStayInReach, ChapterLoaded, AtEnd, At, PageAwaitsLayout, EndOfBook, Chapters
<1> QED BY <1>1, <1>2, <1>3, <1>4, <1>5, <1>6, <1>7, <1>8, <1>9

-----------------------------------------------------------------------------
(* The layout in the background, the person, and the next visit.           *)

LEMMA BackgroundTickIInv == IInv /\ BackgroundTick => IInv'
<1> SUFFICES ASSUME IInv, BackgroundTick PROVE IInv'
    OBVIOUS
<1> USE ReaderAssumption, NoneAssumption DEF IInv, BackgroundTick, Reading, Fault,
        position, queues, update, saving, painting, away,
        Types, PlaceOK, PassOK, PaintOK, SavedOK, FlagsOK, LeavingOK, Sections, Places, EndOfBook
<1>a. /\ ~AtEnd /\ spine' = spine /\ nextPage' \in Nat
      /\ \/ section' = None
         \/ /\ section \in Sections /\ section' \in Sections /\ section'.page = section.page
            /\ section.laid <= section'.laid /\ section'.laid <= Pages[spine]
            /\ (section'.open \/ section'.laid = Pages[spine])
    BY BackgroundHolds
<1>1. PlaceOK'
    BY <1>a DEF PlaceOK
<1>2. PassOK'
    BY CountsHold, PressesHold DEF PassOK
<1>3. PaintOK'
    BY DEF PaintOK, Places
<1>4. SavedOK'
    BY DEF SavedOK, Places
<1>5. FlagsOK'
    BY DEF FlagsOK
<1>6. LeavingOK'
    <2>1. UNCHANGED <<leaving, open, presses>> /\ (UNCHANGED faults \/ (faults < MaxFaults /\ faults' = faults + 1))
          OBVIOUS
    <2> QED BY <2>1, CountersHold DEF LeavingOK
<1>7. PaintInv'
    BY DEF PaintInv, PassInv, TurnsStayInReach, ChapterLoaded, AtEnd, At, PageAwaitsLayout, EndOfBook, Chapters
<1>8. PassInv'
    BY DEF PaintInv, PassInv, TurnsStayInReach, ChapterLoaded, AtEnd, At, PageAwaitsLayout, EndOfBook, Chapters
<1>9. TurnsStayInReach'
    <2> HIDE DEF BackgroundTick, Types
    <2>1. CASE section' = None
          BY <2>1 DEF TurnsStayInReach
    <2>2. ~AtEnd' /\ ChapterLoaded' = spine
          BY <1>a DEF AtEnd, ChapterLoaded
    <2>3. CASE section' # None
          <3>1. section # None /\ section.page <= section.laid /\ section.laid \in Nat /\ section.page \in Nat
                /\ section'.laid \in Nat
                BY <1>a, <2>3, SectionsHold DEF TurnsStayInReach
          <3> QED BY <1>a, <2>2, <2>3, <3>1 DEF TurnsStayInReach
    <2> QED BY <2>1, <2>3
<1> QED BY <1>1, <1>2, <1>3, <1>4, <1>5, <1>6, <1>7, <1>8, <1>9

LEMMA TurnIsPastIInv == IInv /\ TurnIsPast => IInv'
<1> SUFFICES ASSUME IInv, TurnIsPast PROVE IInv'
    OBVIOUS
<1> USE ReaderAssumption, NoneAssumption DEF IInv, TurnIsPast,
        position, queues, update, saving, painting, away,
        Types, PlaceOK, PassOK, PaintOK, SavedOK, FlagsOK, LeavingOK, Sections, Places, EndOfBook
<1>1. PlaceOK'
    BY DEF PlaceOK, Sections
<1>2. PassOK'
    BY CountsHold, PressesHold DEF PassOK
<1>3. PaintOK'
    BY DEF PaintOK, Places
<1>4. SavedOK'
    BY DEF SavedOK, Places
<1>5. FlagsOK'
    BY DEF FlagsOK
<1>6. LeavingOK'
    BY DEF LeavingOK
<1>7. PaintInv'
    BY DEF PaintInv, PassInv, TurnsStayInReach, ChapterLoaded, AtEnd, At, PageAwaitsLayout, EndOfBook, Chapters
<1>8. PassInv'
    BY DEF PaintInv, PassInv, TurnsStayInReach, ChapterLoaded, AtEnd, At, PageAwaitsLayout, EndOfBook, Chapters
<1>9. TurnsStayInReach'
    BY DEF PaintInv, PassInv, TurnsStayInReach, ChapterLoaded, AtEnd, At, PageAwaitsLayout, EndOfBook, Chapters
<1> QED BY <1>1, <1>2, <1>3, <1>4, <1>5, <1>6, <1>7, <1>8, <1>9

LEMMA PersonIInv == IInv /\ Person => IInv'
<1> SUFFICES ASSUME IInv, Person PROVE IInv'
    OBVIOUS
<1> USE ReaderAssumption, NoneAssumption DEF IInv, Person, Begin, RemoteTurn, Back, Reading,
        position, queues, update, saving, painting, away,
        Types, PlaceOK, PassOK, PaintOK, SavedOK, FlagsOK, LeavingOK, Sections, Places, EndOfBook
<1>1. PlaceOK'
    BY DEF PlaceOK, Sections
<1>2. PassOK'
    <2>1. -1 \in Counts /\ 1 \in Counts /\ \A p \in Presses : p \in AnyPress
          BY CountsHold, PressesHold
    <2>2. external' \in Counts /\ UNCHANGED manual
          BY <2>1 DEF PassOK
    <2>3. pass' = pass \/ \E press \in Presses : pass' = [pass EXCEPT !.at = "external", !.press = press]
          OBVIOUS
    <2> QED BY <2>1, <2>2, <2>3 DEF PassOK
<1>3. PaintOK'
    BY DEF PaintOK, Places
<1>4. SavedOK'
    BY DEF SavedOK, Places
<1>5. FlagsOK'
    BY DEF FlagsOK
<1>6. LeavingOK'
    <2>1. leaving' \in {leaving, "back"} /\ UNCHANGED <<open, faults>>
          OBVIOUS
    <2> QED BY <2>1, CountersHold DEF LeavingOK
<1>7. PaintInv'
    BY DEF PaintInv, PassInv, TurnsStayInReach, ChapterLoaded, AtEnd, At, PageAwaitsLayout, EndOfBook, Chapters
<1>8. PassInv'
    <2>1. /\ UNCHANGED <<spine, section, holder>> /\ At("idle")
          /\ pass' = pass \/ \E press \in Presses : pass' = [pass EXCEPT !.at = "external", !.press = press]
          BY DEF At
    <2>2. ~At("locked")' /\ ~At("drain")' /\ ~At("skip")'
          BY <2>1 DEF At, PassOK
    <2>3. ~At("locked") /\ ~At("skip")
          BY <2>1 DEF At
    <2> QED BY <2>1, <2>2, <2>3 DEF PassInv, AtEnd
<1>9. TurnsStayInReach'
    BY DEF PaintInv, PassInv, TurnsStayInReach, ChapterLoaded, AtEnd, At, PageAwaitsLayout, EndOfBook, Chapters
<1> QED BY <1>1, <1>2, <1>3, <1>4, <1>5, <1>6, <1>7, <1>8, <1>9

LEMMA StayAfterDroppedExitIInv == IInv /\ StayAfterDroppedExit => IInv'
<1> SUFFICES ASSUME IInv, StayAfterDroppedExit PROVE IInv'
    OBVIOUS
<1> USE ReaderAssumption, NoneAssumption DEF IInv, StayAfterDroppedExit,
        position, queues, update, saving, painting, away,
        Types, PlaceOK, PassOK, PaintOK, SavedOK, FlagsOK, LeavingOK, Sections, Places, EndOfBook
<1>1. PlaceOK'
    BY DEF PlaceOK, Sections
<1>2. PassOK'
    BY CountsHold, PressesHold DEF PassOK
<1>3. PaintOK'
    BY DEF PaintOK, Places
<1>4. SavedOK'
    BY DEF SavedOK, Places
<1>5. FlagsOK'
    BY DEF FlagsOK
<1>6. LeavingOK'
    BY DEF LeavingOK
<1>7. PaintInv'
    BY DEF PaintInv, PassInv, TurnsStayInReach, ChapterLoaded, AtEnd, At, PageAwaitsLayout, EndOfBook, Chapters
<1>8. PassInv'
    BY DEF PaintInv, PassInv, TurnsStayInReach, ChapterLoaded, AtEnd, At, PageAwaitsLayout, EndOfBook, Chapters
<1>9. TurnsStayInReach'
    BY DEF PaintInv, PassInv, TurnsStayInReach, ChapterLoaded, AtEnd, At, PageAwaitsLayout, EndOfBook, Chapters
<1> QED BY <1>1, <1>2, <1>3, <1>4, <1>5, <1>6, <1>7, <1>8, <1>9

LEMMA ExitIInv == IInv /\ Exit => IInv'
<1> SUFFICES ASSUME IInv, Exit PROVE IInv'
    OBVIOUS
<1> USE ReaderAssumption, NoneAssumption DEF IInv, Exit, SaveProgressIfMoved, SaveWorks, SaveFails, SaveNotNeeded, Fault,
        position, queues, update, saving, painting, away,
        Types, PlaceOK, PassOK, PaintOK, SavedOK, FlagsOK, LeavingOK, Sections, Places, EndOfBook
<1>1. PlaceOK'
    BY DEF PlaceOK, Sections
<1>2. PassOK'
    BY CountsHold, PressesHold DEF PassOK
<1>3. PaintOK'
    BY DEF PaintOK, Places
<1>4. SavedOK'
    BY SavesHold DEF SavedOK
<1>5. FlagsOK'
    BY DEF FlagsOK
<1>6. LeavingOK'
    BY SavesHold DEF SavedOK
<1>7. PaintInv'
    BY DEF PaintInv, PassInv, TurnsStayInReach, ChapterLoaded, AtEnd, At, PageAwaitsLayout, EndOfBook, Chapters
<1>8. PassInv'
    BY DEF PaintInv, PassInv, TurnsStayInReach, ChapterLoaded, AtEnd, At, PageAwaitsLayout, EndOfBook, Chapters
<1>9. TurnsStayInReach'
    BY DEF PaintInv, PassInv, TurnsStayInReach, ChapterLoaded, AtEnd, At, PageAwaitsLayout, EndOfBook, Chapters
<1> QED BY <1>1, <1>2, <1>3, <1>4, <1>5, <1>6, <1>7, <1>8, <1>9

LEMMA PowerCutIInv == IInv /\ PowerCut => IInv'
<1> SUFFICES ASSUME IInv, PowerCut PROVE IInv'
    OBVIOUS
<1> USE ReaderAssumption, NoneAssumption DEF IInv, PowerCut, Fresh, Fault, Idle,
        position, queues, update, saving, painting, away,
        Types, PlaceOK, PassOK, PaintOK, SavedOK, FlagsOK, LeavingOK, Sections, Places, EndOfBook
<1>1. PlaceOK'
    BY DEF PlaceOK, Sections
<1>2. PassOK'
    <2>1. 0 \in Chapters /\ 0 \in Counts /\ NoPress \in AnyPress
          BY CountsHold, PressesHold DEF Chapters
    <2> QED BY <2>1 DEF PassOK
<1>3. PaintOK'
    BY DEF PaintOK, Places
<1>4. SavedOK'
    BY DEF SavedOK, Places
<1>5. FlagsOK'
    BY DEF FlagsOK
<1>6. LeavingOK'
    BY DEF LeavingOK
<1>7. PaintInv'
    BY DEF PaintInv, PassInv, TurnsStayInReach, ChapterLoaded, AtEnd, At, PageAwaitsLayout, EndOfBook, Chapters
<1>8. PassInv'
    BY DEF PaintInv, PassInv, TurnsStayInReach, ChapterLoaded, AtEnd, At, PageAwaitsLayout, EndOfBook, Chapters
<1>9. TurnsStayInReach'
    BY DEF PaintInv, PassInv, TurnsStayInReach, ChapterLoaded, AtEnd, At, PageAwaitsLayout, EndOfBook, Chapters
<1> QED BY <1>1, <1>2, <1>3, <1>4, <1>5, <1>6, <1>7, <1>8, <1>9

LEMMA OpenIInv == IInv /\ Open => IInv'
<1> SUFFICES ASSUME IInv, Open PROVE IInv'
    OBVIOUS
<1> USE ReaderAssumption, NoneAssumption DEF IInv, Open, Fresh, Idle, Progress, FirstPage,
        position, queues, update, saving, painting, away,
        Types, PlaceOK, PassOK, PaintOK, SavedOK, FlagsOK, LeavingOK, Sections, Places, EndOfBook
<1>1. PlaceOK'
    BY DEF PlaceOK, Sections
<1>2. PassOK'
    <2>1. 0 \in Chapters /\ 0 \in Counts /\ NoPress \in AnyPress
          BY CountsHold, PressesHold DEF Chapters
    <2> QED BY <2>1 DEF PassOK
<1>3. PaintOK'
    BY DEF PaintOK, Places
<1>4. SavedOK'
    BY DEF SavedOK, Places
<1>5. FlagsOK'
    BY DEF FlagsOK
<1>6. LeavingOK'
    BY DEF LeavingOK
<1>7. PaintInv'
    BY DEF PaintInv, PassInv, TurnsStayInReach, ChapterLoaded, AtEnd, At, PageAwaitsLayout, EndOfBook, Chapters
<1>8. PassInv'
    BY DEF PaintInv, PassInv, TurnsStayInReach, ChapterLoaded, AtEnd, At, PageAwaitsLayout, EndOfBook, Chapters
<1>9. TurnsStayInReach'
    BY DEF PaintInv, PassInv, TurnsStayInReach, ChapterLoaded, AtEnd, At, PageAwaitsLayout, EndOfBook, Chapters
<1> QED BY <1>1, <1>2, <1>3, <1>4, <1>5, <1>6, <1>7, <1>8, <1>9

-----------------------------------------------------------------------------
(* All steps.                                                              *)

LEMMA InitIInv == Init => IInv
<1> SUFFICES ASSUME Init PROVE IInv
    OBVIOUS
<1> USE ReaderAssumption, NoneAssumption DEF Init, EndOfBook
<1>1. Progress[1] \in 0..Last /\ Progress[2] \in Nat
      <2>1. CASE card = None
            BY <2>1 DEF Progress, FirstPage
      <2>2. ASSUME NEW c \in Chapters, NEW n \in 0..Pages[c] - 1, card = <<c, n>>
            PROVE  Progress[1] \in 0..Last /\ Progress[2] \in Nat
            <3>1. card # None /\ Pages[c] \in Nat
                  BY <2>2 DEF Chapters
            <3> QED BY <2>2, <3>1 DEF Progress, Chapters
      <2>3. card = None \/ \E c \in Chapters : \E n \in 0..Pages[c] - 1 : card = <<c, n>>
            BY DEF BookPages
      <2> QED BY <2>1, <2>2, <2>3
<1>2. PlaceOK
      BY <1>1 DEF PlaceOK
<1>3. PassOK
      BY CountsHold, PressesHold DEF PassOK, Idle, Chapters
<1>4. PaintOK
      BY DEF PaintOK
<1>5. SavedOK
      <2>1. ASSUME NEW c \in Chapters, NEW n \in 0..Pages[c] - 1
            PROVE  <<c, n>> \in Places
            BY DEF Places, Chapters
      <2> QED BY <2>1 DEF SavedOK, BookPages
<1>6. FlagsOK
      BY Zenon DEF FlagsOK
<1>7. LeavingOK
      BY DEF LeavingOK
<1>8. PaintInv /\ PassInv /\ TurnsStayInReach
      BY <1>1 DEF PaintInv, PassInv, TurnsStayInReach, At, Idle, AtEnd
<1> QED BY <1>2, <1>3, <1>4, <1>5, <1>6, <1>7, <1>8 DEF IInv, Types

LEMMA StepIInv == IInv /\ [Next]_vars => IInv'
<1> SUFFICES ASSUME IInv, [Next]_vars PROVE IInv'
    OBVIOUS
<1>1. CASE MainStep
      BY <1>1, BeginQuietIInv, RepaintIInv, ExternalWaitsIInv, ExternalAtEndIInv,
         TakeExternalIInv, ExternalDoneIInv, GuardIInv, QueuedTurnIInv,
         ManualLosesLockIInv, ManualDoneIInv, PressAtEndIInv, PressTurnIInv,
         PressJumpIInv, PressSkipIInv, LeaveChapterIInv, EndPassIInv
         DEF MainStep, PassStep, Elsewhere
<1>2. CASE RenderStep
      BY <1>2, StartPaintIInv, LoadChapterIInv, LayOutIInv, TurnOnIInv,
         LayOutFailsIInv, DropIInv, ProceedIInv, LoadPageIInv,
         LoadPageFailsIInv, ShowIInv, SaveIInv
         DEF RenderStep, Beside
<1>3. CASE UNCHANGED vars
      <2>1. UNCHANGED <<spine, section, nextPage, toLast, manual, external, local, recent, pass, requested, wanted,
                        dropped, owed, failed, saved, card, settled, faults, holder, paint, beyond, retries, drawn,
                        panel, leaving, jumpWaiting, open, presses>>
            BY <1>3 DEF vars, position, queues, update, saving, painting, away
      <2>2. Types'
            BY <2>1 DEF IInv, Types, PlaceOK, PassOK, PaintOK, SavedOK, FlagsOK, LeavingOK
      <2>3. PaintInv' /\ PassInv' /\ TurnsStayInReach'
            BY <2>1 DEF IInv, PaintInv, PassInv, TurnsStayInReach, AtEnd, At, PageAwaitsLayout, ChapterLoaded
      <2> QED BY <2>2, <2>3 DEF IInv
<1> QED BY <1>1, <1>2, <1>3, BackgroundTickIInv, TurnIsPastIInv, PersonIInv,
         StayAfterDroppedExitIInv, ExitIInv, PowerCutIInv, OpenIInv
        DEF Next
-----------------------------------------------------------------------------
(* What is shown and saved when the reader is at rest.                     *)

\* A paint has been asked for, or will be once the queue at hand is done.
Due == wanted \/ requested \/ pass.changed

\* A save that failed after it had removed the old file has left none.
FileLost == RenameMayFail /\ card = None

\* What was saved last is what the card holds.
SavedIsOnCard == saved # None => saved = card \/ FileLost

\* Only a queue being applied has turned pages nobody asked to paint yet; a jump
\* has asked at once; and a reader that is not open does nothing.
PassRest ==
    /\ pass.changed => pass.at \in {"locked", "drain", "lost"}
    /\ At("jump") \/ At("skip") => requested
    /\ open # "reading" => At("idle") /\ paint = "idle"

\* A page past the end of its chapter has a paint to come that lays it out.
PageRest ==
    section # None /\ ~AtEnd /\ section.page >= Pages[spine] =>
        (Due \/ paint = "layout") /\ paint \in {"idle", "layout"}

\* The page about to be shown is the reader's, or is followed by another.
DrawnRest == paint = "show" => drawn = section.page \/ wanted \/ requested

\* The panel shows the page the reader is at, or a paint of it is to come.
PanelRest ==
    open = "reading" =>
        panel \in {Here, Notice} \/ Due \/ dropped \/ paint \in {"layout", "check", "load", "show"}

\* The page shown is on the card, or its save is to come, is owed or has failed.
CardRest ==
    open = "reading" /\ panel = Here /\ ~AtEnd =>
        card = Here \/ FileLost \/ owed \/ failed \/ Due \/ paint # "idle"

\* What was shown has been dealt with, or will be before the reader is left.
SettledRest ==
    /\ open = "reading" => settled \/ owed \/ failed \/ paint = "save"
    /\ open = "left" => section = None \/ settled \/ failed

RestInv ==
    /\ SavedIsOnCard /\ PassRest /\ PageRest /\ DrawnRest
    /\ PanelRest /\ CardRest /\ SettledRest

\* Where every step starts; it ends in a state of IInv, too.
Resting == IInv /\ IInv' /\ RestInv

\* The place depends on the position alone, and not on the pages laid out.
LEMMA HereStays ==
    ASSUME UNCHANGED <<spine, section, nextPage, toLast>>
    PROVE  Here' = Here /\ AtEnd' = AtEnd
BY DEF Here, PlaceOf, AtEnd

LEMMA HereIgnoresLayout ==
    ASSUME section # None, section' # None, UNCHANGED spine, section'.page = section.page
    PROVE  Here' = Here /\ AtEnd' = AtEnd
BY DEF Here, PlaceOf, AtEnd

LEMMA HereOnPage ==
    ASSUME section # None, ~AtEnd, section.page < Pages[spine]
    PROVE  Here = <<spine, section.page>>
BY DEF Here, PlaceOf

LEMMA HereIsNoNotice == IInv' => Here' # Notice
<1> SUFFICES ASSUME IInv' PROVE Here' # Notice
    OBVIOUS
<1>1. spine' \in Nat /\ EndOfBook \in Nat
      BY ReaderAssumption DEF IInv, Types, PlaceOK, EndOfBook
<1>2. Here' \in {<<EndOfBook, 0>>, <<spine', section'.page>>, <<spine' + 1, 0>>,
                 <<spine', Pages[spine'] - 1>>, <<spine', nextPage'>>}
      BY DEF Here, PlaceOf
<1> QED BY <1>1, <1>2 DEF Notice

\* A page and the length of its chapter can be compared.
LEMMA PagesCompare ==
    ASSUME IInv, section # None, ~AtEnd
    PROVE  section.page \in Nat /\ Pages[spine] \in Nat \ {0} /\ section.laid \in Nat
           /\ section.page <= section.laid /\ section.laid <= Pages[spine]
<1>1. section \in Sections /\ Pages[spine] \in Nat \ {0} /\ ChapterLoaded = spine
      BY ChapterHolds
<1> QED BY <1>1, SectionsHold DEF IInv, TurnsStayInReach

LEMMA PagesBelow == \A n, m, k \in Nat : n < m /\ m <= k => ~(n >= k)
OBVIOUS

LEMMA LaidOutHolds ==
    \A s \in Sections, k \in Nat : \A n \in s.laid..k, more \in BOOLEAN :
        [s EXCEPT !.laid = n, !.open = more] # None
<1> SUFFICES ASSUME NEW s \in Sections, NEW k \in Nat, NEW n \in s.laid..k, NEW more \in BOOLEAN
             PROVE  [s EXCEPT !.laid = n, !.open = more] # None
    OBVIOUS
<1>1. s.laid \in Nat
      BY SectionsHold
<1>2. n \in Nat
      BY <1>1
<1>3. [s EXCEPT !.laid = n, !.open = more] \in Sections
      BY <1>2 DEF Sections
<1> QED BY <1>3, SectionsHold

\* A save puts the page on the card and is done, or fails and leaves the card or
\* no file on it; a page saved before may be taken to be there still.
LEMMA SavesKeepRest ==
    ASSUME IInv, SavedIsOnCard, SaveProgressIfMoved, section # None
    PROVE  /\ SavedIsOnCard'
           /\ \/ /\ card' = <<spine, section.page>> \/ FileLost'
                 /\ settled' = TRUE /\ failed' = FALSE /\ owed' = FALSE
              \/ failed' = TRUE /\ UNCHANGED <<owed, settled>>
<1>1. <<spine, section.page>> # None
      <2>1. spine \in 0..EndOfBook /\ section.page \in Nat
            BY ChapterHolds, SectionsHold, ReaderAssumption DEF EndOfBook
      <2>2. <<spine, section.page>> \in Places
            BY <2>1 DEF Places
      <2> QED BY <2>2, SectionsHold
<1>2. CASE SaveWorks
      BY <1>2 DEF SaveWorks, SavedIsOnCard, FileLost
<1>3. CASE SaveFails
      BY <1>3 DEF SaveFails, SavedIsOnCard, FileLost
<1>4. CASE SaveNotNeeded
      BY <1>1, <1>4 DEF SaveNotNeeded, SavedIsOnCard, FileLost
<1> QED BY <1>2, <1>3, <1>4 DEF SaveProgressIfMoved

\* A step that leaves the place, the paint and what is saved alone, and forgets no
\* paint that is due.
LEMMA CalmRest ==
    ASSUME RestInv, PassRest',
           UNCHANGED <<spine, section, nextPage, toLast, dropped, owed, failed, saved, card, settled,
                       paint, drawn, panel, open>>,
           Due => Due', wanted \/ requested => wanted' \/ requested'
    PROVE  RestInv'
<1>1. Here' = Here /\ AtEnd' = AtEnd
      BY HereStays
<1>2. SavedIsOnCard'
      BY DEF RestInv, SavedIsOnCard, FileLost
<1>3. PageRest'
      BY <1>1 DEF RestInv, PageRest
<1>4. DrawnRest'
      BY DEF RestInv, DrawnRest
<1>5. PanelRest'
      BY <1>1 DEF RestInv, PanelRest
<1>6. CardRest'
      BY <1>1 DEF RestInv, CardRest, FileLost
<1>7. SettledRest'
      BY DEF RestInv, SettledRest
<1> QED BY <1>2, <1>3, <1>4, <1>5, <1>6, <1>7 DEF RestInv

\* A step that moves the reader and has its new place painted.
LEMMA AskedRest ==
    ASSUME RestInv, PassRest', open = "reading",
           UNCHANGED <<owed, failed, saved, card, settled, paint, open>>,
           requested' \/ (pass'.changed /\ paint = "idle"),
           paint \in {"idle", "layout"} \/ section' = None \/ ~(section'.page >= Pages[spine'])
    PROVE  RestInv'
<1>1. Due'
      BY DEF Due
<1>2. SavedIsOnCard'
      BY DEF RestInv, SavedIsOnCard, FileLost
<1>3. PageRest'
      BY <1>1 DEF PageRest
<1>4. DrawnRest'
      BY DEF DrawnRest
<1>5. PanelRest' /\ CardRest'
      BY <1>1 DEF PanelRest, CardRest, FileLost
<1>6. SettledRest'
      BY DEF RestInv, SettledRest
<1> QED BY <1>2, <1>3, <1>4, <1>5, <1>6 DEF RestInv

LEMMA ExternalWaitsRest == Resting /\ ExternalWaits /\ UNCHANGED <<dropped, saving>> /\ Elsewhere => RestInv'
<1> SUFFICES ASSUME Resting, ExternalWaits /\ UNCHANGED <<dropped, saving>> /\ Elsewhere PROVE RestInv'
    OBVIOUS
<1> USE DEF Resting, ExternalWaits, Goto, Elsewhere, position, queues, update, saving, painting, away
<1>1. PassRest'
      BY DEF RestInv, PassRest, At, IInv, Types, PassOK
<1>2. UNCHANGED <<spine, section, nextPage, toLast, dropped,
                  owed, failed, saved, card, settled, paint, drawn, panel, open>>
      OBVIOUS
<1>3. (Due => Due') /\ (wanted \/ requested => wanted' \/ requested')
      BY DEF RestInv, Due, PassRest, At, IInv, Types, PassOK
<1> QED BY <1>1, <1>2, <1>3, CalmRest

LEMMA TakeExternalRest == Resting /\ TakeExternal /\ UNCHANGED <<dropped, saving>> /\ Elsewhere => RestInv'
<1> SUFFICES ASSUME Resting, TakeExternal /\ UNCHANGED <<dropped, saving>> /\ Elsewhere PROVE RestInv'
    OBVIOUS
<1> USE DEF Resting, TakeExternal, Elsewhere, position, queues, update, saving, painting, away
<1>1. PassRest'
      BY DEF RestInv, PassRest, At, IInv, Types, PassOK
<1>2. UNCHANGED <<spine, section, nextPage, toLast, dropped,
                  owed, failed, saved, card, settled, paint, drawn, panel, open>>
      OBVIOUS
<1>3. (Due => Due') /\ (wanted \/ requested => wanted' \/ requested')
      BY DEF RestInv, Due, PassRest, At, IInv, Types, PassOK
<1> QED BY <1>1, <1>2, <1>3, CalmRest

LEMMA ExternalDoneRest == Resting /\ ExternalDone /\ UNCHANGED <<dropped, saving>> /\ Elsewhere => RestInv'
<1> SUFFICES ASSUME Resting, ExternalDone /\ UNCHANGED <<dropped, saving>> /\ Elsewhere PROVE RestInv'
    OBVIOUS
<1> USE DEF Resting, ExternalDone, Elsewhere, position, queues, update, saving, painting, away
<1>1. PassRest'
      BY DEF RestInv, PassRest, At, IInv, Types, PassOK
<1>2. UNCHANGED <<spine, section, nextPage, toLast, dropped,
                  owed, failed, saved, card, settled, paint, drawn, panel, open>>
      OBVIOUS
<1>3. (Due => Due') /\ (wanted \/ requested => wanted' \/ requested')
      BY DEF RestInv, Due, PassRest, At, IInv, Types, PassOK
<1> QED BY <1>1, <1>2, <1>3, CalmRest

LEMMA GuardRest == Resting /\ Guard /\ UNCHANGED <<dropped, saving>> /\ Elsewhere => RestInv'
<1> SUFFICES ASSUME Resting, Guard /\ UNCHANGED <<dropped, saving>> /\ Elsewhere PROVE RestInv'
    OBVIOUS
<1> USE DEF Resting, Guard, Elsewhere, position, queues, update, saving, painting, away
<1>1. PassRest'
      BY DEF RestInv, PassRest, At, IInv, Types, PassOK
<1>2. UNCHANGED <<spine, section, nextPage, toLast, dropped,
                  owed, failed, saved, card, settled, paint, drawn, panel, open>>
      OBVIOUS
<1>3. (Due => Due') /\ (wanted \/ requested => wanted' \/ requested')
      BY DEF RestInv, Due, PassRest, At, IInv, Types, PassOK
<1> QED BY <1>1, <1>2, <1>3, CalmRest

LEMMA ManualLosesLockRest == Resting /\ ManualLosesLock /\ UNCHANGED <<dropped, saving>> /\ Elsewhere => RestInv'
<1> SUFFICES ASSUME Resting, ManualLosesLock /\ UNCHANGED <<dropped, saving>> /\ Elsewhere PROVE RestInv'
    OBVIOUS
<1> USE DEF Resting, ManualLosesLock, QueueTurn, Goto, Elsewhere, position, queues, update, saving, painting, away
<1>1. PassRest'
      BY DEF RestInv, PassRest, At, IInv, Types, PassOK
<1>2. UNCHANGED <<spine, section, nextPage, toLast, dropped,
                  owed, failed, saved, card, settled, paint, drawn, panel, open>>
      OBVIOUS
<1>3. (Due => Due') /\ (wanted \/ requested => wanted' \/ requested')
      BY DEF RestInv, Due, PassRest, At, IInv, Types, PassOK
<1> QED BY <1>1, <1>2, <1>3, CalmRest

LEMMA ManualDoneRest == Resting /\ ManualDone /\ UNCHANGED <<dropped, saving>> /\ Elsewhere => RestInv'
<1> SUFFICES ASSUME Resting, ManualDone /\ UNCHANGED <<dropped, saving>> /\ Elsewhere PROVE RestInv'
    OBVIOUS
<1> USE DEF Resting, ManualDone, Elsewhere, position, queues, update, saving, painting, away
<1>1. PassRest'
      BY DEF RestInv, PassRest, At, IInv, Types, PassOK
<1>2. UNCHANGED <<spine, section, nextPage, toLast, dropped,
                  owed, failed, saved, card, settled, paint, drawn, panel, open>>
      OBVIOUS
<1>3. (Due => Due') /\ (wanted \/ requested => wanted' \/ requested')
      BY DEF RestInv, Due, PassRest, At, IInv, Types, PassOK
<1> QED BY <1>1, <1>2, <1>3, CalmRest

LEMMA EndPassRest == Resting /\ EndPass /\ UNCHANGED <<dropped, saving>> /\ Elsewhere => RestInv'
<1> SUFFICES ASSUME Resting, EndPass /\ UNCHANGED <<dropped, saving>> /\ Elsewhere PROVE RestInv'
    OBVIOUS
<1> USE DEF Resting, EndPass, Idle, Elsewhere, position, queues, update, saving, painting, away
<1>1. PassRest'
      BY DEF RestInv, PassRest, At, IInv, Types, PassOK
<1>2. UNCHANGED <<spine, section, nextPage, toLast, dropped,
                  owed, failed, saved, card, settled, paint, drawn, panel, open>>
      OBVIOUS
<1>3. (Due => Due') /\ (wanted \/ requested => wanted' \/ requested')
      BY DEF RestInv, Due, PassRest, At, IInv, Types, PassOK
<1> QED BY <1>1, <1>2, <1>3, CalmRest

LEMMA QueuedTurnRest == Resting /\ QueuedTurn /\ UNCHANGED <<dropped, saving>> /\ Elsewhere => RestInv'
<1> SUFFICES ASSUME Resting, QueuedTurn /\ UNCHANGED <<dropped, saving>> /\ Elsewhere PROVE RestInv'
    OBVIOUS
<1> USE DEF Resting, QueuedTurn, Elsewhere, position, queues, update, saving, painting, away
<1>1. PassRest'
      BY DEF RestInv, PassRest, At, IInv, Types, PassOK
<1>2. open = "reading" /\ UNCHANGED <<owed, failed, saved, card, settled, paint, open>>
      BY DEF RestInv, PassRest, At
<1>3. requested' \/ (pass'.changed /\ paint = "idle")
      BY DEF IInv, Types, PassOK, PaintInv, PassInv, At
<1>4. paint \in {"idle", "layout"} \/ section' = None \/ ~(section'.page >= Pages[spine'])
      BY DEF IInv, PaintInv, PassInv, At
<1> QED BY <1>1, <1>2, <1>3, <1>4, AskedRest

LEMMA PressJumpRest == Resting /\ PressJump /\ UNCHANGED <<dropped, saving>> /\ Elsewhere => RestInv'
<1> SUFFICES ASSUME Resting, PressJump /\ UNCHANGED <<dropped, saving>> /\ Elsewhere PROVE RestInv'
    OBVIOUS
<1> USE DEF Resting, PressJump, Elsewhere, position, queues, update, saving, painting, away
<1>1. PassRest'
      BY DEF RestInv, PassRest, At, IInv, Types, PassOK
<1>2. UNCHANGED <<spine, section, nextPage, toLast, dropped,
                  owed, failed, saved, card, settled, paint, drawn, panel, open>>
      OBVIOUS
<1>3. (Due => Due') /\ (wanted \/ requested => wanted' \/ requested')
      BY DEF RestInv, Due, PassRest, At, IInv, Types, PassOK
<1> QED BY <1>1, <1>2, <1>3, CalmRest

LEMMA PressSkipRest == Resting /\ PressSkip /\ UNCHANGED <<dropped, saving>> /\ Elsewhere => RestInv'
<1> SUFFICES ASSUME Resting, PressSkip /\ UNCHANGED <<dropped, saving>> /\ Elsewhere PROVE RestInv'
    OBVIOUS
<1> USE DEF Resting, PressSkip, Goto, Elsewhere, position, queues, update, saving, painting, away
<1>1. PassRest'
      BY DEF RestInv, PassRest, At, IInv, Types, PassOK
<1>2. open = "reading" /\ UNCHANGED <<owed, failed, saved, card, settled, paint, open>>
      BY DEF RestInv, PassRest, At
<1>3. requested' \/ (pass'.changed /\ paint = "idle")
      OBVIOUS
<1>4. paint \in {"idle", "layout"} \/ section' = None \/ ~(section'.page >= Pages[spine'])
      <2>1. CASE section # None /\ pass.press.dir = -1
            <3>1. section \in Sections /\ 0 < Pages[spine] /\ Pages[spine] \in Nat
                  BY <2>1, ChapterHolds
            <3>2. section'.page = 0 /\ spine' = spine
                  BY <2>1, <3>1 DEF Sections
            <3> QED BY <3>1, <3>2
      <2>2. CASE UNCHANGED section
            BY <2>2, PagesCompare DEF RestInv, PageRest
      <2> QED BY <2>1, <2>2
<1> QED BY <1>1, <1>2, <1>3, <1>4, AskedRest

LEMMA LeaveChapterRest == Resting /\ LeaveChapter /\ UNCHANGED <<dropped, saving>> /\ Elsewhere => RestInv'
<1> SUFFICES ASSUME Resting, LeaveChapter /\ UNCHANGED <<dropped, saving>> /\ Elsewhere PROVE RestInv'
    OBVIOUS
<1> USE DEF Resting, LeaveChapter, Goto, Elsewhere, position, queues, update, saving, painting, away
<1>1. PassRest'
      BY DEF RestInv, PassRest, At, IInv, Types, PassOK
<1>2. open = "reading" /\ UNCHANGED <<owed, failed, saved, card, settled, paint, open>>
      BY DEF RestInv, PassRest, At
<1>3. requested' \/ (pass'.changed /\ paint = "idle")
      BY DEF RestInv, PassRest
<1>4. paint \in {"idle", "layout"} \/ section' = None \/ ~(section'.page >= Pages[spine'])
      BY DEF IInv, PaintInv
<1> QED BY <1>1, <1>2, <1>3, <1>4, AskedRest

LEMMA ExternalAtEndRest == Resting /\ ExternalAtEnd /\ UNCHANGED <<dropped, saving>> /\ Elsewhere => RestInv'
<1> SUFFICES ASSUME Resting, ExternalAtEnd /\ UNCHANGED <<dropped, saving>> /\ Elsewhere PROVE RestInv'
    OBVIOUS
<1> USE DEF Resting, ExternalAtEnd, TurnAtEnd, ReturnFromEndOfBook, Goto, Elsewhere, position, queues, update, saving, painting, away
<1>1. PassRest'
      BY DEF RestInv, PassRest, At, IInv, Types, PassOK
<1>2. CASE UNCHANGED <<position, requested>>
      <2>1. (Due => Due') /\ (wanted \/ requested => wanted' \/ requested')
            BY <1>2 DEF RestInv, Due, PassRest, At, IInv, Types, PassOK
      <2> QED BY <1>1, <1>2, <2>1, CalmRest
<1>3. CASE requested' = TRUE
      <2>1. open = "reading" /\ UNCHANGED <<owed, failed, saved, card, settled, paint, open>>
            BY DEF RestInv, PassRest, At
      <2>2. paint = "idle"
            BY DEF IInv, PaintInv
      <2> QED BY <1>1, <1>3, <2>1, <2>2, AskedRest
<1> QED BY <1>2, <1>3

LEMMA PressAtEndRest == Resting /\ PressAtEnd /\ UNCHANGED <<dropped, saving>> /\ Elsewhere => RestInv'
<1> SUFFICES ASSUME Resting, PressAtEnd /\ UNCHANGED <<dropped, saving>> /\ Elsewhere PROVE RestInv'
    OBVIOUS
<1> USE DEF Resting, PressAtEnd, TurnAtEnd, ReturnFromEndOfBook, Goto, Elsewhere, position, queues, update, saving, painting, away
<1>1. PassRest'
      BY DEF RestInv, PassRest, At, IInv, Types, PassOK
<1>2. CASE UNCHANGED <<position, requested>>
      <2>1. (Due => Due') /\ (wanted \/ requested => wanted' \/ requested')
            BY <1>2 DEF RestInv, Due, PassRest, At, IInv, Types, PassOK
      <2> QED BY <1>1, <1>2, <2>1, CalmRest
<1>3. CASE requested' = TRUE
      <2>1. open = "reading" /\ UNCHANGED <<owed, failed, saved, card, settled, paint, open>>
            BY DEF RestInv, PassRest, At
      <2>2. paint = "idle"
            BY DEF IInv, PaintInv
      <2> QED BY <1>1, <1>3, <2>1, <2>2, AskedRest
<1> QED BY <1>2, <1>3

LEMMA PressTurnRest == Resting /\ PressTurn /\ UNCHANGED <<dropped, saving>> /\ Elsewhere => RestInv'
<1> SUFFICES ASSUME Resting, PressTurn /\ UNCHANGED <<dropped, saving>> /\ Elsewhere PROVE RestInv'
    OBVIOUS
<1> USE DEF Resting, PressTurn, QueueTurn, Goto, Elsewhere, position, queues, update, saving, painting, away
<1>1. PassRest'
      BY DEF RestInv, PassRest, At, IInv, Types, PassOK
<1>2. open = "reading" /\ UNCHANGED <<owed, failed, saved, card, settled, paint, drawn, panel, open, dropped>>
      BY DEF RestInv, PassRest, At
<1>3. CASE UNCHANGED position
      <2>1. (Due => Due') /\ (wanted \/ requested => wanted' \/ requested')
            BY DEF RestInv, Due, PassRest, At, IInv, Types, PassOK
      <2> QED BY <1>1, <1>2, <1>3, <2>1, CalmRest
<1>4. CASE ~UNCHANGED position
      <2>1. requested' /\ holder = "none"
            BY <1>4, Zenon
      <2>2. paint = "idle"
            BY <2>1 DEF IInv, PaintInv
      <2> QED BY <1>1, <1>2, <2>1, <2>2, AskedRest
<1> QED BY <1>3, <1>4

LEMMA RepaintRest == Resting /\ Repaint /\ UNCHANGED saving /\ Elsewhere => RestInv'
<1> SUFFICES ASSUME Resting, Repaint /\ UNCHANGED saving /\ Elsewhere PROVE RestInv'
    OBVIOUS
<1> USE DEF Resting, Repaint, Goto, Elsewhere, position, queues, update, saving, painting, away
<1>1. PassRest'
      BY DEF RestInv, PassRest, At, IInv, Types, PassOK
<1>2. CASE RepaintIsDue
      <2>1. open = "reading" /\ requested' = TRUE
            BY <1>2 DEF RestInv, PassRest, At
      <2>2. paint = "idle"
            BY <1>2 DEF RepaintIsDue, IInv, PaintInv
      <2> QED BY <1>1, <2>1, <2>2, AskedRest
<1>3. CASE ~RepaintIsDue
      <2>1. UNCHANGED <<spine, section, nextPage, toLast, dropped,
                        owed, failed, saved, card, settled, paint, drawn, panel, open>>
            BY <1>3 DEF IInv, Types, FlagsOK
      <2>2. (Due => Due') /\ (wanted \/ requested => wanted' \/ requested')
            BY DEF Due, IInv, Types, PassOK
      <2> QED BY <1>1, <2>1, <2>2, CalmRest
<1> QED BY <1>2, <1>3

LEMMA BeginQuietRest == Resting /\ BeginQuiet /\ Elsewhere => RestInv'
<1> SUFFICES ASSUME Resting, BeginQuiet /\ Elsewhere PROVE RestInv'
    OBVIOUS
<1> USE DEF Resting, BeginQuiet, Goto, Reading, Elsewhere, position, queues, update, saving, painting, away
<1>1. PassRest'
      BY DEF RestInv, PassRest, At, IInv, Types, PassOK
<1>2. (Due => Due') /\ (wanted \/ requested => wanted' \/ requested')
      BY DEF Due, IInv, Types, PassOK
<1>3. CASE UNCHANGED saving
      BY <1>1, <1>2, <1>3, CalmRest
<1>4. CASE SaveProgressIfMoved /\ section # None /\ holder = "none"
      <2>1. Here' = Here /\ AtEnd' = AtEnd
            BY HereStays
      <2>2. PageRest'
            BY <1>2, <2>1 DEF RestInv, PageRest
      <2>3. DrawnRest'
            BY <1>2 DEF RestInv, DrawnRest
      <2>4. PanelRest'
            BY <1>2, <2>1 DEF RestInv, PanelRest
      <2>5. /\ SavedIsOnCard'
            /\ \/ /\ card' = <<spine, section.page>> \/ FileLost'
                  /\ settled' = TRUE /\ failed' = FALSE /\ owed' = FALSE
               \/ failed' = TRUE /\ UNCHANGED <<owed, settled>>
            BY <1>4, SavesKeepRest DEF RestInv
      <2>6. SettledRest'
            BY <2>5 DEF SettledRest
      <2>7. ASSUME ~AtEnd PROVE Here = <<spine, section.page>> \/ Due
            <3>1. paint = "idle"
                  BY <1>4 DEF IInv, PaintInv
            <3> QED BY <1>4, <2>7, <3>1, PagesCompare, HereOnPage DEF RestInv, PageRest
      <2>8. CardRest'
            BY <1>2, <2>1, <2>5, <2>7 DEF CardRest, FileLost
      <2> QED BY <1>1, <2>2, <2>3, <2>4, <2>5, <2>6, <2>8 DEF RestInv
<1> QED BY <1>3, <1>4 DEF SaveProgressIfMoved

LEMMA StartPaintRest == Resting /\ StartPaint /\ Beside => RestInv'
<1> SUFFICES ASSUME Resting, StartPaint /\ Beside PROVE RestInv'
    OBVIOUS
<1> USE DEF Resting, StartPaint, Beside, position, queues, update, saving, painting, away
<1>a. Here' = Here /\ AtEnd' = AtEnd /\ paint = "idle"
      BY HereStays DEF IInv, PaintInv
<1>1. SavedIsOnCard'
      BY DEF RestInv, SavedIsOnCard, FileLost
<1>2. PassRest'
      BY DEF RestInv, PassRest, At
<1>3. PageRest'
      BY <1>a DEF PageRest
<1>4. DrawnRest'
      BY <1>a DEF DrawnRest
<1>5. PanelRest'
      BY <1>a DEF PanelRest, Here
<1>6. CardRest'
      BY <1>a DEF CardRest, FileLost
<1>7. SettledRest'
      BY <1>a DEF RestInv, PassRest, SettledRest
<1> QED BY <1>1, <1>2, <1>3, <1>4, <1>5, <1>6, <1>7 DEF RestInv

LEMMA LoadChapterRest == Resting /\ LoadChapter /\ Beside => RestInv'
<1> SUFFICES ASSUME Resting, LoadChapter /\ Beside PROVE RestInv'
    OBVIOUS
<1> USE DEF Resting, LoadChapter, Beside, position, queues, update, saving, painting, away
<1>1. SavedIsOnCard'
      BY DEF RestInv, SavedIsOnCard, FileLost
<1>2. PassRest'
      BY DEF RestInv, PassRest, At
<1>3. PageRest'
      <2>1. ~AtEnd /\ ~AtEnd' /\ UNCHANGED spine /\ Pages[spine] \in Nat \ {0} /\ nextPage \in Nat
            BY ChapterHolds DEF IInv, PaintInv, Types, PlaceOK, AtEnd
      <2>2. PICK n \in 0..Pages[spine], more \in BOOLEAN :
              /\ more => nextPage < n /\ ~toLast
              /\ ~more => n = Pages[spine]
              /\ section' = [page |-> IF toLast \/ nextPage >= n THEN n - 1 ELSE nextPage, laid |-> n, open |-> more]
            OBVIOUS
      <2>3. n \in Nat /\ n <= Pages[spine] /\ 0 < n
            BY <2>1, <2>2
      <2>4. ~(section'.page >= Pages[spine])
            BY <2>1, <2>2, <2>3
      <2> QED BY <2>1, <2>4 DEF PageRest
<1>4. DrawnRest'
      BY DEF DrawnRest
<1>5. PanelRest'
      BY DEF PanelRest
<1>6. CardRest'
      BY DEF CardRest, FileLost
<1>7. SettledRest'
      BY DEF RestInv, PassRest, SettledRest
<1> QED BY <1>1, <1>2, <1>3, <1>4, <1>5, <1>6, <1>7 DEF RestInv

LEMMA LayOutRest == Resting /\ LayOut /\ Beside => RestInv'
<1> SUFFICES ASSUME Resting, LayOut /\ Beside PROVE RestInv'
    OBVIOUS
<1> USE DEF Resting, LayOut, Beside, position, queues, update, saving, painting, away
<1>1. SavedIsOnCard'
      BY DEF RestInv, SavedIsOnCard, FileLost
<1>2. PassRest'
      BY DEF RestInv, PassRest, At
<1>3. PageRest'
      <2>1. ~AtEnd /\ UNCHANGED spine /\ section' \in Sections /\ section'.page < section'.laid
             /\ section'.laid <= Pages[spine] /\ Pages[spine] \in Nat
            BY LayOutHolds, ChapterHolds
      <2>2. section'.page \in Nat /\ section'.laid \in Nat
            BY <2>1, SectionsHold
      <2>3. ~(section'.page >= Pages[spine])
            BY <2>1, <2>2, PagesBelow
      <2> QED BY <2>1, <2>3 DEF PageRest
<1>4. DrawnRest'
      BY DEF DrawnRest
<1>5. PanelRest'
      BY DEF PanelRest
<1>6. CardRest'
      BY DEF CardRest, FileLost
<1>7. SettledRest'
      BY DEF RestInv, PassRest, SettledRest
<1> QED BY <1>1, <1>2, <1>3, <1>4, <1>5, <1>6, <1>7 DEF RestInv

LEMMA TurnOnRest == Resting /\ TurnOn /\ Beside => RestInv'
<1> SUFFICES ASSUME Resting, TurnOn /\ Beside PROVE RestInv'
    OBVIOUS
<1> USE DEF Resting, TurnOn, EndPaint, Beside, position, queues, update, saving, painting, away
<1>a. Due' /\ requested' /\ paint' = "idle"
      BY DEF Due
<1>1. SavedIsOnCard'
      BY DEF RestInv, SavedIsOnCard, FileLost
<1>2. PassRest'
      BY DEF RestInv, PassRest, At
<1>3. PageRest'
      BY <1>a DEF PageRest
<1>4. DrawnRest'
      BY <1>a DEF DrawnRest
<1>5. PanelRest'
      BY <1>a DEF PanelRest
<1>6. CardRest'
      BY <1>a DEF CardRest, FileLost
<1>7. SettledRest'
      BY DEF RestInv, PassRest, SettledRest
<1> QED BY <1>1, <1>2, <1>3, <1>4, <1>5, <1>6, <1>7 DEF RestInv

LEMMA LayOutFailsRest == Resting /\ LayOutFails /\ Beside => RestInv'
<1> SUFFICES ASSUME Resting, LayOutFails /\ Beside PROVE RestInv'
    OBVIOUS
<1> USE DEF Resting, LayOutFails, EndPaint, Fault, Beside, position, queues, update, saving, painting, away
<1>a. panel' = Notice /\ paint' = "idle" /\ UNCHANGED <<owed, failed, saved, card, settled, wanted>>
      OBVIOUS
<1>b. Here' # Notice
      BY HereIsNoNotice
<1>c. requested => requested'
      BY DEF GiveWay, KeepPages, LoseChapter
<1>1. SavedIsOnCard'
      BY DEF RestInv, SavedIsOnCard, FileLost
<1>2. PassRest'
      BY <1>a, <1>c DEF RestInv, PassRest, At
<1>3. PageRest'
      <2>1. CASE section' = None
            BY <2>1 DEF PageRest
      <2>2. CASE KeepPages
            <3>1. section # None /\ ~AtEnd /\ section \in Sections /\ UNCHANGED spine /\ AtEnd' = AtEnd
                  BY <2>2, ChapterHolds DEF KeepPages, PageAwaitsLayout, IInv, PaintInv, AtEnd
            <3>2. section.page \in Nat /\ Pages[spine] \in Nat \ {0} /\ section.laid \in Nat
                  /\ section.page <= section.laid /\ section.laid <= Pages[spine]
                  BY <3>1, PagesCompare
            <3>3. section'.page = IF section.laid > 0 THEN section.laid - 1 ELSE section.page
                  BY <2>2, <3>1 DEF KeepPages, Sections
            <3>4. ~(section'.page >= Pages[spine])
                  BY <3>2, <3>3
            <3> QED BY <3>1, <3>4 DEF PageRest
      <2> QED BY <2>1, <2>2 DEF GiveWay, LoseChapter
<1>4. DrawnRest'
      BY <1>a DEF DrawnRest
<1>5. PanelRest'
      BY <1>a DEF PanelRest
<1>6. CardRest'
      BY <1>a, <1>b DEF CardRest, FileLost
<1>7. SettledRest'
      BY DEF RestInv, PassRest, SettledRest
<1> QED BY <1>1, <1>2, <1>3, <1>4, <1>5, <1>6, <1>7 DEF RestInv

LEMMA DropRest == Resting /\ Drop /\ Beside => RestInv'
<1> SUFFICES ASSUME Resting, Drop /\ Beside PROVE RestInv'
    OBVIOUS
<1> USE DEF Resting, Drop, EndPaint, Beside, position, queues, update, saving, painting, away
<1>a. Here' = Here /\ AtEnd' = AtEnd
      BY HereStays
<1>b. section # None /\ ~AtEnd /\ ~(section.page >= Pages[spine]) /\ Here = <<spine, section.page>>
      BY PagesCompare, HereOnPage DEF IInv, PaintInv, RestInv, PageRest
<1>1. SavedIsOnCard'
      BY DEF RestInv, SavedIsOnCard, FileLost
<1>2. PassRest'
      BY DEF RestInv, PassRest, At
<1>3. PageRest'
      BY <1>a, <1>b DEF PageRest
<1>4. DrawnRest'
      BY DEF DrawnRest
<1>5. PanelRest'
      BY DEF PanelRest
<1>6. CardRest'
      BY DEF CardRest, FileLost
<1>7. SettledRest'
      BY DEF RestInv, PassRest, SettledRest
<1> QED BY <1>1, <1>2, <1>3, <1>4, <1>5, <1>6, <1>7 DEF RestInv

LEMMA ProceedRest == Resting /\ Proceed /\ Beside => RestInv'
<1> SUFFICES ASSUME Resting, Proceed /\ Beside PROVE RestInv'
    OBVIOUS
<1> USE DEF Resting, Proceed, Beside, position, queues, update, saving, painting, away
<1>a. Here' = Here /\ AtEnd' = AtEnd
      BY HereStays
<1>b. section # None /\ ~AtEnd /\ ~(section.page >= Pages[spine]) /\ Here = <<spine, section.page>>
      BY PagesCompare, HereOnPage DEF IInv, PaintInv, RestInv, PageRest
<1>1. SavedIsOnCard'
      BY DEF RestInv, SavedIsOnCard, FileLost
<1>2. PassRest'
      BY DEF RestInv, PassRest, At
<1>3. PageRest'
      BY <1>a, <1>b DEF PageRest
<1>4. DrawnRest'
      BY DEF DrawnRest
<1>5. PanelRest'
      BY DEF PanelRest
<1>6. CardRest'
      BY DEF CardRest, FileLost
<1>7. SettledRest'
      BY DEF RestInv, PassRest, SettledRest
<1> QED BY <1>1, <1>2, <1>3, <1>4, <1>5, <1>6, <1>7 DEF RestInv

LEMMA LoadPageRest == Resting /\ LoadPage /\ Beside => RestInv'
<1> SUFFICES ASSUME Resting, LoadPage /\ Beside PROVE RestInv'
    OBVIOUS
<1> USE DEF Resting, LoadPage, Beside, position, queues, update, saving, painting, away
<1>a. Here' = Here /\ AtEnd' = AtEnd
      BY HereStays
<1>b. section # None /\ ~AtEnd /\ ~(section.page >= Pages[spine]) /\ Here = <<spine, section.page>>
      BY PagesCompare, HereOnPage DEF IInv, PaintInv, RestInv, PageRest
<1>1. SavedIsOnCard'
      BY DEF RestInv, SavedIsOnCard, FileLost
<1>2. PassRest'
      BY DEF RestInv, PassRest, At
<1>3. PageRest'
      BY <1>a, <1>b DEF PageRest
<1>4. DrawnRest'
      BY DEF DrawnRest
<1>5. PanelRest'
      BY DEF PanelRest
<1>6. CardRest'
      BY DEF CardRest, FileLost
<1>7. SettledRest'
      BY DEF RestInv, PassRest, SettledRest
<1> QED BY <1>1, <1>2, <1>3, <1>4, <1>5, <1>6, <1>7 DEF RestInv

LEMMA LoadPageFailsRest == Resting /\ LoadPageFails /\ Beside => RestInv'
<1> SUFFICES ASSUME Resting, LoadPageFails /\ Beside PROVE RestInv'
    OBVIOUS
<1> USE DEF Resting, LoadPageFails, EndPaint, Fault, Beside, position, queues, update, saving, painting, away
<1>b. section # None /\ ~AtEnd /\ ~(section.page >= Pages[spine]) /\ Here = <<spine, section.page>>
      BY PagesCompare, HereOnPage DEF IInv, PaintInv, RestInv, PageRest
<1>c. paint' = "idle" /\ UNCHANGED <<spine, wanted>> /\ AtEnd' = AtEnd /\ (requested => requested')
      BY DEF AtEnd
<1>d. panel' = Notice \/ requested'
      OBVIOUS
<1>e. Here' # Notice
      BY HereIsNoNotice
<1>1. SavedIsOnCard'
      BY DEF RestInv, SavedIsOnCard, FileLost
<1>2. PassRest'
      BY <1>c DEF RestInv, PassRest, At
<1>3. PageRest'
      BY <1>b, <1>c DEF PageRest
<1>4. DrawnRest'
      BY <1>c DEF DrawnRest
<1>5. PanelRest'
      BY <1>d DEF PanelRest, Due
<1>6. CardRest'
      BY <1>d, <1>e DEF CardRest, Due, FileLost
<1>7. SettledRest'
      BY DEF RestInv, PassRest, SettledRest
<1> QED BY <1>1, <1>2, <1>3, <1>4, <1>5, <1>6, <1>7 DEF RestInv

LEMMA ShowRest == Resting /\ Show /\ Beside => RestInv'
<1> SUFFICES ASSUME Resting, Show /\ Beside PROVE RestInv'
    OBVIOUS
<1> USE DEF Resting, Show, Beside, position, queues, update, saving, painting, away
<1>a. Here' = Here /\ AtEnd' = AtEnd
      BY HereStays
<1>b. section # None /\ ~AtEnd /\ ~(section.page >= Pages[spine]) /\ Here = <<spine, section.page>>
      BY PagesCompare, HereOnPage DEF IInv, PaintInv, RestInv, PageRest
<1>1. SavedIsOnCard'
      BY DEF RestInv, SavedIsOnCard, FileLost
<1>2. PassRest'
      BY DEF RestInv, PassRest, At
<1>3. PageRest'
      BY <1>a, <1>b DEF PageRest
<1>4. DrawnRest'
      BY DEF DrawnRest
<1>5. PanelRest'
      BY <1>a, <1>b DEF PanelRest, RestInv, DrawnRest, Due
<1>6. CardRest'
      BY DEF CardRest, FileLost
<1>7. SettledRest'
      BY DEF RestInv, PassRest, SettledRest
<1> QED BY <1>1, <1>2, <1>3, <1>4, <1>5, <1>6, <1>7 DEF RestInv

LEMMA SaveRest == Resting /\ Save /\ Beside => RestInv'
<1> SUFFICES ASSUME Resting, Save /\ Beside PROVE RestInv'
    OBVIOUS
<1> USE DEF Resting, Save, EndPaint, Beside, position, queues, update, saving, painting, away
<1>a. Here' = Here /\ AtEnd' = AtEnd
      BY HereStays
<1>b. section # None /\ ~AtEnd /\ ~(section.page >= Pages[spine]) /\ Here = <<spine, section.page>>
      BY PagesCompare, HereOnPage DEF IInv, PaintInv, RestInv, PageRest
<1>c. open = "reading"
      BY DEF RestInv, PassRest
<1>d. /\ SavedIsOnCard'
      /\ \/ owed' = TRUE
         \/ (card' = <<spine, section.page>> \/ FileLost') /\ settled' = TRUE
         \/ failed' = TRUE
      BY <1>b, SavesKeepRest DEF RestInv, SavedIsOnCard, FileLost
<1>1. SavedIsOnCard'
      BY <1>d
<1>2. PassRest'
      BY DEF RestInv, PassRest, At
<1>3. PageRest'
      BY <1>a, <1>b DEF PageRest
<1>4. DrawnRest'
      BY DEF DrawnRest
<1>5. PanelRest'
      BY <1>a DEF RestInv, PanelRest, Due
<1>6. CardRest'
      BY <1>a, <1>b, <1>d DEF CardRest, FileLost
<1>7. SettledRest'
      BY <1>c, <1>d DEF SettledRest
<1> QED BY <1>1, <1>2, <1>3, <1>4, <1>5, <1>6, <1>7 DEF RestInv

LEMMA BackgroundTickRest == Resting /\ BackgroundTick => RestInv'
<1> SUFFICES ASSUME Resting, BackgroundTick PROVE RestInv'
    OBVIOUS
<1> USE DEF Resting, BackgroundTick, Reading, Fault, position, queues, update, saving, painting, away
<1>1. PassRest'
      BY DEF RestInv, PassRest, At
<1>2. paint = "idle" /\ open = "reading"
      BY DEF IInv, PaintInv
<1>3. CASE requested' = TRUE
      BY <1>1, <1>2, <1>3, AskedRest
<1>4. CASE section' # None /\ UNCHANGED <<nextPage, requested, faults>>
      <2>1. section'.page = section.page /\ section' # None /\ section # None /\ UNCHANGED spine
            BY <1>4, BackgroundHolds
      <2>2. Here' = Here /\ AtEnd' = AtEnd
            BY <2>1, HereIgnoresLayout
      <2>3. Due' = Due
            BY <1>4 DEF Due
      <2>4. SavedIsOnCard' /\ SettledRest'
            BY <2>1 DEF RestInv, SavedIsOnCard, SettledRest, FileLost
      <2>5. PageRest'
            BY <2>1, <2>2, <2>3 DEF RestInv, PageRest
      <2>6. DrawnRest'
            BY <1>2 DEF DrawnRest
      <2>7. PanelRest'
            BY <2>2, <2>3 DEF RestInv, PanelRest
      <2>8. CardRest'
            BY <2>2, <2>3 DEF RestInv, CardRest, FileLost
      <2> QED BY <1>1, <2>4, <2>5, <2>6, <2>7, <2>8 DEF RestInv
<1>5. section' # None \/ requested' = TRUE
      <2>1. section \in Sections /\ Pages[spine] \in Nat /\ section.laid \in Nat
            BY ChapterHolds, SectionsHold DEF IInv, PassInv
      <2>2. \A n \in section.laid..Pages[spine], more \in BOOLEAN :
              [section EXCEPT !.laid = n, !.open = more] # None
            BY <2>1, LaidOutHolds
      <2> QED BY <2>2
<1> QED BY <1>3, <1>4, <1>5

LEMMA TurnIsPastRest == Resting /\ TurnIsPast => RestInv'
<1> SUFFICES ASSUME Resting, TurnIsPast PROVE RestInv'
    OBVIOUS
<1> USE DEF Resting, TurnIsPast, position, queues, update, saving, painting, away
<1>1. PassRest'
      BY DEF RestInv, PassRest, At
<1>2. UNCHANGED <<spine, section, nextPage, toLast, dropped,
                  owed, failed, saved, card, settled, paint, drawn, panel, open>>
      OBVIOUS
<1>3. (Due => Due') /\ (wanted \/ requested => wanted' \/ requested')
      BY DEF Due
<1> QED BY <1>1, <1>2, <1>3, CalmRest

LEMMA PersonRest == Resting /\ Person => RestInv'
<1> SUFFICES ASSUME Resting, Person PROVE RestInv'
    OBVIOUS
<1> USE DEF Resting, Person, Begin, RemoteTurn, Back, Reading, position, queues, update, saving, painting, away
<1>1. PassRest'
      BY DEF RestInv, PassRest, At, IInv, Types, PassOK
<1>2. UNCHANGED <<spine, section, nextPage, toLast, dropped,
                  owed, failed, saved, card, settled, paint, drawn, panel, open>>
      OBVIOUS
<1>3. (Due => Due') /\ (wanted \/ requested => wanted' \/ requested')
      BY DEF Due, IInv, Types, PassOK
<1> QED BY <1>1, <1>2, <1>3, CalmRest

LEMMA StayAfterDroppedExitRest == Resting /\ StayAfterDroppedExit => RestInv'
<1> SUFFICES ASSUME Resting, StayAfterDroppedExit PROVE RestInv'
    OBVIOUS
<1> USE DEF Resting, StayAfterDroppedExit, position, queues, update, saving, painting, away
<1>1. PassRest'
      BY DEF RestInv, PassRest, At
<1>2. UNCHANGED <<spine, section, nextPage, toLast, dropped,
                  owed, failed, saved, card, settled, paint, drawn, panel, open>>
      OBVIOUS
<1>3. (Due => Due') /\ (wanted \/ requested => wanted' \/ requested')
      BY DEF Due
<1> QED BY <1>1, <1>2, <1>3, CalmRest

LEMMA ExitRest == Resting /\ Exit => RestInv'
<1> SUFFICES ASSUME Resting, Exit PROVE RestInv'
    OBVIOUS
<1> USE DEF Resting, Exit, position, queues, update, saving, painting, away
<1>1. paint = "idle" /\ open' = "left"
      BY DEF IInv, PaintInv
<1>2. PassRest'
      BY <1>1 DEF RestInv, PassRest, At
<1>3. PageRest'
      <2>1. AtEnd' = AtEnd /\ Due' = Due
            BY DEF AtEnd, Due
      <2> QED BY <2>1 DEF RestInv, PageRest
<1>4. DrawnRest' /\ PanelRest' /\ CardRest'
      BY <1>1 DEF DrawnRest, PanelRest, CardRest, FileLost
<1>5. SavedIsOnCard' /\ SettledRest'
      <2>1. CASE UNCHANGED saving /\ ~owed
            BY <1>1, <2>1 DEF RestInv, SavedIsOnCard, SettledRest, FileLost
      <2>2. CASE UNCHANGED saving /\ section = None
            BY <1>1, <2>2 DEF RestInv, SavedIsOnCard, SettledRest, FileLost
      <2>3. CASE SaveProgressIfMoved /\ section # None
            BY <1>1, <2>3, SavesKeepRest DEF RestInv, SettledRest
      <2> QED BY <2>1, <2>2, <2>3 DEF SaveProgressIfMoved
<1> QED BY <1>2, <1>3, <1>4, <1>5 DEF RestInv

LEMMA PowerCutRest == Resting /\ PowerCut => RestInv'
<1> SUFFICES ASSUME Resting, PowerCut PROVE RestInv'
    OBVIOUS
<1> USE DEF Resting, PowerCut, Fresh, Idle, Fault, position, queues, update, saving, painting, away
<1>1. SavedIsOnCard' /\ PageRest' /\ DrawnRest'
      BY DEF SavedIsOnCard, PageRest, DrawnRest, FileLost
<1>2. PassRest'
      BY DEF PassRest, At
<1>3. PanelRest'
      BY DEF PanelRest
<1>4. CardRest'
      BY DEF CardRest, Due, FileLost
<1>5. SettledRest'
      BY DEF SettledRest
<1> QED BY <1>1, <1>2, <1>3, <1>4, <1>5 DEF RestInv

LEMMA OpenRest == Resting /\ Open => RestInv'
<1> SUFFICES ASSUME Resting, Open PROVE RestInv'
    OBVIOUS
<1> USE DEF Resting, Open, Fresh, Idle, position, queues, update, saving, painting, away
<1>1. SavedIsOnCard' /\ PageRest' /\ DrawnRest'
      BY DEF SavedIsOnCard, PageRest, DrawnRest, FileLost
<1>2. PassRest'
      BY DEF PassRest, At
<1>3. PanelRest'
      BY DEF PanelRest
<1>4. CardRest'
      BY DEF CardRest, Due, FileLost
<1>5. SettledRest'
      BY DEF SettledRest
<1> QED BY <1>1, <1>2, <1>3, <1>4, <1>5 DEF RestInv

LEMMA InitRest == Init => RestInv
<1> SUFFICES ASSUME Init PROVE RestInv
    OBVIOUS
<1>1. SavedIsOnCard /\ PageRest /\ DrawnRest
      BY DEF Init, SavedIsOnCard, PageRest, DrawnRest, FileLost
<1>2. PassRest /\ PanelRest /\ CardRest /\ SettledRest
      BY DEF Init, Idle, PassRest, At, PanelRest, CardRest, Due, SettledRest, FileLost
<1> QED BY <1>1, <1>2 DEF RestInv

LEMMA StepRest == IInv /\ IInv' /\ RestInv /\ [Next]_vars => RestInv'
<1> SUFFICES ASSUME IInv, IInv', RestInv, [Next]_vars PROVE RestInv'
    OBVIOUS
<1>1. CASE MainStep
      BY <1>1, BeginQuietRest, RepaintRest, ExternalWaitsRest, ExternalAtEndRest,
         TakeExternalRest, ExternalDoneRest, GuardRest, QueuedTurnRest,
         ManualLosesLockRest, ManualDoneRest, PressAtEndRest, PressTurnRest,
         PressJumpRest, PressSkipRest, LeaveChapterRest, EndPassRest
         DEF Resting, MainStep, PassStep, Elsewhere
<1>2. CASE RenderStep
      BY <1>2, StartPaintRest, LoadChapterRest, LayOutRest, TurnOnRest,
         LayOutFailsRest, DropRest, ProceedRest, LoadPageRest,
         LoadPageFailsRest, ShowRest, SaveRest
         DEF Resting, RenderStep, Beside
<1>3. CASE UNCHANGED vars
      <2>1. PassRest' /\ (Due => Due') /\ (wanted \/ requested => wanted' \/ requested')
            BY <1>3 DEF RestInv, PassRest, At, Due, vars, position, queues, update, saving, painting, away
      <2>2. UNCHANGED <<spine, section, nextPage, toLast, dropped, owed, failed, saved, card, settled,
                        paint, drawn, panel, open>>
            BY <1>3 DEF vars, position, saving, painting, away
      <2> QED BY <2>1, <2>2, CalmRest
<1> QED BY <1>1, <1>2, <1>3, BackgroundTickRest, TurnIsPastRest, PersonRest,
         StayAfterDroppedExitRest, ExitRest, PowerCutRest, OpenRest
        DEF Resting, Next
-----------------------------------------------------------------------------
(* Where the turns that were asked for lead.                               *)

\* Only a queue being applied has turns of its own, taken out of the one they
\* were queued in; and a paint lays out past the end of a chapter only when it
\* began with a page that was still to be laid out.
QueueInv ==
    /\ pass.at \notin {"locked", "drain", "lost"} => pass.left = 0
    /\ At("locked") => external = 0
    /\ At("drain") \/ At("lost") => manual = 0

LayoutInv ==
    paint = "layout" /\ PageAwaitsLayout /\ section.page >= Pages[spine] => beyond

TurnInv == QueueInv /\ LayoutInv

\* A pass that goes on keeps what it carries.
LEMMA PassGoesOn ==
    ASSUME IInv
    PROVE  \A a : /\ [pass EXCEPT !.at = a].at = a
                  /\ [pass EXCEPT !.at = a].left = pass.left
                  /\ [pass EXCEPT !.at = a].changed = pass.changed
BY DEF IInv, Types, PassOK

LEMMA QueueInvStep == IInv /\ QueueInv /\ [Next]_vars => QueueInv'
<1> SUFFICES ASSUME IInv, QueueInv, [Next]_vars PROVE QueueInv'
    OBVIOUS
<1> USE PassGoesOn DEF QueueInv, At, Goto, queues
<1>1. CASE UNCHANGED <<manual, external, pass>>
      BY <1>1
<1>2. CASE pass' = Idle
      BY <1>2 DEF Idle
<1>3. CASE BeginQuiet \/ Repaint \/ ExternalWaits
      <2>1. PICK a \in {"external", "end", "press", "guard"} : pass' = [pass EXCEPT !.at = a]
            BY <1>3 DEF BeginQuiet, Reading, Repaint, ExternalWaits
      <2>2. pass.at \in {"idle", "repaint", "external"} /\ UNCHANGED <<manual, external>>
            BY <1>3 DEF BeginQuiet, Reading, Repaint, ExternalWaits
      <2> QED BY <2>1, <2>2
<1>4. CASE ExternalAtEnd \/ PressAtEnd
      <2>1. pass' = [pass EXCEPT !.at = "end"] /\ pass.at \in {"external", "press"}
            BY <1>4 DEF ExternalAtEnd, PressAtEnd, TurnAtEnd
      <2> QED BY <2>1
<1>5. CASE TakeExternal
      <2>1. pass'.at = "locked" /\ external' = 0
            BY <1>5 DEF TakeExternal, IInv, Types, PassOK
      <2> QED BY <2>1
<1>6. CASE ExternalDone \/ ManualDone
      <2>1. pass'.at \in {"guard", "repaint"} /\ pass'.left = 0
            BY <1>6 DEF ExternalDone, ManualDone, IInv, Types, PassOK
      <2> QED BY <2>1
<1>7. CASE Guard
      <2> DEFINE guard == holder # "none" \/ recent
                 due == manual # 0 /\ ~guard /\ ~PageAwaitsLayout
                 at == IF ~due THEN "repaint" ELSE IF section = None THEN "end" ELSE "drain"
                 left == IF due /\ section # None THEN manual ELSE 0
      <2>1. manual' = (IF due THEN 0 ELSE manual)
            /\ pass' = [pass EXCEPT !.guard = guard, !.at = at, !.left = left]
            BY <1>7 DEF Guard
      <2>2. pass'.at = at /\ pass'.left = left
            BY <2>1 DEF IInv, Types, PassOK
      <2> QED BY <2>1, <2>2
<1>8. CASE QueuedTurn
      <2>1. pass'.at = pass.at
            BY <1>8 DEF QueuedTurn, IInv, Types, PassOK
      <2> QED BY <1>8, <2>1 DEF QueuedTurn
<1>9. CASE ManualLosesLock
      BY <1>9 DEF ManualLosesLock, QueueTurn
<1>10. CASE PressTurn \/ PressSkip \/ LeaveChapter
      <2>1. PICK a \in {"end", "skip"} : pass' = [pass EXCEPT !.at = a]
            BY <1>10 DEF PressTurn, PressSkip, LeaveChapter
      <2>2. pass.at \in {"press", "jump", "skip"}
            BY <1>10 DEF PressTurn, PressSkip, LeaveChapter
      <2> QED BY <2>1, <2>2
<1>11. CASE PressJump
      <2>1. pass'.at = "jump" /\ pass'.left = pass.left
            BY <1>11 DEF PressJump, IInv, Types, PassOK
      <2> QED BY <1>11, <2>1 DEF PressJump
<1>12. CASE Person
      <2>1. pass.at = "idle" /\ pass'.at \in {"idle", "external"} /\ pass'.left = pass.left
            <3>1. ASSUME NEW press \in Presses, Begin(press)
                  PROVE  pass.at = "idle" /\ pass'.at = "external" /\ pass'.left = pass.left
                  BY <3>1 DEF Begin, Reading, IInv, Types, PassOK
            <3> QED BY <1>12, <3>1 DEF Person, RemoteTurn, Back, Reading
      <2> QED BY <2>1
<1>13. CASE Exit
      BY <1>13 DEF Exit
<1>14. CASE RenderStep \/ BackgroundTick \/ TurnIsPast \/ StayAfterDroppedExit \/ UNCHANGED vars
      <2>1. RenderStep => UNCHANGED <<manual, external, pass>>
            BY Zenon DEF RenderStep
      <2>2. BackgroundTick \/ TurnIsPast \/ StayAfterDroppedExit => UNCHANGED <<manual, external, pass>>
            BY Zenon DEF BackgroundTick, TurnIsPast, StayAfterDroppedExit
      <2> QED BY <1>1, <1>14, <2>1, <2>2 DEF vars
<1>15. CASE EndPass \/ PowerCut \/ Open
      BY <1>2, <1>15 DEF EndPass, PowerCut, Open, Fresh
<1> QED BY <1>3, <1>4, <1>5, <1>6, <1>7, <1>8, <1>9, <1>10, <1>11, <1>12, <1>13, <1>14, <1>15
        DEF Next, MainStep, PassStep

LEMMA LayoutInvStep == IInv /\ LayoutInv /\ [Next]_vars => LayoutInv'
<1> SUFFICES ASSUME IInv, LayoutInv, [Next]_vars PROVE LayoutInv'
    OBVIOUS
<1> USE DEF At, position, painting
<1>1. CASE paint' # "layout"
      BY <1>1 DEF LayoutInv
<1>2. CASE UNCHANGED <<spine, section, paint, beyond>>
      BY <1>2 DEF LayoutInv, PageAwaitsLayout
<1>3. ASSUME holder # "render" \/ AtEnd, UNCHANGED paint PROVE paint' # "layout"
      BY <1>3 DEF IInv, PaintInv
<1>4. CASE MainStep
      <2>1. UNCHANGED <<paint, beyond>>
            BY <1>4 DEF MainStep
      <2>2. CASE BeginQuiet \/ Repaint \/ ExternalWaits \/ TakeExternal \/ ExternalDone \/ Guard
            BY <1>2, <2>1, <2>2 DEF BeginQuiet, Repaint, ExternalWaits, TakeExternal, ExternalDone, Guard
      <2>3. CASE ManualLosesLock \/ ManualDone \/ PressJump \/ EndPass
            BY <1>2, <2>1, <2>3 DEF ManualLosesLock, ManualDone, PressJump, EndPass
      <2>4. CASE ExternalAtEnd \/ PressAtEnd
            BY <1>1, <1>3, <2>1, <2>4 DEF ExternalAtEnd, PressAtEnd
      <2>5. CASE QueuedTurn \/ LeaveChapter
            <3>1. holder # "render"
                  BY <2>5 DEF QueuedTurn, LeaveChapter, IInv, PassInv
            <3> QED BY <1>1, <1>3, <2>1, <3>1
      <2>6. CASE PressTurn
            <3>1. holder # "render" \/ UNCHANGED position
                  BY <2>6 DEF PressTurn
            <3> QED BY <1>1, <1>2, <1>3, <2>1, <3>1
      <2>7. CASE PressSkip
            <3>1. UNCHANGED spine /\ (UNCHANGED section \/ (section # None /\ section' = [section EXCEPT !.page = 0]))
                  BY <2>7 DEF PressSkip
            <3>2. CASE section # None /\ section' = [section EXCEPT !.page = 0] /\ ~AtEnd
                  <4>1. section \in Sections /\ Pages[spine] \in Nat \ {0}
                        BY <3>2, ChapterHolds
                  <4>2. section'.page = 0
                        BY <3>2, <4>1 DEF Sections
                  <4>3. ~(section'.page >= Pages[spine'])
                        BY <3>1, <4>1, <4>2
                  <4> QED BY <4>3 DEF LayoutInv
            <3> QED BY <1>1, <1>2, <1>3, <2>1, <3>1, <3>2
      <2> QED BY <1>4, <2>2, <2>3, <2>4, <2>5, <2>6, <2>7 DEF MainStep, PassStep
<1>5. CASE StartPaint
      <2>1. AtEnd \/ (UNCHANGED <<spine, section>> /\ beyond' = PageAwaitsLayout)
            BY <1>5 DEF StartPaint
      <2>2. CASE AtEnd
            BY <1>1, <1>3, <1>5, <2>2 DEF StartPaint
      <2>3. CASE UNCHANGED <<spine, section>> /\ beyond' = PageAwaitsLayout
            BY <2>3 DEF LayoutInv, PageAwaitsLayout
      <2> QED BY <2>1, <2>2, <2>3
<1>6. CASE RenderStep /\ ~StartPaint
      <2>1. LoadChapter \/ LayOut \/ Proceed \/ LoadPage \/ Show =>
              paint' = "check" \/ paint' = "load" \/ paint' = "show" \/ paint' = "save"
            BY Zenon DEF LoadChapter, LayOut, Proceed, LoadPage, Show
      <2>2. TurnOn \/ LayOutFails \/ Drop \/ LoadPageFails \/ Save => paint' # "layout"
            BY DEF TurnOn, LayOutFails, Drop, LoadPageFails, Save, EndPaint
      <2> QED BY <1>1, <1>6, <2>1, <2>2 DEF RenderStep
<1>7. CASE BackgroundTick
      <2>1. holder # "render" /\ UNCHANGED paint
            <3>1. holder = "none" /\ UNCHANGED painting
                  BY <1>7, Zenon DEF BackgroundTick
            <3> QED BY <3>1
      <2> QED BY <1>1, <1>3, <2>1
<1>8. CASE Person \/ TurnIsPast \/ StayAfterDroppedExit \/ Exit \/ UNCHANGED vars
      BY <1>2, <1>8 DEF Person, TurnIsPast, StayAfterDroppedExit, Exit, vars
<1>9. CASE PowerCut \/ Open
      BY <1>1, <1>9 DEF PowerCut, Open, Fresh
<1> QED BY <1>4, <1>5, <1>6, <1>7, <1>8, <1>9 DEF Next, RenderStep
-----------------------------------------------------------------------------
(* Counting the pages of the book.                                         *)

Below(place) == {q \in BookPages : q[1] < place[1] \/ (q[1] = place[1] /\ q[2] < place[2])}

\* The place after a page.
PageAfter(c, p) == IF p + 1 < Pages[c] THEN <<c, p + 1>> ELSE <<c + 1, 0>>

LEMMA BookIsFinite == IsFiniteSet(BookPages)
<1> DEFINE f == [c \in Chapters |-> {c} \X (0..Pages[c] - 1)]
           F == {f[c] : c \in Chapters}
<1>1. IsFiniteSet(Chapters)
      <2>1. 0 \in Int /\ Last \in Int
            BY ReaderAssumption
      <2> QED BY <2>1, FS_Interval DEF Chapters
<1>2. f \in Surjection(Chapters, F)
      BY DEF Surjection
<1>3. IsFiniteSet(F)
      BY <1>1, <1>2, FS_Surjection
<1>4. ASSUME NEW c \in Chapters PROVE IsFiniteSet(f[c])
      <2>1. 0 \in Int /\ Pages[c] - 1 \in Int
            BY ReaderAssumption
      <2>2. IsFiniteSet(0..Pages[c] - 1) /\ IsFiniteSet({c})
            BY <2>1, FS_Interval, FS_Singleton
      <2>3. IsFiniteSet({c} \X (0..Pages[c] - 1))
            BY <2>2, FS_Product
      <2> QED BY <2>3
<1>5. IsFiniteSet(UNION F)
      BY <1>3, <1>4, FS_UNION
<1>6. BookPages = UNION F
      BY DEF BookPages
<1> QED BY <1>5, <1>6

LEMMA PagesOfBook ==
    /\ \A q \in BookPages : q[1] \in Chapters /\ q[2] \in Nat /\ q[2] < Pages[q[1]] /\ q = <<q[1], q[2]>>
    /\ \A c \in Chapters, p \in Nat : p < Pages[c] => <<c, p>> \in BookPages
<1>1. \A c \in Chapters : Pages[c] \in Nat
      BY ReaderAssumption
<1>2. ASSUME NEW q \in BookPages
      PROVE  q[1] \in Chapters /\ q[2] \in Nat /\ q[2] < Pages[q[1]] /\ q = <<q[1], q[2]>>
      <2>1. PICK c \in Chapters : q \in {c} \X (0..Pages[c] - 1)
            BY DEF BookPages
      <2>2. q[1] = c /\ q[2] \in 0..Pages[c] - 1 /\ q = <<q[1], q[2]>>
            BY <2>1
      <2>3. q[2] \in Nat /\ q[2] < Pages[c]
            BY <1>1, <2>2
      <2> QED BY <2>2, <2>3
<1>3. ASSUME NEW c \in Chapters, NEW p \in Nat, p < Pages[c] PROVE <<c, p>> \in BookPages
      <2>1. p \in 0..Pages[c] - 1
            BY <1>1, <1>3
      <2> QED BY <2>1 DEF BookPages
<1> QED BY <1>2, <1>3

\* Every page counts once: the place after it has one page more before it.
LEMMA OnePageOn ==
    ASSUME NEW c \in Chapters, NEW p \in Nat, p < Pages[c]
    PROVE  Before(PageAfter(c, p)) = Before(<<c, p>>) + 1
<1>1. c \in Nat /\ Pages[c] \in Nat /\ \A d \in Chapters : d \in Nat
      BY ReaderAssumption DEF Chapters
<1>2. ASSUME NEW q \in BookPages
      PROVE  q \in Below(PageAfter(c, p)) <=> q \in Below(<<c, p>>) \/ q = <<c, p>>
      <2>1. q[1] \in Nat /\ q[2] \in Nat /\ q[2] < Pages[q[1]] /\ q = <<q[1], q[2]>>
            BY <1>1, PagesOfBook
      <2>2. q = <<c, p>> <=> q[1] = c /\ q[2] = p
            BY <2>1
      <2>3. q \in Below(<<c, p>>) <=> q[1] < c \/ (q[1] = c /\ q[2] < p)
            BY DEF Below
      <2>4. CASE p + 1 < Pages[c]
            <3>1. q \in Below(PageAfter(c, p)) <=> q[1] < c \/ (q[1] = c /\ q[2] < p + 1)
                  BY <2>4 DEF Below, PageAfter
            <3> QED BY <1>1, <2>1, <2>2, <2>3, <3>1
      <2>5. CASE ~(p + 1 < Pages[c])
            <3>1. q \in Below(PageAfter(c, p)) <=> q[1] < c + 1 \/ (q[1] = c + 1 /\ q[2] < 0)
                  BY <2>5 DEF Below, PageAfter
            <3>2. p = Pages[c] - 1
                  BY <1>1, <2>5
            <3>3. q[1] = c => q[2] < Pages[c]
                  BY <2>1
            <3> QED BY <1>1, <2>1, <2>2, <2>3, <3>1, <3>2, <3>3
      <2> QED BY <2>4, <2>5
<1>3. <<c, p>> \in BookPages /\ <<c, p>> \notin Below(<<c, p>>)
      BY <1>1, PagesOfBook DEF Below
<1>4. Below(PageAfter(c, p)) = Below(<<c, p>>) \cup {<<c, p>>}
      BY <1>2, <1>3 DEF Below
<1>5. IsFiniteSet(Below(<<c, p>>))
      <2>1. Below(<<c, p>>) \in SUBSET BookPages
            BY DEF Below
      <2> QED BY <2>1, BookIsFinite, FS_Subset
<1>6. Cardinality(Below(PageAfter(c, p))) = Cardinality(Below(<<c, p>>)) + 1
      BY <1>3, <1>4, <1>5, FS_AddElement
<1> QED BY <1>6 DEF Below, Before

LEMMA BeforeCounts == \A place : Before(place) \in Nat
<1> SUFFICES ASSUME NEW place PROVE Before(place) \in Nat
    OBVIOUS
<1>1. Below(place) \in SUBSET BookPages
      BY DEF Below
<1>2. Cardinality(Below(place)) \in Nat
      BY <1>1, BookIsFinite, FS_Subset, FS_CardinalityType
<1> QED BY <1>2 DEF Below, Before

\* The turns still to be applied lead as far as their sum says.
LEMMA AskedStays ==
    ASSUME Before(Here)' + external' + pass'.left + manual' = Before(Here) + external + pass.left + manual
    PROVE  Asked' = Asked
<1>1. Asked' = Within(Before(Here)' + external' + pass'.left + manual')
      BY Zenon DEF Asked, Within
<1> QED BY <1>1 DEF Asked

\* A step that moves neither the place nor a turn.
LEMMA NothingAsked ==
    ASSUME Here' = Here, UNCHANGED <<manual, external>>, pass'.left = pass.left
    PROVE  Asked' = Asked
<1>1. Before(Here)' = Before(Here)
      BY Zenon DEF Before
<1> QED BY <1>1, AskedStays
-----------------------------------------------------------------------------
(* Steps that keep to what was asked for.                                  *)

\* Nothing is being given up.
Following ==
    /\ IInv /\ QueueInv /\ LayoutInv
    /\ ~TurnsMayBeLost /\ ~EndFoundElsewhere /\ ~LastPageStillWaits

LEMMA FollowingHolds ==
    ASSUME Following
    PROVE  /\ ~AtEnd /\ spine \in Chapters /\ Pages[spine] \in Nat \ {0}
           /\ section # None => toLast = FALSE
           /\ section # None => section \in Sections /\ section.page <= section.laid /\ section.laid <= Pages[spine]
           /\ section # None /\ ~PageAwaitsLayout => section.page < section.laid
<1>1. ~AtEnd /\ spine \in Chapters /\ Pages[spine] \in Nat \ {0}
      BY ChapterHolds DEF Following, TurnsMayBeLost, Chapters
<1>2. section # None => toLast = FALSE
      BY DEF Following, LastPageStillWaits, IInv, Types, FlagsOK
<1>3. section # None => section \in Sections /\ section.page <= section.laid /\ section.laid <= Pages[spine]
      BY <1>1, ChapterHolds, PagesCompare DEF Following
<1>4. ASSUME section # None, ~PageAwaitsLayout PROVE section.page < section.laid
      <2>1. section.open \/ ~(section.page >= section.laid)
            BY <1>1, <1>4 DEF Following, EndFoundElsewhere
      <2>2. ~(section.page >= section.laid)
            BY <1>4, <2>1 DEF PageAwaitsLayout
      <2> QED BY <1>3, <1>4, <2>2 DEF Sections
<1> QED BY <1>1, <1>2, <1>3, <1>4

\* A turn goes one page on or back in the book.
LEMMA TurnIsOnePage ==
    ASSUME Following, ~PageAwaitsLayout, NEW dir \in {-1, 1}, Turn(dir)
    PROVE  Before(Here)' = Before(Here) + dir
<1>1. /\ section # None /\ section \in Sections /\ section.page \in Nat /\ section.laid \in Nat
      /\ section.page < section.laid /\ section.laid <= Pages[spine] /\ toLast = FALSE
      BY FollowingHolds DEF Turn, CanTurn, Sections
<1>2. ~AtEnd /\ spine \in Chapters /\ spine \in 0..Last /\ Last \in Nat /\ Pages[spine] \in Nat \ {0}
      BY FollowingHolds, ReaderAssumption DEF Chapters
<1>3. section.page < Pages[spine]
      BY <1>1, <1>2
<1>4. Here = <<spine, section.page>>
      BY <1>1, <1>2, <1>3, HereOnPage
<1>5. Before(Here)' = Before(Here')
      BY Zenon DEF Before
<1>6. Before(Here) \in Nat /\ Before(Here') \in Nat
      BY BeforeCounts
<1>7. ASSUME dir = 1 PROVE Here' = PageAfter(spine, section.page)
      <2>1. CASE section.page < section.laid - 1 \/ section.open
            <3>1. spine' = spine /\ section' = [section EXCEPT !.page = section.page + 1]
                  BY <1>7, <2>1 DEF Turn, TurnNext
            <3>2. section' # None /\ section'.page = section.page + 1
                  <4>1. section.page + 1 \in Nat
                        BY <1>1
                  <4>2. section' \in Sections /\ section'.page = section.page + 1
                        BY <1>1, <3>1, <4>1 DEF Sections
                  <4> QED BY <4>2, SectionsHold
            <3> QED BY <1>2, <3>1, <3>2 DEF Here, AtEnd, PlaceOf, PageAfter
      <2>2. CASE ~(section.page < section.laid - 1 \/ section.open)
            <3>1. ~section.open /\ ~(section.page < section.laid - 1)
                  BY <2>2
            <3>2. section.laid = Pages[spine]
                  BY <1>1, <1>2, <3>1, ChapterHolds DEF Following, IInv, TurnsStayInReach
            <3>3. ~(section.page + 1 < Pages[spine])
                  BY <1>1, <3>1, <3>2
            <3>4. PageAfter(spine, section.page) = <<spine + 1, 0>>
                  BY <3>3 DEF PageAfter
            <3>5. CASE spine < Last
                  <4>1. spine' = spine + 1 /\ section' = None /\ nextPage' = 0 /\ toLast' = FALSE
                        BY <1>1, <1>7, <2>2, <3>5 DEF Turn, TurnNext
                  <4>2. spine' \in Chapters /\ ~(spine' >= EndOfBook)
                        BY <1>2, <3>5, <4>1 DEF Chapters, EndOfBook
                  <4>3. 0 < Pages[spine']
                        BY <4>2, ReaderAssumption
                  <4> QED BY <3>4, <4>1, <4>2, <4>3 DEF Here, AtEnd, PlaceOf
            <3>6. CASE ~(spine < Last)
                  <4>1. spine = Last /\ spine' = EndOfBook /\ EndOfBook = spine + 1
                        BY <1>2, <1>7, <2>2, <3>6 DEF Turn, TurnNext, EndOfBook
                  <4>2. AtEnd'
                        BY <1>2, <4>1 DEF AtEnd
                  <4> QED BY <3>4, <4>1, <4>2 DEF Here
            <3> QED BY <3>5, <3>6
      <2> QED BY <2>1, <2>2
<1>8. ASSUME dir = -1
      PROVE  \E c \in Chapters, p \in Nat : p < Pages[c] /\ Here' = <<c, p>> /\ Here = PageAfter(c, p)
      <2>1. CASE section.page > 0
            <3>1. spine' = spine /\ section' = [section EXCEPT !.page = section.page - 1]
                  BY <1>8, <2>1 DEF Turn, TurnBack
            <3>2. section.page - 1 \in Nat /\ section.page - 1 < Pages[spine] /\ (section.page - 1) + 1 = section.page
                  BY <1>1, <1>2, <1>3, <2>1
            <3>3. section' # None /\ section'.page = section.page - 1
                  <4>1. section' \in Sections /\ section'.page = section.page - 1
                        BY <1>1, <3>1, <3>2 DEF Sections
                  <4> QED BY <4>1, SectionsHold
            <3>4. Here' = <<spine, section.page - 1>>
                  BY <1>2, <3>1, <3>2, <3>3 DEF Here, AtEnd, PlaceOf
            <3>5. PageAfter(spine, section.page - 1) = <<spine, section.page>>
                  BY <1>3, <3>2 DEF PageAfter
            <3> QED BY <1>2, <1>4, <3>2, <3>4, <3>5
      <2>2. CASE ~(section.page > 0)
            <3>1. spine > 0 /\ spine' = spine - 1 /\ section' = None /\ toLast' = TRUE
                  BY <1>8, <2>2 DEF Turn, TurnBack, CanTurn
            <3>2. section.page = 0
                  BY <1>1, <2>2
            <3>3. spine' \in Chapters /\ ~(spine' >= EndOfBook) /\ spine' + 1 = spine
                  BY <1>2, <3>1 DEF Chapters, EndOfBook
            <3>4. Pages[spine'] \in Nat \ {0}
                  BY <3>3, ReaderAssumption
            <3>5. /\ Pages[spine'] - 1 \in Nat /\ Pages[spine'] - 1 < Pages[spine']
                  /\ ~((Pages[spine'] - 1) + 1 < Pages[spine'])
                  BY <3>4
            <3>6. Here' = <<spine', Pages[spine'] - 1>>
                  BY <3>1, <3>3, <3>5 DEF Here, AtEnd, PlaceOf
            <3>7. PageAfter(spine', Pages[spine'] - 1) = <<spine, 0>>
                  BY <3>3, <3>5 DEF PageAfter
            <3> QED BY <1>4, <3>2, <3>3, <3>5, <3>6, <3>7
      <2> QED BY <2>1, <2>2
<1>9. CASE dir = 1
      <2>1. Before(PageAfter(spine, section.page)) = Before(<<spine, section.page>>) + 1
            BY <1>1, <1>2, <1>3, OnePageOn
      <2>2. Before(Here)' = Before(Here) + 1
            BY <1>4, <1>5, <1>7, <1>9, <2>1
      <2> QED BY <1>9, <2>2
<1>10. CASE dir = -1
      <2>1. Before(Here) = Before(Here') + 1
            BY <1>8, <1>10, OnePageOn
      <2>2. \A n, m \in Nat : n = m + 1 => m = n + -1
            OBVIOUS
      <2>3. Before(Here') = Before(Here) + -1
            BY <1>6, <2>1, <2>2
      <2> QED BY <1>5, <1>10, <2>3
<1> QED BY <1>9, <1>10

\* Numbers of turns can be added up.
LEMMA CountsAdd ==
    ASSUME IInv
    PROVE  external \in Int /\ pass.left \in Int /\ manual \in Int /\ Before(Here) \in Nat
BY CountsHold, BeforeCounts DEF IInv, Types, PassOK

LEMMA QueuedTurnAdds == ASSUME Following, QueuedTurn PROVE Asked' = Asked
<1> DEFINE dir == Sign(pass.left)
<1>1. dir \in {-1, 1} /\ Turn(dir) /\ UNCHANGED <<manual, external>>
      BY CountsHold DEF QueuedTurn, queues, Following, IInv, Types, PassOK
<1>2. ~PageAwaitsLayout
      BY DEF QueuedTurn, TurnIsDue, Following, IInv, PassInv
<1>3. pass'.left = pass.left - dir
      BY DEF QueuedTurn, Following, IInv, Types, PassOK
<1>4. Before(Here)' = Before(Here) + dir
      BY <1>1, <1>2, TurnIsOnePage
<1>5. external \in Int /\ pass.left \in Int /\ manual \in Int /\ Before(Here) \in Nat
      BY CountsAdd DEF Following
<1> HIDE DEF dir
<1>6. Before(Here)' + external' + pass'.left + manual' = Before(Here) + external + pass.left + manual
      <2>1. \A b \in Nat, e, l, m \in Int, d \in {-1, 1} : (b + d) + e + (l - d) + m = b + e + l + m
            OBVIOUS
      <2> QED BY <1>1, <1>3, <1>4, <1>5, <2>1
<1> QED BY <1>6, AskedStays

LEMMA TakeExternalAdds == ASSUME Following, TakeExternal PROVE Asked' = Asked
<1>1. pass.left = 0 /\ pass'.left = external /\ external' = 0 /\ manual' = manual
      BY DEF TakeExternal, Following, QueueInv, At, IInv, Types, PassOK
<1>2. Here' = Here
      BY HereStays DEF TakeExternal, position
<1>3. Before(Here)' = Before(Here)
      BY <1>2, Zenon DEF Before
<1>4. external \in Int /\ manual \in Int /\ Before(Here) \in Nat
      BY CountsAdd DEF Following
<1>5. \A b \in Nat, e, m \in Int : b + 0 + e + m = b + e + 0 + m
      OBVIOUS
<1> QED BY <1>1, <1>3, <1>4, <1>5, AskedStays

LEMMA GuardAdds == ASSUME Following, Guard PROVE Asked' = Asked
<1>1. pass.left = 0 /\ external' = external /\ section # None /\ pass \in [at : {"idle", "external", "locked",
          "guard", "drain", "lost", "repaint", "press", "jump", "skip", "end"},
          press : AnyPress, to : Chapters, guard : BOOLEAN, left : Counts, changed : BOOLEAN]
      BY DEF Guard, Following, QueueInv, At, IInv, Types, PassOK, TurnsMayBeLost
<1>2. \/ pass'.left = manual /\ manual' = 0
      \/ pass'.left = 0 /\ manual' = manual
      BY <1>1 DEF Guard
<1>3. Here' = Here
      BY HereStays DEF Guard, position
<1>4. Before(Here)' = Before(Here)
      BY <1>3, Zenon DEF Before
<1>5. external \in Int /\ manual \in Int /\ Before(Here) \in Nat
      BY CountsAdd DEF Following
<1>6. \A b \in Nat, e, m \in Int : b + e + m + 0 = b + e + 0 + m
      OBVIOUS
<1> QED BY <1>1, <1>2, <1>4, <1>5, <1>6, AskedStays

\* A queue that ends has been applied, or the rest of it is kept.
LEMMA QueueIsSpent ==
    ASSUME Following, At("locked") \/ At("drain"), ~(TurnIsDue /\ CanTurn(Sign(pass.left))),
           ~(pass.changed /\ PageAwaitsLayout), section # None \/ ~pass.changed
    PROVE  pass.left = 0
<1> SUFFICES ASSUME pass.left # 0 PROVE FALSE
    OBVIOUS
<1>1. section # None
      BY DEF Following, TurnsMayBeLost
<1>2. TurnIsDue
      BY FollowingHolds DEF TurnIsDue
<1>3. Sign(pass.left) = -1 /\ ~(section.page > 0) /\ ~(spine > 0)
      BY <1>1, <1>2 DEF CanTurn, Sign
<1>4. section.page = 0 /\ spine = 0 /\ 0 < Pages[spine] /\ ~AtEnd
      BY <1>1, <1>3, FollowingHolds, ReaderAssumption DEF Chapters, Sections
<1>5. Here = FirstPage
      BY <1>1, <1>4, HereOnPage DEF FirstPage
<1> QED BY <1>5 DEF Following, TurnsMayBeLost

LEMMA ExternalDoneAdds == ASSUME Following, ExternalDone PROVE Asked' = Asked
<1>1. external = 0 /\ pass'.left = 0 /\ manual' = manual /\ ~AtEnd
      BY FollowingHolds DEF ExternalDone, Following, QueueInv, IInv, Types, PassOK
<1>2. external' = pass.left
      <2>1. CASE pass.changed
            BY <1>1, <2>1 DEF ExternalDone
      <2>2. CASE ~pass.changed
            BY <1>1, <2>2, QueueIsSpent DEF ExternalDone
      <2> QED BY <2>1, <2>2
<1>3. Here' = Here
      BY HereStays DEF ExternalDone, position
<1>4. Before(Here)' = Before(Here)
      BY <1>3, Zenon DEF Before
<1>5. pass.left \in Int /\ manual \in Int /\ Before(Here) \in Nat
      BY CountsAdd DEF Following
<1>6. \A b \in Nat, l, m \in Int : b + l + 0 + m = b + 0 + l + m
      OBVIOUS
<1> QED BY <1>1, <1>2, <1>4, <1>5, <1>6, AskedStays

LEMMA ManualDoneAdds == ASSUME Following, ManualDone PROVE Asked' = Asked
<1>1. /\ At("drain") /\ manual = 0 /\ pass'.left = 0 /\ external' = external
      /\ ~(TurnIsDue /\ CanTurn(Sign(pass.left))) /\ manual' = StillQueued
      BY DEF ManualDone, Following, QueueInv, IInv, Types, PassOK, TurnsMayBeLost
<1>2. manual' = pass.left
      <2>1. CASE pass.changed /\ (section = None \/ PageAwaitsLayout)
            BY <1>1, <2>1 DEF StillQueued
      <2>2. CASE ~(pass.changed /\ (section = None \/ PageAwaitsLayout))
            <3>1. pass.left = 0
                  BY <1>1, <2>2, QueueIsSpent
            <3> QED BY <1>1, <2>2, <3>1 DEF StillQueued
      <2> QED BY <2>1, <2>2
<1>3. Here' = Here
      BY HereStays DEF ManualDone, position
<1>4. Before(Here)' = Before(Here)
      BY <1>3, Zenon DEF Before
<1>5. pass.left \in Int /\ external \in Int /\ Before(Here) \in Nat
      BY CountsAdd DEF Following
<1>6. \A b \in Nat, e, l \in Int : b + e + 0 + l = b + e + l + 0
      OBVIOUS
<1> QED BY <1>1, <1>2, <1>4, <1>5, <1>6, AskedStays

\* A step that moves nothing the sum is made of.
LEMMA QuietAdds ==
    ASSUME Following,
           BeginQuiet \/ Repaint \/ ExternalWaits \/ EndPass \/ TurnIsPast \/ StayAfterDroppedExit \/ UNCHANGED vars
    PROVE  Asked' = Asked
<1> USE DEF position, queues
<1>1. UNCHANGED <<position, queues>>
      BY DEF BeginQuiet, Repaint, ExternalWaits, EndPass, TurnIsPast, StayAfterDroppedExit, vars
<1>2. Here' = Here
      BY <1>1, HereStays
<1>3. pass'.left = pass.left
      <2>1. CASE BeginQuiet \/ Repaint \/ ExternalWaits
            <3>1. \E a \in {"external", "end", "press", "guard"} : pass' = [pass EXCEPT !.at = a]
                  BY <2>1 DEF BeginQuiet, Repaint, ExternalWaits, Goto
            <3> QED BY <3>1, PassGoesOn DEF Following
      <2>2. CASE EndPass
            BY <2>2 DEF EndPass, Idle, At, Following, QueueInv
      <2>3. CASE TurnIsPast \/ StayAfterDroppedExit \/ UNCHANGED vars
            BY <2>3 DEF TurnIsPast, StayAfterDroppedExit, vars
      <2> QED BY <2>1, <2>2, <2>3
<1> QED BY <1>1, <1>2, <1>3, NothingAsked

LEMMA PaintGoesOnAdds ==
    ASSUME Following, Beside, StartPaint \/ Drop \/ Proceed \/ LoadPage \/ Show \/ Save
    PROVE  Asked' = Asked
<1>1. UNCHANGED position
      BY DEF StartPaint, Drop, Proceed, LoadPage, Show, Save
<1>2. Here' = Here
      BY <1>1, HereStays DEF position
<1> QED BY <1>2, NothingAsked DEF Beside, queues

\* A chapter loaded shows the page it was loaded for, which it has.
LEMMA LoadChapterAdds == ASSUME Following, Beside, LoadChapter PROVE Asked' = Asked
<1>1. /\ section = None /\ ~AtEnd /\ spine' = spine /\ Pages[spine] \in Nat \ {0}
      /\ nextPage \in Nat /\ nextPage < Pages[spine]
      BY FollowingHolds DEF LoadChapter, Following, EndFoundElsewhere, IInv, Types, PlaceOK
<1>2. PICK n \in 0..Pages[spine], more \in BOOLEAN :
        /\ more => nextPage < n /\ ~toLast
        /\ ~more => n = Pages[spine]
        /\ section' = [page |-> IF toLast \/ nextPage >= n THEN n - 1 ELSE nextPage, laid |-> n, open |-> more]
      BY DEF LoadChapter
<1> DEFINE page == IF toLast THEN Pages[spine] - 1 ELSE nextPage
<1>3. n \in Nat /\ section'.page = page
      <2>1. n \in Nat /\ (more => ~(nextPage >= n)) /\ (~more => n = Pages[spine] /\ ~(nextPage >= n))
            BY <1>1, <1>2
      <2> QED BY <1>2, <2>1
<1>4. section' # None
      <2>1. page \in Nat
            BY <1>1
      <2>2. section' \in Sections
            BY <1>2, <1>3, <2>1, SectionsHold
      <2> QED BY <2>2, SectionsHold
<1>5. Here = PlaceOf(page)
      BY <1>1 DEF Here
<1>6. Here' = PlaceOf(page)
      BY <1>1, <1>3, <1>4 DEF Here, AtEnd, PlaceOf
<1> QED BY <1>5, <1>6, NothingAsked DEF Beside, queues

\* More of a chapter laid out leaves the page at hand, unless a turn past its end is
\* to go on.
LEMMA LayOutAdds == ASSUME Following, Beside, LayOut PROVE Asked' = Asked
<1>0. section # None /\ spine' = spine /\ paint = "layout"
      BY Zenon DEF LayOut
<1>1. /\ section # None /\ ~AtEnd /\ spine' = spine /\ Pages[spine] \in Nat \ {0} /\ section \in Sections
      /\ section.page \in Nat /\ section.laid \in Nat /\ section.page <= section.laid /\ section.laid <= Pages[spine]
      BY <1>0, FollowingHolds, SectionsHold
<1>2. section' \in Sections
      BY LayOutHolds DEF Following
<1>3. section'.page = section.page
      <2>1. CASE ~PageAwaitsLayout
            BY <1>1, <2>1, FollowingHolds DEF LayOut
      <2>2. CASE PageAwaitsLayout
            <3>1. PICK n \in section.laid..Pages[spine], more \in BOOLEAN :
                    /\ more => section.page < n
                    /\ ~more => n = Pages[spine]
                    /\ section' = IF section.page < n THEN [section EXCEPT !.laid = n, !.open = more] ELSE OnLastPage
                  BY <2>2, Zenon DEF LayOut
            <3>2. section.page < n
                  <4> SUFFICES ASSUME ~(section.page < n) PROVE FALSE
                      OBVIOUS
                  <4>1. section.page = Pages[spine]
                        BY <1>1, <3>1
                  <4>2. beyond
                        BY <1>0, <1>1, <2>2, <4>1 DEF Following, LayoutInv
                  <4> QED BY <2>2, <4>1, <4>2, Zenon DEF LayOut
            <3> QED BY <1>1, <3>1, <3>2 DEF Sections
      <2> QED BY <2>1, <2>2
<1>4. Here' = Here
      BY <1>1, <1>2, <1>3, SectionsHold, HereIgnoresLayout
<1> QED BY <1>4, NothingAsked DEF Beside, queues

\* A turn past the end of its chapter goes on to the first page of the next.
LEMMA TurnOnAdds == ASSUME Following, Beside, TurnOn PROVE Asked' = Asked
<1>1. /\ section # None /\ ~AtEnd /\ spine \in Chapters /\ spine \in 0..Last /\ Last \in Nat
      /\ Pages[spine] \in Nat \ {0} /\ toLast = FALSE /\ section.page = Pages[spine]
      BY FollowingHolds, ReaderAssumption DEF TurnOn, PageAwaitsLayout, Chapters
<1>2. Here = <<spine + 1, 0>>
      BY <1>1 DEF Here, PlaceOf
<1>3. CASE spine < Last
      <2>1. spine' = spine + 1 /\ section' = None /\ nextPage' = 0 /\ toLast' = FALSE
            BY <1>1, <1>3 DEF TurnOn
      <2>2. spine' \in Chapters /\ ~(spine' >= EndOfBook)
            BY <1>1, <1>3, <2>1 DEF Chapters, EndOfBook
      <2>3. 0 < Pages[spine']
            BY <2>2, ReaderAssumption
      <2>4. Here' = <<spine + 1, 0>>
            BY <2>1, <2>2, <2>3 DEF Here, AtEnd, PlaceOf
      <2> QED BY <1>2, <2>4, NothingAsked DEF Beside, queues
<1>4. CASE ~(spine < Last)
      <2>1. spine' = spine + 1 /\ EndOfBook = spine + 1
            BY <1>1, <1>4 DEF TurnOn, EndOfBook
      <2>2. AtEnd'
            BY <1>1, <2>1 DEF AtEnd
      <2> QED BY <1>2, <2>1, <2>2, NothingAsked DEF Beside, queues, Here
<1> QED BY <1>3, <1>4

\* A chapter given up is loaded again for the page it was at.
LEMMA ChapterGivenUp ==
    ASSUME Following, section # None, UNCHANGED <<spine, toLast>>, section' = None, nextPage' = section.page
    PROVE  Here' = Here
<1>1. ~AtEnd /\ toLast = FALSE
      BY FollowingHolds
<1> QED BY <1>1 DEF Here, AtEnd, PlaceOf

LEMMA LoadPageFailsAdds == ASSUME Following, Beside, LoadPageFails PROVE Asked' = Asked
<1>1. section # None /\ UNCHANGED <<spine, toLast>>
      BY DEF LoadPageFails, Following, IInv, PaintInv
<1>2. (section' = None /\ nextPage' = section.page) \/ UNCHANGED <<section, nextPage>>
      BY DEF LoadPageFails
<1>3. Here' = Here
      BY <1>1, <1>2, ChapterGivenUp, HereStays
<1> QED BY <1>3, NothingAsked DEF Beside, queues

LEMMA BackgroundTickAdds == ASSUME Following, BackgroundTick PROVE Asked' = Asked
<1>1. section # None /\ UNCHANGED <<spine, toLast, manual, external, pass>>
      BY Zenon DEF BackgroundTick, queues
<1>2. \/ section' = None /\ nextPage' = section.page
      \/ UNCHANGED nextPage /\ section' # None /\ section'.page = section.page
      <2>1. section \in Sections /\ Pages[spine] \in Nat
            BY <1>1, FollowingHolds
      <2>2. ASSUME NEW n \in section.laid..Pages[spine], NEW more \in BOOLEAN,
                   section' = [section EXCEPT !.laid = n, !.open = more]
            PROVE  section' # None /\ section'.page = section.page
            <3>1. section' # None
                  BY <2>1, <2>2, LaidOutHolds, Zenon
            <3>2. section'.page = section.page
                  BY <2>1, <2>2 DEF Sections
            <3> QED BY <3>1, <3>2
      <2> QED BY <2>2, Zenon DEF BackgroundTick
<1>3. Here' = Here
      BY <1>1, <1>2, ChapterGivenUp, HereIgnoresLayout
<1> QED BY <1>1, <1>3, NothingAsked

\* What the step of TurnsAddUp may do instead.
TurnsMove ==
    \/ Person \/ Open \/ PowerCut \/ Exit
    \/ At("press") \/ At("jump") \/ At("skip")
    \/ TurnsMayBeLost \/ EndFoundElsewhere \/ LastPageStillWaits
    \/ panel' = Notice

LEMMA TurnsAddUpStep == IInv /\ TurnInv /\ [Next]_vars => TurnsMove \/ Asked' = Asked
<1> SUFFICES ASSUME IInv, TurnInv, [Next]_vars, ~TurnsMove PROVE Asked' = Asked
    OBVIOUS
<1>1. Following
      BY Zenon DEF Following, TurnInv, TurnsMove
<1>2. ~Person /\ ~Open /\ ~PowerCut /\ ~Exit /\ ~At("press") /\ ~At("jump") /\ ~At("skip") /\ panel' # Notice
      BY Zenon DEF TurnsMove
<1>3. CASE MainStep
      <2>1. ~ExternalAtEnd /\ ~ManualLosesLock
            BY <1>1 DEF ExternalAtEnd, ManualLosesLock, Following, TurnsMayBeLost
      <2>2. ~PressAtEnd /\ ~PressTurn /\ ~PressJump /\ ~PressSkip /\ ~LeaveChapter
            BY <1>2 DEF PressAtEnd, PressTurn, PressJump, PressSkip, LeaveChapter
      <2>3. BeginQuiet \/ Repaint \/ ExternalWaits \/ TakeExternal \/ ExternalDone \/ Guard \/ QueuedTurn
            \/ ManualDone \/ EndPass
            BY <1>3, <2>1, <2>2, Zenon DEF MainStep, PassStep
      <2> QED BY <1>1, <2>3, QuietAdds, TakeExternalAdds, ExternalDoneAdds, GuardAdds, QueuedTurnAdds, ManualDoneAdds
<1>4. CASE RenderStep
      <2>1. ~LayOutFails
            BY <1>2 DEF LayOutFails
      <2>2. Beside
            BY <1>4, Zenon DEF RenderStep, Beside
      <2> QED BY <1>1, <1>4, <2>1, <2>2, PaintGoesOnAdds, LoadChapterAdds, LayOutAdds, TurnOnAdds, LoadPageFailsAdds, Zenon
              DEF RenderStep
<1>5. CASE BackgroundTick
      BY <1>1, <1>5, BackgroundTickAdds
<1>6. CASE TurnIsPast \/ StayAfterDroppedExit \/ UNCHANGED vars
      BY <1>1, <1>6, QuietAdds, Zenon
<1> QED BY <1>2, <1>3, <1>4, <1>5, <1>6, Zenon DEF Next

LEMMA InitTurn == Init => TurnInv
BY DEF Init, TurnInv, QueueInv, LayoutInv, Idle, At
-----------------------------------------------------------------------------
(* The theorems.                                                           *)

\* The inductive invariant holds in every reachable state.
THEOREM Inductive == Spec => []IInv
BY InitIInv, StepIInv, PTL DEF Spec

\* Every variable keeps its type: the queues stay within their limit, and no
\* place saved or shown is outside the book.
THEOREM TypeCorrect == Spec => []TypeOK
<1>1. IInv => TypeOK
      BY DEF IInv, Types, PlaceOK, PassOK, PaintOK, SavedOK, FlagsOK, LeavingOK, TypeOK, Counts, AnyPress,
             Places, Sections
<1> QED BY <1>1, Inductive, PTL

\* Queued turns never run on past the first page that is not laid out, and a
\* chapter counts as laid out only to its end (EpubReaderActivity.cpp:1489-1518,
\* ReaderActivity.h:53).
THEOREM TurnsKeepInReach == Spec => []TurnsStayInReach
<1>1. IInv => TurnsStayInReach
      BY DEF IInv
<1> QED BY <1>1, Inductive, PTL

\* However presses and paints overtake one another, a reader at rest shows the page
\* it is at; the card holds that page, or no page where a save has failed after it
\* had removed the old file, unless the save is owed or has failed; and no page shown
\* is left for Home without its progress dealt with.
RestIsShownAndNotMisplaced ==
    /\ AtRest /\ ~dropped => panel \in {Here, Notice}
    /\ AtRest /\ panel = Here /\ ~AtEnd /\ ~owed /\ ~failed => card \in {Here, None}
    /\ open = "left" /\ section # None /\ ~AtEnd /\ ~failed /\ panel # Notice => settled

\* What the invariant says of a reader at rest.
LEMMA RestHolds ==
    ASSUME IInv, RestInv
    PROVE  /\ AtRest /\ ~dropped => panel \in {Here, Notice}
           /\ AtRest /\ panel = Here /\ ~AtEnd /\ ~owed /\ ~failed => card = Here \/ FileLost
           /\ open = "left" /\ section # None /\ ~AtEnd /\ ~failed /\ panel # Notice => settled
<1>1. AtRest => ~Due /\ paint = "idle" /\ open = "reading"
      BY DEF AtRest, Reading, Due, At, RestInv, PassRest, IInv, PaintInv
<1>2. AtRest /\ ~dropped => panel \in {Here, Notice}
      BY <1>1 DEF RestInv, PanelRest
<1>3. AtRest /\ panel = Here /\ ~AtEnd /\ ~owed /\ ~failed => card = Here \/ FileLost
      BY <1>1 DEF RestInv, CardRest
<1>4. open = "left" /\ section # None /\ ~AtEnd /\ ~failed /\ panel # Notice => settled
      BY DEF RestInv, SettledRest
<1> QED BY <1>2, <1>3, <1>4

\* Whatever fails: at rest the panel shows the reader's page, and the card never holds
\* another page than that, even where a failed save has lost the file and a later one
\* takes the page to be there still (EpubReaderActivity.cpp:1201, 1518, 2869, 4412).
THEOREM RestIsNotMisplaced == Spec => []RestIsShownAndNotMisplaced
<1>1. IInv /\ RestInv => RestIsShownAndNotMisplaced
      BY RestHolds DEF RestIsShownAndNotMisplaced, FileLost
<1> QED BY <1>1, InitRest, StepRest, Inductive, PTL DEF Spec

\* When no save fails after it has removed the old file, the card holds the page.
THEOREM RestShowsAndSaves ==
    ASSUME ~RenameMayFail
    PROVE  Spec => []RestIsShownAndSaved
<1>1. IInv /\ RestInv => RestIsShownAndSaved
      BY RestHolds DEF RestIsShownAndSaved, FileLost
<1> QED BY <1>1, InitRest, StepRest, Inductive, PTL DEF Spec

\* No step but those that read a press, carry out a jump, open the book or report an
\* error changes where the reader's turns lead, for every book and however many turns
\* are queued: a queue that is applied, stopped at a page to be laid out or kept for
\* the next pass, a paint that finds the chapter shorter than a turn took it to be, one
\* that is dropped or fails to load its page, and the layout in the background keep
\* their sum (EpubReaderActivity.cpp:1489, 2720).
THEOREM TurnsAreKept == Spec => TurnsAddUp
<1>1. IInv /\ TurnInv /\ [Next]_vars => TurnInv'
      BY QueueInvStep, LayoutInvStep DEF TurnInv
<1>2. IInv /\ TurnInv /\ [Next]_vars =>
        [\/ Person \/ Open \/ PowerCut \/ Exit
         \/ At("press") \/ At("jump") \/ At("skip")
         \/ TurnsMayBeLost \/ EndFoundElsewhere \/ LastPageStillWaits
         \/ panel' = Notice
         \/ Asked' = Asked]_vars
      BY TurnsAddUpStep, Zenon DEF TurnsMove
<1> QED BY <1>1, <1>2, InitTurn, Inductive, PTL DEF Spec, TurnsAddUp
=============================================================================

---------------------------- MODULE ReadingLedger ----------------------------
(***************************************************************************)
(* The reading statistics of ReadingStatsStore.cpp over several files: the  *)
(* ledger with the totals of the days and the record of the active book,    *)
(* one file for every other book, and resets that only start a new epoch.   *)
(* The ledger is what SnapshotFile shows it to be, a document replaced in   *)
(* one step; a book's file is one with the backup it leaves behind.         *)
(*                                                                         *)
(* Reading is counted in units.  The code keeps one total for all books;    *)
(* `days` keeps the share of each book in it, so that it can be compared.   *)
(*                                                                         *)
(* "Slip" marks the definition after it as a plausible bug would have it.   *)
(***************************************************************************)
EXTENDS Naturals

CONSTANTS
    Books, NoBook,
    NoFile,          \* no such file
    MaxUnits,        \* bound: units read in a book between two resets
    MaxEpoch,        \* UINT32_MAX
    BookReadsFail    \* whether an opened book's file may fail to be read

ASSUME BooksAssumption == NoBook \notin Books
ASSUME BoundsAssumption == MaxUnits \in Nat /\ MaxEpoch \in Nat
ASSUME ReadsAssumption == BookReadsFail \in BOOLEAN

VARIABLES
    ledger,          \* what the next boot reads
    pending,         \* the reset whose journal is still on the card
    file,            \* each book's file, and its .bak
    ram,             \* the store in RAM
    readable,        \* statisticsReadable
    open, enabled,   \* the reader's book and its statsEnabled
    pc,              \* where activateBook() is
    read             \* history: units recorded since the last full reset

vars == <<ledger, pending, file, ram, readable, open, enabled, pc, read>>

Units == 0..MaxUnits
Epochs == 0..MaxEpoch
Views == [days : [Books -> Units], active : Books \cup {NoBook}, record : Units, epoch : Epochs]
Snapshots == [units : Units, epoch : Epochs]

ASSUME FileAssumption == NoFile \notin Views /\ NoFile \notin Snapshots

Empty(e) == [days |-> [b \in Books |-> 0], active |-> NoBook, record |-> 0, epoch |-> e]

TypeOK ==
    /\ ledger = NoFile \/ ledger \in Views
    /\ pending \in {"none", "habits", "all"}
    /\ file \in [Books -> [main : Snapshots \cup {NoFile}, bak : Snapshots \cup {NoFile}]]
    /\ ram \in Views /\ readable \in BOOLEAN
    /\ open \in Books \cup {NoBook} /\ enabled \in BOOLEAN
    /\ pc \in {"idle", "archive", "fetch"}
    /\ read \in [Books -> Units]

Init ==
    /\ ledger = NoFile /\ pending = "none"
    /\ file = [b \in Books |-> [main |-> NoFile, bak |-> NoFile]]
    /\ ram = Empty(0) /\ readable = TRUE
    /\ open = NoBook /\ enabled = FALSE /\ pc = "idle"
    /\ read = [b \in Books |-> 0]

-----------------------------------------------------------------------------

\* cleanupBookSnapshots(): each file and backup goes, unless its removal fails
\* or a power cut comes first.
Sweep == \E mains, baks \in SUBSET Books :
    file' = [b \in Books |->
        [main |-> IF b \in mains THEN NoFile ELSE file[b].main,
         bak  |-> IF b \in baks THEN NoFile ELSE file[b].bak]]

\* finishReset() and the clean-up after a full reset; or it fails, and the
\* journal stays for the next boot.
Finish(kind) ==
    \/ pending' = kind /\ UNCHANGED file
    \/ pending' = "none" /\ IF kind = "all" THEN Sweep ELSE UNCHANGED file

\* loadFromFile() reads the ledger.
Loaded ==
    /\ ledger # NoFile /\ ram' = ledger /\ readable' = TRUE /\ Finish(pending)

\* It finds no ledger, or cannot read the one there is.
NotLoaded ==
    /\ readable' = (ledger = NoFile) /\ UNCHANGED <<ram, pending, file>>

\* A power cut, a crash or a sleep at any point, and the boot after it.
Boot ==
    /\ open' = NoBook /\ enabled' = FALSE /\ pc' = "idle" /\ UNCHANGED <<ledger, read>>
    /\ \/ Loaded
       \/ ram' = Empty(0) /\ readable' = (ledger = NoFile) /\ UNCHANGED <<pending, file>>

-----------------------------------------------------------------------------
(* The reader: onEnter() and activateBook(), record(), onExit().            *)

\* A reader takes the screen, from another one too (the end-of-book menu); the
\* load a boot could not finish is tried again.
OpenBook(b) ==
    /\ pc = "idle" /\ open' = b /\ enabled' = FALSE /\ UNCHANGED <<ledger, read>>
    /\ \/ readable /\ pc' = "archive" /\ UNCHANGED <<ram, readable, pending, file>>
       \/ ~readable /\ Loaded /\ pc' = "archive"
       \/ ~readable /\ NotLoaded /\ pc' = "idle"

\* The book is the active one already, or none was active.
NothingToArchive ==
    /\ pc = "archive" /\ ram.active \in {open, NoBook}
    /\ enabled' = (ram.active = open)
    /\ pc' = IF ram.active = open THEN "idle" ELSE "fetch"
    /\ UNCHANGED <<ledger, pending, file, ram, readable, open, read>>

\* Slip: the active book is replaced without being archived.
ArchiveNothing ==
    /\ pc = "archive" /\ ram.active \notin {open, NoBook} /\ pc' = "fetch"
    /\ UNCHANGED <<ledger, pending, file, ram, readable, open, enabled, read>>

\* The active book's record goes to its file; when that fails, before or after
\* the file is replaced, this reader records nothing.
Archive ==
    /\ pc = "archive" /\ ram.active \notin {open, NoBook}
    /\ LET f == file[ram.active]
           now == [main |-> [units |-> ram.record, epoch |-> ram.epoch],
                   bak  |-> IF f.main = NoFile THEN f.bak ELSE f.main]
       IN  \/ file' = [file EXCEPT ![ram.active] = now] /\ pc' \in {"fetch", "idle"}
           \/ UNCHANGED file /\ pc' = "idle"
    /\ UNCHANGED <<ledger, pending, ram, readable, open, enabled, read>>

\* readSnapshot() of a book's file.
Stored(b) == IF file[b].main # NoFile THEN file[b].main ELSE file[b].bak

\* readBookFile(): nothing of an older epoch counts.
Fetched(b, e) == IF Stored(b) # NoFile /\ Stored(b).epoch = e THEN Stored(b).units ELSE 0

\* A book without a record starts a new one, and so does one whose file cannot
\* be read just now.
Fetch ==
    /\ pc = "fetch" /\ pc' = "idle" /\ enabled' = TRUE
    /\ \E units \in {Fetched(open, ram.epoch)} \cup (IF BookReadsFail THEN {0} ELSE {}) :
           ram' = [ram EXCEPT !.active = open, !.record = units]
    /\ UNCHANGED <<ledger, pending, file, readable, open, read>>

\* record(): one unit read in the reader's book.
Record ==
    /\ pc = "idle" /\ open # NoBook /\ enabled /\ read[open] < MaxUnits
    /\ ram' = [ram EXCEPT !.days[open] = @ + 1, !.record = @ + 1]
    /\ read' = [read EXCEPT ![open] = @ + 1]
    /\ UNCHANGED <<ledger, pending, file, readable, open, enabled, pc>>

CloseBook ==
    /\ pc = "idle" /\ open # NoBook /\ open' = NoBook /\ enabled' = FALSE
    /\ UNCHANGED <<ledger, pending, file, ram, readable, pc, read>>

-----------------------------------------------------------------------------

\* saveToFile(): the checkpoint every 30 s, a deferred one, or that of sleep.
Save ==
    /\ pc = "idle" /\ readable /\ pending = "none" /\ ledger' = ram
    /\ UNCHANGED <<pending, file, ram, readable, open, enabled, pc, read>>

\* Slip: a full reset stays in the epoch.
ResetToSameEpoch(kind) == IF kind = "all" THEN Empty(ram.epoch) ELSE ram

\* What a reset commits: nothing but the next epoch; or, when only the habits
\* go, everything else that is in RAM.
ResetTo(kind) == IF kind = "all" THEN Empty(ram.epoch + 1) ELSE ram

\* Slip: the last epoch is not respected.
ResetAnyEpoch(kind) ==
    /\ pc = "idle" /\ open = NoBook /\ readable /\ pending = "none"
    /\ ledger' = ResetTo(kind) /\ ram' = ResetTo(kind)
    /\ read' = IF kind = "all" THEN [b \in Books |-> 0] ELSE read
    /\ Finish(kind) /\ UNCHANGED <<readable, open, enabled, pc>>

\* resetStatistics(), from Home, where no reader is open.
Reset(kind) ==
    /\ pc = "idle" /\ open = NoBook /\ readable /\ pending = "none"
    /\ kind = "all" => ram.epoch < MaxEpoch
    /\ ledger' = ResetTo(kind) /\ ram' = ResetTo(kind)
    /\ read' = IF kind = "all" THEN [b \in Books |-> 0] ELSE read
    /\ Finish(kind) /\ UNCHANGED <<readable, open, enabled, pc>>

Next ==
    \/ Boot \/ NothingToArchive \/ Archive \/ Fetch \/ Record \/ CloseBook \/ Save
    \/ \E b \in Books : OpenBook(b)
    \/ \E kind \in {"habits", "all"} : Reset(kind)

Spec == Init /\ [][Next]_vars

-----------------------------------------------------------------------------
(* Properties.                                                              *)

\* The record of book b in a view of the store, as readBook() gives it.
Seen(view, b) == IF view.active = b THEN view.record ELSE Fetched(b, view.epoch)

\* Every unit in the totals of the days is in the record of the book it was
\* read in, for the store in RAM and for the next boot: switching books, a cut
\* on the way, a failed archive or a reset loses no book's history.
DaysAreInBooks == \A b \in Books :
    /\ readable => ram.days[b] <= Seen(ram, b)
    /\ ledger # NoFile => ledger.days[b] <= Seen(ledger, b)

\* What was read before a full reset never shows again: not from a file the
\* clean-up left, not from a backup, not while the reset is unfinished.
ResetForgets == \A b \in Books :
    /\ readable => Seen(ram, b) <= read[b]
    /\ ledger # NoFile => Seen(ledger, b) <= read[b]
=============================================================================

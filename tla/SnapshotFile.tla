---------------------------- MODULE SnapshotFile ----------------------------
(***************************************************************************)
(* The reading statistics on the card: writeSnapshot(), readSnapshot() and *)
(* the reset journal of ReadingStatsStore.cpp, over the checked replacement *)
(* of PersistableStore.cpp.  Every card operation is a step of its own (pc) *)
(* that may fail, and the power may be cut between any two of them; on      *)
(* battery every sleep is a cut and every wake a boot.                      *)
(*                                                                         *)
(* A document is its number in the order of writing.  A file that holds one *)
(* is whole: documents are staged under another name and renamed.  The main *)
(* file alone may be torn, as a card may bring it.                          *)
(*                                                                         *)
(* "Slip" marks the definition after it as a plausible bug would have it.   *)
(***************************************************************************)
EXTENDS Naturals

CONSTANTS
    Missing, Torn,   \* no such file; a file that cannot be parsed
    MaxWrites        \* bound: documents written

ASSUME FilesAssumption == Missing \notin Nat /\ Torn \notin Nat /\ Missing # Torn
ASSUME WritesAssumption == MaxWrites \in Nat \ {0}

VARIABLES
    main, bak, tmp,  \* reading-stats.json, and its .bak and .tmp
    spare,           \* .tmp.davbak, the copy the checked write of .tmp keeps
    journal,         \* reading-stats.reset
    readable,        \* statisticsReadable
    known,           \* knownReadable[MEMO_LEDGER] names the main file
    keep,            \* writeSnapshot's `readable`: the main file becomes .bak
    doc,             \* the document being written
    ram,             \* the newest document the store in RAM descends from
    pc,              \* where the main task is in a card operation
    saved            \* history: the newest document reported as written

card == <<main, bak, tmp, spare, journal>>
store == <<readable, known, ram>>
vars == <<card, store, keep, doc, pc, saved>>

Documents == 0..MaxWrites
Saving == {"retire", "aside", "place", "clean", "drop", "move", "promote"}
Resetting == {"journal", "finishBak", "finishMain", "finishRename"}

TypeOK ==
    /\ main \in Documents \cup {Missing, Torn}
    /\ {bak, tmp, spare, journal} \subseteq Documents \cup {Missing}
    /\ readable \in BOOLEAN /\ known \in BOOLEAN /\ keep \in BOOLEAN
    /\ {doc, ram, saved} \subseteq Documents
    /\ pc \in {"boot", "idle"} \cup Saving \cup Resetting

\* The first boot on a new card, on one an earlier firmware left document 1 on,
\* or on one whose main file an interrupted write of that firmware tore.
Init ==
    /\ main \in {Missing, Torn, 1} /\ bak \in {Missing, 1}
    /\ tmp = Missing /\ spare = Missing /\ journal = Missing
    /\ readable = TRUE /\ known = FALSE /\ keep = FALSE
    /\ doc = 1 /\ ram = 0 /\ pc = "boot" /\ saved = 0

Exists(file) == file # Missing

\* What a boot reads: a committed reset; the main file; with no main file the
\* staged document (or the copy kept of it), then .bak; beside a torn one .bak,
\* then the staged document.
Recovered ==
    LET staged == IF Exists(tmp) THEN tmp ELSE spare
    IN  IF Exists(journal)   THEN journal
        ELSE IF main \in Nat THEN main
        ELSE IF Exists(staged) /\ (main = Missing \/ ~Exists(bak)) THEN staged
        ELSE bak

\* The files loadFromFile() counts as statistics to protect.
LedgerExists == Exists(journal) \/ Exists(main) \/ Exists(bak)

-----------------------------------------------------------------------------
(* loadFromFile(), at boot and again from activateBook() when it failed.    *)

MayLoad == pc = "boot" \/ (pc = "idle" /\ ~readable)

\* Reading .tmp through its kept copy puts that copy in its place.
StagedRead ==
    \/ UNCHANGED <<tmp, spare>>
    \/ ~Exists(journal) /\ main \notin Nat /\ ~Exists(tmp) /\ tmp' = spare /\ spare' = Missing

\* A committed reset is finished after its document is loaded.
Load ==
    /\ MayLoad /\ Exists(Recovered)
    /\ readable' = TRUE /\ ram' = Recovered
    /\ known' = (main \in Nat /\ ~Exists(journal))
    /\ pc' = IF Exists(journal) THEN "finishBak" ELSE "idle"
    /\ StagedRead
    /\ UNCHANGED <<main, bak, journal, keep, doc, saved>>

\* Slip: an unreadable ledger counts as an empty one.
LoadFailsOpen ==
    /\ MayLoad /\ readable' = TRUE /\ known' = FALSE /\ pc' = "idle"
    /\ UNCHANGED <<card, keep, doc, ram, saved>>

\* Nothing to read, or a read error or a lack of memory on the way: the store
\* stays closed while there is a ledger to protect.
LoadFails ==
    /\ MayLoad /\ readable' = ~LedgerExists /\ known' = FALSE /\ pc' = "idle"
    /\ UNCHANGED <<card, keep, doc, ram, saved>>

-----------------------------------------------------------------------------
(* saveToFile() and writeSnapshot().                                        *)

NextDocument == doc < MaxWrites /\ doc' = doc + 1

\* A main file not known to be whole is read first; when that read fails, the
\* save is refused and nothing changes but the memo.
Save ==
    /\ pc = "idle" /\ readable /\ ~Exists(journal) /\ NextDocument
    /\ keep' = (known \/ main \in Nat) /\ known' = FALSE /\ pc' = "retire"
    /\ UNCHANGED <<card, readable, ram, saved>>

\* Slip: the kept copy is removed unread.
RetireUnread ==
    /\ pc = "retire" /\ pc' = "aside" /\ spare' = Missing
    /\ UNCHANGED <<main, bak, tmp, journal, store, keep, doc, saved>>

\* writeDocToFile(.tmp): recoverFile() puts the kept copy back when .tmp is
\* gone; otherwise the copy is retired, .tmp having been read.
Retire ==
    /\ pc = "retire" /\ pc' = "aside"
    /\ tmp' = IF Exists(tmp) THEN tmp ELSE spare
    /\ spare' = Missing
    /\ UNCHANGED <<main, bak, journal, store, keep, doc, saved>>

\* External: Storage.writeFile() stages the document, sets an older .tmp aside,
\* renames the staged file and removes what it set aside, if it can.
Aside ==
    /\ pc = "aside" /\ pc' = "place" /\ spare' = tmp /\ tmp' = Missing
    /\ UNCHANGED <<main, bak, journal, store, keep, doc, saved>>

Place ==
    /\ pc = "place" /\ pc' = "clean" /\ tmp' = doc
    /\ UNCHANGED <<main, bak, spare, journal, store, keep, doc, saved>>

PlaceFails ==
    /\ pc = "place" /\ pc' = "idle" /\ tmp' = spare /\ spare' = Missing
    /\ UNCHANGED <<main, bak, journal, store, keep, doc, saved>>

Clean ==
    /\ pc = "clean" /\ pc' = "drop" /\ spare' \in {spare, Missing}
    /\ UNCHANGED <<main, bak, tmp, journal, store, keep, doc, saved>>

\* Slip: a torn main file becomes .bak too.
DropBakAlways ==
    /\ pc = "drop" /\ pc' = "move" /\ bak' = Missing
    /\ UNCHANGED <<main, tmp, spare, journal, store, keep, doc, saved>>

\* The old main file makes room: a whole one becomes .bak, after the .bak
\* before it is removed; a torn one is removed and .bak stays.
DropBak ==
    /\ pc = "drop" /\ keep /\ pc' = "move" /\ bak' = Missing
    /\ UNCHANGED <<main, tmp, spare, journal, store, keep, doc, saved>>

MoveMain ==
    /\ pc = "move" /\ pc' = "promote" /\ bak' = main /\ main' = Missing
    /\ UNCHANGED <<tmp, spare, journal, store, keep, doc, saved>>

DropMain ==
    /\ pc = "drop" /\ ~keep /\ pc' = "promote" /\ main' = Missing
    /\ UNCHANGED <<bak, tmp, spare, journal, store, keep, doc, saved>>

\* The save is reported as done.
Promote ==
    /\ pc = "promote" /\ pc' = "idle" /\ main' = tmp /\ tmp' = Missing
    /\ known' = TRUE /\ ram' = doc /\ saved' = doc
    /\ UNCHANGED <<bak, spare, journal, readable, keep, doc>>

-----------------------------------------------------------------------------
(* resetStatistics() and finishReset().                                     *)

Reset ==
    /\ pc = "idle" /\ readable /\ ~Exists(journal) /\ NextDocument /\ pc' = "journal"
    /\ UNCHANGED <<card, store, keep, saved>>

\* The rename that commits the reset; the store in RAM takes its document.
CommitReset ==
    /\ pc = "journal" /\ pc' = "finishBak" /\ journal' = doc
    /\ ram' = doc /\ saved' = doc
    /\ UNCHANGED <<main, bak, tmp, spare, readable, known, keep, doc>>

\* finishReset(): .bak and the main file go, the journal takes its place.
FinishBak ==
    /\ pc = "finishBak" /\ pc' = "finishMain" /\ bak' = Missing /\ known' = FALSE
    /\ UNCHANGED <<main, tmp, spare, journal, readable, ram, keep, doc, saved>>

FinishMain ==
    /\ pc = "finishMain" /\ pc' = "finishRename" /\ main' = Missing
    /\ UNCHANGED <<bak, tmp, spare, journal, store, keep, doc, saved>>

FinishRename ==
    /\ pc = "finishRename" /\ pc' = "idle" /\ main' = journal /\ journal' = Missing
    /\ UNCHANGED <<bak, tmp, spare, store, keep, doc, saved>>

-----------------------------------------------------------------------------

\* A card operation fails: the call returns.
CardFails ==
    /\ pc \in Saving \cup Resetting /\ pc' = "idle" /\ known' = (known /\ pc = "journal")
    /\ UNCHANGED <<card, readable, keep, doc, ram, saved>>

\* The power goes, or the device sleeps: the next thing is a boot.
PowerCut ==
    /\ pc # "boot" /\ pc' = "boot"
    /\ readable' = TRUE /\ known' = FALSE /\ ram' = 0
    /\ UNCHANGED <<card, keep, doc, saved>>

Next ==
    \/ Load \/ LoadFails \/ PowerCut \/ CardFails
    \/ Save \/ Retire \/ Aside \/ Place \/ PlaceFails \/ Clean
    \/ DropBak \/ MoveMain \/ DropMain \/ Promote
    \/ Reset \/ CommitReset \/ FinishBak \/ FinishMain \/ FinishRename

Spec == Init /\ [][Next]_vars

-----------------------------------------------------------------------------
(* Properties.                                                              *)

\* What saveToFile() or a reset reported as written is what the next boot
\* reads, or something newer: neither a cut, nor a failed card operation, nor a
\* stale .tmp or .bak beside it brings older statistics back.
SavedIsKept == saved > 0 => Recovered \in Nat /\ Recovered >= saved

\* A store that may write descends from everything reported as written: a
\* ledger that could not be read is never replaced by an empty one.
NothingForgotten == readable /\ pc # "boot" => ram >= saved

\* Neither the files nor a store that may write over them lose what was
\* reported as written.
WrittenIsKept == SavedIsKept /\ NothingForgotten

Snapshot == INSTANCE AtomicSnapshot WITH stored <- Recovered, asked <- doc

\* Whatever files a save or a reset moves, in whatever order they are cut
\* short, the document a boot reads changes only to the one being written.
ImplementsAtomicSnapshot == Snapshot!Spec
=============================================================================

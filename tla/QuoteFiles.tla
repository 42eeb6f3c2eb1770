----------------------------- MODULE QuoteFiles -----------------------------
(***************************************************************************)
(* The kept quotes on the card: save(), replace(), remove() and            *)
(* migrateNames() of QuoteStore.cpp, over the checked write of             *)
(* PersistableStore.cpp.  A quote is a file of its own; it is written      *)
(* whole under "<name>.tmp" and then takes its name, the old record having *)
(* been removed, for a rename does not replace.  Each card operation is a  *)
(* step (pc) that may fail, and the power may be cut between two.          *)
(*                                                                         *)
(* A name is a number, rising with the slot in one book and minute; 0 is    *)
(* the name an earlier firmware gave.  A record is the number of its        *)
(* writing.  The mark of the quote kept last (markLatest) only chooses what *)
(* Home shows and is left out.                                              *)
(*                                                                         *)
(* "Slip" marks the definition after it as a plausible bug would have it.   *)
(***************************************************************************)
EXTENDS Naturals

CONSTANTS
    Missing, Torn,  \* no such file; a file that does not read back
    MaxName,        \* bound: slots of the book and minute
    MaxWrites       \* bound: records written

ASSUME FilesAssumption == Missing \notin Nat /\ Torn \notin Nat /\ Missing # Torn
ASSUME BoundsAssumption == MaxName \in Nat \ {0} /\ MaxWrites \in Nat \ {0, 1}

VARIABLES
    file,    \* the record under each name
    staged,  \* "<name>.tmp"
    spare,   \* "<name>.tmp.davbak", the older .tmp that a checked write set aside
    marker,  \* .ten-v2 is written: the old names are gone
    pc,      \* where the main task is
    todo,    \* repairStaged: the staged names it found and has not dealt with
    name, doc, new,  \* the name and record being written; save(), not replace()
    shelf,   \* history: what each name holds for the person who kept quotes
    failed   \* history: a card operation has failed, or a file could not be read

vars == <<file, staged, spare, marker, pc, todo, name, doc, new, shelf, failed>>
call == <<name, doc, new>>

Names == 0..MaxName
Records == 1..MaxWrites
Staging == {"retire", "aside", "place", "clean"}
Writing == Staging \cup {"remove", "rename"}

TypeOK ==
    /\ file \in [Names -> Records \cup {Missing}]
    /\ {staged, spare} \subseteq [Names -> Records \cup {Missing, Torn}]
    /\ marker \in BOOLEAN /\ new \in BOOLEAN /\ failed \in BOOLEAN
    /\ pc \in {"boot", "repair", "promote", "idle"} \cup Writing
    /\ todo \subseteq Names /\ name \in Names /\ doc \in Records
    /\ shelf \in [Names -> Records \cup {Missing}]

\* A card of an earlier firmware: a quote under an old name, another under a
\* new one, perhaps a staged file that was cut while it was written.
Init ==
    /\ \E kept \in SUBSET {0, 1} :
         file = [n \in Names |-> IF n \in kept THEN n + 1 ELSE Missing]
    /\ staged \in [Names -> {Missing, Torn}]
    /\ spare = [n \in Names |-> Missing]
    /\ marker = FALSE /\ pc = "boot" /\ todo = {}
    /\ name = 0 /\ doc = 2 /\ new = FALSE
    /\ shelf = file /\ failed = FALSE

\* What a name holds once the staged files are repaired: no walk looks at what
\* was set aside.
Repaired(n) == IF staged[n] \in Records THEN staged[n] ELSE file[n]

Listed(n) == file[n] # Missing

\* freeId(): the slot after the highest one listed.
IsFree(n) ==
    /\ n \in Names \ {0} /\ \A m \in Names : Listed(m) => m < n
    /\ n = 1 \/ Listed(n - 1)

\* A call that ends early leaves one record or the other: either is right.
Settle == shelf' = [shelf EXCEPT ![name] = Repaired(name)]

-----------------------------------------------------------------------------
(* migrateNames(): at every boot and every visit of the Quotes screens.     *)

Walk ==
    /\ pc \in {"boot", "idle"} /\ pc' = "repair"
    /\ todo' = {n \in Names : staged[n] # Missing}
    /\ UNCHANGED <<file, staged, spare, marker, call, shelf, failed>>

\* A staged file that could not be read this time, or not be removed.
LeaveStaged(n) ==
    /\ pc = "repair" /\ n \in todo /\ todo' = todo \ {n} /\ failed' = TRUE
    /\ UNCHANGED <<file, staged, spare, marker, pc, call, shelf>>

DropTorn(n) ==
    /\ pc = "repair" /\ n \in todo /\ staged[n] = Torn
    /\ staged' = [staged EXCEPT ![n] = Missing] /\ todo' = todo \ {n}
    /\ UNCHANGED <<file, spare, marker, pc, call, shelf, failed>>

\* Slip: a staged file beside its old record is taken for a leftover.
PromoteUnlessListed(n) ==
    /\ pc = "repair" /\ n \in todo /\ staged[n] \in Records
    /\ IF Listed(n) THEN staged' = [staged EXCEPT ![n] = Missing] /\ pc' = pc
                    ELSE UNCHANGED staged /\ pc' = "promote"
    /\ name' = n /\ todo' = todo \ {n}
    /\ UNCHANGED <<file, spare, marker, doc, new, shelf, failed>>

\* A whole one is promoted: the old record goes first.
Promote(n) ==
    /\ pc = "repair" /\ n \in todo /\ staged[n] \in Records
    /\ file' = [file EXCEPT ![n] = Missing] /\ name' = n
    /\ todo' = todo \ {n} /\ pc' = "promote"
    /\ UNCHANGED <<staged, spare, marker, doc, new, shelf, failed>>

PromoteRename ==
    /\ pc = "promote" /\ pc' = "repair"
    /\ file' = [file EXCEPT ![name] = staged[name]]
    /\ staged' = [staged EXCEPT ![name] = Missing]
    /\ UNCHANGED <<spare, marker, todo, call, shelf, failed>>

PromoteFails ==
    /\ pc = "promote" /\ pc' = "repair" /\ failed' = TRUE
    /\ UNCHANGED <<file, staged, spare, marker, todo, call, shelf>>

\* The old name moves to a free one.
MigrateName ==
    /\ pc = "repair" /\ todo = {} /\ ~marker /\ Listed(0)
    /\ \E n \in Names :
         /\ IsFree(n)
         /\ file' = [file EXCEPT ![0] = Missing, ![n] = file[0]]
         /\ shelf' = [shelf EXCEPT ![0] = Missing, ![n] = file[0]]
    /\ UNCHANGED <<staged, spare, marker, pc, todo, call, failed>>

MigrationDone ==
    /\ pc = "repair" /\ todo = {} /\ pc' = "idle"
    /\ marker' \in {marker, marker \/ ~Listed(0)}
    /\ UNCHANGED <<file, staged, spare, todo, call, shelf, failed>>

-----------------------------------------------------------------------------
(* save(), replace() and remove().                                          *)

NextRecord == doc < MaxWrites /\ doc' = doc + 1

\* The words of a quote already kept change nothing, or go to Replace.
Save ==
    /\ pc = "idle" /\ pc' = "retire" /\ NextRecord /\ new' = TRUE
    /\ name' \in Names /\ IsFree(name')
    /\ UNCHANGED <<file, staged, spare, marker, todo, shelf, failed>>

Replace(n) ==
    /\ pc = "idle" /\ Listed(n) /\ pc' = "retire" /\ NextRecord
    /\ new' = FALSE /\ name' = n
    /\ UNCHANGED <<file, staged, spare, marker, todo, shelf, failed>>

\* Slip: the old record is removed before the new one is on the card.
RetireOld ==
    /\ pc = "retire" /\ pc' = "aside"
    /\ file' = IF new THEN file ELSE [file EXCEPT ![name] = Missing]
    /\ UNCHANGED <<staged, spare, marker, todo, call, shelf, failed>>

\* writeRecord(), a checked write of .tmp: recoverFile() puts back what an earlier
\* one set aside, if .tmp is gone, or else that copy goes, .tmp having been read.
Retire ==
    /\ pc = "retire" /\ pc' = "aside"
    /\ staged' = [staged EXCEPT ![name] = IF @ = Missing THEN spare[name] ELSE @]
    /\ spare' = [spare EXCEPT ![name] = Missing]
    /\ UNCHANGED <<file, marker, todo, call, shelf, failed>>

\* External: Storage.writeFile() sets an older .tmp aside, puts the new one in its
\* place and removes what it set aside.
Aside ==
    /\ pc = "aside" /\ pc' = "place"
    /\ spare' = [spare EXCEPT ![name] = staged[name]]
    /\ staged' = [staged EXCEPT ![name] = Missing]
    /\ UNCHANGED <<file, marker, todo, call, shelf, failed>>

Place ==
    /\ pc = "place" /\ pc' = "clean" /\ staged' = [staged EXCEPT ![name] = doc]
    /\ UNCHANGED <<file, spare, marker, todo, call, shelf, failed>>

\* It could not be placed, and the older one takes its place again.
PlaceFails ==
    /\ pc = "place" /\ pc' = "idle" /\ failed' = TRUE
    /\ staged' = [staged EXCEPT ![name] = spare[name]]
    /\ spare' = [spare EXCEPT ![name] = Missing]
    /\ UNCHANGED <<file, marker, todo, call>>
    /\ shelf' = [shelf EXCEPT ![name] = Repaired(name)']

\* A copy that cannot be removed does not fail the write.
Clean ==
    /\ pc = "clean" /\ pc' = IF new THEN "rename" ELSE "remove"
    /\ \/ spare' = [spare EXCEPT ![name] = Missing] /\ UNCHANGED failed
       \/ spare[name] # Missing /\ failed' = TRUE /\ UNCHANGED spare
    /\ UNCHANGED <<file, staged, marker, todo, call, shelf>>

RemoveOld ==
    /\ pc = "remove" /\ pc' = "rename" /\ file' = [file EXCEPT ![name] = Missing]
    /\ UNCHANGED <<staged, spare, marker, todo, call, shelf, failed>>

\* The call reports the quote as written.
Rename ==
    /\ pc = "rename" /\ pc' = "idle"
    /\ file' = [file EXCEPT ![name] = doc] /\ staged' = [staged EXCEPT ![name] = Missing]
    /\ shelf' = [shelf EXCEPT ![name] = doc]
    /\ UNCHANGED <<spare, marker, todo, call, failed>>

\* The call reports a failure and leaves what it has done.
WriteFails ==
    /\ pc \in Writing \ {"clean"} /\ pc' = "idle" /\ failed' = TRUE /\ Settle
    /\ UNCHANGED <<file, staged, spare, marker, todo, call>>

Remove(n) ==
    /\ pc = "idle" /\ Listed(n)
    /\ file' = [file EXCEPT ![n] = Missing] /\ shelf' = [shelf EXCEPT ![n] = Missing]
    /\ UNCHANGED <<staged, spare, marker, pc, todo, call, failed>>

\* The power goes, or the device sleeps: the next thing is a boot.
PowerCut ==
    /\ pc # "boot" /\ pc' = "boot" /\ todo' = {}
    /\ IF pc \in Writing THEN Settle ELSE UNCHANGED shelf
    /\ UNCHANGED <<file, staged, spare, marker, call, failed>>

Next ==
    \/ Walk \/ PromoteRename \/ PromoteFails \/ MigrateName \/ MigrationDone
    \/ \E n \in Names : LeaveStaged(n) \/ DropTorn(n) \/ Promote(n) \/ Replace(n) \/ Remove(n)
    \/ Save \/ Retire \/ Aside \/ Place \/ PlaceFails \/ Clean \/ RemoveOld \/ Rename \/ WriteFails \/ PowerCut

Spec == Init /\ [][Next]_vars

-----------------------------------------------------------------------------
(* Properties.                                                              *)

\* The record a name may hold beside the one on the shelf: the one being written.
InFlight(n) == IF pc \in Writing /\ n = name THEN {doc} ELSE {}

\* While nothing but the power fails, each name holds what was last reported
\* of it, or what is being written over it, whatever step a cut came after, and
\* a new quote never takes a kept one's name: no kept quote is lost, no edit
\* comes undone, no deleted quote comes back.
CutKeepsTheShelf ==
    ~failed =>
      /\ \A n \in Names : Repaired(n) \in {shelf[n]} \cup InFlight(n)
      /\ pc \in Writing /\ new => shelf[name] = Missing

\* Whatever card operation fails in whatever step, a name that holds a quote
\* holds one until that quote is deleted or an old name moves: removing the old
\* record before the rename never leaves a moment without either.  But a new
\* quote may be given the name of one that is only staged (SaveSparesStaged), and
\* sets it aside, still whole, where no walk finds it again.
NoNameEmptied ==
    [][\A n \in Names :
         Repaired(n) # Missing /\ Repaired(n)' = Missing =>
             \/ pc = "idle" /\ shelf'[n] = Missing
             \/ n = 0 /\ MigrateName
             \/ pc = "aside" /\ new /\ n = name /\ spare'[n] = Repaired(n)]_vars

\* QuoteStore.cpp:166-173 promises that a whole staged file is a finished write
\* that only missed its swap: it is promoted, or left for the next visit.  So no
\* save may write its own quote over it.
SaveSparesStaged == pc = "retire" /\ new => staged[name] \notin Records
=============================================================================

------------------------ MODULE ReadingLedgerProofs ------------------------
(* For every set of books and all bounds: a full reset forgets what was     *)
(* read before it; and while no opened book's file fails to be read, every  *)
(* unit in the totals of the days is in the record of its book.             *)
EXTENDS ReadingLedger, TLAPS

\* The epoch of the statistics on the card.
Current == IF ledger = NoFile THEN 0 ELSE ledger.epoch

(* The store in RAM descends from the ledger and is at most ahead of it. *)
Ahead ==
    /\ readable => ram.epoch = Current
    /\ readable /\ ledger # NoFile => \A b \in Books : ledger.days[b] <= ram.days[b]
    /\ ~readable => ledger # NoFile

(* No total holds more of a book than was read in it. *)
Counted == \A b \in Books :
    /\ readable => ram.days[b] <= read[b]
    /\ ledger # NoFile => ledger.days[b] <= read[b]

Stamp(s, b) == s # NoFile => s.epoch <= Current /\ (s.epoch = Current => s.units <= read[b])

(* No file is of a later epoch, and one of this epoch holds only what was    *)
(* read in it.                                                              *)
Stamped == \A b \in Books : Stamp(file[b].main, b) /\ Stamp(file[b].bak, b)

(* Where activateBook() is, and what it has archived when it fetches. *)
Activating ==
    /\ pc # "idle" => readable /\ open \in Books /\ ~enabled
    /\ enabled => readable /\ open \in Books /\ ram.active = open
    /\ pc = "fetch" => ram.active # open

(* A full reset that is not finished has an empty ledger. *)
Emptied == pending = "all" => ledger # NoFile /\ \A b \in Books : ledger.days[b] = 0

IInv ==
    /\ TypeOK
    /\ Ahead
    /\ Counted
    /\ Stamped
    /\ Activating
    /\ Emptied
    /\ ResetForgets

(* What activateBook() archived is what a later read of that file gives. *)
Archived == pc = "fetch" /\ ram.active # NoBook => Fetched(ram.active, ram.epoch) = ram.record

-----------------------------------------------------------------------------

(* What a read of a book's file gives is a number of units. *)
LEMMA FetchedType ==
    ASSUME TypeOK, NEW b \in Books, NEW e
    PROVE  Fetched(b, e) \in Units
BY BoundsAssumption DEF TypeOK, Fetched, Stored, Snapshots, Units

(* It gives nothing that was read before the epoch of the ledger. *)
LEMMA FetchedIsRead ==
    ASSUME TypeOK, Stamped, NEW b \in Books
    PROVE  Fetched(b, Current) <= read[b]
BY DEF TypeOK, Fetched, Stored, Stamped, Stamp, Snapshots, Units

(* A view without reading is a view. *)
LEMMA EmptyType == \A e \in Epochs : Empty(e) \in Views
BY BoundsAssumption DEF Views, Empty, Units, Epochs

(* Removing files leaves typed and stamped files. *)
LEMMA SweepKeeps ==
    ASSUME TypeOK, Sweep
    PROVE  /\ file' \in [Books -> [main : Snapshots \cup {NoFile}, bak : Snapshots \cup {NoFile}]]
           /\ \A b \in Books : /\ file'[b].main \in {file[b].main, NoFile}
                               /\ file'[b].bak \in {file[b].bak, NoFile}
<1>1. PICK mains \in SUBSET Books, baks \in SUBSET Books :
        file' = [b \in Books |->
            [main |-> IF b \in mains THEN NoFile ELSE file[b].main,
             bak  |-> IF b \in baks THEN NoFile ELSE file[b].bak]]
  BY DEF Sweep
<1>. QED BY <1>1 DEF TypeOK

(* So does finishing a reset, or failing to. *)
LEMMA FinishKeeps ==
    ASSUME TypeOK, NEW kind \in {"none", "habits", "all"}, Finish(kind)
    PROVE  /\ pending' \in {"none", kind}
           /\ file' \in [Books -> [main : Snapshots \cup {NoFile}, bak : Snapshots \cup {NoFile}]]
           /\ \A b \in Books : /\ file'[b].main \in {file[b].main, NoFile}
                               /\ file'[b].bak \in {file[b].bak, NoFile}
           /\ kind # "all" => file' = file
<1>1. CASE UNCHANGED file
  BY <1>1 DEF Finish, TypeOK
<1>2. CASE kind = "all" /\ Sweep
  BY <1>2, SweepKeeps DEF Finish
<1>. QED BY <1>1, <1>2 DEF Finish

-----------------------------------------------------------------------------

(* What a reset commits is a view; a full one starts the next epoch. *)
LEMMA ResetToType ==
    ASSUME TypeOK, NEW kind \in {"habits", "all"}, Reset(kind)
    PROVE  ResetTo(kind) \in Views
<1>1. CASE kind = "all"
  <2>1. ram.epoch \in Epochs /\ ram.epoch < MaxEpoch
    BY <1>1 DEF Reset, TypeOK, Views
  <2>2. ram.epoch + 1 \in Epochs
    BY <2>1, BoundsAssumption DEF Epochs
  <2>. QED BY <1>1, <2>2, EmptyType DEF ResetTo
<1>2. CASE kind # "all"
  BY <1>2 DEF ResetTo, TypeOK
<1>. QED BY <1>1, <1>2

(* Every step keeps the types: a record stays within what was read. *)
LEMMA StepTypeOK ==
    ASSUME IInv, [Next]_vars
    PROVE  TypeOK'
<1>. USE DEF IInv
<1>1. CASE Boot
  <2>1. CASE Loaded
    <3>1. pending \in {"none", "habits", "all"} /\ Finish(pending)
      BY <2>1 DEF Loaded, TypeOK
    <3>. QED BY <1>1, <2>1, <3>1, FinishKeeps DEF Boot, Loaded, TypeOK
  <2>2. CASE ram' = Empty(0) /\ readable' = (ledger = NoFile) /\ UNCHANGED <<pending, file>>
    <3>1. ram' \in Views
      BY <2>2, EmptyType, BoundsAssumption DEF Epochs
    <3>2. readable' \in BOOLEAN
      BY <2>2
    <3>. QED BY <1>1, <2>2, <3>1, <3>2 DEF Boot, TypeOK
  <2>. QED BY <1>1, <2>1, <2>2 DEF Boot
<1>2. CASE NothingToArchive
  BY <1>2 DEF NothingToArchive, TypeOK
<1>3. CASE Archive
  BY <1>3 DEF Archive, TypeOK, Views, Snapshots, Activating
<1>4. CASE Fetch
  <2>1. PICK units \in {Fetched(open, ram.epoch)} \cup (IF BookReadsFail THEN {0} ELSE {}) :
          ram' = [ram EXCEPT !.active = open, !.record = units]
    BY <1>4 DEF Fetch
  <2>2. units \in Units /\ open \in Books
    BY <1>4, <2>1, FetchedType, BoundsAssumption DEF Fetch, Activating, Units
  <2>3. ram' \in Views
    BY <2>1, <2>2 DEF TypeOK, Views
  <2>. QED BY <1>4, <2>3 DEF Fetch, TypeOK
<1>5. CASE Record
  <2>1. open \in Books /\ ram.active = open /\ readable
    BY <1>5 DEF Record, Activating
  <2>2. read[open] \in Nat /\ read[open] < MaxUnits
    BY <1>5, <2>1 DEF Record, TypeOK, Units
  <2>3. ram.days[open] <= read[open] /\ ram.record <= read[open]
    BY <2>1 DEF Counted, ResetForgets, Seen
  <2>4. ram.days[open] \in Nat /\ ram.record \in Nat
    BY <2>1 DEF TypeOK, Views, Units
  <2>5. ram.days[open] + 1 \in Units /\ ram.record + 1 \in Units /\ read[open] + 1 \in Units
    BY <2>2, <2>3, <2>4, BoundsAssumption DEF Units
  <2>6. ram' \in Views
    BY <1>5, <2>1, <2>5 DEF Record, TypeOK, Views
  <2>. QED BY <1>5, <2>5, <2>6 DEF Record, TypeOK
<1>6. CASE CloseBook
  BY <1>6 DEF CloseBook, TypeOK
<1>7. CASE Save
  BY <1>7 DEF Save, TypeOK
<1>8. ASSUME NEW b \in Books, OpenBook(b)
      PROVE  TypeOK'
  <2>1. CASE UNCHANGED <<ram, readable, pending, file>>
    BY <1>8, <2>1 DEF OpenBook, TypeOK
  <2>2. CASE Loaded
    <3>1. pending \in {"none", "habits", "all"} /\ Finish(pending)
      BY <2>2 DEF Loaded, TypeOK
    <3>. QED BY <1>8, <2>2, <3>1, FinishKeeps DEF OpenBook, Loaded, TypeOK
  <2>3. CASE NotLoaded
    <3>1. readable' \in BOOLEAN
      BY <2>3 DEF NotLoaded
    <3>. QED BY <1>8, <2>3, <3>1 DEF OpenBook, NotLoaded, TypeOK
  <2>. QED BY <1>8, <2>1, <2>2, <2>3 DEF OpenBook
<1>9. ASSUME NEW kind \in {"habits", "all"}, Reset(kind)
      PROVE  TypeOK'
  <2>1. ResetTo(kind) \in Views
    BY <1>9, ResetToType
  <2>2. read' \in [Books -> Units]
    BY <1>9, BoundsAssumption DEF Reset, TypeOK, Units
  <2>. QED BY <1>9, <2>1, <2>2, FinishKeeps DEF Reset, TypeOK
<1>10. CASE UNCHANGED vars
  BY <1>10 DEF vars, TypeOK
<1>. QED BY <1>1, <1>2, <1>3, <1>4, <1>5, <1>6, <1>7, <1>8, <1>9, <1>10 DEF Next

(* Only a record, a load or a reset changes the totals in RAM. *)
LEMMA StepAhead ==
    ASSUME IInv, [Next]_vars
    PROVE  Ahead'
<1>. USE DEF IInv
<1>1. CASE Boot
  <2>1. CASE Loaded
    BY <1>1, <2>1 DEF Boot, Loaded, Ahead, Current, TypeOK, Views, Units
  <2>2. CASE ram' = Empty(0) /\ readable' = (ledger = NoFile) /\ UNCHANGED <<pending, file>>
    BY <1>1, <2>2 DEF Boot, Ahead, Current, Empty
  <2>. QED BY <1>1, <2>1, <2>2 DEF Boot
<1>2. CASE NothingToArchive
  BY <1>2 DEF NothingToArchive, Ahead, Current
<1>3. CASE Archive
  BY <1>3 DEF Archive, Ahead, Current
<1>4. CASE Fetch
  BY <1>4 DEF Fetch, Ahead, Current, TypeOK, Views
<1>5. CASE Record
  <2>1. open \in Books /\ readable
    BY <1>5 DEF Record, Activating
  <2>2. ram'.epoch = ram.epoch /\ ledger' = ledger /\ readable' = readable
    BY <1>5 DEF Record, TypeOK, Views
  <2>3. \A b \in Books : ram.days[b] \in Nat /\ ram'.days[b] \in {ram.days[b], ram.days[b] + 1}
    BY <1>5, <2>1 DEF Record, TypeOK, Views, Units
  <2>4. ledger # NoFile => \A b \in Books : ledger.days[b] \in Nat
    BY DEF TypeOK, Views, Units
  <2>. QED BY <2>1, <2>2, <2>3, <2>4 DEF Ahead, Current
<1>6. CASE CloseBook
  BY <1>6 DEF CloseBook, Ahead, Current
<1>7. CASE Save
  BY <1>7, FileAssumption DEF Save, Ahead, Current, TypeOK, Views, Units
<1>8. ASSUME NEW b \in Books, OpenBook(b)
      PROVE  Ahead'
  <2>1. CASE UNCHANGED <<ram, readable, pending, file>>
    BY <1>8, <2>1 DEF OpenBook, Ahead, Current
  <2>2. CASE Loaded
    BY <1>8, <2>2 DEF OpenBook, Loaded, Ahead, Current, TypeOK, Views, Units
  <2>3. CASE ~readable /\ NotLoaded
    BY <1>8, <2>3 DEF OpenBook, NotLoaded, Ahead, Current
  <2>. QED BY <1>8, <2>1, <2>2, <2>3 DEF OpenBook
<1>9. ASSUME NEW kind \in {"habits", "all"}, Reset(kind)
      PROVE  Ahead'
  <2>1. ResetTo(kind) \in Views
    BY <1>9, ResetToType
  <2>. QED BY <1>9, <2>1, FileAssumption DEF Reset, Ahead, Current, Views, Units
<1>10. CASE UNCHANGED vars
  BY <1>10 DEF vars, Ahead, Current
<1>. QED BY <1>1, <1>2, <1>3, <1>4, <1>5, <1>6, <1>7, <1>8, <1>9, <1>10 DEF Next

(* A unit is counted where it is read, in RAM first. *)
LEMMA StepCounted ==
    ASSUME IInv, [Next]_vars
    PROVE  Counted'
<1>. USE DEF IInv
<1>0. \A b \in Books : read[b] \in Nat
  BY DEF TypeOK, Units
<1>1. CASE Boot
  <2>1. CASE Loaded
    BY <1>1, <2>1 DEF Boot, Loaded, Counted
  <2>2. CASE ram' = Empty(0) /\ readable' = (ledger = NoFile) /\ UNCHANGED <<pending, file>>
    BY <1>0, <1>1, <2>2 DEF Boot, Counted, Empty
  <2>. QED BY <1>1, <2>1, <2>2 DEF Boot
<1>2. CASE NothingToArchive
  BY <1>2 DEF NothingToArchive, Counted
<1>3. CASE Archive
  BY <1>3 DEF Archive, Counted
<1>4. CASE Fetch
  BY <1>4 DEF Fetch, Counted, TypeOK, Views
<1>5. CASE Record
  <2>1. open \in Books /\ readable
    BY <1>5 DEF Record, Activating
  <2>2. ledger' = ledger /\ readable' = readable
    BY <1>5 DEF Record
  <2>3. \A b \in Books : \/ ram'.days[b] = ram.days[b] /\ read'[b] = read[b]
                         \/ ram'.days[b] = ram.days[b] + 1 /\ read'[b] = read[b] + 1
    <3>1. /\ ram'.days = [ram.days EXCEPT ![open] = @ + 1]
          /\ read' = [read EXCEPT ![open] = @ + 1]
      BY <1>5 DEF Record, TypeOK, Views
    <3>. QED BY <2>1, <3>1 DEF TypeOK, Views
  <2>4. \A b \in Books : ram.days[b] \in Nat
    BY DEF TypeOK, Views, Units
  <2>5. ledger # NoFile => \A b \in Books : ledger.days[b] \in Nat
    BY DEF TypeOK, Views, Units
  <2>. QED BY <1>0, <2>2, <2>3, <2>4, <2>5 DEF Counted
<1>6. CASE CloseBook
  BY <1>6 DEF CloseBook, Counted
<1>7. CASE Save
  BY <1>7 DEF Save, Counted
<1>8. ASSUME NEW b \in Books, OpenBook(b)
      PROVE  Counted'
  <2>1. CASE UNCHANGED <<ram, readable, pending, file>>
    BY <1>8, <2>1 DEF OpenBook, Counted
  <2>2. CASE Loaded
    BY <1>8, <2>2 DEF OpenBook, Loaded, Counted
  <2>3. CASE ~readable /\ NotLoaded
    BY <1>8, <2>3 DEF OpenBook, NotLoaded, Counted, Ahead
  <2>. QED BY <1>8, <2>1, <2>2, <2>3 DEF OpenBook
<1>9. ASSUME NEW kind \in {"habits", "all"}, Reset(kind)
      PROVE  Counted'
  <2>1. CASE kind = "all"
    BY <1>9, <2>1 DEF Reset, ResetTo, Empty, Counted
  <2>2. CASE kind # "all"
    BY <1>9, <2>2 DEF Reset, ResetTo, Counted
  <2>. QED BY <2>1, <2>2
<1>10. CASE UNCHANGED vars
  BY <1>10 DEF vars, Counted
<1>. QED BY <1>1, <1>2, <1>3, <1>4, <1>5, <1>6, <1>7, <1>8, <1>9, <1>10 DEF Next

(* Files that are the old ones, or gone, stay stamped while the epoch and    *)
(* the reading in it stay, or a new epoch begins.                           *)
LEMMA StampsStay ==
    ASSUME TypeOK, Stamped,
           \A b \in Books : /\ file'[b].main \in {file[b].main, NoFile}
                            /\ file'[b].bak \in {file[b].bak, NoFile},
           \/ Current' = Current /\ \A b \in Books : read[b] <= read'[b]
           \/ Current' = Current + 1,
           \A b \in Books : read'[b] \in Nat,
           Current \in Nat
    PROVE  Stamped'
<1>. SUFFICES ASSUME NEW b \in Books
              PROVE  Stamp(file[b].main, b)' /\ Stamp(file[b].bak, b)'
  BY DEF Stamped
<1>1. ASSUME NEW s \in Snapshots \cup {NoFile}, Stamp(s, b)
      PROVE  s # NoFile => s.epoch <= Current' /\ (s.epoch = Current' => s.units <= read'[b])
  BY <1>1, BoundsAssumption DEF Stamp, Snapshots, Units, Epochs, TypeOK
<1>2. file[b].main \in Snapshots \cup {NoFile} /\ file[b].bak \in Snapshots \cup {NoFile}
  BY DEF TypeOK
<1>3. Stamp(file[b].main, b) /\ Stamp(file[b].bak, b)
  BY DEF Stamped
<1>. QED BY <1>1, <1>2, <1>3 DEF Stamp

(* An archived record is one of this epoch and was read in it. *)
LEMMA StepStamped ==
    ASSUME IInv, [Next]_vars
    PROVE  Stamped'
<1>. USE DEF IInv
<1>0. (\A b \in Books : read[b] \in Nat) /\ Current \in Nat
  BY BoundsAssumption DEF TypeOK, Units, Current, Views, Epochs
<1>1. ASSUME UNCHANGED <<ledger, read>>,
             \A b \in Books : /\ file'[b].main \in {file[b].main, NoFile}
                              /\ file'[b].bak \in {file[b].bak, NoFile}
      PROVE  Stamped'
  BY <1>0, <1>1, StampsStay DEF Current, TypeOK
<1>2. CASE UNCHANGED <<ledger, read, file>>
  BY <1>2 DEF Stamped, Stamp, Current
<1>3. CASE Loaded /\ UNCHANGED <<ledger, read>>
  <2>1. pending \in {"none", "habits", "all"} /\ Finish(pending)
    BY <1>3 DEF Loaded, TypeOK
  <2>. QED BY <1>1, <1>3, <2>1, FinishKeeps
<1>4. CASE Archive
  <2>1. CASE UNCHANGED file
    BY <1>2, <1>4, <2>1 DEF Archive
  <2>2. CASE file' # file
    <3>. DEFINE a == ram.active
                now == [units |-> ram.record, epoch |-> ram.epoch]
    <3>1. a \in Books /\ readable /\ ram.epoch = Current /\ UNCHANGED <<ledger, read>>
      BY <1>4 DEF Archive, Activating, Ahead, TypeOK, Views
    <3>2. ram.record <= read[a]
      BY <3>1 DEF ResetForgets, Seen
    <3>3. /\ file'[a].main = now
          /\ file'[a].bak \in {file[a].main, file[a].bak}
          /\ \A b \in Books \ {a} : file'[b] = file[b]
      BY <1>4, <2>2, <3>1 DEF Archive, TypeOK
    <3>4. \A s, b : Stamp(s, b)' <=> Stamp(s', b)
      BY <3>1 DEF Stamp, Current
    <3>5. Stamp(now, a)
      BY <3>1, <3>2, <1>0 DEF Stamp
    <3>6. \A b \in Books : Stamp(file[b].main, b) /\ Stamp(file[b].bak, b)
      BY DEF Stamped
    <3>. QED BY <3>1, <3>3, <3>5, <3>6 DEF Stamped, Stamp, Current
  <2>. QED BY <2>1, <2>2
<1>5. CASE Record
  <2>1. \A b \in Books : read'[b] \in Nat /\ read[b] <= read'[b]
    <3>1. open \in Books /\ read' = [read EXCEPT ![open] = @ + 1]
      BY <1>5 DEF Record, Activating
    <3>. QED BY <3>1, <1>0 DEF TypeOK
  <2>2. file' = file /\ ledger' = ledger
    BY <1>5 DEF Record
  <2>. QED BY <1>0, <2>1, <2>2, StampsStay DEF Current
<1>6. CASE Save
  <2>1. Current' = Current
    BY <1>6, FileAssumption DEF Save, Current, Ahead, TypeOK
  <2>2. UNCHANGED <<file, read>>
    BY <1>6 DEF Save
  <2>. QED BY <1>0, <2>1, <2>2, StampsStay
<1>7. ASSUME NEW kind \in {"habits", "all"}, Reset(kind)
      PROVE  Stamped'
  <2>1. ResetTo(kind) \in Views /\ ledger' = ResetTo(kind)
    BY <1>7, ResetToType DEF Reset
  <2>2. ram.epoch = Current
    BY <1>7 DEF Reset, Ahead
  <2>3. Current' = IF kind = "all" THEN Current + 1 ELSE Current
    BY <2>1, <2>2, FileAssumption DEF Current, ResetTo, Empty
  <2>4. \A b \in Books : read'[b] \in Nat /\ (kind # "all" => read'[b] = read[b])
    BY <1>0, <1>7 DEF Reset
  <2>5. \A b \in Books : /\ file'[b].main \in {file[b].main, NoFile}
                         /\ file'[b].bak \in {file[b].bak, NoFile}
    BY <1>7, FinishKeeps DEF Reset
  <2>6. CASE kind = "all"
    BY <1>0, <2>3, <2>4, <2>5, <2>6, StampsStay
  <2>7. CASE kind # "all"
    BY <1>0, <2>3, <2>4, <2>5, <2>7, StampsStay
  <2>. QED BY <2>6, <2>7
<1>8. CASE Boot
  BY <1>2, <1>3, <1>8 DEF Boot
<1>9. ASSUME NEW b \in Books, OpenBook(b)
      PROVE  Stamped'
  BY <1>2, <1>3, <1>9 DEF OpenBook, NotLoaded
<1>10. CASE NothingToArchive \/ Fetch \/ CloseBook \/ UNCHANGED vars
  BY <1>2, <1>10 DEF NothingToArchive, Fetch, CloseBook, vars
<1>. QED BY <1>4, <1>5, <1>6, <1>7, <1>8, <1>9, <1>10 DEF Next

(* A reader records only in the book activateBook() has made the active one. *)
LEMMA StepActivating ==
    ASSUME IInv, [Next]_vars
    PROVE  Activating'
<1>. USE DEF IInv
<1>1. CASE Boot
  BY <1>1 DEF Boot, Activating
<1>2. CASE NothingToArchive
  BY <1>2, BooksAssumption DEF NothingToArchive, Activating
<1>3. CASE Archive
  BY <1>3 DEF Archive, Activating
<1>4. CASE Fetch
  BY <1>4 DEF Fetch, Activating, TypeOK, Views
<1>5. CASE Record
  BY <1>5 DEF Record, Activating, TypeOK, Views
<1>6. CASE CloseBook
  BY <1>6 DEF CloseBook, Activating
<1>7. CASE Save
  BY <1>7 DEF Save, Activating
<1>8. ASSUME NEW b \in Books, OpenBook(b)
      PROVE  Activating'
  BY <1>8 DEF OpenBook, Loaded, NotLoaded, Activating
<1>9. ASSUME NEW kind \in {"habits", "all"}, Reset(kind)
      PROVE  Activating'
  BY <1>9, BooksAssumption DEF Reset, Activating
<1>10. CASE UNCHANGED vars
  BY <1>10 DEF vars, Activating
<1>. QED BY <1>1, <1>2, <1>3, <1>4, <1>5, <1>6, <1>7, <1>8, <1>9, <1>10 DEF Next

(* No save replaces the ledger of a reset that is not finished. *)
LEMMA StepEmptied ==
    ASSUME IInv, [Next]_vars
    PROVE  Emptied'
<1>. USE DEF IInv
<1>1. CASE UNCHANGED <<ledger, pending>>
  BY <1>1 DEF Emptied
<1>2. CASE Loaded /\ ledger' = ledger
  <2>1. pending' \in {"none", pending}
    BY <1>2, FinishKeeps DEF Loaded, TypeOK
  <2>. QED BY <1>2, <2>1 DEF Emptied
<1>3. CASE Save
  BY <1>3 DEF Save, Emptied
<1>4. ASSUME NEW kind \in {"habits", "all"}, Reset(kind)
      PROVE  Emptied'
  <2>1. pending' \in {"none", kind} /\ ledger' = ResetTo(kind)
    BY <1>4, FinishKeeps DEF Reset
  <2>2. ResetTo(kind) # NoFile
    BY <1>4, ResetToType, FileAssumption
  <2>3. kind = "all" => \A b \in Books : ResetTo(kind).days[b] = 0
    BY DEF ResetTo, Empty
  <2>. QED BY <2>1, <2>2, <2>3 DEF Emptied
<1>5. CASE Boot
  BY <1>1, <1>2, <1>5 DEF Boot
<1>6. ASSUME NEW b \in Books, OpenBook(b)
      PROVE  Emptied'
  BY <1>1, <1>2, <1>6 DEF OpenBook, NotLoaded
<1>7. CASE NothingToArchive \/ Archive \/ Fetch \/ Record \/ CloseBook \/ UNCHANGED vars
  BY <1>1, <1>7 DEF NothingToArchive, Archive, Fetch, Record, CloseBook, vars
<1>. QED BY <1>3, <1>4, <1>5, <1>6, <1>7 DEF Next

-----------------------------------------------------------------------------

\* ResetForgets of the active book alone.
Recorded ==
    /\ readable /\ ram.active \in Books => ram.record <= read[ram.active]
    /\ ledger # NoFile /\ ledger.active \in Books => ledger.record <= read[ledger.active]

(* The stamps give the rest of it. *)
LEMMA RecordedSuffices == TypeOK /\ Ahead /\ Stamped => (Recorded <=> ResetForgets)
<1>. SUFFICES ASSUME TypeOK, Ahead, Stamped
              PROVE  Recorded <=> ResetForgets
  OBVIOUS
<1>1. \A b \in Books : Fetched(b, Current) <= read[b]
  BY FetchedIsRead
<1>2. ledger # NoFile => ledger.epoch = Current
  BY DEF Current
<1>. QED BY <1>1, <1>2 DEF Recorded, ResetForgets, Seen, Ahead

(* A record grows with the reading; a new one starts from what its file holds. *)
LEMMA StepRecorded ==
    ASSUME IInv, [Next]_vars
    PROVE  Recorded'
<1>. USE DEF IInv
<1>0. Recorded /\ \A b \in Books : read[b] \in Nat
  BY RecordedSuffices DEF TypeOK, Units
<1>1. CASE UNCHANGED <<ram, readable, ledger, read>>
  BY <1>0, <1>1 DEF Recorded
<1>2. CASE Loaded /\ UNCHANGED <<ledger, read>>
  BY <1>0, <1>2 DEF Loaded, Recorded
<1>3. CASE Boot
  <2>1. CASE ram' = Empty(0) /\ readable' = (ledger = NoFile) /\ UNCHANGED <<pending, file>>
    BY <1>0, <1>3, <2>1, BooksAssumption DEF Boot, Recorded, Empty
  <2>. QED BY <1>2, <1>3, <2>1 DEF Boot
<1>4. CASE Fetch
  <2>1. PICK units \in {Fetched(open, ram.epoch)} \cup (IF BookReadsFail THEN {0} ELSE {}) :
          ram' = [ram EXCEPT !.active = open, !.record = units]
    BY <1>4 DEF Fetch
  <2>2. open \in Books /\ ram.epoch = Current
    BY <1>4 DEF Fetch, Activating, Ahead
  <2>3. units <= read[open]
    BY <1>0, <2>1, <2>2, FetchedIsRead
  <2>4. ram'.active = open /\ ram'.record = units
    BY <2>1 DEF TypeOK, Views
  <2>. QED BY <1>0, <1>4, <2>3, <2>4 DEF Fetch, Recorded
<1>5. CASE Record
  <2>1. open \in Books /\ ram.active = open /\ readable /\ readable' /\ ledger' = ledger
    BY <1>5 DEF Record, Activating
  <2>2. ram'.active = open /\ ram'.record = ram.record + 1
    BY <1>5, <2>1 DEF Record, TypeOK, Views
  <2>3. \A b \in Books : read'[b] = IF b = open THEN read[b] + 1 ELSE read[b]
    BY <1>5 DEF Record, TypeOK
  <2>4. ram.record \in Nat /\ (ledger # NoFile => ledger.record \in Nat)
    BY DEF TypeOK, Views, Units
  <2>. QED BY <1>0, <2>1, <2>2, <2>3, <2>4 DEF Recorded
<1>6. CASE Save
  BY <1>0, <1>6 DEF Save, Recorded
<1>7. ASSUME NEW b \in Books, OpenBook(b)
      PROVE  Recorded'
  <2>1. CASE ~readable /\ NotLoaded
    BY <1>0, <1>7, <2>1 DEF OpenBook, NotLoaded, Ahead, Recorded
  <2>. QED BY <1>1, <1>2, <1>7, <2>1 DEF OpenBook
<1>8. ASSUME NEW kind \in {"habits", "all"}, Reset(kind)
      PROVE  Recorded'
  <2>1. CASE kind = "all"
    BY <1>8, <2>1, BooksAssumption DEF Reset, ResetTo, Empty, Recorded
  <2>2. CASE kind # "all"
    BY <1>0, <1>8, <2>2 DEF Reset, ResetTo, Recorded
  <2>. QED BY <2>1, <2>2
<1>9. CASE NothingToArchive \/ Archive \/ CloseBook \/ UNCHANGED vars
  BY <1>1, <1>9 DEF NothingToArchive, Archive, CloseBook, vars
<1>. QED BY <1>3, <1>4, <1>5, <1>6, <1>7, <1>8, <1>9 DEF Next

(* A new card. *)
LEMMA InitIInv == Init => IInv
<1>. SUFFICES ASSUME Init
              PROVE  IInv
  OBVIOUS
<1>1. ram \in Views
  BY EmptyType, BoundsAssumption DEF Init, Epochs
<1>2. TypeOK
  <2>1. file \in [Books -> [main : Snapshots \cup {NoFile}, bak : Snapshots \cup {NoFile}]]
    BY DEF Init
  <2>2. read \in [Books -> Units]
    BY BoundsAssumption DEF Init, Units
  <2>. QED BY <1>1, <2>1, <2>2 DEF Init, TypeOK
<1>3. Ahead /\ Counted /\ Stamped /\ Emptied
  BY DEF Init, Ahead, Counted, Stamped, Stamp, Emptied, Current, Empty
<1>4. Activating
  BY DEF Init, Activating
<1>5. Recorded
  BY BooksAssumption DEF Init, Recorded, Empty
<1>. QED BY <1>2, <1>3, <1>4, <1>5, RecordedSuffices DEF IInv

(* The seven parts hold together in every reachable state. *)
THEOREM Inductive == Spec => []IInv
<1>1. IInv /\ [Next]_vars => IInv'
  <2>. SUFFICES ASSUME IInv, [Next]_vars
                PROVE  IInv'
    OBVIOUS
  <2>1. TypeOK' /\ Ahead' /\ Counted' /\ Stamped' /\ Activating' /\ Emptied' /\ Recorded'
    BY StepTypeOK, StepAhead, StepCounted, StepStamped, StepActivating, StepEmptied, StepRecorded
  <2>2. (TypeOK /\ Ahead /\ Stamped => (Recorded <=> ResetForgets))'
    BY RecordedSuffices, PTL
  <2>. QED BY <2>1, <2>2 DEF IInv
<1>. QED BY InitIInv, <1>1, PTL DEF Spec

(* Every variable keeps its type; no record or total outgrows what was read. *)
THEOREM TypeCorrect == Spec => []TypeOK
<1>1. IInv => TypeOK
  BY DEF IInv
<1>. QED BY Inductive, <1>1, PTL

(* Nothing read before a full reset shows again. *)
THEOREM ResetIsFinal == Spec => []ResetForgets
<1>1. IInv => ResetForgets
  BY DEF IInv
<1>. QED BY Inductive, <1>1, PTL

-----------------------------------------------------------------------------

\* What a view shows of a book is a number of units.
SeenIsNat == \A b \in Books : /\ Seen(ram, b) \in Nat
                              /\ ledger # NoFile => Seen(ledger, b) \in Nat

(* The types say so. *)
LEMMA SeenType == TypeOK => SeenIsNat
<1>. SUFFICES ASSUME TypeOK, NEW b \in Books
              PROVE  /\ Seen(ram, b) \in Nat
                     /\ ledger # NoFile => Seen(ledger, b) \in Nat
  BY DEF SeenIsNat
<1>1. \A e : Fetched(b, e) \in Nat
  BY FetchedType, BoundsAssumption DEF Units
<1>2. ram.record \in Nat /\ (ledger # NoFile => ledger.record \in Nat)
  BY DEF TypeOK, Views, Units
<1>. QED BY <1>1, <1>2 DEF Seen

(* The archive writes the record under the epoch of the ledger. *)
LEMMA StepArchived ==
    ASSUME IInv, Archived, [Next]_vars
    PROVE  Archived'
<1>. USE DEF IInv
<1>1. CASE Archive
  <2>1. CASE pc' # "fetch"
    BY <2>1 DEF Archived
  <2>2. CASE pc' = "fetch"
    <3>. DEFINE a == ram.active
                now == [units |-> ram.record, epoch |-> ram.epoch]
    <3>1. a \in Books /\ ram' = ram /\ now \in Snapshots
      BY <1>1 DEF Archive, Activating, TypeOK, Views, Snapshots
    <3>2. file'[a].main = now
      BY <1>1, <2>2, <3>1 DEF Archive, TypeOK
    <3>3. now # NoFile
      BY <3>1, FileAssumption
    <3>. QED BY <3>1, <3>2, <3>3 DEF Archived, Fetched, Stored
  <2>. QED BY <2>1, <2>2
<1>2. CASE NothingToArchive
  BY <1>2 DEF NothingToArchive, Archived
<1>3. CASE Boot \/ Fetch \/ Record \/ CloseBook \/ Save
  BY <1>3 DEF Boot, Fetch, Record, CloseBook, Save, Archived
<1>4. ASSUME NEW b \in Books, OpenBook(b)
      PROVE  Archived'
  BY <1>4 DEF OpenBook, Archived
<1>5. ASSUME NEW kind \in {"habits", "all"}, Reset(kind)
      PROVE  Archived'
  BY <1>5 DEF Reset, Archived
<1>6. CASE UNCHANGED vars
  BY <1>6 DEF vars, Archived, Fetched, Stored
<1>. QED BY <1>1, <1>2, <1>3, <1>4, <1>5, <1>6 DEF Next

(* Every step that moves a record moves it whole. *)
LEMMA StepDays ==
    ASSUME ~BookReadsFail, IInv, Archived, DaysAreInBooks, [Next]_vars, TypeOK'
    PROVE  DaysAreInBooks'
<1>. USE DEF IInv
<1>0. SeenIsNat'
  <2>1. (TypeOK => SeenIsNat)'
    BY SeenType, PTL
  <2>. QED BY <2>1
<1>1. CASE UNCHANGED <<ram, readable, ledger, file>>
  BY <1>1 DEF DaysAreInBooks, Seen, Fetched, Stored
<1>2. CASE Loaded /\ ledger' = ledger
  <2>1. CASE pending = "all"
    <3>1. ledger' = ledger /\ ram' = ledger /\ ledger # NoFile
      BY <1>2 DEF Loaded
    <3>2. \A b \in Books : ledger'.days[b] = 0 /\ ram'.days[b] = 0
      BY <2>1, <3>1 DEF Emptied
    <3>. QED BY <1>0, <3>2 DEF DaysAreInBooks, SeenIsNat
  <2>2. CASE pending # "all"
    <3>1. file' = file
      BY <1>2, <2>2, FinishKeeps DEF Loaded, TypeOK
    <3>. QED BY <1>2, <3>1 DEF Loaded, DaysAreInBooks, Seen, Fetched, Stored
  <2>. QED BY <2>1, <2>2
<1>3. CASE Boot
  <2>1. CASE ram' = Empty(0) /\ readable' = (ledger = NoFile) /\ UNCHANGED <<pending, file>>
    <3>1. \A b \in Books : ram'.days[b] = 0
      BY <2>1 DEF Empty
    <3>2. \A b \in Books : Seen(ledger, b)' = Seen(ledger, b) /\ ledger' = ledger
      BY <1>3, <2>1 DEF Boot, Seen, Fetched, Stored
    <3>. QED BY <1>0, <3>1, <3>2 DEF DaysAreInBooks, SeenIsNat
  <2>. QED BY <1>2, <1>3, <2>1 DEF Boot
<1>4. CASE Archive
  <2>1. CASE file' = file
    BY <1>1, <1>4, <2>1 DEF Archive
  <2>2. CASE file' # file
    <3>. DEFINE a == ram.active
                now == [units |-> ram.record, epoch |-> ram.epoch]
    <3>1. /\ a \in Books /\ readable /\ ram.epoch = Current
          /\ UNCHANGED <<ledger, ram, readable>>
          /\ now \in Snapshots
      BY <1>4 DEF Archive, Activating, Ahead, TypeOK, Views, Snapshots
    <3>2. /\ file'[a].main = now
          /\ \A b \in Books \ {a} : file'[b] = file[b]
      BY <1>4, <2>2, <3>1 DEF Archive, TypeOK
    <3>3. \A b \in Books \ {a} : /\ Seen(ram, b)' = Seen(ram, b)
                                 /\ Seen(ledger, b)' = Seen(ledger, b)
      BY <3>1, <3>2 DEF Seen, Fetched, Stored
    <3>4. Seen(ram, a)' = ram.record /\ Seen(ram, a) = ram.record
      BY <3>1 DEF Seen
    <3>5. ram.days[a] <= ram.record
      BY <3>1, <3>4 DEF DaysAreInBooks
    <3>6. ledger # NoFile => ledger.days[a] <= Seen(ledger, a)'
      <4>1. CASE ledger # NoFile /\ ledger.active = a
        BY <3>1, <4>1 DEF DaysAreInBooks, Seen
      <4>2. CASE ledger # NoFile /\ ledger.active # a
        <5>1. Seen(ledger, a)' = ram.record
          BY <3>1, <3>2, <4>2, FileAssumption DEF Seen, Fetched, Stored, Current
        <5>2. ledger.days[a] <= ram.days[a]
          BY <3>1, <4>2 DEF Ahead
        <5>3. ledger.days[a] \in Nat /\ ram.days[a] \in Nat /\ ram.record \in Nat
          BY <3>1, <4>2 DEF TypeOK, Views, Units
        <5>. QED BY <3>5, <5>1, <5>2, <5>3
      <4>. QED BY <4>1, <4>2
    <3>. QED BY <3>1, <3>3, <3>4, <3>5, <3>6 DEF DaysAreInBooks
  <2>. QED BY <2>1, <2>2
<1>5. CASE Fetch
  <2>1. ram' = [ram EXCEPT !.active = open, !.record = Fetched(open, ram.epoch)]
    BY <1>5 DEF Fetch
  <2>2. /\ open \in Books /\ ram.active # open /\ readable
        /\ UNCHANGED <<ledger, file, readable>>
    BY <1>5 DEF Fetch, Activating
  <2>3. /\ ram'.active = open /\ ram'.record = Fetched(open, ram.epoch)
        /\ ram'.days = ram.days /\ ram'.epoch = ram.epoch
    BY <2>1 DEF TypeOK, Views
  <2>4. \A b \in Books : Seen(ledger, b)' = Seen(ledger, b)
    BY <2>2 DEF Seen, Fetched, Stored
  <2>5. \A b \in Books : Seen(ram, b)' = Fetched(b, ram.epoch)
    BY <2>2, <2>3 DEF Seen, Fetched, Stored
  <2>6. \A b \in Books : Seen(ram, b) = Fetched(b, ram.epoch)
    BY <1>5, BooksAssumption DEF Fetch, Archived, Seen
  <2>. QED BY <2>2, <2>3, <2>4, <2>5, <2>6 DEF DaysAreInBooks
<1>6. CASE Record
  <2>1. open \in Books /\ ram.active = open /\ readable /\ UNCHANGED <<ledger, file, readable, open>>
    BY <1>6 DEF Record, Activating
  <2>2. /\ ram'.active = ram.active /\ ram'.epoch = ram.epoch /\ ram'.record = ram.record + 1
        /\ ram'.days = [ram.days EXCEPT ![open] = @ + 1]
    BY <1>6 DEF Record, TypeOK, Views
  <2>3. \A b \in Books : Seen(ledger, b)' = Seen(ledger, b)
    BY <2>1 DEF Seen, Fetched, Stored
  <2>4. \A b \in Books \ {open} : Seen(ram, b)' = Seen(ram, b) /\ ram'.days[b] = ram.days[b]
    BY <2>1, <2>2 DEF Seen, Fetched, Stored, TypeOK, Views
  <2>5. Seen(ram, open) = ram.record /\ Seen(ram, open)' = ram.record + 1
    BY <2>1, <2>2 DEF Seen
  <2>6. ram'.days[open] = ram.days[open] + 1
    BY <2>1, <2>2 DEF TypeOK, Views
  <2>7. ram.days[open] \in Nat /\ ram.record \in Nat
    BY <2>1 DEF TypeOK, Views, Units
  <2>. QED BY <2>1, <2>3, <2>4, <2>5, <2>6, <2>7 DEF DaysAreInBooks
<1>7. CASE Save
  BY <1>7 DEF Save, DaysAreInBooks, Seen, Fetched, Stored
<1>8. ASSUME NEW b \in Books, OpenBook(b)
      PROVE  DaysAreInBooks'
  <2>1. CASE ~readable /\ NotLoaded
    <3>1. ~readable' /\ UNCHANGED <<ledger, file>>
      BY <1>8, <2>1 DEF OpenBook, NotLoaded, Ahead
    <3>. QED BY <3>1 DEF DaysAreInBooks, Seen, Fetched, Stored
  <2>. QED BY <1>1, <1>2, <1>8, <2>1 DEF OpenBook
<1>9. ASSUME NEW kind \in {"habits", "all"}, Reset(kind)
      PROVE  DaysAreInBooks'
  <2>1. CASE kind = "all"
    <3>1. \A b \in Books : ram'.days[b] = 0 /\ ledger'.days[b] = 0
      BY <1>9, <2>1 DEF Reset, ResetTo, Empty
    <3>. QED BY <1>0, <3>1 DEF DaysAreInBooks, SeenIsNat
  <2>2. CASE kind # "all"
    <3>1. file' = file /\ ram' = ram /\ ledger' = ram /\ readable
      BY <1>9, <2>2, FinishKeeps DEF Reset, ResetTo
    <3>. QED BY <3>1 DEF DaysAreInBooks, Seen, Fetched, Stored
  <2>. QED BY <2>1, <2>2
<1>10. CASE NothingToArchive \/ CloseBook \/ UNCHANGED vars
  BY <1>1, <1>10 DEF NothingToArchive, CloseBook, vars
<1>. QED BY <1>3, <1>4, <1>5, <1>6, <1>7, <1>8, <1>9, <1>10 DEF Next

(* While no opened book's file fails to be read, every unit in the totals of *)
(* the days is in the record of the book it was read in.                    *)
THEOREM HistoryIsKept ==
    ASSUME ~BookReadsFail
    PROVE  Spec => []DaysAreInBooks
<1>1. Init => Archived /\ DaysAreInBooks
  <2>. SUFFICES ASSUME Init
                PROVE  Archived /\ DaysAreInBooks
    OBVIOUS
  <2>1. TypeOK
    BY InitIInv DEF IInv
  <2>2. SeenIsNat
    BY <2>1, SeenType
  <2>. QED BY <2>2 DEF Init, Archived, DaysAreInBooks, SeenIsNat, Empty
<1>2. IInv /\ IInv' /\ Archived /\ DaysAreInBooks /\ [Next]_vars => (Archived /\ DaysAreInBooks)'
  BY StepArchived, StepDays DEF IInv
<1>. QED BY Inductive, <1>1, <1>2, PTL DEF Spec
=============================================================================

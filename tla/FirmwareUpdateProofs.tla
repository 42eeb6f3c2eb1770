------------------------ MODULE FirmwareUpdateProofs ------------------------
(***************************************************************************)
(* For every number of updates: the device always has a whole firmware to  *)
(* start, and it starts the one it was said to start.  The heart is the    *)
(* fallback: as long as the newest entry of the boot data may be undone,   *)
(* what would be chosen without it is whole as well.                       *)
(***************************************************************************)
EXTENDS FirmwareUpdate, TLAPS

States == {"new", "pending", "valid", "aborted"}
Entries == [Slots -> [seq : Nat, state : States]]

\* The entry that counts: it alone has the highest number.
Picks(e, i) ==
    /\ i \in Slots /\ Selects(e[i])
    /\ \A j \in Slots : j # i /\ Selects(e[j]) => e[j].seq < e[i].seq

Distinct(e) == Selects(e[0]) /\ Selects(e[1]) => e[0].seq # e[1].seq

Aborted(e, i) == [e EXCEPT ![i].state = "aborted"]
Newer(e, t, q) == [e EXCEPT ![t] = [seq |-> q, state |-> "new"]]

Updating == {"idle", "download", "ask", "flash", "erase", "write"}

\* Where the bootloader does not undo, no entry is ever pending or aborted;
\* where it does, entries are confirmed before the next update begins.
StatesInv ==
    /\ ~undoes => \A i \in Slots : entry[i].state \in {"new", "valid"}
    /\ undoes /\ pc \in Updating => \A i \in Slots : entry[i].state \in {"valid", "aborted"}
    /\ undoes /\ pc = "setup" => \A i \in Slots : entry[i].state # "new"

\* An entry not confirmed is the one that counts, and without it a whole
\* firmware is chosen, too.
FallbackInv ==
    undoes => \A i \in Slots : entry[i].state \in {"new", "pending"} =>
                  Picks(entry, i) /\ Boots(Chosen(Aborted(entry, i)))

\* The number that is about to be written is within the bound.
RoomInv == pc = "write" => NextSeq(Other(run)) <= MaxSeq

ImageInv ==
    /\ Boots(run) /\ Boots(Chosen(entry))
    /\ pc \in {"erase", "write", "done"} => Boots(Other(run))
    /\ pc = "flash" => file # "part"

IInv ==
    /\ TypeOK /\ Distinct(entry) /\ StatesInv /\ FallbackInv
    /\ RoomInv /\ ImageInv /\ StartsWhatWasReported
-----------------------------------------------------------------------------
(* The boot data.                                                          *)

LEMMA PickIsActive ==
    ASSUME NEW e \in Entries, NEW i, Picks(e, i)
    PROVE  Active(e) = i /\ ~NoneSelects(e) /\ Chosen(e) = (e[i].seq - 1) % 2
<1>1. i \in Slots /\ Selects(e[i]) /\ \A j \in Slots : Selects(e[j]) => e[j].seq <= e[i].seq
      BY DEF Picks, Entries, Slots, Selects
<1>2. \A k \in Slots : (Selects(e[k]) /\ \A j \in Slots : Selects(e[j]) => e[j].seq <= e[k].seq) => k = i
      BY <1>1 DEF Picks, Entries, Slots, Selects
<1>3. Active(e) = i
      BY <1>1, <1>2 DEF Active
<1>4. ~NoneSelects(e)
      BY <1>1 DEF NoneSelects
<1> QED BY <1>3, <1>4 DEF Chosen

LEMMA SomePick ==
    ASSUME NEW e \in Entries, Distinct(e), ~NoneSelects(e)
    PROVE  Picks(e, Active(e))
<1>1. \E i \in Slots : Picks(e, i)
      BY DEF Picks, Entries, Distinct, NoneSelects, Slots, Selects
<1> QED BY <1>1, PickIsActive

LEMMA ChosenIsASlot ==
    ASSUME NEW e \in Entries, Distinct(e)
    PROVE  Chosen(e) \in Slots
<1>1. CASE NoneSelects(e)
      BY <1>1 DEF Chosen, Slots
<1>2. CASE ~NoneSelects(e)
      <2>1. Picks(e, Active(e))
            BY <1>2, SomePick
      <2>2. e[Active(e)].seq \in Nat /\ e[Active(e)].seq > 0
            BY <2>1 DEF Picks, Selects, Entries
      <2> QED BY <1>2, <2>2 DEF Chosen, Slots
<1> QED BY <1>1, <1>2

\* Only what selects, and its number, matters.
LEMMA SameChoice ==
    ASSUME NEW e \in Entries, NEW f \in Entries, Distinct(e),
           \A i \in Slots : (Selects(e[i]) <=> Selects(f[i])) /\ (Selects(e[i]) => f[i].seq = e[i].seq)
    PROVE  Chosen(f) = Chosen(e) /\ Distinct(f)
           /\ (\A i : Picks(e, i) => Picks(f, i)) /\ (NoneSelects(e) <=> NoneSelects(f))
<1>1. \A i : Picks(e, i) => Picks(f, i)
      BY DEF Picks
<1>2. NoneSelects(e) <=> NoneSelects(f)
      BY DEF NoneSelects
<1>3. Distinct(f)
      BY DEF Distinct, Slots
<1>4. Chosen(f) = Chosen(e)
      <2>1. CASE NoneSelects(e)
            BY <2>1, <1>2 DEF Chosen
      <2>2. CASE ~NoneSelects(e)
            <3>1. Picks(e, Active(e)) /\ Picks(f, Active(e))
                  BY <2>2, <1>1, SomePick
            <3>2. f[Active(e)].seq = e[Active(e)].seq
                  BY <3>1 DEF Picks
            <3> QED BY <3>1, <3>2, PickIsActive
      <2> QED BY <2>1, <2>2
<1> QED BY <1>1, <1>2, <1>3, <1>4

\* An entry with a higher number than the one that counts takes its place, and
\* gives it back when it is undone.
LEMMA NewerIsPicked ==
    ASSUME NEW e \in Entries, Distinct(e), NEW t \in Slots,
           ~NoneSelects(e) => t # Active(e),
           NEW q \in Nat, q > 0, ~NoneSelects(e) => q > e[Active(e)].seq
    PROVE  /\ Newer(e, t, q) \in Entries /\ Distinct(Newer(e, t, q)) /\ Picks(Newer(e, t, q), t)
           /\ Chosen(Newer(e, t, q)) = (q - 1) % 2 /\ Chosen(Aborted(Newer(e, t, q), t)) = Chosen(e)
<1> DEFINE f == [e EXCEPT ![t] = [seq |-> q, state |-> "new"]]
           g == Aborted(f, t)
<1>1. f \in Entries /\ g \in Entries /\ f[t] = [seq |-> q, state |-> "new"]
      BY DEF Entries, States, Slots, Aborted
<1>2. \A j \in Slots : j # t => f[j] = e[j] /\ g[j] = e[j]
      BY DEF Aborted, Entries
<1>3. Selects(f[t]) /\ ~Selects(g[t])
      <2>2. g[t].state = "aborted"
            BY <1>1 DEF Aborted, Entries
      <2> QED BY <1>1, <2>2 DEF Selects
<1>4. \A j \in Slots : j # t /\ Selects(e[j]) => e[j].seq < q
      <2>1. CASE NoneSelects(e)
            BY <2>1 DEF NoneSelects
      <2>2. CASE ~NoneSelects(e)
            <3>1. Picks(e, Active(e)) /\ q > e[Active(e)].seq
                  BY <2>2, SomePick
            <3>2. \A j \in Slots : Selects(e[j]) => e[j].seq <= e[Active(e)].seq
                  BY <3>1 DEF Picks, Entries
            <3> QED BY <3>1, <3>2 DEF Entries, Picks
      <2> QED BY <2>1, <2>2
<1>5. Picks(f, t)
      BY <1>2, <1>3, <1>4, <1>1 DEF Picks
<1>6. Distinct(f)
      BY <1>1, <1>2, <1>4 DEF Distinct, Slots, Entries
<1>7. Chosen(f) = (q - 1) % 2
      <2>1. Chosen(f) = (f[t].seq - 1) % 2
            BY <1>1, <1>5, PickIsActive
      <2>2. f[t].seq = q
            BY <1>1
      <2> QED BY <2>1, <2>2
<1>8. Chosen(g) = Chosen(e)
      <2>1. CASE NoneSelects(e)
            <3>1. NoneSelects(g)
                  BY <2>1, <1>2, <1>3 DEF NoneSelects
            <3> QED BY <2>1, <3>1 DEF Chosen
      <2>2. CASE ~NoneSelects(e)
            <3>1. Picks(e, Active(e)) /\ t # Active(e)
                  BY <2>2, SomePick
            <3>2. Picks(g, Active(e))
                  BY <3>1, <1>2, <1>3 DEF Picks
            <3>3. g[Active(e)] = e[Active(e)]
                  BY <3>1, <1>2 DEF Picks
            <3> QED BY <3>1, <3>2, <3>3, <1>1, PickIsActive
      <2> QED BY <2>1, <2>2
<1> QED BY <1>1, <1>5, <1>6, <1>7, <1>8 DEF Newer

\* Erasing the sector beside the one that counts changes no choice.
LEMMA ErasedIsBeside ==
    ASSUME NEW e \in Entries, Distinct(e), NEW t \in Slots,
           ~NoneSelects(e) => t # Active(e),
           NEW f, f = [e EXCEPT ![t].seq = 0]
    PROVE  /\ f \in Entries /\ Distinct(f) /\ Chosen(f) = Chosen(e)
           /\ NoneSelects(f) <=> NoneSelects(e)
           /\ ~NoneSelects(e) => f[Active(f)].seq = e[Active(e)].seq
<1>1. f \in Entries /\ f[t].seq = 0 /\ ~Selects(f[t]) /\ \A j \in Slots : j # t => f[j] = e[j]
      BY DEF Entries, Selects
<1>2. Distinct(f)
      BY <1>1 DEF Distinct, Slots
<1>3. CASE NoneSelects(e)
      <2>1. NoneSelects(f)
            BY <1>1, <1>3 DEF NoneSelects
      <2> QED BY <1>1, <1>2, <1>3, <2>1 DEF Chosen
<1>4. CASE ~NoneSelects(e)
      <2>1. Picks(e, Active(e)) /\ t # Active(e)
            BY <1>4, SomePick
      <2>2. Picks(f, Active(e)) /\ f[Active(e)] = e[Active(e)]
            BY <2>1, <1>1 DEF Picks
      <2> QED BY <2>1, <2>2, <1>1, <1>2, PickIsActive
<1> QED BY <1>3, <1>4
-----------------------------------------------------------------------------
(* The invariant.                                                          *)

LEMMA EntryIsTyped == ASSUME TypeOK PROVE entry \in Entries
BY SeqAssumption DEF TypeOK, Entries, States

LEMMA InitIInv == Init => IInv
<1> SUFFICES ASSUME Init PROVE IInv
    OBVIOUS
<1>1. TypeOK
      BY SeqAssumption DEF Init, TypeOK, Images, Slots
<1>2. NoneSelects(entry) /\ Chosen(entry) = 0 /\ Distinct(entry)
      BY DEF Init, NoneSelects, Selects, Slots, Chosen, Distinct
<1>3. StatesInv /\ FallbackInv
      BY DEF Init, StatesInv, FallbackInv, Updating
<1>4. RoomInv /\ ImageInv /\ StartsWhatWasReported
      BY <1>2 DEF Init, RoomInv, ImageInv, StartsWhatWasReported, Boots
<1> QED BY <1>1, <1>2, <1>3, <1>4 DEF IInv

\* What the bootloader would undo now leaves a choice that is whole.
LEMMA UndoneIsWhole ==
    ASSUME IInv
    PROVE  /\ Undone \in Entries /\ Distinct(Undone) /\ Boots(Chosen(Undone))
           /\ undoes => \A i \in Slots : Undone[i].state # "pending"
           /\ \A i \in Slots : Undone[i].seq = entry[i].seq
           /\ ~undoes => Undone = entry
<1>1. entry \in Entries /\ Distinct(entry)
      BY EntryIsTyped DEF IInv
<1>2. Undone \in Entries /\ \A i \in Slots : Undone[i].seq = entry[i].seq
      BY <1>1 DEF Undone, Entries, States
<1>3. undoes => \A i \in Slots : Undone[i].state # "pending"
      BY <1>1 DEF Undone, Entries, States
<1>4. \A i \in Slots : entry[i].state # "pending" \/ ~undoes => Undone[i] = entry[i]
      BY DEF Undone
<1>5. Undone \in [Slots -> [seq : Nat, state : States]] /\ entry \in [Slots -> [seq : Nat, state : States]]
      BY <1>1, <1>2 DEF Entries
<1>6. CASE ~undoes \/ \A i \in Slots : entry[i].state # "pending"
      <2>1. Undone = entry
            BY <1>4, <1>5, <1>6
      <2> QED BY <1>1, <1>2, <1>3, <2>1 DEF IInv, ImageInv
<1>7. CASE undoes /\ \E i \in Slots : entry[i].state = "pending"
      <2>1. PICK i \in Slots : entry[i].state = "pending"
            BY <1>7
      <2>2. Picks(entry, i) /\ Boots(Chosen(Aborted(entry, i)))
            BY <1>7, <2>1 DEF IInv, FallbackInv
      <2>3. \A j \in Slots : entry[j].state = "pending" => j = i
            <3>1. \A j \in Slots : entry[j].state = "pending" => Picks(entry, j)
                  BY <1>7 DEF IInv, FallbackInv
            <3> QED BY <3>1, <2>2, <1>1, PickIsActive
      <2>4. \A j \in Slots : Undone[j] = Aborted(entry, i)[j]
            BY <1>1, <1>7, <2>1, <2>3 DEF Undone, Aborted, Entries
      <2>5. Aborted(entry, i) \in [Slots -> [seq : Nat, state : States]]
            BY <1>5 DEF Aborted, States
      <2>6. Undone = Aborted(entry, i)
            BY <1>5, <2>4, <2>5
      <2>7. Distinct(Undone)
            BY <1>1, <1>2 DEF Distinct, Undone, Slots, Selects, Entries
      <2> QED BY <1>2, <1>3, <1>7, <2>2, <2>6, <2>7
<1> QED BY <1>6, <1>7

LEMMA WholeChoice == ASSUME IInv PROVE ChosenIsWhole
BY UndoneIsWhole DEF ChosenIsWhole, IInv, ImageInv

\* The other slot's number, the smallest above the active one.
LEMMA NextStandsForTheOther ==
    ASSUME IInv
    PROVE  /\ Target \in Slots /\ (~NoneSelects(entry) => Target # Active(entry))
           /\ ActiveSeq \in Nat /\ NextSeq(Other(run)) \in Nat
           /\ NextSeq(Other(run)) > ActiveSeq /\ (NextSeq(Other(run)) - 1) % 2 = Other(run)
<1>1. entry \in Entries /\ Distinct(entry) /\ run \in Slots
      BY EntryIsTyped DEF IInv, TypeOK
<1>2. Target \in Slots /\ (~NoneSelects(entry) => Target # Active(entry))
      BY <1>1, SomePick DEF Target, Other, Slots, Picks
<1>3. ActiveSeq \in Nat
      BY <1>1, SomePick DEF ActiveSeq, Picks, Entries
<1>4. Other(run) = 0 \/ Other(run) = 1
      BY <1>1 DEF Other, Slots
<1>5. NextSeq(Other(run)) \in Nat /\ NextSeq(Other(run)) > ActiveSeq
      BY <1>3 DEF NextSeq
<1>6. (NextSeq(Other(run)) - 1) % 2 = Other(run)
      BY <1>3, <1>4 DEF NextSeq
<1> QED BY <1>2, <1>3, <1>5, <1>6

LEMMA BootIInv == ASSUME IInv, Boot PROVE IInv'
<1> DEFINE u == Undone
<1>1. /\ u \in Entries /\ Distinct(u) /\ Boots(Chosen(u))
      /\ undoes => \A i \in Slots : u[i].state # "pending"
      /\ \A i \in Slots : u[i].seq = entry[i].seq
      /\ ~undoes => u = entry
      BY UndoneIsWhole
<1>2. entry \in Entries /\ Distinct(entry)
      BY EntryIsTyped DEF IInv
<1>3. \A i \in Slots : undoes /\ u[i].state = "new" =>
          Picks(u, i) /\ Boots(Chosen(Aborted(u, i))) /\ \A j \in Slots : u[j].state = "new" => j = i
      <2> SUFFICES ASSUME NEW i \in Slots, undoes, u[i].state = "new"
                   PROVE  Picks(u, i) /\ Boots(Chosen(Aborted(u, i))) /\ \A j \in Slots : u[j].state = "new" => j = i
          OBVIOUS
      <2>1. \A j \in Slots : u[j].state = "new" => entry[j].state = "new"
            BY <1>2 DEF Undone, Entries
      <2>2. \A j \in Slots : entry[j].state \in {"new", "pending"} =>
                Picks(entry, j) /\ Boots(Chosen(Aborted(entry, j)))
            BY DEF IInv, FallbackInv
      <2>3. \A j \in Slots : entry[j].state \in {"new", "pending"} => j = i
            BY <2>1, <2>2, <1>2, PickIsActive
      <2>4. \A j \in Slots : u[j] = entry[j]
            BY <2>1, <2>3 DEF Undone
      <2>5. u = entry
            BY <2>4, <1>1, <1>2 DEF Entries
      <2> QED BY <2>1, <2>2, <2>3, <2>5
<1>4. u \in [Slots -> [seq : Nat, state : States]]
      BY <1>1 DEF Entries
<1>5. /\ entry' \in Entries /\ Chosen(entry') = Chosen(u) /\ Distinct(entry')
      /\ \A i \in Slots : entry'[i].seq = u[i].seq
      /\ ~undoes => entry' = u
      /\ undoes => \A i \in Slots : entry'[i].state \in {"new", "pending"} =>
             /\ entry'[i].state # "new" /\ Picks(entry', i) /\ Boots(Chosen(Aborted(entry', i)))
      <2>1. CASE undoes /\ ~NoneSelects(u) /\ u[Active(u)].state = "new"
            <3>1. entry' = [u EXCEPT ![Active(u)].state = "pending"]
                  BY <2>1 DEF Boot, Marked
            <3>2. Active(u) \in Slots
                  BY <2>1, <1>1, SomePick DEF Picks
            <3>3. entry' \in Entries /\ \A i \in Slots : entry'[i].seq = u[i].seq
                  BY <3>1, <3>2, <1>4 DEF Entries, States
            <3>4. \A i \in Slots : Selects(u[i]) <=> Selects(entry'[i])
                  BY <3>1, <3>2, <1>4, <2>1 DEF Selects
            <3>5. Chosen(entry') = Chosen(u) /\ Distinct(entry') /\ \A i : Picks(u, i) => Picks(entry', i)
                  BY <1>1, <3>3, <3>4, SameChoice
            <3>6. \A i \in Slots : entry'[i].state \in {"new", "pending"} => i = Active(u)
                  BY <3>1, <3>2, <1>1, <1>3, <1>4, <2>1 DEF States
            <3>7. entry'[Active(u)].state = "pending"
                  BY <3>1, <3>2, <1>4
            <3>8. Aborted(entry', Active(u)) = Aborted(u, Active(u))
                  BY <3>1, <3>2, <1>4 DEF Aborted
            <3> QED BY <3>2, <3>3, <3>5, <3>6, <3>7, <3>8, <1>3, <2>1
      <2>2. CASE ~(undoes /\ ~NoneSelects(u) /\ u[Active(u)].state = "new")
            <3>1. entry' = u
                  BY <2>2 DEF Boot, Marked
            <3>2. undoes => \A i \in Slots : u[i].state # "new"
                  BY <2>2, <1>1, <1>3, PickIsActive
            <3> QED BY <3>1, <3>2, <1>1
      <2> QED BY <2>1, <2>2
<1>6. Chosen(u) \in Slots /\ run' = Chosen(u)
      BY <1>1, ChosenIsASlot DEF Boot, Slots
<1>7. pc' = "setup" /\ image' = image /\ undoes' = undoes /\ file' = file
      BY DEF Boot
<1>8. TypeOK'
      BY <1>5, <1>6, <1>7, <1>1 DEF IInv, TypeOK, Entries, States
<1>9. StatesInv'
      BY <1>5, <1>7, <1>1 DEF StatesInv, IInv, Updating
<1>10. FallbackInv'
      BY <1>5, <1>7 DEF FallbackInv, Boots
<1>11. RoomInv' /\ ImageInv' /\ StartsWhatWasReported'
      BY <1>1, <1>5, <1>6, <1>7 DEF RoomInv, ImageInv, StartsWhatWasReported, Boots
<1> QED BY <1>5, <1>8, <1>9, <1>10, <1>11 DEF IInv

LEMMA FirstPaintIInv == ASSUME IInv, FirstPaint PROVE IInv'
<1>1. entry \in Entries /\ Distinct(entry)
      BY EntryIsTyped DEF IInv
<1>2. entry \in [Slots -> [seq : Nat, state : States]]
      BY <1>1 DEF Entries
<1>3. /\ entry' \in Entries
      /\ \A i \in Slots : /\ entry'[i].seq = entry[i].seq /\ entry'[i].state # "pending"
                          /\ entry'[i].state \in {entry[i].state, "valid"}
                          /\ Selects(entry[i]) <=> Selects(entry'[i])
      BY <1>2 DEF FirstPaint, Entries, States, Selects
<1>4. Chosen(entry') = Chosen(entry) /\ Distinct(entry')
      BY <1>1, <1>3, SameChoice
<1>5. pc = "setup" /\ pc' = "idle" /\ image' = image /\ run' = run /\ undoes' = undoes /\ file' = file
      BY DEF FirstPaint
<1>6. TypeOK'
      BY <1>3, <1>5 DEF IInv, TypeOK, Entries, States
<1>7. StatesInv' /\ FallbackInv'
      <2>1. undoes => \A i \in Slots : entry'[i].state \in {"valid", "aborted"}
            BY <1>2, <1>3, <1>5 DEF IInv, StatesInv, States
      <2>2. ~undoes => \A i \in Slots : entry'[i].state \in {"new", "valid"}
            BY <1>3 DEF IInv, StatesInv
      <2> QED BY <2>1, <2>2, <1>5 DEF StatesInv, FallbackInv
<1>8. RoomInv' /\ ImageInv' /\ StartsWhatWasReported'
      BY <1>4, <1>5 DEF IInv, RoomInv, ImageInv, StartsWhatWasReported, Boots
<1> QED BY <1>4, <1>6, <1>7, <1>8 DEF IInv

\* A step of an update that leaves the boot data alone, and of the images only
\* the one that does not run.
LEMMA ImageStepIInv ==
    ASSUME IInv, pc \in Updating, pc' \in Updating \ {"write"},
           UNCHANGED <<entry, run, undoes>>,
           image' = image \/ \E x \in Images : image' = [image EXCEPT ![Other(run)] = x],
           file' \in Images,
           pc' = "erase" => image'[Other(run)] # "part",
           pc' = "flash" => file' # "part"
    PROVE  IInv'
<1>1. run \in Slots /\ Other(run) \in Slots /\ Other(run) # run /\ image \in [Slots -> Images]
      BY DEF IInv, TypeOK, Other, Slots
<1>2. image' \in [Slots -> Images] /\ image'[run] = image[run]
      BY <1>1
<1>3. TypeOK' /\ Distinct(entry)' /\ RoomInv'
      BY <1>2 DEF IInv, TypeOK, RoomInv, Updating, Distinct
<1>4. StatesInv' /\ FallbackInv'
      BY DEF IInv, StatesInv, FallbackInv, Updating
<1>5. Chosen(entry) = run
      BY DEF IInv, StartsWhatWasReported, Updating
<1>6. Boots(run) /\ Boots(run)' /\ Boots(Chosen(entry))'
      BY <1>2, <1>5 DEF IInv, ImageInv, Boots
<1>7. ImageInv' /\ StartsWhatWasReported'
      BY <1>5, <1>6 DEF ImageInv, StartsWhatWasReported, Boots, Updating, Other
<1> QED BY <1>3, <1>4, <1>7 DEF IInv

LEMMA EraseIInv == ASSUME IInv, Erase PROVE IInv'
<1>1. entry \in Entries /\ Distinct(entry) /\ Target \in Slots
      /\ (~NoneSelects(entry) => Target # Active(entry)) /\ ActiveSeq \in Nat
      BY EntryIsTyped, NextStandsForTheOther DEF IInv
<1>2. /\ pc = "erase" /\ pc' \in {"write", "idle"} /\ NextSeq(Other(run)) <= MaxSeq
      /\ UNCHANGED <<image, run, undoes, file>>
      /\ entry' = entry \/ entry' = [entry EXCEPT ![Target].seq = 0]
      BY DEF Erase
<1>3. /\ entry' \in Entries /\ Distinct(entry') /\ Chosen(entry') = Chosen(entry)
      /\ NoneSelects(entry') <=> NoneSelects(entry)
      /\ ~NoneSelects(entry) => entry'[Active(entry')].seq = entry[Active(entry)].seq
      BY <1>1, <1>2, ErasedIsBeside
<1>4. ActiveSeq' = ActiveSeq
      BY <1>3 DEF ActiveSeq
<1>5. RoomInv'
      BY <1>2, <1>4 DEF RoomInv, NextSeq, Other
<1>6. \A i \in Slots : entry'[i].state = entry[i].state
      BY <1>1, <1>2 DEF Entries
<1>7. \A i \in Slots : entry'[i].seq \in 0..MaxSeq
      BY <1>1, <1>2, SeqAssumption DEF IInv, TypeOK
<1>8. TypeOK'
      BY <1>2, <1>3, <1>7 DEF IInv, TypeOK, Entries, States
<1>9. StatesInv' /\ FallbackInv'
      BY <1>2, <1>6 DEF IInv, StatesInv, FallbackInv, Updating
<1>10. ImageInv' /\ StartsWhatWasReported'
      BY <1>2, <1>3 DEF IInv, ImageInv, StartsWhatWasReported, Boots, Other
<1> QED BY <1>3, <1>5, <1>8, <1>9, <1>10 DEF IInv

LEMMA WriteIInv == ASSUME IInv, Write PROVE IInv'
<1>1. entry \in Entries /\ Distinct(entry) /\ run \in Slots
      BY EntryIsTyped DEF IInv, TypeOK
<1>2. CASE pc' = "idle" /\ entry' = entry
      <2>1. pc \in Updating /\ pc' \in Updating \ {"write"} /\ UNCHANGED <<entry, run, undoes, image, file>>
            BY <1>2 DEF Write, Updating
      <2>2. file' \in Images /\ pc' # "erase" /\ pc' # "flash"
            BY <1>2, <2>1 DEF IInv, TypeOK
      <2> QED BY <2>1, <2>2, ImageStepIInv
<1>3. CASE pc' = "done" /\ entry' = [entry EXCEPT ![Target] = [seq |-> NextSeq(Other(run)), state |-> "new"]]
      <2> DEFINE q == NextSeq(Other(run))
      <2>1. /\ Target \in Slots /\ (~NoneSelects(entry) => Target # Active(entry))
            /\ q \in Nat /\ q > ActiveSeq /\ (q - 1) % 2 = Other(run)
            BY NextStandsForTheOther
      <2>2. /\ entry' \in Entries /\ Distinct(entry') /\ Picks(entry', Target)
            /\ Chosen(entry') = (q - 1) % 2 /\ Chosen(Aborted(entry', Target)) = Chosen(entry)
            <3>1. q > 0 /\ (~NoneSelects(entry) => q > entry[Active(entry)].seq)
                  BY <2>1, NextStandsForTheOther DEF ActiveSeq
            <3>2. entry' = Newer(entry, Target, q)
                  BY <1>3 DEF Newer
            <3> HIDE DEF q
            <3> QED BY <1>1, <2>1, <3>1, <3>2, NewerIsPicked
      <2>3. pc = "write" /\ UNCHANGED <<image, run, undoes, file>>
            BY DEF Write
      <2>4. Chosen(entry') = Other(run) /\ Chosen(Aborted(entry', Target)) = run
            BY <2>1, <2>2, <2>3 DEF IInv, StartsWhatWasReported
      <2>5. \A i \in Slots : i # Target => entry'[i] = entry[i]
            BY <1>1, <1>3, <2>1 DEF Entries
      <2>6. entry'[Target] = [seq |-> q, state |-> "new"]
            BY <1>1, <1>3, <2>1 DEF Entries
      <2>7. \A i \in Slots : entry'[i].seq \in 0..MaxSeq
            BY <2>1, <2>3, <2>5, <2>6, SeqAssumption DEF IInv, TypeOK, RoomInv
      <2>8. TypeOK'
            BY <1>3, <2>2, <2>3, <2>7 DEF IInv, TypeOK, Entries, States
      <2>9. StatesInv'
            BY <1>3, <2>3, <2>5, <2>6 DEF IInv, StatesInv, Updating
      <2>10. FallbackInv'
            <3>1. undoes => \A i \in Slots : entry'[i].state \in {"new", "pending"} => i = Target
                  BY <2>3, <2>5 DEF IInv, StatesInv, Updating
            <3>2. Boots(run)
                  BY DEF IInv, ImageInv
            <3> QED BY <3>1, <3>2, <2>2, <2>3, <2>4 DEF FallbackInv, Boots
      <2>11. RoomInv' /\ ImageInv' /\ StartsWhatWasReported'
            BY <1>3, <2>3, <2>4 DEF IInv, RoomInv, ImageInv, StartsWhatWasReported, Boots, Other
      <2> QED BY <2>2, <2>8, <2>9, <2>10, <2>11 DEF IInv
<1> QED BY <1>2, <1>3 DEF Write

LEMMA OffIInv ==
    ASSUME IInv, pc' = "off", UNCHANGED <<image, entry, run, undoes, file>>
    PROVE  IInv'
BY DEF IInv, TypeOK, Distinct, StatesInv, FallbackInv, RoomInv, ImageInv, StartsWhatWasReported, Boots, Updating

LEMMA StepIInv == ASSUME IInv, [Next]_vars PROVE IInv'
<1>1. CASE Boot
      BY <1>1, BootIInv
<1>2. CASE FirstPaint
      BY <1>2, FirstPaintIInv
<1>3. CASE StartFails
      BY <1>3, OffIInv DEF StartFails
<1>4. CASE DownloadBegins
      BY <1>4, ImageStepIInv DEF DownloadBegins, Updating, IInv, TypeOK, Images
<1>5. CASE DownloadFails
      BY <1>5, ImageStepIInv DEF DownloadFails, Updating, IInv, TypeOK
<1>6. CASE Downloaded
      <2>1. PICK x \in {"whole", "faulty"} : image' = [image EXCEPT ![Other(run)] = x]
            BY <1>6 DEF Downloaded
      <2>2. x \in Images /\ image'[Other(run)] # "part"
            BY <2>1 DEF IInv, TypeOK, Images, Slots, Other
      <2> QED BY <1>6, <2>1, <2>2, ImageStepIInv DEF Downloaded, Updating, IInv, TypeOK
<1>7. CASE Picked
      BY <1>7, ImageStepIInv DEF Picked, Updating, IInv, TypeOK
<1>8. CASE ChangeCard
      BY <1>8, ImageStepIInv DEF ChangeCard, Updating
<1>9. CASE Refuse
      BY <1>9, ImageStepIInv DEF Refuse, Updating, IInv, TypeOK
<1>10. CASE Confirm
      BY <1>10, ImageStepIInv DEF Confirm, Updating, IInv, TypeOK, Images
<1>11. CASE FlashFails
      BY <1>11, ImageStepIInv DEF FlashFails, Updating, IInv, TypeOK
<1>12. CASE Flashed
      <2>1. file \in Images /\ file # "part" /\ image'[Other(run)] = file
            BY <1>12 DEF Flashed, IInv, TypeOK, ImageInv, Slots, Other
      <2> QED BY <1>12, <2>1, ImageStepIInv DEF Flashed, Updating
<1>13. CASE Erase
      BY <1>13, EraseIInv
<1>14. CASE Write
      BY <1>14, WriteIInv
<1>15. CASE Full
      BY <1>15, ImageStepIInv DEF Full, Updating, IInv, TypeOK
<1>16. CASE PowerOff
      BY <1>16, OffIInv DEF PowerOff
<1>17. CASE UNCHANGED vars
      BY <1>17 DEF vars, IInv, TypeOK, Distinct, StatesInv, FallbackInv, RoomInv, ImageInv, StartsWhatWasReported,
                   Boots, NextSeq, ActiveSeq, Other
<1> QED BY <1>1, <1>2, <1>3, <1>4, <1>5, <1>6, <1>7, <1>8, <1>9, <1>10, <1>11, <1>12, <1>13, <1>14,
           <1>15, <1>16, <1>17 DEF Next
-----------------------------------------------------------------------------
(* The theorems.                                                           *)

\* The inductive invariant holds in every reachable state.
THEOREM Inductive == Spec => []IInv
BY InitIInv, StepIInv, PTL DEF Spec

\* Every variable keeps its type; so numbers stay within the bound.
THEOREM TypeCorrect == Spec => []TypeOK
<1>1. IInv => TypeOK
      BY DEF IInv
<1> QED BY <1>1, Inductive, PTL

\* Whatever is cut or fails in whatever step of an update, the boot data chooses
\* a whole firmware, and chooses one still when the bootloader undoes the newest.
THEOREM DeviceStarts == Spec => []ChosenIsWhole
<1>1. IInv => ChosenIsWhole
      BY WholeChoice
<1> QED BY <1>1, Inductive, PTL

\* The firmware that runs starts again unless an update was reported as done,
\* and then the new one does (OtaBootSwitch.cpp:49-83).
THEOREM ReportIsTrue == Spec => []StartsWhatWasReported
<1>1. IInv => StartsWhatWasReported
      BY DEF IInv
<1> QED BY <1>1, Inductive, PTL
=============================================================================

--------------------------- MODULE QuoteFilesProofs ---------------------------
(* For every number of names and writes: a power cut in any step costs no    *)
(* kept quote, undoes no edit and brings no deleted quote back; and no step, *)
(* whatever card operation failed before, leaves a name without its quote,   *)
(* but for a new quote that is written over a staged one.                    *)
EXTENDS QuoteFiles, TLAPS

(* What a step relies on: the staged file it is about to rename is whole,    *)
(* the record it replaces is there until then, and a torn .tmp, which only   *)
(* an earlier firmware left, has no older copy beside it to be read instead. *)
StagedIsWhole ==
    /\ pc \in {"clean", "remove", "rename"} => staged[name] = doc
    /\ pc = "promote" => staged[name] \in Records
    /\ pc = "place" => staged[name] = Missing
    /\ pc \in Staging \cup {"remove"} /\ ~new => Listed(name)
    /\ \A n \in Names : staged[n] = Torn => spare[n] = Missing

(* While only the power fails, a staged file is the one being written or one *)
(* the walk has yet to deal with: it is why the old names and the new quotes *)
(* may take any name the list shows free, and why nothing is ever set aside. *)
NoneLeftBehind ==
    ~failed => \A n \in Names :
        /\ spare[n] = Missing
        /\ staged[n] # Missing =>
              \/ pc = "boot"
              \/ pc \in {"clean", "remove", "rename"} /\ n = name
              \/ pc = "repair" /\ n \in todo
              \/ pc = "promote" /\ n \in todo \cup {name}

(* A walk deals with each staged file once. *)
DealtWithOnce == pc = "promote" => name \notin todo

IInv ==
    /\ TypeOK
    /\ StagedIsWhole
    /\ NoneLeftBehind
    /\ DealtWithOnce
    /\ CutKeepsTheShelf

-----------------------------------------------------------------------------

LEMMA InitIInv == Init => IInv
<1>. SUFFICES ASSUME Init PROVE IInv
  OBVIOUS
<1>1. 1 \in Records /\ 2 \in Records /\ 0 \in Names
  BY BoundsAssumption DEF Records, Names
<1>2. file \in [Names -> Records \cup {Missing}]
  <2>1. PICK kept \in SUBSET {0, 1} :
          file = [n \in Names |-> IF n \in kept THEN n + 1 ELSE Missing]
    BY DEF Init
  <2>2. \A n \in kept : n + 1 \in Records
    BY <1>1
  <2>. QED BY <2>1, <2>2
<1>3. TypeOK
  BY <1>1, <1>2 DEF Init, TypeOK
<1>4. StagedIsWhole /\ NoneLeftBehind /\ DealtWithOnce
  BY DEF Init, StagedIsWhole, NoneLeftBehind, DealtWithOnce, Staging
<1>5. CutKeepsTheShelf
  <2>1. \A n \in Names : staged[n] \notin Records
    BY FilesAssumption DEF Init, Records
  <2>. QED BY <2>1 DEF Init, CutKeepsTheShelf, Repaired, InFlight, Writing, Staging
<1>. QED BY <1>3, <1>4, <1>5 DEF IInv

(* Every step keeps the types. *)
LEMMA StepTypeOK ==
    ASSUME TypeOK, StagedIsWhole, [Next]_vars
    PROVE  TypeOK'
<1>1. CASE Walk
  BY <1>1, FilesAssumption, BoundsAssumption DEF Walk, call, TypeOK, Names, Records, Writing, Staging, StagedIsWhole
<1>2. CASE PromoteRename
  BY <1>2, FilesAssumption, BoundsAssumption DEF PromoteRename, call, TypeOK, Names, Records, Writing, Staging, StagedIsWhole
<1>3. CASE PromoteFails
  BY <1>3, FilesAssumption, BoundsAssumption DEF PromoteFails, call, TypeOK, Names, Records, Writing, Staging, StagedIsWhole
<1>4. CASE MigrateName
  BY <1>4, FilesAssumption, BoundsAssumption DEF MigrateName, call, IsFree, Listed, TypeOK, Names, Records, Writing, Staging, StagedIsWhole
<1>5. CASE MigrationDone
  <2>1. marker' \in BOOLEAN
    <3>1. CASE marker' = marker
      BY <3>1 DEF TypeOK
    <3>2. CASE marker' = (marker \/ ~Listed(0))
      BY <3>2
    <3>. QED BY <1>5, <3>1, <3>2 DEF MigrationDone
  <2>. QED BY <1>5, <2>1 DEF MigrationDone, call, TypeOK
<1>6. CASE \E n \in Names : LeaveStaged(n)
  BY <1>6, FilesAssumption, BoundsAssumption DEF LeaveStaged, call, TypeOK, Names, Records, Writing, Staging, StagedIsWhole
<1>7. CASE \E n \in Names : DropTorn(n)
  BY <1>7, FilesAssumption, BoundsAssumption DEF DropTorn, call, TypeOK, Names, Records, Writing, Staging, StagedIsWhole
<1>8. CASE \E n \in Names : Promote(n)
  BY <1>8, FilesAssumption, BoundsAssumption DEF Promote, call, TypeOK, Names, Records, Writing, Staging, StagedIsWhole
<1>9. CASE \E n \in Names : Replace(n)
  <2>1. PICK n \in Names : Replace(n)
    BY <1>9
  <2>2. doc' \in Records
    BY <2>1, BoundsAssumption DEF Replace, NextRecord, TypeOK, Records
  <2>. QED BY <2>1, <2>2 DEF Replace, TypeOK, Writing, Staging
<1>10. CASE \E n \in Names : Remove(n)
  BY <1>10, FilesAssumption, BoundsAssumption DEF Remove, call, Listed, TypeOK, Names, Records, Writing, Staging, StagedIsWhole
<1>11. CASE Save
  BY <1>11, FilesAssumption, BoundsAssumption DEF Save, call, IsFree, Listed, NextRecord, TypeOK, Names, Records, Writing, Staging, StagedIsWhole
<1>12. CASE Retire
  BY <1>12, FilesAssumption, BoundsAssumption DEF Retire, call, TypeOK, Names, Records, Writing, Staging, StagedIsWhole
<1>13. CASE Aside
  BY <1>13, FilesAssumption, BoundsAssumption DEF Aside, call, TypeOK, Names, Records, Writing, Staging, StagedIsWhole
<1>14. CASE Place
  BY <1>14, FilesAssumption, BoundsAssumption DEF Place, call, TypeOK, Names, Records, Writing, Staging, StagedIsWhole
<1>15. CASE PlaceFails
  BY <1>15, FilesAssumption, BoundsAssumption DEF PlaceFails, call, Repaired, TypeOK, Names, Records, Writing, Staging, StagedIsWhole
<1>16. CASE Clean
  BY <1>16, FilesAssumption, BoundsAssumption DEF Clean, call, TypeOK, Names, Records, Writing, Staging, StagedIsWhole
<1>17. CASE RemoveOld
  BY <1>17, FilesAssumption, BoundsAssumption DEF RemoveOld, call, TypeOK, Names, Records, Writing, Staging, StagedIsWhole
<1>18. CASE Rename
  BY <1>18, FilesAssumption, BoundsAssumption DEF Rename, call, TypeOK, Names, Records, Writing, Staging, StagedIsWhole
<1>19. CASE WriteFails
  <2>1. Repaired(name) \in Records \cup {Missing}
    BY DEF TypeOK, Repaired
  <2>. QED BY <1>19, <2>1 DEF WriteFails, Settle, call, TypeOK
<1>20. CASE PowerCut
  <2>1. Repaired(name) \in Records \cup {Missing}
    BY DEF TypeOK, Repaired
  <2>. QED BY <1>20, <2>1 DEF PowerCut, Settle, call, TypeOK
<1>21. CASE UNCHANGED vars
  BY <1>21, FilesAssumption, BoundsAssumption DEF vars, call, TypeOK, Names, Records, Writing, Staging, StagedIsWhole
<1>. QED BY <1>1, <1>2, <1>3, <1>4, <1>5, <1>6, <1>7, <1>8, <1>9, <1>10, <1>11, <1>12, <1>13, <1>14, <1>15, <1>16, <1>17, <1>18, <1>19, <1>20, <1>21 DEF Next

(* What is renamed is whole, and dealt with once. *)
LEMMA StepStaged ==
    ASSUME TypeOK, StagedIsWhole, DealtWithOnce, [Next]_vars
    PROVE  StagedIsWhole' /\ DealtWithOnce'
<1>1. CASE Walk
  BY <1>1, FilesAssumption, BoundsAssumption DEF Walk, call, TypeOK, StagedIsWhole, DealtWithOnce, Listed, Writing, Staging, Records
<1>2. CASE PromoteRename
  BY <1>2, FilesAssumption, BoundsAssumption DEF PromoteRename, call, TypeOK, StagedIsWhole, DealtWithOnce, Listed, Writing, Staging, Records
<1>3. CASE PromoteFails
  BY <1>3, FilesAssumption, BoundsAssumption DEF PromoteFails, call, TypeOK, StagedIsWhole, DealtWithOnce, Listed, Writing, Staging, Records
<1>4. CASE MigrateName
  BY <1>4, FilesAssumption, BoundsAssumption DEF MigrateName, call, IsFree, Listed, TypeOK, StagedIsWhole, DealtWithOnce, Writing, Staging, Records
<1>5. CASE MigrationDone
  BY <1>5, FilesAssumption, BoundsAssumption DEF MigrationDone, call, Listed, TypeOK, StagedIsWhole, DealtWithOnce, Writing, Staging, Records
<1>6. CASE \E n \in Names : LeaveStaged(n)
  BY <1>6, FilesAssumption, BoundsAssumption DEF LeaveStaged, call, TypeOK, StagedIsWhole, DealtWithOnce, Listed, Writing, Staging, Records
<1>7. CASE \E n \in Names : DropTorn(n)
  BY <1>7, FilesAssumption, BoundsAssumption DEF DropTorn, call, TypeOK, StagedIsWhole, DealtWithOnce, Listed, Writing, Staging, Records
<1>8. CASE \E n \in Names : Promote(n)
  BY <1>8, FilesAssumption, BoundsAssumption DEF Promote, call, TypeOK, StagedIsWhole, DealtWithOnce, Listed, Writing, Staging, Records
<1>9. CASE \E n \in Names : Replace(n)
  BY <1>9, FilesAssumption, BoundsAssumption DEF Replace, call, Listed, NextRecord, TypeOK, StagedIsWhole, DealtWithOnce, Writing, Staging, Records
<1>10. CASE \E n \in Names : Remove(n)
  BY <1>10, FilesAssumption, BoundsAssumption DEF Remove, call, Listed, TypeOK, StagedIsWhole, DealtWithOnce, Writing, Staging, Records
<1>11. CASE Save
  BY <1>11, FilesAssumption, BoundsAssumption DEF Save, call, IsFree, Listed, NextRecord, TypeOK, StagedIsWhole, DealtWithOnce, Writing, Staging, Records
<1>12. CASE Retire
  BY <1>12, FilesAssumption, BoundsAssumption DEF Retire, call, TypeOK, StagedIsWhole, DealtWithOnce, Listed, Writing, Staging, Records
<1>13. CASE Aside
  BY <1>13, FilesAssumption, BoundsAssumption DEF Aside, call, TypeOK, StagedIsWhole, DealtWithOnce, Listed, Writing, Staging, Records
<1>14. CASE Place
  BY <1>14, FilesAssumption, BoundsAssumption DEF Place, call, TypeOK, StagedIsWhole, DealtWithOnce, Listed, Writing, Staging, Records
<1>15. CASE PlaceFails
  BY <1>15, FilesAssumption, BoundsAssumption DEF PlaceFails, call, Repaired, TypeOK, StagedIsWhole, DealtWithOnce, Listed, Writing, Staging, Records
<1>16. CASE Clean
  BY <1>16, FilesAssumption, BoundsAssumption DEF Clean, call, TypeOK, StagedIsWhole, DealtWithOnce, Listed, Writing, Staging, Records
<1>17. CASE RemoveOld
  BY <1>17, FilesAssumption, BoundsAssumption DEF RemoveOld, call, TypeOK, StagedIsWhole, DealtWithOnce, Listed, Writing, Staging, Records
<1>18. CASE Rename
  BY <1>18, FilesAssumption, BoundsAssumption DEF Rename, call, TypeOK, StagedIsWhole, DealtWithOnce, Listed, Writing, Staging, Records
<1>19. CASE WriteFails
  BY <1>19, FilesAssumption, BoundsAssumption DEF WriteFails, call, Settle, Repaired, TypeOK, StagedIsWhole, DealtWithOnce, Listed, Writing, Staging, Records
<1>20. CASE PowerCut
  BY <1>20, FilesAssumption, BoundsAssumption DEF PowerCut, call, Settle, Repaired, TypeOK, StagedIsWhole, DealtWithOnce, Listed, Writing, Staging, Records
<1>21. CASE UNCHANGED vars
  BY <1>21, FilesAssumption, BoundsAssumption DEF vars, call, TypeOK, StagedIsWhole, DealtWithOnce, Listed, Writing, Staging, Records
<1>. QED BY <1>1, <1>2, <1>3, <1>4, <1>5, <1>6, <1>7, <1>8, <1>9, <1>10, <1>11, <1>12, <1>13, <1>14, <1>15, <1>16, <1>17, <1>18, <1>19, <1>20, <1>21 DEF Next

(* Only a failing card leaves a staged file behind. *)
LEMMA StepNoneLeftBehind ==
    ASSUME TypeOK, StagedIsWhole, DealtWithOnce, NoneLeftBehind, [Next]_vars
    PROVE  NoneLeftBehind'
<1>1. CASE Walk
  BY <1>1, FilesAssumption, BoundsAssumption DEF Walk, call, TypeOK, StagedIsWhole, DealtWithOnce, NoneLeftBehind, Writing, Staging
<1>2. CASE PromoteRename
  BY <1>2, FilesAssumption, BoundsAssumption DEF PromoteRename, call, TypeOK, StagedIsWhole, DealtWithOnce, NoneLeftBehind, Writing, Staging
<1>3. CASE PromoteFails
  BY <1>3, FilesAssumption, BoundsAssumption DEF PromoteFails, call, TypeOK, StagedIsWhole, DealtWithOnce, NoneLeftBehind, Writing, Staging
<1>4. CASE MigrateName
  BY <1>4, FilesAssumption, BoundsAssumption DEF MigrateName, call, IsFree, Listed, TypeOK, StagedIsWhole, DealtWithOnce, NoneLeftBehind, Writing, Staging
<1>5. CASE MigrationDone
  BY <1>5, FilesAssumption, BoundsAssumption DEF MigrationDone, call, Listed, TypeOK, StagedIsWhole, DealtWithOnce, NoneLeftBehind, Writing, Staging
<1>6. CASE \E n \in Names : LeaveStaged(n)
  BY <1>6, FilesAssumption, BoundsAssumption DEF LeaveStaged, call, TypeOK, StagedIsWhole, DealtWithOnce, NoneLeftBehind, Writing, Staging
<1>7. CASE \E n \in Names : DropTorn(n)
  BY <1>7, FilesAssumption, BoundsAssumption DEF DropTorn, call, TypeOK, StagedIsWhole, DealtWithOnce, NoneLeftBehind, Writing, Staging
<1>8. CASE \E n \in Names : Promote(n)
  BY <1>8, FilesAssumption, BoundsAssumption DEF Promote, call, TypeOK, StagedIsWhole, DealtWithOnce, NoneLeftBehind, Writing, Staging
<1>9. CASE \E n \in Names : Replace(n)
  BY <1>9, FilesAssumption, BoundsAssumption DEF Replace, call, Listed, NextRecord, TypeOK, StagedIsWhole, DealtWithOnce, NoneLeftBehind, Writing, Staging
<1>10. CASE \E n \in Names : Remove(n)
  BY <1>10, FilesAssumption, BoundsAssumption DEF Remove, call, Listed, TypeOK, StagedIsWhole, DealtWithOnce, NoneLeftBehind, Writing, Staging
<1>11. CASE Save
  BY <1>11, FilesAssumption, BoundsAssumption DEF Save, call, IsFree, Listed, NextRecord, TypeOK, StagedIsWhole, DealtWithOnce, NoneLeftBehind, Writing, Staging
<1>12. CASE Retire
  BY <1>12, FilesAssumption, BoundsAssumption DEF Retire, call, TypeOK, StagedIsWhole, DealtWithOnce, NoneLeftBehind, Writing, Staging
<1>13. CASE Aside
  BY <1>13, FilesAssumption, BoundsAssumption DEF Aside, call, TypeOK, StagedIsWhole, DealtWithOnce, NoneLeftBehind, Writing, Staging
<1>14. CASE Place
  BY <1>14, FilesAssumption, BoundsAssumption DEF Place, call, TypeOK, StagedIsWhole, DealtWithOnce, NoneLeftBehind, Writing, Staging
<1>15. CASE PlaceFails
  BY <1>15, FilesAssumption, BoundsAssumption DEF PlaceFails, call, Repaired, TypeOK, StagedIsWhole, DealtWithOnce, NoneLeftBehind, Writing, Staging
<1>16. CASE Clean
  BY <1>16, FilesAssumption, BoundsAssumption DEF Clean, call, TypeOK, StagedIsWhole, DealtWithOnce, NoneLeftBehind, Writing, Staging
<1>17. CASE RemoveOld
  BY <1>17, FilesAssumption, BoundsAssumption DEF RemoveOld, call, TypeOK, StagedIsWhole, DealtWithOnce, NoneLeftBehind, Writing, Staging
<1>18. CASE Rename
  BY <1>18, FilesAssumption, BoundsAssumption DEF Rename, call, TypeOK, StagedIsWhole, DealtWithOnce, NoneLeftBehind, Writing, Staging
<1>19. CASE WriteFails
  BY <1>19, FilesAssumption, BoundsAssumption DEF WriteFails, call, Settle, Repaired, TypeOK, StagedIsWhole, DealtWithOnce, NoneLeftBehind, Writing, Staging
<1>20. CASE PowerCut
  BY <1>20, FilesAssumption, BoundsAssumption DEF PowerCut, call, Settle, Repaired, TypeOK, StagedIsWhole, DealtWithOnce, NoneLeftBehind, Writing, Staging
<1>21. CASE UNCHANGED vars
  BY <1>21, FilesAssumption, BoundsAssumption DEF vars, call, TypeOK, StagedIsWhole, DealtWithOnce, NoneLeftBehind, Writing, Staging
<1>. QED BY <1>1, <1>2, <1>3, <1>4, <1>5, <1>6, <1>7, <1>8, <1>9, <1>10, <1>11, <1>12, <1>13, <1>14, <1>15, <1>16, <1>17, <1>18, <1>19, <1>20, <1>21 DEF Next

(* Every step keeps what the names hold for the reader. *)
LEMMA StepShelf ==
    ASSUME TypeOK, StagedIsWhole, NoneLeftBehind, DealtWithOnce, CutKeepsTheShelf, [Next]_vars
    PROVE  CutKeepsTheShelf'
<1>1. CASE Walk
  BY <1>1, FilesAssumption, BoundsAssumption DEF Walk, call, TypeOK, StagedIsWhole, NoneLeftBehind, DealtWithOnce, CutKeepsTheShelf, Repaired, InFlight, Writing, Staging, Listed, Names, Records
<1>2. CASE PromoteRename
  BY <1>2, FilesAssumption, BoundsAssumption DEF PromoteRename, call, TypeOK, StagedIsWhole, NoneLeftBehind, DealtWithOnce, CutKeepsTheShelf, Repaired, InFlight, Writing, Staging, Listed, Names, Records
<1>3. CASE PromoteFails
  BY <1>3, FilesAssumption, BoundsAssumption DEF PromoteFails, call, TypeOK, StagedIsWhole, NoneLeftBehind, DealtWithOnce, CutKeepsTheShelf, Repaired, InFlight, Writing, Staging, Listed, Names, Records
<1>4. CASE MigrateName
  BY <1>4, FilesAssumption, BoundsAssumption DEF MigrateName, call, IsFree, Listed, TypeOK, StagedIsWhole, NoneLeftBehind, DealtWithOnce, CutKeepsTheShelf, Repaired, InFlight, Writing, Staging, Names, Records
<1>5. CASE MigrationDone
  BY <1>5, FilesAssumption, BoundsAssumption DEF MigrationDone, call, Listed, TypeOK, StagedIsWhole, NoneLeftBehind, DealtWithOnce, CutKeepsTheShelf, Repaired, InFlight, Writing, Staging, Names, Records
<1>6. CASE \E n \in Names : LeaveStaged(n)
  BY <1>6, FilesAssumption, BoundsAssumption DEF LeaveStaged, call, TypeOK, StagedIsWhole, NoneLeftBehind, DealtWithOnce, CutKeepsTheShelf, Repaired, InFlight, Writing, Staging, Listed, Names, Records
<1>7. CASE \E n \in Names : DropTorn(n)
  BY <1>7, FilesAssumption, BoundsAssumption DEF DropTorn, call, TypeOK, StagedIsWhole, NoneLeftBehind, DealtWithOnce, CutKeepsTheShelf, Repaired, InFlight, Writing, Staging, Listed, Names, Records
<1>8. CASE \E n \in Names : Promote(n)
  BY <1>8, FilesAssumption, BoundsAssumption DEF Promote, call, TypeOK, StagedIsWhole, NoneLeftBehind, DealtWithOnce, CutKeepsTheShelf, Repaired, InFlight, Writing, Staging, Listed, Names, Records
<1>9. CASE \E n \in Names : Replace(n)
  BY <1>9, FilesAssumption, BoundsAssumption DEF Replace, call, Listed, NextRecord, TypeOK, StagedIsWhole, NoneLeftBehind, DealtWithOnce, CutKeepsTheShelf, Repaired, InFlight, Writing, Staging, Names, Records
<1>10. CASE \E n \in Names : Remove(n)
  BY <1>10, FilesAssumption, BoundsAssumption DEF Remove, call, Listed, TypeOK, StagedIsWhole, NoneLeftBehind, DealtWithOnce, CutKeepsTheShelf, Repaired, InFlight, Writing, Staging, Names, Records
<1>11. CASE Save
  BY <1>11, FilesAssumption, BoundsAssumption DEF Save, call, IsFree, Listed, NextRecord, TypeOK, StagedIsWhole, NoneLeftBehind, DealtWithOnce, CutKeepsTheShelf, Repaired, InFlight, Writing, Staging, Names, Records
<1>12. CASE Retire
  BY <1>12, FilesAssumption, BoundsAssumption DEF Retire, call, TypeOK, StagedIsWhole, NoneLeftBehind, DealtWithOnce, CutKeepsTheShelf, Repaired, InFlight, Writing, Staging, Listed, Names, Records
<1>13. CASE Aside
  BY <1>13, FilesAssumption, BoundsAssumption DEF Aside, call, TypeOK, StagedIsWhole, NoneLeftBehind, DealtWithOnce, CutKeepsTheShelf, Repaired, InFlight, Writing, Staging, Listed, Names, Records
<1>14. CASE Place
  BY <1>14, FilesAssumption, BoundsAssumption DEF Place, call, TypeOK, StagedIsWhole, NoneLeftBehind, DealtWithOnce, CutKeepsTheShelf, Repaired, InFlight, Writing, Staging, Listed, Names, Records
<1>15. CASE PlaceFails
  BY <1>15, FilesAssumption, BoundsAssumption DEF PlaceFails, call, Repaired, TypeOK, StagedIsWhole, NoneLeftBehind, DealtWithOnce, CutKeepsTheShelf, InFlight, Writing, Staging, Listed, Names, Records
<1>16. CASE Clean
  BY <1>16, FilesAssumption, BoundsAssumption DEF Clean, call, TypeOK, StagedIsWhole, NoneLeftBehind, DealtWithOnce, CutKeepsTheShelf, Repaired, InFlight, Writing, Staging, Listed, Names, Records
<1>17. CASE RemoveOld
  BY <1>17, FilesAssumption, BoundsAssumption DEF RemoveOld, call, TypeOK, StagedIsWhole, NoneLeftBehind, DealtWithOnce, CutKeepsTheShelf, Repaired, InFlight, Writing, Staging, Listed, Names, Records
<1>18. CASE Rename
  BY <1>18, FilesAssumption, BoundsAssumption DEF Rename, call, TypeOK, StagedIsWhole, NoneLeftBehind, DealtWithOnce, CutKeepsTheShelf, Repaired, InFlight, Writing, Staging, Listed, Names, Records
<1>19. CASE WriteFails
  BY <1>19, FilesAssumption, BoundsAssumption DEF WriteFails, call, Settle, Repaired, TypeOK, StagedIsWhole, NoneLeftBehind, DealtWithOnce, CutKeepsTheShelf, InFlight, Writing, Staging, Listed, Names, Records
<1>20. CASE PowerCut
  BY <1>20, FilesAssumption, BoundsAssumption DEF PowerCut, call, Settle, Repaired, TypeOK, StagedIsWhole, NoneLeftBehind, DealtWithOnce, CutKeepsTheShelf, InFlight, Writing, Staging, Listed, Names, Records
<1>21. CASE UNCHANGED vars
  BY <1>21, FilesAssumption, BoundsAssumption DEF vars, call, TypeOK, StagedIsWhole, NoneLeftBehind, DealtWithOnce, CutKeepsTheShelf, Repaired, InFlight, Writing, Staging, Listed, Names, Records
<1>. QED BY <1>1, <1>2, <1>3, <1>4, <1>5, <1>6, <1>7, <1>8, <1>9, <1>10, <1>11, <1>12, <1>13, <1>14, <1>15, <1>16, <1>17, <1>18, <1>19, <1>20, <1>21 DEF Next

(* No step leaves a name that held a quote without one. *)
LEMMA StepEmptiesNoName ==
    ASSUME TypeOK, StagedIsWhole, [Next]_vars
    PROVE  \A n \in Names :
               Repaired(n) # Missing /\ Repaired(n)' = Missing =>
                   \/ pc = "idle" /\ shelf'[n] = Missing
                   \/ n = 0 /\ MigrateName
                   \/ pc = "aside" /\ new /\ n = name /\ spare'[n] = Repaired(n)
<1>1. CASE Walk
  BY <1>1, FilesAssumption, BoundsAssumption DEF Walk, call, TypeOK, StagedIsWhole, Repaired, Names, Records, Writing, Staging, Listed
<1>2. CASE PromoteRename
  BY <1>2, FilesAssumption, BoundsAssumption DEF PromoteRename, call, TypeOK, StagedIsWhole, Repaired, Names, Records, Writing, Staging, Listed
<1>3. CASE PromoteFails
  BY <1>3, FilesAssumption, BoundsAssumption DEF PromoteFails, call, TypeOK, StagedIsWhole, Repaired, Names, Records, Writing, Staging, Listed
<1>4. CASE MigrateName
  BY <1>4, FilesAssumption, BoundsAssumption DEF MigrateName, call, IsFree, Listed, TypeOK, StagedIsWhole, Repaired, Names, Records, Writing, Staging
<1>5. CASE MigrationDone
  BY <1>5, FilesAssumption, BoundsAssumption DEF MigrationDone, call, Listed, TypeOK, StagedIsWhole, Repaired, Names, Records, Writing, Staging
<1>6. CASE \E n \in Names : LeaveStaged(n)
  BY <1>6, FilesAssumption, BoundsAssumption DEF LeaveStaged, call, TypeOK, StagedIsWhole, Repaired, Names, Records, Writing, Staging, Listed
<1>7. CASE \E n \in Names : DropTorn(n)
  BY <1>7, FilesAssumption, BoundsAssumption DEF DropTorn, call, TypeOK, StagedIsWhole, Repaired, Names, Records, Writing, Staging, Listed
<1>8. CASE \E n \in Names : Promote(n)
  BY <1>8, FilesAssumption, BoundsAssumption DEF Promote, call, TypeOK, StagedIsWhole, Repaired, Names, Records, Writing, Staging, Listed
<1>9. CASE \E n \in Names : Replace(n)
  BY <1>9, FilesAssumption, BoundsAssumption DEF Replace, call, Listed, NextRecord, TypeOK, StagedIsWhole, Repaired, Names, Records, Writing, Staging
<1>10. CASE \E n \in Names : Remove(n)
  BY <1>10, FilesAssumption, BoundsAssumption DEF Remove, call, Listed, TypeOK, StagedIsWhole, Repaired, Names, Records, Writing, Staging
<1>11. CASE Save
  BY <1>11, FilesAssumption, BoundsAssumption DEF Save, call, IsFree, Listed, NextRecord, TypeOK, StagedIsWhole, Repaired, Names, Records, Writing, Staging
<1>12. CASE Retire
  BY <1>12, FilesAssumption, BoundsAssumption DEF Retire, call, TypeOK, StagedIsWhole, Repaired, Names, Records, Writing, Staging, Listed
<1>13. CASE Aside
  BY <1>13, FilesAssumption, BoundsAssumption DEF Aside, call, TypeOK, StagedIsWhole, Repaired, Names, Records, Writing, Staging, Listed
<1>14. CASE Place
  BY <1>14, FilesAssumption, BoundsAssumption DEF Place, call, TypeOK, StagedIsWhole, Repaired, Names, Records, Writing, Staging, Listed
<1>15. CASE PlaceFails
  BY <1>15, FilesAssumption, BoundsAssumption DEF PlaceFails, call, Repaired, TypeOK, StagedIsWhole, Names, Records, Writing, Staging, Listed
<1>16. CASE Clean
  BY <1>16, FilesAssumption, BoundsAssumption DEF Clean, call, TypeOK, StagedIsWhole, Repaired, Names, Records, Writing, Staging, Listed
<1>17. CASE RemoveOld
  BY <1>17, FilesAssumption, BoundsAssumption DEF RemoveOld, call, TypeOK, StagedIsWhole, Repaired, Names, Records, Writing, Staging, Listed
<1>18. CASE Rename
  BY <1>18, FilesAssumption, BoundsAssumption DEF Rename, call, TypeOK, StagedIsWhole, Repaired, Names, Records, Writing, Staging, Listed
<1>19. CASE WriteFails
  BY <1>19, FilesAssumption, BoundsAssumption DEF WriteFails, call, Settle, Repaired, TypeOK, StagedIsWhole, Names, Records, Writing, Staging, Listed
<1>20. CASE PowerCut
  BY <1>20, FilesAssumption, BoundsAssumption DEF PowerCut, call, Settle, Repaired, TypeOK, StagedIsWhole, Names, Records, Writing, Staging, Listed
<1>21. CASE UNCHANGED vars
  BY <1>21, FilesAssumption, BoundsAssumption DEF vars, call, TypeOK, StagedIsWhole, Repaired, Names, Records, Writing, Staging, Listed
<1>. QED BY <1>1, <1>2, <1>3, <1>4, <1>5, <1>6, <1>7, <1>8, <1>9, <1>10, <1>11, <1>12, <1>13, <1>14, <1>15, <1>16, <1>17, <1>18, <1>19, <1>20, <1>21 DEF Next

LEMMA StepIInv == IInv /\ [Next]_vars => IInv'
BY StepTypeOK, StepStaged, StepNoneLeftBehind, StepShelf DEF IInv

LEMMA Invariance == Spec => []IInv
BY InitIInv, StepIInv, PTL DEF Spec

-----------------------------------------------------------------------------

(* The cards, the walk and the calls of QuoteStore.cpp stay within their     *)
(* types: no record that does not read back ever takes a quote's name.       *)
THEOREM TypesHold == Spec => []TypeOK
<1>1. IInv => TypeOK
  BY DEF IInv
<1>. QED BY <1>1, Invariance, PTL

(* save(), replace(), remove() and migrateNames() of QuoteStore.cpp may lose *)
(* the power between any two card operations: what was reported is what the  *)
(* next visit shows.                                                         *)
THEOREM CutsKeepTheShelf == Spec => []CutKeepsTheShelf
<1>1. IInv => CutKeepsTheShelf
  BY DEF IInv
<1>. QED BY <1>1, Invariance, PTL

(* replace() and repairStaged() remove the old record only with a whole      *)
(* staged one beside it, so no failure of any later step empties the name;   *)
(* only writeDocToFile() for a new quote sets aside what is staged under a   *)
(* name without a record.                                                    *)
THEOREM NamesAreNotEmptied == Spec => NoNameEmptied
<1>1. IInv /\ [Next]_vars =>
        [\A n \in Names :
           Repaired(n) # Missing /\ Repaired(n)' = Missing =>
               \/ pc = "idle" /\ shelf'[n] = Missing
               \/ n = 0 /\ MigrateName
               \/ pc = "aside" /\ new /\ n = name /\ spare'[n] = Repaired(n)]_vars
  BY StepEmptiesNoName DEF IInv
<1>. QED BY <1>1, Invariance, PTL DEF Spec, NoNameEmptied
=============================================================================

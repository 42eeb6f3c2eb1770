------------------------ MODULE SnapshotFileProofs ------------------------
(* For every number of documents: a saved or reset ledger is what the next  *)
(* boot reads, a store that may write descends from it, and the files       *)
(* implement an atomically replaced document.                               *)
EXTENDS SnapshotFile, TLAPS

(* What a card operation finds where it starts: the staged document is      *)
(* whole and in its place, writeSnapshot() knows whether the main file is,  *)
(* and no save runs beside a committed reset.                               *)
Staged ==
    /\ pc = "aside" => spare = Missing
    /\ pc = "place" => tmp = Missing
    /\ pc \in {"clean", "drop", "move", "promote"} => tmp = doc
    /\ pc \in Saving => journal = Missing
    /\ pc \in {"finishBak", "finishMain", "finishRename"} => journal \in Nat
    /\ pc \in Saving /\ pc # "promote" /\ keep => main \in Nat
    /\ pc \in Saving /\ pc # "promote" /\ ~keep => main \notin Nat
    /\ pc = "move" => keep
    /\ pc \in Saving \cup {"finishMain", "finishRename"} => ~known
    /\ known => main \in Nat
    /\ saved <= doc

(* Once something was reported as written, a file that loadFromFile() counts *)
(* as a ledger holds statistics at every moment.                            *)
Held == saved > 0 /\ journal = Missing /\ main \notin Nat => bak \in Nat

IInv ==
    /\ TypeOK
    /\ Staged
    /\ Held
    /\ SavedIsKept
    /\ NothingForgotten

-----------------------------------------------------------------------------

(* What a boot reads is a document, or there is none. *)
LEMMA RecoveredType == TypeOK => Recovered \in Documents \cup {Missing}
BY FilesAssumption DEF TypeOK, Recovered, Exists, Documents

(* A step leaves what a boot reads, or puts the document being written in    *)
(* its place.                                                               *)
LEMMA StepCommits ==
    ASSUME TypeOK, Staged, [Next]_vars
    PROVE  Recovered' = Recovered \/ Recovered' = doc
<1>1. CASE Load
  BY <1>1, FilesAssumption, WritesAssumption DEF Load, MayLoad, StagedRead, card, store, Saving, Resetting, Exists, TypeOK, Staged, Recovered, Documents
<1>2. CASE LoadFails
  BY <1>2, FilesAssumption, WritesAssumption DEF LoadFails, MayLoad, card, store, Saving, Resetting, Exists, TypeOK, Staged, Recovered, Documents
<1>3. CASE PowerCut
  BY <1>3, FilesAssumption, WritesAssumption DEF PowerCut, card, store, Saving, Resetting, Exists, TypeOK, Staged, Recovered, Documents
<1>4. CASE CardFails
  BY <1>4, FilesAssumption, WritesAssumption DEF CardFails, card, store, Saving, Resetting, Exists, TypeOK, Staged, Recovered, Documents
<1>5. CASE Save
  BY <1>5, FilesAssumption, WritesAssumption DEF Save, NextDocument, card, store, Saving, Resetting, Exists, TypeOK, Staged, Recovered, Documents
<1>6. CASE Retire
  BY <1>6, FilesAssumption, WritesAssumption DEF Retire, card, store, Saving, Resetting, Exists, TypeOK, Staged, Recovered, Documents
<1>7. CASE Aside
  BY <1>7, FilesAssumption, WritesAssumption DEF Aside, card, store, Saving, Resetting, Exists, TypeOK, Staged, Recovered, Documents
<1>8. CASE Place
  BY <1>8, FilesAssumption, WritesAssumption DEF Place, card, store, Saving, Resetting, Exists, TypeOK, Staged, Recovered, Documents
<1>9. CASE PlaceFails
  BY <1>9, FilesAssumption, WritesAssumption DEF PlaceFails, card, store, Saving, Resetting, Exists, TypeOK, Staged, Recovered, Documents
<1>10. CASE Clean
  BY <1>10, FilesAssumption, WritesAssumption DEF Clean, card, store, Saving, Resetting, Exists, TypeOK, Staged, Recovered, Documents
<1>11. CASE DropBak
  BY <1>11, FilesAssumption, WritesAssumption DEF DropBak, card, store, Saving, Resetting, Exists, TypeOK, Staged, Recovered, Documents
<1>12. CASE MoveMain
  BY <1>12, FilesAssumption, WritesAssumption DEF MoveMain, card, store, Saving, Resetting, Exists, TypeOK, Staged, Recovered, Documents
<1>13. CASE DropMain
  BY <1>13, FilesAssumption, WritesAssumption DEF DropMain, card, store, Saving, Resetting, Exists, TypeOK, Staged, Recovered, Documents
<1>14. CASE Promote
  BY <1>14, FilesAssumption, WritesAssumption DEF Promote, card, store, Saving, Resetting, Exists, TypeOK, Staged, Recovered, Documents
<1>15. CASE Reset
  BY <1>15, FilesAssumption, WritesAssumption DEF Reset, NextDocument, card, store, Saving, Resetting, Exists, TypeOK, Staged, Recovered, Documents
<1>16. CASE CommitReset
  BY <1>16, FilesAssumption, WritesAssumption DEF CommitReset, card, store, Saving, Resetting, Exists, TypeOK, Staged, Recovered, Documents
<1>17. CASE FinishBak
  BY <1>17, FilesAssumption, WritesAssumption DEF FinishBak, card, store, Saving, Resetting, Exists, TypeOK, Staged, Recovered, Documents
<1>18. CASE FinishMain
  BY <1>18, FilesAssumption, WritesAssumption DEF FinishMain, card, store, Saving, Resetting, Exists, TypeOK, Staged, Recovered, Documents
<1>19. CASE FinishRename
  BY <1>19, FilesAssumption, WritesAssumption DEF FinishRename, card, store, Saving, Resetting, Exists, TypeOK, Staged, Recovered, Documents
<1>20. CASE UNCHANGED vars
  BY <1>20, FilesAssumption, WritesAssumption DEF vars, card, store, Saving, Resetting, Exists, TypeOK, Staged, Recovered, Documents
<1>. QED BY <1>1, <1>2, <1>3, <1>4, <1>5, <1>6, <1>7, <1>8, <1>9, <1>10, <1>11, <1>12, <1>13, <1>14, <1>15, <1>16, <1>17, <1>18, <1>19, <1>20 DEF Next

(* Every step keeps the types. *)
LEMMA StepTypeOK ==
    ASSUME TypeOK, Staged, [Next]_vars
    PROVE  TypeOK'
<1>1. CASE Load
  <2>1. Recovered \in Documents
    BY <1>1, RecoveredType DEF Load, Exists
  <2>. QED BY <1>1, <2>1, FilesAssumption DEF Load, MayLoad, StagedRead, TypeOK, Saving, Resetting, Documents
<1>2. CASE LoadFails
  BY <1>2, FilesAssumption, WritesAssumption DEF LoadFails, MayLoad, card, store, Saving, Resetting, Exists, TypeOK, Staged, Documents
<1>3. CASE PowerCut
  <2>1. ram' \in Documents /\ pc' \in {"boot", "idle"} \cup Saving \cup Resetting
    BY <1>3, WritesAssumption DEF PowerCut, Documents
  <2>2. readable' \in BOOLEAN /\ known' \in BOOLEAN
    BY <1>3 DEF PowerCut
  <2>. QED BY <1>3, <2>1, <2>2 DEF PowerCut, card, TypeOK
<1>4. CASE CardFails
  BY <1>4, FilesAssumption, WritesAssumption DEF CardFails, card, store, Saving, Resetting, Exists, TypeOK, Staged, Documents
<1>5. CASE Save
  <2>1. keep' \in BOOLEAN
    <3>1. CASE main \in Nat
      BY <1>5, <3>1 DEF Save
    <3>2. CASE main \notin Nat
      BY <1>5, <3>2 DEF Save
    <3>. QED BY <3>1, <3>2
  <2>2. doc' \in Documents
    BY <1>5, WritesAssumption DEF Save, NextDocument, TypeOK, Documents
  <2>3. pc' \in {"boot", "idle"} \cup Saving \cup Resetting
    BY <1>5 DEF Save, Saving
  <2>. QED BY <1>5, <2>1, <2>2, <2>3 DEF Save, card, TypeOK
<1>6. CASE Retire
  BY <1>6, FilesAssumption, WritesAssumption DEF Retire, card, store, Saving, Resetting, Exists, TypeOK, Staged, Documents
<1>7. CASE Aside
  BY <1>7, FilesAssumption, WritesAssumption DEF Aside, card, store, Saving, Resetting, Exists, TypeOK, Staged, Documents
<1>8. CASE Place
  BY <1>8, FilesAssumption, WritesAssumption DEF Place, card, store, Saving, Resetting, Exists, TypeOK, Staged, Documents
<1>9. CASE PlaceFails
  BY <1>9, FilesAssumption, WritesAssumption DEF PlaceFails, card, store, Saving, Resetting, Exists, TypeOK, Staged, Documents
<1>10. CASE Clean
  BY <1>10, FilesAssumption, WritesAssumption DEF Clean, card, store, Saving, Resetting, Exists, TypeOK, Staged, Documents
<1>11. CASE DropBak
  BY <1>11, FilesAssumption, WritesAssumption DEF DropBak, card, store, Saving, Resetting, Exists, TypeOK, Staged, Documents
<1>12. CASE MoveMain
  BY <1>12, FilesAssumption, WritesAssumption DEF MoveMain, card, store, Saving, Resetting, Exists, TypeOK, Staged, Documents
<1>13. CASE DropMain
  BY <1>13, FilesAssumption, WritesAssumption DEF DropMain, card, store, Saving, Resetting, Exists, TypeOK, Staged, Documents
<1>14. CASE Promote
  BY <1>14, FilesAssumption, WritesAssumption DEF Promote, card, store, Saving, Resetting, Exists, TypeOK, Staged, Documents
<1>15. CASE Reset
  BY <1>15, FilesAssumption, WritesAssumption DEF Reset, NextDocument, card, store, Saving, Resetting, Exists, TypeOK, Staged, Documents
<1>16. CASE CommitReset
  BY <1>16, FilesAssumption, WritesAssumption DEF CommitReset, card, store, Saving, Resetting, Exists, TypeOK, Staged, Documents
<1>17. CASE FinishBak
  BY <1>17, FilesAssumption, WritesAssumption DEF FinishBak, card, store, Saving, Resetting, Exists, TypeOK, Staged, Documents
<1>18. CASE FinishMain
  BY <1>18, FilesAssumption, WritesAssumption DEF FinishMain, card, store, Saving, Resetting, Exists, TypeOK, Staged, Documents
<1>19. CASE FinishRename
  BY <1>19, FilesAssumption, WritesAssumption DEF FinishRename, card, store, Saving, Resetting, Exists, TypeOK, Staged, Documents
<1>20. CASE UNCHANGED vars
  BY <1>20, FilesAssumption, WritesAssumption DEF vars, card, store, Saving, Resetting, Exists, TypeOK, Staged, Documents
<1>. QED BY <1>1, <1>2, <1>3, <1>4, <1>5, <1>6, <1>7, <1>8, <1>9, <1>10, <1>11, <1>12, <1>13, <1>14, <1>15, <1>16, <1>17, <1>18, <1>19, <1>20 DEF Next

(* Every card operation hands on what the next one relies on. *)
LEMMA StepStaged ==
    ASSUME TypeOK, Staged, [Next]_vars
    PROVE  Staged'
<1>1. CASE Load
  BY <1>1, FilesAssumption, WritesAssumption DEF Load, MayLoad, StagedRead, card, store, Saving, Resetting, Exists, TypeOK, Staged, Documents
<1>2. CASE LoadFails
  BY <1>2, FilesAssumption, WritesAssumption DEF LoadFails, MayLoad, card, store, Saving, Resetting, Exists, TypeOK, Staged, Documents
<1>3. CASE PowerCut
  BY <1>3, FilesAssumption, WritesAssumption DEF PowerCut, card, store, Saving, Resetting, Exists, TypeOK, Staged, Documents
<1>4. CASE CardFails
  BY <1>4, FilesAssumption, WritesAssumption DEF CardFails, card, store, Saving, Resetting, Exists, TypeOK, Staged, Documents
<1>5. CASE Save
  <2>1. (keep' <=> main' \in Nat) /\ ~known'
    BY <1>5 DEF Save, card, Staged
  <2>2. pc' = "retire" /\ journal' = Missing
    BY <1>5 DEF Save, card, Exists
  <2>3. saved' <= doc'
    BY <1>5 DEF Save, NextDocument, TypeOK, Staged, Documents
  <2>. QED BY <2>1, <2>2, <2>3 DEF Staged
<1>6. CASE Retire
  BY <1>6, FilesAssumption, WritesAssumption DEF Retire, card, store, Saving, Resetting, Exists, TypeOK, Staged, Documents
<1>7. CASE Aside
  BY <1>7, FilesAssumption, WritesAssumption DEF Aside, card, store, Saving, Resetting, Exists, TypeOK, Staged, Documents
<1>8. CASE Place
  BY <1>8, FilesAssumption, WritesAssumption DEF Place, card, store, Saving, Resetting, Exists, TypeOK, Staged, Documents
<1>9. CASE PlaceFails
  BY <1>9, FilesAssumption, WritesAssumption DEF PlaceFails, card, store, Saving, Resetting, Exists, TypeOK, Staged, Documents
<1>10. CASE Clean
  BY <1>10, FilesAssumption, WritesAssumption DEF Clean, card, store, Saving, Resetting, Exists, TypeOK, Staged, Documents
<1>11. CASE DropBak
  BY <1>11, FilesAssumption, WritesAssumption DEF DropBak, card, store, Saving, Resetting, Exists, TypeOK, Staged, Documents
<1>12. CASE MoveMain
  BY <1>12, FilesAssumption, WritesAssumption DEF MoveMain, card, store, Saving, Resetting, Exists, TypeOK, Staged, Documents
<1>13. CASE DropMain
  BY <1>13, FilesAssumption, WritesAssumption DEF DropMain, card, store, Saving, Resetting, Exists, TypeOK, Staged, Documents
<1>14. CASE Promote
  BY <1>14, FilesAssumption, WritesAssumption DEF Promote, card, store, Saving, Resetting, Exists, TypeOK, Staged, Documents
<1>15. CASE Reset
  BY <1>15, FilesAssumption, WritesAssumption DEF Reset, NextDocument, card, store, Saving, Resetting, Exists, TypeOK, Staged, Documents
<1>16. CASE CommitReset
  BY <1>16, FilesAssumption, WritesAssumption DEF CommitReset, card, store, Saving, Resetting, Exists, TypeOK, Staged, Documents
<1>17. CASE FinishBak
  BY <1>17, FilesAssumption, WritesAssumption DEF FinishBak, card, store, Saving, Resetting, Exists, TypeOK, Staged, Documents
<1>18. CASE FinishMain
  BY <1>18, FilesAssumption, WritesAssumption DEF FinishMain, card, store, Saving, Resetting, Exists, TypeOK, Staged, Documents
<1>19. CASE FinishRename
  BY <1>19, FilesAssumption, WritesAssumption DEF FinishRename, card, store, Saving, Resetting, Exists, TypeOK, Staged, Documents
<1>20. CASE UNCHANGED vars
  BY <1>20, FilesAssumption, WritesAssumption DEF vars, card, store, Saving, Resetting, Exists, TypeOK, Staged, Documents
<1>. QED BY <1>1, <1>2, <1>3, <1>4, <1>5, <1>6, <1>7, <1>8, <1>9, <1>10, <1>11, <1>12, <1>13, <1>14, <1>15, <1>16, <1>17, <1>18, <1>19, <1>20 DEF Next

(* The main file leaves only behind a .bak or a journal. *)
LEMMA StepHeld ==
    ASSUME TypeOK, Staged, Held, [Next]_vars
    PROVE  Held'
<1>1. CASE Load
  BY <1>1, FilesAssumption, WritesAssumption DEF Load, MayLoad, StagedRead, card, store, Saving, Resetting, Exists, TypeOK, Staged, Held, Documents
<1>2. CASE LoadFails
  BY <1>2, FilesAssumption, WritesAssumption DEF LoadFails, MayLoad, card, store, Saving, Resetting, Exists, TypeOK, Staged, Held, Documents
<1>3. CASE PowerCut
  BY <1>3, FilesAssumption, WritesAssumption DEF PowerCut, card, store, Saving, Resetting, Exists, TypeOK, Staged, Held, Documents
<1>4. CASE CardFails
  BY <1>4, FilesAssumption, WritesAssumption DEF CardFails, card, store, Saving, Resetting, Exists, TypeOK, Staged, Held, Documents
<1>5. CASE Save
  BY <1>5, FilesAssumption, WritesAssumption DEF Save, NextDocument, card, store, Saving, Resetting, Exists, TypeOK, Staged, Held, Documents
<1>6. CASE Retire
  BY <1>6, FilesAssumption, WritesAssumption DEF Retire, card, store, Saving, Resetting, Exists, TypeOK, Staged, Held, Documents
<1>7. CASE Aside
  BY <1>7, FilesAssumption, WritesAssumption DEF Aside, card, store, Saving, Resetting, Exists, TypeOK, Staged, Held, Documents
<1>8. CASE Place
  BY <1>8, FilesAssumption, WritesAssumption DEF Place, card, store, Saving, Resetting, Exists, TypeOK, Staged, Held, Documents
<1>9. CASE PlaceFails
  BY <1>9, FilesAssumption, WritesAssumption DEF PlaceFails, card, store, Saving, Resetting, Exists, TypeOK, Staged, Held, Documents
<1>10. CASE Clean
  BY <1>10, FilesAssumption, WritesAssumption DEF Clean, card, store, Saving, Resetting, Exists, TypeOK, Staged, Held, Documents
<1>11. CASE DropBak
  BY <1>11, FilesAssumption, WritesAssumption DEF DropBak, card, store, Saving, Resetting, Exists, TypeOK, Staged, Held, Documents
<1>12. CASE MoveMain
  BY <1>12, FilesAssumption, WritesAssumption DEF MoveMain, card, store, Saving, Resetting, Exists, TypeOK, Staged, Held, Documents
<1>13. CASE DropMain
  BY <1>13, FilesAssumption, WritesAssumption DEF DropMain, card, store, Saving, Resetting, Exists, TypeOK, Staged, Held, Documents
<1>14. CASE Promote
  BY <1>14, FilesAssumption, WritesAssumption DEF Promote, card, store, Saving, Resetting, Exists, TypeOK, Staged, Held, Documents
<1>15. CASE Reset
  BY <1>15, FilesAssumption, WritesAssumption DEF Reset, NextDocument, card, store, Saving, Resetting, Exists, TypeOK, Staged, Held, Documents
<1>16. CASE CommitReset
  BY <1>16, FilesAssumption, WritesAssumption DEF CommitReset, card, store, Saving, Resetting, Exists, TypeOK, Staged, Held, Documents
<1>17. CASE FinishBak
  BY <1>17, FilesAssumption, WritesAssumption DEF FinishBak, card, store, Saving, Resetting, Exists, TypeOK, Staged, Held, Documents
<1>18. CASE FinishMain
  BY <1>18, FilesAssumption, WritesAssumption DEF FinishMain, card, store, Saving, Resetting, Exists, TypeOK, Staged, Held, Documents
<1>19. CASE FinishRename
  BY <1>19, FilesAssumption, WritesAssumption DEF FinishRename, card, store, Saving, Resetting, Exists, TypeOK, Staged, Held, Documents
<1>20. CASE UNCHANGED vars
  BY <1>20, FilesAssumption, WritesAssumption DEF vars, card, store, Saving, Resetting, Exists, TypeOK, Staged, Held, Documents
<1>. QED BY <1>1, <1>2, <1>3, <1>4, <1>5, <1>6, <1>7, <1>8, <1>9, <1>10, <1>11, <1>12, <1>13, <1>14, <1>15, <1>16, <1>17, <1>18, <1>19, <1>20 DEF Next

(* Only a promoted file or a committed journal is reported as written. *)
LEMMA StepSaved ==
    ASSUME TypeOK, Staged, SavedIsKept, [Next]_vars
    PROVE  SavedIsKept'
<1>1. CASE Promote
  BY <1>1, FilesAssumption DEF Promote, SavedIsKept, Recovered, Exists, TypeOK, Staged, Saving, Documents
<1>2. CASE CommitReset
  BY <1>2, FilesAssumption DEF CommitReset, SavedIsKept, Recovered, Exists, TypeOK, Documents
<1>3. CASE ~Promote /\ ~CommitReset
  <2>1. saved' = saved
    BY <1>3 DEF Next, vars, Load, MayLoad, StagedRead, LoadFails, MayLoad, PowerCut, CardFails, Save, NextDocument, Retire, Aside, Place, PlaceFails, Clean, DropBak, MoveMain, DropMain, Reset, NextDocument, FinishBak, FinishMain, FinishRename
  <2>2. saved <= doc /\ saved \in Nat /\ doc \in Nat
    BY DEF TypeOK, Staged, Documents
  <2>3. Recovered' = Recovered \/ Recovered' = doc
    BY StepCommits
  <2>. QED BY <2>1, <2>2, <2>3 DEF SavedIsKept
<1>. QED BY <1>1, <1>2, <1>3

(* A store opens only over what it has loaded, or over no ledger at all. *)
LEMMA StepForgets ==
    ASSUME TypeOK, Staged, Held, SavedIsKept, NothingForgotten, [Next]_vars
    PROVE  NothingForgotten'
<1>1. CASE Load
  BY <1>1, RecoveredType, FilesAssumption DEF Load, SavedIsKept, NothingForgotten, TypeOK, Exists, Documents
<1>2. CASE LoadFails
  <2>1. readable' => ~LedgerExists
    BY <1>2 DEF LoadFails
  <2>2. SUFFICES ASSUME ~LedgerExists
                 PROVE  ram' >= saved'
    BY <2>1 DEF NothingForgotten
  <2>3. journal = Missing /\ main = Missing /\ bak = Missing
    BY <2>2 DEF LedgerExists, Exists
  <2>4. ram \in Nat /\ saved \in Nat /\ ~(saved > 0)
    BY <2>3, FilesAssumption DEF Held, TypeOK, Documents
  <2>5. ram' = ram /\ saved' = saved
    BY <1>2 DEF LoadFails
  <2>. QED BY <2>4, <2>5
<1>3. CASE PowerCut
  BY <1>3, FilesAssumption, WritesAssumption DEF PowerCut, card, store, Saving, Resetting, Exists, TypeOK, Staged, NothingForgotten, Documents
<1>4. CASE CardFails
  BY <1>4, FilesAssumption, WritesAssumption DEF CardFails, card, store, Saving, Resetting, Exists, TypeOK, Staged, NothingForgotten, Documents
<1>5. CASE Save
  BY <1>5, FilesAssumption, WritesAssumption DEF Save, NextDocument, card, store, Saving, Resetting, Exists, TypeOK, Staged, NothingForgotten, Documents
<1>6. CASE Retire
  BY <1>6, FilesAssumption, WritesAssumption DEF Retire, card, store, Saving, Resetting, Exists, TypeOK, Staged, NothingForgotten, Documents
<1>7. CASE Aside
  BY <1>7, FilesAssumption, WritesAssumption DEF Aside, card, store, Saving, Resetting, Exists, TypeOK, Staged, NothingForgotten, Documents
<1>8. CASE Place
  BY <1>8, FilesAssumption, WritesAssumption DEF Place, card, store, Saving, Resetting, Exists, TypeOK, Staged, NothingForgotten, Documents
<1>9. CASE PlaceFails
  BY <1>9, FilesAssumption, WritesAssumption DEF PlaceFails, card, store, Saving, Resetting, Exists, TypeOK, Staged, NothingForgotten, Documents
<1>10. CASE Clean
  BY <1>10, FilesAssumption, WritesAssumption DEF Clean, card, store, Saving, Resetting, Exists, TypeOK, Staged, NothingForgotten, Documents
<1>11. CASE DropBak
  BY <1>11, FilesAssumption, WritesAssumption DEF DropBak, card, store, Saving, Resetting, Exists, TypeOK, Staged, NothingForgotten, Documents
<1>12. CASE MoveMain
  BY <1>12, FilesAssumption, WritesAssumption DEF MoveMain, card, store, Saving, Resetting, Exists, TypeOK, Staged, NothingForgotten, Documents
<1>13. CASE DropMain
  BY <1>13, FilesAssumption, WritesAssumption DEF DropMain, card, store, Saving, Resetting, Exists, TypeOK, Staged, NothingForgotten, Documents
<1>14. CASE Promote
  BY <1>14, FilesAssumption, WritesAssumption DEF Promote, card, store, Saving, Resetting, Exists, TypeOK, Staged, NothingForgotten, Documents
<1>15. CASE Reset
  BY <1>15, FilesAssumption, WritesAssumption DEF Reset, NextDocument, card, store, Saving, Resetting, Exists, TypeOK, Staged, NothingForgotten, Documents
<1>16. CASE CommitReset
  BY <1>16, FilesAssumption, WritesAssumption DEF CommitReset, card, store, Saving, Resetting, Exists, TypeOK, Staged, NothingForgotten, Documents
<1>17. CASE FinishBak
  BY <1>17, FilesAssumption, WritesAssumption DEF FinishBak, card, store, Saving, Resetting, Exists, TypeOK, Staged, NothingForgotten, Documents
<1>18. CASE FinishMain
  BY <1>18, FilesAssumption, WritesAssumption DEF FinishMain, card, store, Saving, Resetting, Exists, TypeOK, Staged, NothingForgotten, Documents
<1>19. CASE FinishRename
  BY <1>19, FilesAssumption, WritesAssumption DEF FinishRename, card, store, Saving, Resetting, Exists, TypeOK, Staged, NothingForgotten, Documents
<1>20. CASE UNCHANGED vars
  BY <1>20, FilesAssumption, WritesAssumption DEF vars, card, store, Saving, Resetting, Exists, TypeOK, Staged, NothingForgotten, Documents
<1>. QED BY <1>1, <1>2, <1>3, <1>4, <1>5, <1>6, <1>7, <1>8, <1>9, <1>10, <1>11, <1>12, <1>13, <1>14, <1>15, <1>16, <1>17, <1>18, <1>19, <1>20 DEF Next

LEMMA InitIInv == Init => IInv
<1>. SUFFICES ASSUME Init
              PROVE  IInv
  OBVIOUS
<1>1. {0, 1} \subseteq Documents
  BY WritesAssumption DEF Documents
<1>2. readable \in BOOLEAN /\ known \in BOOLEAN /\ keep \in BOOLEAN
  BY DEF Init
<1>3. TypeOK
  BY <1>1, <1>2 DEF Init, TypeOK
<1>4. Staged /\ Held
  BY DEF Init, Staged, Held, Saving
<1>5. SavedIsKept /\ NothingForgotten
  BY DEF Init, SavedIsKept, NothingForgotten
<1>. QED BY <1>3, <1>4, <1>5 DEF IInv

(* The five parts hold together in every reachable state. *)
THEOREM Inductive == Spec => []IInv
<1>1. IInv /\ [Next]_vars => IInv'
  BY StepTypeOK, StepStaged, StepHeld, StepSaved, StepForgets DEF IInv
<1>. QED BY InitIInv, <1>1, PTL DEF Spec

(* Every variable keeps its type: .bak, .tmp and the journal are never torn. *)
THEOREM TypeCorrect == Spec => []TypeOK
<1>1. IInv => TypeOK
  BY DEF IInv
<1>. QED BY Inductive, <1>1, PTL

(* What was reported as written is what the next boot reads, or newer, and a *)
(* store that may write descends from it.                                    *)
THEOREM WrittenSurvives == Spec => []WrittenIsKept
<1>1. IInv => WrittenIsKept
  BY DEF IInv, WrittenIsKept
<1>. QED BY Inductive, <1>1, PTL

(* The files, the journal and the copies implement one document that is     *)
(* replaced in one step.                                                    *)
THEOREM ImplementsSnapshot == Spec => ImplementsAtomicSnapshot
<1>1. IInv /\ [Next]_vars => [Snapshot!Ask \/ Snapshot!Commit]_<<Recovered, doc>>
  BY StepCommits DEF IInv, Snapshot!Ask, Snapshot!Commit
<1>. QED BY Inductive, <1>1, PTL DEF Spec, ImplementsAtomicSnapshot, Snapshot!Spec
=============================================================================

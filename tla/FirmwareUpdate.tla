--------------------------- MODULE FirmwareUpdate ---------------------------
(***************************************************************************)
(* The two ways a new firmware gets onto the device: the download of the    *)
(* release (OtaUpdater::installUpdate) and a file on the card               *)
(* (SdFirmwareUpdateActivity, firmware_flash::flashFromSdPath), both into   *)
(* the application slot that is not running; the two sectors of boot data   *)
(* that choose the slot (ota_boot::switchTo); and the boot, which undoes a  *)
(* firmware that never gets to its first paint.                             *)
(*                                                                         *)
(* External, as src/ relies on them: the bootloader (with or without the   *)
(* undoing, which the factory builds differ in) and the OTA calls of the    *)
(* SDK, of which the one that selects a slot rewrites the boot data as      *)
(* switchTo() does.  An image is part (torn, short or of another device),   *)
(* whole, or faulty: whole, but its start fails.  Power may go at any step. *)
(*                                                                         *)
(* "Slip" marks the definition after it as a plausible bug would have it.   *)
(***************************************************************************)
EXTENDS Naturals

CONSTANT MaxSeq    \* bound: the updates stop here, far below the counter's 2^32 - 1

ASSUME SeqAssumption == MaxSeq \in Nat

Slots == 0..1      \* ota_0 and ota_1; and the two sectors of the boot data
Images == {"part", "whole", "faulty"}

VARIABLES
    pc,       \* where the device is
    image,    \* what each application slot holds
    entry,    \* the boot data: its number (0: erased or torn) and its state
    run,      \* the slot that runs
    undoes,   \* the bootloader undoes a start that was not confirmed
    file      \* the firmware on the card

vars == <<pc, image, entry, run, undoes, file>>

TypeOK ==
    /\ pc \in {"off", "setup", "idle", "download", "ask", "flash", "erase", "write", "done"}
    /\ image \in [Slots -> Images] /\ run \in Slots /\ undoes \in BOOLEAN
    /\ entry \in [Slots -> [seq : 0..MaxSeq, state : {"new", "pending", "valid", "aborted"}]]
    /\ file \in Images

Selects(e) == e.seq > 0 /\ e.state # "aborted"

\* The sector whose entry counts: the highest number.
Active(e) ==
    CHOOSE i \in Slots : Selects(e[i]) /\ \A j \in Slots : Selects(e[j]) => e[j].seq <= e[i].seq

NoneSelects(e) == \A i \in Slots : ~Selects(e[i])

\* The slot that the boot data chooses.
Chosen(e) == IF NoneSelects(e) THEN 0 ELSE (e[Active(e)].seq - 1) % 2

Boots(s) == image[s] # "part"
Other(s) == 1 - s

Init ==
    /\ pc = "off" /\ image \in [Slots -> {"part", "whole"}] /\ image[0] = "whole"
    /\ entry = [i \in Slots |-> [seq |-> 0, state |-> "valid"]]
    /\ run = 0 /\ undoes \in BOOLEAN /\ file \in Images

-----------------------------------------------------------------------------
(* The bootloader and setup().                                              *)

\* A start that was not confirmed is undone.
Undone == [i \in Slots |-> IF undoes /\ entry[i].state = "pending"
                             THEN [entry[i] EXCEPT !.state = "aborted"] ELSE entry[i]]

\* The first start of a new entry is marked.
Marked(e) == IF undoes /\ ~NoneSelects(e) /\ e[Active(e)].state = "new"
               THEN [e EXCEPT ![Active(e)].state = "pending"] ELSE e

\* An image that cannot be loaded is passed over for the other one.
Boot ==
    /\ pc = "off" /\ entry' = Marked(Undone) /\ pc' = "setup"
    /\ run' \in {s \in Slots : Boots(s) /\ (s # Chosen(Undone) => ~Boots(Chosen(Undone)))}
    /\ UNCHANGED <<image, undoes, file>>

\* Slip: the firmware confirms itself before it has started.
FirstPaintEarly ==
    /\ pc = "setup" /\ pc' = IF image[run] = "faulty" THEN "off" ELSE "idle"
    /\ entry' = [i \in Slots |-> IF entry[i].state = "pending"
                                   THEN [entry[i] EXCEPT !.state = "valid"] ELSE entry[i]]
    /\ UNCHANGED <<image, run, undoes, file>>

\* After the first physical paint a pending entry is confirmed.
FirstPaint ==
    /\ pc = "setup" /\ image[run] # "faulty" /\ pc' = "idle"
    /\ entry' = [i \in Slots |-> IF entry[i].state = "pending"
                                   THEN [entry[i] EXCEPT !.state = "valid"] ELSE entry[i]]
    /\ UNCHANGED <<image, run, undoes, file>>

\* A faulty firmware resets before that.
StartFails ==
    /\ pc = "setup" /\ image[run] = "faulty" /\ pc' = "off"
    /\ UNCHANGED <<image, entry, run, undoes, file>>

-----------------------------------------------------------------------------
(* OtaUpdater::installUpdate(); a cancellation and a failure end alike.     *)

\* esp_ota_begin() on the next slot, which is erased.
DownloadBegins ==
    /\ pc = "idle" /\ pc' = "download" /\ image' = [image EXCEPT ![Other(run)] = "part"]
    /\ UNCHANGED <<entry, run, undoes, file>>

\* Cancelled, another device's, cut short, not the release's digest, or not verified.
DownloadFails ==
    /\ pc = "download" /\ pc' = "idle"
    /\ image' \in {image} \cup {[image EXCEPT ![Other(run)] = i] : i \in Images}
    /\ UNCHANGED <<entry, run, undoes, file>>

\* Complete and as announced, so it is selected.
Downloaded ==
    /\ pc = "download" /\ pc' = "erase"
    /\ \E i \in {"whole", "faulty"} : image' = [image EXCEPT ![Other(run)] = i]
    /\ UNCHANGED <<entry, run, undoes, file>>

-----------------------------------------------------------------------------
(* SdFirmwareUpdateActivity.                                                *)

\* The file is picked and passes validateImageFile().
Picked ==
    /\ pc = "idle" /\ file # "part" /\ pc' = "ask"
    /\ UNCHANGED <<image, entry, run, undoes, file>>

\* The card can be taken out and changed while the person is asked, and between updates.
ChangeCard ==
    /\ pc \in {"idle", "ask"} /\ file' \in Images
    /\ UNCHANGED <<pc, image, entry, run, undoes>>

Refuse ==
    /\ pc = "ask" /\ pc' = "idle"
    /\ UNCHANGED <<image, entry, run, undoes, file>>

\* Slip: the flasher trusts the validation that came before the question.
ConfirmTrusting ==
    /\ pc = "ask" /\ pc' = "flash"
    /\ image' = [image EXCEPT ![Other(run)] = "part"]
    /\ UNCHANGED <<entry, run, undoes, file>>

\* flashFromSdPath() validates again and erases the first block.
Confirm ==
    /\ pc = "ask"
    /\ \/ file # "part" /\ pc' = "flash" /\ image' = [image EXCEPT ![Other(run)] = "part"]
       \/ pc' = "idle" /\ UNCHANGED image
    /\ UNCHANGED <<entry, run, undoes, file>>

\* A block cannot be erased, read or written.
FlashFails ==
    /\ pc = "flash" /\ pc' = "idle"
    /\ UNCHANGED <<image, entry, run, undoes, file>>

Flashed ==
    /\ pc = "flash" /\ pc' = "erase" /\ image' = [image EXCEPT ![Other(run)] = file]
    /\ UNCHANGED <<entry, run, undoes, file>>

-----------------------------------------------------------------------------
(* ota_boot::switchTo(), and esp_ota_set_boot_partition().                  *)

ActiveSeq == IF NoneSelects(entry) THEN 0 ELSE entry[Active(entry)].seq

\* The smallest number above the active one that stands for the slot.
NextSeq(s) == IF ActiveSeq % 2 = s THEN ActiveSeq + 1 ELSE ActiveSeq + 2

\* Slip: the active entry is overwritten.
TargetActive == IF NoneSelects(entry) THEN 0 ELSE Active(entry)

\* The sector beside the active one.
Target == IF NoneSelects(entry) THEN 0 ELSE Other(Active(entry))

\* A sector that could not be erased may be torn, too.
Erase ==
    /\ pc = "erase" /\ NextSeq(Other(run)) <= MaxSeq
    /\ \/ pc' = "write" /\ entry' = [entry EXCEPT ![Target].seq = 0]
       \/ pc' = "idle" /\ entry' \in {entry, [entry EXCEPT ![Target].seq = 0]}
    /\ UNCHANGED <<image, run, undoes, file>>

Write ==
    /\ pc = "write"
    /\ \/ /\ pc' = "done"
          /\ entry' = [entry EXCEPT ![Target] = [seq |-> NextSeq(Other(run)), state |-> "new"]]
       \/ pc' = "idle" /\ UNCHANGED entry
    /\ UNCHANGED <<image, run, undoes, file>>

\* The bound is reached: no further update.
Full ==
    /\ pc = "erase" /\ NextSeq(Other(run)) > MaxSeq /\ pc' = "idle"
    /\ UNCHANGED <<image, entry, run, undoes, file>>

\* The restart after the message, and a power cut anywhere.
PowerOff ==
    /\ pc # "off" /\ pc' = "off"
    /\ UNCHANGED <<image, entry, run, undoes, file>>

-----------------------------------------------------------------------------

Next ==
    \/ Boot \/ FirstPaint \/ StartFails
    \/ DownloadBegins \/ DownloadFails \/ Downloaded
    \/ Picked \/ ChangeCard \/ Refuse \/ Confirm \/ FlashFails \/ Flashed
    \/ Erase \/ Write \/ Full \/ PowerOff

\* The device boots, and a start that fails resets it.
FairSpec == Init /\ [][Next]_vars /\ WF_vars(Boot) /\ WF_vars(StartFails)

Spec == Init /\ [][Next]_vars

-----------------------------------------------------------------------------
(* Properties.                                                              *)

\* What the boot data chooses is a whole image at every moment, and what runs
\* stays whole: a cut or a failure at any step leaves a device that starts
\* ("caller is responsible for that", OtaBootSwitch.h:38).
ChosenIsWhole == Boots(Chosen(Undone)) /\ Boots(run)

\* The device starts again with the firmware that runs, as long as an update is
\* not reported as done: cancelled, failed, refused or cut half way ("the boot
\* partition was never touched").  Once it is, the new one starts.
StartsWhatWasReported ==
    /\ pc \notin {"off", "done"} => Chosen(entry) = run
    /\ pc = "done" => Chosen(entry) = Other(run)

\* A firmware that does not get to its first paint is undone, where the
\* bootloader does so.
FaultyIsUndone == undoes /\ pc = "setup" /\ image[run] = "faulty" ~> image[run] # "faulty"
=============================================================================

------------------------------- MODULE Updater -------------------------------
(***************************************************************************)
(* The guest's side of an update: the poll of the desktop loop and         *)
(* install_staged_update, which reads the staged blobs into memory, writes *)
(* them over the installed image and clears the package header. The prompt *)
(* and the buttons that ask for it are in UpdatePrompt.                    *)
(***************************************************************************)
EXTENDS Setup, UpdateService

VARIABLES
    available, \* update_available; the fields shown to the user are in UpdatePrompt
    upd,       \* install_staged_update: where it is, the header it read, its buffers
    touched,   \* history: staged sectors written since the header, and by whom
    mixed,     \* history: an installation completed although they were touched
    done       \* history: packages that were installed, and their headers whose clearing failed

guestVars == <<available, upd>>
updateVars == <<guestVars, touched, mixed, done>>

NoOffer == [version |-> 0, build |-> None]
NoUpdate == [at |-> "idle", pkg |-> NoOffer, target |-> NoRegion, buffer |-> <<>>]

UpdateInit ==
    /\ available = FALSE /\ upd = NoUpdate
    /\ touched = {} /\ mixed = FALSE /\ done = [installed |-> {}, unclear |-> {}]

Updating == upd # NoUpdate
Desktop == phase = "NONE" /\ ~Updating

(* update_package_read_header *)
Announced == IF disk[PackageSector].kind = "package"
             THEN [version |-> disk[PackageSector].version, build |-> disk[PackageSector].build]
             ELSE NoOffer

(* poll_update_package: an unreadable header reads as none.                *)
Poll(bad) ==
    /\ Desktop
    /\ available' = (PackageSector \notin bad /\ Announced # NoOffer)
    /\ UNCHANGED upd

(* installer_find_existing_install; the whole drive when nothing is found. *)
UpdateTarget(bad) == IF Existing(bad) = <<>> THEN Whole ELSE Existing(bad)[1]

(* The beginning of install_staged_update: the header is read again, then  *)
(* the target is looked up.                                                *)
Begin(bad) ==
    /\ Desktop /\ available
    /\ PackageSector \notin bad /\ Announced # NoOffer
    /\ upd' = [at |-> "read", pkg |-> Announced, target |-> UpdateTarget(bad), buffer |-> <<>>]
    /\ UNCHANGED available

(* A failure that takes the package off the drive. *)
UpdateFails_clears ==
    /\ upd.at = "read"
    /\ Write(PackageSector, Blank, TRUE)
    /\ upd' = NoUpdate
    /\ UNCHANGED <<job, available>>

(* Either buffer may not be had (allocate_surface_buffer), a sector not be *)
(* read, or the image not fit: nothing has been written yet.               *)
UpdateFails ==
    /\ upd.at = "read"
    /\ upd' = NoUpdate
    /\ UNCHANGED <<disk, job, available>>

(* read_disk_blob that begins a sector early. *)
ReadBlob_early ==
    /\ upd.at = "read" /\ Len(upd.buffer) < ImageSize
    /\ upd' = [upd EXCEPT !.buffer = Append(@, disk[StagedSector(Len(@))])]
    /\ UNCHANGED <<disk, job, available>>

(* read_disk_blob, one sector. *)
ReadBlob ==
    /\ upd.at = "read" /\ Len(upd.buffer) < ImageSize
    /\ upd' = [upd EXCEPT !.buffer = Append(@, disk[StagedSector(Len(@) + 1)])]
    /\ UNCHANGED <<disk, job, available>>

(* The package taken off the drive before it is installed. *)
WriteBegins_clears ==
    /\ upd.at = "read" /\ Len(upd.buffer) = ImageSize /\ Fits(upd.target)
    /\ Write(PackageSector, Blank, TRUE)
    /\ job' = StartJob(upd.buffer, upd.target)
    /\ upd' = [upd EXCEPT !.at = "write"]
    /\ UNCHANGED available

WriteBegins ==
    /\ upd.at = "read" /\ Len(upd.buffer) = ImageSize /\ Fits(upd.target)
    /\ job' = StartJob(upd.buffer, upd.target)
    /\ upd' = [upd EXCEPT !.at = "write"]
    /\ UNCHANGED <<disk, available>>

UpdateWrites(ok) ==
    /\ upd.at = "write" /\ JobWrites(ok)
    /\ upd' = IF ok THEN upd ELSE NoUpdate
    /\ UNCHANGED available

(* An end that only forgets the offer. *)
UpdateEnds_keeps(ok) ==
    /\ upd.at = "write" /\ JobDone
    /\ job' = NoJob /\ upd' = NoUpdate /\ available' = FALSE
    /\ UNCHANGED disk

(* clear_update_package_header, whose result is not looked at, and         *)
(* reset_update_state                                                      *)
UpdateEnds(ok) ==
    /\ upd.at = "write" /\ JobDone
    /\ Write(PackageSector, Blank, ok)
    /\ job' = NoJob /\ upd' = NoUpdate /\ available' = FALSE

=============================================================================

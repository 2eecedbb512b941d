---------------------------- MODULE UpdateService ----------------------------
(***************************************************************************)
(* tools/update_service.py on the host: images dropped into the inbox are  *)
(* written to the end of the virtual drive, blobs first, then the header   *)
(* that announces them; the version and hash of what was staged are saved  *)
(* afterwards. The process may fail or be killed between any two writes.   *)
(***************************************************************************)
EXTENDS Disk, FiniteSets

CONSTANTS
    Missed,       \* sectors that sometimes cannot be read during an update
    MaxVersion,   \* versions the host hands out
    Imports       \* images the user has dropped into the inbox

(* The service refuses to stage on a drive on which kernel_lba would be 0. *)
ASSUME ServiceAssumption ==
    /\ ImageSize < Total - 1
    /\ MaxVersion \in Nat /\ Imports \in Nat

VARIABLES
    inbox,    \* images waiting, oldest first
    saved,    \* the state file: version and last_staged_sha256
    host,     \* where process_iso is: step, sector to write, build and version
    slipped   \* history: process_iso was broken off after it announced a build

hostVars == <<inbox, saved, host, slipped>>

None == "none"
ASSUME NoneAssumption == None \notin Build
AtRest == [step |-> "poll", next |-> 0, build |-> None, version |-> 0]
PackageSector == Total - 1

(* kernel_lba and initrd_lba: part i of the staged image *)
StagedSector(i) == PackageSector - ImageSize + i - 1
StagedSectors == {StagedSector(i) : i \in Parts}

HostTypeOK ==
    /\ inbox \in Seq(Build)
    /\ saved \in [version : 0 .. MaxVersion, hash : Build \cup {None}]
    /\ host \in [step : {"poll", "stage", "archive", "save"}, next : 0 .. ImageSize + 1,
                 build : Build \cup {None}, version : 0 .. MaxVersion]
    /\ slipped \in SUBSET (1 .. MaxVersion)

HostInit ==
    /\ inbox \in UNION {[1 .. n -> Build] : n \in 1 .. Imports}
    /\ saved = [version |-> 0, hash |-> None] /\ host = AtRest
    /\ slipped = {}

(* process_iso: an image staged last time is only archived. *)
Duplicate ==
    /\ host = AtRest /\ inbox # <<>> /\ Head(inbox) = saved.hash
    /\ inbox' = Tail(inbox)
    /\ UNCHANGED <<disk, saved, host, slipped>>

NextVersion == saved.version + 1

StageBegins ==
    /\ host = AtRest /\ inbox # <<>> /\ Head(inbox) # saved.hash
    /\ NextVersion <= MaxVersion
    /\ host' = [step |-> "stage", next |-> 1, build |-> Head(inbox), version |-> NextVersion]
    /\ UNCHANGED <<disk, inbox, saved, slipped>>

(* stage_iso_into_disk: one sector of the blobs. *)
StageBlob ==
    /\ host.step = "stage" /\ host.next <= ImageSize
    /\ disk' = [disk EXCEPT ![StagedSector(host.next)] = Data(host.build, host.next)]
    /\ host' = [host EXCEPT !.next = @ + 1]
    /\ UNCHANGED <<inbox, saved, slipped>>

(* ... and the header behind them. *)
StageHeader ==
    /\ host.step = "stage" /\ host.next = ImageSize + 1
    /\ disk' = [disk EXCEPT ![PackageSector] = Package(host.version, host.build)]
    /\ host' = [host EXCEPT !.step = "archive"]
    /\ UNCHANGED <<inbox, saved, slipped>>

(* maybe_rebuild_iso and archive_iso; nothing but HostFails lies between.  *)
Archived ==
    /\ host.step = "archive" /\ host' = [host EXCEPT !.step = "save"]
    /\ inbox' = Tail(inbox)
    /\ UNCHANGED <<disk, saved, slipped>>

(* save_state *)
Saved ==
    /\ host.step = "save" /\ host' = AtRest
    /\ saved' = [version |-> host.version, hash |-> host.build]
    /\ UNCHANGED <<disk, inbox, slipped>>

(* An exception in any step (caught by run_watch_loop), or the process is  *)
(* killed and started again: it goes on from the inbox and the state file. *)
HostFails ==
    /\ host # AtRest /\ host' = AtRest
    /\ slipped' = IF host.step \in {"archive", "save"}
                  THEN slipped \cup {host.version} ELSE slipped
    /\ UNCHANGED <<disk, inbox, saved>>

HostNext ==
    \/ Duplicate \/ StageBegins \/ StageBlob \/ StageHeader
    \/ Archived \/ Saved \/ HostFails
=============================================================================
